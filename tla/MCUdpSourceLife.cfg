CONSTANTS
  PHYS = PHYS
  a1 = a1
  Aliases = {a1}
  ipA = ipA
  ipB = ipB
  ANY = ANY
  IPs = {ipA, ANY}
  PHYS_IP = ipA
  p1 = p1
  p2 = p2
  loc = loc
  PCBs = {p1, p2, loc}
  LOC = loc
  LOC_PORT = 23
  Ports = {7}
  Ephemeral = {50}
  UDP_MAX_LISTENERS = 2
  Slots <- Slots2
  GenMod = 3
  BcastNet = {ipA}
  NULL = NULL
  NoMsg = NoMsg
  MaxCloses = 4
  MaxArrivals = 1
SPECIFICATION FairSpec

INVARIANTS TypeOK StaleIdRejected
PROPERTIES MailboxDrained
