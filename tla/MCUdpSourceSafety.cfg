CONSTANTS
  PHYS = PHYS
  a1 = a1
  Aliases = {a1}
  ipA = ipA
  ipB = ipB
  ANY = ANY
  IPs = {ipA, ipB, ANY}
  PHYS_IP = ipA
  p1 = p1
  p2 = p2
  loc = loc
  PCBs = {p1, p2, loc}
  LOC = loc
  LOC_PORT = 23
  Ports = {0, 7}
  Ephemeral = {50}
  UDP_MAX_LISTENERS = 2
  Slots <- Slots2
  GenMod = 2
  BcastNet = {ipA, ipB}
  NULL = NULL
  NoMsg = NoMsg
  MaxCloses = 1
  MaxArrivals = 2
SPECIFICATION Spec
INVARIANTS PcbOwnership NoDoubleBind NoOrphanSocket LiveSocketCanSend Accounting NoMessageFromThePast
PROPERTIES StoredForOwner LeakOnlyWhileOpening
SYMMETRY PcbSymmetry
