CONSTANTS
  PHYS = PHYS
  Aliases = {a1}
  PHYS_IP = ip1
  IPs = {ip1, ip2, any}
  ANY = any
  UDP_MAX_LISTENERS = 3
  PortMod = 4
  WordMod = 16
  Keys <- MCKeys
  Typed = {0, 1, 2, 5}
  LocatorPort = 3
  NULL = NULL
SPECIFICATION Spec
INVARIANTS NumbersSound
PROPERTIES ImplementsConfig
