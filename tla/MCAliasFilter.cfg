CONSTANTS
  PHYS = phys
  Aliases = {a1, a2}
  Bits = 3
  Multicast = {6}
  HostBits = {2, 3}
  PhysIp = 1
SPECIFICATION FilterSpec
INVARIANTS FilterSound
