CONSTANTS
  ARP_TABLE_SIZE = 2
  LastHost = 4
  Own = 1
  CleanEvery = 2
  Netifs = {n0, n1}
  Sessions <- MCSessions
  MaxPackets = 2
  MaxArp = 2
  NULL = NULL
SPECIFICATION Spec
INVARIANTS TableSound
PROPERTIES ResetForgets ScanFinds
