CONSTANTS
  PCBs = {loc, p1, p2, p3}
  LOC = loc
  Keys = {k0, k1, k2}
  LocKey = k0
  MaxMoves = 4
  MaxOpens = 4
  NULL = NULL
SPECIFICATION Spec
INVARIANTS PcbsSound
PROPERTIES BindEnds
CHECK_DEADLOCK FALSE
