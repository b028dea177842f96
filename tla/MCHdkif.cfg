CONSTANTS
  N = 4
  Packets = {p1, p2, p3}
  MaxLen = 2
  D = 4
  P = 6
  MaxKept = 5
  NULL = NULL
SPECIFICATION Spec
INVARIANTS TxSound RxSound
PROPERTIES ImplementsTxQueue DryOnlyAfterFailure ReceptionRestarts
CHECK_DEADLOCK FALSE
