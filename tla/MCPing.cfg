CONSTANTS
  None = None
  SeqMod = 3
  PING_ATTEMPT_COUNT = 2
  MaxAge = 4
SPECIFICATION FairSpec

INVARIANTS AnswerIsOwn
PROPERTIES LateReplyNotTaken PingReturns CtrlCHeard
