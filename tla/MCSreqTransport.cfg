SPECIFICATION FairSpec
CONSTANTS
  Threads = {t1, t2}
  AfData = af
  Cmds = {af, zdo}
  NoCmd = noCmd
  Nobody = nobody
  MaxCalls = 3
INVARIANTS
  AnswerHasOwnCommand
  CrossingNeedsTimeout
  LateAnswersBounded
  GateInv
PROPERTIES
  CallsReturn
  ServiceSpec
CHECK_DEADLOCK FALSE
