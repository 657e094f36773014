SPECIFICATION Spec
CONSTANTS
  Threads = {t1, t2}
  AfData = af
  Cmds = {af, zdo}
  NoCmd = noCmd
  Nobody = nobody
  MaxCalls = 3
INVARIANTS StaleAnswerIsIgnored
CHECK_DEADLOCK FALSE
