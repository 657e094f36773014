SPECIFICATION MCSpec
CONSTANTS
  Areqs = {a1, a2}
  ResetInd = resetInd
  NoFrame = noFrame
  Size = 3
  Items = {i1, i2, i3, i4}
  Producers = {dispatcher, cli}
  Nodes = {n1, n2, n3}
  NULL = NULL
  Sirens = {s1, s2}
  Sensors = {d1}
  Readers = {use_case}
  Capacity = 2
  MaxLookups = 1
  Nothing = Nothing
INVARIANTS QueueIsSound SleeperIsSignalled AnswerStaysQueued MailInv WatchInv
PROPERTIES FifoSpec ResetReturns InboxSpec EveryItemHandled SilenceIsNoticed
CHECK_DEADLOCK FALSE
