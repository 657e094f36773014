SPECIFICATION MCSpec
CONSTANTS
  MaxByte = 2
  SOF = 2
  Fcs <- MCFcs
  MaxRead = 3
  BufSize = 9
  Streams <- MCStreams
  NumSensors = 2
  Timeout = 1
  MaxLag = 1
  MaxReports = 2
  MaxStarts = 3
INVARIANTS ParserInv AlarmInv StartupInv
PROPERTIES EveryAlarmEnds WipeIsAskedFor StartsEnd
CHECK_DEADLOCK FALSE
