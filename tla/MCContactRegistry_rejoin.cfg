SPECIFICATION Spec
CONSTANTS
  front = front
  back = back
  b1 = b1
  Sensors = {front, back}
  Addrs = {a1, a2, b1}
  OwnerOf <- MCOwnerOf
  NoIeee = NoIeee
  NoAddr = NoAddr
  Capacity = 2
  CacheSize = 3
  MaxRetries = 1
  RetryWrap = 2
  MaxZone = 1
  MaxRestarts = 1
INVARIANTS RejoinedIsSetUpAgain
CHECK_DEADLOCK FALSE
