SPECIFICATION MCSpec
CONSTANTS
  front = front
  back = back
  b1 = b1
  Sensors = {front, back}
  Addrs = {a1, a2, b1}
  OwnerOf <- MCOwnerOf
  NoIeee = NoIeee
  NoAddr = NoAddr
  Capacity = 2
  CacheSize = 3
  MaxRetries = 1
  RetryWrap = 2
  MaxZone = 1
  MaxRestarts = 1
  Buttons = {button1, button2, button3}
  MaxHistory = 2
  Debounce = 1
  Window = 2
  Gap = 3
  MaxDelay = 1
  MaxTime = 7
  MaxPresses = 2
SYMMETRY Symmetry
INVARIANTS RegistryInv SosInv
PROPERTIES SavedIsKept AlarmIsThreePresses
CHECK_DEADLOCK FALSE
