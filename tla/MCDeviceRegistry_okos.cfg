SPECIFICATION Spec
CONSTANTS
  front = front
  back = back
  b1 = b1
  Devices = {front, back}
  Addrs = {a1, a2, b1}
  OwnerOf <- MCOwnerOf
  NoIeee = NoIeee
  NoAddr = NoAddr
  Capacity = 2
  Volumes = {1, 2}
  DefaultVolume = 2
  NoVolume = 0
  MaxRestarts = 1
INVARIANTS OkosConfiguredIsSent
CHECK_DEADLOCK FALSE
