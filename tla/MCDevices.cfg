SPECIFICATION MCSpec
CONSTANTS
  front = front
  back = back
  b1 = b1
  Devices = {front, back}
  Addrs = {a1, a2, b1}
  OwnerOf <- MCOwnerOf
  NoIeee = NoIeee
  NoAddr = NoAddr
  Capacity = 2
  Volumes = {1, 2}
  DefaultVolume = 2
  NoVolume = 0
  MaxRestarts = 1
  None = None
  Ieee = ieee
  Profiles <- MCProfiles
  MaxButtons = 2
  MaxCached = 2
  MaxPending = 1
  MaxBacklog = 1
  MaxMishaps = 1
  MovesEarly = FALSE
SYMMETRY AddrSymmetry
INVARIANTS DeviceInv SettingIsKept
PROPERTIES ClaimsAreFounded
CHECK_DEADLOCK FALSE
