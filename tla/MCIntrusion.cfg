SPECIFICATION MCSpec
CONSTANTS
  front = front
  back = back
  Doors = {front, back}
  Zones = {0, 1}
  DefaultZone = 0
  Distances = {0, 100, 200}
  FirstBand <- MCFirstBand
  Bands <- MCBands
  DoorOf <- MCDoorOf
  MaxMoves = 2
  MaxReports = 2
  MaxZoneOrders = 1
  MaxRefreshes = 1
  Sensors = {sensor}
  Addrs = {a1, a2}
  OwnerOf <- MCOwnerOf
  NoIeee = NoIeee
  NoAddr = NoAddr
  FirstAddr <- MCFirstAddr
  Capacity = 2
  StaleAge = 2
  RetryAge = 1
  Grace = 1
  LateAnnounces = FALSE
  MaxPending = 2
  MaxTurns = 2
  MaxLosses = 1
INVARIANTS IntrusionInv DoorInv
PROPERTIES EveryIntrusionSounds LostNotificationIsCorrected
CHECK_DEADLOCK FALSE
