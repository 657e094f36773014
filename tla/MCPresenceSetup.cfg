SPECIFICATION FairSpec
CONSTANTS
  Sensors = {s1}
  Addrs = {1, 2}
  OwnerOf <- MCOwnerOf
  None = None
  Capacity = 2
  MaxRetries = 2
  Settle = 1
  Cooldown = 2
  MaxFailures = 2
  MaxOrders = 1
  MaxDiscoveries = 2
INVARIANTS SetupInv
PROPERTIES SetupsAreApart GetsConfigured
CHECK_DEADLOCK FALSE
