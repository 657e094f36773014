SPECIFICATION FairSpec
CONSTANTS
  None = None
  Ieee = ieee
  Profiles <- MCProfiles
  MaxButtons = 2
  MaxCached = 2
  MaxPending = 1
  MaxBacklog = 2
  MaxMishaps = 1
  MovesEarly = FALSE
PROPERTIES EventuallyWorks PanicIsHeard
CHECK_DEADLOCK FALSE
