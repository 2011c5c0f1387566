CONSTANTS
  MaxSessions = 2
  MaxQueued = 1
SPECIFICATION FairSpec
INVARIANTS LifecycleInv SessionsDoNotMix
PROPERTIES FaultsHaveACause DisconnectReturns
CHECK_DEADLOCK FALSE
