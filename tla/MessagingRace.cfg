CONSTANTS
  Callers = {c1, c2}
  ParsingThread = parsing
  Ops = {"sync", "async", "post"}
  CallbackOps = {}
  Timeouts = {"forever"}
  LongWait = TRUE
  PromptDevice = TRUE
  MapsRace = TRUE
  UnsolicitedCodes <- ControlChannel
  DeviceIdentifiers = {0, 2}
  MaxRequests = 2
  MaxUnsolicited = 1
  MaxChannels = 0
SYMMETRY Symmetry
SPECIFICATION Spec
INVARIANTS IdentifiersIncrease RepliesReachTheirCaller
PROPERTIES NewIdentifiersFollowSeen
CHECK_DEADLOCK FALSE
