CONSTANTS
  Callers = {c1}
  ParsingThread = parsing
  Ops = {"make", "cancel"}
  CallbackOps = {}
  Timeouts = {"forever"}
  LongWait = FALSE
  PromptDevice = TRUE
  MapsRace = FALSE
  UnsolicitedCodes <- ControlChannel
  DeviceIdentifiers = {2}
  MaxRequests = 2
  MaxUnsolicited = 0
  MaxChannels = 1
SPECIFICATION FairSpec
PROPERTIES CancelReturnsOnceAnswered
CHECK_DEADLOCK FALSE
