CONSTANTS
  Callers = {c1, c2}
  ParsingThread = parsing
  Ops = {"sync"}
  CallbackOps = {}
  Timeouts = {"forever"}
  LongWait = FALSE
  PromptDevice = FALSE
  MapsRace = FALSE
  UnsolicitedCodes <- ControlChannel
  DeviceIdentifiers = {9}
  MaxRequests = 2
  MaxUnsolicited = 1
  MaxChannels = 0
  MaxSessions = 2
SPECIFICATION FairSessionsSpec
INVARIANTS SessionsInv OnlyDisconnectStrands
PROPERTIES CallReturnsInSession
CHECK_DEADLOCK FALSE
