CONSTANTS
  Callers = {c1, c2}
  ParsingThread = parsing
  Ops = {"async", "sync", "make", "cancel"}
  CallbackOps = {"async", "post"}
  Timeouts = {"finite"}
  LongWait = FALSE
  PromptDevice = FALSE
  MapsRace = FALSE
  UnsolicitedCodes <- NegativeCodes
  DeviceIdentifiers = {2}
  MaxRequests = 2
  MaxUnsolicited = 1
  MaxChannels = 1
SPECIFICATION FairSpec
INVARIANTS OwnReplyOnly HandlerRunsOnce PromiseAlive NobodyIsForgotten
PROPERTIES CanceledChannelsStayQuiet ChannelMessagesAreHandled ServesCalls RepliesGoOut
CHECK_DEADLOCK FALSE
