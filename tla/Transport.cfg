CONSTANTS
  Messages <- Two
  NoMessage = none
  Chunks <- TwoChunks
  buffer_size_ = 4
SPECIFICATION FairSpec
INVARIANTS NothingOvertakes WireInv
PROPERTIES EverythingIsSent
CHECK_DEADLOCK FALSE
