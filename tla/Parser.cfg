CONSTANTS
  Messages <- Three
  Identifier <- ThreeIdentifiers
  Pieces <- ThreePieces
  HeaderSize = 2
  PacketSize = 5
  MaxSessions = 2
SPECIFICATION FairSpec
INVARIANTS ParserInv MessagesInOrder CleanCutKeepsPlace
PROPERTIES EverythingIsDelivered
CHECK_DEADLOCK FALSE
