CONSTANTS
  fragment_length = 12
  MaxFragments = 6
  MaxRefusals = 1
  Primitives <- Values
  Objects <- ShortObjects
  Buffers <- LongBuffers
  MaxArguments = 2
  MaxSends = 2
SPECIFICATION FairSpec
INVARIANTS SendingInv NothingIsRepeated ArgumentsArrive
PROPERTIES TransmissionEnds
CHECK_DEADLOCK FALSE
