CONSTANTS
  o1 = o1
  o2 = o2
  Objects <- TwoObjects
  MaxBlocks = 3
  MaxArguments = 2
SPECIFICATION Spec
INVARIANTS MemoryInv NoFault ListIsSent
SYMMETRY Alike
CHECK_DEADLOCK FALSE
