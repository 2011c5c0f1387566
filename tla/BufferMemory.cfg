CONSTANTS
  Alignment = 4
  MaxStream = 9
  MaxPacket = 5
  MaxFailures = 1
SPECIFICATION BufferSpec
INVARIANTS BufferInv
CHECK_DEADLOCK FALSE
