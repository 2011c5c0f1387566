CONSTANTS
  CommandLines <- Lines
  Chunks <- DumpFiles
  Numbers <- StoI
  Scripts <- Subcommands
  MaxArguments = 5
  MaxWords = 2
SPECIFICATION ToolSpec
INVARIANTS DecodeInv DeviceInv AbortsAreKnown
PROPERTIES ToolEnds
CHECK_DEADLOCK FALSE
