SPECIFICATION Spec
CONSTANTS
  Half <- MCHalf
  Hdr = 16
  Files <- MCProgramFiles
  Stages = FALSE
INVARIANT OverflowIsDenied
CHECK_DEADLOCK FALSE
