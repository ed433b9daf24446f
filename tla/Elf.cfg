SPECIFICATION Spec
CONSTANTS
  Half <- MCHalf
  Hdr = 16
  Files <- MCAllFiles
  Stages = TRUE
INVARIANTS TypeOK BssPanics RelocatedInOrder
PROPERTY WritesStayInTarget
CHECK_DEADLOCK FALSE
