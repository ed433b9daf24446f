SPECIFICATION Spec
CONSTANTS
  Columns = 2
  Lines = 2
  Nesting = 2
INVARIANTS TypeOK CursorRests DrawsStrayLittle TextEndsAtCursor
