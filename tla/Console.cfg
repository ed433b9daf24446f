SPECIFICATION Spec
CONSTANTS
  Word = 256
  Buffer = 4
  IntMax = 4
  FifoDepth = 3
  Nesting = 2
  Calls <- MCCalls
  Garbage <- MCGarbage
  MaxHandlers = 2
INVARIANTS TypeOK  OnlyBinarySpills SendFindsRoom Delivered
PROPERTY PrintfReturns
CHECK_DEADLOCK FALSE
