SPECIFICATION Spec
CONSTANTS
  Irqs = {33}
  Exceptions = {2, 14}
  FaultCodes = {{1}, {1, 2}, {0, 4}}
  Quarter = 4
  StubAddress <- MCStubAddress
  MaxDepth = 2
INVARIANTS TypeOK HandlerSeesInterrupted CalledByAbi ReportMatches
PROPERTY ResumesExactly
CHECK_DEADLOCK FALSE
