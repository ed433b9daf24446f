SPECIFICATION Spec
CONSTANTS
  PAGE_TABLE_SIZE = 4
  MAX_MEMORY_REGIONS = 2
  HHDM_OFFSET = 20
  KERNEL_BASE = 5
  ADDRESS_SPACE = 64
  MemMaps <- MCMemMaps
  NR_PROC = 3
  Starts = {s1, s2}
  Args = {0, a1}
  Names = {n1}
  None = None
INVARIANTS TypeOK ContextsExclusive ContextsAllocated CountMatches PanicOnlyWhenFull
PROPERTY PoolSpec
CHECK_DEADLOCK FALSE
