SPECIFICATION SpecPut
CONSTANTS
  PAGE_TABLE_SIZE = 3
  MAX_MEMORY_REGIONS = 2
  HHDM_OFFSET = 20
  KERNEL_BASE = 5
  ADDRESS_SPACE = 64
  MaxEntries = 3
  MemMaps <- MCMemMaps
INVARIANT UsedIsHeld
CHECK_DEADLOCK FALSE
