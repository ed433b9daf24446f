SPECIFICATION FairSpec
CONSTANTS
  Contexts = {"null"}
  BootMasks <- MCAllMasked
  KeyStages <- MCAfterFlush
  DriverLines = {}
  DeviceLines = {}
  Traps = {}
  MaxFrames = 4
  MaxTicks = 1
  MaxKeys = 0
PROPERTY IrqsReturn
CHECK_DEADLOCK FALSE
