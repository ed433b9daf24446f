SPECIFICATION FairSpec
CONSTANTS
  Contexts = {"page"}
  BootMasks <- MCAllMasked
  KeyStages <- MCAfterFlush
  DriverLines = {4}
  DeviceLines = {4}
  Traps = {2}
  MaxFrames = 4
  MaxTicks = 2
  MaxKeys = 2
PROPERTIES KeysAreRead IrqsReturn
CHECK_DEADLOCK FALSE
