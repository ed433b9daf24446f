SPECIFICATION Spec
CONSTANTS
  Contexts = {"null", "page"}
  BootMasks <- MCAllMasked
  KeyStages <- MCAnyStage
  DriverLines = {4}
  DeviceLines = {4, 8}
  Traps = {2, 13}
  MaxFrames = 4
  MaxTicks = 2
  MaxKeys = 2
INVARIANTS TypeOK IrqsDoNotNest ServiceMatches VectorsAreDistinct FlagRestored
PROPERTY HaltIsFinal
CHECK_DEADLOCK FALSE
