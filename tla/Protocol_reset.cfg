\* Atomic adapter; the custom handler overrides reset().
CONSTANTS
  Order <- CustomDevice
  Value = {0, 1}
  Zero = 0
  Defaults <- CustomOne
  ValidCustom = {0, 1}
  CustomResets = TRUE
  HasStorage = TRUE
  WriteThrough = FALSE
  EraseThrough = FALSE
  Crc <- WeakestCrc
  CrcValue = {0, 1}
  NoHeader = NoHeader
  Junk = Junk
  AppCalls = {"save", "factoryReset"}
SPECIFICATION Spec
PROPERTIES ResetPublishesAfterCommit
