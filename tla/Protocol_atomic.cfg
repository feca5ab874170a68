\* Provisional-until-commit adapter (NVS, InternalFS writes), custom handler
\* without its own reset().
CONSTANTS
  Order <- CustomDevice
  Value = {0, 1}
  Zero = 0
  Defaults <- CustomOne
  ValidCustom = {1}
  CustomResets = FALSE
  HasStorage = TRUE
  WriteThrough = FALSE
  EraseThrough = FALSE
  Crc <- WeakestCrc
  CrcValue = {0, 1}
  NoHeader = NoHeader
  Junk = Junk
  AppCalls = {"save", "factoryReset"}
SPECIFICATION Spec
INVARIANTS TypeOK CleanMeansDurable AnswersInOrder
PROPERTIES JumpIsAnnounced ResetPublishesAfterCommit RefinesSettingsStore
