\* Bytewise EEPROM: every write is durable at once and may be torn.
CONSTANTS
  Order <- PlainDevice
  Value = {0, 1}
  Zero = 0
  Defaults <- AllZero
  ValidCustom = {}
  CustomResets = FALSE
  HasStorage = TRUE
  WriteThrough = TRUE
  EraseThrough = TRUE
  Crc <- WeakestCrc
  CrcValue = {0, 1}
  NoHeader = NoHeader
  Junk = Junk
  AppCalls = {"load"}
SPECIFICATION Spec
INVARIANTS NeverMixed CleanMeansDurable
PROPERTIES OkMeansDurable
