\* Liveness: one content per section, a fallible bytewise EEPROM.
CONSTANTS
  Order <- PlainDevice
  Value = {0}
  Zero = 0
  Defaults <- AllZero
  ValidCustom = {}
  CustomResets = FALSE
  HasStorage = TRUE
  WriteThrough = TRUE
  EraseThrough = TRUE
  Crc <- WeakestCrc
  CrcValue = {0, 1}
  NoHeader = NoHeader
  Junk = Junk
  AppCalls = {}
SPECIFICATION FairSpec
PROPERTIES EventuallySaved GrantedJumpHappens EveryAnswerSent
