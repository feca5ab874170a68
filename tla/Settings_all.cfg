\* Every adapter: one bit per word of flash, three contents of the files and the
\* shadow, and counters that wrap around after four commits.  Two layers of two keys
\* and two encoder turns, two bytes of macros, bytes of two values, and buffers of up
\* to two bytes, which cross keys and ends.
CONSTANTS
  Numbers = 4
  Bit = {1}
  Content = {zeros, c1, c2}
  Zeros = zeros
  Blob = {"blank", "b1", "b2"}
  Blank = "blank"
  Layers = 2
  KeyRows = 2
  KeyColumns = 1
  Encoders = 1
  MacroBytes = 2
  Bytes256 = 2
  BufferMax = 2
  SomeCodes = {0, 1}
  DefaultCode = 1
  Levels = 2
  NoLight = NoLight
SPECIFICATION SettingsSpec
INVARIANTS StorageTypeOK FlashKeepsCommits FlashReadsCommitted FilesKeepCommits ShadowKeepsCommits SettingsKept
