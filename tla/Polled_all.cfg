\* Both directions of scanning, with and without debouncing; every clock wraps. Seven
\* edges, a detent and most of the next; three samples; seven held keys, a rollover,
\* some with a modifier of their own (516 is 4 with Left Shift).
CONSTANTS
  Rows = 2
  Columns = 2
  Switches <- Diagonal
  Configs <- BothWays
  Clock = 8
  MaxGap = 3
  TimerClock = 8
  AutoSaveMs = 2
  SleepMs = 3
  LoopMs = 3
  EncoderClock = 4
  Debounces = {0, 2}
  MaxEdges = 7
  PollGap = 1
  MaxSamples = 3
  Raws = {0, 2, 3}
  MaxRaw = 3
  Vref = 9
  MinMv = 3
  MaxMv = 7
  Positions = 7
  Codes = {4, 164, 225, 516}
SPECIFICATION PolledSpec
INVARIANTS TypeOK ViewFollows TimersInTime SensorsExact 
PROPERTIES OnlyLastingImages Settles
