\* Nothing is skipped or debounced away: one detent, consumed on the way.
CONSTANTS
  EncoderClock = 4
  Debounces = {0}
  MaxEdges = 4
  PollGap = 1
SPECIFICATION EncoderSpec
INVARIANTS EveryDetentCounts
