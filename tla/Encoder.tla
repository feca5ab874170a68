-------------------------------- MODULE Encoder --------------------------------
(***************************************************************************)
(* via::Encoder (src/src/VIA_Encoder.h): a quadrature encoder polled by    *)
(* the main loop.  The shaft turns between two polls as it likes; the pins *)
(* show its position modulo 4.  lastPinState_ always equals lastState_.    *)
(***************************************************************************)
EXTENDS Integers

CONSTANTS
  EncoderClock,  \* number of values of the clock
  Debounces,     \* values of debounceUs_
  MaxEdges,      \* most quarter steps the shaft makes
  PollGap        \* longest time between two polls

ASSUME EncoderAssumption ==
  /\ {EncoderClock, MaxEdges, PollGap} \subseteq Nat \ {0}
  /\ Debounces \subseteq 0..EncoderClock - 1

VARIABLES
  debounce, clock, lastState, lastChangeTs, steps,
  shaft, edges,  \* position of the shaft and edges it has made
  seen,          \* history: position at the last change of lastState
  skipped,       \* history: a change was not by one edge
  mark,          \* history: what seen was at the last consume()
  turned,        \* history: quarter steps between the last two consume()s ...
  returned,      \* ... and what the later one returned
  consumed       \* history: sum of what consume() returned

results     == <<mark, turned, returned, consumed>>
encoderVars == <<debounce, clock, lastState, lastChangeTs, steps, shaft, edges, seen, skipped,
                 results>>

\* Both pins as a number: clockwise they go 0, 2, 3, 1.
Pins(position) == CASE position % 4 = 0 -> 0 [] position % 4 = 1 -> 2
                    [] position % 4 = 2 -> 3 [] position % 4 = 3 -> 1

Clockwise == { <<0, 2>>, <<2, 3>>, <<3, 1>>, <<1, 0>> }

ShaftTurns ==
  /\ edges < MaxEdges /\ edges' = edges + 1
  /\ shaft' \in {shaft - 1, shaft + 1}
  /\ UNCHANGED <<debounce, clock, lastState, lastChangeTs, steps, seen, skipped, results>>

\* Mutant: a change that comes too soon is remembered.
EncoderUpdate_Remembers ==
  /\ \E d \in 0..PollGap : clock' = (clock + d) % EncoderClock
  /\ IF Pins(shaft) # lastState
     THEN /\ lastState' = Pins(shaft) /\ lastChangeTs' = clock'
          /\ seen' = shaft /\ skipped' = (skipped \/ shaft \notin {seen - 1, seen + 1})
          /\ steps' = IF (clock' - lastChangeTs) % EncoderClock < debounce THEN steps
                      ELSE IF <<lastState, Pins(shaft)>> \in Clockwise THEN steps + 1
                      ELSE IF <<Pins(shaft), lastState>> \in Clockwise THEN steps - 1 ELSE steps
     ELSE UNCHANGED <<lastState, lastChangeTs, seen, skipped, steps>>
  /\ UNCHANGED <<debounce, shaft, edges, results>>

EncoderUpdate ==
  /\ \E d \in 0..PollGap : clock' = (clock + d) % EncoderClock
  /\ IF Pins(shaft) # lastState /\ (clock' - lastChangeTs) % EncoderClock >= debounce
     THEN /\ lastState' = Pins(shaft) /\ lastChangeTs' = clock'
          /\ seen' = shaft /\ skipped' = (skipped \/ shaft \notin {seen - 1, seen + 1})
          /\ steps' = IF <<lastState, Pins(shaft)>> \in Clockwise THEN steps + 1
                      ELSE IF <<Pins(shaft), lastState>> \in Clockwise THEN steps - 1 ELSE steps
     ELSE UNCHANGED <<lastState, lastChangeTs, seen, skipped, steps>>
  /\ UNCHANGED <<debounce, shaft, edges, results>>

\* Mutant: the quotient is rounded down, as an arithmetic shift would.
count_Floors == steps \div 4

\* steps_ / 4, which C++ rounds towards zero.
count == IF steps < 0 THEN -((-steps) \div 4) ELSE steps \div 4

\* The sketches consume after every update; a caller may do so at any time.
EncoderConsume ==
  /\ returned' = count /\ consumed' = consumed + count
  /\ steps' = 0
  /\ turned' = seen - mark /\ mark' = seen
  /\ UNCHANGED <<debounce, clock, lastState, lastChangeTs, shaft, edges, seen, skipped>>

EncoderInit ==
  /\ debounce \in Debounces /\ clock = 0
  /\ lastState = 0 /\ lastChangeTs = 0 /\ steps = 0
  /\ shaft = 0 /\ edges = 0 /\ seen = 0 /\ skipped = FALSE
  /\ mark = 0 /\ turned = 0 /\ returned = 0 /\ consumed = 0

EncoderNext == ShaftTurns \/ EncoderUpdate \/ EncoderConsume
EncoderSpec == EncoderInit /\ [][EncoderNext]_encoderVars

-----------------------------------------------------------------------------
\* Whatever the debounce delays and whichever way the shaft turns: until a poll misses
\* an edge, steps_ is how far it has turned since the last consume(), and a consume()
\* has returned the full detents turned since the one before.  It forgets less than a
\* detent, and in the direction of the turn: it never returns a detent that was not made.
EncoderExact ==
  /\ lastState = Pins(seen)
  /\ ~skipped =>
       /\ steps = seen - mark
       /\ turned >= 0 => turned - 4 * returned \in 0..3
       /\ turned <= 0 => turned - 4 * returned \in -3..0

\* src/docs/API.md: "Each full detent produces +-1", with consume() called in every
\* loop as the sketches do: what was returned is within a detent of the shaft.
EveryDetentCounts ==
  ~skipped => 4 * consumed + steps - seen \in -3..3
=============================================================================
