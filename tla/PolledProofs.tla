----------------------------- MODULE PolledProofs -----------------------------
(* Proofs about what the main loop polls: the two timers, the encoder, the      *)
(* matrix, the report of the held keys and the battery.                         *)
EXTENDS MCPolled, KeycodesProofs

-----------------------------------------------------------------------------
(* Differences on a clock that wraps *)

LEMMA Division ==
  ASSUME NEW n \in Nat \ {0}, NEW a \in Int
  PROVE  a = n * (a \div n) + (a % n) /\ a \div n \in Int /\ a % n \in 0..n - 1
OBVIOUS

LEMMA WholeTurns ==
  ASSUME NEW n \in Nat \ {0}, NEW a \in Int, NEW turns \in Int
  PROVE  (a + n * turns) % n = a % n
<1>1. PICK b \in Int : b = a + n * turns
  OBVIOUS
<1>2. PICK p \in Int, t \in 0..n - 1 : b = n * p + t /\ t = b % n
  BY Division
<1>3. PICK m \in Int, r \in 0..n - 1 : a = n * m + r /\ r = a % n
  BY Division
<1>4. n * (m + turns) = n * m + n * turns
  OBVIOUS
<1>5. n * (m + turns) + r = n * p + t
  BY <1>1, <1>2, <1>3, <1>4
<1>6. r = t
  BY <1>5
<1> QED BY <1>1, <1>2, <1>3, <1>6

LEMMA LaterOnClock ==
  ASSUME NEW n \in Nat \ {0}, NEW a \in Int, NEW b \in Int
  PROVE  /\ ((a % n) + b) % n = (a + b) % n
         /\ (b - (a % n)) % n = (b - a) % n
<1>1. PICK q \in Int, r \in Int : r = a % n /\ a = n * q + r
  <2>1. a \div n \in Int /\ a % n \in Int /\ a = n * (a \div n) + (a % n)
    BY Division
  <2> QED BY <2>1
<1>2. PICK c \in Int : c = r + b
  OBVIOUS
<1>3. PICK d \in Int : d = b - a
  OBVIOUS
<1>4. (c + n * q) % n = c % n /\ (d + n * q) % n = d % n
  BY WholeTurns
<1>5. a + b = c + n * q /\ b - r = d + n * q
  BY <1>1, <1>2, <1>3
<1> QED BY <1>1, <1>2, <1>3, <1>4, <1>5

\* d milliseconds later the difference to a point of time is d more, however the
\* clock wrapped.
LEMMA ClockAdvances ==
  ASSUME NEW n \in Nat \ {0}, NEW now1 \in Int, NEW since \in Int, NEW d \in Int
  PROVE  (((now1 + d) % n) - since) % n = (((now1 - since) % n) + d) % n
<1>1. PICK late \in Int, before \in Int, minus \in Int :
        late = now1 + d /\ before = now1 - since /\ minus = -since
  OBVIOUS
<1>2. ((late % n) + minus) % n = (late + minus) % n
  BY LaterOnClock
<1>3. ((before % n) + d) % n = (before + d) % n
  BY LaterOnClock
<1>4. late % n \in Int
  BY Division
<1>5. (late % n) + minus = (late % n) - since /\ late + minus = before + d
  BY <1>1, <1>4
<1> QED BY <1>1, <1>2, <1>3, <1>5

-----------------------------------------------------------------------------
(* Timers *)

\* While there is something to save, the clock is ahead of saveAt by as much as the
\* last edit is older than AutoSaveMs; and while no sleep is requested the clock is
\* ahead of the last activity by the idle time.  Both histories stop at a whole turn.
TimersInv ==
  /\ millis \in 0..TimerClock - 1 /\ saveAt \in 0..TimerClock - 1 /\ lastActivityTs \in 0..TimerClock - 1
  /\ {dirty, sleepRequested, saveTried} \subseteq BOOLEAN
  /\ sinceEdit \in 0..TimerClock /\ idle \in 0..TimerClock
  /\ dirty /\ sinceEdit < TimerClock =>
       (millis - saveAt) % TimerClock = (sinceEdit - AutoSaveMs) % TimerClock
  /\ saveTried => sinceEdit >= AutoSaveMs
  /\ dirty /\ sinceEdit \in AutoSaveMs..AutoSaveMs + TimerClock \div 2 - 1 => saveTried
  /\ sleepRequested => idle >= SleepMs
  /\ ~sleepRequested => idle < SleepMs \/ idle = 0
  /\ ~sleepRequested => (millis - lastActivityTs) % TimerClock = idle

LEMMA TimersConstants ==
  /\ TimerClock \in Nat \ {0} /\ TimerClock % 2 = 0
  /\ AutoSaveMs \in Nat /\ SleepMs \in Nat /\ LoopMs \in Nat
  /\ 2 * AutoSaveMs < TimerClock /\ SleepMs + LoopMs < TimerClock
BY TimersAssumption

LEMMA TimersBegin == TimersInit => TimersInv
<1> SUFFICES ASSUME TimersInit PROVE TimersInv
  OBVIOUS
<1>1. millis \in 0..TimerClock - 1 /\ millis - lastActivityTs = 0
  BY TimersConstants DEF TimersInit
<1>2. saveAt \in 0..TimerClock - 1
  BY <1>1, TimersConstants, Division DEF TimersInit
<1>3. 0 % TimerClock = 0
  BY TimersConstants
<1>4. sleepRequested = FALSE /\ dirty = FALSE /\ saveTried = FALSE /\ sinceEdit = 0 /\ idle = 0 /\ lastActivityTs = millis
  BY DEF TimersInit
<1>5. (millis - lastActivityTs) % TimerClock = 0
  BY <1>1, <1>3
<1>6. 0 \in 0..TimerClock /\ lastActivityTs \in 0..TimerClock - 1
  BY <1>1, <1>4, TimersConstants
<1> QED BY <1>1, <1>2, <1>4, <1>5, <1>6 DEF TimersInv

\* A deadline looks due from AutoSaveMs after the edit for half a turn of the clock.
LEMMA DueInTime ==
  ASSUME NEW since \in 0..TimerClock - 1
  PROVE  LET ahead == (since - AutoSaveMs) % TimerClock < TimerClock \div 2
         IN  /\ ahead => since >= AutoSaveMs
             /\ since \in AutoSaveMs..AutoSaveMs + TimerClock \div 2 - 1 => ahead
<1>1. PICK half \in Nat : half = TimerClock \div 2 /\ TimerClock = 2 * half
  BY TimersConstants
<1>2. CASE since >= AutoSaveMs
  <2>1. (since - AutoSaveMs) % TimerClock = since - AutoSaveMs
    BY <1>2, TimersConstants
  <2> QED BY <1>1, <1>2, <2>1, TimersConstants
<1>3. CASE since < AutoSaveMs
  <2>1. PICK a \in Int : a = since - AutoSaveMs + TimerClock
    BY TimersConstants
  <2>2. a \in 0..TimerClock - 1 /\ a >= half
    BY <1>1, <1>3, <2>1, TimersConstants
  <2>3. since - AutoSaveMs = a + TimerClock * (-1)
    BY <2>1, TimersConstants
  <2>4. (a + TimerClock * (-1)) % TimerClock = a % TimerClock
    <3>1. PICK turns \in Int : turns = -1
      OBVIOUS
    <3>2. (a + TimerClock * turns) % TimerClock = a % TimerClock
      BY TimersConstants, WholeTurns
    <3> QED BY <3>1, <3>2
  <2>5. a % TimerClock = a
    BY <2>2, TimersConstants
  <2>6. (since - AutoSaveMs) % TimerClock = a
    BY <2>3, <2>4, <2>5
  <2> QED BY <1>1, <1>3, <2>2, <2>6, TimersConstants
<1> QED BY <1>2, <1>3, TimersConstants

\* The conjuncts that speak of saving and of sleeping, step by step.
LEMMA SavingStep ==
  ASSUME TimersInv, NEW d \in 0..LoopMs, NEW request \in {"none", "edit", "save"},
         millis' = (millis + d) % TimerClock, TaskAt(millis', request),
         sinceEdit' = IF request = "edit" THEN 0 ELSE UpTo(sinceEdit + d)
  PROVE  /\ millis' \in 0..TimerClock - 1 /\ saveAt' \in 0..TimerClock - 1
         /\ {dirty', saveTried'} \subseteq BOOLEAN /\ sinceEdit' \in 0..TimerClock
         /\ dirty' /\ sinceEdit' < TimerClock =>
              (millis' - saveAt') % TimerClock = (sinceEdit' - AutoSaveMs) % TimerClock
         /\ saveTried' => sinceEdit' >= AutoSaveMs
         /\ dirty' /\ sinceEdit' \in AutoSaveMs..AutoSaveMs + TimerClock \div 2 - 1 => saveTried'
<1> DEFINE deadline == IF request = "edit" THEN (millis' + AutoSaveMs) % TimerClock ELSE saveAt
           unsaved  == request = "edit" \/ (dirty /\ request # "save")
<1>1. millis' \in 0..TimerClock - 1
  <2>1. millis + d \in Int
    BY TimersConstants DEF TimersInv
  <2> QED BY <2>1, TimersConstants, Division
<1>2. deadline \in 0..TimerClock - 1
  <2>1. millis' + AutoSaveMs \in Int
    BY <1>1, TimersConstants
  <2>2. (millis' + AutoSaveMs) % TimerClock \in 0..TimerClock - 1
    BY <2>1, TimersConstants, Division
  <2> QED BY <2>2 DEF TimersInv
<1>3. /\ saveAt' = deadline /\ saveTried' = (unsaved /\ Due(millis', deadline))
      /\ dirty' = unsaved \/ (saveTried' /\ dirty' = FALSE)
  BY DEF TaskAt
<1>4. saveTried' \in BOOLEAN /\ dirty' \in BOOLEAN /\ (dirty' => unsaved)
  BY <1>3 DEF Due, TimersInv
<1>5. sinceEdit' \in 0..TimerClock
  BY TimersConstants DEF TimersInv, UpTo
<1>6. unsaved /\ sinceEdit' < TimerClock =>
        (millis' - deadline) % TimerClock = (sinceEdit' - AutoSaveMs) % TimerClock
  <2>1. CASE request = "edit"
    <3>1. PICK now1 \in Int, later \in Int : now1 = millis' /\ later = millis' + AutoSaveMs
      BY <1>1, TimersConstants
    <3>2. (now1 - (later % TimerClock)) % TimerClock = (now1 - later) % TimerClock
      BY TimersConstants, LaterOnClock
    <3>3. now1 - later = 0 - AutoSaveMs
      BY <3>1, TimersConstants
    <3> QED BY <2>1, <3>1, <3>2, <3>3
  <2>2. CASE request # "edit"
    <3> SUFFICES ASSUME unsaved, sinceEdit' < TimerClock
                 PROVE  (millis' - deadline) % TimerClock = (sinceEdit' - AutoSaveMs) % TimerClock
      OBVIOUS
    <3>1. dirty /\ sinceEdit' = sinceEdit + d /\ sinceEdit < TimerClock /\ sinceEdit \in Nat /\ d \in Nat
      BY <2>2, TimersConstants DEF UpTo, TimersInv
    <3>2. PICK now1 \in Int, since \in Int, old \in Int, gap \in Int :
            gap = d /\ now1 = millis /\ since = saveAt /\ old = sinceEdit - AutoSaveMs
      BY <3>1, TimersConstants DEF TimersInv
    <3>3. (now1 - since) % TimerClock = old % TimerClock
      BY <3>1, <3>2 DEF TimersInv
    <3>4. (((now1 + gap) % TimerClock) - since) % TimerClock = (((now1 - since) % TimerClock) + gap) % TimerClock
      BY TimersConstants, ClockAdvances
    <3>5. ((old % TimerClock) + gap) % TimerClock = (old + gap) % TimerClock
      BY TimersConstants, LaterOnClock
    <3>6. old + gap = sinceEdit' - AutoSaveMs
      BY <3>1, <3>2, TimersConstants
    <3> QED BY <2>2, <3>2, <3>3, <3>4, <3>5, <3>6
  <2> QED BY <2>1, <2>2
<1>7. unsaved /\ sinceEdit' < TimerClock =>
        /\ Due(millis', deadline) => sinceEdit' >= AutoSaveMs
        /\ sinceEdit' \in AutoSaveMs..AutoSaveMs + TimerClock \div 2 - 1 => Due(millis', deadline)
  <2> SUFFICES ASSUME unsaved, sinceEdit' < TimerClock
               PROVE  /\ Due(millis', deadline) => sinceEdit' >= AutoSaveMs
                      /\ sinceEdit' \in AutoSaveMs..AutoSaveMs + TimerClock \div 2 - 1 => Due(millis', deadline)
    OBVIOUS
  <2>1. PICK since \in 0..TimerClock - 1 : since = sinceEdit'
    BY <1>5, TimersConstants
  <2>2. Due(millis', deadline) <=> (since - AutoSaveMs) % TimerClock < TimerClock \div 2
    BY <1>6, <2>1 DEF Due
  <2>3. /\ (since - AutoSaveMs) % TimerClock < TimerClock \div 2 => since >= AutoSaveMs
        /\ since \in AutoSaveMs..AutoSaveMs + TimerClock \div 2 - 1 =>
             (since - AutoSaveMs) % TimerClock < TimerClock \div 2
    BY DueInTime
  <2> QED BY <2>1, <2>2, <2>3
<1>8. sinceEdit' >= TimerClock =>
        /\ sinceEdit' >= AutoSaveMs
        /\ sinceEdit' \notin AutoSaveMs..AutoSaveMs + TimerClock \div 2 - 1
  <2>1. PICK half \in Nat : half = TimerClock \div 2 /\ TimerClock = 2 * half
    BY TimersConstants
  <2> QED BY <1>5, <2>1, TimersConstants
<1>9. sinceEdit' < TimerClock \/ sinceEdit' >= TimerClock
  BY <1>5, TimersConstants
<1> HIDE DEF deadline, unsaved
<1>10. saveTried' => sinceEdit' >= AutoSaveMs
  BY <1>3, <1>7, <1>8, <1>9
<1>11. dirty' /\ sinceEdit' \in AutoSaveMs..AutoSaveMs + TimerClock \div 2 - 1 => saveTried'
  BY <1>3, <1>4, <1>7, <1>8, <1>9
<1> QED BY <1>1, <1>2, <1>3, <1>4, <1>5, <1>6, <1>10, <1>11

LEMMA SleepingStep ==
  ASSUME TimersInv, NEW d \in 0..LoopMs, NEW activity \in BOOLEAN,
         millis' = (millis + d) % TimerClock, SleepUpdate(activity, millis'),
         idle' = IF activity THEN 0 ELSE UpTo(idle + d)
  PROVE  /\ lastActivityTs' \in 0..TimerClock - 1 /\ sleepRequested' \in BOOLEAN /\ idle' \in 0..TimerClock
         /\ sleepRequested' => idle' >= SleepMs
         /\ ~sleepRequested' => idle' < SleepMs \/ idle' = 0
         /\ ~sleepRequested' => (millis' - lastActivityTs') % TimerClock = idle'
<1>1. millis' \in 0..TimerClock - 1
  <2>1. millis + d \in Int
    BY TimersConstants DEF TimersInv
  <2> QED BY <2>1, TimersConstants, Division
<1>2. d \in Nat /\ d <= LoopMs /\ idle \in Nat /\ idle <= TimerClock
  BY TimersConstants DEF TimersInv
<1>3. CASE activity
  <2>1. lastActivityTs' = millis' /\ sleepRequested' = FALSE /\ idle' = 0
    BY <1>3 DEF SleepUpdate
  <2>2. 0 % TimerClock = 0 /\ millis' - millis' = 0
    BY <1>1, TimersConstants
  <2>3. (millis' - lastActivityTs') % TimerClock = idle'
    BY <2>1, <2>2
  <2>4. 0 \in 0..TimerClock
    BY TimersConstants
  <2> QED BY <1>1, <2>1, <2>3, <2>4
<1>4. CASE ~activity
  <2>1. /\ lastActivityTs' = lastActivityTs /\ idle' = UpTo(idle + d)
        /\ sleepRequested' = (sleepRequested \/ (millis' - lastActivityTs) % TimerClock >= SleepMs)
    BY <1>4 DEF SleepUpdate
  <2>2. idle' \in 0..TimerClock /\ idle' >= idle
    BY <1>2, <2>1, TimersConstants DEF UpTo
  <2>3. CASE sleepRequested
    <3>1. sleepRequested' = TRUE /\ idle >= SleepMs
      BY <2>1, <2>3 DEF TimersInv
    <3>2. idle' >= SleepMs
      BY <1>2, <2>2, <3>1, TimersConstants
    <3> QED BY <2>1, <2>2, <3>1, <3>2 DEF TimersInv
  <2>4. CASE ~sleepRequested
    <3>1. (idle < SleepMs \/ idle = 0) /\ (millis - lastActivityTs) % TimerClock = idle
      BY <2>4 DEF TimersInv
    <3>2. idle + d \in 0..TimerClock - 1
      BY <1>2, <3>1, TimersConstants
    <3>3. PICK now1 \in Int, since \in Int, gap \in Int : now1 = millis /\ since = lastActivityTs /\ gap = d
      BY <1>2, TimersConstants DEF TimersInv
    <3>4. (((now1 + gap) % TimerClock) - since) % TimerClock = (((now1 - since) % TimerClock) + gap) % TimerClock
      BY TimersConstants, ClockAdvances
    <3>5. (idle + d) % TimerClock = idle + d
      BY <3>2, TimersConstants
    <3>6. (millis' - lastActivityTs) % TimerClock = idle + d
      BY <3>1, <3>3, <3>4, <3>5
    <3>7. idle' = idle + d
      BY <2>1, <3>2, TimersConstants DEF UpTo
    <3>8. sleepRequested' <=> idle' >= SleepMs
      BY <2>1, <2>4, <3>6, <3>7
    <3>9. (millis' - lastActivityTs') % TimerClock = idle'
      BY <2>1, <3>6, <3>7
    <3>10. sleepRequested' \in BOOLEAN
      BY <2>1
    <3>11. ~(idle' >= SleepMs) => idle' < SleepMs
      BY <2>2, TimersConstants
    <3> QED BY <2>1, <2>2, <3>8, <3>9, <3>10, <3>11 DEF TimersInv
  <2> QED BY <2>3, <2>4
<1> QED BY <1>3, <1>4

LEMMA TimersStep == TimersInv /\ [LoopPasses]_timerVars => TimersInv'
<1> SUFFICES ASSUME TimersInv, [LoopPasses]_timerVars PROVE TimersInv'
  OBVIOUS
<1>1. CASE LoopPasses
  <2>1. PICK d \in 0..LoopMs, request \in {"none", "edit", "save"}, activity \in BOOLEAN :
          /\ millis' = (millis + d) % TimerClock
          /\ TaskAt(millis', request)
          /\ sinceEdit' = IF request = "edit" THEN 0 ELSE UpTo(sinceEdit + d)
          /\ SleepUpdate(activity, millis')
          /\ idle' = IF activity THEN 0 ELSE UpTo(idle + d)
    BY <1>1 DEF LoopPasses
  <2>2. /\ millis' \in 0..TimerClock - 1 /\ saveAt' \in 0..TimerClock - 1
        /\ {dirty', saveTried'} \subseteq BOOLEAN /\ sinceEdit' \in 0..TimerClock
        /\ dirty' /\ sinceEdit' < TimerClock =>
             (millis' - saveAt') % TimerClock = (sinceEdit' - AutoSaveMs) % TimerClock
        /\ saveTried' => sinceEdit' >= AutoSaveMs
        /\ dirty' /\ sinceEdit' \in AutoSaveMs..AutoSaveMs + TimerClock \div 2 - 1 => saveTried'
    BY <2>1, SavingStep
  <2>3. /\ lastActivityTs' \in 0..TimerClock - 1 /\ sleepRequested' \in BOOLEAN /\ idle' \in 0..TimerClock
        /\ sleepRequested' => idle' >= SleepMs
        /\ ~sleepRequested' => idle' < SleepMs \/ idle' = 0
        /\ ~sleepRequested' => (millis' - lastActivityTs') % TimerClock = idle'
    BY <2>1, SleepingStep
  <2> QED BY <2>2, <2>3 DEF TimersInv
<1>2. CASE UNCHANGED timerVars
  BY <1>2 DEF timerVars, TimersInv
<1> QED BY <1>1, <1>2

\* For every width of the clock, every delay and every gap between two passes, wherever
\* the clock wraps: no save comes early, none is left out for half a turn of the clock,
\* and sleep is requested exactly when the keyboard has been idle for long enough.
THEOREM TimersKeepTime == TimersSpec => []TimersInTime
<1>1. TimersInv => TimersInTime
  BY TimersConstants DEF TimersInv, TimersInTime
<1> QED BY <1>1, TimersBegin, TimersStep, PTL DEF TimersSpec

-----------------------------------------------------------------------------
(* Encoder *)

EncoderInv ==
  /\ {steps, seen, shaft, mark, turned, returned} \subseteq Int /\ skipped \in BOOLEAN
  /\ EncoderExact

\* One edge further the pins show the next state of the cycle, or the one before.
LEMMA OneEdge ==
  ASSUME NEW s \in Int
  PROVE  /\ <<Pins(s), Pins(s + 1)>> \in Clockwise
         /\ <<Pins(s - 1), Pins(s)>> \in Clockwise
         /\ <<Pins(s), Pins(s - 1)>> \notin Clockwise
<1>1. /\ s % 4 = 0 => (s + 1) % 4 = 1 /\ (s - 1) % 4 = 3
      /\ s % 4 = 1 => (s + 1) % 4 = 2 /\ (s - 1) % 4 = 0
      /\ s % 4 = 2 => (s + 1) % 4 = 3 /\ (s - 1) % 4 = 1
      /\ s % 4 = 3 => (s + 1) % 4 = 0 /\ (s - 1) % 4 = 2
      /\ s % 4 \in 0..3
  OBVIOUS
<1>2. \A t \in Int : /\ t % 4 = 0 => Pins(t) = 0
                     /\ t % 4 = 1 => Pins(t) = 2
                     /\ t % 4 = 2 => Pins(t) = 3
                     /\ t % 4 = 3 => Pins(t) = 1
  BY DEF Pins
<1>3. s + 1 \in Int /\ s - 1 \in Int
  OBVIOUS
<1> QED BY <1>1, <1>2, <1>3 DEF Clockwise

\* The quotient is cut off towards zero: what is left has the sign of steps_.
LEMMA CountTruncates ==
  ASSUME steps \in Int
  PROVE  /\ count \in Int
         /\ steps >= 0 => steps - 4 * count \in 0..3
         /\ steps <= 0 => steps - 4 * count \in -3..0
<1>1. CASE steps < 0
  <2>1. PICK n \in Nat : n = -steps /\ count = -(n \div 4)
    BY <1>1 DEF count
  <2>2. PICK q \in Nat, r \in 0..3 : q = n \div 4 /\ n = 4 * q + r
    OBVIOUS
  <2>3. count = -q /\ steps - 4 * count = -r
    BY <2>1, <2>2
  <2> QED BY <1>1, <2>2, <2>3
<1>2. CASE steps >= 0
  <2>1. PICK n \in Nat : n = steps /\ count = n \div 4
    BY <1>2 DEF count
  <2>2. PICK q \in Nat, r \in 0..3 : q = n \div 4 /\ n = 4 * q + r
    OBVIOUS
  <2>3. count = q /\ steps - 4 * count = r
    BY <2>1, <2>2
  <2>4. steps = 0 => r = 0
    <3>1. n \in Nat /\ q \in Nat /\ r \in Nat /\ n = 4 * q + r
      BY <2>2
    <3>2. n = 0 \/ n > 0
      BY <3>1
    <3>3. n = 0 => r = 0
      BY <3>1
    <3>4. n > 0 => steps # 0
      BY <2>1
    <3> QED BY <3>2, <3>3, <3>4
  <2> QED BY <1>2, <2>2, <2>3, <2>4
<1> QED BY <1>1, <1>2

LEMMA EncoderStep == EncoderInv /\ [EncoderNext]_encoderVars => EncoderInv'
<1> SUFFICES ASSUME EncoderInv, [EncoderNext]_encoderVars PROVE EncoderInv'
  OBVIOUS
<1>0. /\ steps \in Int /\ seen \in Int /\ shaft \in Int /\ mark \in Int
      /\ turned \in Int /\ returned \in Int
      /\ skipped \in BOOLEAN /\ lastState = Pins(seen)
      /\ ~skipped => steps = seen - mark
      /\ ~skipped => /\ turned >= 0 => turned - 4 * returned \in 0..3
                     /\ turned <= 0 => turned - 4 * returned \in -3..0
  BY DEF EncoderInv, EncoderExact
<1>1. CASE ShaftTurns
  <2>1. shaft' \in Int /\ UNCHANGED <<lastState, steps, seen, skipped, mark, turned, returned>>
    BY <1>0, <1>1 DEF ShaftTurns, results
  <2> QED BY <1>0, <2>1 DEF EncoderInv, EncoderExact
<1>2. CASE EncoderUpdate
  <2>0. UNCHANGED <<shaft, mark, turned, returned>>
    BY <1>2 DEF EncoderUpdate, results
  <2>1. CASE UNCHANGED <<lastState, lastChangeTs, seen, skipped, steps>>
    BY <1>0, <2>0, <2>1 DEF EncoderInv, EncoderExact
  <2>2. CASE Pins(shaft) # lastState /\ lastState' = Pins(shaft)
    <3>1. /\ seen' = shaft /\ skipped' = (skipped \/ shaft \notin {seen - 1, seen + 1})
          /\ steps' = IF <<lastState, Pins(shaft)>> \in Clockwise THEN steps + 1
                      ELSE IF <<Pins(shaft), lastState>> \in Clockwise THEN steps - 1 ELSE steps
      BY <1>2, <2>2 DEF EncoderUpdate
    <3>2. steps' \in Int /\ skipped' \in BOOLEAN
      BY <1>0, <3>1
    <3>3. ~skipped' => ~skipped /\ steps' = shaft - mark
      <4> SUFFICES ASSUME ~skipped, shaft \in {seen - 1, seen + 1}
                   PROVE  steps' = shaft - mark
        BY <3>1
      <4>1. CASE shaft = seen + 1
        <5>1. steps' = steps + 1
          BY <1>0, <3>1, <4>1, OneEdge
        <5> QED BY <1>0, <4>1, <5>1
      <4>2. CASE shaft = seen - 1
        <5>1. steps' = steps - 1
          BY <1>0, <3>1, <4>2, OneEdge
        <5> QED BY <1>0, <4>2, <5>1
      <4> QED BY <4>1, <4>2
    <3> QED BY <1>0, <2>0, <2>2, <3>1, <3>2, <3>3 DEF EncoderInv, EncoderExact
  <2> QED BY <1>2, <2>1, <2>2 DEF EncoderUpdate
<1>3. CASE EncoderConsume
  <2>1. PICK n \in Int : /\ n = count
                         /\ steps >= 0 => steps - 4 * n \in 0..3
                         /\ steps <= 0 => steps - 4 * n \in -3..0
    BY <1>0, CountTruncates
  <2>2. /\ returned' = n /\ steps' = 0 /\ turned' = seen - mark /\ mark' = seen
        /\ UNCHANGED <<lastState, shaft, seen, skipped>>
    BY <1>3, <2>1 DEF EncoderConsume
  <2>3. ~skipped => turned' = steps
    BY <1>0, <2>2
  <2>4. steps' = seen' - mark' /\ {steps', mark', turned', returned', seen', shaft'} \subseteq Int
    BY <1>0, <2>1, <2>2
  <2> QED BY <1>0, <2>1, <2>2, <2>3, <2>4 DEF EncoderInv, EncoderExact
<1>4. CASE UNCHANGED encoderVars
  BY <1>4 DEF encoderVars, results, EncoderInv, EncoderExact
<1> QED BY <1>1, <1>2, <1>3, <1>4 DEF EncoderNext

\* However far the shaft turns, whichever way, and however the debounce delays: until a
\* poll misses an edge, steps_ is the turn since the last consume(), and a consume()
\* returns the full detents of the turn before it, cut off towards zero.
THEOREM EncoderCountsEdges == EncoderSpec => []EncoderExact
<1>1. EncoderInit => EncoderInv
  <2>1. Pins(0) = 0
    BY DEF Pins
  <2> SUFFICES ASSUME EncoderInit PROVE EncoderInv
    OBVIOUS
  <2>2. /\ steps = 0 /\ seen = 0 /\ shaft = 0 /\ mark = 0 /\ turned = 0 /\ returned = 0
        /\ skipped = FALSE /\ lastState = Pins(seen)
    BY <2>1 DEF EncoderInit
  <2>3. steps = seen - mark /\ turned - 4 * returned = 0
    BY <2>2
  <2>4. EncoderExact
    BY <2>2, <2>3 DEF EncoderExact
  <2>5. {steps, seen, shaft, mark, turned, returned} \subseteq Int
    BY DEF EncoderInit
  <2>6. skipped \in BOOLEAN
    BY DEF EncoderInit
  <2> QED BY <2>4, <2>5, <2>6 DEF EncoderInv
<1>2. EncoderInv => EncoderExact
  BY DEF EncoderInv
<1> QED BY <1>1, <1>2, EncoderStep, PTL DEF EncoderSpec

-----------------------------------------------------------------------------
(* Matrix *)

\* The debounced image waits in candidate, and the clock is ahead of its arrival by its
\* age; between the keyboard's tasks there is nothing to consume.
MatrixInv ==
  /\ config \in Configs
  /\ TypeOK
  /\ debouncePending => candidate = prevRaw
  /\ age < Clock => (now - lastRawChangeTS) % Clock = age
  /\ pc # "consume" => changed = Blank
  /\ ViewFollows

LEMMA ClockConstants ==
  ASSUME config \in Configs
  PROVE  /\ Clock \in Nat \ {0} /\ MaxGap \in Nat
         /\ debounceMs \in Nat /\ debounceMs < Clock /\ ColToRow \in BOOLEAN
<1>1. Clock \in Nat /\ MaxGap \in Nat /\ MaxGap > 0
  BY TimeAssumption
<1>2. config \in BOOLEAN \X Nat /\ config[2] + MaxGap < Clock
  BY TimeAssumption
<1>3. config[2] \in Nat /\ config[1] \in BOOLEAN
  BY <1>2
<1> QED BY <1>1, <1>2, <1>3 DEF debounceMs, ColToRow

LEMMA Cells == Rows * Columns \in Nat \ {0}
<1>1. Rows \in Nat \ {0} /\ Columns \in Nat \ {0}
  BY SizeAssumption
<1> QED BY <1>1

\* Changes are symmetric differences, row by row.
LEMMA DeltaFacts ==
  ASSUME NEW a \in Image, NEW b \in Image
  PROVE  /\ Delta(a, b) \in Image
         /\ Delta(a, Blank) = a
         /\ Delta(Delta(a, Delta(a, b)), Blank) = b
         /\ Delta(a, Delta(a, b)) = b
<1>1. \A x, y \in SUBSET Column : /\ SymDiff(x, y) \in SUBSET Column
                                  /\ SymDiff(x, {}) = x
                                  /\ SymDiff(x, SymDiff(x, y)) = y
  BY DEF SymDiff
<1>2. \A r \in Row : a[r] \in SUBSET Column /\ b[r] \in SUBSET Column
  BY DEF Image
<1>3. Delta(a, b) \in Image /\ \A r \in Row : Delta(a, b)[r] = SymDiff(a[r], b[r])
  BY <1>1, <1>2 DEF Delta, Image
<1>4. \A c \in Image : Delta(c, Blank) = c
  <2> TAKE c \in Image
  <2>1. \A r \in Row : SymDiff(c[r], Blank[r]) = c[r]
    BY <1>1 DEF Image, Blank
  <2> QED BY <2>1 DEF Delta, Image
<1>5. Delta(a, Delta(a, b)) = b
  <2>1. \A r \in Row : SymDiff(a[r], Delta(a, b)[r]) = b[r]
    BY <1>1, <1>2, <1>3
  <2> QED BY <2>1 DEF Delta, Image
<1> QED BY <1>3, <1>4, <1>5

LEMMA MatrixBegin == Init => MatrixInv
<1> SUFFICES ASSUME Init PROVE MatrixInv
  OBVIOUS
<1>1. Blank \in Image /\ closed \in Image
  BY DEF Init, Blank, Image
<1>2. Delta(Blank, Blank) = Blank
  BY <1>1, DeltaFacts
<1>3. 0 \in 0..Clock - 1 /\ Clock \in 0..Clock /\ ~(Clock < Clock)
  BY ClockConstants DEF Init
<1>4. 0 \in 0..Rows * Columns - 1
  BY Cells
<1> QED BY <1>1, <1>2, <1>3, <1>4 DEF Init, MatrixInv, TypeOK, ViewFollows

\* What the scan leaves of a cell is a column or none, whatever cell that is.
LEMMA ScanType ==
  ASSUME TypeOK, ScanCell
  PROVE  raw' \in Image
<1>1. closed \in [Row -> SUBSET Column] /\ raw \in [Row -> SUBSET Column]
  BY DEF TypeOK, Image
<1>2. raw' = [raw EXCEPT ![Cell[1]] =
                IF Cell[2] \in closed[Cell[1]] THEN @ \cup {Cell[2]} ELSE @ \ {Cell[2]}]
  BY DEF ScanCell
<1>3. CASE Cell[1] \in Row
  <2>1. \/ raw' = [raw EXCEPT ![Cell[1]] = raw[Cell[1]] \cup {Cell[2]}] /\ Cell[2] \in Column
        \/ raw' = [raw EXCEPT ![Cell[1]] = raw[Cell[1]] \ {Cell[2]}]
    BY <1>1, <1>2, <1>3
  <2> QED BY <1>1, <1>3, <2>1 DEF Image
<1>4. CASE Cell[1] \notin Row
  BY <1>1, <1>2, <1>4 DEF Image
<1> QED BY <1>3, <1>4

LEMMA MatrixTick ==
  ASSUME MatrixInv, Tick
  PROVE  MatrixInv'
<1>0. /\ config \in Configs /\ TypeOK /\ ViewFollows
      /\ debouncePending => candidate = prevRaw
      /\ age < Clock => (now - lastRawChangeTS) % Clock = age
      /\ pc # "consume" => changed = Blank
  BY DEF MatrixInv
<1>1. Clock \in Nat \ {0} /\ MaxGap \in Nat
  BY <1>0, ClockConstants
<1>2. now \in 0..Clock - 1 /\ age \in 0..Clock /\ lastRawChangeTS \in 0..Clock - 1
  BY <1>0 DEF TypeOK
<1>3. /\ pc = "idle" /\ pc' = "scan"
      /\ UNCHANGED <<config, closed, images, lastRawChangeTS, debouncePending, cell, view>>
  BY DEF Tick
<1>4. PICK d \in 0..MaxGap : /\ now' = (now + d) % Clock
                             /\ age' = IF age + d < Clock THEN age + d ELSE Clock
  BY DEF Tick
<1>5. d \in Int /\ now \in Int /\ lastRawChangeTS \in Int
  BY <1>1, <1>2
<1>6. now' \in 0..Clock - 1 /\ age' \in 0..Clock
  <2>1. PICK late \in Int : late = now + d
    BY <1>5
  <2>2. late % Clock \in 0..Clock - 1
    BY <1>1, Division
  <2> QED BY <1>1, <1>2, <1>4, <2>1, <2>2
<1>7. age' < Clock => (now' - lastRawChangeTS') % Clock = age'
  <2> SUFFICES ASSUME age' < Clock PROVE (now' - lastRawChangeTS') % Clock = age'
    OBVIOUS
  <2>1. age' = age + d /\ age < Clock /\ age + d \in 0..Clock - 1
    BY <1>1, <1>2, <1>4, <1>5
  <2>2. (((now + d) % Clock) - lastRawChangeTS) % Clock = (((now - lastRawChangeTS) % Clock) + d) % Clock
    BY <1>1, <1>5, ClockAdvances
  <2>3. (now - lastRawChangeTS) % Clock = age
    BY <1>0, <2>1
  <2>4. lastRawChangeTS' = lastRawChangeTS
    BY <1>3
  <2>5. (now' - lastRawChangeTS') % Clock = (age + d) % Clock
    BY <1>4, <2>2, <2>3, <2>4
  <2>6. \A x \in 0..Clock - 1 : x % Clock = x
    BY <1>1
  <2> QED BY <2>1, <2>5, <2>6
<1>8. TypeOK'
  BY <1>0, <1>3, <1>6 DEF TypeOK, images
<1> QED BY <1>0, <1>3, <1>7, <1>8 DEF MatrixInv, ViewFollows, images

\* What publishing an image leaves: the keyboard is told of it with the changes.
LEMMA Published ==
  ASSUME NEW image \in Image, Publishes(image), TypeOK, ViewFollows, changed = Blank
  PROVE  /\ stable' = image /\ stable' \in Image /\ changed' \in Image
         /\ debouncePending' = FALSE
         /\ Delta(view, changed') = stable'
<1>1. view \in Image /\ stable \in Image
  BY DEF TypeOK
<1>2. view = stable
  BY <1>1, DeltaFacts DEF ViewFollows
<1>3. stable' = image /\ changed' = Delta(stable, image) /\ debouncePending' = FALSE
  BY DEF Publishes
<1> QED BY <1>1, <1>2, <1>3, DeltaFacts

LEMMA MatrixDebounce ==
  ASSUME MatrixInv, ImageChanges \/ ImageLasts
  PROVE  MatrixInv'
<1>0. /\ config \in Configs /\ TypeOK /\ ViewFollows
      /\ debouncePending => candidate = prevRaw
      /\ age < Clock => (now - lastRawChangeTS) % Clock = age
      /\ pc # "consume" => changed = Blank
  BY DEF MatrixInv
<1>1. Clock \in Nat \ {0}
  BY <1>0, ClockConstants
<1>2. /\ raw \in Image /\ candidate \in Image /\ stable \in Image /\ changed \in Image
      /\ now \in 0..Clock - 1
  BY <1>0 DEF TypeOK
<1>3. pc = "debounce" /\ pc' = "consume" /\ UNCHANGED <<config, closed, raw, now, cell, view>>
  BY DEF ImageChanges, ImageLasts
<1>4. changed = Blank
  BY <1>0, <1>3
<1>5. CASE ImageChanges
  <2>1. /\ candidate' = raw /\ prevRaw' = raw /\ lastRawChangeTS' = now /\ age' = 0
        /\ \/ Publishes(raw)
           \/ debouncePending' = TRUE /\ stable' = stable /\ changed' = changed
    BY <1>5 DEF ImageChanges
  <2>2. /\ stable' \in Image /\ changed' \in Image /\ debouncePending' \in BOOLEAN
        /\ Delta(view, changed') = stable'
    BY <1>0, <1>2, <1>4, <2>1, Published DEF ViewFollows
  <2>3. 0 % Clock = 0 /\ 0 \in 0..Clock /\ now - now = 0
    BY <1>1, <1>2
  <2>4. TypeOK'
    BY <1>0, <1>2, <1>3, <2>1, <2>2, <2>3 DEF TypeOK
  <2> QED BY <1>0, <1>3, <2>1, <2>2, <2>3, <2>4 DEF MatrixInv, ViewFollows
<1>6. CASE ImageLasts
  <2>1. /\ UNCHANGED <<raw, prevRaw, candidate, lastRawChangeTS, now, age>>
        /\ \/ Publishes(candidate)
           \/ debouncePending' = debouncePending /\ stable' = stable /\ changed' = changed
    BY <1>6 DEF ImageLasts
  <2>2. /\ stable' \in Image /\ changed' \in Image
        /\ debouncePending' = FALSE \/ debouncePending' = debouncePending
        /\ Delta(view, changed') = stable'
    BY <1>0, <1>2, <1>4, <2>1, Published DEF ViewFollows
  <2>3. TypeOK'
    BY <1>0, <1>3, <2>1, <2>2 DEF TypeOK
  <2> QED BY <1>0, <1>3, <2>1, <2>2, <2>3 DEF MatrixInv, ViewFollows
<1> QED BY <1>5, <1>6

LEMMA MatrixStep == MatrixInv /\ [Next]_vars => MatrixInv'
<1> SUFFICES ASSUME MatrixInv, [Next]_vars PROVE MatrixInv'
  OBVIOUS
<1>0. /\ config \in Configs /\ TypeOK /\ ViewFollows
      /\ debouncePending => candidate = prevRaw
      /\ age < Clock => (now - lastRawChangeTS) % Clock = age
      /\ pc # "consume" => changed = Blank
  BY DEF MatrixInv
<1>1. CASE Switch
  <2>1. UNCHANGED <<config, images, timing, pc, cell, view>>
    BY <1>1 DEF Switch
  <2>2. closed' \in Image
    <3>1. closed \in Image /\ \A s \in Switches : s[1] \in Row /\ s[2] \in Column
      BY <1>0, SizeAssumption DEF TypeOK
    <3>2. PICK s \in Switches : closed' = [closed EXCEPT ![s[1]] = SymDiff(@, {s[2]})]
      BY <1>1 DEF Switch
    <3>3. SymDiff(closed[s[1]], {s[2]}) \in SUBSET Column
      BY <3>1 DEF Image, SymDiff
    <3> QED BY <3>1, <3>2, <3>3 DEF Image
  <2>3. TypeOK'
    BY <1>0, <2>1, <2>2 DEF TypeOK, images, timing
  <2> QED BY <1>0, <2>1, <2>3 DEF MatrixInv, ViewFollows, images, timing
<1>2. CASE Tick
  BY <1>2, MatrixTick
<1>3. CASE ScanCell
  <2>1. raw' \in Image
    BY <1>0, <1>3, ScanType
  <2>2. /\ UNCHANGED <<config, closed, prevRaw, candidate, stable, changed, timing, view>>
        /\ pc = "scan" /\ pc' \in {"scan", "debounce"}
    BY <1>3 DEF ScanCell
  <2>3. cell' \in 0..Rows * Columns - 1
    <3>1. PICK size \in Nat \ {0} : size = Rows * Columns
      BY Cells
    <3>2. cell \in 0..size - 1
      BY <1>0, <3>1 DEF TypeOK
    <3>3. (cell < size - 1 /\ cell' = cell + 1) \/ cell' = 0
      BY <1>3, <3>1 DEF ScanCell
    <3>4. cell' \in 0..size - 1
      BY <3>2, <3>3
    <3> QED BY <3>1, <3>4
  <2>4. TypeOK'
    BY <1>0, <2>1, <2>2, <2>3 DEF TypeOK, timing
  <2> QED BY <1>0, <2>2, <2>4 DEF MatrixInv, ViewFollows, timing
<1>4. CASE ImageChanges \/ ImageLasts
  BY <1>4, MatrixDebounce
<1>5. CASE Consume
  <2>1. /\ view' = Delta(view, changed) /\ changed' = Blank /\ pc' = "idle"
        /\ UNCHANGED <<config, closed, raw, prevRaw, candidate, stable, timing, cell>>
    BY <1>5 DEF Consume
  <2>2. view' = stable /\ stable \in Image
    BY <1>0, <2>1 DEF ViewFollows, TypeOK
  <2>3. Blank \in Image
    BY DEF Blank, Image
  <2>4. ViewFollows'
    BY <2>1, <2>2, <2>3, DeltaFacts DEF ViewFollows
  <2>5. TypeOK'
    BY <1>0, <2>1, <2>2, <2>3 DEF TypeOK, timing
  <2> QED BY <1>0, <2>1, <2>4, <2>5 DEF MatrixInv, timing
<1>6. CASE UNCHANGED vars
  BY <1>0, <1>6 DEF vars, images, timing, MatrixInv, TypeOK, ViewFollows
<1> QED BY <1>1, <1>2, <1>3, <1>4, <1>5, <1>6 DEF Next, Task

\* For every size of the matrix, clock and debounce time: what the scan, the debounce
\* and the hand-over keep ranges over images and times.
THEOREM MatrixTypes == Spec => []TypeOK
<1>1. MatrixInv => TypeOK
  BY DEF MatrixInv
<1> QED BY <1>1, MatrixBegin, MatrixStep, PTL DEF Spec

\* For every size of the matrix: no change gets lost between the matrix and the keyboard.
THEOREM KeyboardIsTold == Spec => []ViewFollows
<1>1. MatrixInv => ViewFollows
  BY DEF MatrixInv
<1> QED BY <1>1, MatrixBegin, MatrixStep, PTL DEF Spec

\* For every clock and every debounce time it has room for: an image that is published
\* has been read by every scan of the last debounceMs, whatever the clock wrapped to.
THEOREM NoBounceGetsThrough == Spec => OnlyLastingImages
<1>1. MatrixInv /\ [Next]_vars =>
        [stable' # stable => stable' = raw /\ (age >= debounceMs \/ debounceMs = 0)]_vars
  <2> SUFFICES ASSUME MatrixInv, Next, stable' # stable
               PROVE  stable' = raw /\ (age >= debounceMs \/ debounceMs = 0)
    OBVIOUS
  <2>0. /\ config \in Configs /\ TypeOK
        /\ debouncePending => candidate = prevRaw
        /\ age < Clock => (now - lastRawChangeTS) % Clock = age
    BY DEF MatrixInv
  <2>1. \/ ImageChanges /\ debounceMs = 0 /\ Publishes(raw)
        \/ ImageLasts /\ WaitOver /\ Publishes(candidate)
    BY DEF Next, Task, Switch, Tick, ScanCell, ImageChanges, ImageLasts, Consume, images
  <2>2. CASE ImageChanges /\ debounceMs = 0 /\ Publishes(raw)
    BY <2>2 DEF Publishes
  <2>3. CASE ImageLasts /\ WaitOver /\ Publishes(candidate)
    <3>1. raw = prevRaw /\ stable' = candidate
      BY <2>3 DEF ImageLasts, Publishes
    <3>2. debouncePending /\ (now - lastRawChangeTS) % Clock >= debounceMs
      BY <2>3 DEF WaitOver
    <3>3. age >= debounceMs
      <4>1. debounceMs \in Nat /\ debounceMs < Clock /\ Clock \in Nat /\ age \in 0..Clock
        BY <2>0, ClockConstants DEF TypeOK
      <4>2. CASE age < Clock
        BY <2>0, <3>2, <4>2
      <4>3. CASE ~(age < Clock)
        BY <4>1, <4>3
      <4> QED BY <4>2, <4>3
    <3> QED BY <2>0, <3>1, <3>2, <3>3
  <2> QED BY <2>1, <2>2, <2>3
<1> QED BY <1>1, MatrixBegin, MatrixStep, PTL DEF Spec, OnlyLastingImages

-----------------------------------------------------------------------------
(* Reports *)

ActiveType == active \in [1..Positions -> Code]

LEMMA HeldCodes ==
  ASSUME ActiveType
  PROVE  /\ active \in Seq(Code) /\ Len(active) = Positions
         /\ BasicUpTo(active, Len(active)) = HeldBasic
<1>1. Positions \in Nat
  BY KeyReportsAssumption
<1>2. active \in Seq(Code) /\ Len(active) = Positions
  BY <1>1 DEF ActiveType
<1> QED BY <1>2 DEF BasicUpTo, HeldBasic

\* The position FirstHeld chooses is the one the slots were filled from.
LEMMA FirstIsChosen ==
  ASSUME NEW u, NEW p \in HeldBasic, extractBasicUsage(active[p]) = u,
         \A j \in HeldBasic : extractBasicUsage(active[j]) = u => p <= j
  PROVE  FirstHeld(u) = p
<1>1. HeldBasic \subseteq Int
  BY KeyReportsAssumption DEF HeldBasic
<1>2. \A i, j \in HeldBasic : i <= j /\ j <= i => i = j
  BY <1>1
<1> DEFINE IsFirst(i) == /\ extractBasicUsage(active[i]) = u
                         /\ \A j \in HeldBasic : extractBasicUsage(active[j]) = u => i <= j
<1>3. IsFirst(p)
  OBVIOUS
<1>4. FirstHeld(u) \in HeldBasic /\ IsFirst(FirstHeld(u))
  <2>1. FirstHeld(u) = CHOOSE i \in HeldBasic : IsFirst(i)
    BY DEF FirstHeld
  <2> HIDE DEF IsFirst
  <2> QED BY <1>3, <2>1
<1> QED BY <1>2, <1>3, <1>4

LEMMA FaithfulReport == ActiveType => ReportFaithful
<1> SUFFICES ASSUME ActiveType PROVE ReportFaithful
  OBVIOUS
<1> DEFINE k == Report.keys
<1>1. /\ active \in Seq(Code) /\ Len(active) = Positions
      /\ BasicUpTo(active, Len(active)) = HeldBasic
  BY HeldCodes
<1>2. /\ Report.modifiers = Modifiers(active)
      /\ k = IF Cardinality(HeldBasic) > Slots THEN [i \in 1..Slots |-> RollOver] ELSE Filled(active)
  <2>1. Report = [modifiers |-> Modifiers(active),
                  keys |-> IF Cardinality(BasicUpTo(active, Len(active))) > Slots
                           THEN [i \in 1..Slots |-> RollOver] ELSE Filled(active)]
    BY <1>1, BuiltReport DEF Report
  <2>2. /\ Report.modifiers = Modifiers(active)
        /\ Report.keys = IF Cardinality(BasicUpTo(active, Len(active))) > Slots
                         THEN [i \in 1..Slots |-> RollOver] ELSE Filled(active)
    BY <2>1
  <2> QED BY <1>1, <2>2
<1>3. Report.modifiers = { m \in 0..7 : \E i \in 1..Positions : active[i] = 224 + m }
  BY <1>1, <1>2, ModifiersAre
<1>4. ASSUME Cardinality(HeldBasic) <= Slots
      PROVE  /\ { k[i] : i \in 1..Len(k) } = Usages
             /\ \A i, j \in 1..Len(k) : i < j => FirstHeld(k[i]) < FirstHeld(k[j])
  <2>1. Faithful(active, Len(active), Filled(active))
    BY <1>1, <1>4, FilledFaithful
  <2>2. ~(Cardinality(HeldBasic) > Slots)
    <3>1. Cardinality(HeldBasic) \in Nat
      <4>1. Positions \in Nat /\ HeldBasic \subseteq 1..Positions
        BY KeyReportsAssumption DEF HeldBasic
      <4>2. IsFiniteSet(1..Positions)
        BY <4>1, FS_Interval
      <4>3. IsFiniteSet(HeldBasic)
        BY <4>1, <4>2, FS_Subset
      <4> QED BY <4>3, FS_CardinalityType
    <3> QED BY <1>4, <3>1 DEF Slots
  <2>3. k = Filled(active)
    BY <1>2, <2>2
  <2> HIDE DEF k
  <2>4. PICK first : Firsts(active, Len(active), k, first)
    BY <2>1, <2>3 DEF Faithful
  <2>5. \A j \in HeldBasic : \E a \in 1..Len(k) : k[a] = extractBasicUsage(active[j])
    BY <1>1, <2>1, <2>3 DEF Faithful, UsageAt
  <2>6. /\ first \in [1..Len(k) -> HeldBasic]
        /\ \A a \in 1..Len(k) :
             /\ extractBasicUsage(active[first[a]]) = k[a]
             /\ \A j \in HeldBasic : extractBasicUsage(active[j]) = k[a] => first[a] <= j
        /\ \A a, b \in 1..Len(k) : a < b => first[a] < first[b]
    BY <1>1, <2>4 DEF Firsts, UsageAt
  <2>7. { k[i] : i \in 1..Len(k) } = Usages
    <3>1. \A a \in 1..Len(k) : \E j \in HeldBasic : k[a] = extractBasicUsage(active[j])
      BY <2>6
    <3> QED BY <2>5, <3>1 DEF Usages
  <2>8. \A a \in 1..Len(k) : FirstHeld(k[a]) = first[a]
    <3> TAKE a \in 1..Len(k)
    <3>1. /\ first[a] \in HeldBasic /\ extractBasicUsage(active[first[a]]) = k[a]
          /\ \A j \in HeldBasic : extractBasicUsage(active[j]) = k[a] => first[a] <= j
      BY <2>6
    <3> QED BY <3>1, FirstIsChosen
  <2> QED BY <2>6, <2>7, <2>8
<1>5. Cardinality(HeldBasic) > Slots => k = [i \in 1..Slots |-> RollOver]
  BY <1>2
<1> QED BY <1>3, <1>4, <1>5 DEF ReportFaithful

\* For every number of positions and every set of codes: the usages of up to six positions
\* with basic codes are reported, each once, in the order of the positions, and more such
\* positions are a rollover; the modifier keys are exact, and no QK_MODS code adds to them.
THEOREM ReportsAreFaithful == ReportsSpec => []ReportFaithful
<1>1. ReportsInit => ActiveType
  BY DEF ReportsInit, ActiveType, Code, NoCode
<1>2. ActiveType /\ [ReportsNext]_active => ActiveType'
  <2> SUFFICES ASSUME ActiveType, [ReportsNext]_active PROVE ActiveType'
    OBVIOUS
  <2>1. Codes \cup {NoCode} \subseteq Code
    <3>1. Codes \subseteq Code
      BY KeyReportsAssumption
    <3>2. NoCode \in Code
      BY DEF Code, NoCode
    <3> QED BY <3>1, <3>2
  <2>2. CASE ReportsNext
    <3>1. PICK i \in 1..Positions, c \in Codes \cup {NoCode} : active' = [active EXCEPT ![i] = c]
      BY <2>2 DEF ReportsNext
    <3> QED BY <2>1, <3>1 DEF ActiveType
  <2>3. CASE UNCHANGED active
    BY <2>3 DEF ActiveType
  <2> QED BY <2>2, <2>3
<1> QED BY <1>1, <1>2, FaithfulReport, PTL DEF ReportsSpec

-----------------------------------------------------------------------------
(* Sums *)

Totals(s, n, total) ==
  total = [i \in 0..n |-> IF i = 0 THEN 0 ELSE total[i - 1] + s[i]]

\* The definition of SumOf has a solution.
LEMMA TotalsExist ==
  ASSUME NEW s, NEW n \in Nat
  PROVE  \E total : Totals(s, n, total)
<1> DEFINE Solved == { i \in 0..n : \E total : Totals(s, i, total) }
<1>1. 0 \in Solved
  <2>1. Totals(s, 0, [i \in 0..0 |-> 0])
    BY DEF Totals
  <2> QED BY <2>1
<1>2. ASSUME NEW i \in 1..n, i - 1 \in Solved PROVE i \in Solved
  <2>1. PICK before : Totals(s, i - 1, before)
    BY <1>2
  <2> DEFINE after == [j \in 0..i |-> IF j = i THEN before[i - 1] + s[i] ELSE before[j]]
  <2>2. before = [j \in 0..i - 1 |-> IF j = 0 THEN 0 ELSE before[j - 1] + s[j]]
    BY <2>1 DEF Totals
  <2>3. \A j \in 0..i : after[j] = IF j = 0 THEN 0 ELSE after[j - 1] + s[j]
    <3> SUFFICES ASSUME NEW j \in 0..i
                 PROVE  after[j] = IF j = 0 THEN 0 ELSE after[j - 1] + s[j]
      OBVIOUS
    <3>1. CASE j = i
      BY <3>1
    <3>2. CASE j # i
      <4>1. j \in 0..i - 1 /\ after[j] = before[j]
        BY <3>2
      <4>2. j # 0 => j - 1 \in 0..i /\ j - 1 # i /\ after[j - 1] = before[j - 1]
        BY <3>2
      <4> QED BY <2>2, <4>1, <4>2
    <3> QED BY <3>1, <3>2
  <2>4. Totals(s, i, after)
    BY <2>3 DEF Totals
  <2> QED BY <2>4
<1>3. 0..n \subseteq Solved
  BY <1>1, <1>2, PrefixInduction
<1> QED BY <1>3

\* The sums of the prefixes follow from one another, and there is one choice of them.
LEMMA SumIs ==
  ASSUME NEW s \in Seq(Int)
  PROVE  \E total \in [0..Len(s) -> Int] :
           /\ total[0] = 0 /\ \A i \in 1..Len(s) : total[i] = total[i - 1] + s[i]
           /\ SumOf(s) = total[Len(s)]
<1>1. Len(s) \in Nat
  OBVIOUS
<1> DEFINE total == CHOOSE total : Totals(s, Len(s), total)
<1>2. Totals(s, Len(s), total)
  BY <1>1, TotalsExist
<1>3. SumOf(s) = total[Len(s)]
  BY DEF SumOf, Totals
<1> HIDE DEF total
<1>4. /\ total[0] = 0
      /\ \A i \in 1..Len(s) : total[i] = total[i - 1] + s[i]
      /\ DOMAIN total = 0..Len(s)
      /\ total = [i \in 0..Len(s) |-> total[i]]
  BY <1>1, <1>2 DEF Totals
<1> DEFINE Summed == { i \in 0..Len(s) : total[i] \in Int }
<1>5. 0 \in Summed
  BY <1>1, <1>4
<1>6. ASSUME NEW i \in 1..Len(s), i - 1 \in Summed PROVE i \in Summed
  <2>1. total[i] = total[i - 1] + s[i] /\ total[i - 1] \in Int /\ s[i] \in Int /\ i \in 0..Len(s)
    BY <1>1, <1>4, <1>6
  <2> QED BY <2>1
<1>7. 0..Len(s) \subseteq Summed
  BY <1>1, <1>5, <1>6, PrefixInduction
<1>8. total \in [0..Len(s) -> Int]
  BY <1>4, <1>7
<1> QED BY <1>3, <1>4, <1>8

LEMMA SumFrom ==
  ASSUME NEW s \in Seq(Int), NEW given, given[0] = 0,
         \A i \in 1..Len(s) : given[i] = given[i - 1] + s[i]
  PROVE  SumOf(s) = given[Len(s)]
<1>1. Len(s) \in Nat
  OBVIOUS
<1>2. PICK total \in [0..Len(s) -> Int] :
        /\ total[0] = 0 /\ \A i \in 1..Len(s) : total[i] = total[i - 1] + s[i]
        /\ SumOf(s) = total[Len(s)]
  BY SumIs
<1> DEFINE Same == { i \in 0..Len(s) : given[i] = total[i] }
<1>3. 0 \in Same
  BY <1>1, <1>2
<1>4. ASSUME NEW i \in 1..Len(s), i - 1 \in Same PROVE i \in Same
  BY <1>2, <1>4
<1>5. 0..Len(s) \subseteq Same
  BY <1>1, <1>3, <1>4, PrefixInduction
<1> QED BY <1>1, <1>2, <1>5

LEMMA SumType ==
  ASSUME NEW s \in Seq(Int)
  PROVE  SumOf(s) \in Int
<1>1. Len(s) \in 0..Len(s)
  OBVIOUS
<1>2. PICK total \in [0..Len(s) -> Int] : SumOf(s) = total[Len(s)]
  BY SumIs
<1> QED BY <1>1, <1>2

LEMMA SumOfZeros ==
  ASSUME NEW s \in Seq(Int), \A i \in 1..Len(s) : s[i] = 0
  PROVE  SumOf(s) = 0
<1> DEFINE given == [i \in 0..Len(s) |-> 0]
<1>1. Len(s) \in Nat
  OBVIOUS
<1>2. given[0] = 0 /\ \A i \in 1..Len(s) : given[i] = given[i - 1] + s[i]
  BY <1>1
<1>3. given[Len(s)] = 0
  BY <1>1
<1> HIDE DEF given
<1> QED BY <1>2, <1>3, SumFrom

\* An element that is replaced counts for the one that was there.
LEMMA SumPut ==
  ASSUME NEW s \in Seq(Int), NEW at \in 1..Len(s), NEW v \in Int
  PROVE  SumOf([s EXCEPT ![at] = v]) = SumOf(s) - s[at] + v
<1>1. Len(s) \in Nat /\ s[at] \in Int
  OBVIOUS
<1>2. PICK total \in [0..Len(s) -> Int] :
        /\ total[0] = 0 /\ \A i \in 1..Len(s) : total[i] = total[i - 1] + s[i]
        /\ SumOf(s) = total[Len(s)]
  BY SumIs
<1> DEFINE put   == [s EXCEPT ![at] = v]
           given == [i \in 0..Len(s) |-> IF i < at THEN total[i] ELSE total[i] - s[at] + v]
<1>3. put \in Seq(Int) /\ Len(put) = Len(s)
  OBVIOUS
<1>4. \A i \in 1..Len(s) : put[i] = IF i = at THEN v ELSE s[i]
  OBVIOUS
<1>5. given[0] = 0 /\ given[Len(s)] = SumOf(s) - s[at] + v
  BY <1>1, <1>2
<1>6. ASSUME NEW i \in 1..Len(s) PROVE given[i] = given[i - 1] + put[i]
  <2>0. i - 1 \in 0..Len(s) /\ i \in 0..Len(s) /\ s[i] \in Int
    BY <1>1
  <2>1. i - 1 \in 0..Len(s) /\ i \in 0..Len(s) /\ total[i] \in Int /\ total[i - 1] \in Int /\ s[i] \in Int
    BY <2>0
  <2>2. given[i] = (IF i < at THEN total[i] ELSE total[i] - s[at] + v)
        /\ given[i - 1] = (IF i - 1 < at THEN total[i - 1] ELSE total[i - 1] - s[at] + v)
    BY <2>1
  <2>3. total[i] = total[i - 1] + s[i]
    BY <1>2
  <2>4. put[i] = IF i = at THEN v ELSE s[i]
    BY <1>4
  <2> HIDE DEF given, put
  <2>5. CASE i < at
    BY <1>1, <2>1, <2>2, <2>3, <2>4, <2>5
  <2>6. CASE i = at
    BY <1>1, <2>1, <2>2, <2>3, <2>4, <2>6
  <2>7. CASE i > at
    BY <1>1, <2>1, <2>2, <2>3, <2>4, <2>7
  <2> QED BY <1>1, <2>5, <2>6, <2>7
<1> HIDE DEF given, put
<1>7. SumOf(put) = given[Len(put)]
  BY <1>3, <1>5, <1>6, SumFrom
<1> QED BY <1>3, <1>5, <1>7 DEF put

LEMMA SumAppend ==
  ASSUME NEW s \in Seq(Int), NEW v \in Int
  PROVE  SumOf(Append(s, v)) = SumOf(s) + v
<1>1. Len(s) \in Nat
  OBVIOUS
<1>2. PICK total \in [0..Len(s) -> Int] :
        /\ total[0] = 0 /\ \A i \in 1..Len(s) : total[i] = total[i - 1] + s[i]
        /\ SumOf(s) = total[Len(s)]
  BY SumIs
<1> DEFINE longer == Append(s, v)
           given  == [i \in 0..Len(s) + 1 |-> IF i = Len(s) + 1 THEN total[Len(s)] + v ELSE total[i]]
<1>3. /\ longer \in Seq(Int) /\ Len(longer) = Len(s) + 1
      /\ longer[Len(s) + 1] = v /\ \A i \in 1..Len(s) : longer[i] = s[i]
  OBVIOUS
<1>4. given[0] = 0 /\ given[Len(s) + 1] = SumOf(s) + v
  BY <1>1, <1>2
<1>5. ASSUME NEW i \in 1..Len(longer) PROVE given[i] = given[i - 1] + longer[i]
  <2>1. CASE i = Len(s) + 1
    BY <1>1, <1>2, <1>3, <2>1
  <2>2. CASE i \in 1..Len(s)
    <3>1. given[i] = total[i] /\ given[i - 1] = total[i - 1] /\ longer[i] = s[i]
      BY <1>1, <1>3, <2>2
    <3> QED BY <1>2, <2>2, <3>1
  <2> QED BY <1>1, <1>3, <2>1, <2>2
<1> HIDE DEF given, longer
<1>6. SumOf(longer) = given[Len(longer)]
  BY <1>3, <1>4, <1>5, SumFrom
<1> QED BY <1>3, <1>4, <1>6 DEF longer

LEMMA SumBound ==
  ASSUME NEW b \in Nat, NEW s \in Seq(0..b)
  PROVE  SumOf(s) \in Nat /\ SumOf(s) <= Len(s) * b
<1>1. Len(s) \in Nat /\ s \in Seq(Int) /\ \A i \in 1..Len(s) : s[i] \in 0..b
  OBVIOUS
<1>2. PICK total \in [0..Len(s) -> Int] :
        /\ total[0] = 0 /\ \A i \in 1..Len(s) : total[i] = total[i - 1] + s[i]
        /\ SumOf(s) = total[Len(s)]
  BY <1>1, SumIs
<1> DEFINE Bound == { i \in 0..Len(s) : total[i] >= 0 /\ total[i] <= i * b }
<1>3. 0 \in Bound
  BY <1>1, <1>2
<1>4. ASSUME NEW i \in 1..Len(s), i - 1 \in Bound PROVE i \in Bound
  <2>1. total[i] = total[i - 1] + s[i] /\ s[i] \in 0..b /\ total[i - 1] \in Int
        /\ total[i - 1] >= 0 /\ total[i - 1] <= (i - 1) * b
    BY <1>1, <1>2, <1>4
  <2>2. (i - 1) * b = i * b - b /\ i * b \in Int
    OBVIOUS
  <2> QED BY <2>1, <2>2
<1>5. 0..Len(s) \subseteq Bound
  BY <1>1, <1>3, <1>4, PrefixInduction
<1> QED BY <1>1, <1>2, <1>5

-----------------------------------------------------------------------------
(* Battery *)

Samples == [i \in 1..MaxSamples |-> circular[i - 1]]

\* Where the sample taken d updates ago is, when the window has not changed since.
Back(d) == IF d <= sampleIndex THEN sampleIndex - d ELSE sampleIndex + avgSamples - d

BatteryType ==
  /\ avgSamples \in 1..MaxSamples /\ circular \in [0..MaxSamples - 1 -> 0..Word - 1]
  /\ sampleIndex \in 0..MaxSamples - 1 /\ sampleCount \in 0..MaxSamples
  /\ readings \in Seq(0..Word - 1) /\ Len(readings) <= MaxSamples
  /\ fresh \in 0..MaxSamples /\ shrunk \in BOOLEAN

\* Samples that were not counted yet are zero; since the window has changed, the last
\* readings are in the buffer, back from sampleIndex.
RingInv ==
  /\ sampleIndex < avgSamples /\ sampleIndex <= sampleCount
  /\ sampleCount <= avgSamples /\ sampleCount <= Len(readings)
  /\ \A i \in sampleCount..MaxSamples - 1 : circular[i] = 0
  /\ \A d \in 1..MaxSamples : d <= fresh /\ d <= avgSamples /\ d <= Len(readings) =>
       d <= sampleCount /\ circular[Back(d)] = readings[Len(readings) + 1 - d]
  /\ Len(readings) < fresh =>
       sampleIndex = Len(readings) /\ sampleCount = Len(readings) /\ avgSamples = MaxSamples

BatteryInv == BatteryType /\ sampleSum = SumOf(Samples) /\ (~shrunk => RingInv)

LEMMA WordType == Word \in Nat \ {0}
BY SMT DEF Word

LEMMA BatteryConstants ==
  /\ MaxSamples \in Nat \ {0} /\ MaxRaw \in Nat \ {0} /\ Raws \subseteq 0..MaxRaw
  /\ Vref \in 0..Word - 1 /\ MinMv \in 0..Word - 1 /\ MaxMv \in 0..Word - 1 /\ MinMv < MaxMv
BY BatteryAssumption

\* A reading is a number of millivolts in the calibrated range.
LEMMA ReadingType ==
  ASSUME NEW value \in Raws
  PROVE  Clamped(rawToMv(value)) \in 0..Word - 1
<1>1. value \in Nat /\ MaxRaw \in Nat \ {0} /\ Vref \in Nat
  <2>1. value \in 0..MaxRaw /\ MaxRaw \in Nat \ {0} /\ Vref \in 0..Word - 1
    BY BatteryConstants
  <2> QED BY <2>1, WordType
<1>2. value * Vref \in Nat
  BY <1>1
<1>3. PICK product \in Nat : product = value * Vref
  BY <1>2
<1>4. PICK q \in Int : q = product \div MaxRaw
  <2>1. product \in Int /\ product \div MaxRaw \in Int
    BY <1>1, Division
  <2> QED BY <2>1
<1>5. q % Word \in 0..Word - 1
  BY WordType, Division
<1>6. rawToMv(value) \in 0..Word - 1
  BY <1>3, <1>4, <1>5 DEF rawToMv
<1> QED BY <1>6, WordType, BatteryConstants DEF Clamped

LEMMA SamplesType ==
  ASSUME BatteryType
  PROVE  Samples \in Seq(0..Word - 1) /\ Samples \in Seq(Int) /\ Len(Samples) = MaxSamples
<1>1. MaxSamples \in Nat
  BY BatteryConstants
<1>2. Samples \in [1..MaxSamples -> 0..Word - 1]
  BY <1>1 DEF BatteryType, Samples
<1>3. Samples \in [1..MaxSamples -> Int]
  BY <1>2, WordType
<1>4. ASSUME NEW n \in Nat, NEW S, NEW s \in [1..n -> S]
      PROVE  s \in Seq(S) /\ Len(s) = n
  OBVIOUS
<1> QED BY <1>1, <1>2, <1>3, <1>4

\* The readings after one more.
LEMMA LastReadings ==
  ASSUME BatteryType, NEW mv \in 0..Word - 1
  PROVE  LET after == LastOf(Append(readings, mv), MaxSamples)
         IN  /\ after \in Seq(0..Word - 1)
             /\ Len(after) = IF Len(readings) < MaxSamples THEN Len(readings) + 1 ELSE MaxSamples
             /\ after[Len(after)] = mv
             /\ \A d \in 2..Len(after) : after[Len(after) + 1 - d] = readings[Len(readings) + 2 - d]
<1> DEFINE longer == Append(readings, mv)
           after  == LastOf(longer, MaxSamples)
<1>1. MaxSamples \in Nat \ {0} /\ readings \in Seq(0..Word - 1) /\ Len(readings) <= MaxSamples
      /\ Len(readings) \in Nat
  BY BatteryConstants DEF BatteryType
<1>2. /\ longer \in Seq(0..Word - 1) /\ Len(longer) = Len(readings) + 1
      /\ longer[Len(readings) + 1] = mv /\ \A i \in 1..Len(readings) : longer[i] = readings[i]
  BY <1>1
<1> HIDE DEF longer, after
<1>3. CASE Len(readings) < MaxSamples
  <2>1. after = longer
    BY <1>1, <1>2, <1>3 DEF LastOf, after
  <2>2. \A d \in 2..Len(after) : Len(after) + 1 - d \in 1..Len(readings)
                                 /\ Len(after) + 1 - d = Len(readings) + 2 - d
    BY <1>1, <1>2, <2>1
  <2> QED BY <1>1, <1>2, <1>3, <2>1, <2>2 DEF longer, after
<1>4. CASE Len(readings) = MaxSamples
  <2>1. after = SubSeq(longer, 2, MaxSamples + 1)
    <3>1. ~(Len(longer) <= MaxSamples) /\ Len(longer) - MaxSamples + 1 = 2 /\ Len(longer) = MaxSamples + 1
      BY <1>1, <1>2, <1>4
    <3> QED BY <3>1 DEF LastOf, after
  <2>2. /\ after \in Seq(0..Word - 1) /\ Len(after) = MaxSamples
        /\ \A i \in 1..MaxSamples : after[i] = longer[i + 1]
    <3>1. ASSUME NEW S, NEW s \in Seq(S), NEW n \in Nat, Len(s) = n + 1
          PROVE  /\ SubSeq(s, 2, n + 1) \in Seq(S) /\ Len(SubSeq(s, 2, n + 1)) = n
                 /\ \A i \in 1..n : SubSeq(s, 2, n + 1)[i] = s[i + 1]
      BY <3>1
    <3>2. Len(longer) = MaxSamples + 1
      BY <1>1, <1>2, <1>4
    <3> QED BY <1>1, <1>2, <2>1, <3>1, <3>2
  <2>3. after[MaxSamples] = mv
    BY <1>1, <1>2, <1>4, <2>2
  <2>4. ASSUME NEW d \in 2..Len(after)
        PROVE  after[Len(after) + 1 - d] = readings[Len(readings) + 2 - d]
    <3>1. Len(after) + 1 - d \in 1..MaxSamples /\ Len(after) + 1 - d + 1 = Len(readings) + 2 - d
          /\ Len(readings) + 2 - d \in 1..Len(readings)
      BY <1>1, <1>4, <2>2
    <3> QED BY <1>2, <2>2, <3>1
  <2> QED BY <1>1, <1>4, <2>2, <2>3, <2>4 DEF longer, after
<1> QED BY <1>1, <1>3, <1>4 DEF longer, after

LEMMA BatteryInvInit == BatteryInit => BatteryInv
<1> SUFFICES ASSUME BatteryInit PROVE BatteryInv
  OBVIOUS
<1>0. MaxSamples \in Nat \ {0}
  BY BatteryConstants
<1>1. BatteryType
  <2>1. circular \in [0..MaxSamples - 1 -> 0..Word - 1]
    BY <1>0, WordType DEF BatteryInit
  <2>2. readings \in Seq(0..Word - 1) /\ Len(readings) = 0
    <3>1. ASSUME NEW S PROVE <<>> \in Seq(S) /\ Len(<<>>) = 0
      OBVIOUS
    <3> QED BY <3>1 DEF BatteryInit
  <2>3. /\ avgSamples \in 1..MaxSamples /\ fresh \in 0..MaxSamples /\ shrunk \in BOOLEAN
        /\ sampleIndex \in 0..MaxSamples - 1 /\ sampleCount \in 0..MaxSamples
    <3>1. avgSamples = MaxSamples /\ fresh = MaxSamples /\ shrunk = FALSE
          /\ sampleIndex = 0 /\ sampleCount = 0
      BY DEF BatteryInit
    <3>2. shrunk \in BOOLEAN
      BY <3>1
    <3>3. 0 \in 0..MaxSamples - 1 /\ 0 \in 0..MaxSamples /\ MaxSamples \in 1..MaxSamples
          /\ MaxSamples \in 0..MaxSamples
      BY <1>0
    <3> QED BY <3>1, <3>2, <3>3
  <2>4. Len(readings) <= MaxSamples
    BY <1>0, <2>2
  <2> QED BY <2>1, <2>2, <2>3, <2>4 DEF BatteryType
<1>2. \A i \in 1..Len(Samples) : Samples[i] = 0
  BY <1>0, <1>1, SamplesType DEF BatteryInit, Samples
<1>3. sampleSum = SumOf(Samples)
  BY <1>1, <1>2, SamplesType, SumOfZeros DEF BatteryInit
<1>4. RingInv
  BY <1>0 DEF BatteryInit, RingInv
<1> QED BY <1>1, <1>3, <1>4 DEF BatteryInv

LEMMA BatteryUpdateStep ==
  ASSUME BatteryInv, NEW value \in Raws, BatteryUpdate(value)
  PROVE  BatteryInv'
<1> DEFINE mv == Clamped(rawToMv(value))
<1>0. MaxSamples \in Nat \ {0}
  BY BatteryConstants
<1>1. mv \in 0..Word - 1
  BY ReadingType
<1>2. /\ sampleSum' = sampleSum + mv - circular[sampleIndex]
      /\ circular' = [circular EXCEPT ![sampleIndex] = mv]
      /\ sampleCount' = IF sampleCount < avgSamples THEN sampleCount + 1 ELSE sampleCount
      /\ sampleIndex' = IF sampleIndex + 1 >= avgSamples THEN 0 ELSE sampleIndex + 1
      /\ readings' = LastOf(Append(readings, mv), MaxSamples)
      /\ fresh' = IF fresh < MaxSamples THEN fresh + 1 ELSE fresh
      /\ avgSamples' = avgSamples /\ shrunk' = shrunk
  BY DEF BatteryUpdate
<1> HIDE DEF mv
<1>3. BatteryType
  BY DEF BatteryInv
<1>4. /\ readings' \in Seq(0..Word - 1)
      /\ Len(readings') = IF Len(readings) < MaxSamples THEN Len(readings) + 1 ELSE MaxSamples
      /\ readings'[Len(readings')] = mv
      /\ \A d \in 2..Len(readings') :
           readings'[Len(readings') + 1 - d] = readings[Len(readings) + 2 - d]
  BY <1>1, <1>2, <1>3, LastReadings
<1>5. Len(readings) \in Nat /\ Len(readings) <= MaxSamples
  BY <1>3 DEF BatteryType
<1>6. BatteryType'
  <2>1. circular' \in [0..MaxSamples - 1 -> 0..Word - 1]
    BY <1>1, <1>2, <1>3 DEF BatteryType
  <2>2. /\ avgSamples' \in 1..MaxSamples /\ fresh' \in 0..MaxSamples /\ shrunk' \in BOOLEAN
        /\ sampleIndex' \in 0..MaxSamples - 1 /\ sampleCount' \in 0..MaxSamples
    BY <1>0, <1>2, <1>3 DEF BatteryType
  <2>3. readings' \in Seq(0..Word - 1) /\ Len(readings') <= MaxSamples
    BY <1>0, <1>4, <1>5
  <2> QED BY <2>1, <2>2, <2>3 DEF BatteryType
<1>7. (sampleSum = SumOf(Samples))'
  <2>1. Samples \in Seq(Int) /\ Len(Samples) = MaxSamples /\ sampleIndex + 1 \in 1..MaxSamples
        /\ Samples[sampleIndex + 1] = circular[sampleIndex]
    BY <1>0, <1>3, SamplesType DEF BatteryType, Samples
  <2>2. Samples' = [Samples EXCEPT ![sampleIndex + 1] = mv]
    <3>1. Samples' = [i \in 1..MaxSamples |-> circular'[i - 1]]
      BY DEF Samples
    <3>2. ASSUME NEW i \in 1..MaxSamples
          PROVE  circular'[i - 1] = IF i = sampleIndex + 1 THEN mv ELSE circular[i - 1]
      <4>1. i - 1 \in 0..MaxSamples - 1 /\ sampleIndex \in 0..MaxSamples - 1
            /\ (i = sampleIndex + 1 <=> i - 1 = sampleIndex)
        BY <1>0, <1>3 DEF BatteryType
      <4> QED BY <1>2, <1>3, <4>1 DEF BatteryType
    <3>3. Samples' = [i \in 1..MaxSamples |->
                        IF i = sampleIndex + 1 THEN mv ELSE circular[i - 1]]
      BY <3>1, <3>2
    <3> QED BY <3>3 DEF Samples
  <2>3. SumOf(Samples') = SumOf(Samples) - circular[sampleIndex] + mv
    <3>1. mv \in Int /\ sampleIndex + 1 \in 1..Len(Samples)
      BY <1>1, <2>1, WordType
    <3>2. SumOf([Samples EXCEPT ![sampleIndex + 1] = mv])
            = SumOf(Samples) - Samples[sampleIndex + 1] + mv
      BY <2>1, <3>1, SumPut
    <3> QED BY <2>1, <2>2, <3>2
  <2>4. SumOf(Samples) \in Int /\ circular[sampleIndex] \in Int
    BY <1>3, <2>1, WordType, SumType DEF BatteryType
  <2>5. SumOf(Samples)' = SumOf(Samples')
    BY DEF SumOf, Samples
  <2> QED BY <1>1, <1>2, <2>3, <2>4, <2>5, WordType DEF BatteryInv
<1>8. ASSUME ~shrunk PROVE RingInv'
  <2>0. RingInv
    BY <1>8 DEF BatteryInv
  <2>1. /\ avgSamples \in Nat /\ avgSamples <= MaxSamples /\ sampleIndex \in Nat /\ sampleCount \in Nat
        /\ fresh \in Nat /\ fresh <= MaxSamples
        /\ sampleIndex < avgSamples /\ sampleIndex <= sampleCount
        /\ sampleCount <= avgSamples /\ sampleCount <= Len(readings)
    BY <1>0, <1>3, <2>0 DEF BatteryType, RingInv
  <2>2. /\ sampleIndex' < avgSamples' /\ sampleIndex' <= sampleCount'
        /\ sampleCount' <= avgSamples' /\ sampleCount' <= Len(readings')
        /\ sampleCount <= sampleCount' /\ sampleIndex < sampleCount'
    BY <1>0, <1>2, <1>4, <1>5, <2>1
  <2>3. \A i \in sampleCount'..MaxSamples - 1 : circular'[i] = 0
    BY <1>0, <1>2, <1>3, <2>0, <2>1, <2>2 DEF BatteryType, RingInv
  <2>4. ASSUME NEW d \in 1..MaxSamples, d <= fresh', d <= avgSamples', d <= Len(readings')
        PROVE  d <= sampleCount' /\ circular'[Back(d)'] = readings'[Len(readings') + 1 - d]
    <3>1. Back(d)' = IF d <= sampleIndex' THEN sampleIndex' - d ELSE sampleIndex' + avgSamples' - d
      BY DEF Back
    <3>2. CASE d = 1
      <4>1. Back(d)' = sampleIndex
        BY <1>2, <2>1, <3>1, <3>2
      <4>2. circular'[sampleIndex] = mv
        BY <1>2, <1>3 DEF BatteryType
      <4> QED BY <1>4, <2>2, <2>1, <3>2, <4>1, <4>2, <1>2, <1>5, <1>0
    <3>3. CASE d # 1
      <4>1. d - 1 \in 1..MaxSamples /\ d - 1 <= fresh /\ d - 1 <= avgSamples /\ d - 1 <= Len(readings)
        BY <1>0, <1>2, <1>4, <1>5, <2>1, <2>4, <3>3
      <4>2. d - 1 <= sampleCount /\ circular[Back(d - 1)] = readings[Len(readings) + 1 - (d - 1)]
        BY <2>0, <4>1 DEF RingInv
      <4>3. Back(d)' = Back(d - 1) /\ Back(d - 1) # sampleIndex /\ Back(d - 1) \in 0..MaxSamples - 1
        BY <1>0, <1>2, <2>1, <2>4, <3>1, <3>3, <4>1 DEF Back
      <4>4. circular'[Back(d)'] = circular[Back(d - 1)]
        BY <1>2, <1>3, <4>3 DEF BatteryType
      <4>5. d <= sampleCount'
        BY <1>2, <2>1, <2>4, <4>1, <4>2
      <4>6. d \in 2..Len(readings') /\ Len(readings) + 1 - (d - 1) = Len(readings) + 2 - d
        BY <1>0, <1>4, <1>5, <2>4, <3>3
      <4> QED BY <1>4, <4>2, <4>4, <4>5, <4>6
    <3> QED BY <3>2, <3>3
  <2>5. ASSUME Len(readings') < fresh'
        PROVE  sampleIndex' = Len(readings') /\ sampleCount' = Len(readings') /\ avgSamples' = MaxSamples
    <3>1. Len(readings) < fresh
      BY <1>0, <1>2, <1>4, <1>5, <2>1, <2>5
    <3>2. sampleIndex = Len(readings) /\ sampleCount = Len(readings) /\ avgSamples = MaxSamples
      BY <2>0, <3>1 DEF RingInv
    <3>3. Len(readings) + 1 < MaxSamples
      BY <1>0, <1>2, <1>4, <1>5, <2>1, <2>5
    <3> QED BY <1>0, <1>2, <1>4, <1>5, <3>2, <3>3
  <2> QED BY <2>2, <2>3, <2>4, <2>5 DEF RingInv
<1> QED BY <1>2, <1>6, <1>7, <1>8 DEF BatteryInv

LEMMA BatteryInvStep == BatteryInv /\ [BatteryNext]_batteryVars => BatteryInv'
<1> SUFFICES ASSUME BatteryInv, [BatteryNext]_batteryVars PROVE BatteryInv'
  OBVIOUS
<1>1. ASSUME NEW n \in 1..MaxSamples, setAverageSamples(n) PROVE BatteryInv'
  <2>1. /\ avgSamples' = n /\ fresh' = 0
        /\ shrunk' = (shrunk \/ n < sampleCount \/ n <= sampleIndex)
        /\ UNCHANGED <<circular, sampleIndex, sampleCount, sampleSum, readings>>
    BY <1>1 DEF setAverageSamples
  <2>2. MaxSamples \in Nat \ {0}
    BY BatteryConstants
  <2>3. BatteryType'
    BY <2>1, <2>2 DEF BatteryInv, BatteryType
  <2>4. (sampleSum = SumOf(Samples))'
    BY <2>1 DEF BatteryInv, SumOf, Samples
  <2>5. ASSUME ~shrunk' PROVE RingInv'
    <3>1. RingInv /\ n >= sampleCount /\ n > sampleIndex
      BY <2>1, <2>2, <2>5 DEF BatteryInv, BatteryType
    <3>2. \A d \in 1..MaxSamples : ~(d <= fresh')
      BY <2>1
    <3>3. ~(Len(readings') < fresh')
      BY <2>1 DEF BatteryInv, BatteryType
    <3> QED BY <2>1, <2>2, <3>1, <3>2, <3>3 DEF BatteryInv, BatteryType, RingInv
  <2> QED BY <2>3, <2>4, <2>5 DEF BatteryInv
<1>2. CASE UNCHANGED batteryVars
  <2>1. UNCHANGED <<avgSamples, circular, sampleIndex, sampleCount, sampleSum, readings, fresh, shrunk>>
    BY <1>2 DEF batteryVars
  <2>2. BatteryType' /\ (sampleSum = SumOf(Samples))' /\ (~shrunk' => RingInv')
    BY <2>1 DEF BatteryInv, BatteryType, RingInv, SumOf, Samples, Back
  <2> QED BY <2>2 DEF BatteryInv
<1> QED BY <1>1, <1>2, BatteryUpdateStep DEF BatteryNext

\* Elements at places of their own, and zeros elsewhere, have the sum of the elements.
PlacedIn(n, s, place, all) ==
  /\ n \in Nat /\ s \in Seq(Int) /\ all \in [1..n -> Int] /\ place \in [1..Len(s) -> 1..n]
  /\ \A i, j \in 1..Len(s) : place[i] = place[j] => i = j
  /\ \A i \in 1..Len(s) : all[place[i]] = s[i]
  /\ \A p \in 1..n : (\A i \in 1..Len(s) : p # place[i]) => all[p] = 0

LEMMA SumOfPlaced ==
  ASSUME NEW n, NEW s, NEW place, NEW all, PlacedIn(n, s, place, all)
  PROVE  SumOf(all) = SumOf(s)
<1>a. n \in Nat /\ s \in Seq(Int) /\ all \in [1..n -> Int] /\ place \in [1..Len(s) -> 1..n]
  BY DEF PlacedIn
<1>b. \A i, j \in 1..Len(s) : place[i] = place[j] => i = j
  BY DEF PlacedIn
<1>c. /\ \A i \in 1..Len(s) : all[place[i]] = s[i]
      /\ \A p \in 1..n : (\A i \in 1..Len(s) : p # place[i]) => all[p] = 0
  BY DEF PlacedIn
<1> USE <1>a, <1>b, <1>c
<1> DEFINE Holds(k, f) == /\ \A i \in 1..k : f[place[i]] = s[i]
                          /\ \A p \in 1..n : (\A i \in 1..k : p # place[i]) => f[p] = 0
           Placed == { k \in 0..Len(s) : \A f \in [1..n -> Int] :
                         Holds(k, f) => SumOf(f) = SumOf(SubSeq(s, 1, k)) }
<1>0. ASSUME NEW k \in 0..Len(s),
             \A f \in [1..n -> Int] : Holds(k, f) => SumOf(f) = SumOf(SubSeq(s, 1, k))
      PROVE  k \in Placed
  BY <1>0
<1>1. Len(s) \in Nat
  OBVIOUS
<1>2. \A f \in [1..n -> Int] : f \in Seq(Int) /\ Len(f) = n
  OBVIOUS
<1>3. 0 \in Placed
  <2>1. SubSeq(s, 1, 0) = <<>> /\ <<>> \in Seq(Int) /\ Len(<<>>) = 0
    OBVIOUS
  <2>2. SumOf(<<>>) = 0
    <3>1. \A i \in 1..Len(<<>>) : <<>>[i] = 0
      BY <2>1
    <3> QED BY <2>1, <3>1, SumOfZeros
  <2>3. ASSUME NEW f \in [1..n -> Int], Holds(0, f) PROVE SumOf(f) = 0
    <3>1. \A p \in 1..n : f[p] = 0
      BY <2>3
    <3>2. f \in Seq(Int) /\ \A p \in 1..Len(f) : f[p] = 0
      BY <1>2, <3>1
    <3> QED BY <3>2, SumOfZeros
  <2> HIDE DEF Holds, Placed
  <2>4. SumOf(SubSeq(s, 1, 0)) = 0
    BY <2>1, <2>2
  <2>5. 0 \in 0..Len(s)
    BY <1>1
  <2> QED BY ONLY <1>0, <2>3, <2>4, <2>5
<1>4. ASSUME NEW k \in 1..Len(s), k - 1 \in Placed PROVE k \in Placed
  <2>1. ASSUME NEW f \in [1..n -> Int], Holds(k, f)
        PROVE  SumOf(f) = SumOf(SubSeq(s, 1, k))
    <3> DEFINE less == [f EXCEPT ![place[k]] = 0]
    <3>0. k \in 1..Len(s) /\ k \in 1..k
      BY <1>1
    <3>1. place[k] \in 1..n /\ f[place[k]] = s[k] /\ s[k] \in Int
      BY <2>1, <3>0
    <3>2. less \in [1..n -> Int]
      BY <3>1
    <3>3. Holds(k - 1, less)
      <4>1. ASSUME NEW i \in 1..k - 1 PROVE less[place[i]] = s[i]
        <5>1. i \in 1..k /\ i # k /\ i \in 1..Len(s)
          BY <1>1
        <5>2. place[i] \in 1..n /\ place[i] # place[k]
          BY <3>0, <5>1
        <5> QED BY <2>1, <5>1, <5>2
      <4>2. ASSUME NEW p \in 1..n, \A i \in 1..k - 1 : p # place[i] PROVE less[p] = 0
        <5>1. CASE p = place[k]
          BY <5>1
        <5>2. CASE p # place[k]
          <6>1. \A i \in 1..k : i = k \/ i \in 1..k - 1
            OBVIOUS
          <6>2. f[p] = 0
            BY <2>1, <4>2, <5>2, <6>1
          <6> QED BY <5>2, <6>2
        <5> QED BY <5>1, <5>2
      <4> QED BY <4>1, <4>2
    <3>4. SumOf(less) = SumOf(SubSeq(s, 1, k - 1))
      BY <1>4, <3>2, <3>3
    <3>5. SumOf(less) = SumOf(f) - s[k] + 0
      <4>1. f \in Seq(Int) /\ place[k] \in 1..Len(f)
        BY <1>2, <3>1
      <4>2. PICK zero \in Int : zero = 0
        OBVIOUS
      <4>3. SumOf([f EXCEPT ![place[k]] = zero]) = SumOf(f) - f[place[k]] + zero
        BY ONLY <4>1, zero \in Int, SumPut, Zenon
      <4> QED BY <3>1, <4>2, <4>3
    <3>6. SubSeq(s, 1, k) = Append(SubSeq(s, 1, k - 1), s[k]) /\ SubSeq(s, 1, k - 1) \in Seq(Int)
      <4>1. k \in Nat /\ k >= 1 /\ k <= Len(s)
        BY <1>1
      <4> DEFINE front == SubSeq(s, 1, k - 1)
      <4>2. front \in Seq(Int) /\ Len(front) = k - 1 /\ \A i \in 1..k - 1 : front[i] = s[i]
        BY <1>1, <4>1
      <4>3. SubSeq(s, 1, k) \in Seq(Int) /\ Len(SubSeq(s, 1, k)) = k
            /\ \A i \in 1..k : SubSeq(s, 1, k)[i] = s[i]
        BY <1>1, <4>1
      <4> HIDE DEF front
      <4>4. Append(front, s[k]) \in Seq(Int) /\ Len(Append(front, s[k])) = k
            /\ \A i \in 1..k : Append(front, s[k])[i] = s[i]
        BY <3>1, <4>1, <4>2
      <4>5. SubSeq(s, 1, k) = Append(front, s[k])
        BY <4>3, <4>4, SeqEqual
      <4> QED BY <4>2, <4>5 DEF front
    <3>7. SumOf(SubSeq(s, 1, k)) = SumOf(SubSeq(s, 1, k - 1)) + s[k]
      <4> DEFINE front == SubSeq(s, 1, k - 1)
      <4>1. front \in Seq(Int) /\ SubSeq(s, 1, k) = Append(front, s[k])
        BY <3>6
      <4> HIDE DEF front
      <4>2. SumOf(Append(front, s[k])) = SumOf(front) + s[k]
        BY <3>1, <4>1, SumAppend
      <4> QED BY <4>1, <4>2 DEF front
    <3>8. SumOf(f) \in Int
      BY <1>2, SumType
    <3> DEFINE front == SumOf(SubSeq(s, 1, k - 1))
    <3>9. SumOf(SubSeq(s, 1, k)) = front + s[k] /\ front = SumOf(f) - s[k] + 0
      BY <3>4, <3>5, <3>7
    <3> HIDE DEF front
    <3> HIDE DEF less
    <3> QED BY <3>1, <3>8, <3>9
  <2> HIDE DEF Holds, Placed
  <2> QED BY <1>0, <1>1, <2>1
<1>5. 0..Len(s) \subseteq Placed
  BY <1>1, <1>3, <1>4, PrefixInduction
<1>6. Holds(Len(s), all)
  OBVIOUS
<1>7. SubSeq(s, 1, Len(s)) = s
  OBVIOUS
<1>8. Len(s) \in Placed
  <2> HIDE DEF Placed
  <2> QED BY <1>1, <1>5
<1>9. Holds(Len(s), all) => SumOf(all) = SumOf(SubSeq(s, 1, Len(s)))
  BY <1>8
<1> QED BY <1>6, <1>7, <1>9

LEMMA SmallRemainder ==
  ASSUME NEW n \in Nat \ {0}, NEW a \in 0..n - 1
  PROVE  a % n = a
OBVIOUS

LEMMA QuotientBound ==
  ASSUME NEW n \in Nat \ {0}, NEW b \in Nat, NEW y \in Nat, y <= n * b
  PROVE  y \div n \in 0..b
<1>1. PICK q \in Int, r \in 0..n - 1 : y = n * q + r /\ q = y \div n
  <2>1. y = n * (y \div n) + (y % n) /\ y \div n \in Int /\ y % n \in 0..n - 1
    BY Division
  <2> QED BY <2>1
<1>2. q >= 0
  <2>1. ASSUME q <= -1 PROVE FALSE
    <3>1. n * q <= n * (-1)
      BY <1>1, <2>1
    <3> QED BY <1>1, <3>1
  <2> QED BY <1>1, <2>1
<1>3. q <= b
  <2>1. ASSUME q >= b + 1 PROVE FALSE
    <3>1. n * q >= n * (b + 1) /\ n * (b + 1) = n * b + n
      BY <1>1, <2>1
    <3> QED BY <1>1, <3>1
  <2> QED BY <1>1, <2>1
<1> QED BY <1>1, <1>2, <1>3

LEMMA PercentRange ==
  ASSUME NEW mv \in Nat
  PROVE  Percent(mv) \in 0..100
<1>1. MinMv \in Nat /\ MaxMv \in Nat /\ MinMv < MaxMv
  BY BatteryConstants, WordType
<1>2. CASE mv > MinMv /\ mv < MaxMv
  <2>1. PICK n \in Nat \ {0}, y \in Nat : n = MaxMv - MinMv /\ y = (mv - MinMv) * 100
    <3>1. MaxMv - MinMv \in Nat \ {0} /\ (mv - MinMv) * 100 \in Nat
      BY <1>1, <1>2
    <3> QED BY <3>1
  <2>2. y <= n * 100
    BY <1>1, <1>2, <2>1
  <2>3. y \div n \in 0..100
    BY <2>2, QuotientBound
  <2> QED BY <1>1, <1>2, <2>1, <2>3 DEF Percent
<1>3. CASE mv <= MinMv \/ mv >= MaxMv
  BY <1>1, <1>3 DEF Percent
<1> QED BY <1>1, <1>2, <1>3

\* Once the window has been filled since it changed, the buffer holds its readings,
\* rotated by sampleIndex, and zeros.
LEMMA WindowSummed ==
  ASSUME BatteryType, RingInv, avgSamples <= fresh, readings # <<>>
  PROVE  /\ Window \in Seq(0..Word - 1) /\ Len(Window) = sampleCount /\ sampleCount # 0
         /\ SumOf(Samples) = SumOf(Window)
<1> DEFINE last == Len(readings)
           k    == IF last <= avgSamples THEN last ELSE avgSamples
<1>0. MaxSamples \in Nat \ {0} /\ readings \in Seq(0..Word - 1) /\ last \in Nat /\ last # 0
  BY BatteryConstants DEF BatteryType
<1>1. /\ avgSamples \in 1..MaxSamples /\ sampleIndex \in 0..MaxSamples - 1
      /\ sampleCount \in 0..MaxSamples /\ fresh \in 0..MaxSamples /\ last <= MaxSamples
      /\ circular \in [0..MaxSamples - 1 -> 0..Word - 1]
  BY DEF BatteryType
<1>2. k \in 1..MaxSamples /\ k <= last /\ k <= avgSamples /\ k <= fresh
  BY <1>0, <1>1
<1>3. Window \in Seq(0..Word - 1) /\ Len(Window) = k
      /\ \A m \in 1..k : Window[m] = readings[last + 1 - (k + 1 - m)]
  <2>1. CASE last <= avgSamples
    <3>1. Window = readings /\ k = last
      BY <2>1 DEF Window, LastOf
    <3>2. \A m \in 1..k : last + 1 - (k + 1 - m) = m
      BY <1>0, <3>1
    <3> HIDE DEF last, k
    <3> QED BY <1>0, <3>1, <3>2 DEF last
  <2>2. CASE last > avgSamples
    <3>1. Window = SubSeq(readings, last - avgSamples + 1, last) /\ k = avgSamples
      BY <1>0, <1>1, <2>2 DEF Window, LastOf
    <3>2. ASSUME NEW S, NEW s \in Seq(S), NEW n \in Nat, n <= Len(s)
          PROVE  LET t == SubSeq(s, Len(s) - n + 1, Len(s))
                 IN  t \in Seq(S) /\ Len(t) = n /\ \A m \in 1..n : t[m] = s[Len(s) - n + m]
      BY <3>2
    <3>3. avgSamples \in Nat
      BY <1>0, <1>1
    <3>4. \A i, j, m \in Int : i + 1 - (j + 1 - m) = i - j + m
      OBVIOUS
    <3>5. LET t == SubSeq(readings, last - avgSamples + 1, last)
          IN  /\ t \in Seq(0..Word - 1) /\ Len(t) = avgSamples
              /\ \A m \in 1..avgSamples : t[m] = readings[last - avgSamples + m]
      <4>1. avgSamples <= last
        BY <1>0, <1>1, <2>2
      <4> QED BY <1>0, <3>2, <3>3, <4>1
    <3>6. k = avgSamples /\ last \in Int /\ avgSamples \in Int
      BY <1>0, <3>1, <3>3
    <3> HIDE DEF k, last
    <3>7. \A m \in 1..k : last + 1 - (k + 1 - m) = last - avgSamples + m
      BY <3>4, <3>6
    <3> QED BY <3>1, <3>5, <3>6, <3>7
  <2> QED BY <1>0, <1>1, <2>1, <2>2
<1> HIDE DEF k
<1>4. sampleCount = k
  <2>1. k <= sampleCount
    BY <1>2 DEF RingInv
  <2>2. sampleCount <= avgSamples /\ sampleCount <= last
    BY DEF RingInv
  <2> QED BY <1>0, <1>1, <2>1, <2>2 DEF k
<1>5. sampleIndex < avgSamples /\ sampleIndex <= k
  BY <1>4 DEF RingInv
<1>6. \A d \in 1..k : Back(d) \in 0..MaxSamples - 1 /\ circular[Back(d)] = readings[last + 1 - d]
  <2> SUFFICES ASSUME NEW d \in 1..k
               PROVE  Back(d) \in 0..MaxSamples - 1 /\ circular[Back(d)] = readings[last + 1 - d]
    OBVIOUS
  <2>1. Back(d) \in 0..MaxSamples - 1
    BY <1>0, <1>1, <1>2, <1>5 DEF Back
  <2>2. d \in 1..MaxSamples /\ d <= fresh /\ d <= avgSamples /\ d <= last
    BY <1>0, <1>1, <1>2
  <2> QED BY <2>1, <2>2 DEF RingInv
<1> DEFINE place == [m \in 1..Len(Window) |-> Back(k + 1 - m) + 1]
<1>7. place \in [1..Len(Window) -> 1..MaxSamples]
  <2>1. ASSUME NEW m \in 1..k PROVE Back(k + 1 - m) + 1 \in 1..MaxSamples
    <3>1. k + 1 - m \in 1..k
      BY <1>2
    <3>2. Back(k + 1 - m) \in 0..MaxSamples - 1
      BY <1>6, <3>1
    <3> QED BY <1>0, <3>2
  <2> QED BY <1>3, <2>1
<1>8. ASSUME NEW i \in 1..Len(Window), NEW j \in 1..Len(Window), place[i] = place[j]
      PROVE  i = j
  <2>1. PICK d \in 1..k, e \in 1..k : d = k + 1 - i /\ e = k + 1 - j
    BY <1>2, <1>3
  <2>2. Back(d) = Back(e)
    <3>1. Back(d) + 1 = Back(e) + 1 /\ Back(d) \in Int /\ Back(e) \in Int
      BY <1>0, <1>6, <1>8, <2>1
    <3> QED BY <3>1
  <2>3. d = e
    BY <1>0, <1>1, <1>2, <1>5, <2>2 DEF Back
  <2> QED BY <1>2, <1>3, <2>1, <2>3
<1>9. \A m \in 1..Len(Window) : Samples[place[m]] = Window[m]
  <2> SUFFICES ASSUME NEW m \in 1..k PROVE Samples[place[m]] = Window[m]
    BY <1>3
  <2>1. PICK d \in 1..k : d = k + 1 - m
    BY <1>2
  <2>2. place[m] = Back(d) + 1 /\ Back(d) \in 0..MaxSamples - 1
    BY <1>3, <1>6, <2>1
  <2>3. Samples[place[m]] = circular[Back(d)]
    <3>1. Back(d) + 1 \in 1..MaxSamples /\ (Back(d) + 1) - 1 = Back(d)
      BY <1>0, <2>2
    <3> HIDE DEF place
    <3> QED BY <2>2, <3>1 DEF Samples
  <2>4. Window[m] = readings[last + 1 - d]
    BY <1>3, <2>1
  <2> QED BY <1>6, <2>3, <2>4
<1>10. ASSUME NEW p \in 1..MaxSamples, \A m \in 1..Len(Window) : p # place[m]
       PROVE  Samples[p] = 0
  <2>1. Samples[p] = circular[p - 1] /\ p - 1 \in 0..MaxSamples - 1
    BY <1>0 DEF Samples
  <2>2. ASSUME NEW d \in 1..k PROVE Back(d) # p - 1
    <3>1. k + 1 - d \in 1..Len(Window) /\ k + 1 - (k + 1 - d) = d
      BY <1>2, <1>3
    <3>2. place[k + 1 - d] = Back(d) + 1
      BY <3>1
    <3>3. Back(d) + 1 # p /\ Back(d) \in Int
      BY <1>0, <1>6, <1>10, <3>1, <3>2
    <3> QED BY <3>3
  <2>3. CASE p - 1 >= k
    <3>1. p - 1 \in sampleCount..MaxSamples - 1
      BY <1>0, <1>2, <1>4, <2>1, <2>3
    <3> QED BY <2>1, <3>1 DEF RingInv
  <2>4. CASE p - 1 < sampleIndex
    <3>1. sampleIndex - (p - 1) \in 1..k /\ Back(sampleIndex - (p - 1)) = p - 1
      BY <1>0, <1>1, <1>2, <1>5, <2>1, <2>4 DEF Back
    <3> QED BY <2>2, <3>1
  <2>5. CASE p - 1 >= sampleIndex /\ p - 1 < k
    <3>1. k = avgSamples
      <4>1. ASSUME k # avgSamples PROVE FALSE
        <5>1. k = last /\ last < avgSamples
          BY <1>0, <1>1, <4>1 DEF k
        <5>2. last < fresh
          BY <1>0, <1>1, <5>1
        <5>3. sampleIndex = last
          BY <5>2 DEF RingInv
        <5> QED BY <1>0, <1>1, <2>5, <5>1, <5>3
      <4> QED BY <4>1
    <3>2. sampleIndex + avgSamples - (p - 1) \in 1..k
          /\ Back(sampleIndex + avgSamples - (p - 1)) = p - 1
      BY <1>0, <1>1, <1>2, <1>5, <2>1, <2>5, <3>1 DEF Back
    <3> QED BY <2>2, <3>2
  <2> QED BY <1>0, <1>1, <1>2, <2>1, <2>3, <2>4, <2>5
<1>11. Samples \in [1..MaxSamples -> Int] /\ Window \in Seq(Int)
  <2>1. Samples \in [1..MaxSamples -> Int]
    <3>1. \A i \in 1..MaxSamples : i - 1 \in 0..MaxSamples - 1
      BY <1>0
    <3>2. \A i \in 1..MaxSamples : circular[i - 1] \in Int
      BY <1>1, <3>1, WordType
    <3> QED BY <3>2 DEF Samples
  <2>2. ASSUME NEW n \in Nat, NEW s \in Seq(0..n) PROVE s \in Seq(Int)
    OBVIOUS
  <2>3. Word - 1 \in Nat
    BY WordType
  <2> HIDE DEF k, place
  <2> QED BY <1>3, <2>1, <2>2, <2>3
<1> HIDE DEF place
<1>12. SumOf(Samples) = SumOf(Window)
  <2>1. MaxSamples \in Nat
    BY <1>0
  <2>2. \A i, j \in 1..Len(Window) : place[i] = place[j] => i = j
    BY <1>8
  <2>3. \A p \in 1..MaxSamples : (\A m \in 1..Len(Window) : p # place[m]) => Samples[p] = 0
    BY <1>10
  <2>4. PlacedIn(MaxSamples, Window, place, Samples)
    BY <2>1, <2>2, <2>3, <1>7, <1>9, <1>11 DEF PlacedIn
  <2> QED BY ONLY <2>4, SumOfPlaced
<1> QED BY <1>2, <1>3, <1>4, <1>12

LEMMA ExactFromInv == BatteryInv => BatteryExact
<1> SUFFICES ASSUME BatteryInv PROVE BatteryExact
  OBVIOUS
<1>1. BatteryType /\ sampleSum = SumOf(Samples)
  BY DEF BatteryInv
<1>2. sampleCount \in Nat /\ MaxSamples \in Nat \ {0} /\ Word \in Nat \ {0}
  BY <1>1, BatteryConstants, WordType DEF BatteryType
<1>3. percentage \in 0..100
  <2>1. CASE sampleCount = 0
    BY <2>1 DEF percentage
  <2>2. CASE sampleCount # 0
    <3>1. PICK sum \in Int, n \in Nat \ {0} : sum = sampleSum /\ n = sampleCount
      <4>1. sampleSum \in Int
        BY <1>1, SamplesType, SumType
      <4> QED BY <1>2, <2>2, <4>1
    <3>2. PICK q \in Int : q = sum \div n
      BY Division
    <3>3. PICK mv \in Nat : mv = q % Word
      <4>1. q % Word \in 0..Word - 1
        BY <1>2, Division
      <4> QED BY <1>2, <4>1
    <3>4. percentage = Percent(mv)
      BY <2>2, <3>1, <3>2, <3>3 DEF percentage
    <3> QED BY <3>4, PercentRange
  <2> QED BY <2>1, <2>2
<1>4. ASSUME ~shrunk, fresh >= avgSamples, readings # <<>>
      PROVE  percentage = Percent(SumOf(Window) \div Len(Window))
  <2>1. /\ Window \in Seq(0..Word - 1) /\ Len(Window) = sampleCount /\ sampleCount # 0
        /\ SumOf(Samples) = SumOf(Window)
    <3>1. RingInv /\ avgSamples <= fresh
      <4>1. avgSamples \in Int /\ fresh \in Int
        BY <1>1, <1>2 DEF BatteryType
      <4> QED BY <1>4, <4>1 DEF BatteryInv
    <3> QED BY <1>1, <1>4, <3>1, WindowSummed
  <2>2. PICK b \in Nat : b = Word - 1
    BY <1>2
  <2>3. SumOf(Window) \in Nat /\ SumOf(Window) <= Len(Window) * b
    BY <2>1, <2>2, SumBound
  <2>4. PICK sum \in Nat, n \in Nat \ {0} : sum = SumOf(Window) /\ n = sampleCount /\ sum <= n * b
    BY <1>2, <2>1, <2>3
  <2>5. sum \div n \in 0..b
    BY <2>4, QuotientBound
  <2>6. PICK q \in 0..Word - 1 : q = sum \div n
    BY <2>2, <2>5
  <2>7. q % Word = q
    BY <1>2, SmallRemainder
  <2> QED BY <1>1, <2>1, <2>4, <2>6, <2>7 DEF percentage
<1> QED BY <1>3, <1>4 DEF BatteryExact

\* The percentage is that of the average of the readings in the window, whatever
\* rotation of them the buffer holds, for every window and calibration (BatteryMgr).
THEOREM BatteryIsExact == BatterySpec => []BatteryExact
<1>1. BatterySpec => []BatteryInv
  BY BatteryInvInit, BatteryInvStep, PTL DEF BatterySpec
<1> QED BY <1>1, ExactFromInv, PTL
-----------------------------------------------------------------------------
(* The parts side by side *)

LEMMA PolledParts ==
  PolledSpec => Spec /\ TimersSpec /\ EncoderSpec /\ BatterySpec /\ ReportsSpec
<1>1. PolledInit => Init /\ TimersInit /\ EncoderInit /\ BatteryInit /\ ReportsInit
  BY DEF PolledInit
<1>2. [PolledNext]_polledVars =>
        /\ [Next]_vars /\ [LoopPasses]_timerVars /\ [EncoderNext]_encoderVars
        /\ [BatteryNext]_batteryVars /\ [ReportsNext]_active
  <2>1. ASSUME NEW p, Others(p)
        PROVE  /\ p = "matrix" \/ UNCHANGED vars
               /\ p = "timers" \/ UNCHANGED timerVars
               /\ p = "encoder" \/ UNCHANGED encoderVars
               /\ p = "battery" \/ UNCHANGED batteryVars
               /\ p = "reports" \/ UNCHANGED active
    BY <2>1 DEF Others
  <2>2. CASE UNCHANGED polledVars
    <3>1. /\ UNCHANGED vars /\ UNCHANGED timerVars /\ UNCHANGED encoderVars
          /\ UNCHANGED batteryVars /\ UNCHANGED active
      BY <2>2 DEF polledVars
    <3> QED BY <3>1
  <2>3. CASE PolledNext
    BY <2>1, <2>3 DEF PolledNext
  <2> QED BY <2>2, <2>3
<1> QED BY <1>1, <1>2, PTL DEF PolledSpec, Spec, TimersSpec, EncoderSpec, BatterySpec, ReportsSpec

\* The sensors agree with what they sense, in the specification the runs check.
THEOREM SensorsAgree == PolledSpec => []SensorsExact
<1>1. EncoderExact /\ BatteryExact => SensorsExact
  BY DEF SensorsExact
<1> QED BY <1>1, PolledParts, EncoderCountsEdges, BatteryIsExact, PTL

\* In the specification the runs check: the matrix tells the keyboard every change, and
\* only lasting images; the timers keep time and the reports are faithful.
THEOREM PolledPartsCorrect ==
  PolledSpec => [](TypeOK /\ ViewFollows /\ TimersInTime /\ ReportFaithful) /\ OnlyLastingImages
BY PolledParts, MatrixTypes, KeyboardIsTold, TimersKeepTime, ReportsAreFaithful,
   NoBounceGetsThrough, PTL

===============================================================================
