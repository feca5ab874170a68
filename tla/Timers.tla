-------------------------------- MODULE Timers --------------------------------
(***************************************************************************)
(* The two timers of the main loop that run on millis(): the auto-save of  *)
(* Protocol (src/src/VIA_Protocol.cpp) and SleepMgr                        *)
(* (src/src/VIA_SleepMgr.h).  One pass of the loop calls Protocol::task,   *)
(* with or without a command that edits, and SleepMgr::update.             *)
(***************************************************************************)
EXTENDS Integers

CONSTANTS
  TimerClock,   \* number of values of millis() (2^32 in the code), even
  AutoSaveMs, SleepMs,
  LoopMs        \* longest pass of the loop

\* Deadlines are compared by signed differences, idle times by unsigned ones.
ASSUME TimersAssumption ==
  /\ TimerClock \in Nat \ {0} /\ TimerClock % 2 = 0
  /\ {AutoSaveMs, SleepMs, LoopMs} \subseteq Nat
  /\ 2 * AutoSaveMs < TimerClock /\ SleepMs + LoopMs < TimerClock

VARIABLES
  millis, dirty, saveAt, lastActivityTs, sleepRequested,
  saveTried,    \* history: the last pass called save()
  sinceEdit,    \* history: ms since the last edit, up to TimerClock
  idle          \* history: ms since the last activity, up to TimerClock

timerVars == <<millis, dirty, saveAt, lastActivityTs, sleepRequested, saveTried, sinceEdit, idle>>

UpTo(n) == IF n < TimerClock THEN n ELSE TimerClock

\* Mutant: the wrapped clock is compared without the difference.
Due_NoWrap(now, deadline) == now >= deadline

\* The difference is not negative as an int32_t.
Due(now, deadline) == (now - deadline) % TimerClock < TimerClock \div 2

\* begin(), and update(true, millis()) in setup().
TimersInit ==
  /\ millis \in 0..TimerClock - 1
  /\ dirty = FALSE /\ saveAt = (millis + AutoSaveMs) % TimerClock
  /\ lastActivityTs = millis /\ sleepRequested = FALSE
  /\ saveTried = FALSE /\ sinceEdit = 0 /\ idle = 0

\* Protocol::task(now): a command may edit, or save; an overdue save is tried, and
\* may fail.
TaskAt(now, request) ==
  LET deadline == IF request = "edit" THEN (now + AutoSaveMs) % TimerClock ELSE saveAt
      unsaved  == request = "edit" \/ (dirty /\ request # "save")
  IN  /\ saveAt' = deadline
      /\ saveTried' = (unsaved /\ Due(now, deadline))
      /\ \/ dirty' = unsaved
         \/ saveTried' /\ dirty' = FALSE

\* SleepMgr::update(activity, now)
SleepUpdate(activity, now) ==
  /\ lastActivityTs' = IF activity THEN now ELSE lastActivityTs
  /\ sleepRequested' = (~activity
       /\ (sleepRequested \/ (now - lastActivityTs) % TimerClock >= SleepMs))

LoopPasses ==
  \E d \in 0..LoopMs, request \in {"none", "edit", "save"}, activity \in BOOLEAN :
    /\ millis' = (millis + d) % TimerClock
    /\ TaskAt(millis', request)
    /\ sinceEdit' = IF request = "edit" THEN 0 ELSE UpTo(sinceEdit + d)
    /\ SleepUpdate(activity, millis')
    /\ idle' = IF activity THEN 0 ELSE UpTo(idle + d)

TimersSpec == TimersInit /\ [][LoopPasses]_timerVars

-----------------------------------------------------------------------------
\* Wherever the clock wraps: a save is tried only when the last edit is AutoSaveMs
\* old, and at every pass from then on until one works, or until it is half a turn
\* of the clock overdue and the deadline seems to lie ahead.  Sleep is requested from
\* the pass that finds the keyboard idle for SleepMs until there is activity.
TimersInTime ==
  /\ saveTried => sinceEdit >= AutoSaveMs
  /\ dirty /\ sinceEdit \in AutoSaveMs..AutoSaveMs + TimerClock \div 2 - 1 => saveTried
  /\ sleepRequested => idle >= SleepMs
  /\ idle >= SleepMs /\ idle > 0 => sleepRequested
=============================================================================
