------------------------------- MODULE MCPolled -------------------------------
(* What the main loop polls, for TLC: the matrix, the timers, the encoder, the *)
(* battery, and the report of the held keys.  The parts share no state; one of *)
(* them moves in a behaviour and the others stay as they began.                *)
EXTENDS Matrix, Timers, Encoder, Battery, KeyReports

VARIABLE polled

\* Two switches that share neither row nor column, so that either direction of
\* scanning may tear the image.
Diagonal == { <<1, 1>>, <<2, 2>> }
BothWays == { <<TRUE, 2>>, <<FALSE, 2>>, <<TRUE, 0>> }

polledVars == <<polled, vars, timerVars, encoderVars, batteryVars, active>>

\* Everything but part p.
Others(p) ==
  /\ polled = p /\ UNCHANGED polled
  /\ p = "matrix"  \/ UNCHANGED vars
  /\ p = "timers"  \/ UNCHANGED timerVars
  /\ p = "encoder" \/ UNCHANGED encoderVars
  /\ p = "battery" \/ UNCHANGED batteryVars
  /\ p = "reports" \/ UNCHANGED active

PolledInit ==
  /\ polled \in {"matrix", "timers", "encoder", "battery", "reports"}
  /\ Init /\ TimersInit /\ EncoderInit /\ BatteryInit /\ ReportsInit
  /\ polled # "matrix" => closed = Blank /\ config = <<TRUE, 0>>   \* one state of what rests
  /\ polled # "timers" => millis = 0
  /\ polled # "encoder" => debounce = 0

PolledNext ==
  \/ Others("matrix")  /\ Next
  \/ Others("timers")  /\ LoopPasses
  \/ Others("encoder") /\ EncoderNext
  \/ Others("battery") /\ BatteryNext
  \/ Others("reports") /\ ReportsNext

\* FairSpec of Matrix, where the matrix moves.
PolledSpec ==
  /\ PolledInit /\ [][PolledNext]_polledVars
  /\ WF_polledVars(Others("matrix") /\ Task)
  /\ SF_polledVars(Others("matrix") /\ Tick /\ now' # now)

-----------------------------------------------------------------------------
\* The sensors agree with what they sense.
SensorsExact == EncoderExact /\ BatteryExact
=============================================================================
