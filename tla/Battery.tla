-------------------------------- MODULE Battery --------------------------------
(***************************************************************************)
(* via::BatteryMgr (src/src/VIA_Battery.h): a moving average in a circular *)
(* buffer whose window can be set at any time.                             *)
(***************************************************************************)
EXTENDS Naturals, Sequences

CONSTANTS
  MaxSamples,     \* size of circular_ (32 in the code)
  Raws,           \* readings of the converter
  MaxRaw,         \* 2^adcBits_ - 1
  Vref, MinMv, MaxMv

Word == 65536     \* number of values of a uint16_t

\* No check of the code keeps the window within circular_ or away from 0.
ASSUME BatteryAssumption ==
  /\ MaxSamples \in Nat \ {0} /\ MaxRaw \in Nat \ {0} /\ Raws \subseteq 0..MaxRaw
  /\ {Vref, MinMv, MaxMv} \subseteq 0..Word - 1 /\ MinMv < MaxMv

VARIABLES
  avgSamples, circular, sampleIndex, sampleCount, sampleSum,
  readings,       \* history: the last MaxSamples millivolts
  fresh,          \* history: updates since the window last changed
  shrunk          \* history: the window was made smaller than sampleCount

batteryVars == <<avgSamples, circular, sampleIndex, sampleCount, sampleSum,
                 readings, fresh, shrunk>>

rawToMv(raw) == ((raw * Vref) \div MaxRaw) % Word

Clamped(mv) == IF mv < MinMv THEN MinMv ELSE IF mv > MaxMv THEN MaxMv ELSE mv

Percent(avgMv) ==
  IF avgMv <= MinMv THEN 0
  ELSE IF avgMv >= MaxMv THEN 100 ELSE ((avgMv - MinMv) * 100) \div (MaxMv - MinMv)

percentage == IF sampleCount = 0 THEN 0 ELSE Percent((sampleSum \div sampleCount) % Word)

LastOf(s, n) == IF Len(s) <= n THEN s ELSE SubSeq(s, Len(s) - n + 1, Len(s))

\* Mutant: the oldest sample stays in the sum.
BatteryUpdate_Adds(raw) ==
  LET mv == Clamped(rawToMv(raw))
  IN  /\ sampleSum' = sampleSum + mv
      /\ circular' = [circular EXCEPT ![sampleIndex] = mv]
      /\ sampleCount' = IF sampleCount < avgSamples THEN sampleCount + 1 ELSE sampleCount
      /\ sampleIndex' = IF sampleIndex + 1 >= avgSamples THEN 0 ELSE sampleIndex + 1
      /\ readings' = LastOf(Append(readings, mv), MaxSamples)
      /\ fresh' = IF fresh < MaxSamples THEN fresh + 1 ELSE fresh
      /\ sampleSum < 4 * MaxSamples * MaxMv
      /\ UNCHANGED <<avgSamples, shrunk>>

BatteryUpdate(raw) ==
  LET mv == Clamped(rawToMv(raw))
  IN  /\ sampleSum' = sampleSum + mv - circular[sampleIndex]
      /\ circular' = [circular EXCEPT ![sampleIndex] = mv]
      /\ sampleCount' = IF sampleCount < avgSamples THEN sampleCount + 1 ELSE sampleCount
      /\ sampleIndex' = IF sampleIndex + 1 >= avgSamples THEN 0 ELSE sampleIndex + 1
      /\ readings' = LastOf(Append(readings, mv), MaxSamples)
      /\ fresh' = IF fresh < MaxSamples THEN fresh + 1 ELSE fresh
      /\ UNCHANGED <<avgSamples, shrunk>>

setAverageSamples(n) ==
  /\ avgSamples' = n
  /\ fresh' = 0
  /\ shrunk' = (shrunk \/ n < sampleCount \/ n <= sampleIndex)
  /\ UNCHANGED <<circular, sampleIndex, sampleCount, sampleSum, readings>>

BatteryInit ==
  /\ avgSamples = MaxSamples /\ circular = [i \in 0..MaxSamples - 1 |-> 0]
  /\ sampleIndex = 0 /\ sampleCount = 0 /\ sampleSum = 0
  /\ readings = <<>> /\ fresh = MaxSamples /\ shrunk = FALSE

BatteryNext ==
  \/ \E raw \in Raws : BatteryUpdate(raw)
  \/ \E n \in 1..MaxSamples : setAverageSamples(n)

BatterySpec == BatteryInit /\ [][BatteryNext]_batteryVars

-----------------------------------------------------------------------------
SumOf(s) ==
  LET total[i \in 0..Len(s)] == IF i = 0 THEN 0 ELSE total[i - 1] + s[i]
  IN  total[Len(s)]
Window == LastOf(readings, avgSamples)

\* Unless the window was ever made smaller than what it held, and once it has been
\* filled anew after it was made larger: the percentage is that of the average of the
\* last avgSamples readings, or of all there are.  It is one at all times.
BatteryExact ==
  /\ percentage \in 0..100
  /\ ~shrunk /\ fresh >= avgSamples /\ readings # <<>> =>
       percentage = Percent(SumOf(Window) \div Len(Window))
=============================================================================
