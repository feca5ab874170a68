------------------------------ MODULE KeyReports ------------------------------
(***************************************************************************)
(* Held positions change one at a time and every report built on the way   *)
(* is compared with what a boot-protocol keyboard has to report.           *)
(***************************************************************************)
EXTENDS Keycodes

CONSTANTS
  Positions,   \* number of matrix positions
  Codes        \* codes a held position may have latched

ASSUME KeyReportsAssumption == Positions \in Nat \ {0} /\ Codes \subseteq Code

VARIABLE active

ReportsInit == active = [i \in 1..Positions |-> NoCode]
ReportsNext == \E i \in 1..Positions, c \in Codes \cup {NoCode} :
          active' = [active EXCEPT ![i] = c]
ReportsSpec == ReportsInit /\ [][ReportsNext]_active

Report == buildReport(active)

HeldBasic == { i \in 1..Positions : IsBasic(active[i]) }
Usages    == { extractBasicUsage(active[i]) : i \in HeldBasic }
FirstHeld(u) == CHOOSE i \in HeldBasic :
  /\ extractBasicUsage(active[i]) = u
  /\ \A j \in HeldBasic : extractBasicUsage(active[j]) = u => i <= j

\* Up to six positions with basic codes are reported, each usage once, none missing, in
\* the row-major order of the first position that holds it; more are a rollover in every
\* slot, whether or not their usages are distinct (by the design they have to be).  No
\* modifier key takes a slot or is missing or invented, in a rollover either.  The
\* modifiers that a QK_MODS code carries are not reported: its usage stands alone.
ReportFaithful ==
  LET k == Report.keys
  IN  /\ Cardinality(HeldBasic) <= Slots =>
           /\ { k[i] : i \in 1..Len(k) } = Usages
           /\ \A i, j \in 1..Len(k) : i < j => FirstHeld(k[i]) < FirstHeld(k[j])
      /\ Cardinality(HeldBasic) > Slots => k = [i \in 1..Slots |-> RollOver]
      /\ Report.modifiers = { m \in 0..7 : \E i \in 1..Positions : active[i] = 224 + m }

\* What a held code does by itself.
NoLayer == <<>>
Effect(code) ==
  [report |-> buildReport(<<code>>),
   layer  |-> IF IsLayerAction(code) THEN <<LayerActionOf(code), LayerOf(code)>> ELSE NoLayer,
   boot   |-> classifyKeycode(code) = "boot"]

\* What it does by the table of the design's section Supported Keycodes.
Does(modifiers, keys, layer, boot) ==
  [report |-> [modifiers |-> modifiers, keys |-> keys], layer |-> layer, boot |-> boot]
DesignedEffect(code) ==
  CASE code \in 4..164       -> Does({}, <<code>>, NoLayer, FALSE)
    [] code \in 224..231     -> Does({code - 224}, <<>>, NoLayer, FALSE)
    [] code \in 256..8191    -> Does(QkModMask(code), <<Lo(code)>>, NoLayer, FALSE)
    [] code \in 20992..21023 -> Does({}, <<>>, <<To, code % 32>>, FALSE)
    [] code \in 21024..21055 -> Does({}, <<>>, <<Momentary, code % 32>>, FALSE)
    [] code \in 21056..21087 -> Does({}, <<>>, <<DefaultTo, code % 32>>, FALSE)
    [] code \in 21088..21119 -> Does({}, <<>>, <<Toggle, code % 32>>, FALSE)
    [] code = 31744          -> Does({}, <<>>, NoLayer, TRUE)
    [] OTHER                 -> Does({}, <<>>, NoLayer, FALSE)

\* Design section Supported Keycodes: every code does what its row says, and a
\* code without a row does nothing.
CodesActAsDesigned == \A i \in 1..Positions : Effect(active[i]) = DesignedEffect(active[i])
=============================================================================
