------------------------------- MODULE Keycodes -------------------------------
(***************************************************************************)
(* Classification of 16-bit QMK keycodes (src/src/VIA_Keycodes.h) and the  *)
(* keyboard report built from the held ones (Keyboard::buildReport,        *)
(* src/src/VIA_Keyboard.cpp).  Shifts and masks are divisions and          *)
(* remainders: hi = code >> 8, lo = code & 0xFF.                           *)
(***************************************************************************)
EXTENDS Integers, Sequences, SequencesExt, FiniteSets

Code == 0..65535
Hi(code) == code \div 256
Lo(code) == code % 256

NoCode == 0

classifyKeycode(code) ==
  CASE code = NoCode                 -> "none"
    [] code = 1                      -> "transparent"
    [] code \in 4..164               -> "basic"
    [] code \in 224..231             -> "modifier"
    [] Hi(code) \in 1..31            -> "basic"
    [] Hi(code) = 82                 -> "layer"
    [] Hi(code) = 124                -> "boot"
    [] OTHER                         -> "unsupported"

extractBasicUsage(code) == Lo(code)

\* The modifier byte as the set of its bits.
extractModifierMask(code) == {code - 224}

\* extractQkMods: five modifier bits, the top one choosing the right-hand side.
\* The shift is done in a byte, so nothing is lost: four bits go up by four.
IsQkMods(code)  == code \in 256..8191
QkModMask(code) ==
  LET bits == { i \in 0..3 : (Hi(code) \div 2^i) % 2 = 1 }
  IN  IF (code \div 4096) % 2 = 1 THEN { i + 4 : i \in bits } ELSE bits

\* extractLayerAction
IsLayerAction(code) == Hi(code) = 82
LayerActionOf(code) == (code \div 32) % 4
LayerOf(code)       == code % 32

Momentary == 0
Toggle    == 1
To        == 2
DefaultTo == 3

-----------------------------------------------------------------------------
(* Reports.  `active' is the sequence of activeCodes_ in row-major order.  *)

Slots     == 6
RollOver  == 1
NoReport  == [modifiers |-> {}, keys |-> <<>>]

IsBasic(code) == classifyKeycode(code) = "basic"

\* Mutant: a usage that is held twice takes two slots.
AddUsage_Twice(keys, usage) == Append(keys, usage)

\* Second pass: a usage takes a slot once, and only while there is one.
AddUsage(keys, usage) ==
  IF Len(keys) = Slots \/ \E i \in 1..Len(keys) : keys[i] = usage
  THEN keys ELSE Append(keys, usage)

AddKey(keys, code) ==
  IF IsBasic(code) THEN AddUsage(keys, extractBasicUsage(code)) ELSE keys

\* slots[i]: what the second pass has put in the slots after the first i positions.
Filled(active) ==
  LET slots[i \in 0..Len(active)] ==
        IF i = 0 THEN <<>> ELSE AddKey(slots[i - 1], active[i])
  IN  slots[Len(active)]

Modifiers(active) ==
  UNION { extractModifierMask(active[i]) :
          i \in { j \in 1..Len(active) : classifyKeycode(active[j]) = "modifier" } }

\* keys holds the occupied slots; the others are 0.
buildReport(active) ==
  LET basic == { i \in 1..Len(active) : IsBasic(active[i]) }
  IN  [modifiers |-> Modifiers(active),
       keys |-> IF Cardinality(basic) > Slots
                THEN [i \in 1..Slots |-> RollOver]
                ELSE Filled(active)]
=============================================================================
