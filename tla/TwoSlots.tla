------------------------------- MODULE TwoSlots -------------------------------
(***************************************************************************)
(* What the two-slot storage adapters have in common: FlashStorage         *)
(* (src/src/VIA_STM32F1_Flash.cpp) and InternalFSStorage                   *)
(* (src/src/VIA_nRF52_InternalFS.cpp) keep two records, each with a number *)
(* that counts commits and wraps around, and start from the newer one.     *)
(***************************************************************************)
EXTENDS Integers

CONSTANT Numbers   \* number of values of the commit counter (2^32 in the code)

ASSUME NumbersAssumption == Numbers \in Nat /\ Numbers >= 4 /\ Numbers % 2 = 0

Number == 0..Numbers - 1
Slots  == {"A", "B"}
Other(s) == IF s = "A" THEN "B" ELSE "A"

\* Mutant: the counter is wider than the field it is stored in.
Following_Wide(n) == n + 1

Following(n) == (n + 1) % Numbers

\* Mutant: the counters are compared as they are.
Newer_NoWrap(a, b) == a > b

\* (int32_t)(a - b) > 0
Newer(a, b) == (a - b) % Numbers \in 1..(Numbers \div 2 - 1)

\* The slot to start from, given the valid ones and their numbers.
Newest(valid, number) ==
  IF valid = Slots THEN IF Newer(number["A"], number["B"]) THEN "A" ELSE "B"
                   ELSE CHOOSE s \in valid : TRUE
=============================================================================
