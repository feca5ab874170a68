---------------------------- MODULE KeycodesProofs ----------------------------
(* What buildReport() computes, for every length of the matrix.  Its second pass *)
(* is a recursive function; the facts about it go by induction over the prefix   *)
(* it has looked at, and the induction is over sets of numbers.                  *)
EXTENDS Keycodes, FiniteSetTheorems, SequenceTheorems, WellFoundedInduction, TLAPS

Less == { pair \in Nat \X Nat : pair[1] < pair[2] }

LEMMA LeastNumber ==
  ASSUME NEW S, S \subseteq Nat, S # {}
  PROVE  \E m \in S : \A n \in S : m <= n
<1>1. IsWellFoundedOn(Less, Nat)
  BY NatLessThanWellFounded DEF OpToRel, Less
<1>2. PICK m \in S : \A n \in S : <<n, m>> \notin Less
  BY <1>1, WFMin
<1>3. \A n \in S : ~(n < m)
  BY <1>2 DEF Less
<1> QED BY <1>2, <1>3

\* A set that holds 0 and is closed under the successor up to n holds 0..n.
LEMMA PrefixInduction ==
  ASSUME NEW n \in Nat, NEW S, 0 \in S, \A i \in 1..n : i - 1 \in S => i \in S
  PROVE  0..n \subseteq S
<1> DEFINE Missing == (0..n) \ S
<1> SUFFICES ASSUME Missing # {} PROVE FALSE
  OBVIOUS
<1>0. Missing \subseteq Nat
  OBVIOUS
<1>1. PICK m \in Missing : \A k \in Missing : m <= k
  BY <1>0, LeastNumber
<1>2. m \in 1..n /\ m - 1 \notin Missing
  BY <1>1
<1> QED BY <1>1, <1>2

-----------------------------------------------------------------------------
(* The second pass *)

Filling(active, n, slots) ==
  slots = [i \in 0..n |-> IF i = 0 THEN <<>> ELSE AddKey(slots[i - 1], active[i])]

\* The definition of Filled has a solution.
LEMMA FillingExists ==
  ASSUME NEW active, NEW n \in Nat
  PROVE  \E slots : Filling(active, n, slots)
<1> DEFINE Solved == { i \in 0..n : \E slots : Filling(active, i, slots) }
<1>1. 0 \in Solved
  <2>1. Filling(active, 0, [i \in 0..0 |-> <<>>])
    BY DEF Filling
  <2> QED BY <2>1
<1>2. ASSUME NEW i \in 1..n, i - 1 \in Solved PROVE i \in Solved
  <2>1. PICK before : Filling(active, i - 1, before)
    BY <1>2
  <2> DEFINE after == [j \in 0..i |-> IF j = i THEN AddKey(before[i - 1], active[i]) ELSE before[j]]
  <2>2. before = [j \in 0..i - 1 |-> IF j = 0 THEN <<>> ELSE AddKey(before[j - 1], active[j])]
    BY <2>1 DEF Filling
  <2>3. \A j \in 0..i : after[j] = IF j = 0 THEN <<>> ELSE AddKey(after[j - 1], active[j])
    <3> SUFFICES ASSUME NEW j \in 0..i
                 PROVE  after[j] = IF j = 0 THEN <<>> ELSE AddKey(after[j - 1], active[j])
      OBVIOUS
    <3>1. CASE j = i
      BY <3>1
    <3>2. CASE j # i
      <4>1. j \in 0..i - 1 /\ after[j] = before[j]
        BY <3>2
      <4>2. j # 0 => j - 1 \in 0..i /\ j - 1 # i /\ after[j - 1] = before[j - 1]
        BY <3>2
      <4> QED BY <2>2, <4>1, <4>2
    <3> QED BY <3>1, <3>2
  <2>4. Filling(active, i, after)
    BY <2>3 DEF Filling
  <2> QED BY <2>4
<1>3. 0..n \subseteq Solved
  BY <1>1, <1>2, PrefixInduction
<1> QED BY <1>3

\* The slots after each position follow from those before it.
LEMMA FilledIs ==
  ASSUME NEW active \in Seq(Code)
  PROVE  \E slots : /\ slots[0] = <<>>
                    /\ \A i \in 1..Len(active) : slots[i] = AddKey(slots[i - 1], active[i])
                    /\ Filled(active) = slots[Len(active)]
<1>1. Len(active) \in Nat
  OBVIOUS
<1> DEFINE slots == CHOOSE slots : Filling(active, Len(active), slots)
<1>2. Filling(active, Len(active), slots)
  BY <1>1, FillingExists
<1>3. Filled(active) = slots[Len(active)]
  BY DEF Filled, Filling
<1> HIDE DEF slots
<1>4. /\ slots[0] = <<>>
      /\ \A i \in 1..Len(active) : slots[i] = AddKey(slots[i - 1], active[i])
  BY <1>1, <1>2 DEF Filling
<1> QED BY <1>3, <1>4

LEMMA BasicCodes ==
  ASSUME NEW code \in Code
  PROVE  extractBasicUsage(code) \in 0..255
BY DEF extractBasicUsage, Lo, Code

Usage     == 0..255
SlotsUsed == { keys \in Seq(Usage) : Len(keys) <= Slots }

LEMMA AddKeyType ==
  ASSUME NEW keys \in SlotsUsed, NEW code \in Code
  PROVE  AddKey(keys, code) \in SlotsUsed
<1>1. extractBasicUsage(code) \in Usage
  BY BasicCodes DEF Usage
<1>2. keys \in Seq(Usage) /\ Len(keys) \in Nat /\ Len(keys) <= 6
  BY DEF SlotsUsed, Slots
<1>3. CASE AddKey(keys, code) = keys
  BY <1>3
<1>4. CASE Len(keys) # 6 /\ AddKey(keys, code) = Append(keys, extractBasicUsage(code))
  <2>1. AddKey(keys, code) \in Seq(Usage) /\ Len(AddKey(keys, code)) = Len(keys) + 1
    BY <1>1, <1>2, <1>4
  <2>2. Len(AddKey(keys, code)) <= 6
    <3>1. \A n \in Nat : n <= 6 /\ n # 6 => n + 1 <= 6
      OBVIOUS
    <3>2. Len(keys) # 6
      BY <1>4
    <3> QED BY <1>2, <2>1, <3>1, <3>2
  <2> QED BY <2>1, <2>2 DEF SlotsUsed, Slots
<1> QED BY <1>3, <1>4 DEF AddKey, AddUsage, Slots

LEMMA FilledType ==
  ASSUME NEW active \in Seq(Code)
  PROVE  Filled(active) \in SlotsUsed
<1>1. PICK slots : /\ slots[0] = <<>>
                   /\ \A i \in 1..Len(active) : slots[i] = AddKey(slots[i - 1], active[i])
                   /\ Filled(active) = slots[Len(active)]
  BY FilledIs
<1> DEFINE Good == { i \in 0..Len(active) : slots[i] \in SlotsUsed }
<1>2. Len(active) \in Nat /\ \A i \in 1..Len(active) : active[i] \in Code
  OBVIOUS
<1>3. 0 \in Good
  <2>1. <<>> \in SlotsUsed
    BY EmptySeq DEF SlotsUsed, Slots
  <2> QED BY <1>1, <1>2, <2>1
<1>4. \A i \in 1..Len(active) : i - 1 \in Good => i \in Good
  BY <1>1, <1>2, AddKeyType
<1>5. 0..Len(active) \subseteq Good
  BY <1>2, <1>3, <1>4, PrefixInduction
<1> QED BY <1>1, <1>2, <1>5

-----------------------------------------------------------------------------
(* Reports *)

BasicUpTo(active, n) == { i \in 1..n : IsBasic(active[i]) }

LEMMA BasicGrows ==
  ASSUME NEW active \in Seq(Code), NEW i \in 1..Len(active)
  PROVE  /\ ~IsBasic(active[i]) => BasicUpTo(active, i) = BasicUpTo(active, i - 1)
         /\ IsBasic(active[i]) =>
              /\ BasicUpTo(active, i) = BasicUpTo(active, i - 1) \cup {i}
              /\ i \notin BasicUpTo(active, i - 1)
              /\ Cardinality(BasicUpTo(active, i)) = Cardinality(BasicUpTo(active, i - 1)) + 1
         /\ Cardinality(BasicUpTo(active, i - 1)) \in Nat
         /\ Cardinality(BasicUpTo(active, i)) <= Cardinality(BasicUpTo(active, Len(active)))
         /\ Cardinality(BasicUpTo(active, Len(active))) \in Nat
<1>1. Len(active) \in Nat /\ i \in Nat /\ i >= 1 /\ i <= Len(active)
  OBVIOUS
<1>2. \A n \in Nat : IsFiniteSet(BasicUpTo(active, n)) /\ Cardinality(BasicUpTo(active, n)) \in Nat
  <2>1. \A n \in Nat : IsFiniteSet(1..n) /\ BasicUpTo(active, n) \subseteq 1..n
    BY FS_Interval DEF BasicUpTo
  <2> QED BY <2>1, FS_Subset, FS_CardinalityType
<1>3. BasicUpTo(active, i) \subseteq BasicUpTo(active, Len(active))
  BY <1>1 DEF BasicUpTo
<1>4. Cardinality(BasicUpTo(active, i)) <= Cardinality(BasicUpTo(active, Len(active)))
  BY <1>1, <1>2, <1>3, FS_Subset
<1>5. ~IsBasic(active[i]) => BasicUpTo(active, i) = BasicUpTo(active, i - 1)
  BY <1>1 DEF BasicUpTo
<1>6. i \notin BasicUpTo(active, i - 1)
  BY <1>1 DEF BasicUpTo
<1>7. IsBasic(active[i]) => BasicUpTo(active, i) = BasicUpTo(active, i - 1) \cup {i}
  BY <1>1 DEF BasicUpTo
<1>8. i - 1 \in Nat /\ IsFiniteSet(BasicUpTo(active, i - 1)) /\ Cardinality(BasicUpTo(active, i - 1)) \in Nat
  BY <1>1, <1>2
<1>9. Cardinality(BasicUpTo(active, i - 1) \cup {i}) = Cardinality(BasicUpTo(active, i - 1)) + 1
  BY <1>6, <1>8, FS_AddElement
<1> QED BY <1>1, <1>2, <1>4, <1>5, <1>6, <1>7, <1>8, <1>9

UsageAt(active, i) == extractBasicUsage(active[i])

\* first[a] is the first of the first n positions that holds the usage in slot a, and
\* the slots follow the positions.
Firsts(active, n, keys, first) ==
  /\ first \in [1..Len(keys) -> BasicUpTo(active, n)]
  /\ \A a \in 1..Len(keys) :
       /\ UsageAt(active, first[a]) = keys[a]
       /\ \A j \in BasicUpTo(active, n) : UsageAt(active, j) = keys[a] => first[a] <= j
  /\ \A a, b \in 1..Len(keys) : a < b => first[a] < first[b]

Faithful(active, n, keys) ==
  /\ keys \in Seq(Usage) /\ Len(keys) <= Cardinality(BasicUpTo(active, n))
  /\ \A j \in BasicUpTo(active, n) : \E a \in 1..Len(keys) : keys[a] = UsageAt(active, j)
  /\ \E first : Firsts(active, n, keys, first)

\* One basic key more, while there is a slot for it.
LEMMA FaithfulStep ==
  ASSUME NEW active \in Seq(Code), NEW i \in 1..Len(active),
         Cardinality(BasicUpTo(active, Len(active))) <= Slots,
         NEW keys, Faithful(active, i - 1, keys)
  PROVE  Faithful(active, i, AddKey(keys, active[i]))
<1> DEFINE old == BasicUpTo(active, i - 1)
           now == BasicUpTo(active, i)
           usage == UsageAt(active, i)
           after == AddKey(keys, active[i])
<1>1. active[i] \in Code /\ usage \in Usage
  <2>1. active[i] \in Code
    BY ElementOfSeq
  <2> QED BY <2>1, BasicCodes DEF UsageAt, Usage
<1>2. keys \in Seq(Usage) /\ Len(keys) \in Nat /\ Len(keys) <= Cardinality(old)
  BY DEF Faithful
<1>3. PICK first : Firsts(active, i - 1, keys, first)
  BY DEF Faithful
<1>4. /\ first \in [1..Len(keys) -> old]
      /\ \A a \in 1..Len(keys) :
           /\ UsageAt(active, first[a]) = keys[a]
           /\ \A j \in old : UsageAt(active, j) = keys[a] => first[a] <= j
      /\ \A a, b \in 1..Len(keys) : a < b => first[a] < first[b]
  BY <1>3 DEF Firsts
<1>5. \A j \in old : \E a \in 1..Len(keys) : keys[a] = UsageAt(active, j)
  BY DEF Faithful
<1>6. \A j \in old : j \in Int /\ j < i
  BY DEF BasicUpTo
<1>7. CASE ~IsBasic(active[i])
  <2>1. now = old /\ after = keys
    BY <1>7, BasicGrows DEF AddKey
  <2> QED BY <2>1 DEF Faithful, Firsts
<1>8. CASE IsBasic(active[i])
  <2>1. /\ now = old \cup {i} /\ Cardinality(now) = Cardinality(old) + 1
        /\ Cardinality(old) \in Nat /\ Cardinality(now) <= 6
    BY <1>8, BasicGrows DEF Slots
  <2>2. Len(keys) # 6 /\ Len(keys) + 1 <= Cardinality(now) /\ Len(keys) <= Cardinality(now)
    <3>1. \A n, c \in Nat : n <= c /\ c + 1 <= 6 => n # 6 /\ n + 1 <= c + 1 /\ n <= c + 1
      OBVIOUS
    <3>2. Cardinality(old) + 1 <= 6
      BY <2>1
    <3>3. Len(keys) # 6 /\ Len(keys) + 1 <= Cardinality(old) + 1 /\ Len(keys) <= Cardinality(old) + 1
      BY <1>2, <2>1, <3>1, <3>2
    <3> QED BY <2>1, <3>3
  <2>3. after = IF \E k \in 1..Len(keys) : keys[k] = usage THEN keys ELSE Append(keys, usage)
    BY <1>8, <2>2 DEF AddKey, AddUsage, Slots, UsageAt
  <2>4. CASE \E k \in 1..Len(keys) : keys[k] = usage
    <3>1. after = keys
      BY <2>3, <2>4
    <3>2. \A j \in now : \E a \in 1..Len(keys) : keys[a] = UsageAt(active, j)
      BY <1>5, <2>1, <2>4
    <3>3. Firsts(active, i, keys, first)
      <4>1. first \in [1..Len(keys) -> now]
        BY <1>4, <2>1
      <4>2. \A a \in 1..Len(keys) : \A j \in now : UsageAt(active, j) = keys[a] => first[a] <= j
        BY <1>4, <1>6, <2>1
      <4> QED BY <1>4, <4>1, <4>2 DEF Firsts
    <3> QED BY <1>2, <2>2, <3>1, <3>2, <3>3 DEF Faithful
  <2>5. CASE ~ \E k \in 1..Len(keys) : keys[k] = usage
    <3> DEFINE more == [a \in 1..Len(keys) + 1 |-> IF a = Len(keys) + 1 THEN i ELSE first[a]]
    <3>1. after = Append(keys, usage)
      BY <2>3, <2>5
    <3>2. /\ after \in Seq(Usage) /\ Len(after) = Len(keys) + 1
          /\ \A a \in 1..Len(keys) : after[a] = keys[a]
          /\ after[Len(keys) + 1] = usage
      BY <1>1, <1>2, <3>1
    <3>3. \A a \in 1..Len(after) : a = Len(keys) + 1 \/ a \in 1..Len(keys)
      BY <1>2, <3>2
    <3>4. \A j \in now : \E a \in 1..Len(after) : after[a] = UsageAt(active, j)
      <4>1. Len(keys) + 1 \in 1..Len(after) /\ 1..Len(keys) \subseteq 1..Len(after)
        BY <1>2, <3>2
      <4> QED BY <1>5, <2>1, <3>2, <4>1
    <3>5. \A a \in 1..Len(keys) : a # Len(keys) + 1 /\ a \in 1..Len(keys) + 1 /\ more[a] = first[a]
      BY <1>2
    <3>6. more[Len(keys) + 1] = i
      BY <1>2
    <3>7. more \in [1..Len(after) -> now]
      BY <1>4, <2>1, <3>2, <3>3, <3>5, <3>6
    <3>8. ASSUME NEW a \in 1..Len(after)
          PROVE  /\ UsageAt(active, more[a]) = after[a]
                 /\ \A j \in now : UsageAt(active, j) = after[a] => more[a] <= j
      <4>1. CASE a = Len(keys) + 1
        <5>1. \A j \in old : UsageAt(active, j) # usage
          BY <1>5, <2>5
        <5> QED BY <2>1, <3>2, <3>6, <4>1, <5>1
      <4>2. CASE a \in 1..Len(keys)
        <5>1. keys[a] # usage
          BY <2>5, <4>2
        <5> QED BY <1>4, <2>1, <3>2, <3>5, <4>2, <5>1
      <4> QED BY <3>3, <4>1, <4>2
    <3>9. ASSUME NEW a \in 1..Len(after), NEW b \in 1..Len(after), a < b PROVE more[a] < more[b]
      <4>1. a \in 1..Len(keys)
        BY <1>2, <3>2, <3>9
      <4>2. CASE b = Len(keys) + 1
        BY <1>4, <1>6, <3>5, <3>6, <4>1, <4>2
      <4>3. CASE b \in 1..Len(keys)
        BY <1>4, <3>5, <3>9, <4>1, <4>3
      <4> QED BY <3>3, <4>2, <4>3
    <3>10. Firsts(active, i, after, more)
      BY <3>7, <3>8, <3>9 DEF Firsts
    <3> QED BY <2>2, <3>2, <3>4, <3>10 DEF Faithful
  <2> QED BY <2>4, <2>5
<1> QED BY <1>7, <1>8

LEMMA FilledFaithful ==
  ASSUME NEW active \in Seq(Code), Cardinality(BasicUpTo(active, Len(active))) <= Slots
  PROVE  Faithful(active, Len(active), Filled(active))
<1>1. PICK slots : /\ slots[0] = <<>>
                   /\ \A i \in 1..Len(active) : slots[i] = AddKey(slots[i - 1], active[i])
                   /\ Filled(active) = slots[Len(active)]
  BY FilledIs
<1> DEFINE Good == { i \in 0..Len(active) : Faithful(active, i, slots[i]) }
<1>2. Len(active) \in Nat
  OBVIOUS
<1>3. 0 \in Good
  <2>1. BasicUpTo(active, 0) = {}
    BY DEF BasicUpTo
  <2>2. <<>> \in Seq(Usage) /\ Len(<<>>) = 0
    BY EmptySeq
  <2>3. 1..Len(<<>>) = {}
    BY <2>2
  <2>4. Firsts(active, 0, <<>>, [a \in {} |-> 0])
    BY <2>3 DEF Firsts
  <2>5. Len(<<>>) <= Cardinality(BasicUpTo(active, 0))
    <3>1. Cardinality(BasicUpTo(active, 0)) = 0
      BY <2>1, FS_EmptySet
    <3> QED BY <2>2, <3>1
  <2>6. Faithful(active, 0, <<>>)
    BY <2>1, <2>2, <2>4, <2>5 DEF Faithful
  <2> QED BY <1>1, <1>2, <2>6
<1>4. \A i \in 1..Len(active) : i - 1 \in Good => i \in Good
  BY <1>1, <1>2, FaithfulStep
<1>5. 0..Len(active) \subseteq Good
  BY <1>2, <1>3, <1>4, PrefixInduction
<1> QED BY <1>1, <1>2, <1>5

LEMMA BuiltReport ==
  ASSUME NEW active \in Seq(Code)
  PROVE  buildReport(active) =
           [modifiers |-> Modifiers(active),
            keys |-> IF Cardinality(BasicUpTo(active, Len(active))) > Slots
                     THEN [i \in 1..Slots |-> RollOver] ELSE Filled(active)]
BY DEF buildReport, BasicUpTo

\* A modifier key is one of eight codes, and stands for its own bit.
LEMMA ModifierCodes ==
  ASSUME NEW code \in Code
  PROVE  /\ classifyKeycode(code) = "modifier" <=> code \in 224..231
         /\ extractModifierMask(code) = {code - 224}
<1>1. code \in 224..231 => Hi(code) = 0
  BY DEF Hi
<1> QED BY <1>1 DEF classifyKeycode, extractModifierMask, Code, NoCode

LEMMA ModifiersAre ==
  ASSUME NEW active \in Seq(Code)
  PROVE  Modifiers(active) = { m \in 0..7 : \E i \in 1..Len(active) : active[i] = 224 + m }
<1>1. \A i \in 1..Len(active) : active[i] \in Code /\ active[i] \in Int
  <2>1. \A i \in 1..Len(active) : active[i] \in Code
    BY ElementOfSeq
  <2>2. Code \subseteq Int
    BY DEF Code
  <2> QED BY <2>1, <2>2
<1>2. ASSUME NEW m, m \in Modifiers(active)
      PROVE  m \in 0..7 /\ \E i \in 1..Len(active) : active[i] = 224 + m
  <2>1. PICK i \in 1..Len(active) : classifyKeycode(active[i]) = "modifier" /\ m \in extractModifierMask(active[i])
    BY <1>2 DEF Modifiers
  <2>2. active[i] \in 224..231 /\ m = active[i] - 224
    BY <1>1, <2>1, ModifierCodes
  <2> QED BY <2>2
<1>3. ASSUME NEW m \in 0..7, NEW i \in 1..Len(active), active[i] = 224 + m
      PROVE  m \in Modifiers(active)
  <2>1. classifyKeycode(active[i]) = "modifier" /\ extractModifierMask(active[i]) = {active[i] - 224}
    BY <1>1, <1>3, ModifierCodes
  <2>2. m \in extractModifierMask(active[i])
    BY <1>3, <2>1
  <2> QED BY <2>1, <2>2 DEF Modifiers
<1> QED BY <1>2, <1>3

\* A report has eight modifier bits and six slots, whatever is held.
LEMMA ReportType ==
  ASSUME NEW active \in Seq(Code)
  PROVE  /\ buildReport(active).modifiers \subseteq 0..7
         /\ buildReport(active).keys \in SlotsUsed
<1>1. buildReport(active).modifiers \subseteq 0..7
  BY BuiltReport, ModifiersAre
<1>2. [i \in 1..Slots |-> RollOver] \in SlotsUsed
  <2>1. [i \in 1..6 |-> 1] \in Seq(Usage) /\ Len([i \in 1..6 |-> 1]) = 6
    BY DEF Usage
  <2> QED BY <2>1 DEF SlotsUsed, Slots, RollOver
<1>3. Filled(active) \in SlotsUsed
  BY FilledType
<1>4. buildReport(active).keys \in {[i \in 1..Slots |-> RollOver], Filled(active)}
  BY BuiltReport
<1> QED BY <1>1, <1>2, <1>3, <1>4

\* With no key held the report is empty.
LEMMA IdleReport ==
  ASSUME NEW active \in Seq(Code), \A i \in 1..Len(active) : active[i] = NoCode
  PROVE  buildReport(active) = NoReport
<1>1. Len(active) \in Nat
  OBVIOUS
<1>2. ~IsBasic(NoCode) /\ \A m \in 0..7 : NoCode # 224 + m
  <2>1. classifyKeycode(NoCode) = "none"
    BY DEF classifyKeycode, NoCode, Hi
  <2> QED BY <2>1 DEF IsBasic, NoCode
<1>3. BasicUpTo(active, Len(active)) = {}
  BY <1>2 DEF BasicUpTo
<1>4. Cardinality(BasicUpTo(active, Len(active))) = 0
  BY <1>3, FS_EmptySet
<1>5. Modifiers(active) = {}
  BY <1>2, ModifiersAre
<1>6. Filled(active) = <<>>
  <2>1. Filled(active) \in Seq(Usage) /\ Len(Filled(active)) <= 0
    BY <1>4, FilledFaithful DEF Faithful, Slots
  <2> QED BY <2>1, EmptySeq
<1> QED BY <1>4, <1>5, <1>6, BuiltReport DEF NoReport, Slots

===============================================================================
