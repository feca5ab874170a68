----------------------------- MODULE StorageProofs -----------------------------
(***************************************************************************)
(* The storage adapters keep what was committed: ShadowCopy, SlotFlash and *)
(* SlotFiles, for all contents and all ranges of the commit counters.  And *)
(* the commands that change settings keep what the host wrote, for all     *)
(* sizes of keymap, encoder map and macros.                                *)
(***************************************************************************)
EXTENDS MCSettings, TLAPS

-----------------------------------------------------------------------------
(* ShadowCopy *)

\* Only the emulated EEPROM rewrites a sector.
RewriteInv == shadowStep \in {"sector", "program"} => store = "eeprom"

ShadowInv == ShadowTypeOK /\ RewriteInv /\ ShadowKeepsCommits

LEMMA ShadowInvInit == ShadowInit => ShadowInv
BY BlobAssumption DEF ShadowInit, ShadowInv, ShadowTypeOK, RewriteInv, ShadowKeepsCommits

LEMMA ShadowInvStep ==
  ASSUME ShadowInv, [ShadowNext]_shadowVars
  PROVE  ShadowInv'
<1> USE BlobAssumption DEF ShadowInv, ShadowTypeOK, RewriteInv, ShadowKeepsCommits
<1>1. CASE ShadowBegin
  BY <1>1 DEF ShadowBegin
<1>2. CASE \E blob \in Blob : ShadowWrite(blob)
  BY <1>2 DEF ShadowWrite
<1>3. CASE NvsErase \/ EepromErase
  BY <1>3 DEF NvsErase, EepromErase
<1>4. CASE NvsCommit \/ EepromCommit
  BY <1>4 DEF NvsCommit, EepromCommit
<1>5. CASE SectorErased \/ SectorProgrammed \/ SectorRefused
  BY <1>5 DEF SectorErased, SectorProgrammed, SectorRefused
<1>6. CASE ShadowPowerLoss
  BY <1>6 DEF ShadowPowerLoss
<1>7. CASE UNCHANGED shadowVars
  BY <1>7 DEF shadowVars
<1> QED BY <1>1, <1>2, <1>3, <1>4, <1>5, <1>6, <1>7 DEF ShadowNext

LEMMA ShadowInvariant == ShadowSpec => []ShadowInv
BY ShadowInvInit, ShadowInvStep, PTL DEF ShadowSpec

\* NVS brings back the last store whose commit() succeeded, whatever happens when; so
\* does the emulated EEPROM unless power is lost while its sector is rewritten.
THEOREM ShadowDurable == ShadowSpec => []ShadowKeepsCommits
BY ShadowInvariant, PTL DEF ShadowInv

-----------------------------------------------------------------------------
(* The commit counters of two slots *)

LEMMA FollowingIs ==
  ASSUME NEW n \in Number
  PROVE  /\ Following(n) = IF n = Numbers - 1 THEN 0 ELSE n + 1
         /\ Following(n) \in Number
BY NumbersAssumption DEF Following, Number

\* The number of a commit is newer than the one before, wherever the counter wraps.
LEMMA FollowingNewer ==
  ASSUME NEW n \in Number
  PROVE  Newer(Following(n), n) /\ ~Newer(n, Following(n))
BY FollowingIs, NumbersAssumption DEF Newer, Number

-----------------------------------------------------------------------------
(* SlotFlash: types *)

LEMMA EnvelopesDiffer == NoEnvelope \notin Envelope /\ Rubbish \notin Envelope
<1>1. <<>> \notin Body /\ <<"?">> \notin Body
  BY DEF Body, Word
<1> QED BY <1>1 DEF NoEnvelope, Rubbish, Envelope

LEMMA CutShortType ==
  ASSUME FlashTypeOK, CutShort
  PROVE  slot' \in [Slots -> FlashSlot]
<1> USE DEF FlashTypeOK, FlashSlot, Body, Word
<1>1. CASE UNCHANGED slot
  BY <1>1
<1>2. CASE flashStep = "erasePage1" /\ ~UNCHANGED slot
  <2>1. PICK e \in {slot[provisionalSlot].envelope, NoEnvelope, Rubbish},
             m \in {slot[provisionalSlot].marker, FALSE}, b \in SUBSET Bit :
          slot' = [slot EXCEPT ![provisionalSlot] =
            [slot[provisionalSlot] EXCEPT !.envelope = e, !.marker = m, !.body["head"] = b]]
    BY <1>2 DEF CutShort
  <2>2. e \in Envelope \cup {NoEnvelope, Rubbish} /\ m \in BOOLEAN
    OBVIOUS
  <2> QED BY <2>1, <2>2
<1>3. CASE flashStep = "erasePage2" /\ ~UNCHANGED slot
  BY <1>3 DEF CutShort
<1>4. CASE flashStep = "commitEnvelope" /\ ~UNCHANGED slot
  BY <1>4 DEF CutShort
<1>5. CASE flashStep = "idle" /\ ~UNCHANGED slot
  <2>1. PICK w \in Word, b \in SUBSET Bit :
          slot' = [slot EXCEPT ![provisionalSlot] =
            [slot[provisionalSlot] EXCEPT !.body[w] = @ \cup b]]
    BY <1>5 DEF CutShort
  <2> QED BY <2>1
<1> QED BY <1>1, <1>2, <1>3, <1>4, <1>5 DEF CutShort

LEMMA SelectedType == FlashTypeOK /\ Startable => Selected \in Slots
BY DEF Selected, Newest, ValidSlots, EmptySlots, Slots, Startable

LEMMA BlankSlotType == BlankBody \in Body /\ BlankSlot \in FlashSlot
BY DEF BlankBody, Body, BlankSlot, FlashSlot

LEMMA FlashTypeInit == FlashInit => FlashTypeOK
<1>1. 0 \in Number
  BY NumbersAssumption DEF Number
<1> QED BY <1>1, BlankSlotType DEF FlashInit, FlashTypeOK, Slots

LEMMA FlashTypeStep ==
  ASSUME FlashTypeOK, [FlashNext]_flashVars
  PROVE  FlashTypeOK'
<1> USE DEF FlashTypeOK
<1>1. CASE FlashBegin
  <2>1. Startable => Selected \in Slots /\ slot[Selected] \in FlashSlot
    BY SelectedType
  <2>2. Startable /\ ValidSlots # {} => slot[Selected].envelope \in Envelope
    BY <2>1 DEF ValidSlots, Valid, Selected, Newest, Slots
  <2>3. CASE Startable
    <3>1. activeSeq' \in Number
      BY <1>1, <2>2, <2>3, NumbersAssumption DEF FlashBegin, Envelope, Number
    <3>2. saved' \in Body
      BY <1>1, <2>1, <2>3 DEF FlashBegin, FlashReload, FlashSlot
    <3> QED BY <1>1, <2>1, <2>3, <3>1, <3>2 DEF FlashBegin, provisionalVars
  <2> QED BY <1>1, <2>3 DEF FlashBegin, provisionalVars
<1>2. CASE EraseBegins
  BY <1>2, FollowingIs DEF EraseBegins, Other, Slots, activeVars
<1>3. CASE ErasePage1
  BY <1>3 DEF ErasePage1, FlashSlot, Body, Word, activeVars, provisionalVars
<1>4. CASE ErasePage2
  BY <1>4 DEF ErasePage2, FlashSlot, Body, Word, activeVars, provisionalVars
<1>5. CASE \E w \in Word, bits \in SUBSET Bit : FlashWrite(w, bits)
  BY <1>5 DEF FlashWrite, FlashSlot, Body, activeVars, provisionalVars
<1>6. CASE CommitBegins
  BY <1>6 DEF CommitBegins, FlashSlot, activeVars, provisionalVars
<1>7. CASE CommitEnvelope
  BY <1>7 DEF CommitEnvelope, FlashSlot, Envelope, activeVars, provisionalVars
<1>8. CASE CommitMarker
  BY <1>8 DEF CommitMarker, FlashSlot, activeVars, provisionalVars
<1>9. CASE CommitFlash
  BY <1>9 DEF CommitFlash, FlashSlot, provisionalVars
<1>10. CASE FlashFails
  BY <1>10, CutShortType DEF FlashFails, activeVars, provisionalVars
<1>11. CASE FlashPowerLoss
  <2>1. 0 \in Number
    BY NumbersAssumption DEF Number
  <2> QED BY <1>11, <2>1, CutShortType DEF FlashPowerLoss, Slots
<1>12. CASE UNCHANGED flashVars
  BY <1>12 DEF flashVars, activeVars, provisionalVars
<1> QED BY <1>1, <1>2, <1>3, <1>4, <1>5, <1>6, <1>7, <1>8, <1>9, <1>10, <1>11, <1>12
        DEF FlashNext

-----------------------------------------------------------------------------
(* SlotFlash: a restart finds the last commit, or a later attempt *)

CommitSteps == {"commitEnvelope", "commitMarker", "commitFlash"}

\* What the adapter's members say of the replacement while there is one.
ReplacementInv ==
  /\ flashStep = "off" => ~provisionalReady
  /\ flashStep # "off" => activeValid
  /\ provisionalReady \/ flashStep \notin {"off", "idle"} =>
       provisionalSlot = Other(activeSlot) /\ newSeq = Following(activeSeq)
  /\ flashStep \in CommitSteps => provisionalReady /\ slot[provisionalSlot].body \in attempts
  /\ flashStep \in CommitSteps \ {"commitEnvelope"} =>
       slot[provisionalSlot].envelope = [number |-> newSeq, sum |-> slot[provisionalSlot].body]
  /\ flashStep = "commitFlash" => slot[provisionalSlot].marker

\* Slot a, with number n, holds what was saved last: it is valid, or the first slot
\* and was never used.
Backs(a, n) ==
  /\ slot[a].body = saved
  /\ \/ Valid(slot[a]) /\ slot[a].envelope.number = n
     \/ Empty(slot[a]) /\ a = "A" /\ n = 0

\* An envelope in the other slot is that of a commit begun since, or of the one before.
Rivals(a, n) ==
  LET envelope == slot[Other(a)].envelope
  IN  envelope \in Envelope =>
        \/ envelope.number = Following(n) /\ envelope.sum \in attempts
        \/ Valid(slot[a]) /\ n = Following(envelope.number)

Sound(a, n) == Backs(a, n) /\ Rivals(a, n)

\* The adapter knows the slot that backs it, but forgets it when power is lost.
BackedInv ==
  /\ flashStep # "off" => Sound(activeSlot, activeSeq)
  /\ flashStep = "off" => \E a \in Slots, n \in Number : Sound(a, n)

FlashInv == FlashTypeOK /\ ReplacementInv /\ BackedInv

LEMMA OtherSlot ==
  ASSUME NEW a \in Slots
  PROVE  Other(a) \in Slots /\ Other(a) # a /\ Slots = {a, Other(a)} /\ Other(Other(a)) = a
BY DEF Other, Slots

\* What begin() selects: the slot that backs the adapter, or a whole later attempt.
LEMMA SelectedIsSound ==
  ASSUME FlashTypeOK, NEW a \in Slots, NEW n \in Number, Sound(a, n)
  PROVE  /\ Startable
         /\ \/ Selected = a
            \/ /\ Selected = Other(a) /\ Valid(slot[Selected])
               /\ slot[Selected].envelope.number = Following(n)
               /\ slot[Selected].body \in attempts
         /\ ValidSlots = {} => Selected = a /\ n = 0
         /\ ValidSlots # {} => Valid(slot[Selected])
<1> DEFINE o == Other(a)
<1>1. o \in Slots /\ o # a /\ Slots = {a, o}
  BY OtherSlot
<1>2. CASE Valid(slot[a]) /\ Valid(slot[o])
  <2>1. ValidSlots = Slots
    BY <1>1, <1>2 DEF ValidSlots
  <2>2. slot[a].envelope.number = n /\ slot[o].envelope.number \in Number
    BY <1>2 DEF Sound, Backs, Empty, Valid, Envelope
  <2>3. CASE slot[o].envelope.number = Following(n) /\ slot[o].envelope.sum \in attempts
    <3>1. Selected = o
      BY <1>1, <2>1, <2>2, <2>3, FollowingNewer DEF Selected, Newest, Slots
    <3> QED BY <1>1, <1>2, <2>1, <2>3, <3>1 DEF Valid, Startable
  <2>4. CASE n = Following(slot[o].envelope.number)
    <3>1. Selected = a
      BY <1>1, <2>1, <2>2, <2>4, FollowingNewer DEF Selected, Newest, Slots
    <3> QED BY <1>1, <1>2, <2>1, <3>1 DEF Startable
  <2> QED BY <1>2, <2>3, <2>4 DEF Sound, Rivals, Valid
<1>3. CASE Valid(slot[a]) /\ ~Valid(slot[o])
  <2>1. ValidSlots = {a} /\ ValidSlots # Slots
    BY <1>1, <1>3 DEF ValidSlots
  <2>2. Selected = a
    BY <2>1 DEF Selected, Newest
  <2> QED BY <1>3, <2>1, <2>2 DEF Startable
<1>4. CASE ~Valid(slot[a]) /\ Valid(slot[o])
  <2>1. ValidSlots = {o} /\ ValidSlots # Slots
    BY <1>1, <1>4 DEF ValidSlots
  <2>2. Selected = o
    BY <2>1 DEF Selected, Newest
  <2>3. slot[o].envelope.number = Following(n) /\ slot[o].envelope.sum \in attempts
    BY <1>4 DEF Sound, Rivals, Valid
  <2> QED BY <1>4, <2>1, <2>2, <2>3 DEF Startable, Valid
<1>5. CASE ~Valid(slot[a]) /\ ~Valid(slot[o])
  <2>1. ValidSlots = {}
    BY <1>1, <1>5 DEF ValidSlots
  <2>2. a = "A" /\ n = 0 /\ a \in EmptySlots
    BY <1>5 DEF Sound, Backs, EmptySlots
  <2>3. Selected = a
    BY <2>1, <2>2 DEF Selected
  <2> QED BY <2>1, <2>2, <2>3 DEF Startable
<1> QED BY <1>2, <1>3, <1>4, <1>5

\* Work on the other slot leaves the backing one alone.
LEMMA OtherSlotChanges ==
  ASSUME FlashTypeOK, NEW a \in Slots, NEW n \in Number, Sound(a, n),
         \A b \in Slots : b # Other(a) => slot'[b] = slot[b],
         \/ slot'[Other(a)].envelope \in {slot[Other(a)].envelope, NoEnvelope, Rubbish}
         \/ /\ slot'[Other(a)].envelope.number = Following(n)
            /\ slot'[Other(a)].envelope.sum \in attempts,
         saved' = saved, attempts \subseteq attempts'
  PROVE  Sound(a, n)'
<1>1. slot'[a] = slot[a]
  BY OtherSlot
<1>2. Backs(a, n)'
  BY <1>1 DEF Sound, Backs, Valid, Empty
<1>3. Rivals(a, n)'
  BY <1>1, EnvelopesDiffer DEF Sound, Rivals, Valid
<1> QED BY <1>2, <1>3 DEF Sound

LEMMA FlashInvInit == FlashInit => FlashInv
<1> SUFFICES ASSUME FlashInit PROVE FlashInv
  OBVIOUS
<1>1. ReplacementInv
  BY DEF FlashInit, ReplacementInv, CommitSteps
<1>2. 0 \in Number /\ "A" \in Slots /\ Other("A") \in Slots
  BY NumbersAssumption DEF Number, Slots, Other
<1>3. Sound("A", 0)
  BY <1>2, EnvelopesDiffer DEF FlashInit, BlankSlot, Sound, Backs, Rivals, Empty
<1> QED BY <1>1, <1>2, <1>3, FlashTypeInit DEF FlashInit, FlashInv, BackedInv

LEMMA BeginKeepsInv ==
  ASSUME FlashInv, FlashBegin
  PROVE  ReplacementInv' /\ BackedInv'
<1>1. PICK a \in Slots, n \in Number : Sound(a, n)
  BY DEF FlashInv, BackedInv, FlashBegin
<1>2. /\ Startable
      /\ \/ Selected = a
         \/ /\ Selected = Other(a) /\ Valid(slot[Selected])
            /\ slot[Selected].envelope.number = Following(n)
            /\ slot[Selected].body \in attempts
      /\ ValidSlots = {} => Selected = a /\ n = 0
      /\ ValidSlots # {} => Valid(slot[Selected])
  BY <1>1, SelectedIsSound DEF FlashInv
<1>3. /\ activeSlot' = Selected /\ activeValid' /\ flashStep' = "idle"
      /\ activeSeq' = IF ValidSlots = {} THEN 0 ELSE slot[Selected].envelope.number
      /\ saved' = slot[Selected].body
      /\ UNCHANGED <<slot, provisionalReady, attempts>>
  BY <1>2 DEF FlashBegin, FlashReload
<1>4. ~provisionalReady
  BY DEF FlashInv, ReplacementInv, FlashBegin
<1>5. ReplacementInv'
  BY <1>3, <1>4 DEF ReplacementInv, CommitSteps
<1>6. Sound(activeSlot, activeSeq)'
  <2>1. CASE Selected = a
    <3>1. activeSeq' = n
      BY <1>1, <1>2, <1>3, <2>1, EnvelopesDiffer DEF Sound, Backs, Empty, Valid
    <3> QED BY <1>1, <1>3, <2>1, <3>1 DEF Sound, Backs, Rivals, Valid, Empty
  <2>2. CASE Selected = Other(a) /\ Selected # a
    <3>1. /\ Valid(slot[Selected]) /\ slot[Selected].envelope.number = Following(n)
          /\ activeSeq' = Following(n)
      BY <1>2, <1>3, <2>2
    <3>2. Backs(activeSlot, activeSeq)'
      BY <1>3, <3>1 DEF Backs, Valid
    <3>3. Other(activeSlot') = a
      BY <1>3, <2>2, OtherSlot
    <3>4. slot[a].envelope \in Envelope => slot[a].envelope.number = n
      BY <1>1, EnvelopesDiffer DEF Sound, Backs, Empty
    <3>5. Rivals(activeSlot, activeSeq)'
      BY <1>3, <3>1, <3>3, <3>4 DEF Rivals, Valid
    <3> QED BY <3>2, <3>5 DEF Sound
  <2> QED BY <1>2, <2>1, <2>2
<1> QED BY <1>3, <1>5, <1>6 DEF BackedInv

\* The steps that change nothing but the slot under replacement, or where they are.
LEMMA ReplacementKeepsBacked ==
  ASSUME FlashInv, flashStep # "off", flashStep' # "off",
         UNCHANGED <<activeSlot, activeSeq, saved>>, attempts \subseteq attempts',
         \A b \in Slots : b # Other(activeSlot) => slot'[b] = slot[b],
         LET old == slot[Other(activeSlot)].envelope
             new == slot'[Other(activeSlot)].envelope
         IN  \/ new \in {old, NoEnvelope, Rubbish}
             \/ new.number = Following(activeSeq) /\ new.sum \in attempts
  PROVE  BackedInv'
<1>1. activeSlot \in Slots /\ activeSeq \in Number /\ Sound(activeSlot, activeSeq)
  BY DEF FlashInv, FlashTypeOK, BackedInv
<1>2. \A a \in Slots, n \in Number : a = activeSlot /\ n = activeSeq => Sound(a, n)'
  BY <1>1, OtherSlotChanges DEF FlashInv
<1> QED BY <1>1, <1>2 DEF BackedInv

LEMMA CutShortSpares ==
  ASSUME FlashInv, flashStep # "off", CutShort
  PROVE  /\ \A b \in Slots : b # Other(activeSlot) => slot'[b] = slot[b]
         /\ slot'[Other(activeSlot)].envelope
              \in {slot[Other(activeSlot)].envelope, NoEnvelope, Rubbish}
<1>1. /\ slot \in [Slots -> FlashSlot] /\ provisionalSlot \in Slots
      /\ Other(activeSlot) \in Slots
  BY OtherSlot DEF FlashInv, FlashTypeOK
<1>2. CASE UNCHANGED slot
  BY <1>2
<1>3. CASE ~UNCHANGED slot
  <2>1. provisionalSlot = Other(activeSlot)
    BY <1>3 DEF CutShort, FlashInv, ReplacementInv
  <2>2. CASE flashStep = "erasePage1"
    <3>1. PICK e \in {slot[provisionalSlot].envelope, NoEnvelope, Rubbish},
               m \in {slot[provisionalSlot].marker, FALSE}, b \in SUBSET Bit :
            slot' = [slot EXCEPT ![provisionalSlot] =
              [slot[provisionalSlot] EXCEPT !.envelope = e, !.marker = m, !.body["head"] = b]]
      BY <1>3, <2>2 DEF CutShort
    <3> QED BY <1>1, <2>1, <3>1 DEF FlashSlot
  <2>3. CASE flashStep = "erasePage2"
    BY <1>1, <1>3, <2>1, <2>3 DEF CutShort, FlashSlot
  <2>4. CASE flashStep = "commitEnvelope"
    BY <1>1, <1>3, <2>1, <2>4 DEF CutShort, FlashSlot
  <2>5. CASE flashStep = "idle"
    BY <1>1, <1>3, <2>1, <2>5 DEF CutShort, FlashSlot
  <2> QED BY <1>3, <2>2, <2>3, <2>4, <2>5 DEF CutShort
<1> QED BY <1>2, <1>3

LEMMA FlashInvStep ==
  ASSUME FlashInv, [FlashNext]_flashVars
  PROVE  FlashInv'
<1>1. FlashTypeOK /\ ReplacementInv /\ BackedInv /\ FlashTypeOK'
  BY FlashTypeStep DEF FlashInv
<1>2. /\ slot \in [Slots -> FlashSlot] /\ provisionalSlot \in Slots /\ activeSlot \in Slots
      /\ Other(activeSlot) \in Slots /\ Other(activeSlot) # activeSlot
  BY <1>1, OtherSlot DEF FlashTypeOK
<1> SUFFICES ReplacementInv' /\ BackedInv'
  BY <1>1 DEF FlashInv
<1>3. CASE FlashBegin
  BY <1>3, BeginKeepsInv
<1>4. CASE EraseBegins
  <2>1. ReplacementInv'
    BY <1>1, <1>4 DEF EraseBegins, ReplacementInv, CommitSteps, activeVars
  <2>2. BackedInv'
    BY <1>4, ReplacementKeepsBacked DEF EraseBegins, activeVars
  <2> QED BY <2>1, <2>2
<1>5. CASE ErasePage1 \/ ErasePage2
  <2>1. ReplacementInv'
    BY <1>1, <1>5
    DEF ErasePage1, ErasePage2, ReplacementInv, CommitSteps, activeVars, provisionalVars
  <2>2. provisionalSlot = Other(activeSlot)
    BY <1>1, <1>5 DEF ErasePage1, ErasePage2, ReplacementInv
  <2>3. slot'[provisionalSlot].envelope \in {slot[provisionalSlot].envelope, NoEnvelope}
    BY <1>2, <1>5 DEF ErasePage1, ErasePage2, FlashSlot
  <2>4. \A b \in Slots : b # provisionalSlot => slot'[b] = slot[b]
    BY <1>2, <1>5 DEF ErasePage1, ErasePage2
  <2>5. BackedInv'
    BY <1>5, <2>2, <2>3, <2>4, ReplacementKeepsBacked DEF ErasePage1, ErasePage2, activeVars
  <2> QED BY <2>1, <2>5
<1>6. CASE \E w \in Word, bits \in SUBSET Bit : FlashWrite(w, bits)
  <2>1. PICK w \in Word, bits \in SUBSET Bit : FlashWrite(w, bits)
    BY <1>6
  <2>2. ReplacementInv'
    BY <1>1, <2>1 DEF FlashWrite, ReplacementInv, CommitSteps, activeVars, provisionalVars
  <2>3. provisionalSlot = Other(activeSlot)
    BY <1>1, <2>1 DEF FlashWrite, ReplacementInv
  <2>4. /\ slot'[provisionalSlot].envelope = slot[provisionalSlot].envelope
        /\ \A b \in Slots : b # provisionalSlot => slot'[b] = slot[b]
    BY <1>2, <2>1 DEF FlashWrite, FlashSlot
  <2>5. BackedInv'
    BY <2>1, <2>3, <2>4, ReplacementKeepsBacked DEF FlashWrite, activeVars
  <2> QED BY <2>2, <2>5
<1>7. CASE CommitBegins
  <2>1. ReplacementInv'
    BY <1>1, <1>7 DEF CommitBegins, ReplacementInv, CommitSteps, activeVars, provisionalVars
  <2>2. BackedInv'
    BY <1>7, ReplacementKeepsBacked DEF CommitBegins, activeVars
  <2> QED BY <2>1, <2>2
<1>8. CASE CommitEnvelope
  <2>1. /\ provisionalSlot = Other(activeSlot) /\ newSeq = Following(activeSeq)
        /\ provisionalReady /\ slot[provisionalSlot].body \in attempts
    BY <1>1, <1>8 DEF CommitEnvelope, ReplacementInv, CommitSteps
  <2>2. /\ slot'[provisionalSlot].envelope
             = [number |-> newSeq, sum |-> slot[provisionalSlot].body]
        /\ slot'[provisionalSlot].body = slot[provisionalSlot].body
        /\ \A b \in Slots : b # provisionalSlot => slot'[b] = slot[b]
    BY <1>2, <1>8 DEF CommitEnvelope, FlashSlot
  <2>3. ReplacementInv'
    BY <1>1, <1>8, <2>1, <2>2
    DEF CommitEnvelope, ReplacementInv, CommitSteps, activeVars, provisionalVars
  <2>4. BackedInv'
    BY <1>8, <2>1, <2>2, ReplacementKeepsBacked DEF CommitEnvelope, activeVars
  <2> QED BY <2>3, <2>4
<1>9. CASE CommitMarker
  <2>1. /\ provisionalSlot = Other(activeSlot)
        /\ provisionalReady /\ slot[provisionalSlot].body \in attempts
        /\ slot[provisionalSlot].envelope
             = [number |-> newSeq, sum |-> slot[provisionalSlot].body]
    BY <1>1, <1>9 DEF CommitMarker, ReplacementInv, CommitSteps
  <2>2. /\ slot'[provisionalSlot].envelope = slot[provisionalSlot].envelope
        /\ slot'[provisionalSlot].body = slot[provisionalSlot].body
        /\ slot'[provisionalSlot].marker
        /\ \A b \in Slots : b # provisionalSlot => slot'[b] = slot[b]
    BY <1>2, <1>9 DEF CommitMarker, FlashSlot
  <2>3. ReplacementInv'
    BY <1>1, <1>9, <2>1, <2>2
    DEF CommitMarker, ReplacementInv, CommitSteps, activeVars, provisionalVars
  <2>4. BackedInv'
    BY <1>9, <2>1, <2>2, ReplacementKeepsBacked DEF CommitMarker, activeVars
  <2> QED BY <2>3, <2>4
<1>10. CASE CommitFlash
  <2>1. /\ provisionalSlot = Other(activeSlot) /\ newSeq = Following(activeSeq)
        /\ slot[provisionalSlot].envelope
             = [number |-> newSeq, sum |-> slot[provisionalSlot].body]
        /\ slot[provisionalSlot].marker
    BY <1>1, <1>10 DEF CommitFlash, ReplacementInv, CommitSteps
  <2>2. /\ activeSlot' = provisionalSlot /\ activeSeq' = newSeq /\ slot' = slot
        /\ saved' = slot[provisionalSlot].body /\ flashStep' = "idle" /\ ~provisionalReady'
        /\ activeValid'
    BY <1>1, <1>10 DEF CommitFlash, ReplacementInv
  <2>3. ReplacementInv'
    BY <2>2 DEF ReplacementInv, CommitSteps
  <2>4. slot[provisionalSlot].body \in Body /\ newSeq \in Number
    BY <1>1, <1>2 DEF FlashTypeOK, FlashSlot
  <2>5. Valid(slot[provisionalSlot]) /\ slot[provisionalSlot].envelope.number = newSeq
    BY <2>1, <2>4 DEF Valid, Envelope
  <2>6. Backs(activeSlot, activeSeq)'
    BY <2>2, <2>5 DEF Backs, Valid
  <2>7. slot[activeSlot].envelope \in Envelope => slot[activeSlot].envelope.number = activeSeq
    BY <1>1, <1>10, EnvelopesDiffer DEF CommitFlash, BackedInv, Sound, Backs, Empty
  <2>8. Rivals(activeSlot, activeSeq)'
    BY <1>2, <2>1, <2>2, <2>5, <2>7, OtherSlot DEF Rivals, Valid
  <2> QED BY <2>2, <2>3, <2>6, <2>8 DEF BackedInv, Sound
<1>11. CASE FlashFails
  <2>1. flashStep # "off" /\ flashStep' = "idle" /\ CutShort
    BY <1>11 DEF FlashFails
  <2>2. ReplacementInv'
    BY <1>1, <1>11 DEF FlashFails, ReplacementInv, CommitSteps, activeVars, provisionalVars
  <2>3. BackedInv'
    BY <1>11, <2>1, CutShortSpares, ReplacementKeepsBacked DEF FlashFails, activeVars
  <2> QED BY <2>2, <2>3
<1>12. CASE FlashPowerLoss
  <2>1. ReplacementInv'
    BY <1>12 DEF FlashPowerLoss, ReplacementInv, CommitSteps
  <2>2. activeSlot \in Slots /\ activeSeq \in Number /\ Sound(activeSlot, activeSeq)
    BY <1>1, <1>12 DEF FlashPowerLoss, FlashTypeOK, BackedInv
  <2>3. \A a \in Slots, n \in Number : a = activeSlot /\ n = activeSeq => Sound(a, n)'
    BY <1>1, <1>12, <2>2, CutShortSpares, OtherSlotChanges DEF FlashPowerLoss
  <2> QED BY <1>12, <2>1, <2>2, <2>3 DEF FlashPowerLoss, BackedInv
<1>13. CASE UNCHANGED flashVars
  BY <1>1, <1>13
  DEF flashVars, activeVars, provisionalVars, ReplacementInv, BackedInv, Sound, Backs, Rivals,
      Valid, Empty
<1> QED BY <1>3, <1>4, <1>5, <1>6, <1>7, <1>8, <1>9, <1>10, <1>11, <1>12, <1>13 DEF FlashNext

LEMMA FlashInvariant == FlashSpec => []FlashInv
BY FlashInvInit, FlashInvStep, PTL DEF FlashSpec

\* Wherever power is lost: begin() finds a slot, and what it reads is the last commit()
\* that succeeded or, whole, one begun since.
THEOREM FlashDurable == FlashSpec => []FlashKeepsCommits
<1>1. FlashInv => FlashKeepsCommits
  <2> SUFFICES ASSUME FlashInv PROVE FlashKeepsCommits
    OBVIOUS
  <2>1. PICK a \in Slots, n \in Number : Sound(a, n)
    BY DEF FlashInv, BackedInv, FlashTypeOK
  <2> QED BY <2>1, SelectedIsSound DEF FlashInv, FlashKeepsCommits, FlashReload, Sound, Backs
<1> QED BY <1>1, FlashInvariant, PTL

\* While no commit() is under way a restart, and read(), return the last one: erase()
\* and write() never touch the slot that backs the adapter.
THEOREM FlashCommittedIsRead == FlashSpec => []FlashReadsCommitted
<1>1. FlashInv => FlashReadsCommitted
  <2> SUFFICES ASSUME FlashInv, flashStep # "off", attempts = {}
               PROVE  FlashReload = saved /\ slot[activeSlot].body = saved
    BY DEF FlashReadsCommitted
  <2>1. activeSlot \in Slots /\ activeSeq \in Number /\ Sound(activeSlot, activeSeq)
    BY DEF FlashInv, BackedInv, FlashTypeOK
  <2>2. Selected = activeSlot
    BY <2>1, SelectedIsSound DEF FlashInv
  <2> QED BY <2>1, <2>2 DEF FlashReload, Sound, Backs
<1> QED BY <1>1, FlashInvariant, PTL

-----------------------------------------------------------------------------
(* SlotFiles *)

LEMMA RecordsDiffer == Absent \notin Record /\ Torn \notin Record
BY ContentAssumption DEF Absent, Torn, Record

LEMMA FilesTypeInit == FilesInit => FilesTypeOK
<1>1. 0 \in Number
  BY NumbersAssumption DEF Number
<1> QED BY <1>1, ContentAssumption DEF FilesInit, FilesTypeOK

LEMMA NewestIsIn ==
  ASSUME NEW valid \in SUBSET Slots, valid # {}, NEW number
  PROVE  Newest(valid, number) \in valid
BY DEF Newest, Slots

LEMMA FilesTypeStep ==
  ASSUME FilesTypeOK, [FilesNext]_fileVars
  PROVE  FilesTypeOK'
<1> USE DEF FilesTypeOK
<1>1. 0 \in Number /\ NextGeneration \in Number /\ InactiveFile \in Slots
  BY FollowingIs, NumbersAssumption DEF Number, NextGeneration, InactiveFile, Slots
<1>2. IntactFiles \subseteq Slots /\ FileReload \in Content
  <2>1. IntactFiles # {} => NewestFile(IntactFiles) \in IntactFiles
    BY NewestIsIn DEF NewestFile, IntactFiles
  <2> QED BY <2>1, ContentAssumption DEF IntactFiles, FileReload, Record
<1>3. CASE \E readable \in SUBSET IntactFiles, again \in BOOLEAN : FilesBegin(readable, again)
  <2>1. PICK readable \in SUBSET IntactFiles, again \in BOOLEAN : FilesBegin(readable, again)
    BY <1>3
  <2>2. readable # {} => file[NewestFile(readable)] \in Record
    BY <1>2, NewestIsIn DEF NewestFile, IntactFiles
  <2>3. staging' \in Content /\ activeGeneration' \in Number
    BY <1>1, <2>1, <2>2, ContentAssumption DEF FilesBegin, Record
  <2> QED BY <1>2, <2>1, <2>3 DEF FilesBegin
<1>4. CASE \E content \in Content : FilesWrite(content)
  BY <1>4 DEF FilesWrite
<1>5. CASE OpenFile
  BY <1>1, <1>5 DEF OpenFile
<1>6. CASE WriteFile
  <2>1. [generation |-> NextGeneration, payload |-> staging] \in Record
    BY <1>1 DEF Record
  <2> QED BY <1>1, <1>6, <2>1 DEF WriteFile
<1>7. CASE VerifyFile \/ CommitFails
  BY <1>1, <1>7 DEF VerifyFile, CommitFails
<1>8. CASE RemoveA
  BY <1>8 DEF RemoveA, Removal, Slots
<1>9. CASE RemoveB
  BY <1>1, <1>9, ContentAssumption DEF RemoveB, Removal, Slots
<1>10. CASE FilesPowerLoss
  BY <1>1, <1>10, ContentAssumption DEF FilesPowerLoss
<1>11. CASE UNCHANGED fileVars
  BY <1>11 DEF fileVars
<1> QED BY <1>3, <1>4, <1>5, <1>6, <1>7, <1>8, <1>9, <1>10, <1>11 DEF FilesNext

\* The file of a generation: odd ones go to A.  FileOf(NextGeneration) is InactiveFile.
FileOf(g) == IF g % 2 = 1 THEN "A" ELSE "B"

\* Each file holds generations of its own parity; a commit() under way has opened its
\* file for what is staged.
CommitInv ==
  /\ \A s \in Slots : file[s] \in Record => FileOf(file[s].generation) = s
  /\ fileStep \in {"writeFile", "verifyFile"} => attempted = staging
  /\ fileStep \in {"writeFile", "verifyFile"} /\ file[InactiveFile] \in Record =>
       file[InactiveFile] = [generation |-> NextGeneration, payload |-> staging]
  /\ fileStep = "removeB" => lostTrack

\* Generation g is what was committed last: in its file, or as zeros in no file.
FileBacks(g) ==
  \/ file[FileOf(g)] = [generation |-> g, payload |-> committed]
  \/ g = 0 /\ file[FileOf(g)] \notin Record /\ committed = Zeros

\* A record in the other file is the next generation, attempted last, or an older one.
FileRivals(g) ==
  LET other == FileOf(Following(g))
  IN  file[other] \in Record =>
        \/ file[other].generation = Following(g) /\ file[other].payload = attempted
        \/ file[FileOf(g)] \in Record /\ NewestFile(Slots) = FileOf(g)

FilesSound(g) == FileBacks(g) /\ FileRivals(g)

TrackInv ==
  ~lostTrack =>
    /\ fileStep # "off" => FilesSound(activeGeneration)
    /\ fileStep = "off" => \E g \in Number : FilesSound(g)

FilesInv == FilesTypeOK /\ CommitInv /\ TrackInv

LEMMA FilesOfFollowing ==
  ASSUME NEW g \in Number
  PROVE  /\ FileOf(g) \in Slots /\ FileOf(Following(g)) \in Slots
         /\ FileOf(Following(g)) # FileOf(g) /\ Slots = {FileOf(g), FileOf(Following(g))}
BY FollowingIs, NumbersAssumption DEF FileOf, Slots, Number

\* What a restart that can read both files brings back.
LEMMA SoundReload ==
  ASSUME FilesTypeOK, NEW g \in Number, FilesSound(g)
  PROVE  FileReload \in {committed, attempted}
<1> DEFINE a == FileOf(g)
           o == FileOf(Following(g))
<1>1. a \in Slots /\ o \in Slots /\ a # o /\ Slots = {a, o}
  BY FilesOfFollowing
<1>2. CASE file[a] \in Record /\ file[o] \in Record
  <2>1. IntactFiles = Slots
    BY <1>1, <1>2 DEF IntactFiles
  <2>2. file[a] = [generation |-> g, payload |-> committed]
    BY <1>2 DEF FilesSound, FileBacks
  <2>3. CASE NewestFile(Slots) = a
    BY <1>1, <2>1, <2>2, <2>3 DEF FileReload
  <2>4. CASE file[o].generation = Following(g) /\ file[o].payload = attempted
    <3>1. NewestFile(Slots) = o
      BY <1>1, <2>2, <2>4, FollowingNewer DEF NewestFile, Newest, Slots
    <3> QED BY <1>1, <2>1, <2>4, <3>1 DEF FileReload
  <2> QED BY <1>2, <2>3, <2>4 DEF FilesSound, FileRivals
<1>3. CASE file[a] \in Record /\ file[o] \notin Record
  <2>1. IntactFiles = {a} /\ IntactFiles # Slots
    BY <1>1, <1>3 DEF IntactFiles
  <2>2. NewestFile(IntactFiles) = a
    BY <2>1 DEF NewestFile, Newest
  <2> QED BY <1>3, <2>1, <2>2 DEF FileReload, FilesSound, FileBacks
<1>4. CASE file[a] \notin Record /\ file[o] \in Record
  <2>1. IntactFiles = {o} /\ IntactFiles # Slots
    BY <1>1, <1>4 DEF IntactFiles
  <2>2. NewestFile(IntactFiles) = o
    BY <2>1 DEF NewestFile, Newest
  <2> QED BY <1>4, <2>1, <2>2 DEF FileReload, FilesSound, FileRivals
<1>5. CASE file[a] \notin Record /\ file[o] \notin Record
  <2>1. IntactFiles = {}
    BY <1>1, <1>5 DEF IntactFiles
  <2>2. committed = Zeros \/ file[a] = [generation |-> g, payload |-> committed]
    BY DEF FilesSound, FileBacks
  <2>3. [generation |-> g, payload |-> committed] \in Record
    BY DEF Record, FilesTypeOK
  <2> QED BY <1>5, <2>1, <2>2, <2>3 DEF FileReload
<1> QED BY <1>2, <1>3, <1>4, <1>5

LEMMA InactiveIs == InactiveFile = FileOf(Following(activeGeneration))
BY DEF InactiveFile, FileOf, NextGeneration

LEMMA FilesInvInit == FilesInit => FilesInv
<1> SUFFICES ASSUME FilesInit PROVE FilesInv
  OBVIOUS
<1>1. FilesTypeOK
  BY FilesTypeInit
<1>2. CommitInv
  BY RecordsDiffer DEF FilesInit, CommitInv
<1>3. 0 \in Number
  BY NumbersAssumption DEF Number
<1>4. FilesSound(0)
  BY <1>3, FilesOfFollowing, RecordsDiffer DEF FilesInit, FilesSound, FileBacks, FileRivals
<1> QED BY <1>1, <1>2, <1>3, <1>4 DEF FilesInit, FilesInv, TrackInv

\* begin() that can read the newest file is where commit() left off.
LEMMA FilesBeginKeepsInv ==
  ASSUME FilesInv, NEW readable \in SUBSET IntactFiles, NEW again \in BOOLEAN,
         FilesBegin(readable, again)
  PROVE  CommitInv' /\ TrackInv'
<1>1. FilesTypeOK /\ CommitInv /\ file' = file /\ fileStep' = "idle"
  BY DEF FilesInv, FilesBegin
<1>2. CommitInv'
  BY <1>1 DEF CommitInv
<1>3. ASSUME ~lostTrack'
      PROVE  FilesSound(activeGeneration)'
  <2>1. committed' = FileReload
    BY DEF FilesBegin
  <2>2. IntactFiles \subseteq Slots
    BY DEF IntactFiles
  <2>3. CASE IntactFiles = {}
    <3>1. readable = {}
      BY <2>3
    <3>2. activeGeneration' = 0 /\ committed' = Zeros /\ 0 \in Number
      BY <2>1, <2>3, <3>1, NumbersAssumption DEF FilesBegin, FileReload, Number
    <3>3. \A s \in Slots : file'[s] \notin Record
      BY <1>1, <2>3 DEF IntactFiles
    <3> QED BY <3>2, <3>3, FilesOfFollowing DEF FilesSound, FileBacks, FileRivals
  <2>4. CASE IntactFiles # {}
    <3> DEFINE newest == NewestFile(IntactFiles)
    <3>1. again /\ newest \in readable /\ newest \in IntactFiles
      BY <1>3, <2>4 DEF FilesBegin
    <3>2. NewestFile(readable) = newest
      <4>1. CASE readable = IntactFiles
        BY <4>1
      <4>2. CASE readable # IntactFiles
        <5>1. readable = {newest} /\ readable # Slots
          BY <2>2, <3>1, <4>2 DEF Slots
        <5> QED BY <5>1 DEF NewestFile, Newest
      <4> QED BY <4>1, <4>2
    <3>3. activeGeneration' = file[newest].generation /\ committed' = file[newest].payload
      BY <2>1, <2>4, <3>1, <3>2 DEF FilesBegin, FileReload
    <3>4. file[newest] \in Record /\ newest \in Slots
      BY <2>2, <3>1 DEF IntactFiles
    <3>5. FileOf(activeGeneration') = newest /\ activeGeneration' \in Number
      BY <1>1, <3>3, <3>4 DEF CommitInv, Record
    <3>6. FileBacks(activeGeneration)'
      BY <1>1, <3>3, <3>4, <3>5 DEF FileBacks, Record
    <3>7. FileRivals(activeGeneration)'
      <4>1. FileOf(Following(activeGeneration')) \in Slots
            /\ Slots = {newest, FileOf(Following(activeGeneration'))}
        BY <3>5, FilesOfFollowing
      <4>2. file[FileOf(Following(activeGeneration'))] \in Record => IntactFiles = Slots
        BY <3>4, <4>1 DEF IntactFiles
      <4>3. NewestFile(Slots)' = NewestFile(Slots)
        BY <1>1 DEF NewestFile
      <4> QED BY <1>1, <3>4, <3>5, <4>2, <4>3 DEF FileRivals
    <3> QED BY <3>6, <3>7 DEF FilesSound
  <2> QED BY <2>3, <2>4
<1> QED BY <1>1, <1>2, <1>3 DEF TrackInv

\* A step that leaves the files and what was committed or attempted leaves the
\* backing generation.
LEMMA SameFilesSound ==
  ASSUME NEW g \in Number, FilesSound(g), UNCHANGED <<file, committed, attempted>>
  PROVE  FilesSound(g)'
BY DEF FilesSound, FileBacks, FileRivals, NewestFile

\* So does one that puts nothing, or the next generation, into the other file.
LEMMA OtherFileSound ==
  ASSUME FilesTypeOK, NEW g \in Number, FilesSound(g), committed' = committed,
         NEW record, file' = [file EXCEPT ![FileOf(Following(g))] = record],
         record \in Record =>
           record.generation = Following(g) /\ record.payload = attempted'
  PROVE  FilesSound(g)'
BY FilesOfFollowing DEF FilesSound, FileBacks, FileRivals, FilesTypeOK

LEMMA FilesInvStep ==
  ASSUME FilesInv, [FilesNext]_fileVars
  PROVE  FilesInv'
<1>1. FilesTypeOK /\ CommitInv /\ TrackInv /\ FilesTypeOK'
  BY FilesTypeStep DEF FilesInv
<1>2. /\ activeGeneration \in Number /\ NextGeneration \in Number
      /\ InactiveFile = FileOf(Following(activeGeneration)) /\ InactiveFile \in Slots
  BY <1>1, FollowingIs, FilesOfFollowing, InactiveIs DEF FilesTypeOK, NextGeneration
<1> SUFFICES CommitInv' /\ TrackInv'
  BY <1>1 DEF FilesInv
<1>3. CASE \E readable \in SUBSET IntactFiles, again \in BOOLEAN : FilesBegin(readable, again)
  BY <1>3, FilesBeginKeepsInv
<1>4. CASE \E content \in Content : FilesWrite(content)
  <2>1. UNCHANGED <<file, activeGeneration, fileStep, lostTrack, committed, attempted>>
        /\ fileStep = "idle"
    BY <1>4 DEF FilesWrite
  <2>2. CommitInv'
    BY <1>1, <2>1 DEF CommitInv
  <2>3. TrackInv'
    BY <1>1, <1>2, <2>1, SameFilesSound DEF TrackInv
  <2> QED BY <2>2, <2>3
<1>5. CASE OpenFile
  <2>1. CommitInv'
    BY <1>1, <1>2, <1>5, RecordsDiffer
    DEF OpenFile, CommitInv, FilesTypeOK, InactiveFile, NextGeneration
  <2>2. TrackInv'
    BY <1>1, <1>2, <1>5, OtherFileSound, RecordsDiffer DEF OpenFile, TrackInv
  <2> QED BY <2>1, <2>2
<1>6. CASE WriteFile
  <2>1. PICK record \in {Torn, [generation |-> NextGeneration, payload |-> staging]} :
          file' = [file EXCEPT ![InactiveFile] = record]
    BY <1>6 DEF WriteFile
  <2>2. InactiveFile' = InactiveFile /\ NextGeneration' = NextGeneration
    BY <1>6 DEF WriteFile, InactiveFile, NextGeneration
  <2>3. FileOf(NextGeneration) = InactiveFile
    BY DEF InactiveFile, FileOf
  <2>4. CommitInv'
    BY <1>1, <1>2, <1>6, <2>1, <2>2, <2>3, RecordsDiffer DEF WriteFile, CommitInv, FilesTypeOK
  <2>5. record \in Record =>
          record.generation = Following(activeGeneration) /\ record.payload = attempted'
    BY <1>1, <1>6, <2>1, RecordsDiffer DEF WriteFile, CommitInv, NextGeneration
  <2>6. TrackInv'
    BY <1>1, <1>2, <1>6, <2>1, <2>5, OtherFileSound DEF WriteFile, TrackInv
  <2> QED BY <2>4, <2>6
<1>7. CASE VerifyFile
  <2>1. CommitInv'
    BY <1>1, <1>7 DEF VerifyFile, CommitInv
  <2>2. ASSUME ~lostTrack'
        PROVE  FilesSound(activeGeneration)'
    <3> DEFINE g == activeGeneration
    <3>1. /\ file[InactiveFile] = [generation |-> NextGeneration, payload |-> staging]
          /\ file[InactiveFile] \in Record
          /\ attempted = staging
      BY <1>1, <1>7 DEF VerifyFile, CommitInv
    <3>2. activeGeneration' = Following(g) /\ committed' = staging /\ UNCHANGED file
      BY <1>7, <3>1 DEF VerifyFile, NextGeneration
    <3>3. FileBacks(activeGeneration)'
      BY <1>2, <3>1, <3>2 DEF FileBacks, NextGeneration
    <3>4. FileOf(Following(Following(g))) = FileOf(g) /\ Slots = {FileOf(g), InactiveFile}
      BY <1>2, FilesOfFollowing, FollowingIs
    <3>5. file[FileOf(g)] \in Record => file[FileOf(g)].generation = g
      BY <1>1, <1>7, <2>2 DEF VerifyFile, TrackInv, FilesSound, FileBacks
    <3>6. file[FileOf(g)] \in Record => NewestFile(Slots) = InactiveFile
      BY <1>2, <3>1, <3>4, <3>5, FollowingNewer DEF NewestFile, Newest, Slots, NextGeneration
    <3>7. FileRivals(activeGeneration)'
      BY <1>2, <3>1, <3>2, <3>4, <3>6 DEF FileRivals, NewestFile
    <3> QED BY <3>3, <3>7 DEF FilesSound
  <2> QED BY <1>7, <2>1, <2>2 DEF VerifyFile, TrackInv
<1>8. CASE CommitFails
  <2>1. CommitInv'
    BY <1>1, <1>8 DEF CommitFails, CommitInv
  <2>2. TrackInv'
    BY <1>1, <1>2, <1>8, SameFilesSound DEF CommitFails, TrackInv
  <2> QED BY <2>1, <2>2
<1>9. CASE RemoveA
  BY <1>1, <1>9, RecordsDiffer DEF RemoveA, Removal, CommitInv, TrackInv, FilesTypeOK
<1>10. CASE RemoveB
  <2>1. CommitInv'
    BY <1>1, <1>10, RecordsDiffer DEF RemoveB, Removal, CommitInv, FilesTypeOK
  <2>2. ASSUME ~lostTrack'
        PROVE  FilesSound(activeGeneration)'
    <3>1. \A s \in Slots : file'[s] \notin Record
      BY <1>10, <2>2, RecordsDiffer DEF RemoveB
    <3>2. activeGeneration' = 0 /\ 0 \in Number /\ committed' = Zeros
      BY <1>10, NumbersAssumption DEF RemoveB, Number
    <3> QED BY <3>1, <3>2, FilesOfFollowing DEF FilesSound, FileBacks, FileRivals
  <2> QED BY <1>10, <2>1, <2>2 DEF RemoveB, TrackInv
<1>11. CASE FilesPowerLoss
  <2>1. CommitInv'
    BY <1>1, <1>11 DEF FilesPowerLoss, CommitInv
  <2>2. TrackInv'
    BY <1>1, <1>2, <1>11, SameFilesSound DEF FilesPowerLoss, TrackInv
  <2> QED BY <2>1, <2>2
<1>12. CASE UNCHANGED fileVars
  <2>1. CommitInv'
    BY <1>1, <1>12 DEF fileVars, CommitInv, InactiveFile, NextGeneration
  <2>2. TrackInv'
    BY <1>1, <1>2, <1>12, SameFilesSound DEF fileVars, TrackInv
  <2> QED BY <2>1, <2>2
<1> QED BY <1>3, <1>4, <1>5, <1>6, <1>7, <1>8, <1>9, <1>10, <1>11, <1>12 DEF FilesNext

LEMMA FilesInvariant == FilesSpec => []FilesInv
BY FilesInvInit, FilesInvStep, PTL DEF FilesSpec

\* Unless begin() could not read the newest file, or files could not be removed: what a
\* restart reads is what the last commit() that succeeded stored, or the last attempt.
THEOREM FilesDurable == FilesSpec => []FilesKeepCommits
<1>1. FilesInv => FilesKeepCommits
  BY SoundReload DEF FilesInv, TrackInv, FilesTypeOK, FilesKeepCommits
<1> QED BY <1>1, FilesInvariant, PTL

-----------------------------------------------------------------------------
(* The three adapters side by side, as the runs take them. *)

\* A step of the settings is a step of each adapter, or none of its business.
LEMMA SettingsSteps ==
  ASSUME [SettingsNext]_settingsVars
  PROVE  [FlashNext]_flashVars /\ [FilesNext]_fileVars /\ [ShadowNext]_shadowVars
<1>1. CASE Adapters
  BY <1>1 DEF Adapters
<1>2. CASE UNCHANGED storageVars
  BY <1>2 DEF storageVars
<1> QED BY <1>1, <1>2 DEF SettingsNext, settingsVars

LEMMA SettingsAreAdapters == SettingsSpec => FlashSpec /\ FilesSpec /\ ShadowSpec
<1>1. SettingsInit => FlashInit /\ FilesInit /\ ShadowInit
  BY DEF SettingsInit
<1> QED BY <1>1, SettingsSteps, PTL DEF SettingsSpec, FlashSpec, FilesSpec, ShadowSpec

\* Whatever the adapters are asked to do and whatever fails, their members, their
\* steps and what they keep in flash stay within their types.
THEOREM StorageTypes == SettingsSpec => []StorageTypeOK
<1>1. FlashInv /\ FilesInv /\ ShadowInv => StorageTypeOK
  BY DEF FlashInv, FilesInv, ShadowInv, StorageTypeOK
<1> QED BY <1>1, SettingsAreAdapters, FlashInvariant, FilesInvariant, ShadowInvariant, PTL

\* In the specification the runs check, each adapter keeps what it has committed.
THEOREM SettingsDurable ==
  SettingsSpec => [](FlashKeepsCommits /\ FlashReadsCommitted /\ FilesKeepCommits /\ ShadowKeepsCommits)
BY SettingsAreAdapters, FlashDurable, FlashCommittedIsRead, FilesDurable, ShadowDurable, PTL

-----------------------------------------------------------------------------
(* DynamicKeymap *)

Mirror == [keys : [Key -> [1..2 -> Byte]], turns : [Turn -> Keycode],
           macros : [MacroByte -> Byte], light : Light]

\* Every key's code is made of the two bytes the host was told it wrote, and the rest
\* is as the host was told.
KeymapInv ==
  /\ keymap \in [0..keyCount - 1 -> Keycode]
  /\ encoderMap \in [0..Layers * Encoders * 2 - 1 -> Keycode]
  /\ macros \in [MacroByte -> Byte] /\ light \in Light
  /\ mirror \in Mirror /\ mirror.macros = macros /\ mirror.light = light
  /\ \A k \in Key : keymap[KeyIndex(k)] = mirror.keys[k][1] * Bytes256 + mirror.keys[k][2]
  /\ \A t \in Turn : encoderMap[TurnIndex(t)] = mirror.turns[t]
  /\ shown \in {NoLight, light}
  /\ mapDirty \in BOOLEAN /\ unsaved \in BOOLEAN /\ EditsAreMarked

LEMMA KeymapConstants ==
  /\ Layers \in Nat \ {0} /\ KeyRows \in Nat \ {0} /\ KeyColumns \in Nat \ {0}
  /\ Bytes256 \in Nat \ {0} /\ BufferMax \in Nat \ {0}
  /\ Encoders \in Nat /\ MacroBytes \in Nat
  /\ SomeCodes \subseteq Keycode /\ DefaultCode \in Keycode
BY KeymapAssumption

(* Numbers of two digits *)

LEMMA TwoDigits ==
  ASSUME NEW n \in Nat \ {0}, NEW m \in Nat, NEW a \in 0..m - 1, NEW r \in 0..n - 1
  PROVE  a * n + r \in 0..m * n - 1
<1>1. m - 1 - a \in Nat
  OBVIOUS
<1>2. PICK d \in Nat : d = m - 1 - a
  BY <1>1
<1>3. m = a + d + 1
  BY <1>2
<1>4. m * n = a * n + d * n + n
  BY <1>3
<1>5. a * n \in Nat /\ d * n \in Nat
  OBVIOUS
<1> QED BY <1>4, <1>5

LEMMA SameDigits ==
  ASSUME NEW n \in Nat \ {0}, NEW a \in Nat, NEW b \in Nat, NEW r \in 0..n - 1, NEW s \in 0..n - 1,
         a * n + r = b * n + s
  PROVE  a = b /\ r = s
<1>1. ASSUME NEW x \in Nat, NEW y \in Nat, NEW t \in 0..n - 1, NEW u \in 0..n - 1, x < y
      PROVE  x * n + t # y * n + u
  <2>1. PICK d \in Nat : y = x + d + 1
    <3>1. y - x - 1 \in Nat /\ y = x + (y - x - 1) + 1
      BY <1>1
    <3> QED BY <3>1
  <2>2. y * n = x * n + d * n + n
    BY <2>1
  <2>3. x * n \in Nat /\ d * n \in Nat
    OBVIOUS
  <2> QED BY <2>2, <2>3
<1>2. a = b
  BY <1>1
<1>3. a * n \in Int
  OBVIOUS
<1> QED BY <1>2, <1>3

LEMMA Digits ==
  ASSUME NEW n \in Nat \ {0}, NEW x \in Nat
  PROVE  \E q \in Nat, r \in 0..n - 1 : q = x \div n /\ r = x % n /\ x = q * n + r
<1>1. x \div n \in Int /\ x % n \in 0..n - 1 /\ x = n * (x \div n) + (x % n)
  OBVIOUS
<1>2. \A q \in Int : n * q = q * n
  OBVIOUS
<1>3. ASSUME NEW q \in Int, NEW r \in 0..n - 1, x = n * q + r, q < 0 PROVE FALSE
  <2>1. PICK d \in Nat : q = -1 - d
    <3>1. -1 - q \in Nat /\ q = -1 - (-1 - q)
      BY <1>3
    <3> QED BY <3>1
  <2>2. n * q = -n - n * d
    BY <2>1
  <2>3. n * d \in Nat
    OBVIOUS
  <2> QED BY <1>3, <2>2, <2>3
<1>4. x \div n >= 0
  BY <1>1, <1>3
<1>5. x \div n \in Nat
  BY <1>1, <1>4
<1>6. PICK q \in Nat, r \in 0..n - 1 : q = x \div n /\ r = x % n /\ x = n * q + r
  BY <1>1, <1>5
<1>7. x = q * n + r
  BY <1>6
<1> QED BY <1>6, <1>7

\* The high digit of a number below m * n is below m.
LEMMA HighDigit ==
  ASSUME NEW n \in Nat \ {0}, NEW m \in Nat, NEW a \in Nat, NEW r \in 0..n - 1, a * n + r < m * n
  PROVE  a \in 0..m - 1
<1>1. CASE a >= m
  <2>1. PICK d \in Nat : a = m + d
    <3>1. a - m \in Nat /\ a = m + (a - m)
      BY <1>1
    <3> QED BY <3>1
  <2>2. a * n = m * n + d * n
    BY <2>1
  <2>3. d * n \in Nat /\ m * n \in Nat
    OBVIOUS
  <2> QED BY <2>2, <2>3
<1> QED BY <1>1

(* Codes and their bytes *)

LEMMA CodeOfBytes ==
  ASSUME NEW a \in Byte, NEW b \in Byte
  PROVE  /\ a * Bytes256 + b \in Keycode
         /\ (a * Bytes256 + b) \div Bytes256 = a /\ (a * Bytes256 + b) % Bytes256 = b
<1>1. Bytes256 \in Nat \ {0} /\ a \in 0..Bytes256 - 1 /\ b \in 0..Bytes256 - 1
  BY KeymapConstants DEF Byte
<1>2. a * Bytes256 + b \in 0..Bytes256 * Bytes256 - 1
  BY <1>1, TwoDigits
<1>3. PICK x \in Nat : x = a * Bytes256 + b
  BY <1>2
<1>4. PICK q \in Nat, r \in 0..Bytes256 - 1 :
        q = x \div Bytes256 /\ r = x % Bytes256 /\ x = q * Bytes256 + r
  BY <1>1, Digits
<1>5. q = a /\ r = b
  BY <1>1, <1>3, <1>4, SameDigits
<1> QED BY <1>2, <1>3, <1>4, <1>5 DEF Keycode

LEMMA BytesOfCode ==
  ASSUME NEW c \in Keycode
  PROVE  \E q, r \in Byte : /\ q = c \div Bytes256 /\ r = c % Bytes256
                            /\ c = q * Bytes256 + r
<1>1. Bytes256 \in Nat \ {0} /\ c \in Nat /\ c < Bytes256 * Bytes256
  BY KeymapConstants DEF Keycode
<1>2. PICK q \in Nat, r \in 0..Bytes256 - 1 :
        q = c \div Bytes256 /\ r = c % Bytes256 /\ c = q * Bytes256 + r
  BY <1>1, Digits
<1>3. q * Bytes256 + r < Bytes256 * Bytes256
  BY <1>1, <1>2
<1>4. q \in 0..Bytes256 - 1
  BY <1>1, <1>3, HighDigit
<1> QED BY <1>2, <1>4 DEF Byte

LEMMA CodeBytesType ==
  ASSUME NEW c \in Keycode
  PROVE  /\ CodeBytes(c) \in [1..2 -> Byte]
         /\ c = CodeBytes(c)[1] * Bytes256 + CodeBytes(c)[2]
<1>1. PICK q \in Byte, r \in Byte :
        q = c \div Bytes256 /\ r = c % Bytes256 /\ c = q * Bytes256 + r
  BY BytesOfCode
<1>2. CodeBytes(c) = <<q, r>>
  BY <1>1 DEF CodeBytes
<1> QED BY <1>1, <1>2

(* Where keys and encoders are kept *)

LEMMA KeyCount == keyCount \in Nat \ {0} /\ keymapBytes = keyCount * 2
<1>1. Layers * KeyRows \in Nat \ {0}
  BY KeymapConstants
<1>2. PICK rows \in Nat \ {0} : rows = Layers * KeyRows
  BY <1>1
<1>3. rows * KeyColumns \in Nat \ {0}
  BY KeymapConstants
<1> QED BY <1>2, <1>3 DEF keyCount, keymapBytes

LEMMA KeyParts ==
  ASSUME NEW k \in Key
  PROVE  k[1] \in 0..Layers - 1 /\ k[2] \in 0..KeyRows - 1 /\ k[3] \in 0..KeyColumns - 1
         /\ k = <<k[1], k[2], k[3]>>
BY DEF Key

LEMMA KeyIndexType == \A k \in Key : KeyIndex(k) \in 0..keyCount - 1
<1> TAKE k \in Key
<1>1. k[1] \in 0..Layers - 1 /\ k[2] \in 0..KeyRows - 1 /\ k[3] \in 0..KeyColumns - 1
  BY KeyParts
<1>2. k[1] * KeyRows + k[2] \in 0..Layers * KeyRows - 1
  BY <1>1, KeymapConstants, TwoDigits
<1>3. PICK m \in Nat, a \in Int : a \in 0..m - 1 /\ m = Layers * KeyRows /\ a = k[1] * KeyRows + k[2]
  <2>1. Layers * KeyRows \in Nat
    BY KeymapConstants
  <2> QED BY <1>2, <2>1
<1>4. a * KeyColumns + k[3] \in 0..m * KeyColumns - 1
  BY <1>1, <1>3, KeymapConstants, TwoDigits
<1> QED BY <1>3, <1>4 DEF KeyIndex, keyCount

LEMMA KeysApart == \A k, l \in Key : KeyIndex(k) = KeyIndex(l) => k = l
<1> TAKE k, l \in Key
<1> HAVE KeyIndex(k) = KeyIndex(l)
<1>1. /\ k[1] \in 0..Layers - 1 /\ k[2] \in 0..KeyRows - 1 /\ k[3] \in 0..KeyColumns - 1
      /\ l[1] \in 0..Layers - 1 /\ l[2] \in 0..KeyRows - 1 /\ l[3] \in 0..KeyColumns - 1
      /\ k = <<k[1], k[2], k[3]>> /\ l = <<l[1], l[2], l[3]>>
  BY KeyParts
<1>2. Layers \in Nat /\ KeyRows \in Nat \ {0} /\ KeyColumns \in Nat \ {0}
  BY KeymapConstants
<1>3. k[1] \in Nat /\ l[1] \in Nat /\ k[2] \in Nat /\ l[2] \in Nat
  BY <1>1, <1>2
<1>4. k[1] * KeyRows + k[2] \in Nat /\ l[1] * KeyRows + l[2] \in Nat
  BY <1>2, <1>3
<1>5. PICK a \in Nat, b \in Nat : a = k[1] * KeyRows + k[2] /\ b = l[1] * KeyRows + l[2]
  BY <1>4
<1>6. a * KeyColumns + k[3] = b * KeyColumns + l[3]
  BY <1>5 DEF KeyIndex
<1>7. a = b /\ k[3] = l[3]
  BY <1>1, <1>2, <1>6, SameDigits
<1>8. k[1] * KeyRows + k[2] = l[1] * KeyRows + l[2]
  BY <1>5, <1>7
<1>9. k[1] = l[1] /\ k[2] = l[2]
  BY <1>1, <1>2, <1>3, <1>8, SameDigits
<1> QED BY <1>1, <1>7, <1>9

LEMMA KeyAt == \A n \in 0..keyCount - 1 : \E k \in Key : KeyIndex(k) = n
<1> TAKE n \in 0..keyCount - 1
<1>1. Layers \in Nat /\ KeyRows \in Nat \ {0} /\ KeyColumns \in Nat \ {0} /\ keyCount \in Nat
  BY KeymapConstants, KeyCount
<1>2. n \in Nat /\ n < keyCount
  BY <1>1
<1>3. PICK a \in Nat, z \in 0..KeyColumns - 1 : n = a * KeyColumns + z
  BY <1>1, <1>2, Digits
<1>4. PICK rows \in Nat : rows = Layers * KeyRows
  BY <1>1
<1>5. a * KeyColumns + z < rows * KeyColumns
  BY <1>2, <1>3, <1>4 DEF keyCount
<1>6. a \in 0..rows - 1
  BY <1>1, <1>5, HighDigit
<1>7. PICK x \in Nat, y \in 0..KeyRows - 1 : a = x * KeyRows + y
  BY <1>1, Digits
<1>8. x * KeyRows + y < Layers * KeyRows
  BY <1>4, <1>6, <1>7
<1>9. x \in 0..Layers - 1
  BY <1>1, <1>8, HighDigit
<1>10. <<x, y, z>> \in Key
  BY <1>3, <1>7, <1>9 DEF Key
<1>11. KeyIndex(<<x, y, z>>) = n
  BY <1>3, <1>7 DEF KeyIndex
<1> QED BY <1>10, <1>11

\* The wire has the two halves of the keys in the order of the table.
LEMMA WireIs == \A k \in Key, h \in 0..1 : WireOffset(k, h) = KeyIndex(k) * 2 + h
<1> TAKE k \in Key, h \in 0..1
<1>1. /\ k[1] \in Int /\ k[2] \in Int /\ k[3] \in Int
      /\ KeyRows \in Int /\ KeyColumns \in Int
  BY KeyParts, KeymapConstants
<1>2. \A x, y, z, r, c \in Int :
        2 * x * r * c + 2 * y * c + 2 * z + h = ((x * r + y) * c + z) * 2 + h
  OBVIOUS
<1> QED BY <1>1, <1>2 DEF WireOffset, KeyIndex

LEMMA TurnParts ==
  ASSUME NEW t \in Turn
  PROVE  t[1] \in 0..Layers - 1 /\ t[2] \in 0..Encoders - 1 /\ t[3] \in 0..1
         /\ t = <<t[1], t[2], t[3]>>
BY DEF Turn

LEMMA TurnIndexType == \A t \in Turn : TurnIndex(t) \in 0..Layers * Encoders * 2 - 1
<1> TAKE t \in Turn
<1>1. t[1] \in 0..Layers - 1 /\ t[2] \in 0..Encoders - 1 /\ t[3] \in 0..1
  BY TurnParts
<1>2. Encoders \in Nat \ {0} /\ Layers \in Nat
  BY <1>1, KeymapConstants
<1>3. t[1] * Encoders + t[2] \in 0..Layers * Encoders - 1
  BY <1>1, <1>2, TwoDigits
<1>4. PICK m \in Nat, a \in Int : a \in 0..m - 1 /\ m = Layers * Encoders /\ a = t[1] * Encoders + t[2]
  <2>1. Layers * Encoders \in Nat
    BY <1>2
  <2> QED BY <1>3, <2>1
<1>5. a * 2 + t[3] \in 0..m * 2 - 1
  BY <1>1, <1>4, TwoDigits
<1> QED BY <1>4, <1>5 DEF TurnIndex

LEMMA TurnsApart == \A t, u \in Turn : TurnIndex(t) = TurnIndex(u) => t = u
<1> TAKE t, u \in Turn
<1> HAVE TurnIndex(t) = TurnIndex(u)
<1>1. /\ t[1] \in 0..Layers - 1 /\ t[2] \in 0..Encoders - 1 /\ t[3] \in 0..1
      /\ u[1] \in 0..Layers - 1 /\ u[2] \in 0..Encoders - 1 /\ u[3] \in 0..1
      /\ t = <<t[1], t[2], t[3]>> /\ u = <<u[1], u[2], u[3]>>
  BY TurnParts
<1>2. Layers \in Nat /\ Encoders \in Nat \ {0}
  BY <1>1, KeymapConstants
<1>3. t[1] \in Nat /\ u[1] \in Nat /\ t[2] \in Nat /\ u[2] \in Nat
  BY <1>1, <1>2
<1>4. t[1] * Encoders + t[2] \in Nat /\ u[1] * Encoders + u[2] \in Nat
  BY <1>2, <1>3
<1>5. PICK a \in Nat, b \in Nat : a = t[1] * Encoders + t[2] /\ b = u[1] * Encoders + u[2]
  BY <1>4
<1>6. a * 2 + t[3] = b * 2 + u[3]
  BY <1>5 DEF TurnIndex
<1>7. a = b /\ t[3] = u[3]
  BY <1>1, <1>6, SameDigits
<1>8. t[1] * Encoders + t[2] = u[1] * Encoders + u[2]
  BY <1>5, <1>7
<1>9. t[1] = u[1] /\ t[2] = u[2]
  BY <1>1, <1>2, <1>3, <1>8, SameDigits
<1> QED BY <1>1, <1>7, <1>9

(* What the commands do to the tables *)

LEMMA PatchedType ==
  ASSUME NEW index \in Int, NEW offset \in Int, NEW buffer \in Buffer, NEW old \in Byte
  PROVE  Patched(index, offset, buffer, old) \in Byte
<1>1. PICK n \in 0..BufferMax : buffer \in [1..n -> Byte]
  BY DEF Buffer
<1>2. n \in Nat
  BY KeymapConstants
<1>3. buffer \in Seq(Byte) /\ Len(buffer) = n
  BY <1>1, <1>2
<1>4. index - offset \in 0..Len(buffer) - 1 => index - offset + 1 \in 1..n
  BY <1>2, <1>3
<1> QED BY <1>1, <1>4 DEF Patched

\* A buffer that is empty or begins past the end changes nothing.
LEMMA NotWithin ==
  ASSUME NEW offset \in Nat, NEW buffer \in Buffer, NEW bytes \in Nat, ~Within(offset, buffer, bytes),
         NEW index \in 0..bytes - 1, NEW old
  PROVE  Patched(index, offset, buffer, old) = old
<1>1. PICK n \in 0..BufferMax : buffer \in [1..n -> Byte]
  BY DEF Buffer
<1>2. n \in Nat
  BY KeymapConstants
<1>3. buffer \in Seq(Byte) /\ Len(buffer) = n
  BY <1>1, <1>2
<1>4. n = 0 \/ index - offset < 0
  <2>1. buffer = <<>> \/ offset >= bytes
    BY DEF Within
  <2>2. CASE buffer = <<>>
    BY <1>3, <2>2
  <2>3. CASE offset >= bytes
    BY <2>3
  <2> QED BY <2>1, <2>2, <2>3
<1>5. index - offset \notin 0..Len(buffer) - 1
  BY <1>3, <1>4
<1> QED BY <1>5 DEF Patched

LEMMA HalvesOf ==
  ASSUME keymap \in [0..keyCount - 1 -> Keycode], NEW n \in 0..keyCount - 1
  PROVE  /\ KeymapByte(2 * n) = keymap[n] \div Bytes256 /\ KeymapByte(2 * n) \in Byte
         /\ KeymapByte(2 * n + 1) = keymap[n] % Bytes256 /\ KeymapByte(2 * n + 1) \in Byte
         /\ keymap[n] = KeymapByte(2 * n) * Bytes256 + KeymapByte(2 * n + 1)
<1>1. keyCount \in Nat
  BY KeyCount
<1>2. n \in Nat
  BY <1>1
<1>3. PICK even \in Nat, odd \in Nat :
        /\ even = 2 * n /\ even % 2 = 0 /\ even \div 2 = n
        /\ odd = 2 * n + 1 /\ odd % 2 = 1 /\ odd \div 2 = n
  BY <1>2
<1>4. PICK q \in Byte, r \in Byte :
        q = keymap[n] \div Bytes256 /\ r = keymap[n] % Bytes256 /\ keymap[n] = q * Bytes256 + r
  BY BytesOfCode
<1>5. KeymapByte(even) = keymap[even \div 2] \div Bytes256
  <2>1. even % 2 # 1
    BY <1>3
  <2> QED BY <2>1 DEF KeymapByte
<1>6. KeymapByte(odd) = keymap[odd \div 2] % Bytes256
  BY <1>3 DEF KeymapByte
<1>7. KeymapByte(even) = q /\ KeymapByte(odd) = r
  BY ONLY <1>3, <1>4, <1>5, <1>6
<1> QED BY <1>3, <1>4, <1>7

LEMMA HalvesAreTold ==
  ASSUME KeymapInv, NEW k \in Key
  PROVE  /\ KeyIndex(k) \in 0..keyCount - 1
         /\ mirror.keys[k][1] \in Byte /\ mirror.keys[k][2] \in Byte
         /\ KeymapByte(2 * KeyIndex(k)) = mirror.keys[k][1]
         /\ KeymapByte(2 * KeyIndex(k) + 1) = mirror.keys[k][2]
<1>1. /\ keymap \in [0..keyCount - 1 -> Keycode] /\ mirror \in Mirror
      /\ keymap[KeyIndex(k)] = mirror.keys[k][1] * Bytes256 + mirror.keys[k][2]
  BY DEF KeymapInv
<1>2. KeyIndex(k) \in 0..keyCount - 1
  BY KeyIndexType
<1>3. mirror.keys[k] \in [1..2 -> Byte]
  BY <1>1 DEF Mirror
<1>4. mirror.keys[k][1] \in Byte /\ mirror.keys[k][2] \in Byte
  BY <1>3
<1>5. /\ keymap[KeyIndex(k)] \div Bytes256 = mirror.keys[k][1]
      /\ keymap[KeyIndex(k)] % Bytes256 = mirror.keys[k][2]
  BY <1>1, <1>4, CodeOfBytes
<1> QED BY <1>1, <1>2, <1>4, <1>5, HalvesOf

\* What KeymapInv says of the tables and of the host's picture of them.
TablesInv ==
  /\ keymap \in [0..keyCount - 1 -> Keycode]
  /\ encoderMap \in [0..Layers * Encoders * 2 - 1 -> Keycode]
  /\ macros \in [MacroByte -> Byte] /\ light \in Light
  /\ mirror \in Mirror /\ mirror.macros = macros /\ mirror.light = light
  /\ \A k \in Key : keymap[KeyIndex(k)] = mirror.keys[k][1] * Bytes256 + mirror.keys[k][2]
  /\ \A t \in Turn : encoderMap[TurnIndex(t)] = mirror.turns[t]
  /\ shown \in {NoLight, light}

LEMMA SetKeycodeStep ==
  ASSUME KeymapInv, NEW k \in AnyKey, NEW c \in SomeCodes, SetKeycode(k, c)
  PROVE  TablesInv' /\ (k \notin Key => settings' = settings)
<1>0. TablesInv
  BY DEF KeymapInv, TablesInv
<1>1. UNCHANGED <<encoderMap, macros, light, shown>>
  BY DEF SetKeycode, lightVars
<1>2. CASE k \in Key
  <2>1. /\ keymap' = [keymap EXCEPT ![KeyIndex(k)] = c]
        /\ mirror' = [mirror EXCEPT !.keys[k] = CodeBytes(c)]
    BY <1>2 DEF SetKeycode
  <2>2. c \in Keycode
    BY KeymapConstants
  <2>3. CodeBytes(c) \in [1..2 -> Byte] /\ c = CodeBytes(c)[1] * Bytes256 + CodeBytes(c)[2]
    BY <2>2, CodeBytesType
  <2>4. KeyIndex(k) \in 0..keyCount - 1
    BY <1>2, KeyIndexType
  <2>5. keymap' \in [0..keyCount - 1 -> Keycode]
    BY <1>0, <2>1, <2>2 DEF TablesInv
  <2>6. mirror' \in Mirror /\ mirror'.macros = mirror.macros /\ mirror'.light = mirror.light
        /\ mirror'.turns = mirror.turns /\ mirror'.keys = [mirror.keys EXCEPT ![k] = CodeBytes(c)]
    BY <1>0, <1>2, <2>1, <2>3 DEF TablesInv, Mirror
  <2>7. ASSUME NEW l \in Key
        PROVE  keymap'[KeyIndex(l)] = mirror'.keys[l][1] * Bytes256 + mirror'.keys[l][2]
    <3>1. mirror.keys \in [Key -> [1..2 -> Byte]] /\ KeyIndex(l) \in 0..keyCount - 1
      BY <1>0, KeyIndexType DEF TablesInv, Mirror
    <3>2. CASE l = k
      <4>1. keymap'[KeyIndex(l)] = c /\ mirror'.keys[l] = CodeBytes(c)
        BY <1>0, <1>2, <2>1, <2>4, <2>6, <3>1, <3>2 DEF TablesInv
      <4> QED BY <2>3, <4>1
    <3>3. CASE l # k
      <4>1. keymap'[KeyIndex(l)] = keymap[KeyIndex(l)] /\ mirror'.keys[l] = mirror.keys[l]
        BY <1>0, <1>2, <2>1, <2>6, <3>1, <3>3, KeysApart DEF TablesInv
      <4> QED BY <1>0, <4>1 DEF TablesInv
    <3> QED BY <3>2, <3>3
  <2> QED BY <1>0, <1>1, <1>2, <2>5, <2>6, <2>7 DEF TablesInv
<1>3. CASE k \notin Key
  <2>1. UNCHANGED <<keymap, mirror>>
    BY <1>3 DEF SetKeycode
  <2> QED BY <1>0, <1>1, <2>1 DEF TablesInv, settings
<1> QED BY <1>2, <1>3

LEMMA SetEncoderStep ==
  ASSUME KeymapInv, NEW t \in AnyTurn, NEW c \in SomeCodes, SetEncoder(t, c)
  PROVE  TablesInv' /\ (t \notin Turn => settings' = settings)
<1>0. TablesInv
  BY DEF KeymapInv, TablesInv
<1>1. UNCHANGED <<keymap, macros, light, shown>>
  BY DEF SetEncoder, lightVars
<1>2. CASE t \in Turn
  <2>1. /\ encoderMap' = [encoderMap EXCEPT ![TurnIndex(t)] = c]
        /\ mirror' = [mirror EXCEPT !.turns[t] = c]
    BY <1>2 DEF SetEncoder
  <2>2. c \in Keycode
    BY KeymapConstants
  <2>3. encoderMap' \in [0..Layers * Encoders * 2 - 1 -> Keycode]
    BY <1>0, <2>1, <2>2 DEF TablesInv
  <2>4. mirror' \in Mirror /\ mirror'.macros = mirror.macros /\ mirror'.light = mirror.light
        /\ mirror'.keys = mirror.keys /\ mirror'.turns = [mirror.turns EXCEPT ![t] = c]
    BY <1>0, <1>2, <2>1, <2>2 DEF TablesInv, Mirror
  <2>5. ASSUME NEW u \in Turn PROVE encoderMap'[TurnIndex(u)] = mirror'.turns[u]
    <3>1. mirror.turns \in [Turn -> Keycode] /\ TurnIndex(u) \in 0..Layers * Encoders * 2 - 1
      BY <1>0, TurnIndexType DEF TablesInv, Mirror
    <3>2. CASE u = t
      BY <1>0, <1>2, <2>1, <2>4, <3>1, <3>2 DEF TablesInv
    <3>3. CASE u # t
      BY <1>0, <1>2, <2>1, <2>4, <3>1, <3>3, TurnsApart DEF TablesInv
    <3> QED BY <3>2, <3>3
  <2> QED BY <1>0, <1>1, <1>2, <2>3, <2>4, <2>5 DEF TablesInv
<1>3. CASE t \notin Turn
  <2>1. UNCHANGED <<encoderMap, mirror>>
    BY <1>3 DEF SetEncoder
  <2> QED BY <1>0, <1>1, <2>1 DEF TablesInv, settings
<1> QED BY <1>2, <1>3

LEMMA WriteKeymapStep ==
  ASSUME KeymapInv, NEW o \in 0..keymapBytes, NEW b \in Buffer, writeDynamicKeymap(o, b)
  PROVE  TablesInv' /\ (~Within(o, b, keymapBytes) => settings' = settings)
<1>0. TablesInv
  BY DEF KeymapInv, TablesInv
<1>1. keyCount \in Nat /\ keymapBytes = keyCount * 2 /\ o \in Nat /\ keymapBytes \in Nat
  BY KeyCount
<1>2. UNCHANGED <<encoderMap, macros, light, shown>>
  BY DEF writeDynamicKeymap, lightVars
<1>3. mirror' = [mirror EXCEPT !.keys = MirrorKeys(o, b)]
  BY DEF writeDynamicKeymap
<1> DEFINE High(n) == Patched(2 * n, o, b, KeymapByte(2 * n))
           Low(n)  == Patched(2 * n + 1, o, b, KeymapByte(2 * n + 1))
<1>4. keymap' = [n \in 0..keyCount - 1 |-> High(n) * Bytes256 + Low(n)]
  BY DEF writeDynamicKeymap
<1>5. ASSUME NEW n \in 0..keyCount - 1 PROVE High(n) \in Byte /\ Low(n) \in Byte
  <2>1. KeymapByte(2 * n) \in Byte /\ KeymapByte(2 * n + 1) \in Byte
    BY <1>0, HalvesOf DEF TablesInv
  <2>2. 2 * n \in Int /\ 2 * n + 1 \in Int
    BY <1>1
  <2> QED BY <1>1, <2>1, <2>2, PatchedType
<1> HIDE DEF High, Low
<1>6. keymap' \in [0..keyCount - 1 -> Keycode]
  BY <1>4, <1>5, CodeOfBytes
<1>7. ASSUME NEW k \in Key
      PROVE  /\ MirrorKeys(o, b)[k] \in [1..2 -> Byte]
             /\ MirrorKeys(o, b)[k][1] = High(KeyIndex(k)) /\ MirrorKeys(o, b)[k][2] = Low(KeyIndex(k))
  <2>1. /\ KeyIndex(k) \in 0..keyCount - 1
        /\ KeymapByte(2 * KeyIndex(k)) = mirror.keys[k][1]
        /\ KeymapByte(2 * KeyIndex(k) + 1) = mirror.keys[k][2]
    BY HalvesAreTold
  <2>2. WireOffset(k, 0) = 2 * KeyIndex(k) /\ WireOffset(k, 1) = 2 * KeyIndex(k) + 1
    <3>1. KeyIndex(k) \in Int
      BY <1>1, <2>1
    <3>2. WireOffset(k, 0) = KeyIndex(k) * 2 + 0 /\ WireOffset(k, 1) = KeyIndex(k) * 2 + 1
      BY WireIs
    <3> QED BY <3>1, <3>2
  <2>3. MirrorKeys(o, b)[k] = [h \in 1..2 |-> Patched(WireOffset(k, h - 1), o, b, mirror.keys[k][h])]
    BY DEF MirrorKeys
  <2>4. MirrorKeys(o, b)[k][1] = High(KeyIndex(k)) /\ MirrorKeys(o, b)[k][2] = Low(KeyIndex(k))
    <3>1. 1 - 1 = 0 /\ 2 - 1 = 1
      OBVIOUS
    <3> QED BY <2>1, <2>2, <2>3, <3>1 DEF High, Low
  <2>5. \A h \in 1..2 : h = 1 \/ h = 2
    OBVIOUS
  <2>6. \A h \in 1..2 : MirrorKeys(o, b)[k][h] \in Byte
    BY <1>5, <2>1, <2>4, <2>5
  <2> QED BY <2>3, <2>4, <2>6
<1>8. MirrorKeys(o, b) \in [Key -> [1..2 -> Byte]]
  BY <1>7 DEF MirrorKeys
<1>9. mirror' \in Mirror /\ mirror'.macros = mirror.macros /\ mirror'.light = mirror.light
      /\ mirror'.turns = mirror.turns /\ mirror'.keys = MirrorKeys(o, b)
  BY <1>0, <1>3, <1>8 DEF TablesInv, Mirror
<1>10. \A k \in Key : keymap'[KeyIndex(k)] = mirror'.keys[k][1] * Bytes256 + mirror'.keys[k][2]
  BY <1>4, <1>7, <1>9, KeyIndexType
<1>11. TablesInv'
  BY <1>0, <1>2, <1>6, <1>9, <1>10 DEF TablesInv
<1>12. ASSUME ~Within(o, b, keymapBytes) PROVE settings' = settings
  <2>1. ASSUME NEW n \in 0..keyCount - 1 PROVE keymap'[n] = keymap[n]
    <3>1. 2 * n \in 0..keymapBytes - 1 /\ 2 * n + 1 \in 0..keymapBytes - 1
      BY <1>1
    <3>2. High(n) = KeymapByte(2 * n) /\ Low(n) = KeymapByte(2 * n + 1)
      BY <1>1, <1>12, <3>1, NotWithin DEF High, Low
    <3>3. keymap[n] = KeymapByte(2 * n) * Bytes256 + KeymapByte(2 * n + 1)
      BY <1>0, HalvesOf DEF TablesInv
    <3> QED BY <1>4, <3>2, <3>3
  <2>2. keymap \in [0..keyCount - 1 -> Keycode]
    BY <1>0 DEF TablesInv
  <2> DEFINE D == 0..keyCount - 1
  <2>3. keymap \in [D -> Keycode] /\ keymap' \in [D -> Keycode]
    BY <1>6, <2>2
  <2>4. \A n \in D : keymap'[n] = keymap[n]
    BY <2>1
  <2> HIDE DEF D
  <2>5. keymap' = keymap
    BY ONLY <2>3, <2>4
  <2> QED BY <1>2, <2>5 DEF settings
<1> QED BY <1>11, <1>12

LEMMA WriteMacrosStep ==
  ASSUME KeymapInv, NEW o \in 0..MacroBytes, NEW b \in Buffer, WriteMacros(o, b)
  PROVE  TablesInv' /\ (~Within(o, b, MacroBytes) => settings' = settings)
<1>0. TablesInv
  BY DEF KeymapInv, TablesInv
<1>1. MacroBytes \in Nat /\ o \in Nat
  BY KeymapConstants
<1>2. UNCHANGED <<keymap, encoderMap, light, shown>>
  BY DEF WriteMacros, lightVars
<1>3. /\ macros' = [n \in MacroByte |-> Patched(n, o, b, macros[n])]
      /\ mirror' = [mirror EXCEPT !.macros = macros']
  BY DEF WriteMacros
<1>4. macros' \in [MacroByte -> Byte]
  <2>1. \A n \in MacroByte : n \in Int /\ macros[n] \in Byte
    BY <1>0, <1>1 DEF TablesInv, MacroByte
  <2>2. \A n \in MacroByte : Patched(n, o, b, macros[n]) \in Byte
    BY <1>1, <2>1, PatchedType
  <2> QED BY <1>3, <2>2
<1>5. mirror' \in Mirror /\ mirror'.macros = macros' /\ mirror'.light = mirror.light
      /\ mirror'.turns = mirror.turns /\ mirror'.keys = mirror.keys
  BY <1>0, <1>3, <1>4 DEF TablesInv, Mirror
<1>6. TablesInv'
  BY <1>0, <1>2, <1>4, <1>5 DEF TablesInv
<1>7. ASSUME ~Within(o, b, MacroBytes) PROVE settings' = settings
  <2>1. \A n \in MacroByte : Patched(n, o, b, macros[n]) = macros[n]
    BY <1>1, <1>7, NotWithin DEF MacroByte
  <2>2. macros' = macros
    BY <1>0, <1>3, <1>4, <2>1 DEF TablesInv
  <2> QED BY <1>2, <2>2 DEF settings
<1> QED BY <1>6, <1>7

LEMMA ResetKeymapStep ==
  ASSUME KeymapInv, ResetKeymap
  PROVE  TablesInv'
<1>0. TablesInv
  BY DEF KeymapInv, TablesInv
<1>1. CodeBytes(DefaultCode) \in [1..2 -> Byte]
      /\ DefaultCode = CodeBytes(DefaultCode)[1] * Bytes256 + CodeBytes(DefaultCode)[2]
  BY KeymapConstants, CodeBytesType
<1>2. /\ keymap' = [n \in 0..keyCount - 1 |-> DefaultCode]
      /\ encoderMap' = [n \in 0..Layers * Encoders * 2 - 1 |-> DefaultCode]
      /\ mirror' = [mirror EXCEPT !.keys = [k \in Key |-> CodeBytes(DefaultCode)],
                                  !.turns = [t \in Turn |-> DefaultCode]]
      /\ UNCHANGED <<macros, light, shown>>
  BY DEF ResetKeymap, lightVars
<1>3. /\ mirror' \in Mirror /\ mirror'.macros = mirror.macros /\ mirror'.light = mirror.light
      /\ mirror'.keys = [k \in Key |-> CodeBytes(DefaultCode)]
      /\ mirror'.turns = [t \in Turn |-> DefaultCode]
  BY <1>0, <1>1, <1>2, KeymapConstants DEF TablesInv, Mirror
<1>4. /\ keymap' \in [0..keyCount - 1 -> Keycode]
      /\ encoderMap' \in [0..Layers * Encoders * 2 - 1 -> Keycode]
  BY <1>2, KeymapConstants
<1>5. \A k \in Key : keymap'[KeyIndex(k)] = mirror'.keys[k][1] * Bytes256 + mirror'.keys[k][2]
  BY <1>1, <1>2, <1>3, KeyIndexType
<1>6. \A t \in Turn : encoderMap'[TurnIndex(t)] = mirror'.turns[t]
  BY <1>2, <1>3, TurnIndexType
<1> QED BY <1>0, <1>2, <1>3, <1>4, <1>5, <1>6 DEF TablesInv

LEMMA ZeroIsByte == 0 \in Byte
BY KeymapConstants DEF Byte

LEMMA ResetMacrosStep ==
  ASSUME KeymapInv, ResetMacros
  PROVE  TablesInv'
<1>0. TablesInv
  BY DEF KeymapInv, TablesInv
<1>1. /\ macros' = [n \in MacroByte |-> 0] /\ mirror' = [mirror EXCEPT !.macros = macros']
      /\ UNCHANGED <<keymap, encoderMap, light, shown>>
  BY DEF ResetMacros, lightVars
<1>2. macros' \in [MacroByte -> Byte]
  BY <1>1, ZeroIsByte
<1>3. mirror' \in Mirror /\ mirror'.macros = macros' /\ mirror'.light = mirror.light
      /\ mirror'.turns = mirror.turns /\ mirror'.keys = mirror.keys
  BY <1>0, <1>1, <1>2 DEF TablesInv, Mirror
<1> QED BY <1>0, <1>1, <1>2, <1>3 DEF TablesInv

\* A light's command writes the fields it speaks of.
LEMMA LightSetIs ==
  ASSUME NEW packet \in LightPacket, NEW bytes, LightSet(packet, bytes), light \in Light
  PROVE  light' = [f \in Field |->
           IF f = "saturation" /\ packet[2] = 4 THEN bytes[2]
           ELSE IF LightCommand[f] = packet[2] THEN bytes[1] ELSE light[f]]
<1> DEFINE fields == FieldsOf(packet)
<1>1. /\ fields # <<>>
      /\ light' = [f \in Field |->
           IF \E i \in 1..Len(fields) : fields[i] = f
           THEN bytes[CHOOSE i \in 1..Len(fields) : fields[i] = f] ELSE light[f]]
  BY DEF LightSet
<1>2. \/ packet[2] = 1 /\ fields = <<"brightness">>
      \/ packet[2] = 2 /\ fields = <<"effect">>
      \/ packet[2] = 3 /\ fields = <<"speed">>
      \/ packet[2] = 4 /\ fields = <<"hue", "saturation">>
  BY <1>1 DEF FieldsOf
<1> HIDE DEF fields
<1>3. ASSUME NEW name, fields = <<name>>
      PROVE  light' = [f \in Field |-> IF f = name THEN bytes[1] ELSE light[f]]
  <2>1. 1..Len(fields) = {1} /\ fields[1] = name
    BY <1>3
  <2>2. ASSUME NEW f \in Field
        PROVE  (IF \E i \in 1..Len(fields) : fields[i] = f
                THEN bytes[CHOOSE i \in 1..Len(fields) : fields[i] = f] ELSE light[f])
               = IF f = name THEN bytes[1] ELSE light[f]
    BY <2>1
  <2> QED BY <1>1, <2>2
<1>4. CASE packet[2] = 4 /\ fields = <<"hue", "saturation">>
  <2>1. 1..Len(fields) = {1, 2} /\ fields[1] = "hue" /\ fields[2] = "saturation"
    BY <1>4
  <2>2. ASSUME NEW f \in Field
        PROVE  (IF \E i \in 1..Len(fields) : fields[i] = f
                THEN bytes[CHOOSE i \in 1..Len(fields) : fields[i] = f] ELSE light[f])
               = IF f = "saturation" THEN bytes[2] ELSE IF f = "hue" THEN bytes[1] ELSE light[f]
    BY <2>1
  <2>3. \A f \in Field : LightCommand[f] = 4 <=> f \in {"hue", "saturation"}
    BY DEF Field, LightCommand
  <2> QED BY <1>1, <1>4, <2>2, <2>3
<1>5. \A f \in Field : /\ LightCommand[f] = 1 <=> f = "brightness"
                       /\ LightCommand[f] = 2 <=> f = "effect"
                       /\ LightCommand[f] = 3 <=> f = "speed"
  BY DEF Field, LightCommand
<1>6. CASE packet[2] = 1 /\ fields = <<"brightness">>
  BY <1>3, <1>5, <1>6
<1>7. CASE packet[2] = 2 /\ fields = <<"effect">>
  BY <1>3, <1>5, <1>7
<1>8. CASE packet[2] = 3 /\ fields = <<"speed">>
  BY <1>3, <1>5, <1>8
<1> QED BY <1>2, <1>4, <1>6, <1>7, <1>8

LEMMA SetCustomStep ==
  ASSUME KeymapInv, NEW p \in LightPacket, NEW b \in (0..Levels - 1) \X (0..Levels - 1),
         SetCustomValue(p, b)
  PROVE  TablesInv'
<1>0. TablesInv
  BY DEF KeymapInv, TablesInv
<1>1. /\ LightSet(p, b) /\ UNCHANGED <<keymap, encoderMap, macros>>
      /\ mirror' = [mirror EXCEPT !.light = [f \in Field |->
            IF f = "saturation" /\ p[2] = 4 THEN b[2]
            ELSE IF LightCommand[f] = p[2] THEN b[1] ELSE @[f]]]
  BY DEF SetCustomValue
<1>2. light' = [f \in Field |-> IF f = "saturation" /\ p[2] = 4 THEN b[2]
                                ELSE IF LightCommand[f] = p[2] THEN b[1] ELSE light[f]]
  BY <1>0, <1>1, LightSetIs DEF TablesInv
<1>3. light' \in Light /\ shown' = light'
  <2>1. b[1] \in 0..Levels - 1 /\ b[2] \in 0..Levels - 1
    OBVIOUS
  <2>2. shown' = light'
    BY <1>1 DEF LightSet
  <2> QED BY <1>0, <1>2, <2>1, <2>2 DEF TablesInv, Light
<1>4. mirror' = [mirror EXCEPT !.light = light']
  BY <1>0, <1>1, <1>2 DEF TablesInv, Mirror
<1>5. mirror' \in Mirror /\ mirror'.light = light' /\ mirror'.macros = mirror.macros
      /\ mirror'.turns = mirror.turns /\ mirror'.keys = mirror.keys
  BY <1>0, <1>3, <1>4 DEF TablesInv, Mirror
<1> QED BY <1>0, <1>1, <1>3, <1>5 DEF TablesInv

\* A command that changes a setting marks the settings dirty, if they were not.
LEMMA CommandStep ==
  ASSUME KeymapInv, Command
  PROVE  /\ TablesInv'
         /\ \E wrote \in BOOLEAN : mapDirty' = (mapDirty \/ wrote)
                                   /\ (~wrote => settings' = settings)
<1>1. ASSUME NEW k \in AnyKey, NEW c \in SomeCodes, SetKeycode(k, c), MarkIf(k \in Key)
      PROVE  TablesInv' /\ mapDirty' = (mapDirty \/ (k \in Key))
             /\ (k \notin Key => settings' = settings)
  BY <1>1, SetKeycodeStep DEF MarkIf
<1>2. ASSUME NEW t \in AnyTurn, NEW c \in SomeCodes, SetEncoder(t, c), MarkIf(t \in Turn)
      PROVE  TablesInv' /\ mapDirty' = (mapDirty \/ (t \in Turn))
             /\ (t \notin Turn => settings' = settings)
  BY <1>2, SetEncoderStep DEF MarkIf
<1>3. ASSUME NEW o \in 0..keymapBytes, NEW b \in Buffer, writeDynamicKeymap(o, b)
      PROVE  TablesInv' /\ mapDirty' = (mapDirty \/ Within(o, b, keymapBytes))
             /\ (Within(o, b, keymapBytes) = FALSE => settings' = settings)
  BY <1>3, WriteKeymapStep DEF MarkIf, writeDynamicKeymap
<1>4. ASSUME NEW o \in 0..MacroBytes, NEW b \in Buffer, WriteMacros(o, b)
      PROVE  TablesInv' /\ mapDirty' = (mapDirty \/ Within(o, b, MacroBytes))
             /\ (Within(o, b, MacroBytes) = FALSE => settings' = settings)
  BY <1>4, WriteMacrosStep DEF MarkIf, WriteMacros
<1>5. ResetKeymap => TablesInv' /\ mapDirty' = (mapDirty \/ TRUE)
  BY ResetKeymapStep DEF MarkIf, ResetKeymap
<1>6. ResetMacros => TablesInv' /\ mapDirty' = (mapDirty \/ TRUE)
  BY ResetMacrosStep DEF MarkIf, ResetMacros
<1>7. ASSUME NEW p \in LightPacket, NEW b \in (0..Levels - 1) \X (0..Levels - 1),
             SetCustomValue(p, b)
      PROVE  TablesInv' /\ mapDirty' = (mapDirty \/ TRUE)
  BY <1>7, SetCustomStep DEF MarkIf, SetCustomValue
<1>8. \A o, b, n : Within(o, b, n) \in BOOLEAN
  BY DEF Within
<1> DEFINE Done == /\ TablesInv'
                   /\ \E wrote \in BOOLEAN : mapDirty' = (mapDirty \/ wrote)
                                             /\ (~wrote => settings' = settings)
<1>9. ASSUME TablesInv', NEW wrote \in BOOLEAN, mapDirty' = (mapDirty \/ wrote),
             wrote = FALSE => settings' = settings
      PROVE  Done
  <2>1. ~wrote => settings' = settings
    BY <1>9
  <2> QED BY <1>9, <2>1
<1> HIDE DEF Done
<1>10. ASSUME NEW k \in AnyKey, NEW c \in SomeCodes, SetKeycode(k, c), MarkIf(k \in Key)
       PROVE  Done
  <2>1. CASE k \in Key
    <3>1. TablesInv' /\ mapDirty' = (mapDirty \/ TRUE)
      BY <1>1, <1>10, <2>1
    <3> QED BY <1>9, <3>1
  <2>2. CASE k \notin Key
    <3>1. TablesInv' /\ mapDirty' = (mapDirty \/ FALSE) /\ settings' = settings
      BY <1>1, <1>10, <2>2
    <3> QED BY <1>9, <3>1
  <2> QED BY <2>1, <2>2
<1>11. ASSUME NEW t \in AnyTurn, NEW c \in SomeCodes, SetEncoder(t, c), MarkIf(t \in Turn)
       PROVE  Done
  <2>1. CASE t \in Turn
    <3>1. TablesInv' /\ mapDirty' = (mapDirty \/ TRUE)
      BY <1>2, <1>11, <2>1
    <3> QED BY <1>9, <3>1
  <2>2. CASE t \notin Turn
    <3>1. TablesInv' /\ mapDirty' = (mapDirty \/ FALSE) /\ settings' = settings
      BY <1>2, <1>11, <2>2
    <3> QED BY <1>9, <3>1
  <2> QED BY <2>1, <2>2
<1>12. ASSUME NEW o \in 0..keymapBytes, NEW b \in Buffer, writeDynamicKeymap(o, b)
       PROVE  Done
  BY <1>3, <1>8, <1>9, <1>12
<1>13. ASSUME NEW o \in 0..MacroBytes, NEW b \in Buffer, WriteMacros(o, b)
       PROVE  Done
  BY <1>4, <1>8, <1>9, <1>13
<1>14. ResetKeymap \/ ResetMacros => Done
  BY <1>5, <1>6, <1>9
<1>15. ASSUME NEW p \in LightPacket, NEW b \in (0..Levels - 1) \X (0..Levels - 1),
              SetCustomValue(p, b)
       PROVE  Done
  BY <1>7, <1>9, <1>15
<1>16. Done
  BY ONLY Command, <1>10, <1>11, <1>12, <1>13, <1>14, <1>15 DEF Command
<1> QED BY <1>16 DEF Done

LEMMA KeymapParts ==
  /\ KeymapInv <=> TablesInv /\ mapDirty \in BOOLEAN /\ unsaved \in BOOLEAN /\ EditsAreMarked
  /\ KeymapInv' <=> TablesInv' /\ mapDirty' \in BOOLEAN /\ unsaved' \in BOOLEAN /\ EditsAreMarked'
BY DEF KeymapInv, TablesInv, EditsAreMarked

LEMMA KeymapInvInit == KeymapInit => KeymapInv
<1> SUFFICES ASSUME KeymapInit PROVE KeymapInv
  OBVIOUS
<1>1. CodeBytes(DefaultCode) \in [1..2 -> Byte]
      /\ DefaultCode = CodeBytes(DefaultCode)[1] * Bytes256 + CodeBytes(DefaultCode)[2]
  BY KeymapConstants, CodeBytesType
<1>2. /\ keymap = [n \in 0..keyCount - 1 |-> DefaultCode]
      /\ encoderMap = [n \in 0..Layers * Encoders * 2 - 1 |-> DefaultCode]
      /\ macros = [n \in MacroByte |-> 0]
      /\ light = [f \in Field |-> 0] /\ shown = NoLight
      /\ mapDirty = FALSE /\ unsaved = FALSE
      /\ mirror = [keys |-> [k \in Key |-> CodeBytes(DefaultCode)],
                   turns |-> [t \in Turn |-> DefaultCode], macros |-> macros, light |-> light]
  BY DEF KeymapInit, LightInit
<1>3. light \in Light
  BY <1>2, LevelsAssumption DEF Light
<1>4. macros \in [MacroByte -> Byte]
  BY <1>2, ZeroIsByte
<1>5. mirror \in Mirror /\ mirror.macros = macros /\ mirror.light = light
  BY <1>1, <1>2, <1>3, <1>4, KeymapConstants DEF Mirror
<1>6. /\ keymap \in [0..keyCount - 1 -> Keycode]
      /\ encoderMap \in [0..Layers * Encoders * 2 - 1 -> Keycode]
  BY <1>2, KeymapConstants
<1>7. \A k \in Key : keymap[KeyIndex(k)] = mirror.keys[k][1] * Bytes256 + mirror.keys[k][2]
  BY <1>1, <1>2, KeyIndexType
<1>8. \A t \in Turn : encoderMap[TurnIndex(t)] = mirror.turns[t]
  BY <1>2, TurnIndexType
<1> QED BY <1>2, <1>3, <1>4, <1>5, <1>6, <1>7, <1>8 DEF KeymapInv, EditsAreMarked

LEMMA KeymapInvStep == KeymapInv /\ [KeymapNext]_keymapVars => KeymapInv'
<1> SUFFICES ASSUME KeymapInv, [KeymapNext]_keymapVars PROVE KeymapInv'
  OBVIOUS
<1>0. TablesInv /\ mapDirty \in BOOLEAN /\ unsaved \in BOOLEAN /\ (unsaved => mapDirty)
  BY KeymapParts DEF EditsAreMarked
<1>1. CASE Command /\ unsaved' = (unsaved \/ settings' # settings)
  <2>1. PICK wrote \in BOOLEAN : mapDirty' = (mapDirty \/ wrote)
                                 /\ (~wrote => settings' = settings)
    BY <1>1, CommandStep
  <2>2. mapDirty' \in BOOLEAN /\ unsaved' \in BOOLEAN
    BY <1>0, <1>1, <2>1
  <2>3. EditsAreMarked'
    BY <1>0, <1>1, <2>1 DEF EditsAreMarked
  <2> QED BY <1>1, <2>2, <2>3, CommandStep, KeymapParts
<1>2. CASE SketchSets
  <2>1. TablesInv'
    BY <1>2, SetKeycodeStep, SetEncoderStep DEF SketchSets
  <2>2. UNCHANGED <<mapDirty, unsaved>>
    BY <1>2 DEF SketchSets
  <2> QED BY <1>0, <2>1, <2>2, KeymapParts DEF EditsAreMarked
<1>3. CASE Saves
  <2>1. mapDirty' = FALSE /\ unsaved' = FALSE
        /\ UNCHANGED <<keymap, encoderMap, macros, light, shown, mirror>>
    BY <1>3 DEF Saves, settings
  <2>2. TablesInv'
    BY <1>0, <2>1 DEF TablesInv
  <2> QED BY <2>1, <2>2, KeymapParts DEF EditsAreMarked
<1>4. CASE LoadsLight
  <2>1. PICK record \in Light : LightLoad(record) /\ mirror' = [mirror EXCEPT !.light = record]
    BY <1>4 DEF LoadsLight
  <2>2. mapDirty' = FALSE /\ unsaved' = FALSE /\ UNCHANGED <<keymap, encoderMap, macros>>
    BY <1>4 DEF LoadsLight
  <2>3. light' = record /\ shown' = record
    BY <2>1 DEF LightLoad
  <2>4. mirror' \in Mirror /\ mirror'.light = light' /\ mirror'.macros = mirror.macros
        /\ mirror'.turns = mirror.turns /\ mirror'.keys = mirror.keys
    BY <1>0, <2>1, <2>3 DEF TablesInv, Mirror
  <2>5. TablesInv'
    BY <1>0, <2>2, <2>3, <2>4 DEF TablesInv
  <2> QED BY <2>2, <2>5, KeymapParts DEF EditsAreMarked
<1>5. CASE UNCHANGED keymapVars
  <2>1. UNCHANGED <<keymap, encoderMap, macros, light, shown, mapDirty, mirror, unsaved>>
    BY <1>5 DEF keymapVars, settings
  <2>2. TablesInv'
    BY <1>0, <2>1 DEF TablesInv
  <2> QED BY <1>0, <2>1, <2>2, KeymapParts DEF EditsAreMarked
<1> QED BY <1>1, <1>2, <1>3, <1>4, <1>5 DEF KeymapNext

LEMMA KeymapInvariant == KeymapSpec => []KeymapInv
BY KeymapInvInit, KeymapInvStep, PTL DEF KeymapSpec

\* What the host was told it wrote at a place of the wire is the byte of the table there.
LEMMA MirrorByteIs ==
  ASSUME KeymapInv, NEW x \in Nat
  PROVE  MirrorByte(x) = IF x >= keymapBytes THEN 0 ELSE KeymapByte(x)
<1>1. keyCount \in Nat \ {0} /\ keymapBytes = keyCount * 2
  BY KeyCount
<1>2. CASE x >= keymapBytes
  <2>1. ASSUME NEW k \in Key, NEW h \in 0..1 PROVE WireOffset(k, h) # x
    <3>1. KeyIndex(k) \in 0..keyCount - 1
      BY KeyIndexType
    <3>2. KeyIndex(k) * 2 + h \in 0..keyCount * 2 - 1
      BY <1>1, <3>1, TwoDigits
    <3>3. WireOffset(k, h) = KeyIndex(k) * 2 + h
      BY WireIs
    <3> QED BY <1>1, <1>2, <3>2, <3>3
  <2> QED BY <1>2, <2>1 DEF MirrorByte
<1>3. CASE x < keymapBytes
  <2>1. PICK q \in Nat, r \in 0..1 : x = q * 2 + r
    BY Digits
  <2>2. q \in 0..keyCount - 1
    <3>1. q * 2 + r < keyCount * 2
      BY <1>1, <1>3, <2>1
    <3> QED BY <1>1, <3>1, HighDigit
  <2>3. PICK k \in Key : KeyIndex(k) = q
    BY <2>2, KeyAt
  <2>4. WireOffset(k, r) = x
    BY <2>1, <2>3, WireIs
  <2> DEFINE at == CHOOSE at \in Key \X (0..1) : WireOffset(at[1], at[2]) = x
  <2>5. <<k, r>> \in Key \X (0..1) /\ <<k, r>>[1] = k /\ <<k, r>>[2] = r
    OBVIOUS
  <2>6. at \in Key \X (0..1) /\ WireOffset(at[1], at[2]) = x
    BY <2>4, <2>5
  <2>7. MirrorByte(x) = mirror.keys[at[1]][at[2] + 1]
    BY <2>4 DEF MirrorByte
  <2> HIDE DEF at
  <2>8. PICK l \in Key, h \in 0..1 : at = <<l, h>> /\ at[1] = l /\ at[2] = h
    BY <2>6
  <2>9. KeyIndex(l) * 2 + h = q * 2 + r
    BY <2>1, <2>6, <2>8, WireIs
  <2>10. KeyIndex(l) \in Nat
    BY <1>1, KeyIndexType
  <2>11. KeyIndex(l) = q /\ h = r
    <3>1. 2 \in Nat \ {0} /\ 2 - 1 = 1
      OBVIOUS
    <3>2. PICK p \in Nat : p = KeyIndex(l)
      BY <2>10
    <3>3. p = q /\ h = r
      BY <2>9, <3>1, <3>2, SameDigits
    <3> QED BY <3>2, <3>3
  <2>12. l = k
    BY <2>3, <2>11, KeysApart
  <2>13. MirrorByte(x) = mirror.keys[k][r + 1]
    BY <2>7, <2>8, <2>11, <2>12
  <2>14. KeymapByte(2 * q) = mirror.keys[k][1] /\ KeymapByte(2 * q + 1) = mirror.keys[k][2]
    BY <2>3, HalvesAreTold
  <2>15. \/ r = 0 /\ r + 1 = 1 /\ x = 2 * q
         \/ r = 1 /\ r + 1 = 2 /\ x = 2 * q + 1
    BY <2>1
  <2>16. KeymapByte(x) = mirror.keys[k][r + 1]
    BY <2>14, <2>15
  <2>17. ~(x >= keymapBytes)
    BY <1>1, <1>3
  <2> QED BY <2>13, <2>16, <2>17
<1> QED BY <1>1, <1>2, <1>3

LEMMA KeptIsRead == KeymapInv => ReadsBackWritten
<1> SUFFICES ASSUME KeymapInv PROVE ReadsBackWritten
  OBVIOUS
<1>1. TablesInv
  BY KeymapParts
<1>2. ASSUME NEW k \in AnyKey
      PROVE  keycode(k) = IF k \in Key THEN mirror.keys[k][1] * Bytes256 + mirror.keys[k][2] ELSE 0
  BY <1>1 DEF keycode, TablesInv
<1>3. ASSUME NEW t \in AnyTurn
      PROVE  encoderKeycode(t) = IF t \in Turn THEN mirror.turns[t] ELSE 0
  BY <1>1 DEF encoderKeycode, TablesInv
<1>4. BufferMax \in Nat /\ MacroBytes \in Nat /\ keymapBytes \in Nat
  BY KeymapConstants, KeyCount
<1>5. ASSUME NEW o \in 0..keymapBytes
      PROVE  readDynamicKeymap(o, BufferMax) = [i \in 1..BufferMax |-> MirrorByte(o + i - 1)]
  <2>1. ASSUME NEW i \in 1..BufferMax
        PROVE  MirrorByte(o + i - 1)
               = IF o + i - 1 >= keymapBytes THEN 0 ELSE KeymapByte(o + i - 1)
    <3>1. o + i - 1 \in Nat
      BY <1>4
    <3> QED BY <3>1, MirrorByteIs
  <2> QED BY <2>1 DEF readDynamicKeymap
<1>6. ASSUME NEW o \in 0..MacroBytes
      PROVE  readMacros(o, BufferMax) =
               [i \in 1..BufferMax |-> IF o + i - 1 \in MacroByte THEN mirror.macros[o + i - 1] ELSE 0]
  <2>1. ASSUME NEW i \in 1..BufferMax
        PROVE  (o + i - 1 >= MacroBytes) = (o + i - 1 \notin MacroByte)
    BY <1>4 DEF MacroByte
  <2>2. mirror.macros = macros
    BY <1>1 DEF TablesInv
  <2>3. ASSUME NEW i \in 1..BufferMax
        PROVE  (IF o + i - 1 >= MacroBytes THEN 0 ELSE macros[o + i - 1])
               = IF o + i - 1 \in MacroByte THEN mirror.macros[o + i - 1] ELSE 0
    BY <2>1, <2>2
  <2> QED BY <2>3 DEF readMacros
<1> QED BY <1>2, <1>3, <1>5, <1>6 DEF ReadsBackWritten

LEMMA KeptIsShown == KeymapInv => LightsFollow
<1> SUFFICES ASSUME KeymapInv PROVE LightsFollow
  OBVIOUS
<1>1. light = mirror.light /\ shown \in {NoLight, light}
  BY DEF KeymapInv
<1>2. ASSUME NEW form \in {"v3", "legacy"}, NEW f \in Field \ {"saturation"}
      PROVE  LightGet(<<form, LightCommand[f]>>)[1] = mirror.light[f]
  <2> DEFINE packet == <<form, LightCommand[f]>>
  <2>1. packet[1] # "otherChannel" /\ packet[2] = LightCommand[f]
    <3>1. packet[1] = form /\ packet[2] = LightCommand[f]
      OBVIOUS
    <3> QED BY <3>1
  <2> HIDE DEF packet
  <2>2. \/ f = "brightness" /\ packet[2] = 1
        \/ f = "effect" /\ packet[2] = 2
        \/ f = "speed" /\ packet[2] = 3
        \/ f = "hue" /\ packet[2] = 4
    BY <2>1 DEF Field, LightCommand
  <2>3. FieldsOf(packet) = <<f>> \/ FieldsOf(packet) = <<f, "saturation">>
    BY <2>1, <2>2 DEF FieldsOf
  <2>4. 1 \in 1..Len(FieldsOf(packet)) /\ FieldsOf(packet)[1] = f
    BY <2>3
  <2>5. LightGet(<<form, LightCommand[f]>>)[1] = light[f]
    BY <2>4 DEF LightGet, packet
  <2> QED BY <1>1, <2>5
<1> QED BY <1>1, <1>2 DEF LightsFollow

\* Whatever mixture of single writes, buffers at any offset, resets and lights' commands
\* the host sends, for every size of the tables: it reads back what it was told it
\* wrote, what it changed waits for a save, and the LEDs show it.
THEOREM HostReadsWhatItWrote == KeymapSpec => []SettingsKept
<1>1. KeymapInv => SettingsKept
  BY KeptIsRead, KeptIsShown DEF KeymapInv, SettingsKept
<1> QED BY <1>1, KeymapInvariant, PTL

\* The same in the specification the runs check, beside the adapters.
THEOREM SettingsAreKept == SettingsSpec => []SettingsKept
<1>1. SettingsInit => KeymapInit
  BY DEF SettingsInit
<1>2. [SettingsNext]_settingsVars => [KeymapNext]_keymapVars
  BY DEF SettingsNext, Commands, settingsVars
<1>3. SettingsSpec => KeymapSpec
  BY <1>1, <1>2, PTL DEF SettingsSpec, KeymapSpec
<1> QED BY <1>3, HostReadsWhatItWrote, PTL

===============================================================================
