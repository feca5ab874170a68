------------------------------- MODULE SlotFlash -------------------------------
(***************************************************************************)
(* via::stm32f1::FlashStorage (src/src/VIA_STM32F1_Flash.cpp, .h) on a     *)
(* flash that only clears bits (tests/flash_test.cpp, SimulatedFlash): a   *)
(* word is the set of its cleared bits, and writing it may only add some.  *)
(*                                                                         *)
(* A slot is an envelope (magic, sequence number and checksum), a commit   *)
(* marker and the body.  The first page of a slot holds all but the end of *)
(* the body.  The checksum is perfect: the envelope remembers the body.    *)
(* Any flash operation may fail, and power may be lost in the middle of it.*)
(***************************************************************************)
EXTENDS TwoSlots, FiniteSets

CONSTANT Bit

Word == {"head", "tail"}             \* in the first page, in the second page
Body == [Word -> SUBSET Bit]
BlankBody == [w \in Word |-> {}]

Envelope  == [number : Number, sum : Body]
NoEnvelope == [number |-> 0, sum |-> <<>>]      \* erased
Rubbish    == [number |-> 0, sum |-> <<"?">>]   \* torn, or not ours
FlashSlot  == [envelope : Envelope \cup {NoEnvelope, Rubbish}, marker : BOOLEAN, body : Body]
BlankSlot  == [envelope |-> NoEnvelope, marker |-> FALSE, body |-> BlankBody]

VARIABLES
  slot,               \* the flash
  activeSlot, activeSeq, activeValid,
  provisionalSlot, newSeq, provisionalReady,
  flashStep,          \* next step of erase() or commit()
  saved,              \* history: body of the last commit() that succeeded
  attempts            \* history: bodies of the commit()s begun since then

activeVars      == <<activeSlot, activeSeq, activeValid>>
provisionalVars == <<provisionalSlot, newSeq>>
flashVars       == <<slot, activeVars, provisionalVars, provisionalReady, flashStep, saved, attempts>>

-----------------------------------------------------------------------------
\* validateSlot()
Empty(s) == s.envelope = NoEnvelope /\ ~s.marker
Valid(s) == s.envelope \in Envelope /\ s.marker /\ s.envelope.sum = s.body

ValidSlots == { s \in Slots : Valid(slot[s]) }
EmptySlots == { s \in Slots : Empty(slot[s]) }
Startable  == ValidSlots # {} \/ EmptySlots # {}

\* The slot begin() selects: the newest valid one, or else an empty one.
Selected ==
  IF ValidSlots # {} THEN Newest(ValidSlots, [s \in Slots |-> slot[s].envelope.number])
  ELSE IF "A" \in EmptySlots THEN "A" ELSE "B"

\* What a restart would read.
FlashReload == slot[Selected].body

FlashBegin ==
  /\ flashStep = "off"
  /\ IF Startable
     THEN /\ activeValid' = TRUE /\ activeSlot' = Selected
          /\ activeSeq' = IF ValidSlots = {} THEN 0 ELSE slot[Selected].envelope.number
          /\ saved' = FlashReload
          /\ flashStep' = "idle"
     ELSE activeValid' = FALSE /\ UNCHANGED <<activeSlot, activeSeq, saved, flashStep>>
  /\ UNCHANGED <<slot, provisionalVars, provisionalReady, attempts>>

-----------------------------------------------------------------------------
(* erase(): an empty replacement in the slot that is not active. *)

\* Mutant: the replacement is prepared in the active slot.
EraseBegins_Active ==
  /\ flashStep = "idle" /\ activeValid
  /\ provisionalSlot' = activeSlot /\ newSeq' = Following(activeSeq)
  /\ flashStep' = "erasePage1"
  /\ UNCHANGED <<slot, activeVars, provisionalReady, saved, attempts>>

EraseBegins ==
  /\ flashStep = "idle" /\ activeValid
  /\ provisionalSlot' = Other(activeSlot) /\ newSeq' = Following(activeSeq)
  /\ flashStep' = "erasePage1"
  /\ UNCHANGED <<slot, activeVars, provisionalReady, saved, attempts>>

ErasePage1 ==
  /\ flashStep = "erasePage1"
  /\ slot' = [slot EXCEPT ![provisionalSlot] =
       [@ EXCEPT !.envelope = NoEnvelope, !.marker = FALSE, !.body["head"] = {}]]
  /\ flashStep' = "erasePage2"
  /\ UNCHANGED <<activeVars, provisionalVars, provisionalReady, saved, attempts>>

ErasePage2 ==
  /\ flashStep = "erasePage2"
  /\ slot' = [slot EXCEPT ![provisionalSlot].body["tail"] = {}]
  /\ flashStep' = "idle" /\ provisionalReady' = TRUE
  /\ UNCHANGED <<activeVars, provisionalVars, saved, attempts>>

-----------------------------------------------------------------------------
(* write(): needs a replacement under way, and bits it may still clear. *)

Programmable(w, bits) == slot[provisionalSlot].body[w] \subseteq bits

FlashWrite(w, bits) ==
  /\ flashStep = "idle" /\ provisionalReady
  /\ Programmable(w, bits)
  /\ slot' = [slot EXCEPT ![provisionalSlot].body[w] = bits]
  /\ UNCHANGED <<activeVars, provisionalVars, provisionalReady, flashStep, saved, attempts>>

-----------------------------------------------------------------------------
(* commit(): the envelope, then the marker, then the memory's own commit(). *)

CommitBegins ==
  /\ flashStep = "idle" /\ provisionalReady
  /\ attempts' = attempts \cup {slot[provisionalSlot].body}
  /\ flashStep' = "commitEnvelope"
  /\ UNCHANGED <<slot, activeVars, provisionalVars, provisionalReady, saved>>

\* Mutant: the marker is there before the envelope has been written.
CommitEnvelope_MarksFirst ==
  /\ flashStep = "commitEnvelope"
  /\ slot' = [slot EXCEPT ![provisionalSlot].marker = TRUE]
  /\ activeSlot' = provisionalSlot /\ activeSeq' = newSeq
  /\ provisionalReady' = FALSE
  /\ saved' = slot[provisionalSlot].body /\ attempts' = {}
  /\ flashStep' = "idle"
  /\ UNCHANGED <<activeValid, provisionalVars>>

\* An envelope left by an attempt before may be in the way.
CommitEnvelope ==
  LET envelope == [number |-> newSeq, sum |-> slot[provisionalSlot].body] IN
  /\ flashStep = "commitEnvelope"
  /\ slot[provisionalSlot].envelope \in {NoEnvelope, Rubbish, envelope}
  /\ slot' = [slot EXCEPT ![provisionalSlot].envelope = envelope]
  /\ flashStep' = "commitMarker"
  /\ UNCHANGED <<activeVars, provisionalVars, provisionalReady, saved, attempts>>

CommitMarker ==
  /\ flashStep = "commitMarker"
  /\ slot' = [slot EXCEPT ![provisionalSlot].marker = TRUE]
  /\ flashStep' = "commitFlash"
  /\ UNCHANGED <<activeVars, provisionalVars, provisionalReady, saved, attempts>>

CommitFlash ==
  /\ flashStep = "commitFlash"
  /\ activeSlot' = provisionalSlot /\ activeSeq' = newSeq
  /\ provisionalReady' = FALSE
  /\ saved' = slot[provisionalSlot].body /\ attempts' = {}
  /\ flashStep' = "idle"
  /\ UNCHANGED <<slot, activeValid, provisionalVars>>

-----------------------------------------------------------------------------
(* Failures *)

\* What a flash operation that is cut short leaves of the slot it works on: an
\* erased page or a word in the middle of being written may read as anything.
CutShort ==
  LET s == slot[provisionalSlot]
      Leaves(t) == slot' = [slot EXCEPT ![provisionalSlot] = t]
  IN  \/ UNCHANGED slot
      \/ /\ flashStep = "erasePage1"
         /\ \E e \in {s.envelope, NoEnvelope, Rubbish}, m \in {s.marker, FALSE}, b \in SUBSET Bit :
              Leaves([s EXCEPT !.envelope = e, !.marker = m, !.body["head"] = b])
      \/ /\ flashStep = "erasePage2"
         /\ \E b \in SUBSET Bit : Leaves([s EXCEPT !.body["tail"] = b])
      \/ flashStep = "commitEnvelope" /\ Leaves([s EXCEPT !.envelope = Rubbish])
      \/ /\ flashStep = "idle" /\ provisionalReady
         /\ \E w \in Word, b \in SUBSET Bit : Leaves([s EXCEPT !.body[w] = @ \cup b])

FlashFails ==
  /\ flashStep # "off" /\ (flashStep = "idle" => provisionalReady)
  /\ CutShort
  /\ flashStep' = "idle"
  /\ UNCHANGED <<activeVars, provisionalVars, provisionalReady, saved, attempts>>

FlashPowerLoss ==
  /\ flashStep # "off"
  /\ CutShort
  /\ activeSlot' = "A" /\ activeSeq' = 0 /\ activeValid' = FALSE
  /\ provisionalSlot' = "B" /\ newSeq' = 0 /\ provisionalReady' = FALSE
  /\ flashStep' = "off"
  /\ UNCHANGED <<saved, attempts>>

-----------------------------------------------------------------------------
FlashInit ==
  /\ slot = [s \in Slots |-> BlankSlot]
  /\ activeSlot = "A" /\ activeSeq = 0 /\ activeValid = FALSE
  /\ provisionalSlot = "B" /\ newSeq = 0 /\ provisionalReady = FALSE
  /\ flashStep = "off"
  /\ saved = BlankBody /\ attempts = {}

FlashNext ==
  \/ FlashBegin
  \/ EraseBegins \/ ErasePage1 \/ ErasePage2
  \/ \E w \in Word, bits \in SUBSET Bit : FlashWrite(w, bits)
  \/ CommitBegins \/ CommitEnvelope \/ CommitMarker \/ CommitFlash
  \/ FlashFails \/ FlashPowerLoss

FlashSpec == FlashInit /\ [][FlashNext]_flashVars

-----------------------------------------------------------------------------
\* What the flash, the adapter's members and its steps range over.
FlashTypeOK ==
  /\ slot \in [Slots -> FlashSlot]
  /\ activeSlot \in Slots /\ activeSeq \in Number /\ activeValid \in BOOLEAN
  /\ provisionalSlot \in Slots /\ newSeq \in Number /\ provisionalReady \in BOOLEAN
  /\ flashStep \in {"off", "idle", "erasePage1", "erasePage2", "commitEnvelope",
                    "commitMarker", "commitFlash"}
  /\ saved \in Body /\ attempts \subseteq Body

\* Whenever power is lost, begin() finds a slot to start from and reads either the
\* body of the last commit() that succeeded or, whole, that of one begun since
\* (validateSlot(), and the order of the writes in commit()).
FlashKeepsCommits == Startable /\ FlashReload \in {saved} \cup attempts

\* Once a commit() has succeeded, a restart reads just that, and so does read(),
\* until the next commit() is begun: erase() and write() work on the other slot.
FlashReadsCommitted ==
  flashStep # "off" /\ attempts = {} => FlashReload = saved /\ slot[activeSlot].body = saved
=============================================================================
