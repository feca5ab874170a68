------------------------------ MODULE FlashSaves ------------------------------
(***************************************************************************)
(* Protocol::writeState() and factoryReset() (src/src/VIA_Protocol.cpp)    *)
(* on a FlashStorage whose flash never fails and never loses power.  The   *)
(* word "head" is the checksum in the record's header: as zero it has every*)
(* bit cleared, as a real checksum it has not.                             *)
(***************************************************************************)
EXTENDS SlotFlash, Sequences

VARIABLES
  calls,      \* storage calls the save or reset under way has still to make
  outcome     \* what the last save or reset returned

saverVars == <<flashVars, calls, outcome>>

-----------------------------------------------------------------------------
SaveCalls  == <<"zeroHeader", "payload", "header", "commit">>
ResetCalls == <<"erase">> \o SaveCalls

Call(kind) == calls # <<>> /\ Head(calls) = kind

SaverBegin == FlashBegin /\ UNCHANGED <<calls, outcome>>

Start ==
  /\ flashStep = "idle" /\ calls = <<>>
  /\ calls' \in {SaveCalls, ResetCalls}
  /\ outcome' = "none"
  /\ UNCHANGED flashVars

\* The word a write call addresses, and the bits its data clears there.
WordOf(kind) == IF kind = "payload" THEN "tail" ELSE "head"
DataOf(kind) ==
  CASE kind = "zeroHeader" -> {Bit}
    [] kind = "header"     -> SUBSET Bit \ {Bit}
    [] OTHER               -> SUBSET Bit

CallWrite ==
  /\ calls # <<>> /\ Head(calls) \in {"zeroHeader", "payload", "header"}
  /\ \E bits \in DataOf(Head(calls)) :
       \/ FlashWrite(WordOf(Head(calls)), bits) /\ calls' = Tail(calls) /\ UNCHANGED outcome
       \/ /\ ~(provisionalReady /\ Programmable(WordOf(Head(calls)), bits))
          /\ calls' = <<>> /\ outcome' = "failed"
          /\ UNCHANGED flashVars

CallErase ==
  \/ Call("erase") /\ (EraseBegins \/ ErasePage1) /\ UNCHANGED <<calls, outcome>>
  \/ Call("erase") /\ ErasePage2 /\ calls' = Tail(calls) /\ UNCHANGED outcome

CallCommit ==
  \/ Call("commit") /\ (CommitBegins \/ CommitEnvelope \/ CommitMarker)
     /\ UNCHANGED <<calls, outcome>>
  \/ Call("commit") /\ CommitFlash /\ calls' = Tail(calls) /\ outcome' = "ok"

-----------------------------------------------------------------------------
Init == FlashInit /\ calls = <<>> /\ outcome = "none"

Next == SaverBegin \/ Start \/ CallWrite \/ CallErase \/ CallCommit

Spec == Init /\ [][Next]_saverVars

-----------------------------------------------------------------------------
\* FlashStorage is documented as Protocol's storage: header writes are cached until
\* commit(), so on a flash that works every save and every reset succeeds.
SavesOnWorkingFlash == outcome # "failed"
=============================================================================
