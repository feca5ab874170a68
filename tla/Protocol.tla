------------------------------- MODULE Protocol -------------------------------
(***************************************************************************)
(* via::Protocol (src/src/VIA_Protocol.cpp): the live settings of a        *)
(* keyboard, the record that keeps them across restarts, and the request / *)
(* response loop through which a VIA host edits, saves and resets them.    *)
(*                                                                         *)
(* Protocol::task() runs to completion on one thread, so the only thing    *)
(* that can come between two storage calls is a loss of power.  Each       *)
(* storage call is therefore an action of its own, and `pc' says which     *)
(* call the thread makes next.                                             *)
(*                                                                         *)
(* The storage adapter is external.  It is described by what the Storage   *)
(* contract (VIA_Protocol.h:27-38) lets it do:                             *)
(*   WriteThrough   a write is durable at once (bytewise EEPROM); otherwise*)
(*                  writes stay provisional until commit();                *)
(*   EraseThrough   erase() is durable at once (EEPROMStorage.erase).      *)
(*                                                                         *)
(* Section contents are abstract values.  A record is the header's CRC     *)
(* field and the payload; Crc is any function that is never 0, so the      *)
(* results do not rest on the strength of CRC-32.                          *)
(***************************************************************************)
EXTENDS Naturals, Sequences

CONSTANTS
  Order,         \* the payload's sections, in the order writeState() writes them
  Value,         \* the contents a section may have
  Zero,          \* the all-zero contents
  Defaults,      \* default keymap, encoder map, macros, layout, custom state
  ValidCustom,   \* custom bytes that CustomValue::validateState accepts
  CustomResets,  \* does CustomValue override the no-op reset()?
  HasStorage,    \* is there a Storage, and is it large enough?
  WriteThrough, EraseThrough,
  Crc(_),        \* checksum of a payload
  CrcValue,
  NoHeader,      \* a header that load() rejects: erased, torn or foreign
  Junk,          \* bytes that are no section's contents: erased or torn
  AppCalls       \* public operations the sketch itself calls between tasks

Section == { Order[i] : i \in 1..Len(Order) }
Payload == [Section -> Value]
Image   == [Section -> Value \cup {Junk}]

ASSUME OrderAssumption == Order \in Seq(STRING) /\ {"keymap", "layout"} \subseteq Section
ASSUME ValueAssumption ==
  /\ Zero \in Value /\ Junk \notin Value
  /\ ValidCustom \subseteq Value
  /\ Defaults \in Payload
  /\ "macros" \in Section => Defaults["macros"] = Zero
ASSUME FlagAssumption ==
  /\ CustomResets \in BOOLEAN /\ HasStorage \in BOOLEAN
  /\ WriteThrough \in BOOLEAN /\ EraseThrough \in BOOLEAN
  /\ WriteThrough => EraseThrough
  /\ AppCalls \subseteq {"load", "save", "factoryReset"}
ASSUME CrcAssumption ==
  /\ 0 \in CrcValue /\ NoHeader \notin CrcValue
  /\ \A b \in Image : Crc(b) \in CrcValue \ {0}

VARIABLES
  live,               \* keymap, encoderMap, macros, layoutOptions_, custom state
  dirty,              \* dirty_
  due,                \* dirty_ && (int32_t)(nowMs - saveAt_) >= 0
  staged,             \* config_.loadBuffer while factoryReset() uses it
  pc,                 \* the thread's next step
  section,            \* index in Order of the section writeState() writes next
  caller,             \* on whose behalf a save or reset runs
  pending,            \* pendingResponse_: the request, then its answer
  responsePending,    \* responsePending_
  bootloaderPending,  \* bootloaderPending_
  tx,                 \* the request whose answer the transport is transferring
  asked,              \* requests taken whose answer has not been transferred
  work,               \* the record as Storage::read sees it
  durable,            \* the record a restart would find
  stored,             \* history: payload of the last record sealed in durable
  unread,             \* history: begin() fell back past a good record
  spoiled             \* history: a non-atomic adapter failed a clean device

controlVars == <<pc, section, caller>>
answerVars  == <<pending, responsePending, bootloaderPending>>
hostVars    == <<tx, asked>>
storeVars   == <<work, durable, stored>>
liveVars    == <<live, dirty, due, staged, unread, spoiled>>
vars        == <<controlVars, answerVars, hostVars, storeVars, liveVars>>

Commands == {"query", "edit", "commit", "reset", "bootloader"}
Answer   == [cmd : Commands, ok : BOOLEAN]
None     == [cmd |-> "none", ok |-> FALSE]
NoTransfer     == "none"

SaveSteps  == {"saveHeader", "savePayload", "saveCrc", "saveCommit"}
ResetSteps == {"resetStage", "resetErase", "resetHeader", "resetPayload",
               "resetCrc", "resetCommit"}
Steps      == {"off", "idle", "send", "jump", "autosave"} \cup SaveSteps \cup ResetSteps

Record == [crc : CrcValue \cup {NoHeader}, body : Image]
Erased == [crc |-> NoHeader, body |-> [s \in Section |-> Junk]]

HasCustom == "custom" \in Section

\* An adapter that keeps erase and write provisional until commit().
AtomicStorage == HasStorage /\ ~WriteThrough /\ ~EraseThrough

-----------------------------------------------------------------------------
(* Records *)

\* The checks of load(): a header of this firmware, a matching CRC, and custom
\* bytes that the custom handler accepts.
Loadable(r) ==
  /\ r.crc = Crc(r.body)
  /\ HasCustom => r.body["custom"] \in ValidCustom

\* What begin() makes of a record it can read.
Restored(r) == IF HasStorage /\ Loadable(r) THEN r.body ELSE Defaults

PutCrc(r, c)        == [r EXCEPT !.crc = c]
PutSection(r, s, v) == [r EXCEPT !.body[s] = v]

\* The payload under way: save writes the live buffers, reset its workspace.
Source == IF pc \in SaveSteps THEN live ELSE staged

\* The record after the storage call at pc, when the call does all its work...
AfterCall ==
  CASE pc \in {"saveHeader", "resetHeader"} -> PutCrc(work, 0)
    [] pc = "savePayload"  -> PutSection(work, Order[section], live[Order[section]])
    [] pc = "resetPayload" -> [work EXCEPT !.body = staged]
    [] pc \in {"saveCrc", "resetCrc"} -> PutCrc(work, Crc(Source))
    [] pc = "resetErase"   -> Erased
    [] OTHER -> work

\* ... and when it is cut short.
TornCall ==
  CASE pc \in {"saveHeader", "resetHeader", "saveCrc", "resetCrc"} -> PutCrc(work, NoHeader)
    [] pc = "savePayload"  -> PutSection(work, Order[section], Junk)
    [] pc = "resetPayload" -> [work EXCEPT !.body = [s \in Section |-> Junk]]
    [] pc = "resetErase"   -> Erased
    [] OTHER -> work

\* Whether the call at pc reaches the durable medium directly.
Through == IF pc = "resetErase" THEN EraseThrough ELSE WriteThrough

\* A storage call that leaves r behind.  Once the final header is in place the
\* record is sealed, and `stored' remembers of which payload.
Leaves(r) ==
  /\ work' = r
  /\ durable' = IF Through THEN r ELSE durable

Seals == stored' = IF WriteThrough THEN Source ELSE stored

-----------------------------------------------------------------------------
(* Taking a request: process(), VIA_Protocol.cpp:92-277 *)

\* Mutant: the next request is taken while an answer waits.
ReadyForRequest_Eager == pc = "idle" /\ ~bootloaderPending

ReadyForRequest == pc = "idle" /\ ~responsePending /\ ~bootloaderPending

\* A request that runs to its end inside process(): its answer is ready.
Answers(c, ok) ==
  /\ ReadyForRequest
  /\ pending' = [cmd |-> c, ok |-> ok]
  /\ responsePending' = TRUE
  /\ bootloaderPending' = (c = "bootloader" /\ ok)
  /\ asked' = Append(asked, c)
  /\ pc' = "send"
  /\ UNCHANGED <<section, caller, tx, storeVars, staged, unread, spoiled>>

\* Mutant: the edit is not marked as unsaved.
MarkDirty_Forgotten == due' = FALSE /\ UNCHANGED dirty

\* markDirty(): the edit is unsaved and the auto-save deadline starts over.
MarkDirty == dirty' = TRUE /\ due' = FALSE

\* The get commands and unknown commands; also every request that process()
\* turns down before it changes anything, a buffer write that lies wholly
\* beyond the buffer (accepted, but nothing written), and the bootloader
\* request of a clean device, which needs no save.
AnswerUnchanged(c, ok) ==
  /\ Answers(c, ok)
  /\ \/ ~ok
     \/ c \in {"query", "edit"}
     \/ c = "bootloader" /\ ~dirty
  /\ UNCHANGED <<live, dirty, due>>

\* 0x05, 0x13, 0x15, 0x0F, 0x03/0x02 and 0x07: one section gets new contents.
\* The custom handler accepts only what it would accept from a record.
SetSection(s, v) ==
  /\ Answers("edit", TRUE)
  /\ s = "custom" => v \in ValidCustom
  /\ live' = [live EXCEPT ![s] = v]
  /\ MarkDirty

\* 0x06: keymap and encoder map go back to their defaults.
ResetKeymap ==
  /\ Answers("edit", TRUE)
  /\ live' = [s \in Section |-> IF s \in {"keymap", "encoder"} THEN Defaults[s] ELSE live[s]]
  /\ MarkDirty

\* 0x10: the macro buffer is zeroed.
ResetMacros ==
  /\ Answers("edit", TRUE)
  /\ live' = [s \in Section |-> IF s = "macros" THEN Zero ELSE live[s]]
  /\ MarkDirty

\* 0x09, 0x0A and 0x0B need the storage before they have an answer.
BeginStorageRequest(c, step) ==
  /\ ReadyForRequest
  /\ pending' = [cmd |-> c, ok |-> FALSE]
  /\ asked' = Append(asked, c)
  /\ caller' = "host"
  /\ pc' = step
  /\ UNCHANGED <<section, responsePending, bootloaderPending, tx, storeVars, liveVars>>

RequestCommit     == BeginStorageRequest("commit", "saveHeader")
RequestReset      == BeginStorageRequest("reset", "resetStage")
RequestBootloader == dirty /\ BeginStorageRequest("bootloader", "saveHeader")

\* receive() has nothing, or task() does not ask it: on to the send.
ReceiveNothing ==
  /\ pc = "idle"
  /\ pc' = "send"
  /\ UNCHANGED <<section, caller, answerVars, hostVars, storeVars, liveVars>>

\* The save or reset on behalf of `caller' is over.
Returns(ok) ==
  /\ \/ /\ caller = "host"
        /\ pending' = [pending EXCEPT !.ok = ok]
        /\ responsePending' = TRUE
        /\ bootloaderPending' = (pending.cmd = "bootloader" /\ ok)
        /\ pc' = "send"
     \/ /\ caller # "host"
        /\ pc' = "idle"
        /\ UNCHANGED answerVars
  /\ caller' = "auto"
  /\ UNCHANGED hostVars

-----------------------------------------------------------------------------
(* save() and writeState(), VIA_Protocol.cpp:434-469 *)

\* Mutants: a save that never began clears dirty_, or reports success.
SaveRefused_Cleans ==
  /\ pc = "saveHeader"
  /\ ~HasStorage \/ HasCustom
  /\ Returns(FALSE)
  /\ dirty' = FALSE /\ due' = FALSE
  /\ UNCHANGED <<section, storeVars, live, staged, unread, spoiled>>

SaveRefused_Granted ==
  /\ pc = "saveHeader"
  /\ ~HasStorage \/ HasCustom
  /\ Returns(TRUE)
  /\ UNCHANGED <<section, storeVars, liveVars>>

\* No storage, or CustomValue::saveState fails: nothing was written.
SaveRefused ==
  /\ pc = "saveHeader"
  /\ ~HasStorage \/ HasCustom
  /\ Returns(FALSE)
  /\ UNCHANGED <<section, storeVars, liveVars>>

\* Mutant: the old header stays in place while the payload is replaced.
SaveHeader_OldStays ==
  /\ pc = "saveHeader" /\ HasStorage
  /\ pc' = "savePayload" /\ section' = 1
  /\ UNCHANGED <<caller, answerVars, hostVars, storeVars, liveVars>>

\* First the header with a zero CRC, so that no half-written payload validates.
SaveHeader ==
  /\ pc = "saveHeader" /\ HasStorage
  /\ Leaves(AfterCall)
  /\ pc' = "savePayload" /\ section' = 1
  /\ UNCHANGED <<caller, answerVars, hostVars, stored, liveVars>>

\* Mutants: the last section is left out; one section too many is written.
SaveSection_LeavesOutLast ==
  /\ pc = "savePayload"
  /\ Leaves(AfterCall)
  /\ \/ section < Len(Order) - 1 /\ section' = section + 1 /\ UNCHANGED pc
     \/ section >= Len(Order) - 1 /\ section' = 1 /\ pc' = "saveCrc"
  /\ UNCHANGED <<caller, answerVars, hostVars, stored, liveVars>>

SaveSection_OneTooMany ==
  /\ pc = "savePayload" /\ section <= Len(Order)
  /\ Leaves(AfterCall)
  /\ section' = section + 1 /\ UNCHANGED pc
  /\ UNCHANGED <<caller, answerVars, hostVars, stored, liveVars>>

SaveSection ==
  /\ pc = "savePayload"
  /\ Leaves(AfterCall)
  /\ \/ section < Len(Order) /\ section' = section + 1 /\ UNCHANGED pc
     \/ section = Len(Order) /\ section' = 1 /\ pc' = "saveCrc"
  /\ UNCHANGED <<caller, answerVars, hostVars, stored, liveVars>>

SaveCrc ==
  /\ pc = "saveCrc"
  /\ Leaves(AfterCall)
  /\ Seals
  /\ pc' = "saveCommit"
  /\ UNCHANGED <<section, caller, answerVars, hostVars, liveVars>>

SaveCommit ==
  /\ pc = "saveCommit"
  /\ durable' = work /\ stored' = live
  /\ dirty' = FALSE /\ due' = FALSE /\ unread' = FALSE /\ spoiled' = FALSE
  /\ Returns(TRUE)
  /\ UNCHANGED <<section, work, live, staged>>

-----------------------------------------------------------------------------
(* factoryReset(), VIA_Protocol.cpp:471-540 *)

\* No storage, or a custom handler whose state has outgrown the record or the load
\* buffer (stateBytes() asks it every time).
ResetRefused ==
  /\ pc = "resetStage"
  /\ ~HasStorage \/ HasCustom
  /\ Returns(FALSE)
  /\ UNCHANGED <<section, storeVars, liveVars>>

\* Mutant: the staged defaults are published before anything is stored.
ResetStage_PublishesEarly ==
  /\ pc = "resetStage" /\ HasStorage
  /\ staged' = Defaults /\ live' = Defaults
  /\ pc' = "resetErase"
  /\ UNCHANGED <<section, caller, answerVars, hostVars, storeVars, dirty, due, unread, spoiled>>

\* The defaults are staged in the load buffer.  The custom part comes from the
\* handler itself, which is reset in place first and then asked to save; if it
\* cannot, its bytes are zeroed.  The handler then validates what was staged.
ResetStage ==
  /\ pc = "resetStage" /\ HasStorage
  /\ live' = IF HasCustom /\ CustomResets
             THEN [live EXCEPT !["custom"] = Defaults["custom"]] ELSE live
  /\ \/ ~HasCustom /\ staged' = Defaults
     \/ /\ HasCustom
        /\ \E c \in {live'["custom"], Zero} : staged' = [Defaults EXCEPT !["custom"] = c]
  /\ \/ /\ HasCustom => staged'["custom"] \in ValidCustom
        /\ pc' = "resetErase"
        /\ UNCHANGED <<caller, answerVars, hostVars>>
     \/ /\ HasCustom /\ staged'["custom"] \notin ValidCustom
        /\ Returns(FALSE)
  /\ UNCHANGED <<section, storeVars, dirty, due, unread, spoiled>>

ResetStorageCall ==
  /\ \/ pc = "resetErase"   /\ pc' = "resetHeader"
     \/ pc = "resetHeader"  /\ pc' = "resetPayload"
     \/ pc = "resetPayload" /\ pc' = "resetCrc"
  /\ Leaves(AfterCall)
  /\ UNCHANGED <<section, caller, answerVars, hostVars, stored, liveVars>>

ResetCrc ==
  /\ pc = "resetCrc"
  /\ Leaves(AfterCall)
  /\ Seals
  /\ pc' = "resetCommit"
  /\ UNCHANGED <<section, caller, answerVars, hostVars, liveVars>>

\* Only now are the defaults published to the live buffers.
ResetCommit ==
  /\ pc = "resetCommit"
  /\ durable' = work /\ stored' = staged
  /\ live' = staged
  /\ dirty' = FALSE /\ due' = FALSE /\ unread' = FALSE /\ spoiled' = FALSE
  /\ Returns(TRUE)
  /\ UNCHANGED <<section, work, staged>>

\* What a failed call leaves: nothing done, part of its work done, or part of its
\* work done on the provisional record only (EEPROMStorage.erase whose commit
\* fails).
CallCutShort ==
  \/ UNCHANGED <<work, durable>>
  \/ Leaves(TornCall)
  \/ ~WriteThrough /\ work' = TornCall /\ UNCHANGED durable

\* Mutants: a failed storage call is reported as success; it clears dirty_.
StorageCallFails_Unnoticed ==
  /\ pc \in SaveSteps \cup (ResetSteps \ {"resetStage"}) /\ HasStorage
  /\ CallCutShort
  /\ Returns(TRUE)
  /\ section' = 1
  /\ UNCHANGED <<stored, liveVars>>

StorageCallFails_Cleans ==
  /\ pc \in SaveSteps \cup (ResetSteps \ {"resetStage"}) /\ HasStorage
  /\ CallCutShort
  /\ Returns(FALSE)
  /\ section' = 1 /\ dirty' = FALSE /\ due' = FALSE
  /\ UNCHANGED <<stored, live, staged, unread, spoiled>>

\* Any storage call may fail, having done nothing or part of its work, and the
\* save or reset ends there.  A failed commit() selects no new record.
StorageCallFails ==
  /\ \/ pc \in SaveSteps /\ HasStorage
     \/ pc \in ResetSteps \ {"resetStage"}
  /\ CallCutShort
  /\ Returns(FALSE)
  /\ section' = 1
  /\ spoiled' = (~AtomicStorage /\ (spoiled \/ ~dirty))
  /\ UNCHANGED <<stored, live, dirty, due, staged, unread>>

-----------------------------------------------------------------------------
(* The rest of task(), VIA_Protocol.cpp:81-89 *)

\* Mutant: the answer that grants the jump is never sent.
Send_NotBeforeJump ==
  /\ pc = "send"
  /\ responsePending /\ tx = NoTransfer /\ ~bootloaderPending
  /\ tx' = pending.cmd /\ pending' = None
  /\ responsePending' = FALSE
  /\ pc' = "jump"
  /\ UNCHANGED <<section, caller, bootloaderPending, asked, storeVars, liveVars>>

\* send() accepted the answer; the transport holds it until it is transferred.
Send ==
  /\ pc = "send"
  /\ responsePending /\ tx = NoTransfer
  /\ tx' = pending.cmd /\ pending' = None
  /\ responsePending' = FALSE
  /\ pc' = "jump"
  /\ UNCHANGED <<section, caller, bootloaderPending, asked, storeVars, liveVars>>

\* Nothing to send, or send() returned false: the answer is kept for later.
SendNothing ==
  /\ pc = "send"
  /\ pc' = "jump"
  /\ UNCHANGED <<section, caller, answerVars, hostVars, storeVars, liveVars>>

\* Mutants: sendComplete() is not asked, or read the wrong way round.
ReadyToJump_Unconfirmed == ~responsePending /\ bootloaderPending
ReadyToJump_Inverted    == ~responsePending /\ bootloaderPending /\ tx # NoTransfer

ReadyToJump == ~responsePending /\ bootloaderPending /\ tx = NoTransfer

\* callbacks->bootloaderJump().  It may return (the STM32 coordinator defers the
\* jump); leaving the firmware is a PowerLoss.
Jump ==
  /\ pc = "jump" /\ ReadyToJump
  /\ bootloaderPending' = FALSE
  /\ pc' = "autosave"
  /\ UNCHANGED <<section, caller, pending, responsePending, hostVars, storeVars, liveVars>>

NoJump ==
  /\ pc = "jump" /\ ~ReadyToJump
  /\ pc' = "autosave"
  /\ UNCHANGED <<section, caller, answerVars, hostVars, storeVars, liveVars>>

\* Mutant: the sign of the deadline test is wrong.
AutoSave_TooEarly ==
  /\ pc = "autosave" /\ dirty /\ ~due
  /\ caller' = "auto"
  /\ pc' = "saveHeader"
  /\ UNCHANGED <<section, answerVars, hostVars, storeVars, liveVars>>

AutoSave ==
  /\ pc = "autosave" /\ due
  /\ caller' = "auto"
  /\ pc' = "saveHeader"
  /\ UNCHANGED <<section, answerVars, hostVars, storeVars, liveVars>>

NoAutoSave ==
  /\ pc = "autosave" /\ ~due
  /\ pc' = "idle"
  /\ UNCHANGED <<section, caller, answerVars, hostVars, storeVars, liveVars>>

-----------------------------------------------------------------------------
(* Public operations called by the sketch between two tasks *)

AppSave ==
  /\ "save" \in AppCalls /\ pc = "idle"
  /\ caller' = "app" /\ pc' = "saveHeader"
  /\ UNCHANGED <<section, answerVars, hostVars, storeVars, liveVars>>

AppReset ==
  /\ "factoryReset" \in AppCalls /\ pc = "idle"
  /\ caller' = "app" /\ pc' = "resetStage"
  /\ UNCHANGED <<section, answerVars, hostVars, storeVars, liveVars>>

\* load() replaces the live state only when every check passed; a failed load
\* changes nothing and is not a step.
AppLoad ==
  /\ "load" \in AppCalls /\ pc = "idle"
  /\ HasStorage /\ Loadable(work)
  /\ live' = work.body
  /\ dirty' = FALSE /\ due' = FALSE /\ unread' = FALSE /\ spoiled' = FALSE
  /\ UNCHANGED <<controlVars, answerVars, hostVars, storeVars, staged>>

-----------------------------------------------------------------------------
(* Environment *)

\* The auto-save deadline passes.
TimePasses ==
  /\ pc = "idle" /\ dirty /\ ~due
  /\ due' = TRUE
  /\ UNCHANGED <<controlVars, answerVars, hostVars, storeVars, live, dirty, staged, unread, spoiled>>

\* The transport has transferred the answer to the host.
TransferDone ==
  /\ tx # NoTransfer
  /\ tx' = NoTransfer
  /\ asked' = Tail(asked)
  /\ UNCHANGED <<controlVars, answerVars, storeVars, liveVars>>

\* Power is lost, possibly in the middle of a storage call: memory is lost and
\* the adapter will come up with the durable record.
PowerLoss ==
  /\ pc # "off"
  /\ \/ durable' = durable
     \/ pc \in SaveSteps \cup ResetSteps /\ Through /\ durable' = TornCall
  /\ work' = durable'
  /\ pc' = "off" /\ section' = 1 /\ caller' = "auto"
  /\ pending' = None /\ responsePending' = FALSE /\ bootloaderPending' = FALSE
  /\ tx' = NoTransfer /\ asked' = <<>>
  /\ live' = Defaults /\ staged' = Defaults
  /\ dirty' = FALSE /\ due' = FALSE /\ unread' = FALSE /\ spoiled' = FALSE
  /\ UNCHANGED stored

\* begin(): load the record; failing that (bad record, or a failing read) start
\* from the defaults.  Either way the state counts as clean.
BeginLoads ==
  /\ pc = "off"
  /\ HasStorage /\ Loadable(work)
  /\ live' = work.body
  /\ pc' = "idle"
  /\ UNCHANGED <<section, caller, answerVars, hostVars, storeVars, dirty, due, staged, unread, spoiled>>

BeginFallsBack ==
  /\ pc = "off"
  /\ live' = Defaults
  /\ unread' = (HasStorage /\ Loadable(work))
  /\ pc' = "idle"
  /\ UNCHANGED <<section, caller, answerVars, hostVars, storeVars, dirty, due, staged, spoiled>>

-----------------------------------------------------------------------------
Init ==
  /\ live = Defaults /\ staged = Defaults
  /\ dirty = FALSE /\ due = FALSE /\ unread = FALSE /\ spoiled = FALSE
  /\ pc = "off" /\ section = 1 /\ caller = "auto"
  /\ pending = None /\ responsePending = FALSE /\ bootloaderPending = FALSE
  /\ tx = NoTransfer /\ asked = <<>>
  /\ work = Erased /\ durable = Erased
  /\ stored = Defaults

Edits ==
  \/ \E s \in Section, v \in Value : SetSection(s, v)
  \/ ResetKeymap
  \/ ResetMacros

Request ==
  \/ \E c \in Commands, ok \in BOOLEAN : AnswerUnchanged(c, ok)
  \/ Edits
  \/ RequestCommit
  \/ RequestReset
  \/ RequestBootloader

SaveStep  == SaveRefused \/ SaveHeader \/ SaveSection \/ SaveCrc \/ SaveCommit
ResetStep == ResetRefused \/ ResetStage \/ ResetStorageCall \/ ResetCrc \/ ResetCommit
TaskStep  == ReceiveNothing \/ Send \/ SendNothing \/ Jump \/ NoJump \/ AutoSave \/ NoAutoSave
AppStep   == AppSave \/ AppReset \/ AppLoad
Begin     == BeginLoads \/ BeginFallsBack

Next ==
  \/ Request
  \/ SaveStep
  \/ ResetStep
  \/ StorageCallFails
  \/ TaskStep
  \/ AppStep
  \/ TimePasses
  \/ TransferDone
  \/ PowerLoss
  \/ Begin

Spec == Init /\ [][Next]_vars
-----------------------------------------------------------------------------
(* Fairness.  The main loop keeps calling task() (the Arduino loop()), time  *)
(* passes, the host keeps polling the endpoint, and a storage call that is   *)
(* attempted again and again sometimes succeeds.                             *)

Thread == Request \/ SaveStep \/ ResetStep \/ StorageCallFails \/ TaskStep \/ Begin

StorageRecovers ==
  /\ SF_vars(SaveHeader)
  /\ \A i \in 1..Len(Order) : SF_vars(section = i /\ SaveSection)
  /\ SF_vars(SaveCrc)
  /\ SF_vars(SaveCommit)

FairSpec ==
  /\ Spec
  /\ WF_vars(Thread)
  /\ SF_vars(TimePasses)
  /\ SF_vars(Send) /\ WF_vars(TransferDone)
  /\ StorageRecovers

-----------------------------------------------------------------------------
(* Properties *)

\* What the record, the live settings, the request in hand and the steps range over.
TypeOK ==
  /\ live \in Payload /\ staged \in Payload
  /\ dirty \in BOOLEAN /\ due \in BOOLEAN /\ unread \in BOOLEAN /\ spoiled \in BOOLEAN
  /\ pc \in Steps
  /\ section \in 1..Len(Order)
  /\ caller \in {"host", "auto", "app"}
  /\ pending \in Answer \cup {None} /\ tx \in Commands \cup {NoTransfer}
  /\ responsePending \in BOOLEAN /\ bootloaderPending \in BOOLEAN
  /\ asked \in Seq(Commands)
  /\ work \in Record /\ durable \in Record
  /\ stored \in Payload

\* Wherever power is lost or a storage call is cut short, a record that load()
\* accepts holds one whole payload, the last one whose final header was
\* written: never a mixture of two saves.  This is what the two-phase header of
\* writeState() and factoryReset() is for, whatever the checksum's strength.
NeverMixed == Loadable(durable) => durable.body = stored

\* dirty() == false means that a restart brings back exactly the live settings:
\* no edit, failed save or failed reset leaves a clean device whose record
\* differs.  Excepted are a begin() that could not read a good record and, on an
\* adapter without atomic commits, the time of a save or reset itself and a
\* failed one on a clean device: save() then reports FALSE but schedules no retry.
CleanMeansDurable ==
  /\ pc # "off" /\ ~dirty /\ ~unread
  /\ AtomicStorage \/ (pc \notin SaveSteps \cup ResetSteps /\ ~spoiled)
  => Restored(durable) = live

\* A host that is told that its commit or its reset succeeded can cut the power:
\* the record that a restart finds is then the live one, on every adapter.
OkMeansDurable ==
  [][ (~responsePending /\ responsePending' /\ pending'.ok
        /\ pending'.cmd \in {"commit", "reset"})
      => Restored(durable') = live' ]_vars

\* Every request taken is answered once, in order: what has been asked and not
\* yet heard is the answer in transfer followed by the one being prepared.
AnswersInOrder ==
  asked = (IF tx = NoTransfer THEN <<>> ELSE <<tx>>)
            \o (IF pending = None THEN <<>> ELSE <<pending.cmd>>)

\* The device leaves for the bootloader only when the host has received every
\* answer, the one that granted the jump included, and no edit is unsaved.
JumpIsAnnounced == [][Jump => asked = <<>> /\ ~dirty]_vars

\* PORTING.md: the reset publishes live state only after commit() succeeded.
ResetPublishesAfterCommit ==
  [][ (pc \in ResetSteps /\ pc' # "off" /\ live' # live)
      => Loadable(durable') /\ Restored(durable') = live' ]_vars

\* The host cannot starve the auto-save except by editing for ever: an unsaved
\* edit is saved in the end, however often the storage fails in between.
EventuallySaved == []<>(~dirty) \/ []<><<Edits>>_vars

\* A granted bootloader request ends in the jump (or in a loss of power), and
\* no answer is kept for ever.
GrantedJumpHappens == bootloaderPending ~> ~bootloaderPending
EveryAnswerSent    == responsePending ~> ~responsePending
=============================================================================
