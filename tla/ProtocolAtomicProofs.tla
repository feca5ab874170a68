------------------------- MODULE ProtocolAtomicProofs -------------------------
(***************************************************************************)
(* On a storage adapter with atomic commits Protocol implements            *)
(* SettingsStore.                                                          *)
(*                                                                         *)
(* The hypotheses are gathered in CarefulDevice.  Each is needed: dropping *)
(* one of them TLC finds a device that calls itself clean and forgets its  *)
(* settings at the next restart.                                           *)
(***************************************************************************)
EXTENDS ProtocolProofs

USE DEF Payload

CarefulDevice == AtomicStorage /\ CleanDevice

\* What a reset stages differs from the defaults in the custom state only, and a
\* device that is off has nothing unsaved.
FreshInv ==
  /\ pc \in ResetSteps \ {"resetStage"} => staged \in FreshPayload
  /\ pc = "off" => ~dirty

LEMMA CarefulFacts == CarefulDevice => "load" \notin AppCalls /\ ~CustomResets /\ SoundDefaults
BY DEF CarefulDevice, CleanDevice, AtomicStorage

\* On such a device no storage call but commit() touches the durable record.
LEMMA NotThrough ==
  ASSUME CarefulDevice
  PROVE  ~Through
BY DEF CarefulDevice, AtomicStorage, Through

-----------------------------------------------------------------------------
(* How each step changes the settings, the record and dirty *)

\* The steps that neither change settings nor record: most of them.
Quiet == UNCHANGED <<live, durable, dirty, unread>> /\ pc # "off" /\ pc' # "off"

LEMMA SaveEffect ==
  ASSUME CarefulDevice, SaveStep
  PROVE  \/ Quiet /\ UNCHANGED staged /\ pc' \notin ResetSteps
         \/ SaveCommit /\ pc' \in {"send", "idle"}
<1>1. CASE SaveCommit
  BY <1>1 DEF SaveCommit, Returns
<1>2. CASE SaveRefused
  BY <1>2 DEF SaveRefused, Returns, Quiet, storeVars, liveVars, ResetSteps
<1>3. CASE SaveHeader \/ SaveSection \/ SaveCrc
  <2>1. durable' = durable
    BY <1>3, NotThrough DEF SaveHeader, SaveSection, SaveCrc, Leaves
  <2> QED BY <1>3, <2>1 DEF SaveHeader, SaveSection, SaveCrc, Quiet, liveVars, ResetSteps
<1> QED BY <1>1, <1>2, <1>3 DEF SaveStep

LEMMA ResetEffect ==
  ASSUME CarefulDevice, Inv, ResetStep
  PROVE  \/ Quiet /\ (UNCHANGED staged \/ ResetStage)
                  /\ (pc' \in ResetSteps => ResetStage \/ pc \in ResetSteps \ {"resetStage"})
         \/ ResetCommit /\ pc' \in {"send", "idle"}
<1>1. CASE ResetCommit
  BY <1>1 DEF ResetCommit, Returns
<1>2. CASE ResetRefused
  BY <1>2 DEF ResetRefused, Returns, Quiet, storeVars, liveVars, ResetSteps
<1>3. CASE ResetStage
  <2>1. live' = live
    BY <1>3, CarefulFacts DEF ResetStage
  <2> QED BY <1>3, <2>1 DEF ResetStage, Returns, Quiet, storeVars, ResetSteps
<1>4. CASE ResetStorageCall \/ ResetCrc
  <2>1. durable' = durable
    BY <1>4, NotThrough DEF ResetStorageCall, ResetCrc, Leaves
  <2> QED BY <1>4, <2>1 DEF ResetStorageCall, ResetCrc, Quiet, liveVars, ResetSteps
<1> QED BY <1>1, <1>2, <1>3, <1>4 DEF ResetStep

LEMMA FailEffect ==
  ASSUME CarefulDevice, StorageCallFails
  PROVE  Quiet /\ UNCHANGED staged /\ pc' \notin ResetSteps
<1>1. durable' = durable
  BY NotThrough DEF StorageCallFails, CallCutShort, Leaves
<1> QED BY <1>1 DEF StorageCallFails, Returns, Quiet, SaveSteps, ResetSteps

LEMMA OtherEffect ==
  ASSUME CarefulDevice, TaskStep \/ AppStep \/ TimePasses \/ TransferDone
  PROVE  Quiet \/ (TransferDone /\ UNCHANGED <<live, staged, durable, dirty, unread, pc>>)
BY CarefulFacts DEF TaskStep, ReceiveNothing, Send, SendNothing, Jump, NoJump, AutoSave,
       NoAutoSave, AppStep, AppSave, AppReset, AppLoad, TimePasses, TransferDone, Quiet,
       storeVars, liveVars, controlVars

LEMMA OtherStaged ==
  ASSUME CarefulDevice, TaskStep \/ AppStep \/ TimePasses
  PROVE  UNCHANGED staged /\ (pc' \in ResetSteps => pc' = "resetStage")
BY CarefulFacts DEF TaskStep, ReceiveNothing, Send, SendNothing, Jump, NoJump, AutoSave,
       NoAutoSave, AppStep, AppSave, AppReset, AppLoad, TimePasses, ResetSteps,
       storeVars, liveVars, controlVars

\* A request either edits, or leaves the settings alone.
LEMMA RequestEffect ==
  ASSUME CarefulDevice, Inv, Request
  PROVE  /\ UNCHANGED <<durable, staged>> /\ pc # "off" /\ pc' # "off"
         /\ pc' \in ResetSteps => pc' = "resetStage"
         /\ dirty' \/ Quiet
         /\ live' \in Payload
<1>1. TypeOK
  BY DEF Inv, ControlInv
<1>2. CASE Edits
  <2>1. UNCHANGED <<durable, staged>> /\ pc = "idle" /\ pc' = "send" /\ dirty'
    BY <1>2 DEF Edits, SetSection, ResetKeymap, ResetMacros, Answers, ReadyForRequest,
                MarkDirty, storeVars
  <2>2. live' \in Payload
    <3>1. CASE \E s \in Section, v \in Value : SetSection(s, v)
      <4>1. PICK s \in Section, v \in Value : SetSection(s, v)
        BY <3>1
      <4> QED BY <1>1, <4>1 DEF SetSection, TypeOK
    <3>2. CASE ResetKeymap
      BY <1>1, <3>2, ValueAssumption DEF ResetKeymap, TypeOK
    <3>3. CASE ResetMacros
      BY <1>1, <3>3, ValueAssumption DEF ResetMacros, TypeOK
    <3> QED BY <1>2, <3>1, <3>2, <3>3 DEF Edits
  <2> QED BY <2>1, <2>2 DEF ResetSteps
<1>3. CASE ~Edits
  <2>1. UNCHANGED <<durable, staged, live, dirty, unread>> /\ pc = "idle"
        /\ pc' \in {"send", "saveHeader", "resetStage"}
    BY <1>3 DEF Request, AnswerUnchanged, Answers, RequestCommit, RequestReset,
                RequestBootloader, BeginStorageRequest, ReadyForRequest, storeVars, liveVars
  <2> QED BY <1>1, <2>1 DEF Quiet, ResetSteps, TypeOK
<1> QED BY <1>2, <1>3

-----------------------------------------------------------------------------
(* Every step keeps FreshInv *)

\* A step that is quiet and enters no reset cannot disturb FreshInv.
LEMMA QuietFresh ==
  ASSUME FreshInv, Quiet, UNCHANGED staged,
         pc' \in ResetSteps => pc' = "resetStage" \/ pc \in ResetSteps \ {"resetStage"}
  PROVE  FreshInv'
BY DEF FreshInv, Quiet

LEMMA FreshStaged ==
  ASSUME CarefulDevice, Inv, ResetStage
  PROVE  staged' \in FreshPayload
<1>1. TypeOK
  BY DEF Inv, ControlInv
<1>2. CASE HasCustom
  <2>1. live' = live
    BY CarefulFacts DEF ResetStage
  <2>2. PICK c \in {live["custom"], Zero} : staged' = [Defaults EXCEPT !["custom"] = c]
    BY <1>2, <2>1 DEF ResetStage
  <2>3. c \in Value
    BY <1>1, <1>2, ValueAssumption DEF TypeOK, HasCustom
  <2> QED BY <2>2, <2>3, ValueAssumption DEF FreshPayload
<1>3. CASE ~HasCustom
  BY <1>3, ValueAssumption DEF ResetStage, FreshPayload
<1> QED BY <1>2, <1>3

LEMMA FreshNext ==
  ASSUME CarefulDevice, Inv, FreshInv, [Next]_vars
  PROVE  FreshInv'
<1>1. CASE SaveStep
  <2>1. CASE SaveCommit /\ pc' \in {"send", "idle"}
    BY <2>1 DEF FreshInv, ResetSteps
  <2> QED BY <1>1, <2>1, SaveEffect, QuietFresh
<1>2. CASE ResetStep
  <2>1. CASE ResetCommit /\ pc' \in {"send", "idle"}
    BY <2>1 DEF FreshInv, ResetSteps
  <2>2. CASE Quiet /\ UNCHANGED staged
             /\ (pc' \in ResetSteps => pc \in ResetSteps \ {"resetStage"})
    BY <2>2, QuietFresh
  <2>3. CASE Quiet /\ ResetStage
    BY <2>3, FreshStaged DEF FreshInv, Quiet
  <2> QED BY <1>2, <2>1, <2>2, <2>3, ResetEffect
<1>3. CASE Request
  BY <1>3, RequestEffect DEF FreshInv
<1>4. CASE StorageCallFails
  BY <1>4, FailEffect, QuietFresh
<1>5. CASE TaskStep \/ AppStep \/ TimePasses
  <2>1. CASE Quiet
    BY <1>5, <2>1, OtherStaged, QuietFresh
  <2>2. CASE ~Quiet
    BY <1>5, <2>2, OtherEffect DEF FreshInv
  <2> QED BY <2>1, <2>2
<1>6. CASE TransferDone
  BY <1>6 DEF TransferDone, controlVars, liveVars, FreshInv
<1>7. CASE PowerLoss
  BY <1>7 DEF PowerLoss, FreshInv, ResetSteps
<1>8. CASE Begin
  BY <1>8 DEF Begin, BeginLoads, BeginFallsBack, FreshInv, ResetSteps
<1>9. CASE UNCHANGED vars
  BY <1>9 DEF vars, controlVars, liveVars, FreshInv
<1> QED BY <1>1, <1>2, <1>3, <1>4, <1>5, <1>6, <1>7, <1>8, <1>9 DEF Next

-----------------------------------------------------------------------------
(* Protocol implements SettingsStore *)

LEMMA ViewInit ==
  ASSUME Init
  PROVE  Settings!Init
<1>1. Restored(durable) = Defaults
  <2>1. ~Loadable(Erased)
    BY HeaderRejected, ErasedType DEF Erased
  <2> QED BY <2>1 DEF Init, Restored
<1> QED BY <1>1 DEF Init, Settings!Init, LiveView

\* A step between two steps of a running device that leaves settings, record and
\* dirty alone is invisible in SettingsStore.
LEMMA QuietStutters ==
  ASSUME Quiet
  PROVE  UNCHANGED <<LiveView, Restored(durable), dirty>>
BY DEF Quiet, LiveView, Restored, Loadable

LEMMA SaveRefines ==
  ASSUME CarefulDevice, Inv, DeviceInv, FreshInv, SaveStep
  PROVE  Settings!Save \/ UNCHANGED <<LiveView, Restored(durable), dirty>>
<1>1. CASE SaveCommit /\ pc' \in {"send", "idle"}
  <2>1. durable' = work /\ live' = live /\ pc = "saveCommit" /\ dirty' = FALSE
    BY <1>1 DEF SaveCommit
  <2>2. Restored(durable)' = live
    BY <2>1, CommitStores, CarefulFacts DEF Restored, Loadable
  <2>3. LiveView = live /\ LiveView' = live
    BY <1>1, <2>1 DEF LiveView
  <2> QED BY <2>1, <2>2, <2>3 DEF Settings!Save
<1> QED BY <1>1, SaveEffect, QuietStutters

LEMMA ResetRefines ==
  ASSUME CarefulDevice, Inv, DeviceInv, FreshInv, ResetStep
  PROVE  Settings!Reset \/ UNCHANGED <<LiveView, Restored(durable), dirty>>
<1>1. CASE ResetCommit /\ pc' \in {"send", "idle"}
  <2>1. durable' = work /\ live' = staged /\ pc = "resetCommit" /\ dirty' = FALSE
    BY <1>1 DEF ResetCommit
  <2>2. Restored(durable)' = staged
    BY <2>1, CommitStores, CarefulFacts DEF Restored, Loadable
  <2>3. LiveView' = staged /\ staged \in FreshPayload
    BY <1>1, <2>1 DEF LiveView, FreshInv, ResetSteps
  <2> QED BY <2>1, <2>2, <2>3 DEF Settings!Reset
<1> QED BY <1>1, ResetEffect, QuietStutters

LEMMA RequestRefines ==
  ASSUME CarefulDevice, Inv, DeviceInv, FreshInv, Request
  PROVE  Settings!Edit \/ UNCHANGED <<LiveView, Restored(durable), dirty>>
<1>1. /\ durable' = durable /\ pc # "off" /\ pc' # "off"
      /\ dirty' \/ Quiet
      /\ live' \in Payload
  BY RequestEffect
<1>2. CASE Quiet
  BY <1>2, QuietStutters
<1>3. CASE dirty' = TRUE
  <2>1. LiveView' \in Payload /\ UNCHANGED Restored(durable)
    BY <1>1 DEF LiveView, Restored, Loadable
  <2> QED BY <1>3, <2>1 DEF Settings!Edit
<1>4. dirty' \in BOOLEAN
  BY InvNext DEF Inv, ControlInv, TypeOK, Next
<1> QED BY <1>1, <1>2, <1>3, <1>4

LEMMA OutsideRefines ==
  ASSUME CarefulDevice, Inv, DeviceInv, FreshInv,
         TaskStep \/ AppStep \/ TimePasses \/ TransferDone \/ PowerLoss \/ Begin
  PROVE  Settings!Restart \/ UNCHANGED <<LiveView, Restored(durable), dirty>>
<1>1. CASE TaskStep \/ AppStep \/ TimePasses \/ TransferDone
  BY <1>1, OtherEffect, QuietStutters DEF LiveView, Restored, Loadable
<1>2. CASE PowerLoss
  <2>1. durable' = durable /\ pc' = "off" /\ dirty' = FALSE
    BY <1>2, NotThrough DEF PowerLoss
  <2>2. UNCHANGED Restored(durable) /\ LiveView' = Restored(durable)
    BY <2>1 DEF LiveView, Restored, Loadable
  <2> QED BY <2>1, <2>2 DEF Settings!Restart
<1>3. CASE Begin
  <2>1. durable' = durable /\ dirty' = dirty /\ pc = "off" /\ pc' = "idle"
    BY <1>3 DEF Begin, BeginLoads, BeginFallsBack, storeVars
  <2>2. dirty = FALSE /\ durable = work
    BY <2>1 DEF FreshInv, Inv, ControlInv, TypeOK, RecordInv, WholeInv
  <2>3. LiveView' \in {Restored(durable), Defaults}
    BY <1>3, <2>1, <2>2 DEF Begin, BeginLoads, BeginFallsBack, LiveView, Restored
  <2>4. UNCHANGED Restored(durable)
    BY <2>1 DEF Restored, Loadable
  <2> QED BY <2>1, <2>2, <2>3, <2>4 DEF Settings!Restart
<1> QED BY <1>1, <1>2, <1>3

LEMMA NextRefines ==
  ASSUME CarefulDevice, Inv, DeviceInv, FreshInv, [Next]_vars
  PROVE  [Settings!Next]_<<LiveView, Restored(durable), dirty>>
<1>1. CASE StorageCallFails
  BY <1>1, FailEffect, QuietStutters
<1>2. CASE UNCHANGED vars
  BY <1>2 DEF vars, controlVars, storeVars, liveVars, LiveView, Restored, Loadable
<1> QED BY <1>1, <1>2, SaveRefines, ResetRefines, RequestRefines, OutsideRefines
        DEF Next, Settings!Next

\* On such a device Protocol implements SettingsStore: what a restart brings back
\* changes in one step, only by a save or reset that succeeded, to exactly the
\* live settings.
THEOREM SettingsRefined ==
  ASSUME CarefulDevice
  PROVE  Spec => RefinesSettingsStore
<1>1. Init => FreshInv /\ Settings!Init
  BY ViewInit DEF Init, FreshInv, ResetSteps
<1>2. Inv /\ FreshInv /\ [Next]_vars => FreshInv'
  BY FreshNext
<1>3. Inv /\ DeviceInv /\ FreshInv /\ [Next]_vars
        => [Settings!Next]_<<LiveView, Restored(durable), dirty>>
  BY NextRefines
<1> QED BY <1>1, <1>2, <1>3, DeviceInvariance, Invariance, PTL DEF Spec, RefinesSettingsStore, Settings!Spec
=============================================================================
