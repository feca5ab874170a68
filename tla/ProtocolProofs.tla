---------------------------- MODULE ProtocolProofs ----------------------------
(***************************************************************************)
(* Theorems about Protocol and ProtocolRefinement, for every set of        *)
(* sections, every contents and every checksum that is never zero.         *)
(*                                                                         *)
(* NeverMixed is not inductive: that a sealed record is whole depends on   *)
(* how far the save or reset has come.  RecordInv adds, for each point of  *)
(* writeState() and factoryReset(), what the record holds there.           *)
(* DeviceInv and CleanInv, after it, are about what a restart brings back. *)
(***************************************************************************)
EXTENDS ProtocolRefinement, SequenceTheorems, TLAPS

USE DEF Image, Payload, Record

-----------------------------------------------------------------------------
(* Constants *)

LEMMA SectionOfIndex == \A i \in 1..Len(Order) : Order[i] \in Section
BY DEF Section

LEMMA OrderFacts == Len(Order) \in Nat /\ Len(Order) >= 1
<1>1. Len(Order) \in Nat
  BY OrderAssumption
<1>2. "keymap" \in Section
  BY OrderAssumption
<1>3. \E i \in 1..Len(Order) : Order[i] = "keymap"
  BY <1>2 DEF Section
<1> QED BY <1>1, <1>3

LEMMA PayloadIsImage == Payload \subseteq Image
OBVIOUS

LEMMA CrcOfPayload == \A p \in Payload : Crc(p) \in CrcValue /\ Crc(p) # 0
BY CrcAssumption, PayloadIsImage

\* A blank or zeroed header is never accepted by load().
LEMMA HeaderRejected ==
  ASSUME NEW r \in Record, r.crc \in {NoHeader, 0}
  PROVE  ~Loadable(r)
<1>1. r.body \in Image
  OBVIOUS
<1>2. Crc(r.body) \in CrcValue /\ Crc(r.body) # 0
  BY <1>1, CrcAssumption
<1> QED BY <1>2, CrcAssumption DEF Loadable

\* A record that holds a payload is loaded as that payload.
LEMMA LoadablePayload ==
  ASSUME NEW r \in Record, NEW p \in Payload, r.body = p, r.crc = Crc(p),
         HasCustom => p["custom"] \in ValidCustom
  PROVE  Loadable(r)
BY DEF Loadable

-----------------------------------------------------------------------------
(* Types *)

LEMMA ErasedType == Erased \in Record
BY ValueAssumption DEF Erased

LEMMA CallTypes ==
  ASSUME TypeOK
  PROVE  AfterCall \in Record /\ TornCall \in Record /\ Source \in Payload
<1> USE DEF TypeOK
<1>1. Source \in Payload
  BY DEF Source
<1>2. Crc(Source) \in CrcValue
  BY <1>1, CrcOfPayload
<1>3. Order[section] \in Section
  BY SectionOfIndex
<1>4. PutCrc(work, 0) \in Record /\ PutCrc(work, NoHeader) \in Record
      /\ PutCrc(work, Crc(Source)) \in Record
  BY <1>2, CrcAssumption DEF PutCrc
<1>5. live[Order[section]] \in Value \cup {Junk} /\ Junk \in Value \cup {Junk}
  BY <1>3
<1>6. \A v \in Value \cup {Junk} : PutSection(work, Order[section], v) \in Record
  BY <1>3 DEF PutSection
<1>7. [work EXCEPT !.body = staged] \in Record
      /\ [work EXCEPT !.body = [s \in Section |-> Junk]] \in Record
  OBVIOUS
<1>8. AfterCall \in Record
  BY <1>4, <1>5, <1>6, <1>7, ErasedType DEF AfterCall
<1>9. TornCall \in Record
  BY <1>4, <1>5, <1>6, <1>7, ErasedType DEF TornCall
<1> QED BY <1>1, <1>8, <1>9

LEMMA TypeInit == Init => TypeOK
<1> SUFFICES ASSUME Init PROVE TypeOK
  OBVIOUS
<1>1. live \in Payload /\ staged \in Payload /\ stored \in Payload
  BY ValueAssumption DEF Init
<1>2. work \in Record /\ durable \in Record
  BY ErasedType DEF Init
<1>3. section \in 1..Len(Order)
  BY OrderFacts DEF Init
<1>4. pending \in Answer \cup {None} /\ tx \in Commands \cup {NoTransfer}
  BY DEF Init
<1>5. asked \in Seq(Commands)
  BY DEF Init
<1> QED
  BY <1>1, <1>2, <1>3, <1>4, <1>5 DEF Init, TypeOK, Steps

-----------------------------------------------------------------------------
(* Answers: type correctness needs to know when there is one *)

Busy == pc \in SaveSteps \cup ResetSteps

\* An answer exists exactly while it waits to be sent or is being worked out.
AnswerExists == responsePending \/ (Busy /\ caller = "host")

AnswerInv ==
  /\ AnswersInOrder
  /\ AnswerExists => pending \in Answer
  /\ ~AnswerExists => pending = None

ControlInv == TypeOK /\ AnswerInv

LEMMA AppendConcat ==
  ASSUME NEW S, NEW s \in Seq(S), NEW e \in S
  PROVE  Append(s, e) = s \o <<e>>
<1>1. Append(s, e) \in Seq(S) /\ Len(Append(s, e)) = Len(s) + 1
  OBVIOUS
<1>2. s \o <<e>> \in Seq(S) /\ Len(s \o <<e>>) = Len(s) + 1
  OBVIOUS
<1>3. \A i \in 1..Len(s) + 1 : Append(s, e)[i] = (s \o <<e>>)[i]
  OBVIOUS
<1> QED BY <1>1, <1>2, <1>3, SeqEqual

LEMMA TailConcat ==
  ASSUME NEW S, NEW s \in Seq(S), NEW e \in S
  PROVE  Tail(<<e>> \o s) = s
<1>1. <<e>> \o s \in Seq(S) /\ Len(<<e>> \o s) = Len(s) + 1 /\ <<e>> \o s # <<>>
  OBVIOUS
<1>2. Tail(<<e>> \o s) \in Seq(S) /\ Len(Tail(<<e>> \o s)) = Len(s)
  BY <1>1, HeadTailProperties
<1>3. \A i \in 1..Len(s) : (<<e>> \o s)[i + 1] = s[i]
  OBVIOUS
<1>4. \A i \in 1..Len(s) : Tail(<<e>> \o s)[i] = s[i]
  BY <1>1, <1>2, <1>3, HeadTailProperties
<1> QED BY <1>2, <1>4, SeqEqual

LEMMA ReturnsAnswer ==
  ASSUME ControlInv, Busy, NEW ok \in BOOLEAN, Returns(ok), section' \in 1..Len(Order)
  PROVE  /\ pc' \in {"send", "idle"} /\ caller' = "auto"
         /\ responsePending' \in BOOLEAN /\ bootloaderPending' \in BOOLEAN
         /\ pending' \in Answer \cup {None} /\ pending'.cmd = pending.cmd
         /\ tx' = tx /\ asked' = asked
         /\ AnswerInv'
<1> USE DEF ControlInv, TypeOK
<1>1. CASE caller = "host"
  <2>1. pending \in Answer
    BY <1>1 DEF AnswerInv, AnswerExists
  <2>2. pending' = [pending EXCEPT !.ok = ok] /\ responsePending' /\ pc' = "send"
        /\ bootloaderPending' \in BOOLEAN /\ UNCHANGED hostVars /\ caller' = "auto"
    BY <1>1 DEF Returns
  <2>3. pending' \in Answer /\ pending'.cmd = pending.cmd
    BY <2>1, <2>2 DEF Answer
  <2>4. pending # None /\ pending' # None
    BY <2>1, <2>3 DEF Answer, None, Commands
  <2>5. tx' = tx /\ asked' = asked
    BY <2>2 DEF hostVars
  <2>6. AnswersInOrder'
    BY <2>3, <2>4, <2>5 DEF AnswerInv, AnswersInOrder
  <2> QED
    BY <2>2, <2>3, <2>5, <2>6 DEF AnswerInv, AnswerExists
<1>2. CASE caller # "host"
  <2>1. UNCHANGED answerVars /\ UNCHANGED hostVars /\ pc' = "idle" /\ caller' = "auto"
    BY <1>2 DEF Returns
  <2>2. ~Busy'
    BY <2>1 DEF Busy, SaveSteps, ResetSteps
  <2> QED
    BY <1>2, <2>1, <2>2 DEF AnswerInv, AnswerExists, AnswersInOrder, answerVars, hostVars
<1> QED BY <1>1, <1>2

\* Taking a request appends it to what the host waits for.
LEMMA RequestTaken ==
  ASSUME ControlInv, ReadyForRequest, NEW c \in Commands, NEW ok \in BOOLEAN,
         pending' = [cmd |-> c, ok |-> ok], asked' = Append(asked, c), tx' = tx,
         AnswerExists'
  PROVE  AnswerInv' /\ pending' \in Answer /\ asked' \in Seq(Commands)
<1> USE DEF ControlInv, TypeOK
<1>1. ~AnswerExists
  BY DEF ReadyForRequest, AnswerExists, Busy, SaveSteps, ResetSteps
<1>2. pending = None
  BY <1>1 DEF AnswerInv
<1>3. pending' \in Answer
  BY DEF Answer
<1>4. pending' # None /\ pending'.cmd = c
  BY DEF None, Commands
<1>5. asked = (IF tx = NoTransfer THEN <<>> ELSE <<tx>>) \o <<>>
  BY <1>2 DEF AnswerInv, AnswersInOrder
<1>6. asked = IF tx = NoTransfer THEN <<>> ELSE <<tx>>
  <2>1. (IF tx = NoTransfer THEN <<>> ELSE <<tx>>) \in Seq(Commands)
    OBVIOUS
  <2> QED BY <1>5, <2>1, ConcatEmptySeq
<1>7. asked' = asked \o <<c>> /\ asked' \in Seq(Commands)
  BY AppendConcat
<1>8. AnswersInOrder'
  BY <1>4, <1>6, <1>7 DEF AnswersInOrder
<1> QED BY <1>3, <1>7, <1>8 DEF AnswerInv

-----------------------------------------------------------------------------
(* Every step keeps ControlInv *)

LEMMA LeavesType ==
  ASSUME TypeOK, NEW r \in Record, Leaves(r)
  PROVE  work' \in Record /\ durable' \in Record
BY DEF TypeOK, Leaves, Through

LEMMA SealsType ==
  ASSUME TypeOK, Seals
  PROVE  stored' \in Payload
BY CallTypes DEF TypeOK, Seals

\* Steps that leave the answers and the host alone, outside host's storage work.
LEMMA AnswerUnchangedInv ==
  ASSUME AnswerInv, UNCHANGED <<answerVars, hostVars>>, AnswerExists' <=> AnswerExists
  PROVE  AnswerInv'
BY DEF AnswerInv, AnswersInOrder, answerVars, hostVars

LEMMA ControlInit == Init => ControlInv
<1> SUFFICES ASSUME Init PROVE ControlInv
  OBVIOUS
<1>1. TypeOK
  BY TypeInit
<1>2. pending = None /\ ~AnswerExists /\ tx = NoTransfer /\ asked = <<>>
  BY DEF Init, AnswerExists, Busy, SaveSteps, ResetSteps
<1> QED BY <1>1, <1>2 DEF ControlInv, AnswerInv, AnswersInOrder

LEMMA RequestControl ==
  ASSUME ControlInv, Request
  PROVE  ControlInv'
<1> USE DEF ControlInv
<1>1. ASSUME NEW c \in Commands, NEW ok \in BOOLEAN, Answers(c, ok),
             live' \in Payload, dirty' \in BOOLEAN, due' \in BOOLEAN
      PROVE  ControlInv'
  <2>1. AnswerExists'
    BY <1>1 DEF Answers, AnswerExists
  <2>2. AnswerInv' /\ pending' \in Answer /\ asked' \in Seq(Commands)
    BY <1>1, <2>1, RequestTaken DEF Answers
  <2>3. TypeOK'
    BY <1>1, <2>2 DEF Answers, TypeOK, storeVars, Steps
  <2> QED BY <2>2, <2>3
<1>2. ASSUME NEW c \in Commands, NEW step \in {"saveHeader", "resetStage"},
             BeginStorageRequest(c, step)
      PROVE  ControlInv'
  <2>1. AnswerExists'
    BY <1>2 DEF BeginStorageRequest, AnswerExists, Busy, SaveSteps, ResetSteps
  <2>2. AnswerInv' /\ pending' \in Answer /\ asked' \in Seq(Commands)
    BY <1>2, <2>1, RequestTaken DEF BeginStorageRequest
  <2>3. TypeOK'
    BY <1>2, <2>2 DEF BeginStorageRequest, TypeOK, storeVars, liveVars, Steps, SaveSteps, ResetSteps
  <2> QED BY <2>2, <2>3
<1>3. CASE \E c \in Commands, ok \in BOOLEAN : AnswerUnchanged(c, ok)
  BY <1>1, <1>3 DEF AnswerUnchanged, TypeOK
<1>4. CASE \E s \in Section, v \in Value : SetSection(s, v)
  <2>1. PICK s \in Section, v \in Value : SetSection(s, v)
    BY <1>4
  <2>2. live' \in Payload /\ dirty' \in BOOLEAN /\ due' \in BOOLEAN /\ Answers("edit", TRUE)
    BY <2>1 DEF SetSection, MarkDirty, TypeOK
  <2> QED BY <1>1, <2>2 DEF Commands
<1>5. CASE ResetKeymap
  <2>1. live' \in Payload /\ dirty' \in BOOLEAN /\ due' \in BOOLEAN /\ Answers("edit", TRUE)
    BY <1>5, ValueAssumption DEF ResetKeymap, MarkDirty, TypeOK
  <2> QED BY <1>1, <2>1 DEF Commands
<1>6. CASE ResetMacros
  <2>1. live' \in Payload /\ dirty' \in BOOLEAN /\ due' \in BOOLEAN /\ Answers("edit", TRUE)
    BY <1>6, ValueAssumption DEF ResetMacros, MarkDirty, TypeOK
  <2> QED BY <1>1, <2>1 DEF Commands
<1>7. CASE RequestCommit \/ RequestReset \/ RequestBootloader
  BY <1>2, <1>7 DEF RequestCommit, RequestReset, RequestBootloader, Commands
<1> QED BY <1>3, <1>4, <1>5, <1>6, <1>7 DEF Request, Edits

LEMMA SaveControl ==
  ASSUME ControlInv, SaveStep
  PROVE  ControlInv'
<1> USE DEF ControlInv
<1>1. CASE SaveRefused
  <2>1. Busy /\ section' = section /\ Returns(FALSE)
    BY <1>1 DEF SaveRefused, Busy, SaveSteps
  <2>2. section' \in 1..Len(Order)
    BY <2>1 DEF TypeOK
  <2>3. AnswerInv' /\ pc' \in {"send", "idle"} /\ caller' = "auto" /\ pending' \in Answer \cup {None}
        /\ responsePending' \in BOOLEAN /\ bootloaderPending' \in BOOLEAN
        /\ tx' = tx /\ asked' = asked
    BY <2>1, <2>2, ReturnsAnswer
  <2> QED BY <1>1, <2>2, <2>3 DEF SaveRefused, TypeOK, storeVars, liveVars, Steps
<1>2. CASE SaveHeader
  <2>1. work' \in Record /\ durable' \in Record
    BY <1>2, CallTypes, LeavesType DEF SaveHeader
  <2>2. AnswerInv'
    BY <1>2, AnswerUnchangedInv DEF SaveHeader, AnswerExists, Busy, SaveSteps, ResetSteps, answerVars
  <2> QED BY <1>2, <2>1, <2>2, OrderFacts
          DEF SaveHeader, TypeOK, answerVars, hostVars, liveVars, Steps, SaveSteps
<1>3. CASE SaveSection
  <2>1. work' \in Record /\ durable' \in Record
    BY <1>3, CallTypes, LeavesType DEF SaveSection
  <2>2. pc' \in SaveSteps /\ pc \in SaveSteps /\ section' \in 1..Len(Order)
    BY <1>3, OrderFacts DEF SaveSection, TypeOK, SaveSteps
  <2>3. AnswerInv'
    BY <1>3, <2>2, AnswerUnchangedInv DEF SaveSection, AnswerExists, Busy, answerVars
  <2> QED BY <1>3, <2>1, <2>2, <2>3
          DEF SaveSection, TypeOK, answerVars, hostVars, liveVars, Steps
<1>4. CASE SaveCrc
  <2>1. work' \in Record /\ durable' \in Record /\ stored' \in Payload
    BY <1>4, CallTypes, LeavesType, SealsType DEF SaveCrc
  <2>2. AnswerInv'
    BY <1>4, AnswerUnchangedInv DEF SaveCrc, AnswerExists, Busy, SaveSteps, ResetSteps, answerVars
  <2> QED BY <1>4, <2>1, <2>2
          DEF SaveCrc, TypeOK, answerVars, hostVars, liveVars, Steps, SaveSteps
<1>5. CASE SaveCommit
  <2>1. Busy /\ section' = section /\ Returns(TRUE)
    BY <1>5 DEF SaveCommit, Busy, SaveSteps
  <2>2. section' \in 1..Len(Order)
    BY <2>1 DEF TypeOK
  <2>3. AnswerInv' /\ pc' \in {"send", "idle"} /\ caller' = "auto" /\ pending' \in Answer \cup {None}
        /\ responsePending' \in BOOLEAN /\ bootloaderPending' \in BOOLEAN
        /\ tx' = tx /\ asked' = asked
    BY <2>1, <2>2, ReturnsAnswer
  <2> QED BY <1>5, <2>2, <2>3 DEF SaveCommit, TypeOK, Steps
<1> QED BY <1>1, <1>2, <1>3, <1>4, <1>5 DEF SaveStep

LEMMA ResetControl ==
  ASSUME ControlInv, ResetStep
  PROVE  ControlInv'
<1> USE DEF ControlInv
<1>1. CASE ResetRefused
  <2>1. Busy /\ section' = section /\ Returns(FALSE)
    BY <1>1 DEF ResetRefused, Busy, ResetSteps
  <2>2. section' \in 1..Len(Order)
    BY <2>1 DEF TypeOK
  <2>3. AnswerInv' /\ pc' \in {"send", "idle"} /\ caller' = "auto" /\ pending' \in Answer \cup {None}
        /\ responsePending' \in BOOLEAN /\ bootloaderPending' \in BOOLEAN
        /\ tx' = tx /\ asked' = asked
    BY <2>1, <2>2, ReturnsAnswer
  <2> QED BY <1>1, <2>2, <2>3 DEF ResetRefused, TypeOK, storeVars, liveVars, Steps
<1>2. CASE ResetStage
  <2>1. Busy /\ section' = section /\ UNCHANGED <<storeVars, dirty, due, unread, spoiled>>
    BY <1>2 DEF ResetStage, Busy, ResetSteps
  <2>2. live' \in Payload
    BY <1>2, ValueAssumption DEF ResetStage, TypeOK, HasCustom
  <2>3. staged' \in Payload
    <3>1. CASE HasCustom
      <4>1. live'["custom"] \in Value /\ Zero \in Value
        BY <2>2, <3>1, ValueAssumption DEF HasCustom
      <4> QED BY <1>2, <3>1, <4>1, ValueAssumption DEF ResetStage
    <3>2. CASE ~HasCustom
      BY <1>2, <3>2, ValueAssumption DEF ResetStage
    <3> QED BY <3>1, <3>2
  <2>4. CASE pc' = "resetErase" /\ UNCHANGED <<caller, answerVars, hostVars>>
    <3>1. AnswerInv'
      BY <1>2, <2>4, AnswerUnchangedInv
         DEF ResetStage, AnswerExists, Busy, SaveSteps, ResetSteps, answerVars
    <3> QED BY <2>1, <2>2, <2>3, <2>4, <3>1
            DEF TypeOK, storeVars, answerVars, hostVars, Steps, ResetSteps
  <2>5. CASE Returns(FALSE)
    <3>1. section' \in 1..Len(Order)
      BY <2>1 DEF TypeOK
    <3>2. AnswerInv' /\ pc' \in {"send", "idle"} /\ caller' = "auto" /\ pending' \in Answer \cup {None}
          /\ responsePending' \in BOOLEAN /\ bootloaderPending' \in BOOLEAN
          /\ tx' = tx /\ asked' = asked
      BY <2>1, <2>5, <3>1, ReturnsAnswer
    <3> QED BY <2>1, <2>2, <2>3, <3>1, <3>2 DEF TypeOK, storeVars, Steps
  <2> QED BY <1>2, <2>4, <2>5 DEF ResetStage
<1>3. CASE ResetStorageCall
  <2>1. work' \in Record /\ durable' \in Record
    BY <1>3, CallTypes, LeavesType DEF ResetStorageCall
  <2>2. pc \in ResetSteps /\ pc' \in ResetSteps
    BY <1>3 DEF ResetStorageCall, ResetSteps
  <2>3. AnswerInv'
    BY <1>3, <2>2, AnswerUnchangedInv DEF ResetStorageCall, AnswerExists, Busy, answerVars
  <2> QED BY <1>3, <2>1, <2>2, <2>3
          DEF ResetStorageCall, TypeOK, answerVars, hostVars, liveVars, Steps
<1>4. CASE ResetCrc
  <2>1. work' \in Record /\ durable' \in Record /\ stored' \in Payload
    BY <1>4, CallTypes, LeavesType, SealsType DEF ResetCrc
  <2>2. AnswerInv'
    BY <1>4, AnswerUnchangedInv DEF ResetCrc, AnswerExists, Busy, SaveSteps, ResetSteps, answerVars
  <2> QED BY <1>4, <2>1, <2>2
          DEF ResetCrc, TypeOK, answerVars, hostVars, liveVars, Steps, ResetSteps
<1>5. CASE ResetCommit
  <2>1. Busy /\ section' = section /\ Returns(TRUE)
    BY <1>5 DEF ResetCommit, Busy, ResetSteps
  <2>2. section' \in 1..Len(Order)
    BY <2>1 DEF TypeOK
  <2>3. AnswerInv' /\ pc' \in {"send", "idle"} /\ caller' = "auto" /\ pending' \in Answer \cup {None}
        /\ responsePending' \in BOOLEAN /\ bootloaderPending' \in BOOLEAN
        /\ tx' = tx /\ asked' = asked
    BY <2>1, <2>2, ReturnsAnswer
  <2> QED BY <1>5, <2>2, <2>3 DEF ResetCommit, TypeOK, Steps
<1> QED BY <1>1, <1>2, <1>3, <1>4, <1>5 DEF ResetStep

LEMMA FailControl ==
  ASSUME ControlInv, StorageCallFails
  PROVE  ControlInv'
<1> USE DEF ControlInv
<1>1. Busy /\ section' = 1 /\ Returns(FALSE)
  BY DEF StorageCallFails, Busy
<1>2. section' \in 1..Len(Order)
  BY <1>1, OrderFacts
<1>3. AnswerInv' /\ pc' \in {"send", "idle"} /\ caller' = "auto" /\ pending' \in Answer \cup {None}
      /\ responsePending' \in BOOLEAN /\ bootloaderPending' \in BOOLEAN
      /\ tx' = tx /\ asked' = asked
  BY <1>1, <1>2, ReturnsAnswer
<1>4. CallCutShort
  BY DEF StorageCallFails
<1>5. TornCall \in Record
  BY CallTypes
<1>6. work' \in Record /\ durable' \in Record
  BY <1>4, <1>5, LeavesType DEF CallCutShort, TypeOK
<1>7. spoiled' \in BOOLEAN
  BY DEF StorageCallFails
<1> QED BY <1>2, <1>3, <1>6, <1>7 DEF StorageCallFails, TypeOK, Steps

LEMMA TaskControl ==
  ASSUME ControlInv, TaskStep
  PROVE  ControlInv'
<1> USE DEF ControlInv
<1>1. CASE Send
  <2>1. AnswerExists /\ pending \in Answer /\ pending # None /\ pending.cmd \in Commands
    BY <1>1 DEF Send, AnswerInv, AnswerExists, Answer, None, Commands
  <2>2. ~AnswerExists' /\ pending' = None
    BY <1>1 DEF Send, AnswerExists, Busy, SaveSteps, ResetSteps
  <2>3. asked = <<>> \o <<pending.cmd>>
    BY <1>1, <2>1 DEF Send, AnswerInv, AnswersInOrder
  <2>4. <<pending.cmd>> \in Seq(Commands)
    BY <2>1
  <2>5. asked = <<pending.cmd>> /\ <<pending.cmd>> \o <<>> = <<pending.cmd>>
    BY <2>3, <2>4, ConcatEmptySeq
  <2>6. tx' = pending.cmd /\ tx' # NoTransfer /\ asked' = asked
    BY <1>1, <2>1 DEF Send, Commands, NoTransfer
  <2>7. AnswersInOrder'
    BY <2>2, <2>5, <2>6 DEF AnswersInOrder
  <2> QED BY <1>1, <2>1, <2>2, <2>6, <2>7
          DEF Send, AnswerInv, TypeOK, storeVars, liveVars, Steps
<1>2. CASE Jump
  <2>1. AnswerInv'
    BY <1>2 DEF Jump, AnswerInv, AnswersInOrder, AnswerExists, Busy, SaveSteps, ResetSteps, hostVars
  <2> QED BY <1>2, <2>1 DEF Jump, TypeOK, hostVars, storeVars, liveVars, Steps
<1>3. CASE ReceiveNothing \/ SendNothing \/ NoJump \/ NoAutoSave
  <2>1. AnswerInv'
    BY <1>3, AnswerUnchangedInv
       DEF ReceiveNothing, SendNothing, NoJump, NoAutoSave, AnswerExists, Busy,
           SaveSteps, ResetSteps, answerVars
  <2> QED BY <1>3, <2>1
          DEF ReceiveNothing, SendNothing, NoJump, NoAutoSave, TypeOK, answerVars,
              hostVars, storeVars, liveVars, Steps
<1>4. CASE AutoSave
  <2>1. AnswerInv'
    BY <1>4, AnswerUnchangedInv
       DEF AutoSave, AnswerExists, Busy, SaveSteps, ResetSteps, answerVars
  <2> QED BY <1>4, <2>1
          DEF AutoSave, TypeOK, answerVars, hostVars, storeVars, liveVars, Steps, SaveSteps
<1> QED BY <1>1, <1>2, <1>3, <1>4 DEF TaskStep

\* load() is only safe because a record with a sealed header is whole.
LEMMA OutsideControl ==
  ASSUME ControlInv, work.crc \in {NoHeader, 0} \/ work.body \in Payload,
         AppStep \/ TimePasses \/ TransferDone \/ PowerLoss \/ Begin
  PROVE  ControlInv'
<1> USE DEF ControlInv
<1>1. CASE AppSave \/ AppReset
  <2>1. AnswerInv'
    BY <1>1, AnswerUnchangedInv
       DEF AppSave, AppReset, AnswerExists, Busy, SaveSteps, ResetSteps, answerVars
  <2> QED BY <1>1, <2>1
          DEF AppSave, AppReset, TypeOK, answerVars, hostVars, storeVars, liveVars,
              Steps, SaveSteps, ResetSteps
<1>2. CASE AppLoad \/ Begin
  <2>1. Loadable(work) => work.body \in Payload
    BY HeaderRejected DEF TypeOK
  <2>2. live' \in Payload
    BY <1>2, <2>1, ValueAssumption DEF AppLoad, Begin, BeginLoads, BeginFallsBack
  <2>3. AnswerInv'
    BY <1>2, AnswerUnchangedInv
       DEF AppLoad, Begin, BeginLoads, BeginFallsBack, AnswerExists, Busy, SaveSteps,
           ResetSteps, answerVars, controlVars
  <2>4. unread' \in BOOLEAN
    BY <1>2 DEF AppLoad, Begin, BeginLoads, BeginFallsBack, TypeOK, Loadable, HasCustom
  <2> QED BY <1>2, <2>2, <2>3, <2>4
          DEF AppLoad, Begin, BeginLoads, BeginFallsBack, TypeOK, answerVars, hostVars,
              storeVars, controlVars, Steps
<1>3. CASE TimePasses
  <2>1. AnswerInv'
    BY <1>3, AnswerUnchangedInv DEF TimePasses, AnswerExists, Busy, answerVars, controlVars
  <2> QED BY <1>3, <2>1
          DEF TimePasses, TypeOK, answerVars, hostVars, storeVars, controlVars
<1>4. CASE TransferDone
  <2> DEFINE rest == IF pending = None THEN <<>> ELSE <<pending.cmd>>
  <2>1. pending # None => pending.cmd \in Commands
    BY DEF TypeOK, Answer
  <2>2. rest \in Seq(Commands)
    BY <2>1
  <2>3. tx \in Commands /\ asked = <<tx>> \o rest
    BY <1>4 DEF TransferDone, TypeOK, AnswerInv, AnswersInOrder
  <2>4. asked' = rest /\ <<>> \o rest = rest
    BY <1>4, <2>2, <2>3, TailConcat, ConcatEmptySeq DEF TransferDone
  <2>5. pending' = pending /\ tx' = NoTransfer
    BY <1>4 DEF TransferDone, answerVars
  <2>6. AnswersInOrder'
    BY <2>4, <2>5 DEF AnswersInOrder
  <2>7. AnswerInv'
    BY <1>4, <2>5, <2>6 DEF TransferDone, AnswerInv, AnswerExists, Busy, controlVars, answerVars
  <2> QED BY <1>4, <2>2, <2>4, <2>5, <2>7
          DEF TransferDone, TypeOK, answerVars, storeVars, liveVars, controlVars
<1>5. CASE PowerLoss
  <2>1. durable' \in Record
    BY <1>5, CallTypes DEF PowerLoss, TypeOK
  <2>2. ~AnswerExists' /\ pending' = None /\ tx' = NoTransfer /\ asked' = <<>>
    BY <1>5 DEF PowerLoss, AnswerExists, Busy, SaveSteps, ResetSteps
  <2>3. AnswerInv'
    BY <2>2 DEF AnswerInv, AnswersInOrder
  <2>4. section' \in 1..Len(Order) /\ asked' \in Seq(Commands)
    BY <1>5, OrderFacts DEF PowerLoss
  <2>5. live' \in Payload /\ staged' \in Payload /\ stored' \in Payload /\ work' \in Record
    BY <1>5, <2>1, ValueAssumption DEF PowerLoss, TypeOK
  <2>6. pc' \in Steps /\ caller' \in {"host", "auto", "app"} /\ dirty' \in BOOLEAN
        /\ due' \in BOOLEAN /\ unread' \in BOOLEAN /\ spoiled' \in BOOLEAN
        /\ responsePending' \in BOOLEAN /\ bootloaderPending' \in BOOLEAN
    BY <1>5 DEF PowerLoss, Steps
  <2>7. TypeOK'
    BY <2>1, <2>2, <2>4, <2>5, <2>6 DEF TypeOK
  <2> QED BY <2>3, <2>7
<1> QED BY <1>1, <1>2, <1>3, <1>4, <1>5 DEF AppStep

-----------------------------------------------------------------------------
(* The record *)

\* What the record holds at each point of writeState() and factoryReset().
StepInv ==
  /\ pc = "savePayload" =>
       work.crc = 0 /\ \A i \in 1..section - 1 : work.body[Order[i]] = live[Order[i]]
  /\ pc = "saveCrc"      => work.crc = 0 /\ work.body = live
  /\ pc = "saveCommit"   => work.crc = Crc(live) /\ work.body = live
  /\ pc = "resetPayload" => work.crc = 0
  /\ pc = "resetCrc"     => work.crc = 0 /\ work.body = staged
  /\ pc = "resetCommit"  => work.crc = Crc(staged) /\ work.body = staged

\* A record whose header could be accepted is whole, wherever it is.
WholeInv ==
  /\ work.crc \in {NoHeader, 0} \/ work.body \in Payload
  /\ durable.crc \in {NoHeader, 0} \/ durable.body = stored
  /\ WriteThrough => durable = work
  /\ pc = "off" => durable = work

RecordInv == StepInv /\ WholeInv

Inv == ControlInv /\ RecordInv

\* Steps that leave the storage, the live state and the workspace alone, and do
\* not enter the middle of a save or reset.
LEMMA RecordUnchanged ==
  ASSUME RecordInv, UNCHANGED <<work, durable, stored>>,
         pc' \in {"idle", "send", "jump", "autosave", "saveHeader", "resetStage", "resetErase"}
  PROVE  RecordInv'
BY DEF RecordInv, StepInv, WholeInv

LEMMA SaveRecord ==
  ASSUME Inv, SaveStep
  PROVE  RecordInv'
<1> USE DEF Inv, ControlInv
<1>1. TypeOK /\ StepInv /\ WholeInv
  BY DEF RecordInv
<1>2. CASE SaveRefused
  <2>1. pc' \in {"send", "idle"}
    BY <1>2 DEF SaveRefused, Returns
  <2> QED BY <1>2, <2>1, RecordUnchanged DEF SaveRefused, storeVars
<1>3. CASE SaveHeader
  <2>1. work' = PutCrc(work, 0) /\ durable' = (IF WriteThrough THEN work' ELSE durable)
    BY <1>3 DEF SaveHeader, Leaves, AfterCall, Through
  <2>2. work'.crc = 0 /\ pc' = "savePayload" /\ section' = 1 /\ stored' = stored
    BY <1>1, <1>3, <2>1 DEF SaveHeader, PutCrc, TypeOK
  <2> QED BY <1>1, <2>1, <2>2 DEF RecordInv, StepInv, WholeInv
<1>4. CASE SaveSection
  <2>1. work' = PutSection(work, Order[section], live[Order[section]])
        /\ durable' = (IF WriteThrough THEN work' ELSE durable)
    BY <1>4 DEF SaveSection, Leaves, AfterCall, Through
  <2>2. pc = "savePayload" /\ live' = live /\ stored' = stored
    BY <1>4 DEF SaveSection, liveVars
  <2>3. Order[section] \in Section
    BY <1>1, SectionOfIndex DEF TypeOK
  <2>4. work'.crc = 0 /\ work' \in Record
        /\ work'.body = [work.body EXCEPT ![Order[section]] = live[Order[section]]]
    BY <1>1, <2>1, <2>2, <2>3 DEF PutSection, TypeOK, StepInv
  <2>5. \A i \in 1..section : work'.body[Order[i]] = live[Order[i]]
    <3> TAKE i \in 1..section
    <3>1. CASE Order[i] = Order[section]
      BY <1>1, <2>3, <2>4, <3>1 DEF TypeOK
    <3>2. CASE Order[i] # Order[section]
      <4>1. i \in 1..section - 1 /\ i \in 1..Len(Order)
        BY <1>1, <3>2, OrderFacts DEF TypeOK
      <4>2. Order[i] \in Section
        BY <4>1, SectionOfIndex
      <4> QED BY <1>1, <2>2, <2>4, <3>2, <4>1, <4>2 DEF StepInv, TypeOK
    <3> QED BY <3>1, <3>2
  <2>6. CASE section < Len(Order) /\ section' = section + 1 /\ UNCHANGED pc
    <3>1. section' - 1 = section
      BY <1>1, <2>6, OrderFacts DEF TypeOK
    <3> QED BY <1>1, <2>1, <2>2, <2>4, <2>5, <2>6, <3>1 DEF RecordInv, StepInv, WholeInv
  <2>7. CASE section = Len(Order) /\ section' = 1 /\ pc' = "saveCrc"
    <3>1. \A s \in Section : work'.body[s] = live[s]
      BY <2>5, <2>7 DEF Section
    <3>2. work'.body = live
      BY <1>1, <2>4, <3>1 DEF TypeOK
    <3> QED BY <1>1, <2>1, <2>2, <2>4, <2>7, <3>2 DEF RecordInv, StepInv, WholeInv
  <2> QED BY <1>4, <2>6, <2>7 DEF SaveSection
<1>5. CASE SaveCrc
  <2>1. Source = live
    BY <1>5 DEF SaveCrc, Source, SaveSteps
  <2>2. work' = PutCrc(work, Crc(live)) /\ durable' = (IF WriteThrough THEN work' ELSE durable)
    BY <1>5, <2>1 DEF SaveCrc, Leaves, AfterCall, Through
  <2>3. work'.crc = Crc(live) /\ work'.body = live /\ pc' = "saveCommit" /\ live' = live
    BY <1>1, <1>5, <2>2 DEF SaveCrc, PutCrc, TypeOK, StepInv, liveVars
  <2>4. stored' = IF WriteThrough THEN live ELSE stored
    BY <1>5, <2>1 DEF SaveCrc, Seals
  <2> QED BY <1>1, <2>2, <2>3, <2>4 DEF RecordInv, StepInv, WholeInv, TypeOK
<1>6. CASE SaveCommit
  <2>1. pc' \in {"send", "idle"}
    BY <1>6 DEF SaveCommit, Returns
  <2>2. work' = work /\ durable' = work /\ stored' = live /\ work.body = live
    BY <1>1, <1>6 DEF SaveCommit, StepInv
  <2> QED BY <1>1, <2>1, <2>2 DEF RecordInv, StepInv, WholeInv
<1> QED BY <1>2, <1>3, <1>4, <1>5, <1>6 DEF SaveStep

LEMMA ResetRecord ==
  ASSUME Inv, ResetStep
  PROVE  RecordInv'
<1> USE DEF Inv, ControlInv
<1>1. TypeOK /\ StepInv /\ WholeInv
  BY DEF RecordInv
<1>2. CASE ResetRefused
  <2>1. pc' \in {"send", "idle"}
    BY <1>2 DEF ResetRefused, Returns
  <2> QED BY <1>2, <2>1, RecordUnchanged DEF ResetRefused, storeVars
<1>3. CASE ResetStage
  <2>1. pc' \in {"send", "idle", "resetErase"} /\ UNCHANGED storeVars
    BY <1>3 DEF ResetStage, Returns
  <2> QED BY <2>1, RecordUnchanged DEF storeVars
<1>4. CASE ResetStorageCall
  <2>1. work' = AfterCall /\ durable' = (IF Through THEN work' ELSE durable)
        /\ stored' = stored /\ staged' = staged
    BY <1>4 DEF ResetStorageCall, Leaves, liveVars
  <2>2. CASE pc = "resetErase"
    <3>1. work' = Erased /\ pc' = "resetHeader" /\ Through = EraseThrough
      BY <1>4, <2>1, <2>2 DEF ResetStorageCall, AfterCall, Through
    <3>2. work'.crc = NoHeader
      BY <3>1 DEF Erased
    <3> QED BY <1>1, <2>1, <3>1, <3>2, FlagAssumption DEF RecordInv, StepInv, WholeInv
  <2>3. CASE pc = "resetHeader"
    <3>1. work' = PutCrc(work, 0) /\ pc' = "resetPayload" /\ Through = WriteThrough
      BY <1>4, <2>1, <2>3 DEF ResetStorageCall, AfterCall, Through
    <3>2. work'.crc = 0
      BY <1>1, <3>1 DEF PutCrc, TypeOK
    <3> QED BY <1>1, <2>1, <3>1, <3>2 DEF RecordInv, StepInv, WholeInv
  <2>4. CASE pc = "resetPayload"
    <3>1. work' = [work EXCEPT !.body = staged] /\ pc' = "resetCrc" /\ Through = WriteThrough
      BY <1>4, <2>1, <2>4 DEF ResetStorageCall, AfterCall, Through
    <3>2. work'.crc = 0 /\ work'.body = staged
      BY <1>1, <2>4, <3>1 DEF TypeOK, StepInv
    <3> QED BY <1>1, <2>1, <3>1, <3>2 DEF RecordInv, StepInv, WholeInv
  <2> QED BY <1>4, <2>2, <2>3, <2>4 DEF ResetStorageCall
<1>5. CASE ResetCrc
  <2>1. Source = staged
    BY <1>5 DEF ResetCrc, Source, SaveSteps
  <2>2. work' = PutCrc(work, Crc(staged)) /\ durable' = (IF WriteThrough THEN work' ELSE durable)
    BY <1>5, <2>1 DEF ResetCrc, Leaves, AfterCall, Through
  <2>3. work'.crc = Crc(staged) /\ work'.body = staged /\ pc' = "resetCommit" /\ staged' = staged
    BY <1>1, <1>5, <2>2 DEF ResetCrc, PutCrc, TypeOK, StepInv, liveVars
  <2>4. stored' = IF WriteThrough THEN staged ELSE stored
    BY <1>5, <2>1 DEF ResetCrc, Seals
  <2> QED BY <1>1, <2>2, <2>3, <2>4 DEF RecordInv, StepInv, WholeInv, TypeOK
<1>6. CASE ResetCommit
  <2>1. pc' \in {"send", "idle"}
    BY <1>6 DEF ResetCommit, Returns
  <2>2. work' = work /\ durable' = work /\ stored' = staged /\ work.body = staged
    BY <1>1, <1>6 DEF ResetCommit, StepInv
  <2> QED BY <1>1, <2>1, <2>2 DEF RecordInv, StepInv, WholeInv
<1> QED BY <1>2, <1>3, <1>4, <1>5, <1>6 DEF ResetStep

\* A call cut short leaves no acceptable header, or the record as it was.
LEMMA TornCallRejected ==
  ASSUME Inv
  PROVE  TornCall = work \/ TornCall.crc \in {NoHeader, 0}
<1>1. TypeOK /\ StepInv
  BY DEF Inv, ControlInv, RecordInv
<1>2. PutCrc(work, NoHeader).crc = NoHeader /\ Erased.crc = NoHeader
  BY <1>1 DEF PutCrc, Erased, TypeOK
<1>3. PutSection(work, Order[section], Junk).crc = work.crc
      /\ [work EXCEPT !.body = [s \in Section |-> Junk]].crc = work.crc
  BY <1>1 DEF PutSection, TypeOK
<1>4. pc \in {"savePayload", "resetPayload"} => work.crc = 0
  BY <1>1 DEF StepInv
<1> QED BY <1>2, <1>3, <1>4 DEF TornCall

LEMMA FailRecord ==
  ASSUME Inv, StorageCallFails
  PROVE  RecordInv'
<1>1. TypeOK /\ WholeInv
  BY DEF Inv, ControlInv, RecordInv
<1>2. work' = work \/ work'.crc \in {NoHeader, 0}
  BY TornCallRejected DEF StorageCallFails, CallCutShort, Leaves
<1>3. stored' = stored /\ pc' \in {"send", "idle"}
  BY DEF StorageCallFails, Returns
<1>4. durable'.crc \in {NoHeader, 0} \/ durable'.body = stored
  <2>1. CASE durable' = durable
    BY <1>1, <2>1 DEF WholeInv
  <2>2. CASE durable' = TornCall /\ Through
    <3>1. CASE pc = "resetErase"
      BY <2>2, <3>1, TornCallRejected DEF TornCall, Erased
    <3>2. CASE pc # "resetErase"
      BY <1>1, <2>2, <3>2, TornCallRejected DEF Through, WholeInv
    <3> QED BY <3>1, <3>2
  <2> QED BY <2>1, <2>2 DEF StorageCallFails, CallCutShort, Leaves
<1>5. WriteThrough => durable' = work'
  BY <1>1, FlagAssumption DEF StorageCallFails, CallCutShort, Leaves, Through, WholeInv
<1>6. work'.crc \in {NoHeader, 0} \/ work'.body \in Payload
  BY <1>1, <1>2 DEF WholeInv
<1>7. StepInv' /\ pc' # "off"
  BY <1>3 DEF StepInv
<1> QED BY <1>3, <1>4, <1>5, <1>6, <1>7 DEF RecordInv, WholeInv

LEMMA OtherRecord ==
  ASSUME Inv, Request \/ TaskStep \/ AppStep \/ TimePasses \/ TransferDone \/ Begin
  PROVE  RecordInv'
<1>1. TypeOK /\ StepInv /\ WholeInv
  BY DEF Inv, ControlInv, RecordInv
<1>2. CASE Request
  <2>1. UNCHANGED storeVars /\ pc' \in {"send", "saveHeader", "resetStage"}
    BY <1>2 DEF Request, Edits, AnswerUnchanged, SetSection, ResetKeymap, ResetMacros, Answers,
                RequestCommit, RequestReset, RequestBootloader, BeginStorageRequest
  <2> QED BY <2>1, RecordUnchanged DEF storeVars, Inv
<1>3. CASE TaskStep \/ Begin \/ AppSave \/ AppReset
  <2>1. UNCHANGED storeVars /\ pc' \in {"send", "saveHeader", "resetStage", "idle", "jump", "autosave"}
    BY <1>3 DEF TaskStep, ReceiveNothing, Send, SendNothing, Jump, NoJump, AutoSave, NoAutoSave,
                Begin, BeginLoads, BeginFallsBack, AppSave, AppReset
  <2> QED BY <2>1, RecordUnchanged DEF storeVars, Inv
<1>4. CASE AppLoad \/ TimePasses
  <2>1. UNCHANGED storeVars /\ pc' = "idle"
    BY <1>4 DEF AppLoad, TimePasses, controlVars
  <2> QED BY <2>1, RecordUnchanged DEF storeVars, Inv
<1>5. CASE TransferDone
  <2>1. UNCHANGED <<storeVars, controlVars, liveVars>>
    BY <1>5 DEF TransferDone
  <2> QED BY <1>1, <2>1 DEF storeVars, controlVars, liveVars, RecordInv, StepInv, WholeInv
<1> QED BY <1>2, <1>3, <1>4, <1>5 DEF AppStep

LEMMA PowerLossRecord ==
  ASSUME Inv, PowerLoss
  PROVE  RecordInv'
<1>1. TypeOK /\ WholeInv
  BY DEF Inv, ControlInv, RecordInv
<1>2. pc' = "off" /\ work' = durable' /\ stored' = stored
  BY DEF PowerLoss
<1>3. durable'.crc \in {NoHeader, 0} \/ durable'.body = stored
  <2>1. CASE durable' = durable
    BY <1>1, <2>1 DEF WholeInv
  <2>2. CASE Through /\ durable' = TornCall
    <3>1. CASE pc = "resetErase"
      BY <2>2, <3>1 DEF TornCall, Erased
    <3>2. CASE pc # "resetErase"
      BY <1>1, <2>2, <3>2, TornCallRejected DEF Through, WholeInv
    <3> QED BY <3>1, <3>2
  <2> QED BY <2>1, <2>2 DEF PowerLoss
<1>4. stored \in Payload
  BY <1>1 DEF TypeOK
<1>5. StepInv'
  BY <1>2 DEF StepInv
<1> QED BY <1>2, <1>3, <1>4, <1>5 DEF RecordInv, WholeInv

-----------------------------------------------------------------------------
(* Theorems *)

LEMMA InvInit == Init => Inv
<1> SUFFICES ASSUME Init PROVE Inv
  OBVIOUS
<1>1. ControlInv
  BY ControlInit
<1>2. work = Erased /\ durable = Erased /\ Erased.crc = NoHeader /\ pc = "off"
  BY DEF Init, Erased
<1>3. RecordInv
  BY <1>2 DEF RecordInv, StepInv, WholeInv
<1> QED BY <1>1, <1>3 DEF Inv

LEMMA InvNext == Inv /\ [Next]_vars => Inv'
<1> SUFFICES ASSUME Inv, [Next]_vars PROVE Inv'
  OBVIOUS
<1>1. ControlInv /\ (work.crc \in {NoHeader, 0} \/ work.body \in Payload)
  BY DEF Inv, RecordInv, WholeInv
<1>2. CASE Request
  BY <1>1, <1>2, RequestControl, OtherRecord DEF Inv
<1>3. CASE SaveStep
  BY <1>1, <1>3, SaveControl, SaveRecord DEF Inv
<1>4. CASE ResetStep
  BY <1>1, <1>4, ResetControl, ResetRecord DEF Inv
<1>5. CASE StorageCallFails
  BY <1>1, <1>5, FailControl, FailRecord DEF Inv
<1>6. CASE TaskStep
  BY <1>1, <1>6, TaskControl, OtherRecord DEF Inv
<1>7. CASE AppStep \/ TimePasses \/ TransferDone \/ Begin
  BY <1>1, <1>7, OutsideControl, OtherRecord DEF Inv
<1>8. CASE PowerLoss
  BY <1>1, <1>8, OutsideControl, PowerLossRecord DEF Inv
<1>9. CASE UNCHANGED vars
  BY <1>9 DEF Inv, ControlInv, TypeOK, AnswerInv, AnswersInOrder, AnswerExists, Busy,
              RecordInv, StepInv, WholeInv, vars, controlVars, answerVars, hostVars,
              storeVars, liveVars
<1> QED BY <1>2, <1>3, <1>4, <1>5, <1>6, <1>7, <1>8, <1>9 DEF Next

\* The invariant from which the theorems below follow.
THEOREM Invariance == Spec => []Inv
BY InvInit, InvNext, PTL DEF Spec

\* Every variable keeps its type, the request sequence included.
THEOREM TypeCorrect == Spec => []TypeOK
<1>1. Inv => TypeOK
  BY DEF Inv, ControlInv
<1> QED BY <1>1, Invariance, PTL

\* Whatever storage call is cut short, and however often, a record that load()
\* accepts is one whole payload, the last one that was completely written.
THEOREM NoMixedRecord == Spec => []NeverMixed
<1>1. Inv => NeverMixed
  BY HeaderRejected DEF Inv, ControlInv, TypeOK, RecordInv, WholeInv, NeverMixed
<1> QED BY <1>1, Invariance, PTL

\* Each request is answered once, and the answers leave in the order of the
\* requests.
THEOREM AnswersKeepOrder == Spec => []AnswersInOrder
<1>1. Inv => AnswersInOrder
  BY DEF Inv, ControlInv, AnswerInv
<1> QED BY <1>1, Invariance, PTL

-----------------------------------------------------------------------------
(* Clean devices, grants and the custom state *)

\* The custom handler accepts its own defaults.
SoundDefaults == HasCustom => Defaults["custom"] \in ValidCustom

\* The steps on which the record may be half done.
Storing == (SaveSteps \cup ResetSteps) \ {"saveHeader", "resetStage"}

\* Storage calls are made to a storage; a jump is granted to a clean device only; the
\* handler accepts what a reset has staged, and what is live.
DeviceInv ==
  /\ pc \in Storing => HasStorage
  /\ bootloaderPending => ~dirty
  /\ HasCustom /\ pc \in ResetSteps \ {"resetStage"} => staged["custom"] \in ValidCustom
  /\ HasCustom /\ SoundDefaults => live["custom"] \in ValidCustom

\* Until the first storage call of a save or reset, and again after its last one unless
\* that failed, a clean device is a durable one.
CleanInv ==
  /\ pc = "off" => ~dirty
  /\ pc # "off" /\ ~dirty /\ ~unread /\ (AtomicStorage \/ (pc \notin Storing /\ ~spoiled))
       => Restored(durable) = live

LEMMA DeviceBegin == Init => DeviceInv /\ CleanInv
BY DEF Init, DeviceInv, CleanInv, Storing, SaveSteps, ResetSteps, SoundDefaults

\* The custom part of what becomes live is what the handler accepted.
LEMMA EditsKeepCustom ==
  ASSUME TypeOK, Edits, HasCustom, SoundDefaults, live["custom"] \in ValidCustom
  PROVE  live'["custom"] \in ValidCustom
<1>1. "custom" \in Section /\ live \in [Section -> Value]
  BY DEF HasCustom, TypeOK
<1>2. CASE \E s \in Section, v \in Value : SetSection(s, v)
  <2>1. PICK s \in Section, v \in Value :
          (s = "custom" => v \in ValidCustom) /\ live' = [live EXCEPT ![s] = v]
    BY <1>2 DEF SetSection
  <2> QED BY <1>1, <2>1
<1>3. CASE ResetKeymap \/ ResetMacros
  BY <1>1, <1>3 DEF ResetKeymap, ResetMacros
<1> QED BY <1>2, <1>3 DEF Edits

\* Everything a request can change of what DeviceInv and CleanInv are about.
LEMMA RequestDevice ==
  ASSUME Inv, DeviceInv, Request
  PROVE  DeviceInv' /\ (CleanInv => CleanInv')
<1>1. TypeOK /\ dirty \in BOOLEAN /\ bootloaderPending \in BOOLEAN
  BY DEF Inv, ControlInv, TypeOK
<1>2. /\ pc = "idle" /\ bootloaderPending = FALSE
      /\ pc' \in {"send", "saveHeader", "resetStage"}
      /\ UNCHANGED <<durable, unread, spoiled>>
  BY <1>1 DEF Request, Edits, AnswerUnchanged, SetSection, ResetKeymap, ResetMacros, Answers,
              RequestCommit, RequestReset, RequestBootloader, BeginStorageRequest,
              ReadyForRequest, storeVars, liveVars
<1>3. pc' \notin Storing /\ pc' \notin ResetSteps \ {"resetStage"} /\ pc \notin Storing
  BY <1>2 DEF Storing, SaveSteps, ResetSteps
<1>4. CASE Edits
  <2>1. dirty' = TRUE /\ bootloaderPending' = FALSE
    BY <1>4 DEF Edits, SetSection, ResetKeymap, ResetMacros, Answers, MarkDirty
  <2>2. HasCustom /\ SoundDefaults => live'["custom"] \in ValidCustom
    BY <1>1, <1>4, EditsKeepCustom DEF DeviceInv
  <2> QED BY <1>2, <1>3, <2>1, <2>2 DEF DeviceInv, CleanInv
<1>5. CASE \E c \in Commands, ok \in BOOLEAN : AnswerUnchanged(c, ok)
  <2>1. UNCHANGED <<live, dirty>> /\ (bootloaderPending' => ~dirty)
    BY <1>5 DEF AnswerUnchanged, Answers
  <2> QED BY <1>2, <1>3, <2>1 DEF DeviceInv, CleanInv, Restored, Loadable
<1>6. CASE RequestCommit \/ RequestReset \/ RequestBootloader
  <2>1. UNCHANGED <<live, dirty, bootloaderPending>>
    BY <1>6 DEF RequestCommit, RequestReset, RequestBootloader, BeginStorageRequest, liveVars
  <2> QED BY <1>2, <1>3, <2>1 DEF DeviceInv, CleanInv, Restored, Loadable
<1> QED BY <1>4, <1>5, <1>6 DEF Request

\* What Returns leaves: the thread goes on, and only a success grants a jump.
LEMMA ReturnsDevice ==
  ASSUME NEW ok \in BOOLEAN, Returns(ok)
  PROVE  /\ pc' \in {"send", "idle"} /\ pc' \notin Storing /\ pc' \notin ResetSteps \ {"resetStage"}
         /\ bootloaderPending' => ok \/ bootloaderPending
BY DEF Returns, Storing, SaveSteps, ResetSteps, answerVars

\* A record that holds what a save or reset wrote comes back as that.
LEMMA CommitStores ==
  ASSUME Inv, DeviceInv
  PROVE  /\ pc = "saveCommit" /\ SoundDefaults  => Loadable(work) /\ Restored(work) = live
         /\ pc = "resetCommit" => Loadable(work) /\ Restored(work) = staged
<1>1. StepInv
  BY DEF Inv, RecordInv
<1>2. CASE pc = "saveCommit" /\ SoundDefaults
  <2>1. work.crc = Crc(work.body) /\ work.body = live
    BY <1>1, <1>2 DEF StepInv
  <2>2. HasStorage /\ (HasCustom => live["custom"] \in ValidCustom)
    BY <1>2 DEF DeviceInv, Storing, SaveSteps
  <2> QED BY <1>2, <2>1, <2>2 DEF Loadable, Restored
<1>3. CASE pc = "resetCommit"
  <2>1. work.crc = Crc(work.body) /\ work.body = staged
    BY <1>1, <1>3 DEF StepInv
  <2>2. HasStorage /\ (HasCustom => staged["custom"] \in ValidCustom)
    BY <1>3 DEF DeviceInv, Storing, ResetSteps
  <2> QED BY <1>3, <2>1, <2>2 DEF Loadable, Restored
<1> QED BY <1>2, <1>3

LEMMA SaveDevice ==
  ASSUME Inv, DeviceInv, SaveStep
  PROVE  DeviceInv' /\ (SoundDefaults /\ CleanInv => CleanInv')
<1>1. CASE SaveRefused
  <2>1. pc = "saveHeader" /\ Returns(FALSE) /\ UNCHANGED <<live, dirty, unread, spoiled, durable>>
    BY <1>1 DEF SaveRefused, liveVars, storeVars
  <2>2. pc \notin Storing
    BY <2>1 DEF Storing
  <2> QED BY <2>1, <2>2, ReturnsDevice DEF DeviceInv, CleanInv, Restored, Loadable
<1>2. CASE SaveHeader \/ SaveSection \/ SaveCrc
  <2>1. /\ UNCHANGED <<live, dirty, unread, spoiled, bootloaderPending>>
        /\ pc \in SaveSteps /\ pc' \in SaveSteps
        /\ HasStorage
    BY <1>2 DEF SaveHeader, SaveSection, SaveCrc, liveVars, answerVars, SaveSteps, DeviceInv, Storing
  <2>2. pc' \in Storing /\ pc' # "off" /\ pc # "off" /\ pc' \notin ResetSteps
    BY <1>2 DEF SaveHeader, SaveSection, SaveCrc, Storing, SaveSteps, ResetSteps
  <2>3. AtomicStorage => durable' = durable
    BY <1>2 DEF SaveHeader, SaveSection, SaveCrc, Leaves, Through, AtomicStorage
  <2> QED BY <2>1, <2>2, <2>3 DEF DeviceInv, CleanInv, Restored, Loadable
<1>3. CASE SaveCommit
  <2>1. pc = "saveCommit" /\ Returns(TRUE) /\ durable' = work /\ live' = live /\ dirty' = FALSE
    BY <1>3 DEF SaveCommit
  <2>2. SoundDefaults => Restored(work) = live
    BY <2>1, CommitStores
  <2>3. SoundDefaults => Restored(durable') = live'
    BY <2>1, <2>2 DEF Restored, Loadable
  <2>4. pc' \in {"send", "idle"} /\ pc' \notin Storing /\ pc' \notin ResetSteps \ {"resetStage"}
    BY <2>1, ReturnsDevice
  <2> QED BY <2>1, <2>3, <2>4 DEF DeviceInv, CleanInv
<1> QED BY <1>1, <1>2, <1>3 DEF SaveStep

\* What is staged, and what a handler that resets itself has live.
LEMMA StageDevice ==
  ASSUME Inv, DeviceInv, ResetStage
  PROVE  /\ HasStorage /\ pc = "resetStage" /\ pc' \in {"send", "idle", "resetErase"}
         /\ UNCHANGED <<durable, dirty, unread, spoiled>>
         /\ bootloaderPending' => bootloaderPending
         /\ ~CustomResets => live' = live
         /\ HasCustom /\ SoundDefaults => live'["custom"] \in ValidCustom
         /\ HasCustom /\ pc' = "resetErase" => staged'["custom"] \in ValidCustom
<1>1. TypeOK
  BY DEF Inv, ControlInv
<1>2. /\ pc = "resetStage" /\ HasStorage
      /\ live' = IF HasCustom /\ CustomResets
                 THEN [live EXCEPT !["custom"] = Defaults["custom"]] ELSE live
      /\ UNCHANGED <<section, storeVars, dirty, due, unread, spoiled>>
  BY DEF ResetStage
<1>3. \/ /\ HasCustom => staged'["custom"] \in ValidCustom
         /\ pc' = "resetErase" /\ UNCHANGED answerVars
      \/ Returns(FALSE)
  BY DEF ResetStage
<1>4. HasCustom /\ SoundDefaults => live'["custom"] \in ValidCustom
  <2> SUFFICES ASSUME HasCustom, SoundDefaults PROVE live'["custom"] \in ValidCustom
    OBVIOUS
  <2>1. "custom" \in Section /\ live \in [Section -> Value]
    BY <1>1 DEF HasCustom, TypeOK
  <2>2. Defaults["custom"] \in ValidCustom /\ live["custom"] \in ValidCustom
    BY DEF SoundDefaults, DeviceInv
  <2> QED BY <1>2, <2>1, <2>2
<1>5. /\ pc' \in {"send", "idle", "resetErase"} /\ (bootloaderPending' => bootloaderPending)
      /\ HasCustom /\ pc' = "resetErase" => staged'["custom"] \in ValidCustom
  <2>1. CASE Returns(FALSE)
    <3>1. pc' \in {"send", "idle"} /\ (bootloaderPending' => FALSE \/ bootloaderPending)
      BY <2>1, ReturnsDevice
    <3> QED BY <3>1
  <2>2. CASE /\ HasCustom => staged'["custom"] \in ValidCustom
             /\ pc' = "resetErase" /\ bootloaderPending' = bootloaderPending
    BY <2>2
  <2> QED BY <1>3, <2>1, <2>2 DEF answerVars
<1> QED BY <1>2, <1>4, <1>5 DEF storeVars

LEMMA ResetDevice ==
  ASSUME Inv, DeviceInv, ResetStep
  PROVE  DeviceInv' /\ (~CustomResets /\ CleanInv => CleanInv')
<1>1. CASE ResetRefused
  <2>1. pc = "resetStage" /\ Returns(FALSE) /\ UNCHANGED <<live, dirty, unread, spoiled, durable>>
    BY <1>1 DEF ResetRefused, liveVars, storeVars
  <2>2. pc \notin Storing
    BY <2>1 DEF Storing
  <2> QED BY <2>1, <2>2, ReturnsDevice DEF DeviceInv, CleanInv, Restored, Loadable
<1>2. CASE ResetStage
  <2>1. /\ HasStorage /\ pc = "resetStage" /\ pc' \in {"send", "idle", "resetErase"}
        /\ UNCHANGED <<durable, dirty, unread, spoiled>>
        /\ bootloaderPending' => bootloaderPending
        /\ ~CustomResets => live' = live
        /\ HasCustom /\ SoundDefaults => live'["custom"] \in ValidCustom
        /\ HasCustom /\ pc' = "resetErase" => staged'["custom"] \in ValidCustom
    BY <1>2, StageDevice
  <2>2. pc \notin Storing
    BY <2>1 DEF Storing
  <2>3. pc' \in ResetSteps => pc' = "resetErase"
    BY <2>1 DEF ResetSteps
  <2>4. DeviceInv'
    BY <2>1, <2>3 DEF DeviceInv
  <2>5. ~CustomResets /\ CleanInv => CleanInv'
    BY <2>1, <2>2 DEF CleanInv, Restored, Loadable
  <2> QED BY <2>4, <2>5
<1>3. CASE ResetStorageCall \/ ResetCrc
  <2>1. /\ UNCHANGED <<live, dirty, unread, spoiled, bootloaderPending, staged>>
        /\ pc \in ResetSteps \ {"resetStage"} /\ pc' \in ResetSteps \ {"resetStage"}
    BY <1>3 DEF ResetStorageCall, ResetCrc, liveVars, answerVars, ResetSteps
  <2>2. pc' \in Storing /\ pc \in Storing /\ pc' # "off" /\ pc # "off"
    BY <2>1 DEF Storing, ResetSteps
  <2>3. AtomicStorage => durable' = durable
    BY <1>3 DEF ResetStorageCall, ResetCrc, Leaves, Through, AtomicStorage
  <2> QED BY <2>1, <2>2, <2>3 DEF DeviceInv, CleanInv, Restored, Loadable
<1>4. CASE ResetCommit
  <2>1. pc = "resetCommit" /\ Returns(TRUE) /\ durable' = work /\ live' = staged /\ dirty' = FALSE
    BY <1>4 DEF ResetCommit
  <2>2. Restored(work) = staged /\ (HasCustom => staged["custom"] \in ValidCustom)
    BY <2>1, CommitStores DEF DeviceInv, ResetSteps
  <2>3. Restored(durable') = live'
    BY <2>1, <2>2 DEF Restored, Loadable
  <2>4. pc' \in {"send", "idle"} /\ pc' \notin Storing /\ pc' \notin ResetSteps \ {"resetStage"}
    BY <2>1, ReturnsDevice
  <2> QED BY <2>1, <2>2, <2>3, <2>4 DEF DeviceInv, CleanInv
<1> QED BY <1>1, <1>2, <1>3, <1>4 DEF ResetStep

LEMMA FailDevice ==
  ASSUME Inv, DeviceInv, StorageCallFails
  PROVE  DeviceInv' /\ (CleanInv => CleanInv')
<1>1. /\ Returns(FALSE) /\ UNCHANGED <<live, dirty, unread>>
      /\ spoiled' = (~AtomicStorage /\ (spoiled \/ ~dirty))
      /\ CallCutShort /\ pc # "off"
  BY DEF StorageCallFails, SaveSteps, ResetSteps
<1>2. AtomicStorage => durable' = durable
  BY <1>1 DEF CallCutShort, Leaves, Through, AtomicStorage
<1> QED BY <1>1, <1>2, ReturnsDevice DEF DeviceInv, CleanInv, Restored, Loadable

LEMMA TaskDevice ==
  ASSUME Inv, DeviceInv, TaskStep \/ AppSave \/ AppReset \/ TimePasses \/ TransferDone
  PROVE  DeviceInv' /\ (CleanInv => CleanInv')
<1>1. /\ UNCHANGED <<live, staged, dirty, unread, spoiled, durable>>
      /\ bootloaderPending' => bootloaderPending
  BY DEF TaskStep, ReceiveNothing, Send, SendNothing, Jump, NoJump, AutoSave, NoAutoSave, AppSave,
         AppReset, TimePasses, TransferDone, liveVars, storeVars, answerVars
<1>2. \/ pc' = pc
      \/ /\ pc \in {"idle", "send", "jump", "autosave"}
         /\ pc' \in {"idle", "send", "jump", "autosave", "saveHeader", "resetStage"}
  BY DEF TaskStep, ReceiveNothing, Send, SendNothing, Jump, NoJump, AutoSave, NoAutoSave, AppSave,
         AppReset, TimePasses, TransferDone, controlVars
<1>3. \/ pc' = pc
      \/ /\ pc \notin Storing /\ pc' \notin Storing /\ pc # "off" /\ pc' # "off"
         /\ pc' \notin ResetSteps \ {"resetStage"}
  BY <1>2 DEF Storing, SaveSteps, ResetSteps
<1> QED BY <1>1, <1>3 DEF DeviceInv, CleanInv, Restored, Loadable

LEMMA RestartDevice ==
  ASSUME Inv, DeviceInv, AppLoad \/ PowerLoss \/ Begin
  PROVE  DeviceInv' /\ (("load" \in AppCalls => WriteThrough) /\ CleanInv => CleanInv')
<1>1. WholeInv
  BY DEF Inv, RecordInv
<1>2. CASE AppLoad
  <2>1. /\ "load" \in AppCalls /\ HasStorage /\ Loadable(work) /\ live' = work.body /\ dirty' = FALSE
        /\ UNCHANGED <<pc, durable, staged>> /\ pc = "idle"
    BY <1>2 DEF AppLoad, controlVars, storeVars
  <2>2. HasCustom => live'["custom"] \in ValidCustom
    BY <2>1 DEF Loadable
  <2>3. WriteThrough => Restored(durable') = live'
    BY <1>1, <2>1 DEF WholeInv, Restored, Loadable
  <2>4. pc' \notin Storing /\ pc' \notin ResetSteps /\ pc' # "off"
    BY <2>1 DEF Storing, SaveSteps, ResetSteps
  <2> QED BY <2>1, <2>2, <2>3, <2>4 DEF DeviceInv, CleanInv
<1>3. CASE PowerLoss
  <2>1. pc' = "off" /\ dirty' = FALSE /\ bootloaderPending' = FALSE /\ live' = Defaults
    BY <1>3 DEF PowerLoss
  <2> QED BY <2>1 DEF DeviceInv, CleanInv, Storing, SaveSteps, ResetSteps, SoundDefaults
<1>4. CASE Begin
  <2>1. UNCHANGED <<durable, work, dirty, staged, bootloaderPending>> /\ pc = "off" /\ pc' = "idle"
    BY <1>4 DEF Begin, BeginLoads, BeginFallsBack, storeVars, answerVars
  <2>2. durable = work
    BY <1>1, <2>1 DEF WholeInv
  <2>3. pc' \notin Storing /\ pc' \notin ResetSteps /\ pc' # "off"
    BY <2>1 DEF Storing, SaveSteps, ResetSteps
  <2>4. CASE BeginLoads
    <3>1. live' = work.body /\ Loadable(work) /\ HasStorage
      BY <2>4 DEF BeginLoads
    <3>2. HasCustom => live'["custom"] \in ValidCustom
      BY <3>1 DEF Loadable
    <3>3. Restored(durable') = live'
      BY <2>1, <2>2, <3>1 DEF Restored, Loadable
    <3> QED BY <2>1, <2>3, <3>2, <3>3 DEF DeviceInv, CleanInv
  <2>5. CASE BeginFallsBack
    <3>1. live' = Defaults /\ unread' = (HasStorage /\ Loadable(work))
      BY <2>5 DEF BeginFallsBack
    <3>2. ~unread' => Restored(durable') = live'
      BY <2>1, <2>2, <3>1 DEF Restored, Loadable
    <3>3. HasCustom /\ SoundDefaults => live'["custom"] \in ValidCustom
      BY <3>1 DEF SoundDefaults
    <3> QED BY <2>1, <2>3, <3>2, <3>3 DEF DeviceInv, CleanInv
  <2> QED BY <1>4, <2>4, <2>5 DEF Begin
<1> QED BY <1>2, <1>3, <1>4

\* A custom handler without a reset of its own that accepts its defaults, and a sketch
\* that calls load() only where nothing is provisional.
CleanDevice ==
  /\ ~CustomResets /\ SoundDefaults
  /\ "load" \in AppCalls => WriteThrough

LEMMA DeviceNext ==
  ASSUME Inv, DeviceInv, [Next]_vars
  PROVE  DeviceInv' /\ (CleanDevice /\ CleanInv => CleanInv')
<1>1. CASE UNCHANGED vars
  BY <1>1 DEF vars, controlVars, answerVars, storeVars, liveVars, DeviceInv, CleanInv, Restored, Loadable
<1>2. CASE Request \/ StorageCallFails
  BY <1>2, RequestDevice, FailDevice
<1>3. CASE SaveStep
  BY <1>3, SaveDevice DEF CleanDevice
<1>4. CASE ResetStep
  BY <1>4, ResetDevice DEF CleanDevice
<1>5. CASE TaskStep \/ AppSave \/ AppReset \/ TimePasses \/ TransferDone
  BY <1>5, TaskDevice
<1>6. CASE AppLoad \/ PowerLoss \/ Begin
  BY <1>6, RestartDevice DEF CleanDevice
<1> QED BY <1>1, <1>2, <1>3, <1>4, <1>5, <1>6 DEF Next, AppStep

LEMMA DeviceInvariance == Spec => []DeviceInv
<1>1. Inv /\ DeviceInv /\ [Next]_vars => DeviceInv'
  BY DeviceNext
<1> QED BY <1>1, DeviceBegin, Invariance, PTL DEF Spec

\* On every adapter, atomic or not: whenever dirty() is FALSE a restart brings back
\* exactly the live settings, but for the exceptions CleanMeansDurable names.
THEOREM CleanIsDurable ==
  ASSUME CleanDevice
  PROVE  Spec => []CleanMeansDurable
<1>1. Inv /\ DeviceInv /\ CleanInv /\ [Next]_vars => CleanInv'
  BY DeviceNext
<1>2. CleanInv => CleanMeansDurable
  BY DEF CleanInv, CleanMeansDurable, Storing
<1> QED BY <1>1, <1>2, DeviceBegin, DeviceInvariance, Invariance, PTL DEF Spec

\* On every adapter, whose handler accepts its own defaults: a host that has been told
\* that its commit or its reset succeeded finds the live settings after a restart.
THEOREM GrantedIsDurable ==
  ASSUME SoundDefaults
  PROVE  Spec => OkMeansDurable
<1>1. Inv /\ DeviceInv /\ [Next]_vars =>
        [ (~responsePending /\ responsePending' /\ pending'.ok
             /\ pending'.cmd \in {"commit", "reset"})
          => Restored(durable') = live' ]_vars
  <2> SUFFICES ASSUME Inv, DeviceInv, Next, ~responsePending, responsePending', pending'.ok,
                      pending'.cmd \in {"commit", "reset"}
               PROVE  Restored(durable') = live'
    OBVIOUS
  <2>1. CASE SaveCommit
    <3>1. pc = "saveCommit" /\ durable' = work /\ live' = live
      BY <2>1 DEF SaveCommit
    <3> QED BY <3>1, CommitStores DEF Restored, Loadable
  <2>2. CASE ResetCommit
    <3>1. pc = "resetCommit" /\ durable' = work /\ live' = staged
      BY <2>2 DEF ResetCommit
    <3> QED BY <3>1, CommitStores DEF Restored, Loadable
  <2>3. CASE Busy /\ Returns(FALSE)
    <3>1. CASE caller = "host"
      <4>1. pending' = [pending EXCEPT !.ok = FALSE]
        BY <2>3, <3>1 DEF Returns
      <4>2. pending \in Answer
        BY <2>3, <3>1 DEF Inv, ControlInv, AnswerInv, AnswerExists
      <4> QED BY <4>1, <4>2 DEF Answer
    <3>2. CASE caller # "host"
      BY <2>3, <3>2 DEF Returns, answerVars
    <3> QED BY <3>1, <3>2
  <2>4. CASE UNCHANGED responsePending \/ responsePending' = FALSE
    BY <2>4
  <2>5. CASE Request
    <3>1. ASSUME NEW c \in Commands, NEW ok \in BOOLEAN, AnswerUnchanged(c, ok)
          PROVE  FALSE
      BY <3>1 DEF AnswerUnchanged, Answers
    <3>2. ASSUME Answers("edit", TRUE) PROVE FALSE
      BY <3>2 DEF Answers
    <3>3. CASE RequestCommit \/ RequestReset \/ RequestBootloader
      BY <3>3 DEF RequestCommit, RequestReset, RequestBootloader, BeginStorageRequest
    <3> QED BY <2>5, <3>1, <3>2, <3>3 DEF Request, Edits, SetSection, ResetKeymap, ResetMacros
  <2>6. CASE SaveStep \/ ResetStep \/ StorageCallFails
    <3>1. \/ SaveCommit \/ ResetCommit \/ (Busy /\ Returns(FALSE)) \/ UNCHANGED answerVars
      BY <2>6 DEF SaveStep, SaveRefused, SaveHeader, SaveSection, SaveCrc, ResetStep, ResetRefused,
                  ResetStage, ResetStorageCall, ResetCrc, StorageCallFails, Busy, SaveSteps, ResetSteps
    <3> QED BY <2>1, <2>2, <2>3, <2>4, <3>1 DEF answerVars
  <2>7. CASE TaskStep \/ AppStep \/ TimePasses \/ TransferDone \/ PowerLoss \/ Begin
    <3>1. UNCHANGED responsePending \/ responsePending' = FALSE
      BY <2>7 DEF TaskStep, ReceiveNothing, Send, SendNothing, Jump, NoJump, AutoSave, NoAutoSave,
                  AppStep, AppSave, AppReset, AppLoad, TimePasses, TransferDone, PowerLoss,
                  Begin, BeginLoads, BeginFallsBack, answerVars
    <3> QED BY <2>4, <3>1
  <2> QED BY <2>5, <2>6, <2>7 DEF Next
<1> QED BY <1>1, DeviceInvariance, Invariance, PTL DEF Spec, OkMeansDurable

\* The device leaves for the bootloader clean, and only when every answer has been
\* transferred.
THEOREM JumpIsAnnouncedAlways == Spec => JumpIsAnnounced
<1>1. Inv /\ DeviceInv /\ [Next]_vars => [Jump => asked = <<>> /\ ~dirty]_vars
  <2> SUFFICES ASSUME Inv, DeviceInv, Jump PROVE asked = <<>> /\ ~dirty
    OBVIOUS
  <2>1. pc = "jump" /\ ~responsePending /\ bootloaderPending /\ tx = NoTransfer
    BY DEF Jump, ReadyToJump
  <2>2. ~AnswerExists
    BY <2>1 DEF AnswerExists, Busy, SaveSteps, ResetSteps
  <2>3. AnswersInOrder /\ pending = None
    BY <2>2 DEF Inv, ControlInv, AnswerInv
  <2>4. asked = <<>> \o <<>>
    BY <2>1, <2>3 DEF AnswersInOrder
  <2>5. <<>> \o <<>> = <<>>
    OBVIOUS
  <2> QED BY <2>1, <2>4, <2>5 DEF DeviceInv
<1> QED BY <1>1, DeviceInvariance, Invariance, PTL DEF Spec, JumpIsAnnounced

\* With a custom handler that has no reset of its own: a factory reset changes the live
\* settings only when a restart would bring the new ones back.
THEOREM ResetIsStoredFirst ==
  ASSUME ~CustomResets
  PROVE  Spec => ResetPublishesAfterCommit
<1>1. Inv /\ DeviceInv /\ [Next]_vars =>
        [ (pc \in ResetSteps /\ pc' # "off" /\ live' # live)
          => Loadable(durable') /\ Restored(durable') = live' ]_vars
  <2> SUFFICES ASSUME Inv, DeviceInv, Next, pc \in ResetSteps, pc' # "off", live' # live
               PROVE  Loadable(durable') /\ Restored(durable') = live'
    OBVIOUS
  <2>1. ResetCommit
    <3>1. ~Request /\ ~TaskStep /\ ~AppStep /\ ~TimePasses /\ ~Begin /\ ~SaveStep
      BY DEF Request, Edits, AnswerUnchanged, SetSection, ResetKeymap, ResetMacros, Answers,
             RequestCommit, RequestReset, RequestBootloader, BeginStorageRequest, ReadyForRequest,
             TaskStep, ReceiveNothing, Send, SendNothing, Jump, NoJump, AutoSave, NoAutoSave,
             AppStep, AppSave, AppReset, AppLoad, TimePasses, Begin, BeginLoads, BeginFallsBack,
             SaveStep, SaveRefused, SaveHeader, SaveSection, SaveCrc, SaveCommit, ResetSteps
    <3>2. ~StorageCallFails /\ ~TransferDone /\ ~PowerLoss
      BY DEF StorageCallFails, TransferDone, liveVars, PowerLoss
    <3>3. ~ResetRefused /\ ~ResetStorageCall /\ ~ResetCrc /\ ~ResetStage
      BY DEF ResetRefused, ResetStorageCall, ResetCrc, ResetStage, liveVars
    <3> QED BY <3>1, <3>2, <3>3 DEF Next, ResetStep
  <2>2. pc = "resetCommit" /\ durable' = work /\ live' = staged
    BY <2>1 DEF ResetCommit
  <2> QED BY <2>2, CommitStores DEF Restored, Loadable
<1> QED BY <1>1, DeviceInvariance, Invariance, PTL DEF Spec, ResetPublishesAfterCommit

===============================================================================
