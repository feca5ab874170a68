-------------------------- MODULE ViaTransportsProofs --------------------------
(* Proofs about ViaTransports: the mutex keeps the two halves of a packet       *)
(* together, and requests come out of the slot in the order they were written,  *)
(* each to the client that wrote it.                                            *)
EXTENDS ViaTransports, TLAPS

\* The mutex belongs to the task that is in the middle of a packet.
HolderInv ==
  /\ hostStep = "copy" <=> holder = "host"
  /\ loopStep = "copy" <=> holder = "main"

\* What the slot holds, and who may rely on it: the host task fills only a free slot,
\* the main loop has in its hands what is still in the slot.
SlotInv ==
  /\ pendingRequest => front = back /\ front \in Packet
  /\ hostStep = "callback" => arriving \in Packet /\ (kind = "esp32" => value \in Packet)
  /\ hostStep = "copy" => ~pendingRequest /\ front = arriving /\ arriving \in Packet
  /\ loopStep = "copy" => inHand = IF pendingRequest THEN front ELSE None

\* A client that has gone is followed by another.
ClientInv == ~connected => client < Clients

SafetyInv == TypeOK /\ HolderInv /\ SlotInv /\ ClientInv

LEMMA SafetyInvInit == Init => SafetyInv
<1> SUFFICES ASSUME Init PROVE SafetyInv
  OBVIOUS
<1>1. kind \in Kind /\ client \in 1..Clients /\ 0 \in 0..Requests
  BY ViaTransportsAssumption DEF Init
<1> QED BY <1>1 DEF Init, SafetyInv, TypeOK, HolderInv, SlotInv, ClientInv

LEMMA NoneIsNoPacket ==
  /\ None \notin Packet
  /\ \A p \in Packet : AnswerTo(p) \in Packet
BY DEF None, Packet, AnswerTo

LEMMA TypeStep == SafetyInv /\ [Next]_vars => TypeOK'
<1> SUFFICES ASSUME SafetyInv, [Next]_vars PROVE TypeOK'
  OBVIOUS
<1> USE ViaTransportsAssumption DEF SafetyInv, TypeOK
<1>1. CASE ClientWrites
  <2>1. asked + 1 \in 1..Requests
    BY <1>1 DEF ClientWrites
  <2>2. arriving' \in Packet
    BY <1>1, <2>1 DEF ClientWrites, Packet
  <2> QED BY <1>1, <2>1, <2>2 DEF ClientWrites, slotVars, loopVars, faults
<1>2. CASE OnWrite
  BY <1>2 DEF OnWrite, clientVars, loopVars, faults, SlotFree
<1>3. CASE OnWriteCopied
  BY <1>3 DEF OnWriteCopied, clientVars, loopVars, faults
<1>4. CASE OnWriteMisses
  BY <1>4 DEF OnWriteMisses, clientVars, slotVars, loopVars
<1>5. CASE OnDisconnect
  BY <1>5 DEF OnDisconnect, hostVars, loopVars
<1>6. CASE Connect
  <2>1. client < Clients
    BY <1>6 DEF Connect, ClientInv
  <2>2. client' \in 1..Clients
    BY <1>6, <2>1 DEF Connect
  <2> QED BY <1>6, <2>2 DEF Connect, hostVars, slotVars, loopVars
<1>7. CASE Receive
  BY <1>7 DEF Receive, clientVars, hostVars, slotVars, faults
<1>8. CASE Received
  <2>1. inHand # None => inHand \in Packet /\ AnswerTo(inHand) \in Packet
    BY NoneIsNoPacket
  <2>2. inHand.what = "request" => inHand # None /\ inHand.number \in 0..Requests
    BY DEF None, Packet
  <2> QED BY <1>8, <2>1, <2>2 DEF Received, clientVars, hostVars, faults
<1>9. CASE NoReceive
  BY <1>9 DEF NoReceive, clientVars, hostVars, slotVars, faults
<1>10. CASE Send
  BY <1>10 DEF Send, hostVars, slotVars, faults
<1>11. CASE NoSend
  BY <1>11 DEF NoSend, clientVars, hostVars, slotVars, faults
<1>12. CASE UNCHANGED vars
  BY <1>12 DEF vars, clientVars, hostVars, slotVars, loopVars, faults
<1> QED
  BY <1>1, <1>2, <1>3, <1>4, <1>5, <1>6, <1>7, <1>8, <1>9, <1>10, <1>11, <1>12
  DEF Next, Callback, Loop

LEMMA HolderStep == SafetyInv /\ [Next]_vars => HolderInv' /\ ClientInv'
<1> SUFFICES ASSUME SafetyInv, [Next]_vars PROVE HolderInv' /\ ClientInv'
  OBVIOUS
<1> USE DEF SafetyInv, HolderInv, ClientInv
<1>1. CASE ClientWrites
  BY <1>1 DEF ClientWrites, slotVars, loopVars, faults
<1>2. CASE OnWrite
  BY <1>2 DEF OnWrite, clientVars, loopVars, faults, SlotFree
<1>3. CASE OnWriteCopied
  BY <1>3 DEF OnWriteCopied, clientVars, loopVars, faults
<1>4. CASE OnWriteMisses
  BY <1>4 DEF OnWriteMisses, clientVars, slotVars, loopVars
<1>5. CASE OnDisconnect
  BY <1>5 DEF OnDisconnect, hostVars, loopVars
<1>6. CASE Connect
  BY <1>6 DEF Connect, hostVars, slotVars, loopVars
<1>7. CASE Receive
  BY <1>7 DEF Receive, clientVars, hostVars, slotVars, faults
<1>8. CASE Received
  BY <1>8 DEF Received, clientVars, hostVars, faults
<1>9. CASE NoReceive
  BY <1>9 DEF NoReceive, clientVars, hostVars, slotVars, faults
<1>10. CASE Send
  BY <1>10 DEF Send, hostVars, slotVars, faults
<1>11. CASE NoSend
  BY <1>11 DEF NoSend, clientVars, hostVars, slotVars, faults
<1>12. CASE UNCHANGED vars
  BY <1>12 DEF vars, clientVars, hostVars, slotVars, loopVars, faults
<1> QED
  BY <1>1, <1>2, <1>3, <1>4, <1>5, <1>6, <1>7, <1>8, <1>9, <1>10, <1>11, <1>12
  DEF Next, Callback, Loop

\* The mutex is what keeps the tasks out of each other's copies: in every case that
\* changes the slot, HolderInv says where the other task is not.
LEMMA SlotStep == SafetyInv /\ [Next]_vars => SlotInv'
<1> SUFFICES ASSUME SafetyInv, [Next]_vars PROVE SlotInv'
  OBVIOUS
<1> USE ViaTransportsAssumption, NoneIsNoPacket DEF SafetyInv, SlotInv
<1>1. CASE ClientWrites
  <2>1. arriving' \in Packet
    BY <1>1 DEF ClientWrites, Packet, TypeOK
  <2> QED BY <1>1, <2>1 DEF ClientWrites, slotVars, loopVars, faults
<1>2. CASE OnWrite
  BY <1>2 DEF OnWrite, clientVars, loopVars, faults, SlotFree, HolderInv
<1>3. CASE OnWriteCopied
  BY <1>3 DEF OnWriteCopied, clientVars, loopVars, faults, HolderInv
<1>4. CASE OnWriteMisses
  BY <1>4 DEF OnWriteMisses, clientVars, slotVars, loopVars
<1>5. CASE OnDisconnect
  BY <1>5 DEF OnDisconnect, hostVars, loopVars, HolderInv
<1>6. CASE Connect
  BY <1>6 DEF Connect, hostVars, slotVars, loopVars
<1>7. CASE Receive
  BY <1>7 DEF Receive, clientVars, hostVars, slotVars, faults
<1>8. CASE Received
  BY <1>8 DEF Received, clientVars, hostVars, faults, HolderInv
<1>9. CASE NoReceive
  BY <1>9 DEF NoReceive, clientVars, hostVars, slotVars, faults
<1>10. CASE Send
  BY <1>10 DEF Send, hostVars, slotVars, faults, TypeOK
<1>11. CASE NoSend
  BY <1>11 DEF NoSend, clientVars, hostVars, slotVars, faults, TypeOK
<1>12. CASE UNCHANGED vars
  BY <1>12 DEF vars, clientVars, hostVars, slotVars, loopVars, faults
<1> QED
  BY <1>1, <1>2, <1>3, <1>4, <1>5, <1>6, <1>7, <1>8, <1>9, <1>10, <1>11, <1>12
  DEF Next, Callback, Loop

LEMMA SafetyInvariant == Spec => []SafetyInv
<1>1. SafetyInv /\ [Next]_vars => SafetyInv'
  BY TypeStep, HolderStep, SlotStep DEF SafetyInv
<1> QED BY <1>1, SafetyInvInit, PTL DEF Spec

\* The slot, the packets in the two tasks' hands and their steps stay within their types.
THEOREM TypeCorrect == Spec => []TypeOK
BY SafetyInvariant, PTL DEF SafetyInv

-----------------------------------------------------------------------------
(* The order in which requests are taken. *)

\* A request on its way has the number of the last one written, one in the slot was
\* written after the last one taken, and none was taken before it was written.  On
\* ESP32 what is on its way may have turned into an answer.
OrderInv ==
  /\ taken <= asked
  /\ hostStep # "idle" => taken < asked
  /\ hostStep = "callback" => arriving.what = "request" /\ arriving.number = asked
  /\ hostStep = "callback" /\ kind = "esp32" /\ value.what = "request" => value.number = asked
  /\ hostStep = "copy" /\ arriving.what = "request" => arriving.number = asked
  /\ pendingRequest /\ front.what = "request" =>
       /\ taken < front.number /\ front.number <= asked
       /\ hostStep = "callback" => front.number < asked
  /\ response # None => response.what = "answer"

LEMMA OrderInvInit == Init => OrderInv
BY DEF Init, OrderInv

LEMMA OrderInvStep == SafetyInv /\ OrderInv /\ [Next]_vars => OrderInv'
<1> SUFFICES ASSUME SafetyInv, OrderInv, [Next]_vars PROVE OrderInv'
  OBVIOUS
<1>0. Requests \in Nat /\ asked \in Nat /\ taken \in Nat
  BY ViaTransportsAssumption DEF SafetyInv, TypeOK
<1>a. \A p \in Packet : p.number \in Nat /\ AnswerTo(p).what = "answer"
  BY DEF Packet, AnswerTo
<1> USE <1>0, <1>a, NoneIsNoPacket DEF SafetyInv, OrderInv
<1>1. CASE ClientWrites
  BY <1>1 DEF ClientWrites, slotVars, loopVars, faults, SlotInv
<1>2. CASE OnWrite
  BY <1>2 DEF OnWrite, clientVars, loopVars, faults, SlotFree, HolderInv, SlotInv
<1>3. CASE OnWriteCopied
  BY <1>3 DEF OnWriteCopied, clientVars, loopVars, faults, HolderInv, SlotInv
<1>4. CASE OnWriteMisses
  BY <1>4 DEF OnWriteMisses, clientVars, slotVars, loopVars
<1>5. CASE OnDisconnect
  BY <1>5 DEF OnDisconnect, hostVars, loopVars, HolderInv
<1>6. CASE Connect
  BY <1>6 DEF Connect, hostVars, slotVars, loopVars
<1>7. CASE Receive
  BY <1>7 DEF Receive, clientVars, hostVars, slotVars, faults
<1>8. CASE Received
  <2>1. hostStep # "copy"
    BY <1>8 DEF Received, HolderInv
  <2>2. inHand = IF pendingRequest THEN front ELSE None
    BY <1>8 DEF Received, SlotInv
  <2>3. CASE pendingRequest
    <3>1. inHand = front /\ front \in Packet /\ ~pendingRequest'
      BY <1>8, <2>2, <2>3 DEF Received, SlotInv
    <3>2. front # None /\ AnswerTo(front).what = "answer"
      BY <3>1
    <3>3. response' = AnswerTo(front)
      BY <1>8, <3>1, <3>2 DEF Received
    <3>4. response'.what = "answer"
      BY <3>2, <3>3
    <3>5. front.number \in Nat
      BY <3>1
    <3>6. taken' <= asked /\ (hostStep = "callback" => taken' < asked)
      BY <1>8, <2>3, <3>1, <3>5 DEF Received
    <3> QED BY <1>8, <2>1, <3>1, <3>4, <3>6 DEF Received, clientVars, hostVars, faults, TypeOK
  <2>4. CASE ~pendingRequest
    <3>1. inHand = None /\ inHand.what # "request" /\ ~pendingRequest'
      BY <1>8, <2>2, <2>4 DEF Received, None
    <3> QED BY <1>8, <2>1, <3>1 DEF Received, clientVars, hostVars, faults
  <2> QED BY <2>3, <2>4
<1>9. CASE NoReceive
  BY <1>9 DEF NoReceive, clientVars, hostVars, slotVars, faults
<1>10. CASE Send
  <2>1. response.what = "answer"
    BY <1>10 DEF Send
  <2> QED BY <1>10, <2>1 DEF Send, hostVars, slotVars, faults
<1>11. CASE NoSend
  <2>1. value' = value \/ value'.what = "answer"
    BY <1>11 DEF NoSend
  <2> QED BY <1>11, <2>1 DEF NoSend, clientVars, hostVars, slotVars, faults
<1>12. CASE UNCHANGED vars
  BY <1>12 DEF vars, clientVars, hostVars, slotVars, loopVars, faults
<1> QED
  BY <1>1, <1>2, <1>3, <1>4, <1>5, <1>6, <1>7, <1>8, <1>9, <1>10, <1>11, <1>12
  DEF Next, Callback, Loop

LEMMA OrderInvariant == Spec => [](SafetyInv /\ OrderInv)
<1>1. SafetyInv /\ OrderInv /\ [Next]_vars => OrderInv'
  BY OrderInvStep
<1> QED BY <1>1, OrderInvInit, SafetyInvariant, PTL DEF Spec

\* No request is carried out twice, and none after a later one: the number of a
\* request that receive() takes out of the slot is above those taken before.
THEOREM RequestsInOrder == Spec => TakenInOrder
<1>1. SafetyInv /\ OrderInv /\ [Next]_vars
        => [Received /\ inHand.what = "request" => inHand.number > taken]_vars
  <2> SUFFICES ASSUME SafetyInv, OrderInv, Received, inHand.what = "request"
               PROVE  inHand.number > taken
    OBVIOUS
  <2>1. pendingRequest /\ inHand = front
    BY DEF Received, SafetyInv, SlotInv, None
  <2>2. front.number \in Nat /\ taken \in Nat
    BY <2>1, ViaTransportsAssumption DEF SafetyInv, SlotInv, TypeOK, Packet
  <2> QED BY <2>1, <2>2 DEF OrderInv
<1> QED BY <1>1, OrderInvariant, PTL DEF Spec, TakenInOrder

-----------------------------------------------------------------------------
(* Whose request it is that is taken. *)

\* ESP32: a request on its way, or in a slot that nobody is reading, is of the client
\* that is connected.  onDisconnect() clears the slot unless the mutex is taken; the
\* host task does not hold it then, so the main loop does, and has the packet already.
OwnerInv ==
  /\ hostStep # "idle" => connected
  /\ hostStep = "callback" /\ kind = "esp32" /\ value.what = "request" => value.client = client
  /\ hostStep = "copy" /\ kind = "esp32" /\ arriving.what = "request" => arriving.client = client
  /\ kind = "esp32" /\ pendingRequest /\ front.what = "request" /\ loopStep # "copy" =>
       connected /\ front.client = client

LEMMA OwnerInvInit == Init => OwnerInv
BY DEF Init, OwnerInv

LEMMA OwnerInvStep == SafetyInv /\ OrderInv /\ OwnerInv /\ [Next]_vars => OwnerInv'
<1> SUFFICES ASSUME SafetyInv, OrderInv, OwnerInv, [Next]_vars PROVE OwnerInv'
  OBVIOUS
<1> USE DEF SafetyInv, OwnerInv
<1>1. CASE ClientWrites
  BY <1>1 DEF ClientWrites, slotVars, loopVars, faults
<1>2. CASE OnWrite
  BY <1>2 DEF OnWrite, clientVars, loopVars, faults
<1>3. CASE OnWriteCopied
  BY <1>3 DEF OnWriteCopied, clientVars, loopVars, faults, SlotInv
<1>4. CASE OnWriteMisses
  BY <1>4 DEF OnWriteMisses, clientVars, slotVars, loopVars
<1>5. CASE OnDisconnect
  BY <1>5 DEF OnDisconnect, hostVars, loopVars, HolderInv, TypeOK
<1>6. CASE Connect
  BY <1>6 DEF Connect, hostVars, slotVars, loopVars
<1>7. CASE Receive
  BY <1>7 DEF Receive, clientVars, hostVars, slotVars, faults
<1>8. CASE Received
  <2>1. ~pendingRequest'
    BY <1>8, NoneIsNoPacket DEF Received, SlotInv
  <2> QED BY <1>8, <2>1 DEF Received, clientVars, hostVars, faults, HolderInv
<1>9. CASE NoReceive
  BY <1>9 DEF NoReceive, clientVars, hostVars, slotVars, faults
<1>10. CASE Send
  BY <1>10 DEF Send, hostVars, slotVars, faults, OrderInv
<1>11. CASE NoSend
  BY <1>11 DEF NoSend, clientVars, hostVars, slotVars, faults, OrderInv
<1>12. CASE UNCHANGED vars
  BY <1>12 DEF vars, clientVars, hostVars, slotVars, loopVars, faults
<1> QED
  BY <1>1, <1>2, <1>3, <1>4, <1>5, <1>6, <1>7, <1>8, <1>9, <1>10, <1>11, <1>12
  DEF Next, Callback, Loop

LEMMA OwnerInvariant == Spec => [](SafetyInv /\ OwnerInv)
<1>1. SafetyInv /\ OrderInv /\ OwnerInv /\ [Next]_vars => OwnerInv'
  BY OwnerInvStep
<1> QED BY <1>1, OwnerInvInit, OrderInvariant, PTL DEF Spec

\* ESP32: once a client has gone, a request of its that was not yet taken never is,
\* whether or not onDisconnect() got the mutex.
THEOREM RequestsDieWithTheirClient == Spec => NoReplay
<1>1. SafetyInv /\ OwnerInv /\ [Next]_vars
        => [Receive /\ kind = "esp32" /\ inHand'.what = "request" =>
              connected /\ inHand'.client = client]_vars
  <2> SUFFICES ASSUME SafetyInv, OwnerInv, Receive, kind = "esp32", inHand'.what = "request"
               PROVE  connected /\ inHand'.client = client
    OBVIOUS
  <2>1. pendingRequest /\ inHand' = front
    BY DEF Receive, None
  <2> QED BY <2>1 DEF Receive, OwnerInv
<1> QED BY <1>1, OwnerInvariant, PTL DEF Spec, NoReplay

-----------------------------------------------------------------------------
(* Whose answer it is that is sent. *)

Asked(p) == p.number = asked /\ p.client = client

\* Clients that wait for their answers, none of which has left without its own: there
\* is nothing under way unless one waits, and then there is one packet at most, in one
\* place, which is its request or the answer to it.
WaitingInv ==
  patient /\ ~abandoned =>
    /\ awaiting => connected
    /\ hostStep # "idle" => awaiting /\ ~pendingRequest /\ response = None
    /\ hostStep = "callback" => Asked(IF kind = "esp32" THEN value ELSE arriving)
    /\ hostStep = "copy" => Asked(arriving)
    /\ pendingRequest => awaiting /\ response = None /\ Asked(front)
    /\ response # None => awaiting /\ Asked(response)

LEMMA WaitingInvInit == Init => WaitingInv
BY DEF Init, WaitingInv

LEMMA WaitingInvStep == SafetyInv /\ WaitingInv /\ [Next]_vars => WaitingInv'
<1> SUFFICES ASSUME SafetyInv, WaitingInv, [Next]_vars, (patient /\ ~abandoned)'
             PROVE  WaitingInv'
  BY DEF WaitingInv
<1> USE DEF SafetyInv, WaitingInv, Asked
<1>1. CASE ClientWrites
  BY <1>1 DEF ClientWrites, slotVars, loopVars, faults
<1>2. CASE OnWrite
  BY <1>2 DEF OnWrite, clientVars, loopVars, faults
<1>3. CASE OnWriteCopied
  BY <1>3 DEF OnWriteCopied, clientVars, loopVars, faults, SlotInv
<1>4. CASE OnWriteMisses
  BY <1>4 DEF OnWriteMisses, clientVars, slotVars, loopVars
<1>5. CASE OnDisconnect
  BY <1>5 DEF OnDisconnect, hostVars, loopVars, TypeOK
<1>6. CASE Connect
  BY <1>6 DEF Connect, hostVars, slotVars, loopVars
<1>7. CASE Receive
  BY <1>7 DEF Receive, clientVars, hostVars, slotVars, faults
<1>8. CASE Received
  <2>1. ~pendingRequest' /\ hostStep # "copy"
    BY <1>8, NoneIsNoPacket DEF Received, SlotInv, HolderInv
  <2>2. CASE pendingRequest
    <3>1. inHand = front /\ front \in Packet /\ Asked(front) /\ hostStep = "idle"
      BY <1>8, <2>1, <2>2 DEF Received, SlotInv, faults, TypeOK
    <3>2. AnswerTo(front).number = front.number /\ AnswerTo(front).client = front.client
      BY <3>1 DEF AnswerTo, Packet
    <3>3. Asked(response')
      BY <1>8, <3>1, <3>2, NoneIsNoPacket DEF Received
    <3> QED BY <1>8, <2>1, <2>2, <3>1, <3>3 DEF Received, clientVars, hostVars, faults
  <2>3. CASE ~pendingRequest
    BY <1>8, <2>1, <2>3 DEF Received, clientVars, hostVars, faults, SlotInv
  <2> QED BY <2>2, <2>3
<1>9. CASE NoReceive
  BY <1>9 DEF NoReceive, clientVars, hostVars, slotVars, faults
<1>10. CASE Send
  BY <1>10 DEF Send, hostVars, slotVars, faults
<1>11. CASE NoSend
  BY <1>11 DEF NoSend, clientVars, hostVars, slotVars, faults
<1>12. CASE UNCHANGED vars
  BY <1>12 DEF vars, clientVars, hostVars, slotVars, loopVars, faults
<1> QED
  BY <1>1, <1>2, <1>3, <1>4, <1>5, <1>6, <1>7, <1>8, <1>9, <1>10, <1>11, <1>12
  DEF Next, Callback, Loop

LEMMA WaitingInvariant == Spec => []WaitingInv
BY WaitingInvStep, WaitingInvInit, SafetyInvariant, PTL DEF Spec

\* A client that waits gets the answer to what it asked, as long as no client before
\* it left without its answer: neither a stale FF61 nor a refused notification that
\* is sent again changes whose answer it is.
THEOREM AnswerIsTheAskers == Spec => AnswersTheAsker
<1>1. WaitingInv /\ [Next]_vars
        => [Send /\ patient /\ ~abandoned => response.number = asked /\ response.client = client]_vars
  BY DEF WaitingInv, Send, Asked
<1> QED BY <1>1, WaitingInvariant, PTL DEF Spec, AnswersTheAsker

-----------------------------------------------------------------------------
(* What it is that is taken. *)

\* Where FF61 is not read back, or reads as what was written because nothing is sent in
\* between, what is on its way is a request.
NoEcho == kind # "esp32" \/ (patient /\ ~abandoned)

WrittenInv ==
  /\ hostStep = "callback" => arriving.what = "request"
  /\ NoEcho =>
       /\ hostStep = "callback" /\ kind = "esp32" => value.what = "request"
       /\ hostStep = "copy" => arriving.what = "request"
       /\ pendingRequest => front.what = "request"

LEMMA WrittenInvInit == Init => WrittenInv
BY DEF Init, WrittenInv

LEMMA WrittenInvStep == SafetyInv /\ WaitingInv /\ WrittenInv /\ [Next]_vars => WrittenInv'
<1> SUFFICES ASSUME SafetyInv, WaitingInv, WrittenInv, [Next]_vars PROVE WrittenInv'
  OBVIOUS
<1>0. NoEcho' => NoEcho
  BY DEF NoEcho, Next, Callback, Loop, vars, faults, ClientWrites, OnWrite, OnWriteCopied,
     OnWriteMisses, OnDisconnect, Connect, Receive, Received, NoReceive, Send, NoSend, SafetyInv, TypeOK
<1> USE <1>0 DEF SafetyInv, WrittenInv
<1>1. CASE ClientWrites
  BY <1>1 DEF ClientWrites, slotVars, loopVars, faults, SlotInv
<1>2. CASE OnWrite
  BY <1>2 DEF OnWrite, clientVars, loopVars, faults
<1>3. CASE OnWriteCopied
  BY <1>3 DEF OnWriteCopied, clientVars, loopVars, faults, SlotInv
<1>4. CASE OnWriteMisses
  BY <1>4 DEF OnWriteMisses, clientVars, slotVars, loopVars
<1>5. CASE OnDisconnect
  BY <1>5 DEF OnDisconnect, hostVars, loopVars, TypeOK
<1>6. CASE Connect
  BY <1>6 DEF Connect, hostVars, slotVars, loopVars
<1>7. CASE Receive
  BY <1>7 DEF Receive, clientVars, hostVars, slotVars, faults
<1>8. CASE Received
  BY <1>8 DEF Received, clientVars, hostVars, faults, TypeOK
<1>9. CASE NoReceive
  BY <1>9 DEF NoReceive, clientVars, hostVars, slotVars, faults
<1>10. CASE Send
  BY <1>10 DEF Send, hostVars, slotVars, faults, NoEcho, WaitingInv
<1>11. CASE NoSend
  BY <1>11 DEF NoSend, clientVars, hostVars, slotVars, faults, NoEcho, WaitingInv
<1>12. CASE UNCHANGED vars
  BY <1>12 DEF vars, clientVars, hostVars, slotVars, loopVars, faults
<1> QED
  BY <1>1, <1>2, <1>3, <1>4, <1>5, <1>6, <1>7, <1>8, <1>9, <1>10, <1>11, <1>12
  DEF Next, Callback, Loop

LEMMA WrittenInvariant == Spec => [](SafetyInv /\ WrittenInv)
<1>1. SafetyInv /\ WaitingInv /\ WrittenInv /\ [Next]_vars => WrittenInv'
  BY WrittenInvStep
<1> QED BY <1>1, WrittenInvInit, WaitingInvariant, SafetyInvariant, PTL DEF Spec

\* However the host task and the main loop interleave, the mutex keeps the packet being
\* copied whole; and it is the one a client wrote, unless FF61 held an answer, which
\* takes ESP32 and a client that does not wait or has left.
THEOREM PacketsAreWhole == Spec => []WholePackets
<1>1. SafetyInv /\ WrittenInv => WholePackets
  <2> SUFFICES ASSUME SafetyInv, WrittenInv, loopStep = "copy", inHand # None
               PROVE  /\ front = inHand /\ back = inHand
                      /\ inHand.what = "answer" => kind = "esp32" /\ (~patient \/ abandoned)
    BY DEF WholePackets
  <2>1. pendingRequest /\ front = inHand /\ back = inHand
    BY DEF SafetyInv, SlotInv
  <2> QED BY <2>1 DEF WrittenInv, NoEcho
<1> QED BY <1>1, WrittenInvariant, PTL

===============================================================================
