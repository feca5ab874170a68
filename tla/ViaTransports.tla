----------------------------- MODULE ViaTransports -----------------------------
(***************************************************************************)
(* The Transports whose host runs beside the main loop: BLEViaTransport    *)
(* for ESP32 and nRF52 (src/src/VIA_ESP32_BLE_ViaTransport.cpp and         *)
(* VIA_nRF52_BLE_ViaTransport.cpp) and RawHID for TinyUSB                  *)
(* (VIA_TinyUSB_RawHID.cpp).  A client's write is put into the one request *)
(* slot by the host task (in an interrupt on TinyUSB); Protocol::task      *)
(* takes it, answers, and sends the answer.                                *)
(*                                                                         *)
(* The slot is guarded by a mutex, which the BLE host task does not wait   *)
(* for, or by disabled interrupts.  A packet is copied in two halves.      *)
(***************************************************************************)
EXTENDS Naturals

CONSTANTS
  Kinds,      \* transports to look at
  Requests,   \* bound: number of requests clients write
  Clients     \* bound: number of clients that connect, one after the other

Kind == {"esp32", "nrf52", "tinyusb"}

ASSUME ViaTransportsAssumption ==
  Kinds \subseteq Kind /\ Requests \in Nat \ {0} /\ Clients \in Nat \ {0}

Packet == [what : {"request", "answer"}, number : 1..Requests, client : 1..Clients]
None   == [what |-> "none", number |-> 0, client |-> 0]

\* Mutant: the answer does not start from the request.
AnswerTo_Afresh(p) == [p EXCEPT !.what = "answer", !.number = 0]

\* The answer is made in the request's own packet.
AnswerTo(p) == [p EXCEPT !.what = "answer"]

VARIABLES
  kind,
  patient,                   \* do clients wait for an answer before they write again?
  client, connected,
  asked,                     \* number of requests written
  awaiting,                  \* is the client waiting for an answer?
  hostStep, arriving,        \* the host task: a write and what it has copied
  value,                     \* what FF61 reads as
  front, back,               \* halves of requestBuffer_
  pendingRequest,
  holder,                    \* who holds the mutex
  loopStep, inHand,          \* the main loop: packet being copied
  response,                  \* Protocol's response buffer, None unless responsePending_
  taken,                     \* history: number of the last request taken
  missed,                    \* history: a write of this client's never found the mutex free
  abandoned                  \* history: a client left while it was waiting

clientVars == <<client, connected, asked, awaiting>>
hostVars   == <<hostStep, arriving>>
slotVars   == <<front, back, pendingRequest>>
loopVars   == <<loopStep, inHand, response, taken>>
faults     == <<missed, abandoned>>
vars == <<kind, patient, clientVars, hostVars, value, slotVars, holder, loopVars, faults>>

-----------------------------------------------------------------------------
(* The client and the host task *)

\* A client writes a request.  FF61 then reads as what was written, which matters on
\* ESP32 only: onWrite() reads it back.
ClientWrites ==
  /\ connected /\ hostStep = "idle" /\ asked < Requests
  /\ patient => ~awaiting
  /\ asked' = asked + 1 /\ awaiting' = TRUE
  /\ arriving' = [what |-> "request", number |-> asked + 1, client |-> client]
  /\ value' = IF kind = "esp32" THEN arriving' ELSE value
  /\ hostStep' = "callback"
  /\ UNCHANGED <<kind, patient, client, connected, slotVars, holder, loopVars, faults>>

SlotFree == holder = "none"

\* onWrite() / setReport(): the first half is copied, unless a request is pending.
\* On ESP32 the packet is what FF61 holds by now.
OnWrite ==
  /\ hostStep = "callback" /\ SlotFree
  /\ \/ /\ ~pendingRequest
        /\ arriving' = IF kind = "esp32" THEN value ELSE arriving
        /\ front' = arriving'
        /\ holder' = "host" /\ hostStep' = "copy"
     \/ /\ pendingRequest                           \* dropped
        /\ hostStep' = "idle"
        /\ UNCHANGED <<arriving, front, holder>>
  /\ UNCHANGED <<kind, patient, clientVars, value, back, pendingRequest, loopVars, faults>>

OnWriteCopied ==
  /\ hostStep = "copy"
  /\ back' = arriving /\ pendingRequest' = TRUE
  /\ holder' = "none" /\ hostStep' = "idle"
  /\ UNCHANGED <<kind, patient, clientVars, arriving, value, front, loopVars, faults>>

\* The BLE host task finds the mutex taken and gives up; an interrupt waits.
OnWriteMisses ==
  /\ hostStep = "callback" /\ kind # "tinyusb" /\ holder = "main"
  /\ hostStep' = "idle" /\ missed' = TRUE
  /\ UNCHANGED <<kind, patient, clientVars, arriving, value, slotVars, holder, loopVars, abandoned>>

\* Mutant: the request of a client that is gone stays.
OnDisconnect_Keeps ==
  /\ connected /\ hostStep = "idle" /\ kind # "tinyusb" /\ client < Clients
  /\ connected' = FALSE /\ awaiting' = FALSE
  /\ abandoned' = (abandoned \/ awaiting)
  /\ UNCHANGED <<kind, patient, client, asked, hostVars, value, slotVars, holder, loopVars, missed>>

\* A BLE client goes.  Only ESP32 has a callback; it clears the pending request,
\* unless it finds the mutex taken.
OnDisconnect ==
  /\ connected /\ hostStep = "idle" /\ kind # "tinyusb" /\ client < Clients
  /\ connected' = FALSE /\ awaiting' = FALSE
  /\ abandoned' = (abandoned \/ awaiting)
  /\ pendingRequest' = (pendingRequest /\ ~(kind = "esp32" /\ holder = "none"))
  /\ UNCHANGED <<kind, patient, client, asked, hostVars, value, front, back, holder, loopVars,
                 missed>>

Connect ==
  /\ ~connected
  /\ connected' = TRUE /\ client' = client + 1
  /\ missed' = FALSE
  /\ UNCHANGED <<kind, patient, asked, awaiting, hostVars, value, slotVars, holder, loopVars,
                 abandoned>>

-----------------------------------------------------------------------------
(* The main loop *)

\* Mutant: the slot is free before the packet is out of it.
Receive_FreesFirst ==
  /\ loopStep = "receive" /\ response = None /\ holder = "none"
  /\ loopStep' = "copy" /\ pendingRequest' = FALSE
  /\ inHand' = IF pendingRequest THEN front ELSE None
  /\ UNCHANGED <<kind, patient, clientVars, hostVars, value, front, back, holder, response,
                 taken, faults>>

\* receive(), asked only while no answer is waiting: the mutex is taken and the
\* first half is copied if there is a request.
Receive ==
  /\ loopStep = "receive" /\ response = None /\ holder = "none"
  /\ holder' = "main" /\ loopStep' = "copy"
  /\ inHand' = IF pendingRequest THEN front ELSE None
  /\ UNCHANGED <<kind, patient, clientVars, hostVars, value, slotVars, response, taken, faults>>

\* Mutant: the request stays in the slot.
Received_Keeps ==
  /\ loopStep = "copy"
  /\ response' = IF inHand # None THEN AnswerTo(inHand) ELSE None
  /\ taken' = IF inHand.what = "request" THEN inHand.number ELSE taken
  /\ holder' = "none" /\ loopStep' = "send"
  /\ UNCHANGED <<kind, patient, clientVars, hostVars, value, slotVars, inHand, faults>>

\* The second half is copied, the mutex given back, and Protocol answers.
Received ==
  /\ loopStep = "copy"
  /\ pendingRequest' = (pendingRequest /\ inHand = None)
  /\ response' = IF inHand # None THEN AnswerTo(inHand) ELSE None
  /\ taken' = IF inHand.what = "request" THEN inHand.number ELSE taken
  /\ holder' = "none" /\ loopStep' = "send"
  /\ UNCHANGED <<kind, patient, clientVars, hostVars, value, front, back, inHand, faults>>

\* An answer is waiting, or the BLE mutex is not to be had in time.
NoReceive ==
  /\ loopStep = "receive"
  /\ response # None \/ (kind # "tinyusb" /\ holder = "host")
  /\ loopStep' = "send"
  /\ UNCHANGED <<kind, patient, clientVars, hostVars, value, slotVars, holder, inHand, response, taken, faults>>

\* send(): the answer reaches the client that is connected now.
Send ==
  /\ loopStep = "send" /\ response # None /\ connected
  /\ value' = response /\ response' = None
  /\ awaiting' = FALSE
  /\ loopStep' = "receive"
  /\ UNCHANGED <<kind, patient, client, connected, asked, hostVars, slotVars, holder, inHand, taken,
                 faults>>

\* Mutant: what could not be sent is forgotten.
NoSend_Forgets ==
  /\ loopStep = "send"
  /\ loopStep' = "receive" /\ response' = None
  /\ UNCHANGED <<kind, patient, clientVars, hostVars, value, slotVars, holder, inHand, taken,
                 faults>>

\* Nothing to send, nobody there, or the notification or the endpoint refuses; a
\* refused BLE notification has changed what FF61 reads.
NoSend ==
  /\ loopStep = "send"
  /\ \/ UNCHANGED value
     \/ kind # "tinyusb" /\ response # None /\ connected /\ value' = response
  /\ loopStep' = "receive"
  /\ UNCHANGED <<kind, patient, clientVars, hostVars, slotVars, holder, inHand, response, taken,
                 faults>>

-----------------------------------------------------------------------------
Init ==
  /\ kind \in Kinds /\ patient \in BOOLEAN
  /\ client = 1 /\ connected = TRUE /\ asked = 0 /\ awaiting = FALSE
  /\ hostStep = "idle" /\ arriving = None
  /\ value = None /\ front = None /\ back = None /\ pendingRequest = FALSE
  /\ holder = "none"
  /\ loopStep = "receive" /\ inHand = None /\ response = None /\ taken = 0
  /\ missed = FALSE /\ abandoned = FALSE

Callback == OnWrite \/ OnWriteCopied \/ OnWriteMisses
Loop     == Receive \/ Received \/ NoReceive \/ Send \/ NoSend
Next == ClientWrites \/ Callback \/ OnDisconnect \/ Connect \/ Loop

Spec == Init /\ [][Next]_vars

\* The main loop goes on and so does the host task: an interrupt is taken when it is
\* next let in.  Clients come back, and a send that is possible time and again gets
\* through.
FairSpec ==
  Spec /\ SF_vars(Callback) /\ WF_vars(Loop) /\ WF_vars(Connect) /\ SF_vars(Send)

-----------------------------------------------------------------------------
\* What the slot, the packets in the two tasks' hands and their steps range over.
TypeOK ==
  /\ kind \in Kind /\ patient \in BOOLEAN
  /\ client \in 1..Clients /\ asked \in 0..Requests /\ taken \in 0..Requests
  /\ {connected, awaiting, pendingRequest, missed, abandoned} \subseteq BOOLEAN
  /\ {arriving, value, front, back, inHand, response} \subseteq Packet \cup {None}
  /\ hostStep \in {"idle", "callback", "copy"}
  /\ loopStep \in {"receive", "copy", "send"}
  /\ holder \in {"none", "host", "main"}

\* receive() never hands over half of one packet and half of another, the host task never
\* writes into a slot it is reading, and the packet is the one a client wrote -- but for an
\* answer that onWrite() read back from FF61 on ESP32, which takes a client that does not
\* wait, or one that left before its answer came.
WholePackets ==
  loopStep = "copy" /\ inHand # None =>
    /\ front = inHand /\ back = inHand
    /\ inHand.what = "answer" => kind = "esp32" /\ (~patient \/ abandoned)

\* No request is carried out twice, and none after a later one.
TakenInOrder == [][Received /\ inHand.what = "request" => inHand.number > taken]_vars

\* ESP32: once a client has gone, a request of its that was not yet taken never is,
\* whether or not onDisconnect() got the mutex.
NoReplay ==
  [][Receive /\ kind = "esp32" /\ inHand'.what = "request" =>
       connected /\ inHand'.client = client]_vars

\* A client that waits gets the answer to what it asked, as long as no client
\* before it left without its answer.
AnswersTheAsker ==
  [][Send /\ patient /\ ~abandoned => response.number = asked /\ response.client = client]_vars

\* A client that waits is answered, unless the host task gave up on the mutex.
PatientAnswered == patient /\ awaiting ~> ~awaiting \/ missed
=============================================================================
