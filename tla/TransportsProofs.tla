--------------------------- MODULE TransportsProofs ---------------------------
(* Proofs about UsbDevice under the main loop of BootCoordinator, and about    *)
(* both kinds of Transport together: buffers in flight are left alone, requests *)
(* are taken once and whole, a busy endpoint becomes free unless its completion *)
(* was lost, and the jump to the bootloader leaves nothing behind.             *)
EXTENDS MCTransports, ViaTransportsProofs

\* MvpSpec but for its fairness.
MvpSafety == MvpInit /\ [][MvpNext]_mvpVars

\* A send() under way belongs to the step the main loop is in, and has something to send.
SendingInv ==
  /\ sending # "no" => \/ step = "answer" /\ answer # Nothing
                       \/ step = "report"
                       \/ step = "boot" /\ boot = "saved"
  /\ sending = "transmit" => buffer[SendingOn] # Nothing
  /\ boot = "saved" => step = "boot"

\* MvpTypeOK, and the buffers as functions.
MvpTypeInv ==
  /\ MvpTypeOK /\ SendingInv
  /\ buffer \in [Endpoint -> Nat] /\ wire \in [Endpoint -> Nat]

LEMMA BytesAre == \A e \in Endpoint : Bytes(e) \subseteq Nat /\ Nothing \in Bytes(e)
BY UsbAssumption DEF Bytes, Report, Up, Down, Nothing

LEMMA MvpTypeInvInit == MvpInit => MvpTypeInv
<1> SUFFICES ASSUME MvpInit PROVE MvpTypeInv
  OBVIOUS
<1>1. \A e \in Endpoint : buffer[e] = Nothing /\ wire[e] = Nothing
  BY DEF MvpInit, UsbInit
<1>2. buffer \in [Endpoint -> Nat] /\ wire \in [Endpoint -> Nat] /\ busy \in [Endpoint -> BOOLEAN]
  BY DEF MvpInit, UsbInit, Nothing
<1>3. Nothing \in 0..UsbRequests /\ Up \in Report
  BY UsbAssumption DEF Nothing, Report
<1>4. UsbTypeOK
  BY <1>1, <1>2, <1>3, BytesAre DEF MvpInit, UsbInit, UsbTypeOK, Nothing
<1> QED BY <1>2, <1>4 DEF MvpInit, UsbInit, MvpTypeInv, MvpTypeOK, SendingInv, BootState

\* What an interrupt does to the buffers and to the host.
LEMMA InterruptTypes == MvpTypeInv /\ Interrupts => MvpTypeInv'
<1> SUFFICES ASSUME MvpTypeInv, Interrupts PROVE MvpTypeInv'
  OBVIOUS
<1> USE BytesAre, UsbAssumption
    DEF MvpTypeInv, MvpTypeOK, UsbTypeOK, SendingInv, SendingOn, usbVars, bootVars, endpoints,
        mailboxes, usbHost, taking, usbFaults
<1>1. CASE ClassInit
  BY <1>1 DEF ClassInit, Interrupts
<1>2. CASE ClassDeInit
  BY <1>2 DEF ClassDeInit, Interrupts, Report, Up, Nothing
<1>3. ASSUME NEW e \in Endpoint, DataIn(e) PROVE MvpTypeInv'
  <2>1. wire' \in [Endpoint -> Nat] /\ \A f \in Endpoint : wire'[f] \in Bytes(f)
    BY <1>3 DEF DataIn
  <2>2. busy' \in [Endpoint -> BOOLEAN] /\ lost' \subseteq Endpoint
    BY <1>3 DEF DataIn
  <2>3. hostReport' \in Report /\ unanswered' \in BOOLEAN
    BY <1>3 DEF DataIn, Bytes, Endpoint
  <2> QED BY <1>3, <2>1, <2>2, <2>3 DEF DataIn, Interrupts
<1>4. CASE DataOut
  BY <1>4 DEF DataOut, Interrupts
<1>5. CASE Ep0RxReady
  BY <1>5 DEF Ep0RxReady, Interrupts
<1> QED BY <1>1, <1>2, <1>3, <1>4, <1>5 DEF Interrupts, Interrupt

\* What a call of send() does to the endpoints.
LEMMA SendTypes ==
  ASSUME MvpTypeInv, NEW e \in Endpoint,
         \/ \E bytes \in Bytes(e) \ {Nothing} : SendCopies(e, bytes)
         \/ SendRefuses(e) \/ Transmits(e) \/ TransmitFails \/ SetsBusy(e)
  PROVE  /\ buffer' \in [Endpoint -> Nat] /\ wire' \in [Endpoint -> Nat]
         /\ busy' \in [Endpoint -> BOOLEAN] /\ lost' \subseteq Endpoint
         /\ sending' \in {"no", "transmit", "flag"}
         /\ \A f \in Endpoint : buffer'[f] \in Bytes(f) /\ wire'[f] \in Bytes(f)
<1> USE BytesAre DEF MvpTypeInv, MvpTypeOK, UsbTypeOK, endpoints
<1>1. ASSUME NEW bytes \in Bytes(e) \ {Nothing}, SendCopies(e, bytes)
      PROVE  /\ buffer' \in [Endpoint -> Nat] /\ UNCHANGED <<wire, busy, lost>>
             /\ sending' = "transmit" /\ \A f \in Endpoint : buffer'[f] \in Bytes(f)
  <2>1. bytes \in Nat
    BY <1>1
  <2> QED BY <1>1, <2>1 DEF SendCopies
<1>2. CASE Transmits(e)
  BY <1>2 DEF Transmits
<1>3. CASE SetsBusy(e)
  BY <1>3 DEF SetsBusy
<1>4. CASE SendRefuses(e) \/ TransmitFails
  BY <1>4 DEF SendRefuses, TransmitFails
<1> QED BY <1>1, <1>2, <1>3, <1>4

LEMMA LoopTypes == MvpTypeInv /\ (RequestBoot \/ MvpLoop) => MvpTypeInv'
<1> SUFFICES ASSUME MvpTypeInv, RequestBoot \/ MvpLoop PROVE MvpTypeInv'
  OBVIOUS
<1> USE BytesAre, UsbAssumption
    DEF MvpTypeInv, MvpTypeOK, UsbTypeOK, SendingInv, SendingOn, usbVars, bootVars, endpoints,
        mailboxes, usbHost, taking, usbFaults, Elsewhere, BootState
<1>1. CASE RequestBoot
  BY <1>1 DEF RequestBoot
<1>2. CASE Setup
  BY <1>2 DEF Setup
<1>3. CASE TakeRequest
  BY <1>3 DEF TakeRequest, ReceiveBegins, ReceiveNone, ReceiveCopies, Nothing
<1>4. CASE HandleRequest
  BY <1>4 DEF HandleRequest, ReceiveEnds, Does
<1>5. CASE SendAnswer
  <2>1. "via" \in Endpoint /\ (answer # Nothing => answer \in Bytes("via") \ {Nothing})
    BY DEF Endpoint, Bytes, Nothing
  <2>2. answer # Nothing /\ SendCopies("via", answer) => buffer'["via"] = answer
    BY <2>1 DEF SendCopies
  <2>3. /\ buffer' \in [Endpoint -> Nat] /\ wire' \in [Endpoint -> Nat]
        /\ busy' \in [Endpoint -> BOOLEAN] /\ lost' \subseteq Endpoint
        /\ sending' \in {"no", "transmit", "flag"}
        /\ \A f \in Endpoint : buffer'[f] \in Bytes(f) /\ wire'[f] \in Bytes(f)
    BY <1>5, <2>1, SendTypes DEF SendAnswer
  <2> HIDE DEF Elsewhere
  <2>4. step' \in {"answer", "save"} /\ answer' \in {answer, Nothing} /\ step = "answer"
    BY <1>5 DEF SendAnswer
  <2>5. meanwhile' \subseteq {"edit", "answer", "report"} /\ refused' \subseteq {"release", "answer"}
    BY <1>5 DEF SendAnswer, Does, AnswerRefused
  <2>6. boot' # "saved"
    BY <1>5 DEF SendAnswer
  <2>7. sending' # "no" => step' = "answer" /\ answer' # Nothing
    BY <1>5 DEF SendAnswer, SendCopies, SendRefuses, Transmits, TransmitFails, SetsBusy
  <2>8. sending' = "transmit" => step' = "answer" /\ buffer'["via"] # Nothing
    BY <1>5, <2>2, <2>7 DEF SendAnswer, SendCopies, SendRefuses, Transmits, TransmitFails, SetsBusy
  <2>9. SendingInv'
    BY <2>4, <2>6, <2>7, <2>8
  <2>a. answer' \in 0..UsbRequests
    BY <2>4 DEF Nothing
  <2>10. UsbTypeOK'
    BY <1>5, <2>3, <2>4, <2>a DEF SendAnswer, Elsewhere
  <2> QED BY <1>5, <2>3, <2>5, <2>9, <2>10 DEF SendAnswer
<1>6. CASE AutoSaves
  BY <1>6 DEF AutoSaves
<1>7. CASE TakeLeds
  BY <1>7 DEF TakeLeds, LedsCopy, LedsClear, LedsNone
<1>8. CASE SendReport
  <2>1. "keyboard" \in Endpoint /\ Report \subseteq Bytes("keyboard") \ {Nothing}
    BY DEF Endpoint, Bytes, Report, Up, Down, Nothing
  <2>2. \A r \in Report : SendCopies("keyboard", r) => buffer'["keyboard"] # Nothing
    BY <2>1 DEF SendCopies
  <2>3. /\ buffer' \in [Endpoint -> Nat] /\ wire' \in [Endpoint -> Nat]
        /\ busy' \in [Endpoint -> BOOLEAN] /\ lost' \subseteq Endpoint
        /\ sending' \in {"no", "transmit", "flag"}
        /\ \A f \in Endpoint : buffer'[f] \in Bytes(f) /\ wire'[f] \in Bytes(f)
    BY <1>8, <2>1, SendTypes DEF SendReport
  <2> HIDE DEF Elsewhere
  <2>4. step' \in {"report", "boot"} /\ step = "report"
    BY <1>8 DEF SendReport
  <2>5. meanwhile' \subseteq {"edit", "answer", "report"}
    BY <1>8 DEF SendReport, Does
  <2>6. SendingInv'
    BY <1>8, <2>2 DEF SendReport, SendCopies, SendRefuses, Transmits, TransmitFails, SetsBusy
  <2> QED BY <1>8, <2>3, <2>4, <2>5, <2>6 DEF SendReport, Elsewhere
<1>9. CASE BootReleases
  <2>1. "keyboard" \in Endpoint /\ Up \in Bytes("keyboard") \ {Nothing}
    BY DEF Endpoint, Bytes, Report, Up, Down, Nothing
  <2>2. SendCopies("keyboard", Up) => buffer'["keyboard"] # Nothing
    BY <2>1 DEF SendCopies
  <2>3. /\ buffer' \in [Endpoint -> Nat] /\ wire' \in [Endpoint -> Nat]
        /\ busy' \in [Endpoint -> BOOLEAN] /\ lost' \subseteq Endpoint
        /\ sending' \in {"no", "transmit", "flag"}
        /\ \A f \in Endpoint : buffer'[f] \in Bytes(f) /\ wire'[f] \in Bytes(f)
    BY <1>9, <2>1, SendTypes DEF BootReleases
  <2> HIDE DEF Elsewhere
  <2>4. /\ step' \in {"boot", "receive"} /\ boot' \in {boot, "keyboardRelease"}
        /\ refused' \subseteq {"release", "answer"}
    BY <1>9 DEF BootReleases
  <2>5. SendingInv'
    BY <1>9, <2>2 DEF BootReleases, SendCopies, SendRefuses, Transmits, TransmitFails, SetsBusy
  <2> QED BY <1>9, <2>3, <2>4, <2>5 DEF BootReleases, Elsewhere
<1>10. CASE BootIdle \/ BootSaves \/ BootWaits \/ BootDetaches \/ BootJumps
  BY <1>10 DEF BootIdle, BootSaves, BootWaits, BootDetaches, BootJumps
<1>11. CASE Bootloader
  BY <1>11 DEF Bootloader, mvpVars
<1> QED
  BY <1>1, <1>2, <1>3, <1>4, <1>5, <1>6, <1>7, <1>8, <1>9, <1>10, <1>11 DEF MvpLoop

LEMMA MvpTypeInvariant == MvpSafety => []MvpTypeInv
<1>1. MvpTypeInv /\ UNCHANGED mvpVars => MvpTypeInv'
  BY DEF MvpTypeInv, MvpTypeOK, UsbTypeOK, SendingInv, SendingOn, Bytes, mvpVars, usbVars, bootVars,
         endpoints, mailboxes, usbHost, taking, usbFaults
<1>2. MvpTypeInv /\ [MvpNext]_mvpVars => MvpTypeInv'
  BY <1>1, InterruptTypes, LoopTypes DEF MvpNext
<1> QED BY <1>2, MvpTypeInvInit, PTL DEF MvpSafety

-----------------------------------------------------------------------------
(* The endpoints *)

\* A transfer under way is of what is in the buffer, and its endpoint is busy, or about
\* to be flagged so.  An endpoint that is flagged, or about to be, has a transfer under
\* way or has lost its end.
EndpointInv ==
  /\ \A e \in Endpoint : wire[e] # Nothing => wire[e] = buffer[e] /\ (busy[e] \/ Flagging(e))
  /\ \A e \in Endpoint : busy[e] \/ Flagging(e) => wire[e] # Nothing \/ e \in lost
  /\ ~configured => hostReport = Up /\ \A e \in Endpoint : wire[e] = Nothing

LEMMA EndpointInvInit == MvpInit => EndpointInv
BY DEF MvpInit, UsbInit, EndpointInv, Flagging, Nothing

LEMMA InterruptKeepsEndpoints == MvpTypeInv /\ EndpointInv /\ Interrupts => EndpointInv'
<1> SUFFICES ASSUME MvpTypeInv, EndpointInv, Interrupts PROVE EndpointInv'
  OBVIOUS
<1> USE DEF MvpTypeInv, MvpTypeOK, UsbTypeOK, EndpointInv, Flagging, SendingOn, endpoints, usbHost,
        usbFaults
<1>1. CASE ClassInit
  BY <1>1 DEF ClassInit
<1>2. CASE ClassDeInit
  BY <1>2 DEF ClassDeInit
<1>3. ASSUME NEW e \in Endpoint, DataIn(e) PROVE EndpointInv'
  BY <1>3 DEF DataIn
<1>4. CASE DataOut
  BY <1>4 DEF DataOut
<1>5. CASE Ep0RxReady
  BY <1>5 DEF Ep0RxReady
<1> QED BY <1>1, <1>2, <1>3, <1>4, <1>5 DEF Interrupts, Interrupt

\* What the main loop does besides sending, while no send() is under way.
Elsewise ==
  \/ RequestBoot \/ Setup \/ TakeRequest \/ HandleRequest \/ AutoSaves \/ TakeLeds
  \/ BootIdle \/ BootSaves \/ BootWaits \/ BootDetaches \/ BootJumps \/ Bootloader

LEMMA ElsewiseSpares ==
  ASSUME MvpTypeInv, Elsewise \/ UNCHANGED mvpVars
  PROVE  UNCHANGED <<configured, busy, buffer, wire, sending, lost, hostReport>>
         /\ (sending # "no" => UNCHANGED step)
BY DEF Elsewise, MvpTypeInv, SendingInv, RequestBoot, Setup, TakeRequest, ReceiveBegins, ReceiveNone,
       ReceiveCopies, HandleRequest, ReceiveEnds, AutoSaves, TakeLeds, LedsCopy, LedsClear, LedsNone,
       BootIdle, BootSaves, BootWaits, BootDetaches, BootJumps, Bootloader, Elsewhere, mvpVars,
       usbVars, endpoints, usbHost, usbFaults

\* A call of send() on the endpoint e goes one step further.
SendGoesOn(e) ==
  \/ \E bytes \in Bytes(e) \ {Nothing} : SendCopies(e, bytes)
  \/ SendRefuses(e) \/ Transmits(e) \/ TransmitFails \/ SetsBusy(e)
  \/ sending = "no" /\ UNCHANGED <<endpoints, sending, lost>>

\* The three callers of send() give it something to send, and wait for it to end.
LEMMA Sends ==
  ASSUME MvpTypeInv, SendAnswer \/ SendReport \/ BootReleases
  PROVE  /\ UNCHANGED <<configured, hostReport>>
         /\ sending' # "no" => UNCHANGED step
         /\ SendGoesOn(SendingOn)
<1> USE DEF MvpTypeInv, MvpTypeOK, UsbTypeOK, SendingOn, SendGoesOn, Elsewhere, usbHost
<1>1. CASE SendAnswer
  <2>1. answer # Nothing => answer \in Bytes("via") \ {Nothing}
    BY DEF Bytes, Nothing
  <2>2. answer = Nothing => sending = "no" \/ ~SendAnswer
    BY DEF SendAnswer, SendingInv
  <2>3. step = "answer"
    BY <1>1 DEF SendAnswer
  <2>4. SendGoesOn("via")
    BY <1>1, <2>1, <2>2 DEF SendAnswer
  <2>5. sending' # "no" => UNCHANGED step
    BY <1>1, <2>2 DEF SendAnswer, SendRefuses, TransmitFails, SetsBusy
  <2> QED BY <1>1, <2>3, <2>4, <2>5 DEF SendAnswer
<1>2. CASE SendReport
  <2>1. Report \subseteq Bytes("keyboard") \ {Nothing}
    BY DEF Bytes, Report, Up, Down, Nothing
  <2>2. SendGoesOn("keyboard") /\ step = "report"
    BY <1>2, <2>1 DEF SendReport
  <2>3. sending' # "no" => UNCHANGED step
    BY <1>2 DEF SendReport, SendRefuses, TransmitFails, SetsBusy
  <2> QED BY <1>2, <2>2, <2>3 DEF SendReport
<1>3. CASE BootReleases
  <2>1. Up \in Bytes("keyboard") \ {Nothing}
    BY DEF Bytes, Report, Up, Down, Nothing
  <2>2. SendGoesOn("keyboard") /\ step = "boot"
    BY <1>3, <2>1 DEF BootReleases
  <2>3. sending' # "no" => UNCHANGED step
    BY <1>3 DEF BootReleases, SendRefuses, TransmitFails, SetsBusy
  <2> QED BY <1>3, <2>2, <2>3 DEF BootReleases
<1> QED BY <1>1, <1>2, <1>3

LEMMA SendKeepsEndpoints ==
  ASSUME MvpTypeInv, EndpointInv, SendAnswer \/ SendReport \/ BootReleases
  PROVE  EndpointInv'
<1> DEFINE e == SendingOn
<1>0. /\ e \in Endpoint /\ UNCHANGED <<configured, hostReport>>
      /\ sending' # "no" => SendingOn' = e
      /\ SendGoesOn(e)
  BY Sends DEF SendingOn, Endpoint
<1> HIDE DEF e
<1> USE <1>0 DEF MvpTypeInv, MvpTypeOK, UsbTypeOK, EndpointInv, Flagging, endpoints
<1>1. ASSUME NEW bytes \in Bytes(e) \ {Nothing}, SendCopies(e, bytes) PROVE EndpointInv'
  BY <1>1 DEF SendCopies, MaySend
<1>2. CASE SendRefuses(e) \/ TransmitFails \/ (sending = "no" /\ UNCHANGED <<endpoints, sending, lost>>)
  BY <1>2 DEF SendRefuses, TransmitFails
<1>3. CASE Transmits(e)
  <2>1. buffer[e] # Nothing /\ buffer[e] \in Nat
    BY <1>3 DEF Transmits, SendingInv, e
  <2> QED BY <1>3, <2>1 DEF Transmits
<1>4. CASE SetsBusy(e)
  <2>1. SendingOn = e
    BY DEF e
  <2> QED BY <1>4, <2>1 DEF SetsBusy
<1> QED BY <1>1, <1>2, <1>3, <1>4 DEF SendGoesOn

LEMMA EndpointInvStep == MvpTypeInv /\ EndpointInv /\ [MvpNext]_mvpVars => EndpointInv'
<1> SUFFICES ASSUME MvpTypeInv, EndpointInv, [MvpNext]_mvpVars PROVE EndpointInv'
  OBVIOUS
<1>1. CASE Elsewise \/ UNCHANGED mvpVars
  BY <1>1, ElsewiseSpares DEF EndpointInv, Flagging, SendingOn
<1>2. CASE Interrupts
  BY <1>2, InterruptKeepsEndpoints
<1>3. CASE SendAnswer \/ SendReport \/ BootReleases
  BY <1>3, SendKeepsEndpoints
<1> QED BY <1>1, <1>2, <1>3 DEF MvpNext, MvpLoop, Elsewise

LEMMA EndpointInvariant == MvpSafety => [](MvpTypeInv /\ EndpointInv)
<1>1. MvpTypeInv /\ EndpointInv /\ [MvpNext]_mvpVars => EndpointInv'
  BY EndpointInvStep
<1> QED BY <1>1, EndpointInvInit, MvpTypeInvariant, PTL DEF MvpSafety

\* An endpoint that is busy is in the middle of a transfer, whose end will free it,
\* unless the completion came before send() set the flag or was lost to a reset.
THEOREM BusyEndpointsWillEnd == MvpSpec => []BusyWillEnd
<1>1. EndpointInv => BusyWillEnd
  BY DEF EndpointInv, BusyWillEnd
<1> QED BY <1>1, EndpointInvariant, PTL DEF MvpSpec, MvpSafety

\* What is being transferred is not written to: send() looks at a flag that is set
\* whenever a transfer is under way and no send() is.
THEOREM TransfersUntouched == MvpSpec => []InFlightUntouched
<1>1. EndpointInv => InFlightUntouched
  BY DEF EndpointInv, InFlightUntouched
<1> QED BY <1>1, EndpointInvariant, PTL DEF MvpSpec, MvpSafety

-----------------------------------------------------------------------------
(* The two mailboxes of the interrupts *)

AnswerFlagging == step = "answer" /\ sending = "flag"

\* Whatever the host does: via_out_buf_ has the last request written, and what receive()
\* copies from it is above the last one taken.  The main loop falls behind the host only
\* while the flag says so, or if the flag was cleared for a request that came late.
MailboxInv ==
  /\ out = written /\ lastTaken <= written
  /\ rxReady /\ step \notin {"copy", "clear"} => lastTaken < written
  /\ step \in {"copy", "clear"} =>
       lastTaken < hand[1] /\ hand[1] <= written /\ (outRaced \/ hand[1] = written)
  /\ step = "clear" => hand[1] <= hand[2] /\ hand[2] <= written /\ (outRaced \/ hand[2] = written)
  /\ lastTaken = written \/ rxReady \/ outRaced

LEMMA MailboxInvInit == MvpInit => MailboxInv
BY DEF MvpInit, UsbInit, MailboxInv, Nothing

LEMMA MailboxInvStep == MvpTypeInv /\ MailboxInv /\ [MvpNext]_mvpVars => MailboxInv'
<1> SUFFICES ASSUME MvpTypeInv, MailboxInv, [MvpNext]_mvpVars PROVE MailboxInv'
  OBVIOUS
<1>0. /\ out \in Nat /\ written \in Nat /\ lastTaken \in Nat
      /\ hand \in Nat \X Nat /\ {rxReady, outRaced} \subseteq BOOLEAN
  BY UsbAssumption DEF MvpTypeInv, MvpTypeOK, UsbTypeOK
<1> DEFINE kept == <<out, rxReady, written, hand, lastTaken, outRaced>>
<1>1. ASSUME UNCHANGED kept, UNCHANGED step \/ (step \notin {"copy", "clear"} /\ step' \notin {"copy", "clear"})
      PROVE  MailboxInv'
  BY <1>0, <1>1 DEF MailboxInv
<1> USE DEF mailboxes, usbHost, taking, usbFaults, usbVars, Elsewhere
<1>2. CASE ClassInit \/ ClassDeInit \/ Ep0RxReady
  BY <1>1, <1>2 DEF ClassInit, ClassDeInit, Ep0RxReady
<1>3. ASSUME NEW e \in Endpoint, DataIn(e) PROVE MailboxInv'
  BY <1>1, <1>3 DEF DataIn
<1>4. CASE DataOut
  BY <1>0, <1>4 DEF DataOut, MailboxInv
<1>5. CASE TakeRequest
  <2>1. UNCHANGED <<out, rxReady, written, lastTaken, outRaced>>
    BY <1>5 DEF TakeRequest, ReceiveBegins, ReceiveNone, ReceiveCopies
  <2>2. CASE ReceiveBegins
    BY <1>0, <2>1, <2>2 DEF ReceiveBegins, MailboxInv
  <2>3. CASE ReceiveNone
    BY <1>0, <2>1, <2>3 DEF ReceiveNone, MailboxInv
  <2>4. CASE ReceiveCopies
    <3>1. step = "copy" /\ step' = "clear" /\ hand' = <<hand[1], written>>
      BY <2>4 DEF ReceiveCopies, MailboxInv
    <3>2. hand'[1] = hand[1] /\ hand'[2] = written
      BY <3>1
    <3> QED BY <1>0, <2>1, <3>1, <3>2 DEF MailboxInv
  <2> QED BY <1>5, <2>2, <2>3, <2>4 DEF TakeRequest
<1>6. CASE HandleRequest
  <2>1. /\ step = "clear" /\ step' = "answer" /\ ~rxReady' /\ lastTaken' = hand[1]
        /\ UNCHANGED <<out, written, outRaced>>
    BY <1>6 DEF HandleRequest, ReceiveEnds
  <2> QED BY <1>0, <2>1 DEF MailboxInv
<1>7. CASE RequestBoot \/ Setup \/ AutoSaves \/ TakeLeds
  BY <1>1, <1>7 DEF RequestBoot, Setup, AutoSaves, TakeLeds, LedsCopy, LedsClear, LedsNone
<1>8. CASE SendAnswer \/ SendReport \/ BootReleases
  BY <1>1, <1>8 DEF SendAnswer, SendReport, BootReleases
<1>9. CASE BootIdle \/ BootSaves \/ BootWaits \/ BootDetaches \/ BootJumps
  BY <1>1, <1>9 DEF BootIdle, BootSaves, BootWaits, BootDetaches, BootJumps
<1>10. CASE Bootloader \/ UNCHANGED mvpVars
  BY <1>1, <1>10 DEF Bootloader, mvpVars
<1> QED
  BY <1>2, <1>3, <1>4, <1>5, <1>6, <1>7, <1>8, <1>9, <1>10 DEF MvpNext, MvpLoop, Interrupts, Interrupt

LEMMA MailboxInvariant == MvpSafety => []MailboxInv
BY MailboxInvInit, MailboxInvStep, MvpTypeInvariant, PTL DEF MvpSafety

\* A host that waits for its answers, and was not reset while it waited, has one
\* request under way at most: in via_out_buf_, in the main loop's hands, or answered
\* and on the wire.  Only between the end of that transfer and the flag of its send()
\* can the next request be there before Protocol has let go of the answer.
RequestInv ==
  host = "waits" /\ ~resetMidway =>
    /\ ~outRaced /\ written <= lastTaken + 1
    /\ rxReady =>
         /\ unanswered /\ wire["via"] = Nothing /\ (answer # Nothing => AnswerFlagging)
    /\ wire["via"] # Nothing => unanswered
    /\ answer # Nothing /\ ~AnswerFlagging => unanswered /\ wire["via"] = Nothing
    /\ step \in {"copy", "clear"} => rxReady /\ answer = Nothing

LEMMA RequestInvInit == MvpInit => RequestInv
BY DEF MvpInit, UsbInit, RequestInv, AnswerFlagging, Nothing, Endpoint

LEMMA InterruptKeepsRequest == MvpTypeInv /\ MailboxInv /\ RequestInv /\ Interrupts => RequestInv'
<1> SUFFICES ASSUME MvpTypeInv, MailboxInv, RequestInv, Interrupts, (host = "waits" /\ ~resetMidway)'
             PROVE  RequestInv'
  BY DEF RequestInv
<1> USE DEF RequestInv, AnswerFlagging, endpoints, mailboxes, usbHost, taking, usbFaults
<1>0. /\ "via" \in Endpoint /\ wire \in [Endpoint -> Nat] /\ unanswered \in BOOLEAN
      /\ written \in Nat /\ lastTaken \in Nat /\ resetMidway \in BOOLEAN
  BY UsbAssumption DEF Endpoint, MvpTypeInv, MvpTypeOK, UsbTypeOK
<1>1. CASE ClassInit
  BY <1>1 DEF ClassInit
<1>2. CASE ClassDeInit
  BY <1>0, <1>2 DEF ClassDeInit
<1>3. ASSUME NEW e \in Endpoint, DataIn(e) PROVE RequestInv'
  <2>1. UNCHANGED <<host, resetMidway, outRaced, mailboxes, step, sending, taking, written>>
    BY <1>3 DEF DataIn
  <2>2. CASE e = "via"
    <3>1. wire["via"] # Nothing /\ ~unanswered' /\ wire'["via"] = Nothing
      BY <1>0, <1>3, <2>2 DEF DataIn
    <3>2. ~rxReady /\ (answer # Nothing => AnswerFlagging) /\ step # "copy" /\ step # "clear"
      BY <2>1, <3>1
    <3> QED BY <2>1, <3>1, <3>2
  <2>3. CASE e # "via"
    <3>1. wire'["via"] = wire["via"] /\ UNCHANGED unanswered
      BY <1>0, <1>3, <2>3 DEF DataIn
    <3> QED BY <2>1, <3>1
  <2> QED BY <2>2, <2>3
<1>4. CASE DataOut
  <2>1. ~unanswered /\ ~rxReady /\ ~outRaced /\ step \notin {"copy", "clear"}
    BY <1>4 DEF DataOut
  <2>2. written' = lastTaken + 1 /\ ~outRaced'
    BY <1>0, <1>4, <2>1 DEF DataOut, MailboxInv
  <2> QED BY <1>0, <1>4, <2>1, <2>2 DEF DataOut
<1>5. CASE Ep0RxReady
  BY <1>5 DEF Ep0RxReady
<1> QED BY <1>1, <1>2, <1>3, <1>4, <1>5 DEF Interrupts, Interrupt

\* The steps that neither take a request nor answer one.
LEMMA ElsewiseKeepsRequest ==
  MvpTypeInv /\ EndpointInv /\ MailboxInv /\ RequestInv /\ (Elsewise \/ SendReport \/ BootReleases)
    => RequestInv'
<1> SUFFICES ASSUME MvpTypeInv, EndpointInv, MailboxInv, RequestInv, Elsewise \/ SendReport \/ BootReleases,
                    (host = "waits" /\ ~resetMidway)'
             PROVE  RequestInv'
  BY DEF RequestInv
<1> USE DEF RequestInv, AnswerFlagging, endpoints, mailboxes, usbHost, taking, usbFaults, usbVars,
            bootVars, Elsewhere
<1>0. wire \in [Endpoint -> Nat] /\ lastTaken \in Nat /\ written \in Nat
  BY UsbAssumption DEF MvpTypeInv, MvpTypeOK, UsbTypeOK
<1>1. CASE SendReport \/ BootReleases
  <2>1. wire'["via"] = wire["via"]
    BY <1>0, <1>1 DEF SendReport, BootReleases, SendCopies, SendRefuses, Transmits, TransmitFails,
                      SetsBusy, Endpoint
  <2> QED BY <1>1, <2>1 DEF SendReport, BootReleases
<1>2. CASE RequestBoot \/ Setup \/ AutoSaves
  BY <1>2 DEF RequestBoot, Setup, AutoSaves
<1>3. CASE TakeRequest
  BY <1>3 DEF TakeRequest, ReceiveBegins, ReceiveNone, ReceiveCopies
<1>4. CASE HandleRequest
  BY <1>0, <1>4 DEF HandleRequest, ReceiveEnds, MailboxInv
<1>5. CASE TakeLeds
  BY <1>5 DEF TakeLeds, LedsCopy, LedsClear, LedsNone
<1>6. CASE BootIdle \/ BootSaves \/ BootWaits \/ BootDetaches \/ BootJumps \/ Bootloader
  BY <1>6 DEF BootIdle, BootSaves, BootWaits, BootDetaches, BootJumps, Bootloader, mvpVars
<1> QED BY <1>1, <1>2, <1>3, <1>4, <1>5, <1>6 DEF Elsewise

LEMMA AnswerKeepsRequest == MvpTypeInv /\ EndpointInv /\ RequestInv /\ SendAnswer => RequestInv'
<1> SUFFICES ASSUME MvpTypeInv, EndpointInv, RequestInv, SendAnswer, (host = "waits" /\ ~resetMidway)'
             PROVE  RequestInv'
  BY DEF RequestInv
<1> USE DEF AnswerFlagging, endpoints
<1>0. /\ wire \in [Endpoint -> Nat] /\ "via" \in Endpoint /\ step = "answer"
      /\ host = "waits" /\ ~resetMidway
      /\ UNCHANGED <<rxReady, written, unanswered, lastTaken, outRaced>>
  BY DEF MvpTypeInv, SendAnswer, Endpoint, Elsewhere, usbHost
<1>1. CASE SetsBusy("via")
  <2>1. answer' = Nothing /\ step' = "save" /\ UNCHANGED wire
    BY <1>0, <1>1 DEF SendAnswer, SetsBusy, SendCopies, Transmits, SendRefuses, TransmitFails, MvpTypeInv,
                      SendingInv
  <2> QED BY <1>0, <2>1 DEF RequestInv
<1>2. CASE answer # Nothing /\ Transmits("via")
  <2>1. answer' = answer /\ step' = "answer" /\ sending = "transmit" /\ sending' = "flag"
    BY <1>0, <1>2 DEF SendAnswer, SetsBusy, SendCopies, Transmits, SendRefuses, TransmitFails
  <2>2. unanswered /\ ~rxReady
    BY <1>0, <1>2, <2>1 DEF RequestInv
  <2> QED BY <1>0, <2>1, <2>2 DEF RequestInv
<1>3. CASE \/ answer # Nothing /\ (SendCopies("via", answer) \/ SendRefuses("via") \/ TransmitFails)
           \/ answer = Nothing /\ UNCHANGED <<endpoints, sending, lost>>
  <2>1. answer' = answer /\ step' \in {"answer", "save"} /\ UNCHANGED wire
    BY <1>0, <1>3 DEF SendAnswer, SetsBusy, SendCopies, Transmits, SendRefuses, TransmitFails,
                      MvpTypeInv, SendingInv
  <2>2. ~AnswerFlagging
    BY <1>0, <1>3 DEF SendCopies, SendRefuses, TransmitFails, MvpTypeInv, SendingInv
  <2>3. ~AnswerFlagging'
    BY <1>0, <1>3, <2>2 DEF SendCopies, SendRefuses, TransmitFails
  <2> QED BY <1>0, <2>1, <2>2, <2>3 DEF RequestInv
<1> QED BY <1>1, <1>2, <1>3 DEF SendAnswer

LEMMA RequestInvariant == MvpSafety => []RequestInv
<1>1. MvpTypeInv /\ EndpointInv /\ MailboxInv /\ RequestInv /\ [MvpNext]_mvpVars => RequestInv'
  <2>1. RequestInv /\ UNCHANGED mvpVars => RequestInv'
    BY DEF RequestInv, AnswerFlagging, mvpVars, usbVars, endpoints, mailboxes, usbHost, taking, usbFaults
  <2> QED BY <2>1, InterruptKeepsRequest, ElsewiseKeepsRequest, AnswerKeepsRequest
          DEF MvpNext, MvpLoop, Elsewise
<1> QED BY <1>1, RequestInvInit, EndpointInvariant, MailboxInvariant, PTL DEF MvpSafety

\* What the two invariants say of the packet that is being taken.
LEMMA TakenFromMailbox == MvpTypeInv /\ MailboxInv /\ RequestInv => TakenOnceAndWhole
<1> SUFFICES ASSUME MvpTypeInv, MailboxInv, RequestInv PROVE TakenOnceAndWhole
  OBVIOUS
<1>1. hand = <<hand[1], hand[2]>>
  BY DEF MvpTypeInv, MvpTypeOK, UsbTypeOK
<1>2. step = "clear" /\ ~outRaced => hand = <<written, written>>
  BY <1>1 DEF MailboxInv
<1> QED BY <1>2 DEF MailboxInv, RequestInv, TakenOnceAndWhole

\* A request is taken once, no later one before it, and whole, none left behind, unless the
\* next came while it was copied; and none comes then, or before the one in the buffer is
\* taken, from a host that waits for its answers and was not reset while it waited.
THEOREM RequestsTakenWhole == MvpSpec => []TakenOnceAndWhole
BY TakenFromMailbox, MvpTypeInvariant, MailboxInvariant, RequestInvariant, PTL DEF MvpSpec, MvpSafety

\* led_buf_ has the LEDs the host set last, and the main loop has taken them over,
\* unless they came between its copy and the clearing of the flag.
LedsInv ==
  /\ ledBuf = hostLeds
  /\ LedsFollow
  /\ step = "ledsTaken" => leds = hostLeds \/ ledRaced

LEMMA LedsInvInit == MvpInit => LedsInv
BY DEF MvpInit, UsbInit, LedsInv, LedsFollow

LEMMA LedsInvStep == LedsInv /\ [MvpNext]_mvpVars => LedsInv'
<1> SUFFICES ASSUME LedsInv, [MvpNext]_mvpVars PROVE LedsInv'
  OBVIOUS
<1> USE DEF LedsInv, LedsFollow, mailboxes, usbHost, taking, usbFaults, usbVars, bootVars, Elsewhere
<1>1. CASE ClassInit \/ ClassDeInit \/ DataOut
  BY <1>1 DEF ClassInit, ClassDeInit, DataOut
<1>2. ASSUME NEW e \in Endpoint, DataIn(e) PROVE LedsInv'
  BY <1>2 DEF DataIn
<1>3. CASE Ep0RxReady
  BY <1>3 DEF Ep0RxReady
<1>4. CASE TakeLeds
  BY <1>4 DEF TakeLeds, LedsCopy, LedsClear, LedsNone
<1>5. CASE RequestBoot \/ Setup \/ AutoSaves \/ HandleRequest \/ TakeRequest
  BY <1>5 DEF RequestBoot, Setup, AutoSaves, HandleRequest, ReceiveEnds, TakeRequest, ReceiveBegins,
              ReceiveNone, ReceiveCopies
<1>6. CASE SendAnswer \/ SendReport \/ BootReleases
  BY <1>6 DEF SendAnswer, SendReport, BootReleases
<1>7. CASE BootIdle \/ BootSaves \/ BootWaits \/ BootDetaches \/ BootJumps \/ Bootloader
  BY <1>7 DEF BootIdle, BootSaves, BootWaits, BootDetaches, BootJumps, Bootloader, mvpVars
<1>8. CASE UNCHANGED mvpVars
  BY <1>8 DEF mvpVars
<1> QED BY <1>1, <1>2, <1>3, <1>4, <1>5, <1>6, <1>7, <1>8 DEF MvpNext, MvpLoop, Interrupts, Interrupt

LEMMA LedsInvariant == MvpSafety => []LedsInv
BY LedsInvInit, LedsInvStep, PTL DEF MvpSafety

\* The LEDs the host set last are shown or about to be, unless they came while the ones
\* before were taken (takeHostLeds() copies led_buf_ and clears the flag afterwards).
THEOREM LedsAreShown == MvpSpec => []LedsFollow
<1>1. LedsInv => LedsFollow
  BY DEF LedsInv
<1> QED BY <1>1, LedsInvariant, PTL DEF MvpSpec, MvpSafety

-----------------------------------------------------------------------------
(* The jump to the bootloader *)

ReportFlagging == step = "report" /\ sending = "flag"

\* The host knows that no key is held, or fetches the report that says so.
Delivered == wire["keyboard"] = Nothing /\ hostReport = Up
Released  == wire["keyboard"] = Up \/ Delivered

\* What each phase of the jump has done by then, but for what the rest of the loop did
\* in the meantime or is just doing.
JumpInv ==
  /\ step = "bootloader" => boot = "detach"
  /\ boot \notin {"idle", "dirtySave"} /\ unsaved => "edit" \in meanwhile
  /\ boot = "saved" /\ sending = "transmit" => buffer["keyboard"] = Up
  /\ boot = "saved" /\ sending = "flag" => Released
  /\ boot = "keyboardRelease" => "release" \in refused \/ "report" \in meanwhile \/ ReportFlagging \/ Released
  /\ boot \in {"viaRelease", "detach"} =>
       /\ "release" \in refused \/ "report" \in meanwhile \/ ReportFlagging \/ Delivered
       /\ wire["via"] # Nothing => "answer" \in meanwhile \/ AnswerFlagging

LEMMA JumpInvInit == MvpInit => JumpInv
BY DEF MvpInit, UsbInit, JumpInv

LEMMA InterruptKeepsJump == MvpTypeInv /\ JumpInv /\ Interrupts => JumpInv'
<1> SUFFICES ASSUME MvpTypeInv, JumpInv, Interrupts PROVE JumpInv'
  OBVIOUS
<1> USE DEF JumpInv, ReportFlagging, AnswerFlagging, Released, Delivered, endpoints, mailboxes, usbHost,
            bootVars, usbFaults
<1>0. "via" \in Endpoint /\ "keyboard" \in Endpoint /\ wire \in [Endpoint -> Nat]
  BY DEF Endpoint, MvpTypeInv
<1>1. CASE ClassInit
  BY <1>1 DEF ClassInit, Interrupts
<1>2. CASE ClassDeInit
  BY <1>0, <1>2 DEF ClassDeInit, Interrupts
<1>3. ASSUME NEW e \in Endpoint, DataIn(e) PROVE JumpInv'
  <2>1. e = "keyboard" => wire'["keyboard"] = Nothing /\ hostReport' = wire["keyboard"]
    BY <1>0, <1>3 DEF DataIn
  <2>2. e # "keyboard" => wire'["keyboard"] = wire["keyboard"] /\ UNCHANGED hostReport
    BY <1>0, <1>3 DEF DataIn, Endpoint
  <2>3. wire'["via"] \in {wire["via"], Nothing}
    BY <1>0, <1>3 DEF DataIn
  <2>4. (Released => Released') /\ (Delivered => Delivered')
    BY <1>3, <2>1, <2>2 DEF DataIn
  <2> QED BY <1>3, <2>3, <2>4 DEF DataIn, Interrupts
<1>4. CASE DataOut
  BY <1>4 DEF DataOut, Interrupts
<1>5. CASE Ep0RxReady
  BY <1>5 DEF Ep0RxReady, Interrupts
<1> QED BY <1>1, <1>2, <1>3, <1>4, <1>5 DEF Interrupts, Interrupt

LEMMA ElsewiseKeepsJump ==
  MvpTypeInv /\ EndpointInv /\ JumpInv /\ (Elsewise \/ UNCHANGED mvpVars) => JumpInv'
<1> SUFFICES ASSUME MvpTypeInv, EndpointInv, JumpInv, Elsewise \/ UNCHANGED mvpVars PROVE JumpInv'
  OBVIOUS
<1>0. UNCHANGED <<wire, buffer, sending, hostReport>> /\ (sending # "no" => UNCHANGED step)
  BY ElsewiseSpares
<1>a. UNCHANGED <<Released, Delivered>>
  BY <1>0 DEF Released, Delivered
<1> USE <1>0, <1>a DEF JumpInv, ReportFlagging, AnswerFlagging, bootVars, usbVars
<1>1. CASE RequestBoot
  BY <1>1 DEF RequestBoot
<1>2. CASE Setup \/ TakeRequest \/ TakeLeds
  <2>1. UNCHANGED bootVars /\ step' # "bootloader"
    BY <1>2 DEF Setup, TakeRequest, TakeLeds, ReceiveBegins, ReceiveNone, ReceiveCopies, LedsCopy,
                LedsClear, LedsNone
  <2> QED BY <2>1
<1>3. CASE AutoSaves
  <2>1. unsaved' => unsaved
    BY <1>3 DEF AutoSaves
  <2> QED BY <1>3, <2>1 DEF AutoSaves
<1>4. CASE HandleRequest
  BY <1>4 DEF HandleRequest, ReceiveEnds, Does, TooLate, BootState, MvpTypeInv, MvpTypeOK
<1>5. CASE BootIdle \/ BootDetaches \/ BootJumps
  BY <1>5 DEF BootIdle, BootDetaches, BootJumps
<1>6. CASE BootSaves
  <2>1. sending = "no"
    BY <1>6 DEF BootSaves, MvpTypeInv, SendingInv
  <2> QED BY <1>6, <2>1 DEF BootSaves
<1>7. CASE BootWaits
  <2>1. sending = "no"
    BY <1>7 DEF BootWaits, MvpTypeInv, SendingInv
  <2>2. ~configured \/ SendComplete => wire["keyboard"] = Nothing /\ wire["via"] = Nothing
    BY <2>1 DEF SendComplete, EndpointInv, Flagging, Endpoint
  <2>3. ~configured \/ SendComplete => (Released => Delivered)
    BY <2>2 DEF Released, Delivered, Up, Nothing
  <2> QED BY <1>7, <2>1, <2>2, <2>3 DEF BootWaits
<1>8. CASE Bootloader \/ UNCHANGED mvpVars
  BY <1>8 DEF Bootloader, mvpVars
<1> QED BY <1>1, <1>2, <1>3, <1>4, <1>5, <1>6, <1>7, <1>8 DEF Elsewise

LEMMA SendKeepsJump ==
  MvpTypeInv /\ EndpointInv /\ JumpInv /\ (SendAnswer \/ SendReport \/ BootReleases) => JumpInv'
<1> SUFFICES ASSUME MvpTypeInv, EndpointInv, JumpInv, SendAnswer \/ SendReport \/ BootReleases
             PROVE  JumpInv'
  OBVIOUS
<1>0. /\ "via" \in Endpoint /\ "keyboard" \in Endpoint
      /\ wire \in [Endpoint -> Nat] /\ buffer \in [Endpoint -> Nat]
      /\ UNCHANGED <<configured, hostReport>>
  BY Sends DEF Endpoint, MvpTypeInv
<1> USE <1>0 DEF endpoints
<1>1. CASE SendAnswer
  <2>1. boot # "saved" /\ UNCHANGED <<boot, unsaved>> /\ step = "answer" /\ step' # "bootloader"
    BY <1>1 DEF SendAnswer, MvpTypeInv, SendingInv
  <2>2. wire'["keyboard"] = wire["keyboard"]
    BY <1>1 DEF SendAnswer, SendCopies, SendRefuses, Transmits, TransmitFails, SetsBusy
  <2>3. boot \in {"viaRelease", "detach"} /\ wire'["via"] # Nothing =>
          "answer" \in meanwhile' \/ AnswerFlagging'
    <3>1. CASE SetsBusy("via")
      BY <1>1, <2>1, <3>1
         DEF SendAnswer, SetsBusy, SendCopies, Transmits, SendRefuses, TransmitFails, Does, TooLate,
             MvpTypeInv, SendingInv
    <3>2. CASE answer # Nothing /\ Transmits("via")
      BY <1>1, <2>1, <3>2 DEF SendAnswer, SetsBusy, SendCopies, Transmits, SendRefuses, TransmitFails,
                              AnswerFlagging
    <3>3. CASE \/ answer # Nothing /\ (SendCopies("via", answer) \/ SendRefuses("via") \/ TransmitFails)
               \/ answer = Nothing /\ UNCHANGED <<endpoints, sending, lost>>
      <4>1. ~AnswerFlagging /\ UNCHANGED <<meanwhile, wire>>
        BY <1>1, <2>1, <3>3 DEF SendAnswer, SetsBusy, SendCopies, Transmits, SendRefuses, TransmitFails,
                                AnswerFlagging, MvpTypeInv, SendingInv
      <4> QED BY <4>1 DEF JumpInv
    <3> QED BY <1>1, <3>1, <3>2, <3>3 DEF SendAnswer
  <2>4. meanwhile \subseteq meanwhile' /\ refused \subseteq refused'
    BY <1>1 DEF SendAnswer, Does, AnswerRefused
  <2> QED BY <2>1, <2>2, <2>3, <2>4 DEF JumpInv, Released, Delivered, ReportFlagging
<1>2. CASE SendReport
  <2>1. boot # "saved" /\ UNCHANGED <<boot, unsaved, refused>> /\ step = "report" /\ step' # "bootloader"
    BY <1>2 DEF SendReport, MvpTypeInv, SendingInv
  <2>2. wire'["via"] = wire["via"]
    BY <1>2 DEF SendReport, SendCopies, SendRefuses, Transmits, TransmitFails, SetsBusy
  <2>3. meanwhile \subseteq meanwhile'
    BY <1>2 DEF SendReport, Does
  <2>4. \/ ReportFlagging'
        \/ boot \in {"keyboardRelease", "viaRelease", "detach"} => "report" \in meanwhile'
        \/ ~ReportFlagging /\ UNCHANGED wire
    BY <1>2, <2>1 DEF SendReport, SendCopies, SendRefuses, Transmits, TransmitFails, SetsBusy, Does,
                      TooLate, BootState, ReportFlagging
  <2> QED BY <2>1, <2>2, <2>3, <2>4 DEF JumpInv, Released, Delivered, AnswerFlagging
<1>3. CASE BootReleases
  <2>1. boot = "saved" /\ UNCHANGED <<unsaved, meanwhile>> /\ step = "boot" /\ step' # "bootloader"
    BY <1>3 DEF BootReleases
  <2>2. boot' = "saved" /\ sending' = "transmit" => buffer'["keyboard"] = Up
    BY <1>3, <2>1 DEF BootReleases, SendCopies, SendRefuses, Transmits, TransmitFails, SetsBusy
  <2>3. boot' = "saved" /\ sending' = "flag" => Released'
    BY <1>3, <2>1 DEF BootReleases, SendCopies, SendRefuses, Transmits, TransmitFails, SetsBusy, JumpInv,
                      Released, Delivered, EndpointInv
  <2>4. boot' = "keyboardRelease" => "release" \in refused' \/ Released'
    BY <1>3, <2>1 DEF BootReleases, SendCopies, SendRefuses, Transmits, TransmitFails, SetsBusy, JumpInv,
                      Released, Delivered, EndpointInv
  <2>5. boot' \in {"saved", "keyboardRelease"}
    BY <1>3, <2>1 DEF BootReleases
  <2> QED BY <2>1, <2>2, <2>3, <2>4, <2>5 DEF JumpInv
<1> QED BY <1>1, <1>2, <1>3

\* Once kKeyboardRelease has waited, an answer that has been tried and is still Protocol's
\* was refused, or was behind one that was sent meanwhile.
KeptInv ==
  boot \in {"viaRelease", "detach"} /\ answer # Nothing
    /\ step \notin {"receive", "copy", "clear", "answer"} => "answer" \in meanwhile \cup refused

LEMMA KeptInvStep ==
  MvpTypeInv /\ EndpointInv /\ JumpInv /\ KeptInv /\ [MvpNext]_mvpVars => KeptInv'
<1> SUFFICES ASSUME MvpTypeInv, EndpointInv, JumpInv, KeptInv, [MvpNext]_mvpVars PROVE KeptInv'
  OBVIOUS
<1> USE DEF KeptInv, mailboxes, usbHost, taking, usbFaults, usbVars, bootVars, Elsewhere
<1>1. CASE Interrupts
  <2>1. UNCHANGED <<boot, answer, step, meanwhile, refused>>
    BY <1>1 DEF Interrupts, Interrupt, ClassInit, ClassDeInit, DataIn, DataOut, Ep0RxReady
  <2> QED BY <2>1
<1>2. CASE RequestBoot \/ BootSaves \/ BootIdle \/ BootWaits \/ BootDetaches
  BY <1>2 DEF RequestBoot, BootSaves, BootIdle, BootWaits, BootDetaches
<1>3. CASE Setup \/ TakeRequest
  BY <1>3 DEF Setup, TakeRequest, ReceiveBegins, ReceiveNone, ReceiveCopies
<1>4. CASE HandleRequest
  BY <1>4 DEF HandleRequest, ReceiveEnds
<1>5. CASE SendAnswer
  <2>1. step = "answer" /\ step' \in {"answer", "save"} /\ boot' = boot /\ meanwhile \subseteq meanwhile'
    BY <1>5 DEF SendAnswer, Does
  <2>2. CASE answer # Nothing /\ (SendRefuses("via") \/ TransmitFails) /\ AnswerRefused
    <3>1. ~AnswerFlagging
      BY <2>2 DEF SendRefuses, TransmitFails, AnswerFlagging
    <3>2. boot \in {"viaRelease", "detach"} =>
            "answer" \in meanwhile \/ "answer" \in refused'
      BY <2>2, <3>1 DEF AnswerRefused, TooLate, JumpInv
    <3> QED BY <2>1, <3>2
  <2>3. CASE step' = "answer" \/ answer' = Nothing
    BY <2>3
  <2> QED BY <1>5, <2>2, <2>3 DEF SendAnswer
<1>6. CASE AutoSaves \/ TakeLeds \/ BootJumps
  <2>1. UNCHANGED <<boot, answer, meanwhile, refused>> /\ step \notin {"receive", "copy", "clear", "answer"}
    BY <1>6 DEF AutoSaves, TakeLeds, LedsCopy, LedsClear, LedsNone, BootJumps
  <2> QED BY <2>1
<1>7. CASE SendReport
  <2>1. UNCHANGED <<boot, answer, refused>> /\ meanwhile \subseteq meanwhile' /\ step = "report"
    BY <1>7 DEF SendReport, Does
  <2> QED BY <2>1
<1>8. CASE BootReleases
  <2>1. boot' \in {"saved", "keyboardRelease"}
    BY <1>8 DEF BootReleases
  <2> QED BY <2>1
<1>9. CASE Bootloader \/ UNCHANGED mvpVars
  BY <1>9 DEF Bootloader, mvpVars
<1> QED BY <1>1, <1>2, <1>3, <1>4, <1>5, <1>6, <1>7, <1>8, <1>9 DEF MvpNext, MvpLoop

LEMMA JumpInvariant == MvpSafety => [](MvpTypeInv /\ JumpInv /\ KeptInv)
<1>1. MvpTypeInv /\ EndpointInv /\ JumpInv /\ [MvpNext]_mvpVars => JumpInv'
  BY InterruptKeepsJump, ElsewiseKeepsJump, SendKeepsJump DEF MvpNext, MvpLoop, Elsewise
<1>2. MvpInit => KeptInv
  BY DEF MvpInit, KeptInv
<1> QED BY <1>1, <1>2, KeptInvStep, JumpInvInit, EndpointInvariant, PTL DEF MvpSafety

\* The device leaves for the bootloader with its settings saved, the host told that all
\* keys are up, and no answer on the wire or with Protocol -- but for what the rest of the
\* loop did while the jump was under way, a release report that was refused, and an answer
\* that was refused after kKeyboardRelease had waited.
THEOREM JumpIsClean == MvpSpec => []JumpLeavesNothing
<1>1. MvpTypeInv /\ JumpInv /\ KeptInv => JumpLeavesNothing
  BY DEF JumpInv, KeptInv, JumpLeavesNothing, MvpTypeInv, SendingInv, AnswerFlagging, ReportFlagging, Delivered,
         Up, Down
<1> QED BY <1>1, JumpInvariant, PTL DEF MvpSpec, MvpSafety

-----------------------------------------------------------------------------
(* Both kinds of Transport, as the runs take them *)

\* The device that has one kind of Transport leaves the other as it began.
LEMMA TransportsSteps ==
  ASSUME [TransportsNext]_transportVars
  PROVE  [Next]_vars /\ [MvpNext]_mvpVars
BY DEF TransportsNext, OnSlot, OnUsb, transportVars

LEMMA TransportsAreParts == TransportsSpec => Spec /\ MvpSafety
<1>1. TransportsInit => Init /\ MvpInit
  BY DEF TransportsInit
<1> QED BY <1>1, TransportsSteps, PTL DEF TransportsSpec, Spec, MvpSafety

\* The members of every Transport, their steps and what the hosts know stay within
\* their types.
THEOREM TransportTypes == TransportsSpec => []TransportsTypeOK
<1>1. MvpTypeInv /\ TypeOK => TransportsTypeOK
  BY DEF MvpTypeInv, TransportsTypeOK
<1> QED BY <1>1, TransportsAreParts, TypeCorrect, MvpTypeInvariant, PTL

\* No packet that is taken is half of one and half of another, each is taken once and is
\* one the host wrote, the buffer of a transfer under way is left alone, and LEDs the host
\* sets are shown -- but for the answers FF61 reads back as on ESP32, and the requests and
\* LEDs of the STM32F1 that came while the ones before were copied (outRaced, ledRaced).
THEOREM TransportBuffersWhole == TransportsSpec => []BuffersWhole
<1>1. /\ WholePackets /\ MvpTypeInv /\ EndpointInv /\ MailboxInv /\ RequestInv /\ LedsInv
      => BuffersWhole
  BY TakenFromMailbox DEF BuffersWhole, EndpointInv, InFlightUntouched, LedsInv
<1> QED
  BY <1>1, TransportsAreParts, PacketsAreWhole, EndpointInvariant, MailboxInvariant, RequestInvariant,
     LedsInvariant, PTL

\* In the specification the runs check, the jump leaves nothing behind and a busy
\* endpoint is in a transfer or has lost its end.
THEOREM TransportsJump == TransportsSpec => [](BusyWillEnd /\ JumpLeavesNothing)
<1>1. MvpTypeInv /\ EndpointInv /\ JumpInv /\ KeptInv => BusyWillEnd /\ JumpLeavesNothing
  BY DEF EndpointInv, BusyWillEnd, JumpInv, KeptInv, JumpLeavesNothing, MvpTypeInv, SendingInv, AnswerFlagging,
         ReportFlagging, Delivered, Up, Down
<1> QED BY <1>1, TransportsAreParts, EndpointInvariant, JumpInvariant, PTL

\* In the specification the runs check, requests are taken in order, die with their
\* client on ESP32, and their answers go to who asked.
THEOREM TransportsOrder == TransportsSpec => TakenInOrder /\ NoReplay /\ AnswersTheAsker
BY TransportsAreParts, RequestsInOrder, RequestsDieWithTheirClient, AnswerIsTheAskers, PTL

===============================================================================
