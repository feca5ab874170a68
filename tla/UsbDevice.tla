------------------------------- MODULE UsbDevice -------------------------------
(***************************************************************************)
(* via::stm32f1::UsbDevice (src/src/VIA_STM32F1_USB.cpp): one endpoint for *)
(* keyboard reports, one in each direction for VIA packets, and the host's *)
(* LED reports.  The interrupt handlers (classInit, classDeInit, dataIn,   *)
(* dataOut, ep0RxReady) may run between any two steps of the main loop,    *)
(* which calls the rest.                                                   *)
(*                                                                         *)
(* A VIA packet is the number of its request and is copied in two halves;  *)
(* a keyboard report says whether keys are held.                           *)
(***************************************************************************)
EXTENDS Naturals

CONSTANT UsbRequests   \* bound: number of VIA requests the host writes

ASSUME UsbAssumption == UsbRequests \in Nat \ {0}

Endpoint == {"keyboard", "via"}
Up       == 1             \* a report that holds no key
Down     == 2
Report   == {Up, Down}
Hosts    == {"waits", "writes", "leds"}
Nothing  == 0
Bytes(e) == {Nothing} \cup IF e = "keyboard" THEN Report ELSE 1..UsbRequests

VARIABLES
  active, configured,         \* active_ = this, configured_
  busy,                       \* kb_tx_busy_ and via_tx_busy_
  buffer,                     \* kb_buf_ and via_in_buf_
  wire,                       \* what the controller is transferring from them
  out, rxReady,               \* via_out_buf_ and via_rx_ready_
  ledBuf, ledReady,
  host,                       \* does the host wait for an answer before it writes again,
                              \* or not, or does it set LEDs instead?
  written, unanswered,        \* requests written; is the host waiting?
  hostReport, hostLeds,       \* last report received, LEDs as last set
  step,                       \* the main loop's next step
  sending,                    \* how far a send() has come
  hand, answer,               \* packet being copied, Protocol's response buffer
  leds, lastTaken,            \* LEDs and number of the last request taken
  lost,                       \* history: endpoints whose completion no longer comes
  outRaced,                   \* history: the last request came while the one before was copied
  ledRaced,                   \* history: LEDs set while the last ones were taken
  resetMidway                 \* history: the bus was reset while the host waited

endpoints == <<busy, buffer, wire>>
mailboxes == <<out, rxReady, ledBuf, ledReady>>
usbHost   == <<host, written, unanswered, hostReport, hostLeds>>
taking    == <<hand, answer, leds, lastTaken>>
usbFaults == <<lost, outRaced, ledRaced, resetMidway>>
usbVars   == <<active, configured, endpoints, mailboxes, usbHost, step, sending, taking, usbFaults>>

-----------------------------------------------------------------------------
(* Interrupts *)

ClassInit ==
  /\ active /\ ~configured
  /\ configured' = TRUE
  /\ UNCHANGED <<active, endpoints, mailboxes, usbHost, step, sending, taking, usbFaults>>

\* The endpoint of the send() under way.
SendingOn == IF step = "answer" THEN "via" ELSE "keyboard"

Flagging(e) == sending = "flag" /\ SendingOn = e

\* The bus is reset: transfers under way are gone and the host takes every key for
\* released, but none of the flags is cleared.
ClassDeInit ==
  /\ active /\ configured
  /\ configured' = FALSE
  /\ wire' = [e \in Endpoint |-> Nothing]
  /\ lost' = lost \cup { e \in Endpoint : wire[e] # Nothing }
  /\ hostReport' = Up /\ unanswered' = FALSE
  /\ resetMidway' = (resetMidway \/ unanswered)
  /\ UNCHANGED <<active, busy, buffer, mailboxes, host, written, hostLeds, step, sending,
                 taking, outRaced, ledRaced>>

\* Mutant: each completion is taken for the other endpoint's.
DataIn_Swapped(e) ==
  /\ wire[e] # Nothing
  /\ wire' = [wire EXCEPT ![e] = Nothing]
  /\ busy' = [f \in Endpoint |-> busy[f] /\ f = e]
  /\ lost' = IF Flagging(e) THEN lost \cup {e} ELSE lost
  /\ IF e = "via" THEN unanswered' = FALSE /\ UNCHANGED hostReport
                  ELSE hostReport' = wire[e] /\ UNCHANGED unanswered
  /\ UNCHANGED <<active, configured, buffer, mailboxes, host, written, hostLeds, step, sending,
                 taking, outRaced, ledRaced, resetMidway>>

\* The host has fetched what was sent.  send() that has not set its flag yet will set
\* it after the only call that would have cleared it.
DataIn(e) ==
  /\ wire[e] # Nothing
  /\ wire' = [wire EXCEPT ![e] = Nothing]
  /\ busy' = [busy EXCEPT ![e] = FALSE]
  /\ lost' = IF Flagging(e) THEN lost \cup {e} ELSE lost
  /\ IF e = "via" THEN unanswered' = FALSE /\ UNCHANGED hostReport
                  ELSE hostReport' = wire[e] /\ UNCHANGED unanswered
  /\ UNCHANGED <<active, configured, buffer, mailboxes, host, written, hostLeds, step, sending,
                 taking, outRaced, ledRaced, resetMidway>>

\* A request arrives in via_out_buf_, which is armed again at once.
DataOut ==
  /\ configured /\ host # "leds" /\ written < UsbRequests
  /\ host = "waits" => ~unanswered
  /\ written' = written + 1 /\ unanswered' = TRUE
  /\ out' = written' /\ rxReady' = TRUE
  /\ outRaced' = (step \in {"copy", "clear"})
  /\ UNCHANGED <<active, configured, endpoints, ledBuf, ledReady, host, hostReport, hostLeds, step,
                 sending, taking, lost, ledRaced, resetMidway>>

\* SET_REPORT: classSetup() has the control endpoint receive into led_buf_.
Ep0RxReady ==
  /\ configured /\ host = "leds"
  /\ \E l \in BOOLEAN : ledBuf' = l /\ hostLeds' = l
  /\ ledReady' = TRUE
  /\ ledRaced' = (step = "ledsTaken")
  /\ UNCHANGED <<active, configured, endpoints, out, rxReady, host, written, unanswered, hostReport,
                 step, sending, taking, lost, outRaced, resetMidway>>

Interrupt == ClassInit \/ ClassDeInit \/ (\E e \in Endpoint : DataIn(e)) \/ DataOut \/ Ep0RxReady

-----------------------------------------------------------------------------
(* The calls of the main loop.  Each leaves the variables above it does not *)
(* mention, and `step', to its caller.                                      *)

\* Mutant: the flag of the endpoint is not looked at.
MaySend_Busy(e) == active /\ configured

MaySend(e) == active /\ configured /\ ~busy[e]

\* send(): the checks and the copy; ...
SendCopies(e, bytes) ==
  /\ sending = "no" /\ MaySend(e)
  /\ buffer' = [buffer EXCEPT ![e] = bytes]
  /\ sending' = "transmit"
  /\ UNCHANGED <<busy, wire, lost>>

SendRefuses(e) ==
  /\ sending = "no" /\ ~MaySend(e)
  /\ UNCHANGED <<endpoints, sending, lost>>

\* ... USBD_LL_Transmit(), which takes what it is given although the bus may have
\* been reset since; ...
Transmits(e) ==
  /\ sending = "transmit"
  /\ IF configured THEN wire' = [wire EXCEPT ![e] = buffer[e]] /\ UNCHANGED lost
                   ELSE lost' = lost \cup {e} /\ UNCHANGED wire
  /\ sending' = "flag"
  /\ UNCHANGED <<busy, buffer>>

TransmitFails ==
  /\ sending = "transmit"
  /\ sending' = "no"
  /\ UNCHANGED <<endpoints, lost>>

\* ... and the busy flag.
SetsBusy(e) ==
  /\ sending = "flag"
  /\ busy' = [busy EXCEPT ![e] = TRUE]
  /\ sending' = "no"
  /\ UNCHANGED <<buffer, wire, lost>>

\* sendComplete()
SendComplete == active /\ \A e \in Endpoint : ~busy[e]

\* receive(): half of the packet, ...
ReceiveBegins ==
  /\ step = "receive"
  /\ answer = Nothing /\ active /\ rxReady
  /\ hand' = <<out, Nothing>>
  /\ step' = "copy"
  /\ UNCHANGED <<rxReady, answer, lastTaken>>

ReceiveNone ==
  /\ step = "receive"
  /\ answer # Nothing \/ ~active \/ ~rxReady
  /\ step' = "answer"
  /\ UNCHANGED <<rxReady, hand, answer, lastTaken>>

\* ... the other half, ...
ReceiveCopies ==
  /\ step = "copy"
  /\ hand' = <<hand[1], out>>
  /\ step' = "clear"
  /\ UNCHANGED <<rxReady, answer, lastTaken>>

\* Mutant: the flag stays set.
ReceiveEnds_Keeps ==
  /\ step = "clear"
  /\ answer' = hand[1] /\ lastTaken' = hand[1]
  /\ step' = "answer"
  /\ UNCHANGED <<rxReady, hand>>

\* ... and the flag.  Protocol makes its answer in the same buffer.
ReceiveEnds ==
  /\ step = "clear"
  /\ rxReady' = FALSE
  /\ answer' = hand[1] /\ lastTaken' = hand[1]
  /\ step' = "answer"
  /\ UNCHANGED hand

\* takeHostLeds(), which Keyboard::task calls until nothing is left.
LedsCopy ==
  /\ step = "leds" /\ active /\ ledReady
  /\ leds' = ledBuf
  /\ step' = "ledsTaken"
  /\ UNCHANGED ledReady

LedsClear ==
  /\ step = "ledsTaken"
  /\ ledReady' = FALSE
  /\ step' = "leds"
  /\ UNCHANGED leds

LedsNone ==
  /\ step = "leds" /\ ~(active /\ ledReady)
  /\ step' = "report"
  /\ UNCHANGED <<leds, ledReady>>

-----------------------------------------------------------------------------
\* The device before begin(), and a host of either kind.
UsbInit ==
  /\ active = FALSE /\ configured = FALSE
  /\ busy = [e \in Endpoint |-> FALSE]
  /\ buffer = [e \in Endpoint |-> Nothing] /\ wire = [e \in Endpoint |-> Nothing]
  /\ out = Nothing /\ rxReady = FALSE /\ ledBuf = FALSE /\ ledReady = FALSE
  /\ host \in Hosts /\ written = 0 /\ unanswered = FALSE
  /\ hostReport = Up /\ hostLeds = FALSE
  /\ step = "setup" /\ sending = "no"
  /\ hand = <<Nothing, Nothing>> /\ answer = Nothing /\ leds = FALSE /\ lastTaken = 0
  /\ lost = {} /\ outRaced = FALSE /\ ledRaced = FALSE /\ resetMidway = FALSE

-----------------------------------------------------------------------------
\* What the buffers, the flags and the main loop's steps range over.
UsbTypeOK ==
  /\ {active, configured, rxReady, ledBuf, ledReady, unanswered, hostLeds, leds,
      outRaced, ledRaced, resetMidway} \subseteq BOOLEAN
  /\ host \in Hosts /\ busy \in [Endpoint -> BOOLEAN]
  /\ \A e \in Endpoint : buffer[e] \in Bytes(e) /\ wire[e] \in Bytes(e)
  /\ {out, written, answer, lastTaken} \subseteq 0..UsbRequests
  /\ hand \in (0..UsbRequests) \X (0..UsbRequests)
  /\ hostReport \in Report /\ lost \subseteq Endpoint
  /\ step \in {"setup", "receive", "copy", "clear", "answer", "save", "leds", "ledsTaken",
               "report", "boot", "bootloader"}
  /\ sending \in {"no", "transmit", "flag"}

\* What is being transferred is not written to.
InFlightUntouched == \A e \in Endpoint : wire[e] # Nothing => wire[e] = buffer[e]

\* receive() and the endpoint that is armed again at once share one buffer that nothing
\* guards.  A request is taken once, no later one before it; and whole, none left behind,
\* unless the next comes while it is copied, which tears it or, by the clearing of the
\* flag, goes unseen itself.  Only a host that does not wait for its answers, or one that
\* is back after a reset while it waited, can come in between, or overwrite a request
\* before it is taken.
TakenOnceAndWhole ==
  /\ step = "clear" => lastTaken < hand[1] /\ hand[1] <= hand[2]
  /\ step = "clear" /\ ~outRaced => hand = <<written, written>>
  /\ lastTaken = written \/ rxReady \/ outRaced
  /\ host = "waits" /\ ~resetMidway => ~outRaced /\ written <= lastTaken + 1

\* The LEDs the host set last are shown or about to be, unless they came while the
\* ones before were taken.
LedsFollow == leds = hostLeds \/ ledReady \/ ledRaced

\* An endpoint that is busy is in the middle of a transfer, whose end will free it --
\* unless the completion came before the flag was set or was lost to a reset, which
\* leaves the endpoint busy for ever.
BusyWillEnd == \A e \in Endpoint : busy[e] => wire[e] # Nothing \/ e \in lost

\* A host that waits for its answer gets it, unless its endpoint is stuck in that way
\* or the device has left for the bootloader.
WaitingAnswered ==
  host = "waits" /\ unanswered ~> ~unanswered \/ "via" \in lost \/ step = "bootloader"
=============================================================================
