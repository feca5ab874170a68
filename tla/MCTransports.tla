----------------------------- MODULE MCTransports -----------------------------
(* The Transports, for TLC: a device has a BLEViaTransport or RawHID, or it is *)
(* the STM32F1 keyboard.  The part a device does not have stays as it began.   *)
EXTENDS ViaTransports, BootCoordinator

VARIABLE transport

transportVars == <<transport, vars, mvpVars>>

TransportsInit ==
  /\ transport \in {"slot", "usb"} /\ Init /\ MvpInit
  /\ transport = "slot" => host = "leds"            \* one state of the part that rests
  /\ transport = "usb" => kind = "esp32" /\ patient

OnSlot(A) == transport = "slot" /\ A /\ UNCHANGED <<transport, mvpVars>>
OnUsb(A)  == transport = "usb" /\ A /\ UNCHANGED <<transport, vars>>

TransportsNext == OnSlot(Next) \/ OnUsb(MvpNext)

\* FairSpec of ViaTransports and MvpSpec, each for the device it speaks of.
TransportsSpec ==
  /\ TransportsInit /\ [][TransportsNext]_transportVars
  /\ SF_transportVars(OnSlot(Callback)) /\ WF_transportVars(OnSlot(Loop))
  /\ WF_transportVars(OnSlot(Connect)) /\ SF_transportVars(OnSlot(Send))
  /\ WF_transportVars(OnUsb(MvpLoop)) /\ SF_transportVars(OnUsb(AnswerStarts))
  /\ \A e \in Endpoint : WF_transportVars(OnUsb(HostFetches(e)))

-----------------------------------------------------------------------------
\* The types of both parts.
TransportsTypeOK == TypeOK /\ MvpTypeOK

\* No packet that is taken is half of one and half of another, each is taken once and is
\* one the host wrote, the buffer of a transfer under way is left alone, and LEDs the host
\* sets are shown.  The parts name what the code excepts: an answer read back from FF61
\* on ESP32; on the STM32F1 a request that came while the one before was copied
\* (outRaced), from a host that did not wait or is back after a reset; and LEDs set while
\* the ones before were taken (ledRaced).
BuffersWhole == WholePackets /\ InFlightUntouched /\ TakenOnceAndWhole /\ LedsFollow

\* On every transport a client that waits is answered, with the exceptions each names.
ClientsAnswered == PatientAnswered /\ WaitingAnswered
=============================================================================
