---------------------------- MODULE BootCoordinator ----------------------------
(***************************************************************************)
(* The main loop of the STM32F1 keyboard                                   *)
(* (src/examples/STM32F103_Keyboard_MVP): Protocol, Keyboard and           *)
(* via::stm32f1::BootCoordinator (src/src/VIA_STM32F1_Boot.cpp) share one  *)
(* UsbDevice.  Of Protocol and Keyboard there is only what they send, take *)
(* and leave unsaved.                                                      *)
(***************************************************************************)
EXTENDS UsbDevice

VARIABLES
  boot,        \* state_; "saved" is kDirtySave after its save()
  unsaved,     \* Protocol's dirty()
  refused,     \* history: the release, or an answer too late to wait for, was not accepted
  meanwhile    \* history: what the rest of the loop did after kDirtySave's save()

bootVars == <<boot, unsaved, refused, meanwhile>>
mvpVars  == <<usbVars, bootVars>>

BootState == {"idle", "dirtySave", "saved", "keyboardRelease", "viaRelease", "detach"}

\* When the jump takes no more notice: of an answer once kKeyboardRelease has waited for
\* both endpoints, of an edit or a key once it has saved.
TooLate(what) ==
  IF what = "answer" THEN {"viaRelease", "detach"} ELSE BootState \ {"idle", "dirtySave"}

Does(what) == meanwhile' = IF boot \in TooLate(what) THEN meanwhile \cup {what} ELSE meanwhile

AnswerRefused ==
  refused' = IF boot \in TooLate("answer") /\ wire["via"] = Nothing THEN refused \cup {"answer"}
             ELSE refused

\* What a call on the device and its caller never touch.
Elsewhere == UNCHANGED <<active, configured, out, ledBuf, usbHost, outRaced, ledRaced, resetMidway>>

-----------------------------------------------------------------------------
\* setup(), which does not look at the result of usb.begin().
Setup ==
  /\ step = "setup"
  /\ active' \in BOOLEAN
  /\ step' = "receive"
  /\ UNCHANGED <<configured, endpoints, mailboxes, usbHost, sending, taking, usbFaults, bootVars>>

\* Protocol::task(): a request is taken ...
TakeRequest ==
  /\ ReceiveBegins \/ ReceiveNone \/ ReceiveCopies
  /\ Elsewhere /\ UNCHANGED <<endpoints, ledReady, leds, sending, lost, bootVars>>

\* ... and carried out, ...
HandleRequest ==
  /\ ReceiveEnds
  /\ \/ unsaved' = TRUE /\ Does("edit")
     \/ UNCHANGED <<unsaved, meanwhile>>
  /\ Elsewhere /\ UNCHANGED <<endpoints, ledReady, leds, sending, lost, boot, refused>>

\* ... the answer is sent, now or next time, ...
SendAnswer ==
  /\ step = "answer"
  /\ \/ /\ answer # Nothing
        /\ SendCopies("via", answer) \/ Transmits("via")
        /\ UNCHANGED <<step, answer, refused, meanwhile>>
     \/ /\ \/ answer # Nothing /\ (SendRefuses("via") \/ TransmitFails) /\ AnswerRefused
           \/ answer = Nothing /\ UNCHANGED <<endpoints, sending, lost, refused>>
        /\ step' = "save" /\ UNCHANGED <<answer, meanwhile>>
     \/ /\ SetsBusy("via")
        /\ answer' = Nothing /\ Does("answer") /\ step' = "save" /\ UNCHANGED refused
  /\ Elsewhere
  /\ UNCHANGED <<rxReady, ledReady, hand, leds, lastTaken, boot, unsaved>>

\* ... and an edit may be saved.
AutoSaves ==
  /\ step = "save"
  /\ unsaved' \in {unsaved, FALSE}
  /\ step' = "leds"
  /\ UNCHANGED <<active, configured, endpoints, mailboxes, usbHost, sending, taking, usbFaults,
                 boot, refused, meanwhile>>

\* Keyboard::task(): the LEDs, ...
TakeLeds ==
  /\ LedsCopy \/ LedsClear \/ LedsNone
  /\ Elsewhere
  /\ UNCHANGED <<endpoints, rxReady, hand, answer, lastTaken, sending, lost, bootVars>>

\* ... and a report, if there is one; a refused one is sent again some time.
SendReport ==
  /\ step = "report"
  /\ \/ /\ (\E r \in Report : SendCopies("keyboard", r)) \/ Transmits("keyboard")
        /\ UNCHANGED <<step, meanwhile>>
     \/ /\ \/ SendRefuses("keyboard") \/ TransmitFails
           \/ sending = "no" /\ UNCHANGED <<endpoints, sending, lost>>
        /\ step' = "boot" /\ UNCHANGED meanwhile
     \/ /\ SetsBusy("keyboard")
        /\ Does("report") /\ step' = "boot"
  /\ Elsewhere
  /\ UNCHANGED <<rxReady, ledReady, taking, boot, unsaved, refused>>

\* request(), from the callbacks of Protocol or Keyboard.
RequestBoot ==
  /\ step \in {"leds", "boot"} /\ boot = "idle"
  /\ boot' = "dirtySave"
  /\ UNCHANGED <<usbVars, unsaved, refused, meanwhile>>

-----------------------------------------------------------------------------
(* BootCoordinator::task() *)

BootIdle ==
  /\ step = "boot" /\ boot = "idle"
  /\ step' = "receive"
  /\ UNCHANGED <<active, configured, endpoints, mailboxes, usbHost, sending, taking, usbFaults,
                 bootVars>>

\* kDirtySave: a save that fails ends the transition.
BootSaves ==
  /\ step = "boot" /\ boot = "dirtySave"
  /\ \/ boot' = "saved" /\ unsaved' = FALSE /\ UNCHANGED step
     \/ unsaved /\ boot' = "idle" /\ step' = "receive" /\ UNCHANGED unsaved
  /\ refused' = {} /\ meanwhile' = {}
  /\ UNCHANGED <<active, configured, endpoints, mailboxes, usbHost, sending, taking, usbFaults>>

\* The release report is sent once if there is a host, accepted or not.
BootReleases ==
  /\ step = "boot" /\ boot = "saved"
  /\ \/ /\ (configured /\ SendCopies("keyboard", Up)) \/ Transmits("keyboard")
        /\ UNCHANGED <<boot, step, refused>>
     \/ /\ \/ /\ (configured /\ SendRefuses("keyboard")) \/ TransmitFails
              /\ refused' = refused \cup {"release"}
           \/ SetsBusy("keyboard") /\ UNCHANGED refused
           \/ ~configured /\ sending = "no" /\ UNCHANGED <<endpoints, sending, lost, refused>>
        /\ boot' = "keyboardRelease" /\ step' = "receive"
  /\ Elsewhere /\ UNCHANGED <<rxReady, ledReady, taking, unsaved, meanwhile>>

\* Mutant: the release is not waited for.
BootWaits_Not ==
  /\ step = "boot" /\ boot = "keyboardRelease"
  /\ boot' = "viaRelease"
  /\ step' = "receive"
  /\ UNCHANGED <<active, configured, endpoints, mailboxes, usbHost, sending, taking, usbFaults,
                 unsaved, refused, meanwhile>>

\* kKeyboardRelease
BootWaits ==
  /\ step = "boot" /\ boot = "keyboardRelease"
  /\ boot' = IF ~configured \/ SendComplete THEN "viaRelease" ELSE boot
  /\ step' = "receive"
  /\ UNCHANGED <<active, configured, endpoints, mailboxes, usbHost, sending, taking, usbFaults,
                 unsaved, refused, meanwhile>>

\* kViaRelease waits for nothing.
BootDetaches ==
  /\ step = "boot" /\ boot = "viaRelease"
  /\ boot' = "detach"
  /\ step' = "receive"
  /\ UNCHANGED <<active, configured, endpoints, mailboxes, usbHost, sending, taking, usbFaults,
                 unsaved, refused, meanwhile>>

\* kDetach: interrupts are off and the system memory takes over.
BootJumps ==
  /\ step = "boot" /\ boot = "detach"
  /\ step' = "bootloader"
  /\ UNCHANGED <<active, configured, endpoints, mailboxes, usbHost, sending, taking, usbFaults,
                 bootVars>>

Bootloader == step = "bootloader" /\ UNCHANGED mvpVars

-----------------------------------------------------------------------------
MvpInit ==
  /\ UsbInit
  /\ boot = "idle" /\ unsaved = FALSE /\ refused = {} /\ meanwhile = {}

Interrupts == step # "bootloader" /\ Interrupt /\ UNCHANGED bootVars

MvpLoop ==
  \/ Setup \/ TakeRequest \/ HandleRequest \/ SendAnswer \/ AutoSaves \/ TakeLeds \/ SendReport
  \/ BootIdle \/ BootSaves \/ BootReleases \/ BootWaits \/ BootDetaches \/ BootJumps \/ Bootloader

MvpNext == Interrupts \/ RequestBoot \/ MvpLoop

HostFetches(e) == step # "bootloader" /\ DataIn(e) /\ UNCHANGED bootVars
AnswerStarts   == SendAnswer /\ Transmits("via")

\* The loop goes round, the host fetches what is sent as long as it has configured the
\* device, and a transfer that is started time and again starts once.
MvpFair ==
  /\ WF_mvpVars(MvpLoop) /\ SF_mvpVars(AnswerStarts)
  /\ \A e \in Endpoint : WF_mvpVars(HostFetches(e))

MvpSpec == MvpInit /\ [][MvpNext]_mvpVars /\ MvpFair

-----------------------------------------------------------------------------
\* What the phases of the jump range over, with the device's types.
MvpTypeOK ==
  /\ UsbTypeOK
  /\ boot \in BootState /\ unsaved \in BOOLEAN
  /\ refused \subseteq {"release", "answer"}
  /\ meanwhile \subseteq {"edit", "answer", "report"}

\* The device leaves for the bootloader with its settings saved, the host told that all
\* keys are up, and every answer fetched -- but for a release report that was refused,
\* which is not sent again, and for what the rest of the loop did in the meantime.  The
\* design (section Boot Coordination) has the keys stopped and the answers awaited; the
\* code goes on taking requests and keys, and waits in kKeyboardRelease only, for what is
\* in transfer by then: an answer sent later may be on the wire, and one that an endpoint
\* with nothing on the wire refuses is still Protocol's.
JumpLeavesNothing ==
  step = "bootloader" =>
    /\ unsaved => "edit" \in meanwhile
    /\ hostReport = Down => "release" \in refused \/ "report" \in meanwhile
    /\ wire["via"] # Nothing => "answer" \in meanwhile
    /\ answer # Nothing => "answer" \in meanwhile \cup refused
=============================================================================
