# TLA+ models of VIA-Arduino

VIA-Arduino is a C++ library (`src/src/`) for mechanical keyboards that speak the VIA protocol on
AVR, STM32F1, ESP32 and nRF52 boards.  This directory holds TLA+ models of its core, the TLC
configurations that check them on small instances, and proofs of the results that matter most for
every instance.  A name like `Keyboard.cpp:35` below stands for `src/src/VIA_Keyboard.cpp`, line 35.

Contents: 1 the system, 2 modules and code, 3 what is checked, 4 what is proved,
5 where code and documents disagree, 6 what is not modelled, 7 plan.

## 1. The system

A sketch's `loop()` calls `Protocol::task()`, `Matrix::task()` and `Keyboard::task()` in turn, on
one thread (the ESP32 sketches do; those for the STM32F103 and the nice!nano leave out
`Matrix::task()`, see section 5).  Besides that thread run interrupt handlers (USB), a BLE host task
(ESP32, nRF52), the switches, the host, and the power supply.

| Component | State it keeps | Operations | Talks to |
|---|---|---|---|
| `Protocol` | keymap, encoder map, macros, layout, custom state; `dirty_`, `saveAt_`; one request/response buffer, `responsePending_`, `bootloaderPending_` | `begin`, `task`, `load`, `save`, `factoryReset`; some twenty VIA commands | `Storage`, `Transport`, `Callbacks`, `CustomValue` |
| Storage adapters: EEPROM, NVS, `FlashStorage`, `InternalFSStorage` | the record, in place or in two slots; a provisional record | `begin`, `read`, `write`, `commit`, `erase` | flash, files, NVS |
| Transports: BLE VIA (ESP32, nRF52), TinyUSB `RawHID`, STM32 `UsbDevice` | one request slot and its flag, mutex or interrupt lock; endpoint busy flags | `receive`, `send`, `sendComplete`, host callbacks | host, `Protocol` |
| `Matrix` | raw image, candidate, debounced image, unconsumed changes, time of the last raw change | `task`, `hasChanged`, `changedRow(s)`, `stableRow` | pins, `Keyboard` |
| `LayerState`, `Keyboard` | active layers, reference counts, default layer; latched code per position; pending and last accepted report; suspend flags | `task` | `Matrix`, keymap of `Protocol`, `KeyboardHID`, callbacks |
| `Keycodes` | none | `classifyKeycode`, extraction, `buildReport` | `Keyboard` |
| `BootCoordinator` | phase of the jump | `task`, `request` | `Protocol`, `Keyboard`, `UsbDevice` |
| helpers: `Encoder`, `BatteryMgr`, `SleepMgr`, `RGBLight` | steps, samples, time of the last activity, five values of a light | `update`, `consume`, `percentage`, `set`, ... | sketch, `Protocol` |

**Interactions.**  `Keyboard` reads the keymap buffer that `Protocol` may have rewritten since a key
was pressed.  `Keyboard` consumes the changes `Matrix` publishes.  `Protocol` writes a record to a
`Storage` in several calls, any of which may fail or be the last before power is lost.  The host
callbacks of a transport fill the slot that `Protocol::task()` empties; `KeyboardHID` accepts a
report at once (BLE) or keeps it until the host fetches it (USB), and may be suspended.

**Hard behaviours**, and the properties that say they are handled (PROJECT.json, `hazards`, lists
them line by line):

- *power lost or a call failing between storage calls*: no mixed record (`NeverMixed`), no clean
  device that forgets (`CleanMeansDurable`), no false success (`OkMeansDurable`); the same one level
  down in the adapters (`FlashKeepsCommits`, `FlashReadsCommitted`, `FilesKeepCommits`,
  `ShadowKeepsCommits`);
- *one buffer for request and response, busy endpoint, jump to the bootloader*: `AnswersInOrder`,
  `JumpIsAnnounced`, `GrantedJumpHappens`, `EveryAnswerSent`, `EventuallySaved`;
- *a host that mixes single writes, buffers and resets*: `SettingsKept`;
- *callbacks and interrupts beside the main loop*: `BuffersWhole`, `TakenInOrder`, `NoReplay`,
  `AnswersTheAsker`, `BusyWillEnd`, `ClientsAnswered`; a jump to the bootloader in the middle of it:
  `JumpLeavesNothing`;
- *remaps and layer changes while keys are held, endpoints that refuse, come and go*: `NoStuckCode`,
  `CountsHaveKeys`, `MomentaryExact`, `HostInSync`, `HostNeverStuck`, `LatestWanted`;
- *bouncing switches, torn images, a wrapping clock*: `ViewFollows`, `OnlyLastingImages`, `Settles`,
  `TimersInTime`;
- *counters read while they run*: `SensorsExact`, `EveryDetentCounts`;
- *rollover and duplicate usages*: `ReportFaithful`.

## 2. Modules and code

Every modelled definition is mapped to its lines in PROJECT.json, `map`.  Operators named
`Action_Variant` under a comment "Mutant" are no part of a specification: each is a wrong version
of the definition that follows it, kept to show that a property notices.

**Protocol** (`Protocol.cpp`).  `pc` is the thread's next step.  A request is taken, answered or
turned into a save or reset (`Answers`, `SetSection`, `RequestCommit`, `RequestReset`,
`RequestBootloader`).  `writeState()` and `factoryReset()` are one action per `Storage` call:
zero header, one section after the other, final header, `commit`; for a reset also staging and
`erase`.  Each call may succeed, fail having done nothing or part of its work (`StorageCallFails`),
or be cut short by `PowerLoss`.  `live` holds a value per payload section, `work` the record as
`Storage::read` sees it, `durable` the one a restart finds.  The adapter is two constants:
`WriteThrough` (each write is durable at once, as on a bytewise EEPROM) and `EraseThrough`
(`EEPROMStorage::erase`); with neither it is *atomic* (`AtomicStorage`).  The checksum is any
function that is never zero.  `stored`, `unread`, `spoiled` and `asked` are history variables.
The main loop's deadline comparison is `due`, which `TimePasses` sets at any time.

**SettingsStore** is the promise: live settings and stored settings, which change together in one
step.  **ProtocolRefinement** maps `Protocol` to it (`RefinesSettingsStore`); **MCProtocol** holds
the instances.

**DynamicKeymap, RgbLight** (`Protocol.cpp`, `RGBLight.cpp`).  The commands that `Protocol` treats as
"a section changes", with their indices, bytes and bounds: one action per command (`SetKeycode`,
`SetEncoder`, `writeDynamicKeymap`, `WriteMacros`, `ResetKeymap`, `ResetMacros`, `SetCustomValue`),
each with its way to mark the settings dirty, and the reads as operators (`keycode`,
`encoderKeycode`, `readDynamicKeymap`, `readMacros`, `LightGet`).  `mirror` (history) is what the host
has been told it wrote, addressed as VIA means it and not as the code stores it; `unsaved` (history)
says that it changed something since the last save.  `SketchSets` is a sketch that calls
`setKeycode()` itself.  `RgbLight` is `RGBLight` as the custom value; other handlers are opaque.

**TwoSlots, SlotFlash, SlotFiles, ShadowCopy, FlashSaves.**  `SlotFlash` is `FlashStorage`
(`STM32F1_Flash.cpp`): flash words are sets of cleared bits, so programming only adds; `erase()`
goes page by page, `commit()` writes the envelope, then the marker, then selects; any operation may
fail or lose power in its middle.  `SlotFiles` is `InternalFSStorage` (`nRF52_InternalFS.cpp`):
`commit()` opens, writes and verifies the file `begin()` would not select.  Sequence number and
generation wrap around.  Checksums are perfect here; opening a file for writing is assumed to start
it anew, as `src/tests/fakes/InternalFileSystem.h` does (a file system that appends would be another
one).  `ShadowCopy` is `NVSStorage` (`ESP32_NVS.h`), whose blob NVS replaces whole or not at all, and
`EEPROMStorage` (`EEPROMStorage.h`) on the EEPROM emulation that its comment names, which erases and
programs one sector in place.  `FlashSaves` runs the calls of `Protocol`'s save and reset on a
`SlotFlash` without faults.  **MCSettings** lets TLC explore each adapter, and the commands of
`DynamicKeymap`, by itself.

**Keycodes, KeyReports.**  `Keycodes` are the functions of `Keycodes.h` and `buildReport()`;
`KeyReports` walks through the sets of held codes and compares each report with a reference: up to
six positions with basic codes, each usage once and in order, or a rollover; the modifier keys; and
none of the modifiers of `QK_MODS` codes, which the code drops (run `codes`).

**Keyboard, MCKeyboard.**  `Keyboard::task()` call by call (`Ack`, `Resend`, `NothingToDo`, `Leave`,
`TakeChanges`, the three passes `ReleaseKey`, `PressLayerKey`, `PressKey`, then `StaySuspended`,
`Publish`, `SendReport`), because an endpoint's answer may change between two of its calls.
`setup.immediate` is a BLE endpoint, which delivers at once and always claims to be complete; the
other is a USB endpoint.  `Remap` is the host rewriting a key, held or not.

**Matrix.**  A scan reads one cell per step while `Switch` moves switches, so images may
be torn.  `Tick` starts a task at some time of a clock that wraps at `Clock`.  `view` is what
`Keyboard` has been told; `age` (history) is how long `raw` has been read unchanged.

**ViaTransports.**  The ESP32 and nRF52 `BLEViaTransport` and TinyUSB's `RawHID`: clients write
requests (`ClientWrites`), the host task copies them into the slot in two halves (`OnWrite`,
`OnWriteCopied`, or `OnWriteMisses` when it does not get the mutex), the main loop takes them
(`Receive`, `Received`) and sends the answer (`Send`, `NoSend`).  `holder` is the mutex, or for
TinyUSB the disabled interrupts.  A client is `patient` if it waits for its answer before it writes
again.  `value` is the readable value of FF61, which on ESP32 is also where `onWrite()` finds its
request.  Commands answer at once and the bootloader is left out; `Protocol` has both.

**UsbDevice, BootCoordinator** (`STM32F1_USB.cpp`, `STM32F1_Boot.cpp`, the STM32F103 sketch).  Every
interrupt handler that changes state is an action (`ClassInit`, `ClassDeInit`, `DataIn`, `DataOut`,
`Ep0RxReady`) that may fall between any two steps of the main loop.  The calls of the main loop are
cut where an interrupt matters: `send()` into check and copy, `USBD_LL_Transmit`, and the busy flag
(`SendCopies`, `Transmits`, `SetsBusy`); `receive()` and `takeHostLeds()` into copy and flag.
`BootCoordinator` is `loop()` with those calls in the order of the sketch and the coordinator's
states; of `Protocol` and `Keyboard` there is what they send, take and leave unsaved, and the answer
in the response buffer (`answer`) until an endpoint takes it.  The sketch
itself leaves `request()` to the callbacks it would register; here it may come whenever those run.
`lost` (a completion that no longer comes), `outRaced` (a request that came while the one before was
copied), `ledRaced` (LEDs, likewise), `resetMidway`, `refused` (the release, or an answer too late to
wait for) and `meanwhile` are history: each names something the code lets happen, and the properties
except it by that name.  **MCTransports** lets TLC explore the
BLE and TinyUSB transports and this device, one at a time, each with its fairness.

**Timers** (`Protocol.cpp:89`, `SleepMgr.h`).  One action is one pass of the loop: the auto-save's
signed and the sleep timer's unsigned comparison on a `millis()` that wraps around, against the true
times (`sinceEdit`, `idle`, history).  **Encoder** (`Encoder.h`): the shaft turns between two polls as
it likes; `count` is C++'s division, cut off towards zero; `turned` and `returned` (history) are the
turn between two calls of `consume()` and what the later one returned, `consumed` the sum.  **Battery**
(`Battery.h`): the circular buffer and its sum against the last readings (history), with a window
that may change at any time.  **MCPolled** lets TLC explore `Matrix`, these three and `KeyReports`,
one at a time.

## 3. What is checked

Each run is one `.cfg`; TLC explores it completely.

| Run | Module, cfg | Shows |
|---|---|---|
| `atomic` | MCProtocol, `Protocol_atomic.cfg` | on an atomic adapter, whatever fails or loses power: clean means durable, success means durable, jumps are announced, resets publish after commit, and `SettingsStore` is implemented |
| `through` | MCProtocol, `Protocol_through.cfg` | on a bytewise EEPROM no record is accepted that mixes two saves, with a checksum that is the same for all |
| `live` | MCProtocol, `Protocol_live.cfg` | edits get saved, granted jumps happen, answers leave |
| `keyboard` | MCKeyboard, `Keyboard_all.cfg` | no code, count, layer or reported key outlives its key |
| `polled` | MCPolled, `Polled_all.cfg` | only images that lasted get through, changes are told once, the matrix settles; timers go off in time wherever the clock wraps; `consume()` returns the full detents of a turn, cut off towards zero, and the battery's percentage is that of its window; a report has the usages of up to six positions or is a rollover |
| `settings` | MCSettings, `Settings_all.cfg` | a restart finds the last commit, or whole a later attempt; the host reads back what it wrote by any mixture of commands, and a save is due for it |
| `transports` | MCTransports, `Transports_all.cfg` | no packet is torn, repeated, overtaken or answered to the wrong request; no endpoint gets stuck; a jump leaves nothing behind; a patient client is answered; each but for the exceptions its property names, below |
| `reset`, `codes`, `lost`, `flash`, `detents` | | violations: see section 5 |

Three runs explore parts that share no state: a variable (`part`, `polled`, `transport`) is drawn once
and says which part moves; the others stay in one initial state.

The properties of `transports` name what the code lets happen, and the run reaches all of it.
`BuffersWhole`: on ESP32 an answer that `onWrite()` reads back from FF61 is taken for a packet
(`WholePackets`: from a client that does not wait, or after one that left early, `abandoned`); on the
STM32F1 a request that comes while the one before is copied tears it or goes unseen
(`TakenOnceAndWhole`: `outRaced`, from a host that does not wait or was reset while it waited), as do LEDs
(`LedsFollow`: `ledRaced`).  `BusyWillEnd` and `ClientsAnswered`: a completion that came before the busy
flag or was lost to a reset (`lost`); a write that met `receive()` (`missed`).  `JumpLeavesNothing`: a
release report that was refused, an answer that was refused after `kKeyboardRelease` had waited, and what
the loop did in the meantime.

**Bounds, and why they are enough.**

- *Protocol*: two contents per section (`Value`) are enough to tell old from new; two sections
  are enough for a record that is part old and part new (`through`), and the custom one, which is
  validated and reset on its own terms, is the third (`atomic`).  The checksum
  `WeakestCrc` never tells two payloads apart, so nothing rests on its strength.  `live` needs one
  content only: its properties do not depend on contents.  There is no bound on the number of
  requests, saves, failures or restarts; the state space is finite as it is.
- *Storage*: counters wrap after four (`Numbers`), which is more than the two numbers ever compared
  and less than the number of commits explored; one bit per word, two words in two pages.
  A blob is blank or one of two.
- *DynamicKeymap*: two layers of two keys, so that index errors between layer, row and column collide;
  bytes of two values, so that a key has four codes and its halves differ; buffers of up to two bytes
  at every offset, which cross halves, keys and the ends; two bytes of macros.  Commands are unbounded
  in number.
- *KeyReports*: seven positions are one more than a report has slots, with a modifier key among
  the codes and a `QK_MODS` code whose usage is that of another.
- *Keyboard*: three positions on two layers let one momentary key be held while another is remapped
  and a third is typed; `AllSetups` pairs them with the endpoints that matter.  Remaps are unbounded
  in number.
- *Matrix*: two switches that share neither row nor column, so that both scan directions can tear
  their image; a clock of eight values wraps again and again during waits of two and pauses of up to three.
- *Timers, Encoder, Battery*: clocks of eight and four values, longer than each wait and short enough
  to wrap during any; seven edges (`MaxEdges`) make a detent and most of the next, or any turning back
  and forth in between; three samples with readings below, within and above the calibrated range.
- *UsbDevice*: two requests (`UsbRequests`), so that one can overtake or overwrite the other; the host
  either waits for answers, or writes on, or sets LEDs (`Hosts`), which reach disjoint state.  Resets,
  reports, LED changes and attempts to jump are unbounded in number.
- *ViaTransports*: three requests put one in each of the slot, the loop's hand and the host task;
  two clients suffice for one to leave something to the next.  `ClientWrites` and `OnDisconnect`
  stop at these bounds (`Requests`, `Clients`).

**Fairness.**  *Protocol* (`FairSpec`): `loop()` keeps calling `task()` (WF on the thread); time
passes whenever an edit is unsaved (SF `TimePasses`, which a host may disable by editing, so
`EventuallySaved` excepts a host that edits for ever); an endpoint that is idle again and again takes
an answer (SF `Send`) and the host fetches it (WF `TransferDone`); each storage call that is tried
again and again succeeds once (SF per call), which is what a retry is for; power loss is not
excluded.  *Matrix*: `loop()` goes round (WF `Task`) and `millis()` advances (SF on `Tick` with a
later time; a task may well see the same millisecond twice).  *ViaTransports*: the main loop goes
round; the host task goes on, and an interrupt that is pending is taken when interrupts are next
enabled (SF `Callback`: the loop disables them only around a copy); a client that has gone is
followed by another; a send that is possible again and again gets through (SF `Send`).  *UsbDevice*:
the loop goes round (WF `MvpLoop`), a configured host fetches what is sent (WF `HostFetches`), and a
transfer that is tried time and again starts once (SF `AnswerStarts`: `USBD_LL_Transmit` may fail,
and `Protocol` retries); nothing is assumed of resets, of requests and of the LEDs.

**Mutants.**  Each property of each passing run has a wrong version of a modelled definition
(PROJECT.json, `mutants`) under which TLC finds it violated: a header written late, a dropped
deadline wrap, a slot freed before it is copied, and so on.

## 4. What is proved

Every invariant the passing runs check is a theorem for all values of the constants that the
modules' named assumptions allow; so is every action property, and the refinement.  PROJECT.json,
`theorems`, lists the results.  They are theorems of the safety part of each specification (`Spec`,
`FlashSpec`, ...); `StorageProofs`, `TransportsProofs` and `PolledProofs` also carry them over to the
specification that puts the parts side by side and that the runs check.

| Module | About | Theorems |
|---|---|---|
| `ProtocolProofs` | Protocol, every kind of adapter | `TypeCorrect`, `NoMixedRecord`, `AnswersKeepOrder`, `CleanIsDurable`, `GrantedIsDurable`, `JumpIsAnnouncedAlways`, `ResetIsStoredFirst` |
| `ProtocolAtomicProofs` | Protocol on an atomic adapter | `SettingsRefined` |
| `StorageProofs` | the adapters; DynamicKeymap with RgbLight | `FlashDurable`, `FlashCommittedIsRead`, `FilesDurable`, `ShadowDurable`, `StorageTypes`, `SettingsDurable`; `HostReadsWhatItWrote`, `SettingsAreKept` |
| `KeyboardProofs` (lemmas in `KeycodesProofs`) | Keyboard | `KeyboardTypes`, `CodesBelongToKeys`, `CountsAreHeld`, `MomentaryLayersExact`, `RetriesTheLatest`, `HostHasTheKeys`, `NoKeySticksAtTheHost` |
| `PolledProofs` | Matrix, Timers, Encoder, KeyReports, Battery | `MatrixTypes`, `KeyboardIsTold`, `NoBounceGetsThrough`, `TimersKeepTime`, `EncoderCountsEdges`, `ReportsAreFaithful`, `BatteryIsExact`; `SensorsAgree`, `PolledPartsCorrect` |
| `ViaTransportsProofs` | the BLE and TinyUSB transports | `TypeCorrect`, `PacketsAreWhole`, `RequestsInOrder`, `RequestsDieWithTheirClient`, `AnswerIsTheAskers` |
| `TransportsProofs` | the STM32 device with its main loop, and all transports | `BusyEndpointsWillEnd`, `TransfersUntouched`, `RequestsTakenWhole`, `LedsAreShown`, `JumpIsClean`; `TransportTypes`, `TransportBuffersWhole`, `TransportsJump`, `TransportsOrder` |

Every inductive invariant was checked by TLC on the run of its component before it was proved.

**Protocol.**  `NeverMixed` only speaks of a record whose header is in place.  That such a record is
whole depends on how far the save or reset has come, so `Inv` is `ControlInv` (types; `asked` is the
answer in transfer, then the one under way) together with `RecordInv`: `StepInv` says, for each `pc`,
what `work` holds there (zero header; the sections already written are those of the live state; ...),
and `WholeInv` that a loadable `work` or `durable` is `stored`.  Each action has a lemma for its
control part and one for its record part; `TornCallRejected` carries the argument: a call that is cut
short leaves a record `load()` rejects, or one that it had left alone.  This rests on
`CrcAssumption`: a checksum is never zero and never looks like a missing header.

`DeviceInv` adds what the four properties about the device need (what the custom handler accepts;
what a reset stages; that a jump waits for its answer and for a clean device), and `CleanInv` is
`CleanMeansDurable` kept through the storage calls in which it does not have to hold.  Their
hypotheses, which belong to the sketch and not to the library: the handler accepts its own defaults
(`SoundDefaults`; a reset would otherwise be refused, or store what `load()` rejects), it has no
`reset()` of its own (run `reset` shows what happens otherwise), and the sketch calls `load()` only on
an adapter without provisional writes (`CleanDevice`; hazards).  They are no longer confined to atomic
adapters: on a bytewise EEPROM a torn save leaves the device dirty, or off.  For the refinement,
`FreshInv` says what restarts and loads may find, and every step is a stutter except edits, the two
commits and restarts.

**Adapters.**  The counters of `SlotFlash` and `SlotFiles` wrap, so the newest slot is not the one
with the greatest number.  `BackedInv` and `FilesSound` say that, of the two slots, the one that
`begin()` would select holds what was committed, and that the other either is no rival (erased,
without marker, or of a generation that loses the signed comparison) or is whole; every write goes to
the other slot.  `NumbersAssumption` says what the code takes for granted of its counters: an even
range of four at least, in which the signed comparison finds `following` newer (the code's have
2^32 values).  For `SlotFiles` the invariant holds as long as `begin()` could read the newest file
(`lostTrack`).

**DynamicKeymap.**  `KeymapInv` says that the code of each key is made of the two bytes in `mirror`.
The theorem is about numbers: keys and encoders have distinct places (`KeysApart`, `TurnsApart`), the
places are all in use (`KeyAt`), and the wire's order of bytes is that of the table (`WireIs`), for
every number of layers, rows and columns; all of it rests on `Digits` and `SameDigits`, that a number
has one quotient and one remainder.

**Keyboard.**  `KeysInv` says for each step of `task()` which positions may be latched: those that are
stable, and those the passes have yet to release.  `CountsHaveKeys` then is inductive with it.
`ExactInv` adds which layers the keys that are pressed already were resolved on.  `DeliveryInv` relates
the last report, the pending one and the host's to `Desired`.  What `buildReport()` computes is in
`KeycodesProofs` (`FilledFaithful`): the loop is a recursive function, and the induction over the
positions it has looked at goes by the least counterexample of a set of numbers (`PrefixInduction`),
which is what can be said without an operator as parameter.

**Matrix, Timers, Encoder, KeyReports.** The clocks wrap, so their invariants equate differences modulo
the clock with true times: `age` in `MatrixInv`, `sinceEdit` and `idle` in `TimersInv`; the lemmas on
`%` come first in `PolledProofs`. The assumptions on the constants ask that a clock has room for its
delays. `KeyReports` has no invariant but types: what its report owes follows from `KeycodesProofs`.
`EncoderInv` is `EncoderExact` with types; that a quotient cut off towards zero leaves a remainder of
the turn's own sign, less than a detent, is `CountTruncates`.

**Battery.**  `BatteryInv` says that the sum is that of the buffer, and `RingInv`, which holds until
the window is made smaller than what it held, that the samples not counted yet are zero and that the
last readings since the window changed lie back from `sampleIndex`.  The buffer then holds the window
rotated, and zeros; `SumOfPlaced` says that numbers at places of their own among zeros have the sum of
the numbers.  The lemmas on sums (`SumIs`, `SumPut`, `SumAppend`, `SumBound`) are again inductions over
the positions by `PrefixInduction`, once `TotalsExist` has shown that the recursive definition has a
solution.  That the average of millivolts fits the `uint16_t` it is cast to follows from `SumBound`.

**Transports.** `SlotInv` and `HolderInv` say who may touch the slot when; `OrderInv`, `OwnerInv` and
`WaitingInv` add whose request is where, and `WrittenInv` where no answer can be taken for one. For the
STM32 device there is no lock: `EndpointInv` relates each busy flag to the transfer, with the gap
between the two in `SendCopies`, `Transmits` and `SetsBusy` (`Flagging`); `MailboxInv` says of any host
that what `receive()` copies is above the last request taken and, unless `outRaced`, the last one
written; `RequestInv` counts, for a host that waits, the one place its request is in; `JumpInv` follows
the release report and what is on the wire through the steps of the coordinator, `KeptInv` the answer
that is still with `Protocol`.

**What the proofs changed in the models.**  `OnlyMomentary` and `Delivers` in `Keyboard`, the sleep
timer's property for a delay of zero and the contents of `SlotFiles` (which must not be the names for
an absent or a torn file) had been stated so that they held for the constants of the runs only; the
parts that were false in general were corrected.  `RgbLight` and `TwoSlots` state what they assume
of their ranges.  `buildReport()` (`Filled`, `AddKey`) and the battery's sum (`SumOf`) were restated as
recursive functions, of a prefix of the positions.

**Only model-checked**: what rests on fairness (`EventuallySaved`, `GrantedJumpHappens`,
`EveryAnswerSent`, `Settles`, `ClientsAnswered`), because its proof needs ENABLED, which is out of the
prover's reach; and the runs of section 5, which are counterexamples.

## 5. Where code and documents disagree

Each is a run in which TLC finds the documented property violated; PROJECT.json, `findings`, quotes
the documents.

- `reset`: a custom handler that overrides `reset()` has its live state reset before the factory
  reset is validated and stored (`Protocol.cpp:495`), although `docs/PORTING.md` says that a reset
  publishes after `commit()`.
- `codes`: layer actions are coded otherwise than the design tabulates; a held `QK_MODS` code loses
  its modifiers; codes the design calls no-ops act.
- `lost`: what `Keyboard` believes accepted need not have reached the host.  A BLE host that goes
  and comes back between two `suspended()` calls of one task is never told of a key that is held
  (`Keyboard.cpp:47`; nor is any returning host whose report equals the last accepted one, :161).
  With `Setups <- UsbSetup` alone TLC shows a release that was refused by a busy endpoint, taken
  for accepted when the endpoint becomes idle, and never sent (:35).
- `flash`: `Protocol::save()` cannot succeed on `FlashStorage`: `write()` wants an `erase()` that
  `save()` never calls, and after an `erase()` the zeroed header cannot be programmed again.

- `detents`: a `consume()` off the detent forgets the quarter steps it does not return, up to three, and
  the sketches call it in every loop, after an `update()` that adds one at most (`Encoder.h:46`): it then
  always returns 0, where `docs/API.md` promises one count for each full detent.  (It
  also gives 2000 us as the default debounce, which is 0, and calls the number microseconds where its
  example passes milliseconds.)

The models also show, without a document that says otherwise: a commit that fails on a non-atomic
adapter while the device is clean is not retried (`spoiled`); a record that cannot be read at
`begin()` is overwritten by the next save (`unread`); on BLE a write that meets `receive()` is lost
uncounted (`missed`); on ESP32 an answer sent between a client's write and `getValue()` is taken for
the request, so that a stale answer may be processed as a command (excluded for a client that waits,
unless a client before it left without its answer, `abandoned`); on nRF52 the request of a client
that is gone is answered to the next.

Of the STM32 device: a transfer that completes before its busy flag is set, or is gone with a bus reset,
leaves the endpoint busy for ever (`lost`), and with it every jump to the bootloader waiting while the
host stays; a second request of a host that does not wait overwrites the first, and may tear it or go
unseen (`outRaced`); the release report before the jump is not sent again when it is refused, nor is an
answer waited for that the endpoint refuses (`refused`); `kViaRelease` waits for nothing, and the loop
goes on taking keys and requests during the jump (`meanwhile`), where the design
(`2026-08-01-stm32f103-keyboard-mvp-design.md:359-363`) wants keys stopped and VIA transfers awaited. Of
the helpers: a battery window made smaller keeps old samples in the sum for ever (`shrunk`), one made
larger reads low until it is filled (`fresh`); an auto-save that fails for half a turn of the clock
pauses for the other half. A report counts positions, where the design (:282-283) counts distinct
usages: seven positions with two usages are a rollover. The sketches for the STM32F103
(`STM32F103_Keyboard_MVP.ino:81`) and the nice!nano (`nice_nano_v2_VIA_BLE.ino:118`) call
`keyboard.task()` without `matrix.task()`, and `Keyboard::task()` does not scan, as the design
(:102-104) has it: no key of theirs is ever seen. And `setKeycode()` called by a sketch marks nothing
dirty, so that its change is lost unless the host edits something too.

## 6. What is not modelled

- `MemoryStorage` and `MemoryTransport` (test doubles), GPIO adapters, USB descriptors, the umbrella
  header, `TinyUSB Keyboard` (forwarding).
- The layout of the record's bytes, EEPROM addresses, GATT and USB set-up, the commands that report
  constants, the uptime and the matrix.
- `Keyboard`'s `bootloaderRequested()` callback and its filter of equal LED reports; `remoteWakeup()`
  and `UsbDevice::task()`, which do nothing.
- The battery's charging flag and `rawFromMv()`; a calibration that changes while samples are kept.
- What sketches do with the results: the ESP32-S3 sketch passes the negation of a `hasChanged()` that
  `Keyboard` has already cleared to `SleepMgr` (`ESP32S3_VIA_BLE.ino:124`), so that it never sleeps.
- Composition of the adapters, step by step, under the full `Protocol`: `Protocol` has them as three
  classes, and `FlashSaves` composes one.  A `load()` by the sketch on an adapter with provisional
  writes is excluded where `CleanMeansDurable` is checked (PROJECT.json, `hazards`).
- In `Protocol`, a `commit()` that returns false on an adapter with provisional writes has selected no
  new record.  `InternalFSStorage` may fail its read-back after the file is in place
  (`nRF52_InternalFS.cpp:184`), and `FlashStorage` its memory's own `commit()` after the marker
  (`STM32F1_Flash.cpp:145`).  The record that a restart then finds is the one being committed, whole
  (`FilesKeepCommits`, `FlashKeepsCommits`, which allow for it), but a clean device whose factory reset
  is refused in this way comes back with defaults, which `CleanMeansDurable` over the three classes
  does not show.
- A hazard without a property says why in PROJECT.json.

## 7. Plan

The order is that of importance: settings and their persistence first, then what the host sees of
the keys, then the adapters, then the helpers.

Done: `Protocol` with its refinement and proofs; `Keycodes`, `Keyboard`, `Matrix`; `SlotFlash`,
`SlotFiles`, `ShadowCopy`; `ViaTransports`, `UsbDevice`, `BootCoordinator`; `DynamicKeymap`, `RgbLight`;
`Timers`, `Encoder`, `Battery`.

The invariants, the action properties and the refinement are proved (section 4).

Next:

1. An abstract store ("after a restart there is the last record committed, or whole the one being
   committed") of which `SlotFlash`, `SlotFiles` and `ShadowCopy` are implementations by refinement, with
   the step that maps to its commit made explicit; then `Protocol` over that store instead of its three
   classes of adapter, so that a commit which takes effect and reports failure is seen by `Protocol`.  (A
   variable for the record selected makes the `atomic` run too long as it stands: the dead parts of the
   state must be reset first.)
2. The hazards that have no property yet and that a model could show: a read that fails at `begin()`
   (`Protocol.cpp:61`), an explicit save of a clean device on a non-atomic adapter (:89), a layer key
   resolved in the second press pass (`Keyboard.cpp:120`).
3. Under fairness nothing more can be proved; `Protocol_live.cfg` could have a second content.
