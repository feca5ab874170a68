------------------------------- MODULE Keyboard -------------------------------
(***************************************************************************)
(* via::Keyboard and via::LayerState (src/src/VIA_Keyboard.cpp, .h): from  *)
(* debounced key changes to reports the host has received.                 *)
(*                                                                         *)
(* The main loop runs Protocol::task (here: a remap by the host),          *)
(* Matrix::task and Keyboard::task in turn.  The endpoint works beside it: *)
(* a transfer may end, or the connection come and go, between any two      *)
(* calls Keyboard::task makes on KeyboardHID, so each of these calls and   *)
(* each handled key is a step of its own.                                  *)
(*                                                                         *)
(* The endpoint is one of the adapters: BLE delivers a report at once and  *)
(* always claims to be complete (immediate); STM32 USB holds it until the  *)
(* host has fetched it.                                                    *)
(***************************************************************************)
EXTENDS Keycodes, FiniteSetsExt

CONSTANTS
  Positions,      \* matrix positions, in row-major order
  Layers,         \* Protocol::layers()
  Setups          \* keymaps and endpoints a keyboard may have, see below

Position == 1..Positions
Layer    == 0..Layers - 1
Keymap   == [Layer -> [Position -> Code]]

ASSUME SizeAssumption == Positions \in 1..255 /\ Layers \in 1..32
ASSUME SetupAssumption ==
  \A s \in Setups :
    /\ s.keymap \in Keymap                         \* at power-up
    /\ s.remaps \subseteq Layer \X Position \X Code  \* what the VIA host may write
    /\ s.immediate \in BOOLEAN    \* does send() deliver at once?
    /\ s.refuses \in BOOLEAN      \* may send() fail although the endpoint is idle?
    /\ s.disconnects \in BOOLEAN  \* does the connection come and go?

VARIABLES
  setup,         \* the keyboard at hand
  keymap,        \* the keymap buffer of Protocol
  stable,        \* stableRows: debounced pressed positions
  changed,       \* changedRows: not yet consumed changes
  pc,
  batch,         \* savedChanged
  todo,          \* positions the current pass has still to look at
  activeCodes,   \* the code each held position had when it was pressed
  mask, refCounts, defaultLayer,                        \* LayerState
  pendingReport, reportPending, lastAccepted,           \* report state
  wasSuspended, wakeRequested,
  suspended,     \* KeyboardHID::suspended(): no host to talk to
  inFlight,      \* report the endpoint holds for the host
  host           \* report the host has received last

layerVars  == <<mask, refCounts, defaultLayer>>
reportVars == <<pendingReport, reportPending, lastAccepted>>
wakeVars   == <<wasSuspended, wakeRequested>>
hidVars    == <<suspended, inFlight, host>>
matrixVars == <<stable, changed>>
vars == <<setup, keymap, matrixVars, pc, batch, todo, activeCodes, layerVars, reportVars,
          wakeVars, hidVars>>

NoFlight == [modifiers |-> {}, keys |-> <<-1>>]
Desired  == buildReport(activeCodes)

-----------------------------------------------------------------------------
(* LayerState *)

\* resolve(): the highest active layer that is not transparent here, else the
\* default layer.
Resolve(p) ==
  LET opaque == { l \in mask : keymap[l][p] # 1 }
  IN  IF opaque # {} THEN keymap[Max(opaque)][p]
      ELSE IF defaultLayer \in Layer THEN keymap[defaultLayer][p] ELSE NoCode

Targets(code, action) ==
  IsLayerAction(code) /\ LayerOf(code) \in Layer /\ LayerActionOf(code) = action

\* Mutant: the layer number is not checked.
ApplyLayerPress_Unchecked(code) ==
  /\ mask' = mask \cup {LayerOf(code)}
  /\ UNCHANGED <<refCounts, defaultLayer>>

ApplyLayerPress(code) ==
  LET l == LayerOf(code)
  IN  \/ /\ Targets(code, Momentary)
         /\ refCounts' = [refCounts EXCEPT ![l] = (@ + 1) % 256]
         /\ mask' = mask \cup {l}
         /\ UNCHANGED defaultLayer
      \/ /\ Targets(code, Toggle)
         /\ mask' = SymDiff(mask, {l})
         /\ UNCHANGED <<refCounts, defaultLayer>>
      \/ /\ Targets(code, To)
         /\ mask' = {l} /\ refCounts' = [i \in Layer |-> 0]
         /\ UNCHANGED defaultLayer
      \/ /\ Targets(code, DefaultTo)
         /\ defaultLayer' = l
         /\ UNCHANGED <<mask, refCounts>>
      \/ LayerOf(code) \notin Layer /\ UNCHANGED layerVars

\* Mutant: the layer goes off with the first of its keys.
ApplyLayerRelease_Uncounted(code) ==
  LET l == LayerOf(code)
  IN  IF Targets(code, Momentary) /\ refCounts[l] > 0
      THEN /\ refCounts' = [refCounts EXCEPT ![l] = @ - 1]
           /\ mask' = mask \ {l}
           /\ UNCHANGED defaultLayer
      ELSE UNCHANGED layerVars

ApplyLayerRelease(code) ==
  LET l == LayerOf(code)
  IN  IF Targets(code, Momentary) /\ refCounts[l] > 0
      THEN /\ refCounts' = [refCounts EXCEPT ![l] = @ - 1]
           /\ mask' = IF refCounts[l] = 1 THEN mask \ {l} ELSE mask
           /\ UNCHANGED defaultLayer
      ELSE UNCHANGED layerVars

-----------------------------------------------------------------------------
(* The rest of the main loop *)

\* Protocol::task: the host rewrites a key, held or not.
Remap ==
  /\ pc = "scan"
  /\ \E r \in setup.remaps : keymap' = [keymap EXCEPT ![r[1]][r[2]] = r[3]]
  /\ UNCHANGED <<setup, matrixVars, pc, batch, todo, activeCodes, layerVars, reportVars,
                 wakeVars, hidVars>>

\* Matrix::task publishes a new debounced state, or does not.
MatrixTask ==
  /\ pc = "scan"
  /\ \/ \E new \in SUBSET Position : stable' = new /\ changed' = SymDiff(stable, new)
     \/ UNCHANGED matrixVars
  /\ pc' = "ack"
  /\ UNCHANGED <<setup, keymap, batch, todo, activeCodes, layerVars, reportVars, wakeVars, hidVars>>

-----------------------------------------------------------------------------
(* KeyboardHID *)

\* hid_.send(r) takes the report or returns false; the caller ignores which.
TrySend(r) ==
  \/ /\ ~suspended /\ inFlight = NoFlight
     /\ IF setup.immediate THEN host' = r /\ UNCHANGED inFlight
                     ELSE inFlight' = r /\ UNCHANGED host
     /\ UNCHANGED suspended
  \/ /\ suspended \/ inFlight # NoFlight \/ setup.refuses
     /\ UNCHANGED hidVars

\* sendComplete(): BLE answers TRUE; STM32 USB also waits for the VIA endpoint.
MaySayComplete   == inFlight = NoFlight
MaySayIncomplete == ~setup.immediate

\* The host fetches the report.
Transferred ==
  /\ inFlight # NoFlight /\ ~suspended
  /\ host' = inFlight /\ inFlight' = NoFlight
  /\ UNCHANGED <<setup, keymap, matrixVars, pc, batch, todo, activeCodes, layerVars, reportVars,
                 wakeVars, suspended>>

\* The BLE connection drops: a host that has gone holds no key down.
Disconnect ==
  /\ setup.disconnects /\ ~suspended
  /\ suspended' = TRUE /\ host' = NoReport
  /\ UNCHANGED <<setup, keymap, matrixVars, pc, batch, todo, activeCodes, layerVars, reportVars,
                 wakeVars, inFlight>>

Connect ==
  /\ suspended
  /\ suspended' = FALSE
  /\ UNCHANGED <<setup, keymap, matrixVars, pc, batch, todo, activeCodes, layerVars, reportVars,
                 wakeVars, inFlight, host>>

-----------------------------------------------------------------------------
(* Keyboard::task *)

\* Mutant: the report that got through is not remembered.
Ack_Forgets ==
  /\ pc = "ack"
  /\ \/ ~reportPending /\ pc' = "check" /\ UNCHANGED reportPending
     \/ reportPending /\ MaySayComplete /\ reportPending' = FALSE /\ pc' = "check"
     \/ reportPending /\ MaySayIncomplete /\ pc' = "resend" /\ UNCHANGED reportPending
  /\ UNCHANGED <<setup, keymap, matrixVars, batch, todo, activeCodes, layerVars, pendingReport,
                 lastAccepted, wakeVars, hidVars>>

\* Lines 34-41, the question whether the pending report is through.
Ack ==
  /\ pc = "ack"
  /\ \/ /\ ~reportPending
        /\ pc' = "check"
        /\ UNCHANGED reportVars
     \/ /\ reportPending /\ MaySayComplete
        /\ lastAccepted' = pendingReport /\ reportPending' = FALSE
        /\ pc' = "check"
        /\ UNCHANGED pendingReport
     \/ /\ reportPending /\ MaySayIncomplete
        /\ pc' = "resend"
        /\ UNCHANGED reportVars
  /\ UNCHANGED <<setup, keymap, matrixVars, batch, todo, activeCodes, layerVars, wakeVars, hidVars>>

Resend ==
  /\ pc = "resend"
  /\ TrySend(pendingReport)
  /\ pc' = "check"
  /\ UNCHANGED <<setup, keymap, matrixVars, batch, todo, activeCodes, layerVars,
                 reportVars, wakeVars>>

\* Lines 43-49.
NothingToDo ==
  /\ pc = "check"
  /\ changed = {} /\ ~(wasSuspended /\ ~suspended)
  /\ pc' = "leave"
  /\ UNCHANGED <<setup, keymap, matrixVars, batch, todo, activeCodes, layerVars,
                 reportVars, wakeVars, hidVars>>

\* suspended() is asked again; it may have changed its mind.
Leave ==
  /\ pc = "leave"
  /\ wasSuspended' = suspended
  /\ pc' = "scan"
  /\ UNCHANGED <<setup, keymap, matrixVars, batch, todo, activeCodes, layerVars, reportVars,
                 wakeRequested, hidVars>>

\* Lines 51-60: the changes are copied, then cleared.
TakeChanges ==
  /\ pc = "check"
  /\ changed # {} \/ (wasSuspended /\ ~suspended)
  /\ batch' = changed /\ changed' = {}
  /\ todo' = changed \ stable
  /\ pc' = "release"
  /\ UNCHANGED <<setup, keymap, stable, activeCodes, layerVars, reportVars, wakeVars, hidVars>>

\* The passes go through their positions in row-major order.
NextPass ==
  /\ pc \in {"release", "layers", "keys"} /\ todo = {}
  /\ \/ pc = "release" /\ pc' = "layers"  /\ todo' = batch \cap stable
     \/ pc = "layers"  /\ pc' = "keys"    /\ todo' = batch \cap stable
     \/ pc = "keys"    /\ pc' = "outcome" /\ UNCHANGED todo
  /\ UNCHANGED <<setup, keymap, matrixVars, batch, activeCodes, layerVars, reportVars,
                 wakeVars, hidVars>>

Handles(p) ==
  /\ todo # {} /\ p = Min(todo)
  /\ todo' = todo \ {p}
  /\ UNCHANGED <<setup, keymap, matrixVars, pc, batch, reportVars, wakeVars, hidVars>>

\* Mutant: only a layer key's code is cleared.
ReleaseKey_KeepsCode(p) ==
  /\ pc = "release" /\ Handles(p)
  /\ IF IsLayerAction(activeCodes[p])
     THEN /\ ApplyLayerRelease(activeCodes[p])
          /\ activeCodes' = [activeCodes EXCEPT ![p] = NoCode]
     ELSE UNCHANGED <<layerVars, activeCodes>>

\* Mutant: the release acts on what the key means now, not when it was pressed.
ReleaseKey_Resolved(p) ==
  /\ pc = "release" /\ Handles(p)
  /\ IF IsLayerAction(activeCodes[p])
     THEN ApplyLayerRelease(Resolve(p)) ELSE UNCHANGED layerVars
  /\ activeCodes' = [activeCodes EXCEPT ![p] = NoCode]

\* Lines 62-80: a release undoes what the press latched.
ReleaseKey(p) ==
  /\ pc = "release" /\ Handles(p)
  /\ IF IsLayerAction(activeCodes[p])
     THEN ApplyLayerRelease(activeCodes[p]) ELSE UNCHANGED layerVars
  /\ activeCodes' = [activeCodes EXCEPT ![p] = NoCode]

\* Lines 82-103: layer keys come before the others.
PressLayerKey(p) ==
  /\ pc = "layers" /\ Handles(p)
  /\ LET code == Resolve(p)
     IN  \/ /\ IsLayerAction(code)
            /\ ApplyLayerPress(code)
            /\ activeCodes' = [activeCodes EXCEPT ![p] = code]
         \/ /\ classifyKeycode(code) = "boot"
            /\ activeCodes' = [activeCodes EXCEPT ![p] = code]
            /\ UNCHANGED layerVars
         \/ /\ classifyKeycode(code) \notin {"layer", "boot"}
            /\ UNCHANGED <<activeCodes, layerVars>>

\* Lines 105-132: a position that has no code yet latches the one it resolves to
\* now.  A layer key that only shows up here is latched, but not applied.
PressKey(p) ==
  /\ pc = "keys" /\ Handles(p)
  /\ LET code == Resolve(p)
     IN  IF activeCodes[p] # NoCode THEN UNCHANGED activeCodes
         ELSE activeCodes' = [activeCodes EXCEPT ![p] =
                IF classifyKeycode(code) \in {"none", "transparent"} THEN NoCode ELSE code]
  /\ UNCHANGED layerVars

\* Lines 135-148.  BLE does not allow remote wakeup; STM32 is never suspended.
StaySuspended ==
  /\ pc = "outcome" /\ suspended
  /\ wasSuspended' = TRUE
  /\ wakeRequested' = (wakeRequested
       \/ (~setup.immediate /\ \E p \in Position : activeCodes[p] # NoCode))
  /\ pc' = "scan"
  /\ UNCHANGED <<setup, keymap, matrixVars, batch, todo, activeCodes, layerVars,
                 reportVars, hidVars>>

\* Mutant: a change that comes while a report is pending waits for the next one.
Publish_KeepsPending ==
  /\ pc = "outcome" /\ ~suspended
  /\ wasSuspended' = FALSE /\ wakeRequested' = FALSE
  /\ \/ /\ ~reportPending /\ Desired # lastAccepted
        /\ pendingReport' = Desired /\ reportPending' = TRUE
        /\ pc' = "send"
        /\ UNCHANGED lastAccepted
     \/ /\ reportPending \/ Desired = lastAccepted
        /\ pc' = "scan"
        /\ UNCHANGED reportVars
  /\ UNCHANGED <<setup, keymap, matrixVars, batch, todo, activeCodes, layerVars, hidVars>>

\* Lines 150-166: a report that differs from the pending one, or else from the
\* last one, is sent.
Publish ==
  /\ pc = "outcome" /\ ~suspended
  /\ wasSuspended' = FALSE /\ wakeRequested' = FALSE
  /\ LET last == IF reportPending THEN pendingReport ELSE lastAccepted
     IN  \/ /\ Desired # last
            /\ pendingReport' = Desired /\ reportPending' = TRUE
            /\ pc' = "send"
            /\ UNCHANGED lastAccepted
         \/ /\ Desired = last
            /\ pc' = "scan"
            /\ UNCHANGED reportVars
  /\ UNCHANGED <<setup, keymap, matrixVars, batch, todo, activeCodes, layerVars, hidVars>>

SendReport ==
  /\ pc = "send"
  /\ TrySend(pendingReport)
  /\ pc' = "scan"
  /\ UNCHANGED <<setup, keymap, matrixVars, batch, todo, activeCodes, layerVars,
                 reportVars, wakeVars>>

-----------------------------------------------------------------------------
Init ==
  /\ setup \in Setups
  /\ keymap = setup.keymap
  /\ stable = {} /\ changed = {} /\ batch = {} /\ todo = {}
  /\ pc = "scan"
  /\ activeCodes = [p \in Position |-> NoCode]
  /\ mask = {} /\ refCounts = [l \in Layer |-> 0] /\ defaultLayer = 0
  /\ pendingReport = NoReport /\ reportPending = FALSE /\ lastAccepted = NoReport
  /\ wasSuspended = FALSE /\ wakeRequested = FALSE
  /\ suspended = setup.disconnects
  /\ inFlight = NoFlight /\ host = NoReport

Handling  == \E p \in Position : ReleaseKey(p) \/ PressLayerKey(p) \/ PressKey(p)
Task      == Ack \/ Resend \/ NothingToDo \/ Leave \/ TakeChanges \/ NextPass
               \/ Handling \/ StaySuspended \/ Publish \/ SendReport
Connection == Disconnect \/ Connect

Next == Remap \/ MatrixTask \/ Task \/ Transferred \/ Connection
Spec == Init /\ [][Next]_vars

-----------------------------------------------------------------------------
(* Properties *)

IsReport(r) ==
  r.modifiers \subseteq 0..7 /\ r.keys \in Seq(-1..255) /\ Len(r.keys) <= Slots

\* What the keyboard's and the endpoint's state ranges over: layers and counts within
\* the arrays, reports within the eight bytes of the boot protocol.
TypeOK ==
  /\ keymap \in Keymap
  /\ {stable, changed, batch, todo} \subseteq SUBSET Position
  /\ pc \in {"scan", "ack", "resend", "check", "leave", "release", "layers", "keys",
             "outcome", "send"}
  /\ activeCodes \in [Position -> Code]
  /\ mask \subseteq Layer /\ refCounts \in [Layer -> 0..255] /\ defaultLayer \in Layer
  /\ {reportPending, wasSuspended, wakeRequested, suspended} \subseteq BOOLEAN
  /\ \A r \in {pendingReport, lastAccepted, host, inFlight} : IsReport(r)

Holds(p, l) == IsLayerAction(activeCodes[p]) /\ Targets(activeCodes[p], Momentary)
                 /\ LayerOf(activeCodes[p]) = l
Holders(l)  == { p \in Position : Holds(p, l) }

\* Between two tasks exactly the keys that are down may have a code, whatever
\* was remapped or disconnected meanwhile: a code cannot outlive its key.
NoStuckCode == pc = "scan" => \A p \in Position : activeCodes[p] # NoCode => p \in stable

\* A momentary layer's count never exceeds the keys that hold it, whatever
\* toggles, TO keys and remaps come in between: no layer outlives its keys on
\* account of a count.
CountsHaveKeys == \A l \in Layer : refCounts[l] <= Cardinality(Holders(l))

\* Where all layer keys are momentary and on layer 0, a layer is active exactly while
\* one of its keys is held, however the keys were remapped since they were pressed.
\* (A layer key on another layer may show up in the last pass, which only latches it.)
LowMomentary(l, code) == IsLayerAction(code) => l = 0 /\ LayerActionOf(code) = Momentary
OnlyMomentary ==
  /\ \A l \in Layer, p \in Position : LowMomentary(l, setup.keymap[l][p])
  /\ \A r \in setup.remaps : LowMomentary(r[1], r[3])
MomentaryExact ==
  pc = "scan" /\ OnlyMomentary => \A l \in Layer : l \in mask <=> Holders(l) # {}

\* An endpoint that delivers at once whatever it is given while there is a host.
Delivers == setup.immediate /\ ~setup.refuses

\* On such an endpoint, a host that stays connected sees between two tasks exactly
\* the keys that are held: no more and no less.
HostInSync ==
  pc = "scan" /\ Delivers /\ ~setup.disconnects => host = Desired

\* A host that comes and goes never sees a key or modifier down that is up, once
\* the device has noticed that it is connected.
HostNeverStuck ==
  pc = "scan" /\ Delivers /\ ~suspended /\ ~wasSuspended =>
    /\ host.modifiers \subseteq Desired.modifiers
    /\ ToSet(host.keys) \subseteq ToSet(Desired.keys)

\* Between two tasks the report the keyboard is retrying, or believes a host has
\* that was never gone, is the newest one: an outdated one is never sent again.
LatestWanted ==
  pc = "scan" /\ ~setup.disconnects =>
    (IF reportPending THEN pendingReport ELSE lastAccepted) = Desired

\* Design sections 6KRO and Suspend: a report stays pending until it was accepted, and
\* the current one is resent after a resume.  Once a connection is noticed, what the
\* keyboard believes accepted is what this host has or is being given.
AcceptedWasSent ==
  pc = "scan" /\ ~reportPending /\ ~suspended /\ ~wasSuspended =>
    lastAccepted \in {host, inFlight}
=============================================================================
