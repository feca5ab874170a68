---------------------------- MODULE KeyboardProofs ----------------------------
(* Proofs about Keyboard: its types; codes do not outlive their keys, nor layers *)
(* their counts; momentary layers are exact; and the report that is pending, or  *)
(* believed accepted, is the newest.                                             *)
EXTENDS Keyboard, KeycodesProofs

LEMMA PositionsFinite == IsFiniteSet(Position) /\ Cardinality(Position) <= 255
<1>1. Positions \in Int /\ Positions >= 1 /\ Positions <= 255
  BY SizeAssumption
<1>2. IsFiniteSet(1..Positions) /\ Cardinality(1..Positions) = Positions
  BY <1>1, FS_Interval
<1> QED BY <1>1, <1>2 DEF Position

\* A pass finds its first position, and resolve() its highest layer.
LEMMA MinIsIn ==
  ASSUME NEW S, S \subseteq Nat, S # {}
  PROVE  Min(S) \in S
BY LeastNumber DEF Min

LEMMA MaxIsIn ==
  ASSUME NEW S, S \subseteq Layer, S # {}
  PROVE  Max(S) \in S /\ \A l \in S : l <= Max(S)
<1> DEFINE Below == { Layers - l : l \in S }
<1>1. Layers \in Nat /\ \A l \in S : l \in Nat /\ Layers - l \in Nat
  BY SizeAssumption DEF Layer
<1>2. Below \subseteq Nat /\ Below # {}
  BY <1>1
<1>3. PICK n \in Below : \A k \in Below : n <= k
  BY <1>2, LeastNumber
<1>4. PICK m \in S : n = Layers - m
  BY <1>3
<1>5. \A l \in S : m >= l
  BY <1>1, <1>3, <1>4
<1> QED BY <1>5, <1>1 DEF Max

-----------------------------------------------------------------------------
(* Types, but for the reports. *)

StateOK ==
  /\ setup \in Setups /\ keymap \in Keymap
  /\ {stable, changed, batch, todo} \subseteq SUBSET Position
  /\ pc \in {"scan", "ack", "resend", "check", "leave", "release", "layers", "keys",
             "outcome", "send"}
  /\ activeCodes \in [Position -> Code]
  /\ mask \subseteq Layer /\ refCounts \in [Layer -> 0..255] /\ defaultLayer \in Layer
  /\ {reportPending, wasSuspended, wakeRequested, suspended} \subseteq BOOLEAN

LEMMA StateOKInit == Init => StateOK
<1> SUFFICES ASSUME Init PROVE StateOK
  OBVIOUS
<1>1. 0 \in Layer /\ 0 \in 0..255 /\ NoCode \in Code
  BY SizeAssumption DEF Layer, NoCode, Code
<1>2. setup.keymap \in Keymap /\ setup.disconnects \in BOOLEAN
  BY SetupAssumption DEF Init
<1> QED BY <1>1, <1>2 DEF Init, StateOK

LEMMA ResolveType ==
  ASSUME StateOK, NEW p \in Position
  PROVE  Resolve(p) \in Code
<1> DEFINE opaque == { l \in mask : keymap[l][p] # 1 }
<1>1. keymap \in [Layer -> [Position -> Code]] /\ opaque \subseteq Layer
  BY DEF StateOK, Keymap
<1>2. opaque # {} => Max(opaque) \in Layer
  BY <1>1, MaxIsIn
<1>3. NoCode \in Code
  BY DEF NoCode, Code
<1> QED BY <1>1, <1>2, <1>3 DEF Resolve

LEMMA HandledIsIn ==
  ASSUME StateOK, NEW p \in Position, Handles(p)
  PROVE  p \in todo
BY MinIsIn DEF StateOK, Handles, Position

LEMMA NoCodeIsCode == NoCode \in Code
BY DEF NoCode, Code

LEMMA LayerPressTypes ==
  ASSUME StateOK, NEW code \in Code, ApplyLayerPress(code)
  PROVE  mask' \subseteq Layer /\ refCounts' \in [Layer -> 0..255] /\ defaultLayer' \in Layer
<1> DEFINE l == LayerOf(code)
<1>1. \A n \in 0..255 : (n + 1) % 256 \in 0..255
  OBVIOUS
<1>2. CASE Targets(code, Momentary) /\ refCounts' = [refCounts EXCEPT ![l] = (@ + 1) % 256]
             /\ mask' = mask \cup {l} /\ UNCHANGED defaultLayer
  BY <1>1, <1>2 DEF StateOK, Targets
<1>3. CASE Targets(code, Toggle) /\ mask' = SymDiff(mask, {l}) /\ UNCHANGED <<refCounts, defaultLayer>>
  BY <1>3 DEF StateOK, Targets, SymDiff
<1>4. CASE Targets(code, To) /\ mask' = {l} /\ refCounts' = [i \in Layer |-> 0] /\ UNCHANGED defaultLayer
  BY <1>4 DEF StateOK, Targets
<1>5. CASE Targets(code, DefaultTo) /\ defaultLayer' = l /\ UNCHANGED <<mask, refCounts>>
  BY <1>5 DEF StateOK, Targets
<1>6. CASE LayerOf(code) \notin Layer /\ UNCHANGED layerVars
  BY <1>6 DEF StateOK, layerVars
<1> QED BY <1>2, <1>3, <1>4, <1>5, <1>6 DEF ApplyLayerPress

LEMMA LayerReleaseTypes ==
  ASSUME StateOK, NEW code \in Code, ApplyLayerRelease(code)
  PROVE  mask' \subseteq Layer /\ refCounts' \in [Layer -> 0..255] /\ defaultLayer' \in Layer
<1> DEFINE l == LayerOf(code)
<1>1. \A n \in 0..255 : n > 0 => n - 1 \in 0..255
  OBVIOUS
<1>2. CASE Targets(code, Momentary) /\ refCounts[l] > 0
  BY <1>1, <1>2 DEF StateOK, Targets, ApplyLayerRelease
<1>3. CASE ~(Targets(code, Momentary) /\ refCounts[l] > 0)
  BY <1>3 DEF StateOK, ApplyLayerRelease, layerVars
<1> QED BY <1>2, <1>3

\* What a handled key does to the layers and to its code.
LEMMA HandlingTypes ==
  ASSUME StateOK, NEW p \in Position, ReleaseKey(p) \/ PressLayerKey(p) \/ PressKey(p)
  PROVE  /\ p \in todo /\ todo' = todo \ {p}
         /\ UNCHANGED <<setup, keymap, matrixVars, pc, batch, reportVars, wakeVars, hidVars>>
         /\ mask' \subseteq Layer /\ refCounts' \in [Layer -> 0..255] /\ defaultLayer' \in Layer
         /\ activeCodes' \in [Position -> Code]
         /\ \A q \in Position \ {p} : activeCodes'[q] = activeCodes[q]
<1>0. Handles(p)
  BY DEF ReleaseKey, PressLayerKey, PressKey
<1>1. /\ p \in todo /\ todo' = todo \ {p}
      /\ UNCHANGED <<setup, keymap, matrixVars, pc, batch, reportVars, wakeVars, hidVars>>
  BY <1>0, HandledIsIn DEF Handles
<1>2. Resolve(p) \in Code /\ NoCode \in Code /\ activeCodes[p] \in Code
  BY ResolveType, NoCodeIsCode DEF StateOK
<1>3. activeCodes \in [Position -> Code]
  BY DEF StateOK
<1>4. UNCHANGED layerVars =>
        mask' \subseteq Layer /\ refCounts' \in [Layer -> 0..255] /\ defaultLayer' \in Layer
  BY DEF layerVars, StateOK
<1>5. mask' \subseteq Layer /\ refCounts' \in [Layer -> 0..255] /\ defaultLayer' \in Layer
  BY <1>2, <1>4, LayerPressTypes, LayerReleaseTypes DEF ReleaseKey, PressLayerKey, PressKey
<1>6. \E code \in Code : activeCodes' = [activeCodes EXCEPT ![p] = code]
  <2>1. UNCHANGED activeCodes => activeCodes' = [activeCodes EXCEPT ![p] = activeCodes[p]]
    BY <1>3
  <2> QED BY <1>2, <2>1 DEF ReleaseKey, PressLayerKey, PressKey
<1>7. /\ activeCodes' \in [Position -> Code]
      /\ \A q \in Position \ {p} : activeCodes'[q] = activeCodes[q]
  BY <1>3, <1>6
<1> QED BY <1>1, <1>5, <1>7

LEMMA StateOKStep == StateOK /\ [Next]_vars => StateOK'
<1> SUFFICES ASSUME StateOK, [Next]_vars PROVE StateOK'
  OBVIOUS
<1> USE DEF matrixVars, layerVars, reportVars, wakeVars, hidVars
<1>1. CASE Remap
  <2>1. PICK r \in setup.remaps : keymap' = [keymap EXCEPT ![r[1]][r[2]] = r[3]]
    BY <1>1 DEF Remap
  <2>2. r \in Layer \X Position \X Code
    BY <2>1, SetupAssumption DEF StateOK
  <2>3. keymap' \in Keymap
    BY <2>1, <2>2 DEF StateOK, Keymap
  <2> QED BY <1>1, <2>3 DEF Remap, StateOK
<1>2. CASE MatrixTask
  BY <1>2 DEF MatrixTask, StateOK, SymDiff
<1>3. CASE Transferred \/ Disconnect \/ Connect
  <2>1. suspended' \in BOOLEAN
    BY <1>3 DEF Transferred, Disconnect, Connect, StateOK
  <2> QED BY <1>3, <2>1 DEF Transferred, Disconnect, Connect, StateOK
<1>4. CASE Ack
  BY <1>4 DEF Ack, StateOK
<1>5. CASE Resend \/ SendReport
  BY <1>5 DEF Resend, SendReport, TrySend, StateOK
<1>6. CASE NothingToDo \/ Leave
  BY <1>6 DEF NothingToDo, Leave, StateOK
<1>7. CASE TakeChanges \/ NextPass
  BY <1>7 DEF TakeChanges, NextPass, StateOK
<1>8. CASE Handling
  BY <1>8, HandlingTypes DEF Handling, StateOK
<1>9. CASE StaySuspended
  BY <1>9 DEF StaySuspended, StateOK
<1>10. CASE Publish
  BY <1>10 DEF Publish, StateOK
<1>11. CASE UNCHANGED vars
  BY <1>11 DEF vars, StateOK
<1> QED
  BY <1>1, <1>2, <1>3, <1>4, <1>5, <1>6, <1>7, <1>8, <1>9, <1>10, <1>11 DEF Next, Task, Connection

LEMMA StateOKInvariant == Spec => []StateOK
BY StateOKInit, StateOKStep, PTL DEF Spec

-----------------------------------------------------------------------------
(* Whose code it is *)

Latched(p) == activeCodes[p] # NoCode

\* Between the passes a code belongs to a key that is down, or whose release is among
\* the changes, and a key whose press is has none yet.  Each pass keeps that for what it
\* has done, and works on releases or on presses only.
KeysInv ==
  /\ pc \notin {"ack", "resend", "check"} => changed = {}
  /\ pc \in {"scan", "ack", "resend", "check", "leave"} =>
       \A p \in Position : /\ Latched(p) => p \in stable \/ p \in changed
                           /\ p \in changed \cap stable => ~Latched(p)
  /\ pc = "release" =>
       /\ todo \subseteq batch \ stable
       /\ \A p \in Position : /\ Latched(p) => p \in stable \/ p \in todo
                              /\ p \in batch \cap stable => ~Latched(p)
  /\ pc \in {"layers", "keys"} => todo \subseteq batch \cap stable
  /\ pc = "layers" => \A p \in todo : ~Latched(p)
  /\ pc \in {"layers", "keys", "outcome", "send"} => \A p \in Position : Latched(p) => p \in stable

LEMMA KeysInvInit == Init => KeysInv
BY DEF Init, KeysInv, Latched

LEMMA WithoutChanges ==
  ASSUME KeysInv, changed = {}, pc \in {"scan", "ack", "resend", "check", "leave"}
  PROVE  \A p \in Position : Latched(p) => p \in stable
<1>1. SUFFICES ASSUME NEW p \in Position, Latched(p) PROVE p \in stable
  OBVIOUS
<1>2. p \in stable \/ p \in changed
  BY <1>1 DEF KeysInv
<1> QED BY <1>2

LEMMA AfterReleases ==
  ASSUME KeysInv, todo = {}, pc = "release"
  PROVE  \A p \in Position : /\ Latched(p) => p \in stable
                             /\ p \in batch \cap stable => ~Latched(p)
<1>1. SUFFICES ASSUME NEW p \in Position
               PROVE  (Latched(p) => p \in stable) /\ (p \in batch \cap stable => ~Latched(p))
  OBVIOUS
<1>2. (Latched(p) => p \in stable \/ p \in todo) /\ (p \in batch \cap stable => ~Latched(p))
  BY DEF KeysInv
<1> QED BY <1>2

LEMMA KeysInvStep == StateOK /\ KeysInv /\ [Next]_vars => KeysInv'
<1> SUFFICES ASSUME StateOK, KeysInv, [Next]_vars PROVE KeysInv'
  OBVIOUS
<1>0. stable \subseteq Position /\ changed \subseteq Position /\ batch \subseteq Position /\ todo \subseteq Position
  BY DEF StateOK
<1> USE DEF KeysInv, Latched, matrixVars, layerVars
<1>1. CASE Remap
  BY <1>1 DEF Remap
<1>2. CASE MatrixTask
  <2>1. changed = {} /\ pc = "scan" /\ pc' = "ack" /\ UNCHANGED activeCodes
    BY <1>2 DEF MatrixTask
  <2>2. \A p \in Position : Latched(p) => p \in stable
    BY ONLY <2>1, KeysInv, WithoutChanges
  <2>3. CASE UNCHANGED matrixVars
    BY <2>1, <2>2, <2>3
  <2>4. ASSUME NEW new \in SUBSET Position, stable' = new, changed' = SymDiff(stable, new)
        PROVE  KeysInv'
    <3>1. \A p \in Position : p \in changed' <=> ~(p \in stable <=> p \in stable')
      BY <1>0, <2>4 DEF SymDiff
    <3> QED BY <2>1, <2>2, <3>1
  <2> QED BY <1>2, <2>3, <2>4 DEF MatrixTask
<1>3. CASE Transferred \/ Disconnect \/ Connect
  BY <1>3 DEF Transferred, Disconnect, Connect
<1>4. CASE Ack
  BY <1>4 DEF Ack
<1>5. CASE Resend \/ SendReport
  BY <1>5 DEF Resend, SendReport
<1>6. CASE NothingToDo \/ Leave
  BY <1>6 DEF NothingToDo, Leave
<1>7. CASE TakeChanges
  BY <1>7 DEF TakeChanges
<1>8. CASE NextPass
  <2>1. CASE pc = "release" /\ pc' = "layers" /\ todo' = batch \cap stable
    <3>1. todo = {} /\ changed = {} /\ UNCHANGED <<matrixVars, batch, activeCodes>>
      BY <1>8, <2>1 DEF NextPass
    <3>2. \A p \in Position : /\ Latched(p) => p \in stable
                              /\ p \in batch \cap stable => ~Latched(p)
      BY ONLY <2>1, <3>1, KeysInv, AfterReleases
    <3> QED BY <1>0, <2>1, <3>1, <3>2
  <2>2. CASE pc = "layers" /\ pc' = "keys" /\ todo' = batch \cap stable
    BY <1>8, <2>2 DEF NextPass
  <2>3. CASE pc = "keys" /\ pc' = "outcome" /\ UNCHANGED todo
    BY <1>8, <2>3 DEF NextPass
  <2> QED BY <1>8, <2>1, <2>2, <2>3 DEF NextPass
<1>9. ASSUME NEW p \in Position, ReleaseKey(p) \/ PressLayerKey(p) \/ PressKey(p) PROVE KeysInv'
  <2>1. /\ p \in todo /\ todo' = todo \ {p} /\ UNCHANGED <<matrixVars, pc, batch>>
        /\ \A q \in Position \ {p} : activeCodes'[q] = activeCodes[q]
    BY <1>9, HandlingTypes
  <2>2. CASE ReleaseKey(p)
    <3>1. activeCodes'[p] = NoCode /\ pc = "release"
      BY <2>2 DEF ReleaseKey, StateOK
    <3> QED BY <2>1, <3>1
  <2>3. CASE PressLayerKey(p) \/ PressKey(p)
    <3>1. pc \in {"layers", "keys"} /\ p \in stable
      BY <2>1, <2>3 DEF PressLayerKey, PressKey
    <3>2. \A q \in todo' : activeCodes'[q] = activeCodes[q]
      BY <1>0, <2>1
    <3> QED BY <2>1, <3>1, <3>2
  <2> QED BY <1>9, <2>2, <2>3
<1>10. CASE StaySuspended \/ Publish
  BY <1>10 DEF StaySuspended, Publish
<1>11. CASE UNCHANGED vars
  BY <1>11 DEF vars
<1> QED
  BY <1>1, <1>2, <1>3, <1>4, <1>5, <1>6, <1>7, <1>8, <1>9, <1>10, <1>11
  DEF Next, Task, Connection, Handling

LEMMA KeysInvariant == Spec => [](StateOK /\ KeysInv)
<1>1. StateOK /\ KeysInv /\ [Next]_vars => KeysInv'
  BY KeysInvStep
<1> QED BY <1>1, KeysInvInit, StateOKInvariant, PTL DEF Spec

\* Between two tasks only keys that are down have a code, whatever was remapped,
\* suspended or disconnected meanwhile: a code cannot outlive its key.
THEOREM CodesBelongToKeys == Spec => []NoStuckCode
<1>1. KeysInv => NoStuckCode
  <2> SUFFICES ASSUME KeysInv, pc = "scan" PROVE NoStuckCode
    BY DEF NoStuckCode
  <2>1. changed = {}
    BY DEF KeysInv
  <2> QED BY <2>1, WithoutChanges DEF NoStuckCode, Latched
<1> QED BY <1>1, KeysInvariant, PTL

-----------------------------------------------------------------------------
(* How many keys hold a layer *)

LEMMA HoldersCount ==
  ASSUME NEW S, S \subseteq Position
  PROVE  /\ Cardinality(S) \in 0..255
         /\ \A p \in S : Cardinality(S \ {p}) = Cardinality(S) - 1 /\ Cardinality(S) > 0
         /\ \A p \in Position \ S : Cardinality(S \cup {p}) = Cardinality(S) + 1
<1>1. IsFiniteSet(S) /\ Cardinality(S) <= Cardinality(Position)
  BY PositionsFinite, FS_Subset
<1>2. Cardinality(S) \in Nat /\ Cardinality(Position) \in Nat
  BY <1>1, PositionsFinite, FS_CardinalityType
<1>3. Cardinality(S) \in 0..255
  BY <1>1, <1>2, PositionsFinite
<1>4. \A p \in S : Cardinality(S \ {p}) = Cardinality(S) - 1 /\ Cardinality(S) # 0
  BY <1>1, FS_RemoveElement, FS_EmptySet
<1>5. \A p \in Position \ S : Cardinality(S \cup {p}) = Cardinality(S) + 1
  BY <1>1, FS_AddElement
<1> QED BY <1>2, <1>3, <1>4, <1>5

LEMMA HoldersFew ==
  ASSUME NEW S, S \subseteq Position, NEW p \in Position \ S
  PROVE  Cardinality(S) + 1 <= 255
<1>1. S \cup {p} \subseteq Position
  OBVIOUS
<1>2. Cardinality(S \cup {p}) <= 255
  BY <1>1, HoldersCount
<1> QED BY <1>2, HoldersCount

LEMMA LayerKeysClassified ==
  ASSUME NEW code \in Code, IsLayerAction(code)
  PROVE  classifyKeycode(code) = "layer" /\ code # NoCode
<1>1. code >= 20992
  BY DEF Code, IsLayerAction, Hi
<1> QED BY <1>1 DEF classifyKeycode, IsLayerAction, NoCode, Code

LEMMA HoldersChange ==
  ASSUME StateOK, NEW p \in Position, NEW code \in Code, NEW l \in Layer,
         activeCodes' = [activeCodes EXCEPT ![p] = code]
  PROVE  /\ Holders(l) \subseteq Position /\ Holders(l)' \subseteq Position
         /\ Holders(l) \ {p} = Holders(l)' \ {p}
         /\ p \in Holders(l)' <=> Targets(code, Momentary) /\ LayerOf(code) = l
<1>1. activeCodes'[p] = code /\ \A q \in Position \ {p} : activeCodes'[q] = activeCodes[q]
  BY DEF StateOK
<1> QED BY <1>1 DEF Holders, Holds, Targets

LEMMA NoCodeHoldsNothing ==
  ASSUME StateOK, NEW p \in Position, activeCodes[p] = NoCode, NEW l \in Layer
  PROVE  p \notin Holders(l)
BY LayerKeysClassified, NoCodeIsCode DEF Holders, Holds

\* A release takes its key from the holders, and one from the count if there is one.
LEMMA ReleaseCounts ==
  ASSUME StateOK, NEW p \in Position, ReleaseKey(p), NEW l \in Layer
  PROVE  /\ Holders(l) \subseteq Position
         /\ Holders(l)' = Holders(l) \ {p}
         /\ p \in Holders(l) /\ refCounts[l] > 0 =>
              refCounts'[l] = refCounts[l] - 1 /\ (l \in mask' <=> l \in mask /\ refCounts[l] # 1)
         /\ ~(p \in Holders(l) /\ refCounts[l] > 0) =>
              refCounts'[l] = refCounts[l] /\ (l \in mask' <=> l \in mask)
<1>1. activeCodes' = [activeCodes EXCEPT ![p] = NoCode]
  BY DEF ReleaseKey
<1>2. ~Targets(NoCode, Momentary)
  BY LayerKeysClassified, NoCodeIsCode DEF Targets
<1>3. Holders(l) \subseteq Position /\ Holders(l)' = Holders(l) \ {p}
  BY <1>1, <1>2, HoldersChange, NoCodeIsCode
<1>4. p \in Holders(l) <=> Targets(activeCodes[p], Momentary) /\ LayerOf(activeCodes[p]) = l
  BY DEF Holders, Holds, Targets
<1>5. \/ ApplyLayerRelease(activeCodes[p])
      \/ ~IsLayerAction(activeCodes[p]) /\ UNCHANGED layerVars
  BY DEF ReleaseKey
<1>6. CASE Targets(activeCodes[p], Momentary) /\ refCounts[LayerOf(activeCodes[p])] > 0
  BY <1>3, <1>4, <1>5, <1>6 DEF ApplyLayerRelease, StateOK, Targets
<1>7. CASE ~(Targets(activeCodes[p], Momentary) /\ refCounts[LayerOf(activeCodes[p])] > 0)
  BY <1>3, <1>4, <1>5, <1>7 DEF ApplyLayerRelease, layerVars
<1> QED BY <1>6, <1>7

\* The first press pass counts a key that holds the layer, and no other.
LEMMA PressCounts ==
  ASSUME StateOK, NEW p \in Position, PressLayerKey(p), ~Latched(p), NEW l \in Layer
  PROVE  /\ Holders(l) \subseteq Position /\ p \notin Holders(l)
         /\ p \in Holders(l)' =>
              /\ Holders(l)' = Holders(l) \cup {p}
              /\ refCounts'[l] = (refCounts[l] + 1) % 256 /\ l \in mask'
         /\ p \notin Holders(l)' =>
              /\ Holders(l)' = Holders(l)
              /\ refCounts'[l] \in {0, refCounts[l]}
              /\ (IsLayerAction(Resolve(p)) => LayerActionOf(Resolve(p)) = Momentary)
                 => refCounts'[l] = refCounts[l] /\ (l \in mask' <=> l \in mask)
<1> DEFINE code == Resolve(p)
<1>1. code \in Code /\ NoCode \in Code
  BY ResolveType, NoCodeIsCode
<1>2. p \notin Holders(l)
  BY NoCodeHoldsNothing DEF Latched
<1>3. CASE IsLayerAction(code)
  <2>1. activeCodes' = [activeCodes EXCEPT ![p] = code] /\ ApplyLayerPress(code)
    BY <1>3, <1>1, LayerKeysClassified DEF PressLayerKey
  <2>2. /\ Holders(l) \subseteq Position /\ Holders(l)' \subseteq Position
        /\ Holders(l) \ {p} = Holders(l)' \ {p}
        /\ p \in Holders(l)' <=> Targets(code, Momentary) /\ LayerOf(code) = l
    BY <1>1, <2>1, HoldersChange
  <2>3. p \in Holders(l)' => refCounts'[l] = (refCounts[l] + 1) % 256 /\ l \in mask'
    BY <2>1, <2>2 DEF ApplyLayerPress, Targets, StateOK, Momentary, Toggle, To, DefaultTo
  <2>4. p \notin Holders(l)' => ~(Targets(code, Momentary) /\ LayerOf(code) = l)
    BY <2>2
  <2>5. p \notin Holders(l)' => refCounts'[l] \in {0, refCounts[l]}
    BY <2>1, <2>4 DEF ApplyLayerPress, StateOK, layerVars, Targets
  <2>6. p \notin Holders(l)' /\ LayerActionOf(code) = Momentary =>
          refCounts'[l] = refCounts[l] /\ (l \in mask' <=> l \in mask)
    BY <2>1, <2>4 DEF ApplyLayerPress, Targets, StateOK, layerVars, Momentary, Toggle, To, DefaultTo
  <2> QED BY <1>2, <1>3, <2>2, <2>3, <2>5, <2>6
<1>4. CASE ~IsLayerAction(code)
  <2>1. UNCHANGED layerVars /\ \E c \in Code : ~IsLayerAction(c) /\ activeCodes' = [activeCodes EXCEPT ![p] = c]
    <3>1. UNCHANGED activeCodes => activeCodes' = [activeCodes EXCEPT ![p] = NoCode]
      BY DEF Latched, StateOK
    <3>2. ~IsLayerAction(NoCode)
      BY NoCodeIsCode, LayerKeysClassified
    <3> QED BY <1>1, <1>4, <3>1, <3>2 DEF PressLayerKey
  <2>2. PICK c \in Code : ~IsLayerAction(c) /\ activeCodes' = [activeCodes EXCEPT ![p] = c]
    BY <2>1
  <2>3. /\ Holders(l) \subseteq Position /\ Holders(l)' \subseteq Position
        /\ Holders(l) \ {p} = Holders(l)' \ {p} /\ p \notin Holders(l)'
    BY <2>2, HoldersChange DEF Targets
  <2>4. Holders(l)' = Holders(l)
    BY <1>2, <2>3
  <2>5. refCounts' = refCounts /\ mask' = mask
    BY <2>1 DEF layerVars
  <2> QED BY <1>2, <2>3, <2>4, <2>5
<1> QED BY <1>3, <1>4

\* The last pass latches, but counts nothing.
LEMMA LatchCounts ==
  ASSUME StateOK, NEW p \in Position, PressKey(p), NEW l \in Layer
  PROVE  /\ Holders(l) \subseteq Holders(l)' /\ Holders(l)' \subseteq Position
         /\ refCounts' = refCounts /\ mask' = mask /\ defaultLayer' = defaultLayer
         /\ Latched(p) \/ ~IsLayerAction(Resolve(p)) => Holders(l)' = Holders(l)
<1>1. refCounts' = refCounts /\ mask' = mask /\ defaultLayer' = defaultLayer
  BY DEF PressKey, layerVars
<1>2. CASE Latched(p)
  BY <1>1, <1>2 DEF PressKey, Latched, Holders, Holds, Targets
<1>3. CASE ~Latched(p)
  <2>1. PICK c \in {NoCode, Resolve(p)} : activeCodes' = [activeCodes EXCEPT ![p] = c]
    BY <1>3 DEF PressKey, Latched
  <2>2. c \in Code /\ ~IsLayerAction(NoCode)
    BY <2>1, ResolveType, NoCodeIsCode, LayerKeysClassified
  <2>3. /\ Holders(l) \subseteq Position /\ Holders(l)' \subseteq Position
        /\ Holders(l) \ {p} = Holders(l)' \ {p}
        /\ p \in Holders(l)' => IsLayerAction(c)
    BY <2>1, <2>2, HoldersChange DEF Targets
  <2>4. p \notin Holders(l)
    BY <1>3, NoCodeHoldsNothing DEF Latched
  <2>5. Holders(l) \subseteq Holders(l)'
    BY <2>3, <2>4
  <2>6. ~IsLayerAction(Resolve(p)) => Holders(l)' = Holders(l)
    <3>1. ~IsLayerAction(Resolve(p)) => ~IsLayerAction(c)
      BY <2>1, <2>2
    <3> QED BY <2>3, <2>4, <3>1
  <2> QED BY <1>1, <1>3, <2>3, <2>5, <2>6
<1> QED BY <1>2, <1>3

LEMMA SameHolders ==
  ASSUME UNCHANGED activeCodes, NEW l \in Layer
  PROVE  Holders(l)' = Holders(l)
BY DEF Holders, Holds, Targets

\* Only a handled key changes what is latched or counted.
LEMMA OnlyHandling ==
  ASSUME [Next]_vars, ~Handling
  PROVE  UNCHANGED <<setup, activeCodes, layerVars>>
BY DEF Next, Task, Connection, vars, Remap, MatrixTask, Transferred, Disconnect, Connect, Ack,
   Resend, SendReport, NothingToDo, Leave, TakeChanges, NextPass, StaySuspended, Publish

LEMMA CountsStep == StateOK /\ KeysInv /\ CountsHaveKeys /\ [Next]_vars => CountsHaveKeys'
<1> SUFFICES ASSUME StateOK, KeysInv, CountsHaveKeys, [Next]_vars, NEW l \in Layer
             PROVE  refCounts'[l] <= Cardinality(Holders(l)')
  BY DEF CountsHaveKeys
<1>0. refCounts[l] \in 0..255 /\ refCounts[l] <= Cardinality(Holders(l))
  BY DEF StateOK, CountsHaveKeys
<1>1. CASE ~Handling
  BY <1>0, <1>1, OnlyHandling, SameHolders DEF layerVars
<1>2. ASSUME NEW p \in Position, ReleaseKey(p) PROVE refCounts'[l] <= Cardinality(Holders(l)')
  <2>1. /\ Holders(l) \subseteq Position /\ Holders(l)' = Holders(l) \ {p}
        /\ p \in Holders(l) /\ refCounts[l] > 0 => refCounts'[l] = refCounts[l] - 1
        /\ ~(p \in Holders(l) /\ refCounts[l] > 0) => refCounts'[l] = refCounts[l]
    BY <1>2, ReleaseCounts
  <2>2. Cardinality(Holders(l)) \in 0..255
        /\ (p \in Holders(l) => Cardinality(Holders(l) \ {p}) = Cardinality(Holders(l)) - 1 /\ Cardinality(Holders(l)) > 0)
    BY <2>1, HoldersCount
  <2>3. p \notin Holders(l) => Holders(l) \ {p} = Holders(l)
    OBVIOUS
  <2>4. CASE p \in Holders(l)
    <3>1. Cardinality(Holders(l)') = Cardinality(Holders(l)) - 1
      BY <2>1, <2>2, <2>4
    <3>2. \/ refCounts'[l] = refCounts[l] - 1
          \/ refCounts[l] = 0 /\ refCounts'[l] = 0
      BY <1>0, <2>1, <2>4
    <3>3. Cardinality(Holders(l)) \in 1..255
      BY ONLY <2>2, <2>4
    <3>4. \A n \in 0..255, c \in 1..255 : n <= c => n - 1 <= c - 1 /\ 0 <= c - 1
      OBVIOUS
    <3>5. refCounts[l] - 1 <= Cardinality(Holders(l)) - 1 /\ 0 <= Cardinality(Holders(l)) - 1
      BY ONLY <1>0, <3>3, <3>4
    <3> QED BY ONLY <3>1, <3>2, <3>5
  <2>5. CASE p \notin Holders(l)
    BY <1>0, <2>1, <2>3, <2>5
  <2> QED BY <2>4, <2>5
<1>3. ASSUME NEW p \in Position, PressLayerKey(p) PROVE refCounts'[l] <= Cardinality(Holders(l)')
  <2>1. ~Latched(p)
    <3>1. pc = "layers" /\ p \in todo
      BY <1>3, HandledIsIn DEF PressLayerKey
    <3> QED BY <3>1 DEF KeysInv
  <2>2. /\ Holders(l) \subseteq Position /\ p \notin Holders(l)
        /\ p \in Holders(l)' =>
             Holders(l)' = Holders(l) \cup {p} /\ refCounts'[l] = (refCounts[l] + 1) % 256
        /\ p \notin Holders(l)' => Holders(l)' = Holders(l) /\ refCounts'[l] \in {0, refCounts[l]}
    BY <1>3, <2>1, PressCounts
  <2>3. Cardinality(Holders(l)) \in 0..255 /\ Cardinality(Holders(l) \cup {p}) = Cardinality(Holders(l)) + 1
    BY <2>2, HoldersCount
  <2>4. (refCounts[l] + 1) % 256 <= Cardinality(Holders(l)) + 1
    <3>1. \A n, c \in 0..255 : n <= c => (n + 1) % 256 <= c + 1
      OBVIOUS
    <3> QED BY ONLY <1>0, <2>3, <3>1
  <2>5. CASE p \in Holders(l)'
    BY <2>2, <2>3, <2>4, <2>5
  <2>6. CASE p \notin Holders(l)'
    BY <1>0, <2>2, <2>3, <2>6
  <2> QED BY <2>5, <2>6
<1>4. ASSUME NEW p \in Position, PressKey(p) PROVE refCounts'[l] <= Cardinality(Holders(l)')
  <2>1. Holders(l) \subseteq Holders(l)' /\ Holders(l)' \subseteq Position /\ refCounts' = refCounts
    BY <1>4, LatchCounts
  <2>2. IsFiniteSet(Holders(l)')
    BY <2>1, PositionsFinite, FS_Subset
  <2>3. /\ Cardinality(Holders(l)) <= Cardinality(Holders(l)')
        /\ Cardinality(Holders(l)) \in Nat /\ Cardinality(Holders(l)') \in Nat
    BY <2>1, <2>2, FS_Subset, FS_CardinalityType
  <2> QED BY <1>0, <2>1, <2>3
<1> QED BY <1>1, <1>2, <1>3, <1>4 DEF Handling

LEMMA CountsInit == Init => CountsHaveKeys
<1> SUFFICES ASSUME Init, NEW l \in Layer PROVE refCounts[l] <= Cardinality(Holders(l))
  BY DEF CountsHaveKeys
<1>1. Holders(l) \subseteq Position
  BY DEF Holders
<1>2. Cardinality(Holders(l)) \in 0..255
  BY <1>1, HoldersCount
<1> QED BY <1>2 DEF Init

\* No layer's count exceeds the keys that hold it, so that with the last of them it
\* reaches zero; no sequence of toggles, TO keys, remaps or reconnections breaks this,
\* and the byte the count is kept in does not wrap.
THEOREM CountsAreHeld == Spec => []CountsHaveKeys
<1>1. StateOK /\ KeysInv /\ CountsHaveKeys /\ [Next]_vars => CountsHaveKeys'
  BY CountsStep
<1> QED BY <1>1, CountsInit, KeysInvariant, PTL DEF Spec

-----------------------------------------------------------------------------
(* Where every layer key is momentary and on layer 0 *)

AllLow == \A l \in Layer, q \in Position : LowMomentary(l, keymap[l][q])

\* A layer key shows at a position if layer 0 has it and no active layer covers it.
Shown(q) ==
  IsLayerAction(keymap[0][q]) /\ \A l \in mask : l > 0 => keymap[l][q] = 1

\* Counts are exact and decide the mask, and the second press pass finds no layer key
\* that the first has not latched: layers only come on between the two, and none of
\* them uncovers a layer key.
ExactInv ==
  OnlyMomentary =>
    /\ AllLow /\ defaultLayer = 0
    /\ \A q \in Position : IsLayerAction(activeCodes[q]) => LayerActionOf(activeCodes[q]) = Momentary
    /\ \A l \in Layer : /\ refCounts[l] = Cardinality(Holders(l))
                        /\ l \in mask <=> refCounts[l] > 0
    /\ pc = "layers" => \A q \in (batch \cap stable) \ todo : ~Latched(q) => ~Shown(q)
    /\ pc = "keys" => \A q \in todo : ~Latched(q) => ~Shown(q)

LEMMA ResolveShows ==
  ASSUME StateOK, AllLow, defaultLayer = 0, NEW q \in Position
  PROVE  /\ IsLayerAction(Resolve(q)) <=> Shown(q)
         /\ IsLayerAction(Resolve(q)) => LayerActionOf(Resolve(q)) = Momentary
<1> DEFINE opaque == { l \in mask : keymap[l][q] # 1 }
<1>0. 0 \in Layer /\ \A l \in Layer : l >= 0
  BY SizeAssumption DEF Layer
<1>1. opaque \subseteq Layer /\ 0 \in Layer /\ \A l \in Layer : l >= 0
  BY <1>0 DEF StateOK
<1>2. ~IsLayerAction(1)
  BY DEF IsLayerAction, Hi
<1>3. \A l \in Layer : IsLayerAction(keymap[l][q]) => l = 0 /\ LayerActionOf(keymap[l][q]) = Momentary
  BY DEF AllLow, LowMomentary
<1>4. CASE opaque = {}
  <2>1. Resolve(q) = keymap[0][q]
    BY <1>1, <1>4 DEF Resolve
  <2>2. \A l \in mask : keymap[l][q] = 1
    BY <1>4
  <2> QED BY <1>1, <1>3, <2>1, <2>2 DEF Shown
<1>5. CASE opaque # {}
  <2> DEFINE top == Max(opaque)
  <2>1. top \in opaque /\ \A l \in opaque : l <= top
    BY <1>1, <1>5, MaxIsIn
  <2>2. Resolve(q) = keymap[top][q]
    BY <1>5 DEF Resolve
  <2>3. top \in Layer /\ top \in mask /\ keymap[top][q] # 1
    BY <1>1, <2>1
  <2>4. CASE top = 0
    <3>1. \A l \in mask : l > 0 => keymap[l][q] = 1
      BY <1>1, <2>1, <2>4 DEF StateOK, Layer
    <3> QED BY <1>1, <1>3, <2>2, <2>4, <3>1 DEF Shown
  <2>5. CASE top # 0
    <3>1. top > 0
      BY <1>1, <2>3, <2>5 DEF Layer
    <3>2. ~Shown(q)
      BY <2>3, <3>1 DEF Shown
    <3>3. ~IsLayerAction(Resolve(q))
      BY <1>3, <2>2, <2>3, <2>5
    <3> QED BY <3>2, <3>3
  <2> QED BY <2>4, <2>5
<1> QED BY <1>4, <1>5

LEMMA ExactInit == Init => ExactInv
<1> SUFFICES ASSUME Init, OnlyMomentary PROVE ExactInv
  BY DEF ExactInv
<1>1. AllLow
  BY DEF Init, OnlyMomentary, AllLow
<1>2. ~IsLayerAction(NoCode)
  BY NoCodeIsCode, LayerKeysClassified
<1>3. \A l \in Layer : Holders(l) = {}
  BY <1>2 DEF Init, Holders, Holds
<1>4. \A l \in Layer : Cardinality(Holders(l)) = 0
  BY <1>3, FS_EmptySet
<1> QED BY <1>1, <1>2, <1>4 DEF Init, ExactInv

\* Every step keeps the keymap low, whatever it remaps.
LEMMA LowStep ==
  ASSUME StateOK, [Next]_vars, OnlyMomentary, AllLow
  PROVE  AllLow' /\ OnlyMomentary'
<1>1. setup' = setup
  BY DEF Next, Task, Connection, Handling, vars, Remap, MatrixTask, Transferred, Disconnect,
     Connect, Ack, Resend, SendReport, NothingToDo, Leave, TakeChanges, NextPass, Handles,
     ReleaseKey, PressLayerKey, PressKey, StaySuspended, Publish
<1>2. CASE Remap
  <2>1. PICK r \in setup.remaps : keymap' = [keymap EXCEPT ![r[1]][r[2]] = r[3]]
    BY <1>2 DEF Remap
  <2>2. r \in Layer \X Position \X Code /\ LowMomentary(r[1], r[3])
    BY <2>1, SetupAssumption DEF StateOK, OnlyMomentary
  <2>3. \A l \in Layer, q \in Position :
          keymap'[l][q] = IF l = r[1] /\ q = r[2] THEN r[3] ELSE keymap[l][q]
    BY <2>1, <2>2 DEF StateOK, Keymap
  <2> QED BY <1>1, <2>2, <2>3 DEF AllLow, OnlyMomentary, LowMomentary
<1>3. CASE ~Remap
  <2>1. keymap' = keymap
    BY <1>3 DEF Next, Task, Connection, Handling, vars, MatrixTask, Transferred, Disconnect,
       Connect, Ack, Resend, SendReport, NothingToDo, Leave, TakeChanges, NextPass, Handles,
       ReleaseKey, PressLayerKey, PressKey, StaySuspended, Publish
  <2> QED BY <1>1, <2>1 DEF AllLow, OnlyMomentary
<1> QED BY <1>2, <1>3

\* Layers only come on while a pass presses keys, and cover what they cover.
LEMMA ShownLess ==
  ASSUME keymap' = keymap, mask \subseteq mask', NEW q \in Position, Shown(q)'
  PROVE  Shown(q)
BY DEF Shown

\* While no key is handled, nothing shows up that did not before.
LEMMA ShownElsewhere ==
  ASSUME [Next]_vars, ~Handling, pc' \in {"layers", "keys"}
  PROVE  /\ UNCHANGED <<keymap, stable, activeCodes, mask>>
         /\ \/ UNCHANGED <<pc, batch, todo>>
            \/ pc' = "layers" /\ todo' = batch' \cap stable'
            \/ pc = "layers" /\ todo = {} /\ pc' = "keys" /\ UNCHANGED batch /\ todo' = batch \cap stable
BY DEF Next, Task, Connection, vars, matrixVars, layerVars, Remap, MatrixTask, Transferred,
   Disconnect, Connect, Ack, Resend, SendReport, NothingToDo, Leave, TakeChanges, NextPass,
   StaySuspended, Publish

LEMMA ExactElsewhere ==
  ASSUME StateOK, ExactInv, OnlyMomentary, [Next]_vars, ~Handling
  PROVE  ExactInv'
<1>1. AllLow' /\ OnlyMomentary' /\ AllLow
  BY LowStep DEF ExactInv
<1>2. activeCodes' = activeCodes /\ mask' = mask /\ refCounts' = refCounts /\ defaultLayer' = defaultLayer
  BY OnlyHandling DEF layerVars
<1>3. \A l \in Layer : Holders(l)' = Holders(l)
  BY <1>2, SameHolders
<1>4. /\ defaultLayer' = 0
      /\ \A q \in Position : IsLayerAction(activeCodes'[q]) => LayerActionOf(activeCodes'[q]) = Momentary
      /\ \A l \in Layer : /\ refCounts'[l] = Cardinality(Holders(l)')
                          /\ l \in mask' <=> refCounts'[l] > 0
  BY <1>2, <1>3 DEF ExactInv
<1>5. pc' \in {"layers", "keys"} => \A q \in Position : (Shown(q)' <=> Shown(q)) /\ (Latched(q)' <=> Latched(q))
  BY <1>2, ShownElsewhere DEF Shown, Latched
<1>6. pc' = "layers" => \A q \in (batch' \cap stable') \ todo' : ~Latched(q)' => ~Shown(q)'
  <2> SUFFICES ASSUME pc' = "layers", NEW q \in (batch' \cap stable') \ todo', ~Latched(q)' PROVE ~Shown(q)'
    OBVIOUS
  <2>1. UNCHANGED <<stable, pc, batch, todo>>
    BY ShownElsewhere
  <2>2. q \in Position /\ q \in (batch \cap stable) \ todo
    BY <2>1 DEF StateOK
  <2> QED BY <1>5, <2>1, <2>2 DEF ExactInv
<1>7. pc' = "keys" => \A q \in todo' : ~Latched(q)' => ~Shown(q)'
  <2> SUFFICES ASSUME pc' = "keys", NEW q \in todo', ~Latched(q)' PROVE ~Shown(q)'
    OBVIOUS
  <2>1. UNCHANGED stable
    BY ShownElsewhere
  <2>2. CASE UNCHANGED <<pc, batch, todo>>
    <3>1. q \in Position /\ q \in todo
      BY <2>2 DEF StateOK
    <3> QED BY <1>5, <2>2, <3>1 DEF ExactInv
  <2>3. CASE pc = "layers" /\ todo = {} /\ UNCHANGED batch /\ todo' = batch \cap stable
    <3>1. q \in Position /\ q \in (batch \cap stable) \ todo
      BY <2>3 DEF StateOK
    <3> QED BY <1>5, <2>3, <3>1 DEF ExactInv
  <2> QED BY <2>2, <2>3, ShownElsewhere
<1> QED BY <1>1, <1>4, <1>6, <1>7 DEF ExactInv

LEMMA ExactRelease ==
  ASSUME StateOK, ExactInv, OnlyMomentary, [Next]_vars, NEW p \in Position, ReleaseKey(p)
  PROVE  ExactInv'
<1>1. AllLow' /\ OnlyMomentary' /\ AllLow
  BY LowStep DEF ExactInv
<1>2. pc' = "release" /\ activeCodes' = [activeCodes EXCEPT ![p] = NoCode] /\ ~IsLayerAction(NoCode)
  BY NoCodeIsCode, LayerKeysClassified DEF ReleaseKey, Handles
<1>3. \A q \in Position : IsLayerAction(activeCodes'[q]) => LayerActionOf(activeCodes'[q]) = Momentary
  BY <1>2 DEF ExactInv, StateOK
<1>4. defaultLayer' = 0
  BY DEF ReleaseKey, ApplyLayerRelease, layerVars, ExactInv
<1>5. ASSUME NEW l \in Layer
      PROVE  /\ refCounts'[l] = Cardinality(Holders(l)')
             /\ l \in mask' <=> refCounts'[l] > 0
  <2>1. /\ Holders(l) \subseteq Position /\ Holders(l)' = Holders(l) \ {p}
        /\ p \in Holders(l) /\ refCounts[l] > 0 =>
             refCounts'[l] = refCounts[l] - 1 /\ (l \in mask' <=> l \in mask /\ refCounts[l] # 1)
        /\ ~(p \in Holders(l) /\ refCounts[l] > 0) =>
             refCounts'[l] = refCounts[l] /\ (l \in mask' <=> l \in mask)
    BY ReleaseCounts
  <2>2. refCounts[l] = Cardinality(Holders(l)) /\ (l \in mask <=> refCounts[l] > 0) /\ refCounts[l] \in 0..255
    BY DEF ExactInv, StateOK
  <2>3. CASE p \in Holders(l)
    <3>1. Cardinality(Holders(l) \ {p}) = Cardinality(Holders(l)) - 1 /\ Cardinality(Holders(l)) > 0
      BY <2>1, <2>3, HoldersCount
    <3>2. refCounts'[l] = refCounts[l] - 1 /\ (l \in mask' <=> l \in mask /\ refCounts[l] # 1)
      BY <2>1, <2>2, <2>3, <3>1
    <3>3. refCounts'[l] = Cardinality(Holders(l)')
      BY <2>1, <2>2, <3>1, <3>2
    <3>4. l \in mask /\ refCounts[l] # 1 <=> refCounts[l] - 1 > 0
      BY ONLY <2>2
    <3> QED BY <3>2, <3>3, <3>4
  <2>4. CASE p \notin Holders(l)
    <3>1. Holders(l)' = Holders(l)
      BY <2>1, <2>4
    <3> QED BY <2>1, <2>2, <2>4, <3>1
  <2> QED BY <2>3, <2>4
<1> QED BY <1>1, <1>2, <1>3, <1>4, <1>5 DEF ExactInv

LEMMA ExactLayerPress ==
  ASSUME StateOK, KeysInv, ExactInv, OnlyMomentary, [Next]_vars,
         NEW p \in Position, PressLayerKey(p)
  PROVE  ExactInv'
<1>1. AllLow' /\ OnlyMomentary' /\ AllLow /\ defaultLayer = 0
  BY LowStep DEF ExactInv
<1>2. pc = "layers" /\ p \in todo /\ todo' = todo \ {p} /\ UNCHANGED <<keymap, stable, pc, batch>>
  BY HandledIsIn DEF PressLayerKey, Handles, matrixVars
<1>3. ~Latched(p)
  BY <1>2 DEF KeysInv
<1>4. /\ Resolve(p) \in Code
      /\ IsLayerAction(Resolve(p)) => LayerActionOf(Resolve(p)) = Momentary
      /\ IsLayerAction(Resolve(p)) <=> Shown(p)
  BY <1>1, ResolveShows, ResolveType
<1>5. \/ activeCodes' = activeCodes /\ ~IsLayerAction(Resolve(p))
      \/ activeCodes' = [activeCodes EXCEPT ![p] = Resolve(p)]
  BY <1>4, LayerKeysClassified DEF PressLayerKey
<1>6. \A q \in Position : IsLayerAction(activeCodes'[q]) => LayerActionOf(activeCodes'[q]) = Momentary
  BY <1>4, <1>5 DEF ExactInv, StateOK
<1>7. defaultLayer' = 0 /\ mask \subseteq mask'
  BY <1>1, <1>4 DEF PressLayerKey, ApplyLayerPress, Targets, layerVars, Momentary, Toggle, To, DefaultTo
<1>8. ASSUME NEW l \in Layer
      PROVE  /\ refCounts'[l] = Cardinality(Holders(l)')
             /\ l \in mask' <=> refCounts'[l] > 0
  <2>1. /\ Holders(l) \subseteq Position /\ p \notin Holders(l)
        /\ p \in Holders(l)' =>
             /\ Holders(l)' = Holders(l) \cup {p}
             /\ refCounts'[l] = (refCounts[l] + 1) % 256 /\ l \in mask'
        /\ p \notin Holders(l)' =>
             Holders(l)' = Holders(l) /\ refCounts'[l] = refCounts[l] /\ (l \in mask' <=> l \in mask)
    BY <1>3, <1>4, PressCounts
  <2>2. refCounts[l] = Cardinality(Holders(l)) /\ (l \in mask <=> refCounts[l] > 0) /\ refCounts[l] \in 0..255
    BY DEF ExactInv, StateOK
  <2>3. CASE p \in Holders(l)'
    <3>1. Cardinality(Holders(l)') = refCounts[l] + 1 /\ refCounts[l] + 1 <= 255
      BY <2>1, <2>2, <2>3, HoldersCount, HoldersFew
    <3>2. refCounts'[l] = refCounts[l] + 1
      <4>1. \A n \in 0..255 : n + 1 <= 255 => (n + 1) % 256 = n + 1
        OBVIOUS
      <4> QED BY <2>1, <2>2, <2>3, <3>1, <4>1
    <3> QED BY <2>1, <2>2, <2>3, <3>1, <3>2
  <2>4. CASE p \notin Holders(l)'
    BY <2>1, <2>2, <2>4
  <2> QED BY <2>3, <2>4
<1>9. \A q \in (batch' \cap stable') \ todo' : ~Latched(q)' => ~Shown(q)'
  <2> SUFFICES ASSUME NEW q \in (batch' \cap stable') \ todo', ~Latched(q)' PROVE ~Shown(q)'
    OBVIOUS
  <2>1. q \in Position /\ q \in (batch \cap stable) \ (todo \ {p})
    BY <1>2 DEF StateOK
  <2>2. ~Shown(q)
    <3>1. CASE q = p
      <4>1. activeCodes'[p] = NoCode
        BY <3>1 DEF Latched
      <4>2. ~IsLayerAction(Resolve(p))
        BY <1>4, <1>5, <4>1, LayerKeysClassified DEF StateOK
      <4> QED BY <1>4, <3>1, <4>2
    <3>2. CASE q # p
      <4>1. activeCodes'[q] = activeCodes[q]
        BY <1>5, <2>1, <3>2 DEF StateOK
      <4>2. ~Latched(q) /\ q \in (batch \cap stable) \ todo
        BY <2>1, <3>2, <4>1 DEF Latched
      <4> QED BY <1>2, <4>2 DEF ExactInv
    <3> QED BY <3>1, <3>2
  <2> QED BY <1>2, <1>7, <2>1, <2>2, ShownLess
<1> QED BY <1>1, <1>2, <1>6, <1>7, <1>8, <1>9 DEF ExactInv

LEMMA ExactPress ==
  ASSUME StateOK, ExactInv, OnlyMomentary, [Next]_vars, NEW p \in Position, PressKey(p)
  PROVE  ExactInv'
<1>1. AllLow' /\ OnlyMomentary' /\ AllLow /\ defaultLayer = 0
  BY LowStep DEF ExactInv
<1>2. /\ pc = "keys" /\ p \in todo /\ todo' = todo \ {p} /\ UNCHANGED <<keymap, stable, pc, batch>>
      /\ mask' = mask /\ refCounts' = refCounts /\ defaultLayer' = defaultLayer
  BY HandledIsIn DEF PressKey, Handles, matrixVars, layerVars
<1>3. Latched(p) \/ ~IsLayerAction(Resolve(p))
  BY <1>1, <1>2, ResolveShows DEF ExactInv
<1>4. \A l \in Layer : Holders(l)' = Holders(l)
  BY <1>3, LatchCounts
<1>5. /\ \A q \in Position \ {p} : activeCodes'[q] = activeCodes[q]
      /\ activeCodes'[p] \in {NoCode, activeCodes[p], Resolve(p)}
      /\ Latched(p) => activeCodes'[p] = activeCodes[p]
  BY DEF PressKey, Latched, StateOK
<1>6. \A q \in Position : IsLayerAction(activeCodes'[q]) => LayerActionOf(activeCodes'[q]) = Momentary
  <2>1. ~IsLayerAction(NoCode)
    BY NoCodeIsCode, LayerKeysClassified
  <2> QED BY <1>3, <1>5, <2>1 DEF ExactInv
<1>7. \A q \in todo' : ~Latched(q)' => ~Shown(q)'
  <2> SUFFICES ASSUME NEW q \in todo', ~Latched(q)' PROVE ~Shown(q)'
    OBVIOUS
  <2>1. q \in Position /\ q \in todo /\ q # p
    BY <1>2 DEF StateOK
  <2>2. ~Latched(q)
    BY <1>5, <2>1 DEF Latched
  <2> QED BY <1>2, <2>1, <2>2, ShownLess DEF ExactInv
<1>8. \A l \in Layer : /\ refCounts'[l] = Cardinality(Holders(l)')
                       /\ l \in mask' <=> refCounts'[l] > 0
  BY <1>2, <1>4 DEF ExactInv
<1> QED BY <1>1, <1>2, <1>6, <1>7, <1>8 DEF ExactInv

LEMMA SetupStays == [Next]_vars => setup' = setup
BY DEF Next, Task, Connection, Handling, vars, Remap, MatrixTask, Transferred, Disconnect,
   Connect, Ack, Resend, SendReport, NothingToDo, Leave, TakeChanges, NextPass, Handles,
   ReleaseKey, PressLayerKey, PressKey, StaySuspended, Publish

LEMMA ExactStep == StateOK /\ KeysInv /\ ExactInv /\ [Next]_vars => ExactInv'
<1> SUFFICES ASSUME StateOK, KeysInv, ExactInv, [Next]_vars PROVE ExactInv'
  OBVIOUS
<1>1. CASE ~OnlyMomentary
  BY <1>1, SetupStays DEF ExactInv, OnlyMomentary
<1>2. CASE OnlyMomentary
  BY <1>2, ExactElsewhere, ExactRelease, ExactLayerPress, ExactPress DEF Handling
<1> QED BY <1>1, <1>2

\* Where all layer keys are momentary and on layer 0, a layer is on between two tasks
\* exactly while one of its keys is down, for every size of the matrix and whatever is
\* remapped: presses and releases pair up, and no press is latched without its layer.
THEOREM MomentaryLayersExact == Spec => []MomentaryExact
<1>1. StateOK /\ ExactInv => MomentaryExact
  <2> SUFFICES ASSUME StateOK, ExactInv, OnlyMomentary, NEW l \in Layer
               PROVE  l \in mask <=> Holders(l) # {}
    BY DEF MomentaryExact
  <2>1. refCounts[l] = Cardinality(Holders(l)) /\ (l \in mask <=> refCounts[l] > 0)
    BY DEF ExactInv
  <2>2. IsFiniteSet(Holders(l))
    BY PositionsFinite, FS_Subset DEF Holders
  <2>3. Cardinality(Holders(l)) \in Nat /\ (Cardinality(Holders(l)) = 0 <=> Holders(l) = {})
    BY <2>2, FS_CardinalityType, FS_EmptySet
  <2> QED BY <2>1, <2>3
<1>2. StateOK /\ KeysInv /\ ExactInv /\ [Next]_vars => ExactInv'
  BY ExactStep
<1> QED BY <1>1, <1>2, ExactInit, KeysInvariant, PTL DEF Spec

-----------------------------------------------------------------------------
(* Reports *)

LEMMA CodesAreSequence ==
  ASSUME activeCodes \in [Position -> Code]
  PROVE  activeCodes \in Seq(Code) /\ Len(activeCodes) = Positions
<1>1. Positions \in Nat
  BY SizeAssumption
<1> QED BY <1>1 DEF Position

LEMMA ReportIsReport ==
  ASSUME NEW r, r.modifiers \subseteq 0..7, r.keys \in SlotsUsed
  PROVE  IsReport(r)
<1>1. r.keys \in Seq(0..255) /\ Len(r.keys) <= Slots
  BY DEF SlotsUsed, Usage
<1>2. r.keys \in Seq(-1..255)
  BY <1>1, SeqMonotonic
<1> QED BY <1>1, <1>2 DEF IsReport

LEMMA DesiredIsReport ==
  ASSUME activeCodes \in [Position -> Code]
  PROVE  IsReport(Desired)
BY CodesAreSequence, ReportType, ReportIsReport DEF Desired

LEMMA EmptyIsReport == IsReport(NoReport) /\ IsReport(NoFlight)
<1>1. <<>> \in Seq(-1..255) /\ Len(<<>>) = 0
  BY EmptySeq
<1>2. <<-1>> \in Seq(-1..255) /\ Len(<<-1>>) = 1
  OBVIOUS
<1> QED BY <1>1, <1>2 DEF IsReport, NoReport, NoFlight, Slots

InReports == {pendingReport, lastAccepted, host, inFlight}

\* Reports are only built, passed on, or dropped.
LEMMA ReportsStep ==
  ASSUME [Next]_vars
  PROVE  InReports' \subseteq InReports \cup {Desired, NoReport, NoFlight}
<1> USE DEF InReports, reportVars, hidVars
<1>1. CASE Transferred \/ Disconnect \/ Connect
  BY <1>1 DEF Transferred, Disconnect, Connect
<1>2. CASE Ack
  BY <1>2 DEF Ack
<1>3. CASE Resend \/ SendReport
  BY <1>3 DEF Resend, SendReport, TrySend
<1>4. CASE Publish
  BY <1>4 DEF Publish
<1>5. CASE Remap \/ MatrixTask \/ NothingToDo \/ Leave \/ TakeChanges \/ NextPass \/ StaySuspended
  BY <1>5 DEF Remap, MatrixTask, NothingToDo, Leave, TakeChanges, NextPass, StaySuspended
<1>6. CASE Handling
  BY <1>6 DEF Handling, ReleaseKey, PressLayerKey, PressKey, Handles
<1>7. CASE UNCHANGED vars
  BY <1>7 DEF vars
<1> QED BY <1>1, <1>2, <1>3, <1>4, <1>5, <1>6, <1>7 DEF Next, Task, Connection

LEMMA TypeStep == StateOK /\ TypeOK /\ [Next]_vars => TypeOK'
<1> SUFFICES ASSUME StateOK, TypeOK, [Next]_vars PROVE TypeOK'
  OBVIOUS
<1>1. \A r \in InReports : IsReport(r)
  BY DEF TypeOK, InReports
<1>2. \A r \in InReports \cup {Desired, NoReport, NoFlight} : IsReport(r)
  BY <1>1, EmptyIsReport, DesiredIsReport DEF StateOK
<1>3. \A r \in InReports' : IsReport(r)
  BY <1>2, ReportsStep
<1>4. \A r \in {pendingReport', lastAccepted', host', inFlight'} : IsReport(r)
  BY <1>3 DEF InReports
<1>5. StateOK'
  BY StateOKStep
<1> QED BY <1>4, <1>5 DEF TypeOK, StateOK, IsReport

LEMMA TypeInit == Init => TypeOK
<1> SUFFICES ASSUME Init PROVE TypeOK
  OBVIOUS
<1>1. \A r \in {pendingReport, lastAccepted, host, inFlight} : IsReport(r)
  BY EmptyIsReport DEF Init
<1> QED BY <1>1, StateOKInit DEF StateOK, TypeOK

\* Layers, counts and codes stay within the arrays and the bytes the code has for them,
\* and every report that is built, pending or sent fits the eight bytes of the boot
\* protocol, through every press, release, toggle, remap and change of the connection.
THEOREM KeyboardTypes == Spec => []TypeOK
BY TypeInit, TypeStep, StateOKInvariant, PTL DEF Spec

-----------------------------------------------------------------------------
(* What the host is given *)

Resting == {"scan", "ack", "resend", "check", "leave"}
Passes  == {"release", "layers", "keys", "outcome"}
Latest  == IF reportPending THEN pendingReport ELSE lastAccepted

\* While no pass is under way the report that is retried, or believed accepted, is the
\* newest, unless a connection may have gone meanwhile; and a host that is told
\* everything at once has that report, or has just come and has none.
DeliveryInv ==
  /\ pc = "resend" => reportPending /\ ~setup.immediate
  /\ pc = "send" => reportPending /\ pendingReport = Desired
  /\ ~setup.disconnects => ~suspended /\ (pc \in Resting => Latest = Desired)
  /\ Delivers =>
       /\ inFlight = NoFlight
       /\ suspended => host = NoReport
       /\ pc \in Resting => host = NoReport \/ (host = Latest /\ Latest = Desired)
       /\ pc \in Passes => host = NoReport \/ host = Latest
       /\ ~setup.disconnects /\ pc # "send" => host = Latest

LEMMA DeliveryInit == Init => DeliveryInv
<1> SUFFICES ASSUME Init PROVE DeliveryInv
  OBVIOUS
<1>1. Desired = NoReport
  <2>1. NoCode \in Code
    BY NoCodeIsCode
  <2>2. activeCodes \in [Position -> Code] /\ \A p \in Position : activeCodes[p] = NoCode
    BY <2>1 DEF Init
  <2>3. activeCodes \in Seq(Code) /\ 1..Len(activeCodes) = Position
    BY <2>2, CodesAreSequence DEF Position
  <2> QED BY <2>2, <2>3, IdleReport DEF Desired
<1>2. Latest = NoReport
  BY DEF Init, Latest
<1>3. setup.disconnects \in BOOLEAN
  BY SetupAssumption DEF Init
<1> QED BY <1>1, <1>2, <1>3 DEF Init, DeliveryInv, Resting, Passes

\* The steps that neither build, accept nor send a report.
LEMMA DeliveryElsewhere ==
  ASSUME StateOK, DeliveryInv,
         UNCHANGED <<setup, reportVars, suspended, inFlight, host>>,
         \/ UNCHANGED <<pc, activeCodes>>
         \/ pc' \in Resting \ {"resend"} /\ pc \in Resting /\ UNCHANGED activeCodes
         \/ pc \in Resting \cup Passes /\ pc' \in Passes
  PROVE  DeliveryInv'
<1>1. Latest' = Latest /\ (Delivers' <=> Delivers)
  BY DEF Latest, reportVars, Delivers
<1>2. UNCHANGED activeCodes => Desired' = Desired
  BY DEF Desired
<1>3. Delivers /\ pc \in Resting \cup Passes => host = NoReport \/ host = Latest
  BY DEF DeliveryInv
<1>4. CASE UNCHANGED <<pc, activeCodes>>
  BY <1>1, <1>2, <1>4 DEF DeliveryInv, reportVars
<1>5. CASE pc' \in Resting \ {"resend"} /\ pc \in Resting /\ UNCHANGED activeCodes
  BY <1>1, <1>2, <1>5 DEF DeliveryInv, Resting, Passes
<1>6. CASE pc \in Resting \cup Passes /\ pc' \in Passes
  BY <1>1, <1>3, <1>6 DEF DeliveryInv, Resting, Passes
<1> QED BY <1>4, <1>5, <1>6

LEMMA DeliveryStep == StateOK /\ DeliveryInv /\ [Next]_vars => DeliveryInv'
<1> SUFFICES ASSUME StateOK, DeliveryInv, [Next]_vars PROVE DeliveryInv'
  OBVIOUS
<1>0. setup.immediate \in BOOLEAN /\ setup.disconnects \in BOOLEAN /\ suspended \in BOOLEAN
  BY SetupAssumption DEF StateOK
<1> USE DEF hidVars
<1>1. CASE Remap \/ NothingToDo \/ Leave \/ MatrixTask \/ TakeChanges \/ UNCHANGED vars
  <2>1. UNCHANGED <<setup, reportVars, suspended, inFlight, host, activeCodes>>
    BY <1>1 DEF Remap, NothingToDo, Leave, MatrixTask, TakeChanges, vars
  <2>2. \/ UNCHANGED pc
        \/ pc' \in Resting \ {"resend"} /\ pc \in Resting
        \/ pc \in Resting \cup Passes /\ pc' \in Passes
    BY <1>1 DEF Remap, NothingToDo, Leave, MatrixTask, TakeChanges, vars, Resting, Passes
  <2> QED BY <2>1, <2>2, DeliveryElsewhere
<1>2. CASE NextPass \/ Handling
  <2>1. UNCHANGED <<setup, reportVars, suspended, inFlight, host>> /\ pc \in Passes /\ pc' \in Passes
    BY <1>2 DEF NextPass, Handling, ReleaseKey, PressLayerKey, PressKey, Handles, Passes
  <2> QED BY <2>1, DeliveryElsewhere
<1>3. CASE Transferred \/ Disconnect \/ Connect
  <2>1. Latest' = Latest /\ Desired' = Desired /\ (Delivers' <=> Delivers) /\ UNCHANGED <<setup, pc, reportVars>>
    BY <1>3 DEF Transferred, Disconnect, Connect, Latest, Desired, Delivers, reportVars
  <2>2. CASE Transferred
    BY <2>1, <2>2 DEF Transferred, DeliveryInv, reportVars
  <2>3. CASE Disconnect
    BY <2>1, <2>3 DEF Disconnect, DeliveryInv, reportVars
  <2>4. CASE Connect
    BY <2>1, <2>4 DEF Connect, DeliveryInv, reportVars
  <2> QED BY <1>3, <2>2, <2>3, <2>4
<1>4. CASE Ack
  <2>1. /\ Latest' = Latest /\ Desired' = Desired /\ (Delivers' <=> Delivers)
        /\ UNCHANGED <<setup, suspended, inFlight, host>>
        /\ pc = "ack"
        /\ pc' = "check" \/ (pc' = "resend" /\ reportPending' /\ ~setup.immediate)
    BY <1>4 DEF Ack, Latest, Desired, Delivers, reportVars, StateOK, MaySayIncomplete
  <2> QED BY <2>1 DEF DeliveryInv, Resting, Passes
<1>5. CASE Resend
  <2>1. /\ Latest' = Latest /\ Desired' = Desired /\ (Delivers' <=> Delivers)
        /\ UNCHANGED <<setup, suspended>> /\ pc = "resend" /\ pc' = "check" /\ ~Delivers
    BY <1>5 DEF Resend, TrySend, Latest, Desired, Delivers, reportVars, DeliveryInv
  <2> QED BY <2>1 DEF DeliveryInv, Resting, Passes
<1>6. CASE StaySuspended
  <2>1. /\ Latest' = Latest /\ Desired' = Desired /\ (Delivers' <=> Delivers)
        /\ UNCHANGED <<setup, suspended, inFlight, host>> /\ suspended /\ pc' = "scan"
    BY <1>6 DEF StaySuspended, Latest, Desired, Delivers, reportVars
  <2> QED BY <2>1 DEF DeliveryInv, Resting, Passes
<1>7. CASE Publish
  <2>1. /\ Desired' = Desired /\ (Delivers' <=> Delivers)
        /\ UNCHANGED <<setup, suspended, inFlight, host>> /\ pc = "outcome"
        /\ \/ pc' = "send" /\ reportPending' /\ pendingReport' = Desired
           \/ pc' = "scan" /\ Latest' = Latest /\ Latest = Desired
    BY <1>7 DEF Publish, Latest, Desired, Delivers, reportVars
  <2> QED BY <2>1 DEF DeliveryInv, Resting, Passes
<1>8. CASE SendReport
  <2>1. /\ Latest' = Desired /\ Desired' = Desired /\ (Delivers' <=> Delivers)
        /\ UNCHANGED <<setup, suspended>> /\ pc = "send" /\ pc' = "scan"
    BY <1>8 DEF SendReport, TrySend, Latest, Desired, Delivers, reportVars, DeliveryInv
  <2>2. /\ TrySend(pendingReport) /\ pendingReport = Desired
        /\ Delivers => setup.immediate /\ ~setup.refuses /\ inFlight = NoFlight
    BY <1>8 DEF SendReport, DeliveryInv, Delivers
  <2>3. Delivers /\ suspended => inFlight' = NoFlight /\ host' = host
    BY <2>2 DEF TrySend
  <2>4. Delivers /\ ~suspended => inFlight' = NoFlight /\ host' = Desired
    BY <2>2 DEF TrySend
  <2> QED BY <1>0, <2>1, <2>3, <2>4 DEF DeliveryInv, Resting, Passes
<1> QED BY <1>1, <1>2, <1>3, <1>4, <1>5, <1>6, <1>7, <1>8 DEF Next, Task, Connection

LEMMA DeliveryInvariant == Spec => []DeliveryInv
<1>1. StateOK /\ DeliveryInv /\ [Next]_vars => DeliveryInv'
  BY DeliveryStep
<1> QED BY <1>1, DeliveryInit, StateOKInvariant, PTL DEF Spec

\* Where the connection stays, what the keyboard retries or believes accepted is, between
\* two tasks, always the report of the keys now held: an outdated one is never sent again.
THEOREM RetriesTheLatest == Spec => []LatestWanted
<1>1. DeliveryInv => LatestWanted
  BY DEF DeliveryInv, LatestWanted, Resting, Latest
<1> QED BY <1>1, DeliveryInvariant, PTL

\* On an endpoint that delivers at once, a host that stays connected has between two
\* tasks exactly the keys that are held.
THEOREM HostHasTheKeys == Spec => []HostInSync
<1>1. DeliveryInv => HostInSync
  BY DEF DeliveryInv, HostInSync, Resting
<1> QED BY <1>1, DeliveryInvariant, PTL

\* A host that comes and goes never sees a key or a modifier down that is up, once the
\* device has noticed that it is connected.
THEOREM NoKeySticksAtTheHost == Spec => []HostNeverStuck
<1>1. DeliveryInv => HostNeverStuck
  <2> SUFFICES ASSUME DeliveryInv, pc = "scan", Delivers PROVE HostNeverStuck
    BY DEF HostNeverStuck
  <2>1. host = NoReport \/ host = Desired
    BY DEF DeliveryInv, Resting
  <2>2. NoReport.modifiers = {} /\ ToSet(NoReport.keys) = {}
    BY DEF NoReport, ToSet
  <2> QED BY <2>1, <2>2 DEF HostNeverStuck
<1> QED BY <1>1, DeliveryInvariant, PTL

===============================================================================
