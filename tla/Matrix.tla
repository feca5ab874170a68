-------------------------------- MODULE Matrix --------------------------------
(***************************************************************************)
(* via::Matrix (src/src/VIA_Matrix.cpp, .h): scanning, debouncing and the  *)
(* hand-over of changes to Keyboard::task, which runs after each           *)
(* Matrix::task of the main loop.                                          *)
(*                                                                         *)
(* Cells are read one after the other while switches move, so an image may *)
(* be torn.  A row is the set of its columns that read closed.  The clock  *)
(* is millis(), a counter that wraps around at Clock.                      *)
(***************************************************************************)
EXTENDS Integers, FiniteSetsExt

CONSTANTS
  Rows, Columns,
  Switches,     \* positions of the matrix that have a switch
  Configs,      \* <<drive the rows (or else the columns), debounceMs>>
  Clock,        \* number of values of the clock (2^32 in the code)
  MaxGap        \* longest time between two tasks

Row    == 1..Rows
Column == 1..Columns
Image  == [Row -> SUBSET Column]
Blank  == [r \in Row |-> {}]

ASSUME SizeAssumption ==
  Rows \in 1..8 /\ Columns \in 1..32 /\ Switches \subseteq Row \X Column
ASSUME TimeAssumption ==
  /\ Clock \in Nat /\ MaxGap \in Nat \ {0} /\ Configs \subseteq BOOLEAN \X Nat
  /\ \A c \in Configs : c[2] + MaxGap < Clock

VARIABLES
  config,
  closed,            \* the switches: closed[r] are the closed columns of row r
  raw, prevRaw, candidate, stable, changed,
  lastRawChangeTS, debouncePending,
  now, pc,
  cell,              \* number of cells read
  view,              \* what Keyboard::task has been told
  age                \* history: ms since every scan has read this image

ColToRow   == config[1]   \* DiodeDirection
debounceMs == config[2]

images == <<raw, prevRaw, candidate, stable, changed>>
timing == <<lastRawChangeTS, debouncePending, now, age>>
vars   == <<config, closed, images, timing, pc, cell, view>>

Delta(a, b) == [r \in Row |-> SymDiff(a[r], b[r])]

\* A switch opens or closes, at any time.
Switch ==
  /\ \E s \in Switches : closed' = [closed EXCEPT ![s[1]] = SymDiff(@, {s[2]})]
  /\ UNCHANGED <<config, images, timing, pc, cell, view>>

\* The loop comes round after d milliseconds.
Tick ==
  /\ pc = "idle"
  /\ \E d \in 0..MaxGap :
       /\ now' = (now + d) % Clock
       /\ age' = IF age + d < Clock THEN age + d ELSE Clock
  /\ pc' = "scan"
  /\ UNCHANGED <<config, closed, images, lastRawChangeTS, debouncePending, cell, view>>

\* The cell that is read next: row by row, or column by column.
Cell == IF ColToRow THEN <<(cell \div Columns) + 1, (cell % Columns) + 1>>
                    ELSE <<(cell % Rows) + 1, (cell \div Rows) + 1>>

\* Mutant: the scan goes on past the last cell.
ScanCell_OneTooMany ==
  /\ pc = "scan"
  /\ raw' = [raw EXCEPT ![Cell[1]] =
       IF Cell[2] \in closed[Cell[1]] THEN @ \cup {Cell[2]} ELSE @ \ {Cell[2]}]
  /\ \/ cell < Rows * Columns /\ cell' = cell + 1 /\ UNCHANGED pc
     \/ cell = Rows * Columns /\ cell' = 0 /\ pc' = "debounce"
  /\ UNCHANGED <<config, closed, prevRaw, candidate, stable, changed, timing, view>>

\* One switch is read.  In either direction the scan leaves in rawRows what it has
\* read of each cell; nobody looks at rawRows before it is over.
ScanCell ==
  /\ pc = "scan"
  /\ raw' = [raw EXCEPT ![Cell[1]] =
       IF Cell[2] \in closed[Cell[1]] THEN @ \cup {Cell[2]} ELSE @ \ {Cell[2]}]
  /\ \/ cell < Rows * Columns - 1 /\ cell' = cell + 1 /\ UNCHANGED pc
     \/ cell = Rows * Columns - 1 /\ cell' = 0 /\ pc' = "debounce"
  /\ UNCHANGED <<config, closed, prevRaw, candidate, stable, changed, timing, view>>

\* Mutant: only presses are announced.
Publishes_Presses(image) ==
  /\ stable' = image
  /\ changed' = [r \in Row |-> image[r] \ stable[r]]
  /\ debouncePending' = FALSE

Publishes(image) ==
  /\ stable' = image
  /\ changed' = Delta(stable, image)
  /\ debouncePending' = FALSE

\* Mutant: a bounce does not start the wait over.
ImageChanges_FirstEdge ==
  /\ pc = "debounce" /\ raw # prevRaw
  /\ candidate' = raw /\ prevRaw' = raw
  /\ lastRawChangeTS' = IF debouncePending THEN lastRawChangeTS ELSE now
  /\ age' = 0
  /\ IF debounceMs = 0
     THEN Publishes(raw)
     ELSE debouncePending' = TRUE /\ UNCHANGED <<stable, changed>>
  /\ pc' = "consume"
  /\ UNCHANGED <<config, closed, raw, now, cell, view>>

\* Lines 40-62: an image that differs from the last one starts the wait over.
ImageChanges ==
  /\ pc = "debounce" /\ raw # prevRaw
  /\ candidate' = raw /\ prevRaw' = raw
  /\ lastRawChangeTS' = now
  /\ age' = 0
  /\ IF debounceMs = 0
     THEN Publishes(raw)
     ELSE debouncePending' = TRUE /\ UNCHANGED <<stable, changed>>
  /\ pc' = "consume"
  /\ UNCHANGED <<config, closed, raw, now, cell, view>>

\* Mutant: the wrapped clock is compared without the modular difference.
WaitOver_NoWrap == debouncePending /\ now >= lastRawChangeTS + debounceMs

WaitOver == debouncePending /\ (now - lastRawChangeTS) % Clock >= debounceMs

\* Lines 64-74: the image has lasted.
ImageLasts ==
  /\ pc = "debounce" /\ raw = prevRaw
  /\ \/ WaitOver /\ Publishes(candidate)
     \/ ~WaitOver /\ UNCHANGED <<stable, changed, debouncePending>>
  /\ pc' = "consume"
  /\ UNCHANGED <<config, closed, raw, prevRaw, candidate, lastRawChangeTS, now, age, cell, view>>

\* Keyboard::task copies the changes, then hasChanged() clears them.
Consume ==
  /\ pc = "consume"
  /\ view' = Delta(view, changed)
  /\ changed' = Blank
  /\ pc' = "idle"
  /\ UNCHANGED <<config, closed, raw, prevRaw, candidate, stable, timing, cell>>

Init ==
  /\ config \in Configs
  /\ \E held \in SUBSET Switches : closed = [r \in Row |-> { c \in Column : <<r, c>> \in held }]
  /\ raw = Blank /\ prevRaw = Blank /\ candidate = Blank /\ stable = Blank /\ changed = Blank
  /\ view = Blank
  /\ lastRawChangeTS = 0 /\ debouncePending = FALSE /\ now = 0 /\ age = Clock
  /\ pc = "idle" /\ cell = 0

Task == Tick \/ ScanCell \/ ImageChanges \/ ImageLasts \/ Consume
Next == Switch \/ Task
Spec == Init /\ [][Next]_vars

\* The main loop keeps coming round, and time keeps passing.
FairSpec == Spec /\ WF_vars(Task) /\ SF_vars(Tick /\ now' # now)

-----------------------------------------------------------------------------
\* What the images, the clock and the cell counter of the scan range over.
TypeOK ==
  /\ {closed, raw, prevRaw, candidate, stable, changed, view} \subseteq Image
  /\ lastRawChangeTS \in 0..Clock - 1 /\ now \in 0..Clock - 1 /\ age \in 0..Clock
  /\ debouncePending \in BOOLEAN
  /\ pc \in {"idle", "scan", "debounce", "consume"} /\ cell \in 0..Rows * Columns - 1

\* Nothing gets lost between the matrix and the keyboard: what the keyboard has
\* been told and what it has still to be told make up the debounced state.
ViewFollows == Delta(view, changed) = stable

\* A debounced state is one image, read by every scan of the last debounceMs;
\* no bounce and no torn image gets through, whatever the clock wraps to.
OnlyLastingImages ==
  [][stable' # stable => stable' = raw /\ (age >= debounceMs \/ debounceMs = 0)]_vars

\* Once the switches rest, the keyboard learns of their position.
Settles == <>[][~Switch]_vars => <>[](view = closed)
=============================================================================
