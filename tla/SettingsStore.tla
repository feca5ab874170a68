----------------------------- MODULE SettingsStore -----------------------------
(***************************************************************************)
(* What via::Protocol promises about settings on a storage adapter with    *)
(* atomic commits (docs/PORTING.md, sections 2 and 3): the stored settings *)
(* change in one step, to exactly the live ones, whenever a save or a      *)
(* factory reset succeeds, and in no other step; a restart brings them     *)
(* back, or the defaults when it cannot read them.                         *)
(***************************************************************************)
CONSTANTS
  Settings,   \* the settings a device may have
  Fresh,      \* what a factory reset may leave
  Default     \* what a restart without a readable record starts from

VARIABLES live, stored, dirty

Init == live = Default /\ stored = Default /\ dirty = FALSE

Edit    == live' \in Settings /\ dirty' = TRUE /\ UNCHANGED stored
Save    == stored' = live /\ dirty' = FALSE /\ UNCHANGED live
Reset   == live' \in Fresh /\ stored' = live' /\ dirty' = FALSE
Restart == live' \in {stored, Default} /\ dirty' = FALSE /\ UNCHANGED stored

Next == Edit \/ Save \/ Reset \/ Restart

Spec == Init /\ [][Next]_<<live, stored, dirty>>
=============================================================================
