------------------------------ MODULE MCSettings ------------------------------
(* The settings, for TLC: the commands that change them and the adapters that  *)
(* store them.  The parts share no state (Protocol has what happens between    *)
(* them); one part moves in a behaviour and the others stay as they began.     *)
EXTENDS SlotFlash, SlotFiles, ShadowCopy, DynamicKeymap

VARIABLE part

storageVars  == <<flashVars, fileVars, shadowVars>>
settingsVars == <<part, storageVars, keymapVars>>

SettingsInit ==
  /\ part \in {"flash", "files", "shadow", "keymap", "lights"}
  /\ FlashInit /\ FilesInit /\ ShadowInit /\ KeymapInit
  /\ part # "shadow" => store = "nvs"      \* one state of the part that rests

Adapters ==
  \/ part = "flash"  /\ FlashNext  /\ UNCHANGED <<fileVars, shadowVars>>
  \/ part = "files"  /\ FilesNext  /\ UNCHANGED <<flashVars, shadowVars>>
  \/ part = "shadow" /\ ShadowNext /\ UNCHANGED <<flashVars, fileVars>>

\* The keymap and the lights share nothing but mapDirty: each is taken by itself.
Commands ==
  \/ part = "keymap" /\ UNCHANGED lightVars /\ KeymapNext
  \/ part = "lights" /\ UNCHANGED <<keymap, encoderMap, macros>> /\ KeymapNext

SettingsNext ==
  /\ UNCHANGED part
  /\ \/ Adapters /\ UNCHANGED keymapVars
     \/ Commands /\ UNCHANGED storageVars

SettingsSpec == SettingsInit /\ [][SettingsNext]_settingsVars

-----------------------------------------------------------------------------
\* The types of every adapter's state.
StorageTypeOK == FlashTypeOK /\ FilesTypeOK /\ ShadowTypeOK
=============================================================================
