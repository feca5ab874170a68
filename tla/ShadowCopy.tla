------------------------------ MODULE ShadowCopy ------------------------------
(***************************************************************************)
(* The adapters that keep the whole store in RAM: NVSStorage               *)
(* (src/src/VIA_ESP32_NVS.h), whose commit() puts it as one blob that is   *)
(* replaced whole or not at all, and EEPROMStorage                         *)
(* (src/src/VIA_EEPROMStorage.h), whose commit() has the core rewrite a    *)
(* flash sector in place and whose erase() commits by itself.              *)
(***************************************************************************)
EXTENDS Naturals

CONSTANTS
  Blob,    \* what the store may hold
  Blank    \* the store with every byte 0xFF

ASSUME BlobAssumption == Blank \in Blob

Mangled == "mangled"    \* a sector whose rewriting was cut short

VARIABLES
  store,            \* "nvs" or "eeprom"
  shadow,           \* shadow_, or the RAM of the EEPROM library
  medium,           \* what is in flash
  opened,           \* prefs_ is open / started_
  shadowStep,
  putDone,          \* history: what the last commit that succeeded put there
  cut               \* history: power was lost while a sector was rewritten

shadowVars == <<store, shadow, medium, opened, shadowStep, putDone, cut>>

-----------------------------------------------------------------------------
\* begin(): the namespace may not open, and a blob that cannot be read whole leaves
\* the store blank.  Neither keeps the sketch from going on.
ShadowBegin ==
  /\ shadowStep = "off"
  /\ \/ /\ opened' = TRUE
        /\ shadow' \in IF store = "nvs" THEN {medium, Blank} ELSE {medium}
     \/ store = "nvs" /\ opened' = FALSE /\ shadow' = Blank
  /\ shadowStep' = "idle"
  /\ UNCHANGED <<store, medium, putDone, cut>>

\* write(): in RAM only.
ShadowWrite(blob) ==
  /\ shadowStep = "idle" /\ (store = "eeprom" => opened)
  /\ shadow' = blob
  /\ UNCHANGED <<store, medium, opened, shadowStep, putDone, cut>>

\* Mutant: erase() puts the blank store at once, like EEPROMStorage's.
NvsErase_AtOnce ==
  /\ shadowStep = "idle" /\ store = "nvs"
  /\ shadow' = Blank /\ medium' = Blank
  /\ UNCHANGED <<store, opened, shadowStep, putDone, cut>>

NvsErase ==
  /\ shadowStep = "idle" /\ store = "nvs"
  /\ shadow' = Blank
  /\ UNCHANGED <<store, medium, opened, shadowStep, putDone, cut>>

EepromErase ==
  /\ shadowStep = "idle" /\ store = "eeprom" /\ opened
  /\ shadow' = Blank
  /\ shadowStep' = "sector"
  /\ UNCHANGED <<store, medium, opened, putDone, cut>>

\* commit() on NVS.
NvsCommit ==
  /\ shadowStep = "idle" /\ store = "nvs"
  /\ \/ opened /\ medium' = shadow /\ putDone' = shadow
     \/ UNCHANGED <<medium, putDone>>
  /\ UNCHANGED <<store, shadow, opened, shadowStep, cut>>

\* commit() on EEPROM, and what follows an erase: the sector is rewritten.
EepromCommit ==
  /\ shadowStep = "idle" /\ store = "eeprom" /\ opened
  /\ shadowStep' = "sector"
  /\ UNCHANGED <<store, shadow, medium, opened, putDone, cut>>

SectorErased ==
  /\ shadowStep = "sector"
  /\ medium' = Mangled
  /\ shadowStep' = "program"
  /\ UNCHANGED <<store, shadow, opened, putDone, cut>>

SectorProgrammed ==
  /\ shadowStep = "program"
  /\ medium' = shadow /\ putDone' = shadow
  /\ shadowStep' = "idle" /\ cut' = FALSE
  /\ UNCHANGED <<store, shadow, opened>>

\* The core refuses before it touches the sector.
SectorRefused ==
  /\ shadowStep = "sector"
  /\ shadowStep' = "idle"
  /\ UNCHANGED <<store, shadow, medium, opened, putDone, cut>>

ShadowPowerLoss ==
  /\ shadowStep # "off"
  /\ shadowStep' = "off"
  /\ shadow' = Blank /\ opened' = FALSE
  /\ cut' = (cut \/ shadowStep = "program")
  /\ UNCHANGED <<store, medium, putDone>>

-----------------------------------------------------------------------------
ShadowInit ==
  /\ store \in {"nvs", "eeprom"}
  /\ shadow = Blank /\ medium = Blank
  /\ opened = FALSE /\ shadowStep = "off"
  /\ putDone = Blank /\ cut = FALSE

ShadowNext ==
  \/ ShadowBegin \/ (\E blob \in Blob : ShadowWrite(blob))
  \/ NvsErase \/ EepromErase \/ NvsCommit \/ EepromCommit
  \/ SectorErased \/ SectorProgrammed \/ SectorRefused \/ ShadowPowerLoss

ShadowSpec == ShadowInit /\ [][ShadowNext]_shadowVars

-----------------------------------------------------------------------------
\* What the RAM, the medium and the steps of a rewrite range over.
ShadowTypeOK ==
  /\ store \in {"nvs", "eeprom"}
  /\ {shadow, medium, putDone} \subseteq Blob \cup {Mangled}
  /\ shadowStep \in {"off", "idle", "sector", "program"}
  /\ {opened, cut} \subseteq BOOLEAN

\* Whenever power is lost, NVS has the last store whose commit() succeeded, whatever
\* was written, erased or tried since.  EEPROM has that, unless power is lost while
\* the sector is rewritten.
ShadowKeepsCommits ==
  \/ medium = putDone
  \/ store = "eeprom" /\ (cut \/ shadowStep = "program")
=============================================================================
