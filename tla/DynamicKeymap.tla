----------------------------- MODULE DynamicKeymap -----------------------------
(***************************************************************************)
(* The VIA commands that read and write settings (Protocol::process and    *)
(* the functions it calls, src/src/VIA_Protocol.cpp): keycodes one by one  *)
(* (0x04, 0x05), the keymap and the macros as buffers of bytes (0x0E-0x13),*)
(* the encoder map (0x14, 0x15), the resets (0x06, 0x10) and, with RGBLight *)
(* for the sketch's CustomValue, the custom values (0x07, 0x08).           *)
(*                                                                         *)
(* `mirror' is what the host has been told it wrote, by key, half and byte:*)
(* the meaning VIA gives to the commands.                                  *)
(***************************************************************************)
EXTENDS RgbLight, Integers

CONSTANTS
  Layers, KeyRows, KeyColumns, Encoders, MacroBytes,
  Bytes256,     \* number of values of a byte (256 in the code)
  BufferMax,    \* most bytes in a buffer command (28 in the code)
  SomeCodes,    \* codes the host writes one by one
  DefaultCode   \* code of every key and encoder in the default maps

Byte    == 0..Bytes256 - 1
Keycode == 0..Bytes256 * Bytes256 - 1

ASSUME KeymapAssumption ==
  /\ {Layers, KeyRows, KeyColumns, Bytes256, BufferMax} \subseteq Nat \ {0}
  /\ {Encoders, MacroBytes} \subseteq Nat
  /\ SomeCodes \subseteq Keycode /\ DefaultCode \in Keycode

Key       == (0..Layers - 1) \X (0..KeyRows - 1) \X (0..KeyColumns - 1)
Turn      == (0..Layers - 1) \X (0..Encoders - 1) \X (0..1)
MacroByte == 0..MacroBytes - 1

\* Coordinates and offsets that are one off the end, too.
AnyKey  == (0..Layers) \X (0..KeyRows) \X (0..KeyColumns)
AnyTurn == (0..Layers) \X (0..Encoders) \X (0..2)
Buffer  == UNION { [1..n -> Byte] : n \in 0..BufferMax }

VARIABLES
  keymap, encoderMap, macros, mapDirty,
  mirror,    \* history: what the host was told it wrote
  unsaved    \* history: the host changed something since the last save

settings   == <<keymap, encoderMap, macros, light>>
keymapVars == <<settings, shown, mapDirty, mirror, unsaved>>

-----------------------------------------------------------------------------
keyCount    == Layers * KeyRows * KeyColumns
keymapBytes == 2 * keyCount

KeyIndex(k)  == (k[1] * KeyRows + k[2]) * KeyColumns + k[3]
TurnIndex(t) == (t[1] * Encoders + t[2]) * 2 + t[3]

keycode(k)        == IF k \in Key THEN keymap[KeyIndex(k)] ELSE 0
encoderKeycode(t) == IF t \in Turn THEN encoderMap[TurnIndex(t)] ELSE 0

\* Mutant: low byte first.
KeymapByte_LowFirst(index) ==
  IF index % 2 = 0 THEN keymap[index \div 2] % Bytes256 ELSE keymap[index \div 2] \div Bytes256

\* The byte at `index' of the keymap on the wire: high byte first.
KeymapByte(index) ==
  IF index % 2 = 1 THEN keymap[index \div 2] % Bytes256 ELSE keymap[index \div 2] \div Bytes256

readDynamicKeymap(offset, size) ==
  [i \in 1..size |-> IF offset + i - 1 >= keymapBytes THEN 0 ELSE KeymapByte(offset + i - 1)]

readMacros(offset, size) ==
  [i \in 1..size |-> IF offset + i - 1 >= MacroBytes THEN 0 ELSE macros[offset + i - 1]]

\* The byte of a buffer that goes to `index', or else what is there.
Patched(index, offset, buffer, old) ==
  IF index - offset \in 0..Len(buffer) - 1 THEN buffer[index - offset + 1] ELSE old

Within(offset, buffer, bytes) == buffer # <<>> /\ offset < bytes

\* markDirty()
MarkIf(wrote) == mapDirty' = (mapDirty \/ wrote)

-----------------------------------------------------------------------------
(* Commands *)

CodeBytes(code) == <<code \div Bytes256, code % Bytes256>>

\* setKeycode() and setEncoderKeycode() refuse what is out of range.
SetKeycode(k, code) ==
  /\ IF k \in Key
     THEN /\ keymap' = [keymap EXCEPT ![KeyIndex(k)] = code]
          /\ mirror' = [mirror EXCEPT !.keys[k] = CodeBytes(code)]
     ELSE UNCHANGED <<keymap, mirror>>
  /\ UNCHANGED <<encoderMap, macros, lightVars>>

SetEncoder(t, code) ==
  /\ IF t \in Turn
     THEN /\ encoderMap' = [encoderMap EXCEPT ![TurnIndex(t)] = code]
          /\ mirror' = [mirror EXCEPT !.turns[t] = code]
     ELSE UNCHANGED <<encoderMap, mirror>>
  /\ UNCHANGED <<keymap, macros, lightVars>>

\* Where VIA keeps half h (0 is the high one) of key k: layer by layer, row by row.
WireOffset(k, h) ==
  2 * k[1] * KeyRows * KeyColumns + 2 * k[2] * KeyColumns + 2 * k[3] + h

MirrorKeys(offset, buffer) ==
  [k \in Key |-> [h \in 1..2 |->
     Patched(WireOffset(k, h - 1), offset, buffer, mirror.keys[k][h])]]

\* What reaches past the end is dropped.
writeDynamicKeymap(offset, buffer) ==
  /\ keymap' = [n \in 0..keyCount - 1 |->
       Patched(2 * n, offset, buffer, KeymapByte(2 * n)) * Bytes256
       + Patched(2 * n + 1, offset, buffer, KeymapByte(2 * n + 1))]
  /\ mirror' = [mirror EXCEPT !.keys = MirrorKeys(offset, buffer)]
  /\ MarkIf(Within(offset, buffer, keymapBytes))
  /\ UNCHANGED <<encoderMap, macros, lightVars>>

\* Mutant: only a buffer that fits marks the settings dirty.
WriteMacros_Fits(offset, buffer) ==
  /\ macros' = [n \in MacroByte |-> Patched(n, offset, buffer, macros[n])]
  /\ mirror' = [mirror EXCEPT !.macros = macros']
  /\ MarkIf(buffer # <<>> /\ offset + Len(buffer) <= MacroBytes)
  /\ UNCHANGED <<keymap, encoderMap, lightVars>>

WriteMacros(offset, buffer) ==
  /\ macros' = [n \in MacroByte |-> Patched(n, offset, buffer, macros[n])]
  /\ mirror' = [mirror EXCEPT !.macros = macros']
  /\ MarkIf(Within(offset, buffer, MacroBytes))
  /\ UNCHANGED <<keymap, encoderMap, lightVars>>

\* 0x06: the keys and the encoders, not the macros.
ResetKeymap ==
  /\ keymap' = [n \in 0..keyCount - 1 |-> DefaultCode]
  /\ encoderMap' = [n \in 0..Layers * Encoders * 2 - 1 |-> DefaultCode]
  /\ mirror' = [mirror EXCEPT !.keys = [k \in Key |-> CodeBytes(DefaultCode)],
                              !.turns = [t \in Turn |-> DefaultCode]]
  /\ MarkIf(TRUE)
  /\ UNCHANGED <<macros, lightVars>>

ResetMacros ==
  /\ macros' = [n \in MacroByte |-> 0]
  /\ mirror' = [mirror EXCEPT !.macros = macros']
  /\ MarkIf(TRUE)
  /\ UNCHANGED <<keymap, encoderMap, lightVars>>

\* VIA's number of the command for each field.
LightCommand == [brightness |-> 1, effect |-> 2, speed |-> 3, hue |-> 4, saturation |-> 4]

SetCustomValue(packet, bytes) ==
  /\ LightSet(packet, bytes)
  /\ mirror' = [mirror EXCEPT !.light = [f \in Field |->
       IF f = "saturation" /\ packet[2] = 4 THEN bytes[2]
       ELSE IF LightCommand[f] = packet[2] THEN bytes[1] ELSE @[f]]]
  /\ MarkIf(TRUE)
  /\ UNCHANGED <<keymap, encoderMap, macros>>

Command ==
  \/ \E k \in AnyKey, c \in SomeCodes : SetKeycode(k, c) /\ MarkIf(k \in Key)
  \/ \E t \in AnyTurn, c \in SomeCodes : SetEncoder(t, c) /\ MarkIf(t \in Turn)
  \/ \E o \in 0..keymapBytes, b \in Buffer : writeDynamicKeymap(o, b)
  \/ \E o \in 0..MacroBytes, b \in Buffer : WriteMacros(o, b)
  \/ ResetKeymap \/ ResetMacros
  \/ \E p \in LightPacket, b \in (0..Levels - 1) \X (0..Levels - 1) : SetCustomValue(p, b)

\* The sketch calls setKeycode() and setEncoderKeycode() itself, which mark nothing.
SketchSets ==
  /\ \/ \E k \in AnyKey, c \in SomeCodes : SetKeycode(k, c)
     \/ \E t \in AnyTurn, c \in SomeCodes : SetEncoder(t, c)
  /\ UNCHANGED <<mapDirty, unsaved>>

\* save() or the auto-save has succeeded.
Saves == mapDirty' = FALSE /\ unsaved' = FALSE /\ UNCHANGED <<settings, shown, mirror>>

\* load() finds a record that differs in its custom state.
LoadsLight ==
  /\ \E record \in Light : LightLoad(record) /\ mirror' = [mirror EXCEPT !.light = record]
  /\ mapDirty' = FALSE /\ unsaved' = FALSE
  /\ UNCHANGED <<keymap, encoderMap, macros>>

KeymapInit ==
  /\ keymap = [n \in 0..keyCount - 1 |-> DefaultCode]
  /\ encoderMap = [n \in 0..Layers * Encoders * 2 - 1 |-> DefaultCode]
  /\ macros = [n \in MacroByte |-> 0]
  /\ LightInit
  /\ mapDirty = FALSE /\ unsaved = FALSE
  /\ mirror = [keys |-> [k \in Key |-> CodeBytes(DefaultCode)], turns |-> [t \in Turn |-> DefaultCode],
               macros |-> macros, light |-> light]

KeymapNext ==
  \/ Command /\ unsaved' = (unsaved \/ settings' # settings)
  \/ SketchSets
  \/ Saves
  \/ LoadsLight

KeymapSpec == KeymapInit /\ [][KeymapNext]_keymapVars

-----------------------------------------------------------------------------
\* Byte `offset' of the keymap as VIA counts, by the mirror; 0 past the end.
MirrorByte(offset) ==
  IF \E k \in Key, h \in 0..1 : WireOffset(k, h) = offset
  THEN LET at == CHOOSE at \in Key \X (0..1) : WireOffset(at[1], at[2]) = offset
       IN  mirror.keys[at[1]][at[2] + 1]
  ELSE 0

\* Whatever mixture of single writes, buffers at odd offsets or over the end and
\* resets came before: key by key, encoder by encoder and byte by byte, at every
\* coordinate and offset, the host reads what it was told it wrote, and 0 past the end.
ReadsBackWritten ==
  /\ \A k \in AnyKey : keycode(k) =
       IF k \in Key THEN mirror.keys[k][1] * Bytes256 + mirror.keys[k][2] ELSE 0
  /\ \A t \in AnyTurn : encoderKeycode(t) = IF t \in Turn THEN mirror.turns[t] ELSE 0
  /\ \A o \in 0..keymapBytes : readDynamicKeymap(o, BufferMax) =
       [i \in 1..BufferMax |-> MirrorByte(o + i - 1)]
  /\ \A o \in 0..MacroBytes : readMacros(o, BufferMax) =
       [i \in 1..BufferMax |-> IF o + i - 1 \in MacroByte THEN mirror.macros[o + i - 1] ELSE 0]

\* What the host has changed in any of these ways is waiting for the auto-save until
\* a save has taken it.
EditsAreMarked == unsaved => mapDirty

\* In every form a light's command reads back what the last command that spoke of
\* the same field wrote, and the LEDs show it.
LightsFollow ==
  /\ \A form \in {"v3", "legacy"}, f \in Field \ {"saturation"} :
       LightGet(<<form, LightCommand[f]>>)[1] = mirror.light[f]
  /\ light = mirror.light /\ shown \in {NoLight, light}

\* The host's edits are as it wrote them, wait for a save, and are shown.
SettingsKept == ReadsBackWritten /\ EditsAreMarked /\ LightsFollow
=============================================================================
