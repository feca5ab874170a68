------------------------------- MODULE RgbLight -------------------------------
(***************************************************************************)
(* via::RGBLight (src/src/VIA_RGBLight.cpp): the custom values of channel  *)
(* 2.  A packet names a command in the v3 form (0x80-0x83 in its first     *)
(* byte) or, after the channel, in either numbering (the legacy form).     *)
(***************************************************************************)
EXTENDS Naturals, Sequences

CONSTANTS
  Levels,   \* number of values of a light's byte (256 in the code)
  NoLight   \* nothing has been shown yet

ASSUME LevelsAssumption == Levels \in Nat \ {0}

Field == {"brightness", "effect", "speed", "hue", "saturation"}
Light == [Field -> 0..Levels - 1]

VARIABLES
  light,    \* state_
  shown     \* what apply() was last called with

lightVars == <<light, shown>>

\* The form and the number of the command, 0x80 for 1; the rest is for others.
LightPacket == {"v3", "legacy", "otherChannel"} \X (0..5)

\* The fields a command speaks of, in the order of their bytes; none when refused.
FieldsOf(packet) ==
  IF packet[1] = "otherChannel" THEN <<>>
  ELSE CASE packet[2] = 1 -> <<"brightness">>
         [] packet[2] = 2 -> <<"effect">>
         [] packet[2] = 3 -> <<"speed">>
         [] packet[2] = 4 -> <<"hue", "saturation">>
         [] OTHER -> <<>>

LightGet(packet) == [i \in 1..Len(FieldsOf(packet)) |-> light[FieldsOf(packet)[i]]]

\* Mutant: the second byte of a command is left out.
LightSet_First(packet, bytes) ==
  /\ FieldsOf(packet) # <<>>
  /\ light' = [light EXCEPT ![FieldsOf(packet)[1]] = bytes[1]]
  /\ shown' = light'

LightSet(packet, bytes) ==
  LET fields == FieldsOf(packet)
  IN  /\ fields # <<>>
      /\ light' = [f \in Field |->
           IF \E i \in 1..Len(fields) : fields[i] = f
           THEN bytes[CHOOSE i \in 1..Len(fields) : fields[i] = f] ELSE light[f]]
      /\ shown' = light'

\* loadState(); a record of another length is refused, by the Protocol before.
LightLoad(record) == light' = record /\ shown' = light'

\* Before the first command or record the sketch's own state stands, unapplied.
LightInit == light = [f \in Field |-> 0] /\ shown = NoLight
=============================================================================
