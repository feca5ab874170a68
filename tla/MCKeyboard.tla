------------------------------ MODULE MCKeyboard ------------------------------
(* Instances of Keyboard for TLC. *)
EXTENDS Keyboard

MO(l) == 20992 + l
TG(l) == 21024 + l
TO(l) == 21056 + l
DF(l) == 21088 + l

\* Two layer keys on the base layer, every kind of layer key on layer 1.
LayerMap  == (0 :> <<MO(1), TG(1), 4>>) @@ (1 :> <<1, TO(0), MO(1)>>)
PlainMap  == (0 :> <<MO(1), MO(1), 4>>) @@ (1 :> <<1, 1, 5>>)
TypingMap == (0 :> <<4, 225>>)

PlainRemaps == { <<0, p, c>> : p \in 1..2, c \in {MO(1), 4} }
LayerRemaps == { <<0, 1, c>> : c \in {MO(1), MO(2), TO(1), DF(1), 31744} }

Setup(initial, remaps, immediate, refuses, disconnects) ==
  [keymap |-> initial, remaps |-> remaps, immediate |-> immediate, refuses |-> refuses,
   disconnects |-> disconnects]

\* Layer keys of every kind on a BLE host that stays; momentary keys on a BLE host
\* that comes and goes and on a USB endpoint that may fail.
AllSetups == { Setup(LayerMap, LayerRemaps, TRUE, FALSE, FALSE),
               Setup(PlainMap, PlainRemaps, TRUE, FALSE, TRUE),
               Setup(PlainMap, {<<0, 1, 4>>}, FALSE, TRUE, FALSE) }

\* Typing on a USB endpoint that is busy until the host has fetched a report, and on
\* a BLE host that comes and goes.
UsbSetup   == { Setup(TypingMap, {}, FALSE, FALSE, FALSE) }
BleSetup   == { Setup(TypingMap, {}, TRUE, FALSE, TRUE) }
LossSetups == UsbSetup \cup BleSetup
=============================================================================
