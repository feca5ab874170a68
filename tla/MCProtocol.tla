------------------------------ MODULE MCProtocol ------------------------------
(* Instances of Protocol for TLC: two contents per section, and a checksum    *)
(* that cannot tell any two payloads apart, the worst a checksum can be.      *)
EXTENDS ProtocolRefinement

WholeDevice  == <<"keymap", "encoder", "macros", "layout", "custom">>
CustomDevice == <<"keymap", "layout", "custom">>
PlainDevice  == <<"keymap", "layout">>

AllZero   == [s \in Section |-> 0]
\* Default custom bytes that differ from the zero fill of a failed saveState().
CustomOne == [s \in Section |-> IF s = "custom" THEN 1 ELSE 0]

WeakestCrc(b) == 1
=============================================================================
