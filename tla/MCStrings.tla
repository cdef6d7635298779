----------------------------- MODULE MCStrings ------------------------------
(* A table of two slots.                                                   *)
EXTENDS Strings

MCSlots == <<"a", "b">>
=============================================================================
