------------------------------- MODULE KeyMap -------------------------------
(***************************************************************************)
(* What the key-space of antzkv promises its callers: a map from keys to   *)
(* objects that changes one key at a time, and a version counter that      *)
(* never runs backwards.  KeySpace, the open-addressing table that         *)
(* implements it, is shown to refine this module.                          *)
(***************************************************************************)
EXTENDS Integers

CONSTANTS Key, Object, NoObject

VARIABLES store, version

vars == <<store, version>>

Init == (\A k \in Key : store[k] = NoObject) /\ version = 0

Others(k) == \A j \in Key \ {k} : store'[j] = store[j]

Put(k) == store'[k] \in Object /\ Others(k) /\ version' >= version

Remove(k) == store'[k] = NoObject /\ Others(k) /\ version' >= version

Advance == (\A k \in Key : store'[k] = store[k]) /\ version' >= version

Next ==
    \/ \E k \in Key : Put(k) \/ Remove(k)
    \/ Advance

Spec == Init /\ [][Next]_vars
=============================================================================
