----------------------------- MODULE MCKeySpace -----------------------------
(* Small instances of KeySpace: colliding hashes and one kind of metadata.       *)
EXTENDS KeySpace, TLC

CONSTANTS k1, k2, k3

MCOneMeta == {[version |-> 1, wallclock |-> 0, origin |-> 0]}

(* Two keys share a home slot, the third has the next one.                 *)
MCHash3 == (k1 :> 0) @@ (k2 :> 0) @@ (k3 :> 1)
=============================================================================
