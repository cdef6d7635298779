-------------------------------- MODULE Meta --------------------------------
(***************************************************************************)
(* The write metadata kv_meta_t and the last-write-wins comparator of      *)
(* src/core/kvdb.c.  The origin is a node id compared with strcmp; only    *)
(* its position in that order matters, so it is a natural number here and  *)
(* 0 stands for the empty origin that kv_set stores.                       *)
(***************************************************************************)
EXTENDS Integers

kv_meta_t == [version : Nat, wallclock : Nat, origin : Nat]

(* meta_gt: version first, then wallclock, then origin.                    *)
meta_gt(a, b) ==
    \/ a.version > b.version
    \/ /\ a.version = b.version
       /\ \/ a.wallclock > b.wallclock
          \/ a.wallclock = b.wallclock /\ a.origin > b.origin
=============================================================================
