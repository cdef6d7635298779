--------------------------- MODULE MCReplication ----------------------------
(* A mesh of two nodes with a worker each.                                 *)
EXTENDS Replication

TwoWriters == {<<1, 1>>, <<2, 1>>}
=============================================================================
