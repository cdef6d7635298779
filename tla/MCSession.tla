------------------------------ MODULE MCSession ------------------------------
(* A session of three commands: each kind once as a short line, and GET as *)
(* a line that is cut, too.                                                *)
EXTENDS Session

MCCommand ==
    {[kind |-> k, len |-> 1] : k \in Kinds} \cup [kind : {"get"}, len : {3, 4}]
=============================================================================
