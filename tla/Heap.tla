-------------------------------- MODULE Heap --------------------------------
(* The memory that lists and skip lists take their nodes from: a node is a *)
(* cell, and a freed cell is used again first.                             *)
EXTENDS Integers, Sequences, FiniteSets, Functions

CONSTANTS
    Node,          \* bound: the cells of one object
    NULL, Free

ASSUME HeapAssumption == Node \subseteq Nat /\ NULL \notin Node

Ptr == Node \cup {NULL}

(* calloc, given the cells in use: the lowest one that is free.            *)
Calloc(used) == CHOOSE n \in Node \ used : \A k \in Node \ used : n <= k

Reverse(s) == [i \in 1 .. Len(s) |-> s[Len(s) + 1 - i]]

(* The cells that a walk from first meets, where next is a pointer of      *)
(* every cell.                                                             *)
Trace(next, first) ==
    LET c[x \in Ptr] == IF x = NULL THEN <<>> ELSE <<x>> \o c[next[x]]
    IN  c[first]
=============================================================================
