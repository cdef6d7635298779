------------------------------- MODULE DList --------------------------------
(***************************************************************************)
(* The doubly linked list of src/core/kvdb.c, as operators on the struct   *)
(* dlist_t.  end.left and end.right are head and tail, link.right and      *)
(* link.left are next and prev, so that the two pushes and the two pops    *)
(* are one operator each.                                                  *)
(***************************************************************************)
EXTENDS Heap

Side == {"left", "right"}
Other(s) == IF s = "left" THEN "right" ELSE "left"

obj_create_list ==
    [end   |-> [s \in Side |-> NULL],
     link  |-> [s \in Side |-> [n \in Node |-> NULL]],
     value |-> [n \in Node |-> Free],
     len   |-> 0]

ListCells(l) == {n \in Node : l.value[n] # Free}

(* dlist_push_left and dlist_push_right.                                   *)
dlist_push(l, s, val) ==
    LET n   == Calloc(ListCells(l))
        old == l.end[s]
        new == [l EXCEPT !.value[n] = val, !.end[s] = n, !.len = @ + 1]
    IN  IF old = NULL THEN [new EXCEPT !.end[Other(s)] = n]
        ELSE [new EXCEPT !.link[Other(s)][n] = old, !.link[s][old] = n]

(* free(n): the cell's links are cleared, for calloc clears them.          *)
FreeCell(l, n) ==
    [l EXCEPT !.value[n] = Free, !.len = @ - 1,
              !.link = [s \in Side |-> [@[s] EXCEPT ![n] = NULL]]]

(* Mutant: the new end keeps its link to the node that was freed.          *)
dlist_popLinked(l, s) ==
    LET n    == l.end[s]
        next == l.link[Other(s)][n]
        rest == [FreeCell(l, n) EXCEPT !.end[s] = next]
    IN  IF next = NULL THEN [rest EXCEPT !.end[Other(s)] = NULL] ELSE rest

(* dlist_pop_left and dlist_pop_right, on a list that is not empty.        *)
dlist_pop(l, s) ==
    LET n    == l.end[s]
        next == l.link[Other(s)][n]
        rest == [FreeCell(l, n) EXCEPT !.end[s] = next]
    IN  IF next = NULL THEN [rest EXCEPT !.end[Other(s)] = NULL]
        ELSE [rest EXCEPT !.link[s][next] = NULL]

(* The cells from the end s on, in the order a walk meets them.            *)
Cells(l, s) == Trace(l.link[Other(s)], l.end[s])

(* The values from the end s on.                                           *)
Items(l, s) == LET c == Cells(l, s) IN [i \in 1 .. Len(c) |-> l.value[c[i]]]

(* dlist_get and dlist_set: the cell at an index, which may count from the *)
(* tail, or NULL.                                                          *)
CellAt(l, idx) ==
    LET i == IF idx < 0 THEN idx + l.len ELSE idx
    IN  IF i < 0 \/ i >= l.len THEN NULL ELSE Cells(l, "left")[i + 1]

(* What leads to a cell from its side s leads past it, given the cell's    *)
(* neighbours.                                                             *)
Join(l, nbr, s) ==
    IF nbr[s] = NULL THEN [l EXCEPT !.end[s] = nbr[Other(s)]]
    ELSE [l EXCEPT !.link[Other(s)][nbr[s]] = nbr[Other(s)]]

(* dlist_rem's loop body: n leaves the list.                               *)
Unlink(l, n) ==
    LET nbr == [s \in Side |-> l.link[s][n]]
    IN  FreeCell(Join(Join(l, nbr, "left"), nbr, "right"), n)

(* Mutant: the loop stops when one more than count are removed.            *)
RemoveMoreOne(count, removed) == count <= 0 \/ removed <= count

(* dlist_rem's loop goes on: a count of 0 or less removes all.             *)
RemoveMore(count, removed) == count <= 0 \/ removed < count

(* dlist_rem: after a walk past i cells, the list and the number removed.  *)
dlist_rem(l, count, val) ==
    LET c == Cells(l, "left")
        after[i \in 0 .. Len(c)] ==
          IF i = 0 THEN [list |-> l, removed |-> 0]
          ELSE LET a == after[i - 1]
               IN  IF a.list.value[c[i]] = val /\ RemoveMore(count, a.removed)
                     THEN [list |-> Unlink(a.list, c[i]), removed |-> a.removed + 1]
                     ELSE a
    IN  after[Len(c)].list
=============================================================================
