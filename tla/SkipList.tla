------------------------------ MODULE SkipList ------------------------------
(***************************************************************************)
(* The skip list of src/core/kvdb.c that holds sorted sets, as operators   *)
(* on the struct zskiplist_t.  A node has a forward pointer per level and  *)
(* a backward pointer on level 0.  Members are numbers, ordered as strcmp  *)
(* orders the strings.                                                     *)
(***************************************************************************)
EXTENDS Heap

CONSTANTS
    MAXLEVEL,      \* ZSKIPLIST_MAXLEVEL
    Header

ASSUME SkipListAssumption ==
    MAXLEVEL \in Nat \ {0} /\ Header \notin Ptr

Levels == 0 .. MAXLEVEL - 1

zsl_create ==
    [node     |-> [n \in Node |-> Free],
     forward  |-> [x \in Node \cup {Header} |-> [i \in Levels |-> NULL]],
     backward |-> [n \in Node |-> NULL],
     tail     |-> NULL,
     level    |-> 1,
     length   |-> 0]

Used(z) == {n \in Node : z.node[n] # Free}

(* The order of the list.                                                  *)
Before(s, m, t, k) == s < t \/ (s = t /\ m < k)
NodeBefore(z, n, s, m) == Before(z.node[n].score, z.node[n].member, s, m)

(* From x along level i while the next node is in skip.                    *)
Walk(z, x, i, skip) ==
    LET w[y \in Node \cup {Header}] ==
          IF z.forward[y][i] \in skip THEN w[z.forward[y][i]] ELSE y
    IN  w[x]

(* update[]: where the walks from the top level down to level 0 end.       *)
Update(z, skip) ==
    LET u[i \in 0 .. z.level - 1] ==
          Walk(z, IF i = z.level - 1 THEN Header ELSE u[i + 1], i, skip)
    IN  u

(* Mutant: a new node always becomes the tail.                             *)
NewTailAlways(z, n, succ) == n

NewTail(z, n, succ) == IF succ = NULL THEN n ELSE z.tail

(* zsl_insert, with the level h that zsl_random_level draws: a node is     *)
(* added whether or not the member has one already.                        *)
zsl_insert(z, s, m, h) ==
    LET u == Update(z, {n \in Used(z) : NodeBefore(z, n, s, m)})
        update(i) == IF i < z.level THEN u[i] ELSE Header
        n == Calloc(Used(z))
        succ == z.forward[update(0)][0]
    IN  [node |-> [z.node EXCEPT ![n] = [member |-> m, score |-> s, level |-> h]],
         forward |-> [x \in Node \cup {Header} |-> [i \in Levels |->
           IF i < h /\ x = n THEN z.forward[update(i)][i]
           ELSE IF i < h /\ x = update(i) THEN n ELSE z.forward[x][i]]],
         backward |-> [x \in Node |->
           IF x = n THEN IF update(0) = Header THEN NULL ELSE update(0)
           ELSE IF x = succ THEN n ELSE z.backward[x]],
         tail |-> NewTail(z, n, succ),
         level |-> IF h > z.level THEN h ELSE z.level,
         length |-> z.length + 1]

-----------------------------------------------------------------------------
(* update[] of zsl_delete: the walks compare members only, on every level. *)
Passing(z, m) == Update(z, {n \in Used(z) : z.node[n].member # m})

(* Mutant: only the top level is searched.                                 *)
FoundOnTop(z, m) ==
    LET others == {n \in Used(z) : z.node[n].member # m}
    IN  z.forward[Walk(z, Header, z.level - 1, others)][z.level - 1]

(* The node that zsl_delete finds for a member, or NULL.                   *)
Found(z, m) == z.forward[Passing(z, m)[0]][0]

(* Mutant: the node is unlinked from level 0 only.                         *)
UnlinkedBelow(z, x, update) ==
    [y \in Node \cup {Header} |-> [i \in Levels |->
      IF y = x THEN NULL
      ELSE IF i = 0 /\ y = update[0] THEN z.forward[x][0] ELSE z.forward[y][i]]]

(* The forward pointers once x is unlinked and freed.                      *)
Unlinked(z, x, update) ==
    [y \in Node \cup {Header} |-> [i \in Levels |->
      IF y = x THEN NULL
      ELSE IF i < z.level /\ y = update[i] /\ z.forward[y][i] = x
             THEN z.forward[x][i] ELSE z.forward[y][i]]]

(* The level once the empty levels at the top have gone.                   *)
Lowered(z, fwd) ==
    CHOOSE l \in 1 .. z.level :
      /\ l = 1 \/ fwd[Header][l - 1] # NULL
      /\ \A k \in l + 1 .. z.level : fwd[Header][k - 1] = NULL

(* zsl_delete, of a member that is found.                                  *)
zsl_delete(z, m) ==
    LET x   == Found(z, m)
        fwd == Unlinked(z, x, Passing(z, m))
    IN  [node |-> [z.node EXCEPT ![x] = Free],
         forward |-> fwd,
         backward |-> [y \in Node |->
           IF y = x THEN NULL
           ELSE IF y = z.forward[x][0] THEN z.backward[x] ELSE z.backward[y]],
         tail |-> IF z.forward[x][0] = NULL THEN z.backward[x] ELSE z.tail,
         level |-> Lowered(z, fwd),
         length |-> z.length - 1]

-----------------------------------------------------------------------------
(* The nodes of a level, in the order of the forward pointers.             *)
Chain(z, i) ==
    Trace([x \in Node |-> z.forward[x][i]], z.forward[Header][i])

(* The nodes from the tail, in the order of the backward pointers.         *)
BackChain(z) == Trace(z.backward, z.tail)

(* How many nodes at the front of a chain are in the set front.            *)
Leading(chain, front) ==
    CHOOSE k \in 0 .. Len(chain) :
      /\ \A j \in 1 .. k : chain[j] \in front
      /\ k = Len(chain) \/ chain[k + 1] \notin front

(* The score of the first node of a member on level 0.                     *)
kv_zscore(z, m) ==
    LET c == Chain(z, 0)
        others == {n \in Used(z) : z.node[n].member # m}
    IN  z.node[c[Leading(c, others) + 1]].score

(* kv_zrank and zsl_rank.                                                  *)
kv_zrank(z, m) ==
    Leading(Chain(z, 0), {n \in Used(z) : NodeBefore(z, n, kv_zscore(z, m), m)})

(* kv_zrevrank and zsl_revrank.                                            *)
kv_zrevrank(z, m) ==
    Leading(BackChain(z), {n \in Used(z) :
      Before(kv_zscore(z, m), m, z.node[n].score, z.node[n].member)})

(* The nodes start to stop of a chain: kv_zrange on level 0, kv_zrevrange  *)
(* on the backward pointers.  A negative index counts from the end.        *)
kv_zrange(z, chain, start, stop) ==
    LET s == IF start < 0 THEN start + z.length ELSE start
        e == IF stop < 0 THEN stop + z.length ELSE stop
        lo == IF s < 0 THEN 0 ELSE s
        hi == IF e >= z.length THEN z.length - 1 ELSE e
    IN  IF lo > hi THEN <<>> ELSE SubSeq(chain, lo + 1, hi + 1)
=============================================================================
