--------------------------- MODULE SkipListProofs ---------------------------
(***************************************************************************)
(* Proofs about the sorted sets of Objects: the skip list, for every heap, *)
(* every number of levels and every draw of zsl_random_level.  A skip list *)
(* is compared with the sequence q of its nodes in their order.  The       *)
(* inductive invariant ZSetInv says that there is such a q from which      *)
(* every pointer follows: on level i a node leads to the next node of q    *)
(* that reaches level i (ZForward), backwards to the node before it        *)
(* (ZBack), q is sorted (ZSorted), and the level of the list is that of    *)
(* its tallest node (ZLevel).                                              *)
(***************************************************************************)
EXTENDS Objects, HeapProofs, TLAPS

(* A recursive function on D that ends on stop and else calls itself on    *)
(* succ.                                                                   *)
IsCall(D, S, stop, succ, base, more) ==
    /\ stop \in SUBSET D /\ succ \in [D -> D]
    /\ base \in [D -> S] /\ more \in [D \X S -> S]

(* The rank of the argument falls with every call.                         *)
Falls(D, stop, succ, rank, N) ==
    /\ N \in Nat /\ rank \in [D -> 0 .. N]
    /\ \A x \in D \ stop : rank[succ[x]] < rank[x]

(* A solution f of such a recursion.                                       *)
IsValue(f, D, S, stop, succ, base, more) ==
    /\ f \in [D -> S]
    /\ \A x \in D : f[x] = IF x \in stop THEN base[x] ELSE more[<<x, f[succ[x]]>>]

(* Such a function has a value everywhere: N + 1 rounds, each of which     *)
(* computes it from the values of the round before, reach it.              *)
LEMMA Grounded ==
    ASSUME NEW D, NEW S, NEW stop, NEW succ, NEW base, NEW more, NEW rank, NEW N,
           IsCall(D, S, stop, succ, base, more), Falls(D, stop, succ, rank, N)
    PROVE  \E f : IsValue(f, D, S, stop, succ, base, more)
<1> DEFINE F == [D -> S]
           round(f) == [x \in D |-> IF x \in stop THEN base[x] ELSE more[<<x, f[succ[x]]>>]]
           step == [p \in F \X (1 .. N + 1) |-> round(p[1])]
<1>1. /\ stop \in SUBSET D /\ succ \in [D -> D]
      /\ base \in [D -> S] /\ more \in [D \X S -> S]
  BY Zenon DEF IsCall
<1>2. /\ N \in Nat /\ rank \in [D -> 0 .. N]
      /\ \A x \in D \ stop : rank[succ[x]] < rank[x]
  BY Zenon DEF Falls
<1>3. \A f \in F : round(f) \in F
  <2> SUFFICES ASSUME NEW f \in F, NEW x \in D
               PROVE  (IF x \in stop THEN base[x] ELSE more[<<x, f[succ[x]]>>]) \in S
    BY Zenon
  <2>1. succ[x] \in D /\ base[x] \in S
    BY <1>1, Zenon
  <2>2. <<x, f[succ[x]]>> \in D \X S
    BY <2>1, Zenon
  <2>3. more[<<x, f[succ[x]]>>] \in S
    BY <1>1, <2>2, Zenon
  <2> QED
    BY <2>1, <2>3, Zenon
<1>4. step \in [F \X (1 .. N + 1) -> F]
  <2>1. \A p \in F \X (1 .. N + 1) : p[1] \in F
    OBVIOUS
  <2> QED
    BY <1>3, <2>1, Zenon
<1>5. base \in F /\ N + 1 \in Nat
  BY <1>1, <1>2
<1>6. IsStep(step, base, N + 1, F)
  <2> HIDE DEF F, step
  <2> QED
    BY <1>4, <1>5, Zenon DEF IsStep
<1>7. \A f \in F : \A i \in 1 .. N + 1 : step[<<f, i>>] = round(f)
  BY Zenon
<1>8. PICK f : IsRun(f, step, base, N + 1, F)
  <2> HIDE DEF F, step
  <2> QED
    BY <1>6, Recursion, Zenon
<1>9. f \in [0 .. N + 1 -> F] /\ \A i \in 1 .. N + 1 : f[i] = step[<<f[i - 1], i>>]
  BY <1>8, Zenon DEF IsRun
<1> HIDE DEF F, round, step
<1>10. \A i \in 1 .. N + 1 : f[i - 1] \in F /\ f[i] = round(f[i - 1])
  <2> SUFFICES ASSUME NEW i \in 1 .. N + 1 PROVE f[i - 1] \in F /\ f[i] = round(f[i - 1])
    OBVIOUS
  <2>1. i - 1 \in 0 .. N + 1
    BY <1>2
  <2>2. f[i - 1] \in F
    BY <1>9, <2>1, Zenon
  <2> QED
    BY <1>7, <1>9, <2>2, Zenon
<1>11. \A i \in 1 .. N + 1 : \A x \in D :
         f[i][x] = IF x \in stop THEN base[x] ELSE more[<<x, f[i - 1][succ[x]]>>]
  BY <1>10, Zenon DEF round
<1> DEFINE T == {i \in Nat : \A x \in D : \A j \in Nat :
                    rank[x] < i /\ i <= j /\ j <= N + 1 => f[j][x] = f[i][x]}
<1>12. \A i \in Nat : i \in T
  <2>1. 0 \in T
    <3>1. \A x \in D : ~(rank[x] < 0)
      BY <1>2
    <3> QED
      BY <3>1
  <2>2. ASSUME NEW i \in Nat, i \in T PROVE i + 1 \in T
    <3>1. i + 1 \in Nat
      OBVIOUS
    <3>2. ASSUME NEW x \in D, NEW j \in Nat, rank[x] < i + 1, i + 1 <= j, j <= N + 1
          PROVE  f[j][x] = f[i + 1][x]
      <4>1. /\ j \in 1 .. N + 1 /\ i + 1 \in 1 .. N + 1 /\ j - 1 \in Nat
            /\ i <= j - 1 /\ j - 1 <= N + 1 /\ (i + 1) - 1 = i
        BY <1>2, <3>2
      <4>2. CASE x \in stop
        BY <1>11, <4>1, <4>2, Zenon
      <4>3. CASE x \notin stop
        <5>1. succ[x] \in D /\ rank[succ[x]] < rank[x]
          BY <1>1, <1>2, <4>3, Zenon
        <5>2. rank[x] \in Int /\ rank[succ[x]] \in Int
          BY <1>2, <5>1
        <5>3. rank[succ[x]] < i
          BY <3>2, <5>1, <5>2
        <5>4. f[j - 1][succ[x]] = f[i][succ[x]]
          BY <2>2, <4>1, <5>1, <5>3, Zenon
        <5>5. f[j][x] = more[<<x, f[j - 1][succ[x]]>>]
          BY <1>11, <4>1, <4>3, Zenon
        <5>6. f[i + 1][x] = more[<<x, f[i][succ[x]]>>]
          BY <1>11, <4>1, <4>3, Zenon
        <5> QED
          BY <5>4, <5>5, <5>6, Zenon
      <4> QED
        BY <4>2, <4>3, Zenon
    <3> QED
      BY <3>1, <3>2, Zenon
  <2> HIDE DEF T
  <2> QED
    BY <2>1, <2>2, NatInduct, Zenon
<1> DEFINE g == f[N + 1]
<1>13. N + 1 \in 0 .. N + 1 /\ N + 1 \in 1 .. N + 1 /\ N <= N + 1 /\ N + 1 <= N + 1 /\ (N + 1) - 1 = N
  BY <1>2
<1>14. g \in F
  BY <1>9, <1>13, Zenon
<1>15. ASSUME NEW x \in D
       PROVE  g[x] = IF x \in stop THEN base[x] ELSE more[<<x, g[succ[x]]>>]
  <2>4. f[N + 1][x] = IF x \in stop THEN base[x] ELSE more[<<x, f[(N + 1) - 1][succ[x]]>>]
    <3> HIDE DEF g, T
    <3>1. N + 1 \in 1 .. N + 1
      BY <1>13, Zenon
    <3> QED
      BY <1>11, <3>1, Zenon
  <2>5. f[(N + 1) - 1] = f[N]
    BY <1>13, Zenon
  <2>1. g[x] = IF x \in stop THEN base[x] ELSE more[<<x, f[N][succ[x]]>>]
    BY <2>4, <2>5, Zenon
  <2>2. CASE x \in stop
    BY <2>1, <2>2, Zenon
  <2>3. CASE x \notin stop
    <3>1. succ[x] \in D /\ rank[succ[x]] < rank[x]
      BY <1>1, <1>2, <2>3, Zenon
    <3>2. rank[x] \in 0 .. N /\ rank[succ[x]] \in 0 .. N
      BY <1>2, <3>1, Zenon
    <3>3. rank[succ[x]] < N
      BY <1>2, <3>1, <3>2
    <3>4. f[N + 1][succ[x]] = f[N][succ[x]]
      BY <1>2, <1>5, <1>12, <1>13, <3>1, <3>3, Zenon
    <3> QED
      BY <2>1, <3>4, Zenon
  <2> QED
    BY <2>2, <2>3, Zenon
<1>16. IsValue(g, D, S, stop, succ, base, more)
  <2> HIDE DEF g
  <2> QED
    BY <1>14, <1>15, Zenon DEF IsValue, F
<1> QED
  BY <1>16, Zenon

-----------------------------------------------------------------------------
(* Skip lists: the pointers that follow from an order of the nodes.        *)

(* The header and the nodes in the order of the list: place 0 is the       *)
(* header's.                                                               *)
Stand(q, p) == IF p = 0 THEN Header ELSE q[p]

(* The number of levels of the node in place p.                            *)
Height(z, q, p) == z.node[q[p]].level

(* Place p is one of level i: the header's, or of a node that reaches it.  *)
Stands(z, q, p, i) == p \in 0 .. Len(q) /\ (p = 0 \/ Height(z, q, p) > i)

(* From place p the next on level i is in place e, behind the last place   *)
(* if there is none.                                                       *)
IsNext(z, q, p, i, e) ==
    /\ e \in p + 1 .. Len(q) + 1
    /\ e <= Len(q) => Height(z, q, e) > i
    /\ \A j \in p + 1 .. e - 1 : ~(Height(z, q, j) > i)

(* The nodes in use.                                                       *)
ZNode == [member : Member, score : Score, level : 1 .. MAXLEVEL]

(* Whatever has forward pointers.                                          *)
Place == Node \cup {Header}

(* The fields have their types, and q has the nodes in use.                *)
ZType(z, q) ==
    /\ z.node \in [Node -> ZNode \cup {Free}]
    /\ z.forward \in [Place -> [Levels -> Ptr]]
    /\ z.backward \in [Node -> Ptr] /\ z.tail \in Ptr
    /\ z.level \in 1 .. MAXLEVEL /\ z.length = Len(q)
    /\ q \in Seq(Node) /\ Distinct(q) /\ Range(q) = Used(z)

(* Every pointer leads to the next node in the order that reaches its      *)
(* level; the pointers of other nodes and levels are cleared.              *)
ZForward(z, q) ==
    /\ \A i \in Levels : \A p \in 0 .. Len(q) :
         Stands(z, q, p, i) =>
           \E e \in 1 .. Len(q) + 1 :
             IsNext(z, q, p, i, e) /\ z.forward[Stand(q, p)][i] = At(q, e)
    /\ \A i \in Levels : \A n \in Node :
         n \notin Used(z) \/ ~(z.node[n].level > i) => z.forward[n][i] = NULL

(* The place of every node and of the header.                              *)
IsPlaces(pos, q) ==
    /\ pos \in [Place -> 0 .. Len(q)]
    /\ \A p \in 0 .. Len(q) : pos[Stand(q, p)] = p

(* Every node of the list has one place.                                   *)
LEMMA PlacesOf ==
    ASSUME NEW q \in Seq(Node), Distinct(q)
    PROVE  \E pos : IsPlaces(pos, q)
<1> DEFINE N == Len(q)
           pos == [x \in Place |->
                     IF \E p \in 0 .. N : x = Stand(q, p)
                       THEN CHOOSE p \in 0 .. N : x = Stand(q, p) ELSE 0]
<1>1. N \in Nat /\ \A p \in 1 .. N : q[p] \in Node
  BY InRange, Zenon
<1>2. Header \notin Node
  BY SkipListAssumption, Zenon DEF Ptr
<1>3. 0 \in 0 .. N /\ \A p \in 0 .. N : p # 0 => p \in 1 .. N
  BY <1>1
<1>4. \A p \in 0 .. N : Stand(q, p) \in Place
  BY <1>1, <1>3, Zenon DEF Stand, Place
<1>5. ASSUME NEW p \in 0 .. N, NEW r \in 0 .. N, Stand(q, p) = Stand(q, r) PROVE p = r
  <2>1. p # 0 => p \in 1 .. N /\ q[p] \in Node /\ q[p] # Header
    BY <1>1, <1>2, <1>3, Zenon
  <2>2. r # 0 => r \in 1 .. N /\ q[r] \in Node /\ q[r] # Header
    BY <1>1, <1>2, <1>3, Zenon
  <2> QED
    BY <1>5, <2>1, <2>2, Zenon DEF Stand, Distinct
<1>6. pos \in [Place -> 0 .. N]
  BY <1>3, Zenon
<1>7. ASSUME NEW p \in 0 .. N PROVE pos[Stand(q, p)] = p
  BY <1>4, <1>5, Zenon
<1>8. IsPlaces(pos, q)
  BY <1>6, <1>7, Zenon DEF IsPlaces
<1> QED
  BY <1>8, Zenon

(* The places of the nodes in use, and their heights.                      *)
LEMMA ZFacts ==
    ASSUME NEW z, NEW q, ZType(z, q)
    PROVE  /\ Len(q) \in Nat /\ \A p \in 1 .. Len(q) : q[p] \in Node /\ q[p] \in Used(z)
           /\ \A x \in Used(z) : \E p \in 1 .. Len(q) : x = q[p]
           /\ \A p \in 1 .. Len(q) : z.node[q[p]] \in ZNode
           /\ \A p \in 1 .. Len(q) : Height(z, q, p) \in 1 .. MAXLEVEL
<1>1. /\ q \in Seq(Node) /\ Range(q) = Used(z)
      /\ z.node \in [Node -> ZNode \cup {Free}]
  BY Zenon DEF ZType
<1>2. /\ Len(q) \in Nat /\ \A p \in 1 .. Len(q) : q[p] \in Node /\ q[p] \in Used(z)
      /\ \A x \in Used(z) : \E p \in 1 .. Len(q) : x = q[p]
  <2>1. /\ Len(q) \in Nat /\ \A p \in 1 .. Len(q) : q[p] \in Node /\ q[p] \in Range(q)
        /\ \A x \in Range(q) : \E p \in 1 .. Len(q) : x = q[p]
    BY <1>1, InRange, Zenon
  <2> QED
    BY <1>1, <2>1, Zenon
<1>3. \A p \in 1 .. Len(q) : z.node[q[p]] \in ZNode
  BY <1>1, <1>2, Zenon DEF Used
<1>4. \A e \in ZNode : e.level \in 1 .. MAXLEVEL
  BY DEF ZNode
<1> QED
  BY <1>2, <1>3, <1>4, Zenon DEF Height

-----------------------------------------------------------------------------
(* The walks of zsl_insert and zsl_delete.                                 *)

(* A walk on level i from place p over nodes in skip ends in place e.      *)
Stops(z, q, skip, p, e, i) ==
    /\ Stands(z, q, e, i) /\ p <= e
    /\ \A j \in p + 1 .. e : Height(z, q, j) > i => q[j] \in skip
    /\ \A k \in 1 .. Len(q) : IsNext(z, q, e, i, k) => q[k] \notin skip

(* A walk whose next node is not skipped ends where it is.                 *)
LEMMA StopsHere ==
    ASSUME NEW z, NEW q, ZType(z, q), NEW skip, NEW i \in Levels, NEW p \in 0 .. Len(q),
           Stands(z, q, p, i), NEW e \in 1 .. Len(q) + 1, IsNext(z, q, p, i, e),
           e <= Len(q) => q[e] \notin skip
    PROVE  Stops(z, q, skip, p, p, i)
<1>1. Len(q) \in Nat
  BY ZFacts, Zenon
<1>2. ASSUME NEW k \in 1 .. Len(q), IsNext(z, q, p, i, k) PROVE k = e
  <2>1. /\ e \in p + 1 .. Len(q) + 1 /\ (e <= Len(q) => Height(z, q, e) > i)
        /\ \A j \in p + 1 .. e - 1 : ~(Height(z, q, j) > i)
    BY Zenon DEF IsNext
  <2>2. /\ k \in p + 1 .. Len(q) + 1 /\ Height(z, q, k) > i
        /\ \A j \in p + 1 .. k - 1 : ~(Height(z, q, j) > i)
    <3>1. k <= Len(q)
      BY <1>1
    <3> QED
      BY <1>2, <3>1, Zenon DEF IsNext
  <2>3. ~(k < e)
    BY <1>1, <2>1, <2>2
  <2>4. ~(e < k)
    <3>2. e \in p + 1 .. Len(q) + 1
      BY <2>1, Zenon
    <3>1. e < k => e <= Len(q) /\ e \in p + 1 .. k - 1
      BY <1>1, <3>2
    <3> QED
      BY <2>1, <2>2, <3>1, Zenon
  <2> QED
    BY <1>1, <2>3, <2>4
<1>3. ASSUME NEW k \in 1 .. Len(q), IsNext(z, q, p, i, k) PROVE q[k] \notin skip
  <2>1. k = e
    BY <1>2, <1>3, Zenon
  <2>2. e <= Len(q)
    BY <1>1, <2>1
  <2> QED
    BY <2>1, <2>2, Zenon
<1>4. p <= p /\ \A j \in p + 1 .. p : FALSE
  BY <1>1
<1> QED
  BY <1>3, <1>4, Zenon DEF Stops

(* A walk whose next node is skipped ends where the walk from there ends.  *)
LEMMA StopsBeyond ==
    ASSUME NEW z, NEW q, ZType(z, q), NEW skip, NEW i \in Levels, NEW p \in 0 .. Len(q),
           Stands(z, q, p, i), NEW e \in 1 .. Len(q) + 1, IsNext(z, q, p, i, e),
           e <= Len(q), q[e] \in skip, NEW f, Stops(z, q, skip, e, f, i)
    PROVE  Stops(z, q, skip, p, f, i)
<1>1. Len(q) \in Nat
  BY ZFacts, Zenon
<1>2. /\ e \in p + 1 .. Len(q) + 1
      /\ \A j \in p + 1 .. e - 1 : ~(Height(z, q, j) > i)
  BY Zenon DEF IsNext
<1>3. /\ Stands(z, q, f, i) /\ e <= f
      /\ \A j \in e + 1 .. f : Height(z, q, j) > i => q[j] \in skip
      /\ \A k \in 1 .. Len(q) : IsNext(z, q, f, i, k) => q[k] \notin skip
  BY Zenon DEF Stops
<1>4. f \in 0 .. Len(q)
  BY <1>3, Zenon DEF Stands
<1>5. p <= f
  BY <1>1, <1>2, <1>3, <1>4
<1>6. ASSUME NEW j \in p + 1 .. f, Height(z, q, j) > i PROVE q[j] \in skip
  <2>1. j < e => j \in p + 1 .. e - 1
    BY <1>1, <1>2, <1>4
  <2>2. ~(j < e) => j = e \/ j \in e + 1 .. f
    BY <1>1, <1>2, <1>4
  <2> QED
    BY <1>2, <1>3, <1>6, <2>1, <2>2, Zenon
<1> QED
  BY <1>3, <1>5, <1>6, Zenon DEF Stops

(* Walk ends, at the last node before the first that is not skipped on its *)
(* level.                                                                  *)
LEMMA WalkEnds ==
    ASSUME NEW z, NEW q, ZType(z, q), ZForward(z, q),
           NEW skip \in SUBSET Node, NEW i \in Levels, NEW p \in 0 .. Len(q),
           Stands(z, q, p, i)
    PROVE  \E e \in 0 .. Len(q) :
             Stops(z, q, skip, p, e, i) /\ Walk(z, Stand(q, p), i, skip) = Stand(q, e)
<1> DEFINE N == Len(q)
           F(f) == [y \in Place |-> IF z.forward[y][i] \in skip THEN f[z.forward[y][i]] ELSE y]
           w == CHOOSE f : f = F(f)
<1>1. Walk(z, Stand(q, p), i, skip) = w[Stand(q, p)]
  BY Zenon DEF Walk, Place
<1>2. /\ N \in Nat /\ \A j \in 1 .. N : q[j] \in Node /\ q[j] \in Used(z)
      /\ \A x \in Used(z) : \E j \in 1 .. N : x = q[j]
  BY ZFacts, Zenon
<1>3. q \in Seq(Node) /\ Distinct(q) /\ z.forward \in [Place -> [Levels -> Ptr]]
  BY Zenon DEF ZType
<1>4. PICK pos : IsPlaces(pos, q)
  BY <1>3, PlacesOf, Zenon
<1>5. pos \in [Place -> 0 .. N] /\ \A j \in 0 .. N : pos[Stand(q, j)] = j
  BY <1>4, Zenon DEF IsPlaces
<1>6. Node \subseteq Place /\ \A y \in Place : y \in Node \/ y = Header
  BY Zenon DEF Place
<1>7. \A y \in Place : z.forward[y][i] \in skip =>
        \E j \in 0 .. N : y = Stand(q, j) /\ Stands(z, q, j, i)
  <2> SUFFICES ASSUME NEW y \in Place, z.forward[y][i] \in skip
               PROVE  \E j \in 0 .. N : y = Stand(q, j) /\ Stands(z, q, j, i)
    BY Zenon
  <2>1. z.forward[y][i] # NULL
    BY NullIsNone, Zenon
  <2>2. CASE y = Header
    <3>1. 0 \in 0 .. N
      BY <1>2
    <3> QED
      BY <2>2, <3>1, Zenon DEF Stand, Stands
  <2>3. CASE y \in Node
    <3>1. y \in Used(z) /\ z.node[y].level > i
      BY <2>1, <2>3, Zenon DEF ZForward
    <3>2. PICK j \in 1 .. N : y = q[j]
      BY <1>2, <3>1, Zenon
    <3>3. j \in 0 .. N /\ j # 0
      BY <1>2
    <3> QED
      BY <3>1, <3>2, <3>3, Zenon DEF Stand, Stands, Height
  <2> QED
    BY <1>6, <2>2, <2>3, Zenon
<1>8. ASSUME NEW j \in 0 .. N, Stands(z, q, j, i)
      PROVE  \E e \in 1 .. N + 1 :
               /\ IsNext(z, q, j, i, e) /\ z.forward[Stand(q, j)][i] = At(q, e)
               /\ e > j /\ (e <= N => At(q, e) = Stand(q, e) /\ At(q, e) \in Node)
               /\ ~(e <= N) => At(q, e) = NULL
  <2>1. PICK e \in 1 .. N + 1 : IsNext(z, q, j, i, e) /\ z.forward[Stand(q, j)][i] = At(q, e)
    BY <1>8, Zenon DEF ZForward
  <2>2. e \in j + 1 .. N + 1
    BY <2>1, Zenon DEF IsNext
  <2>3. e > j /\ e # 0 /\ (e <= N => e \in 1 .. N) /\ (~(e <= N) => e \notin 1 .. N)
    BY <1>2, <2>2
  <2> QED
    BY <1>2, <2>1, <2>3, Zenon DEF At, Stand
<1> DEFINE stop == {y \in Place : z.forward[y][i] \notin skip}
           succ == [y \in Place |-> IF z.forward[y][i] \in skip THEN z.forward[y][i] ELSE y]
           base == [y \in Place |-> y]
           more == [c \in Place \X Place |-> c[2]]
           rank == [y \in Place |-> N - pos[y]]
<1>9. IsCall(Place, Place, stop, succ, base, more)
  <2>1. \A c \in Place \X Place : c[2] \in Place
    OBVIOUS
  <2>2. succ \in [Place -> Place]
    BY <1>6, Zenon
  <2>3. more \in [Place \X Place -> Place]
    BY <2>1, Zenon
  <2> QED
    BY <2>2, <2>3, Zenon DEF IsCall
<1>10. Falls(Place, stop, succ, rank, N)
  <2>1. \A y \in Place : N - pos[y] \in 0 .. N
    BY <1>2, <1>5
  <2>2. rank \in [Place -> 0 .. N]
    BY <2>1, Zenon
  <2>3. ASSUME NEW y \in Place \ stop PROVE rank[succ[y]] < rank[y]
    <3>1. y \in Place /\ z.forward[y][i] \in skip
      BY Zenon
    <3>2. succ[y] = z.forward[y][i] /\ succ[y] \in Place /\ succ[y] \in Node
      BY <1>6, <3>1, Zenon
    <3>3. PICK j \in 0 .. N : y = Stand(q, j) /\ Stands(z, q, j, i)
      BY <1>7, <3>1, Zenon
    <3>4. PICK e \in 1 .. N + 1 : /\ z.forward[y][i] = At(q, e) /\ e > j
                                  /\ e <= N => At(q, e) = Stand(q, e)
                                  /\ ~(e <= N) => At(q, e) = NULL
      BY <1>8, <3>3, Zenon
    <3>5. e <= N
      BY <3>2, <3>4, NullIsNone, Zenon
    <3>6. e \in 0 .. N
      BY <1>2, <3>5
    <3>7. pos[succ[y]] = e /\ pos[y] = j
      BY <1>5, <3>2, <3>3, <3>4, <3>5, <3>6, Zenon
    <3>8. rank[succ[y]] = N - e /\ rank[y] = N - j
      BY <3>1, <3>2, <3>7, Zenon
    <3> HIDE DEF rank, succ
    <3> QED
      BY <1>2, <3>4, <3>6, <3>8
  <2> HIDE DEF stop, succ, rank
  <2> QED
    BY <1>2, <2>2, <2>3, Zenon DEF Falls
<1>11. PICK f : IsValue(f, Place, Place, stop, succ, base, more)
  <2> HIDE DEF stop, succ, base, more, rank
  <2> QED
    BY <1>9, <1>10, Grounded, Zenon
<1>12. f \in [Place -> Place] /\ \A y \in Place :
         f[y] = IF y \in stop THEN base[y] ELSE more[<<y, f[succ[y]]>>]
  <2> HIDE DEF stop, succ, base, more
  <2> QED
    BY <1>11, Zenon DEF IsValue
<1>13. \A y \in Place : f[y] = IF z.forward[y][i] \in skip THEN f[z.forward[y][i]] ELSE y
  <2> SUFFICES ASSUME NEW y \in Place
               PROVE  f[y] = IF z.forward[y][i] \in skip THEN f[z.forward[y][i]] ELSE y
    BY Zenon
  <2>1. CASE z.forward[y][i] \in skip
    <3>1. y \notin stop /\ succ[y] = z.forward[y][i] /\ succ[y] \in Place
      BY <1>6, <2>1, Zenon
    <3>2. f[succ[y]] \in Place
      BY <1>12, <3>1, Zenon
    <3>3. <<y, f[succ[y]]>> \in Place \X Place
      BY <3>2, Zenon
    <3>4. more[<<y, f[succ[y]]>>] = <<y, f[succ[y]]>>[2]
      BY <3>3, Zenon
    <3>5. f[y] = f[succ[y]]
      <4> HIDE DEF stop, succ, more
      <4> QED
        BY <1>12, <3>1, <3>4
    <3> QED
      BY <2>1, <3>1, <3>5, Zenon
  <2>2. CASE z.forward[y][i] \notin skip
    BY <1>12, <2>2, Zenon
  <2> QED
    BY <2>1, <2>2, Zenon
<1> HIDE DEF stop, succ, base, more, rank
<1>14. f = F(f)
  BY <1>12, <1>13, Zenon
<1>15. w = F(w)
  <2> HIDE DEF F
  <2> QED
    BY <1>14, Zenon
<1>16. \A y \in Place : w[y] = IF z.forward[y][i] \in skip THEN w[z.forward[y][i]] ELSE y
  <2> HIDE DEF w
  <2> QED
    BY <1>15, Zenon
<1> HIDE DEF w, F
<1> DEFINE Good(j) == \E e \in 0 .. N : Stops(z, q, skip, j, e, i) /\ w[Stand(q, j)] = Stand(q, e)
           T == {d \in Nat : \A j \in 0 .. N : N - j < d /\ Stands(z, q, j, i) => Good(j)}
<1>17. ASSUME NEW d \in Nat, d \in T, NEW j \in 0 .. N, N - j < d + 1, Stands(z, q, j, i)
       PROVE  Good(j)
  <2>1. PICK e \in 1 .. N + 1 :
               /\ IsNext(z, q, j, i, e) /\ z.forward[Stand(q, j)][i] = At(q, e)
               /\ e > j /\ (e <= N => At(q, e) = Stand(q, e) /\ At(q, e) \in Node)
               /\ ~(e <= N) => At(q, e) = NULL
    BY <1>8, <1>17, Zenon
  <2>2. Stand(q, j) \in Place
    <3>1. j # 0 => j \in 1 .. N
      BY <1>2
    <3> QED
      BY <1>2, <3>1, Zenon DEF Stand, Place
  <2>3. CASE e <= N /\ At(q, e) \in skip
    <3>1. e \in 0 .. N /\ N - e < d /\ e \in 1 .. N /\ e # 0
      BY <1>2, <1>17, <2>1, <2>3
    <3>2. Stands(z, q, e, i) /\ At(q, e) = q[e]
      BY <2>1, <2>3, <3>1, Zenon DEF IsNext, Stands, At
    <3>3. Good(e)
      BY <1>17, <3>1, <3>2, Zenon
    <3>4. PICK g \in 0 .. N : Stops(z, q, skip, e, g, i) /\ w[Stand(q, e)] = Stand(q, g)
      BY <3>3, Zenon
    <3>5. Stops(z, q, skip, j, g, i)
      <4>1. q[e] \in skip
        BY <2>3, <3>2, Zenon
      <4> QED
        BY <1>17, <2>1, <2>3, <3>4, <4>1, StopsBeyond, Zenon
    <3>6. w[Stand(q, j)] = Stand(q, g)
      <4>1. z.forward[Stand(q, j)][i] = Stand(q, e) /\ z.forward[Stand(q, j)][i] \in skip
        BY <2>1, <2>3, Zenon
      <4>2. w[Stand(q, j)] = w[z.forward[Stand(q, j)][i]]
        BY <1>16, <2>2, <4>1, Zenon
      <4> QED
        BY <3>4, <4>1, <4>2, Zenon
    <3> QED
      BY <3>5, <3>6, Zenon
  <2>4. CASE ~(e <= N /\ At(q, e) \in skip)
    <3>1. At(q, e) \notin skip
      BY <2>1, <2>4, NullIsNone, Zenon
    <3>2. e <= N => q[e] \notin skip
      <4>1. e <= N => e \in 1 .. N
        BY <1>2
      <4> QED
        BY <3>1, <4>1, Zenon DEF At
    <3>3. Stops(z, q, skip, j, j, i)
      BY <1>17, <2>1, <3>2, StopsHere, Zenon
    <3>4. w[Stand(q, j)] = Stand(q, j)
      BY <1>16, <2>1, <2>2, <3>1, Zenon
    <3> QED
      BY <3>3, <3>4, Zenon
  <2> QED
    BY <2>3, <2>4, Zenon
<1>18. 0 \in T
  <2>1. \A j \in 0 .. N : ~(N - j < 0)
    BY <1>2
  <2> QED
    BY <2>1
<1>19. ASSUME NEW d \in Nat, d \in T PROVE d + 1 \in T
  <2>1. d + 1 \in Nat
    OBVIOUS
  <2>2. \A j \in 0 .. N : N - j < d + 1 /\ Stands(z, q, j, i) => Good(j)
    <3> HIDE DEF T, Good
    <3> QED
      BY <1>17, <1>19, Zenon
  <2> QED
    BY <2>1, <2>2, Zenon
<1>20. \A d \in Nat : d \in T
  <2> HIDE DEF T
  <2> QED
    BY <1>18, <1>19, NatInduct, Zenon
<1>21. N + 1 \in Nat /\ N - p < N + 1
  BY <1>2
<1>22. Good(p)
  <2>1. N + 1 \in T
    BY <1>20, <1>21, Zenon
  <2> QED
    BY <1>21, <2>1, Zenon
<1> QED
  BY <1>1, <1>22, Zenon

(* The places P[i] in which the walks of Update end.                       *)
IsUpdate(P, z, q, skip) ==
    /\ P \in [0 .. z.level -> 0 .. Len(q)] /\ P[z.level] = 0
    /\ \A i \in 0 .. z.level - 1 : /\ Stops(z, q, skip, P[i + 1], P[i], i)
                                   /\ Update(z, skip)[i] = Stand(q, P[i])

(* The levels in use are levels.                                           *)
LEMMA LevelFacts ==
    ASSUME NEW z, NEW q, ZType(z, q)
    PROVE  /\ z.level \in Nat /\ z.level >= 1 /\ MAXLEVEL \in Nat /\ z.level <= MAXLEVEL
           /\ \A i \in 0 .. z.level - 1 : i \in Levels
           /\ 0 \in Levels
<1>1. z.level \in 1 .. MAXLEVEL
  BY Zenon DEF ZType
<1>2. MAXLEVEL \in Nat /\ MAXLEVEL # 0
  BY SkipListAssumption
<1> QED
  BY <1>1, <1>2 DEF Levels

(* Every walk of Update ends, in some place of the list.                   *)
LEMMA UpdateEnds ==
    ASSUME NEW z, NEW q, ZType(z, q), ZForward(z, q), NEW skip \in SUBSET Node
    PROVE  \E P : IsUpdate(P, z, q, skip)
<1> DEFINE N == Len(q)
           L == z.level
           S == 0 .. N
           Moves(p, e, i) ==
             Stops(z, q, skip, p, e, i) /\ Walk(z, Stand(q, p), i, skip) = Stand(q, e)
           step == [c \in S \X (1 .. L) |->
                      IF Stands(z, q, c[1], L - c[2])
                        THEN CHOOSE e \in S : Moves(c[1], e, L - c[2]) ELSE 0]
           F(f) == [i \in 0 .. L - 1 |->
                      Walk(z, IF i = L - 1 THEN Header ELSE f[i + 1], i, skip)]
           u == CHOOSE f : f = F(f)
<1>1. Update(z, skip) = u
  BY Zenon DEF Update
<1>2. /\ L \in Nat /\ L >= 1 /\ N \in Nat /\ 0 \in S
      /\ \A k \in 1 .. L : L - k \in 0 .. L - 1 /\ L - k \in Levels
  <2>1. L \in Nat /\ L >= 1 /\ N \in Nat /\ \A i \in 0 .. L - 1 : i \in Levels
    BY LevelFacts, ZFacts, Zenon
  <2>2. 0 \in S /\ \A k \in 1 .. L : L - k \in 0 .. L - 1
    BY <2>1
  <2> QED
    BY <2>1, <2>2, Zenon
<1>3. ASSUME NEW p \in S, NEW k \in 1 .. L, Stands(z, q, p, L - k)
      PROVE  \E e \in S : Moves(p, e, L - k)
  <2>1. L - k \in Levels
    BY <1>2, Zenon
  <2>2. ASSUME NEW i \in Levels, Stands(z, q, p, i)
        PROVE  \E e \in 0 .. Len(q) :
                 Stops(z, q, skip, p, e, i) /\ Walk(z, Stand(q, p), i, skip) = Stand(q, e)
    <3>1. p \in 0 .. Len(q)
      OBVIOUS
    <3> QED
      BY <2>2, <3>1, WalkEnds
  <2>3. \A i \in Levels : Stands(z, q, p, i) => \E e \in S : Moves(p, e, i)
    BY <2>2, Zenon
  <2> HIDE DEF Moves, S
  <2> QED
    BY <1>3, <2>1, <2>3, Zenon
<1> HIDE DEF Moves
<1>4. step \in [S \X (1 .. L) -> S]
  <2> SUFFICES ASSUME NEW c \in S \X (1 .. L)
               PROVE  (IF Stands(z, q, c[1], L - c[2])
                         THEN CHOOSE e \in S : Moves(c[1], e, L - c[2]) ELSE 0) \in S
    BY Zenon
  <2>1. c[1] \in S /\ c[2] \in 1 .. L
    OBVIOUS
  <2>2. CASE Stands(z, q, c[1], L - c[2])
    BY <1>3, <2>1, <2>2, Zenon
  <2> QED
    BY <1>2, <2>2, Zenon
<1>5. IsStep(step, 0, L, S)
  <2> HIDE DEF step, S
  <2> QED
    BY <1>2, <1>4, Zenon DEF IsStep
<1>6. PICK Q : IsRun(Q, step, 0, L, S)
  <2> HIDE DEF step, S
  <2> QED
    BY <1>5, Recursion, Zenon
<1>7. /\ Q \in [0 .. L -> S] /\ Q[0] = 0
      /\ \A k \in 1 .. L : Q[k] = step[<<Q[k - 1], k>>]
  BY <1>6, Zenon DEF IsRun
<1>8. ASSUME NEW k \in 1 .. L, Stands(z, q, Q[k - 1], L - k)
      PROVE  Moves(Q[k - 1], Q[k], L - k)
  <2>1. Q[k - 1] \in S
    <3>1. k - 1 \in 0 .. L
      BY <1>2
    <3> QED
      BY <1>7, <3>1, Zenon
  <2> DEFINE c == <<Q[k - 1], k>>
  <2>2. c \in S \X (1 .. L) /\ c[1] = Q[k - 1] /\ c[2] = k
    BY <2>1
  <2>3. Q[k] = step[c]
    BY <1>7, Zenon
  <2> HIDE DEF c
  <2>4. step[c] = CHOOSE e \in S : Moves(c[1], e, L - c[2])
    BY <1>8, <2>2, Zenon
  <2>5. \E e \in S : Moves(Q[k - 1], e, L - k)
    BY <1>3, <1>8, <2>1, Zenon
  <2> QED
    BY <2>2, <2>3, <2>4, <2>5, Zenon
<1> HIDE DEF step
<1> DEFINE T == {k \in Nat : k + 1 <= L => Moves(Q[k], Q[k + 1], L - (k + 1))}
<1>9. \A k \in Nat : k \in T
  <2>1. 0 \in T
    <3>1. 1 \in 1 .. L /\ 1 - 1 = 0 /\ 0 + 1 = 1
      BY <1>2
    <3>2. Stands(z, q, Q[0], L - 1)
      BY <1>2, <1>7, Zenon DEF Stands
    <3>3. Moves(Q[0], Q[1], L - 1)
      BY <1>8, <3>1, <3>2, Zenon
    <3> QED
      BY <3>1, <3>3, Zenon
  <2>2. ASSUME NEW k \in Nat, k \in T PROVE k + 1 \in T
    <3>1. k + 1 \in Nat
      OBVIOUS
    <3>2. ASSUME (k + 1) + 1 <= L PROVE Moves(Q[k + 1], Q[(k + 1) + 1], L - ((k + 1) + 1))
      <4>1. /\ (k + 1) + 1 \in 1 .. L /\ ((k + 1) + 1) - 1 = k + 1 /\ k + 1 <= L
            /\ L - (k + 1) \in Int /\ L - ((k + 1) + 1) = (L - (k + 1)) - 1
        BY <1>2, <3>2
      <4>2. Moves(Q[k], Q[k + 1], L - (k + 1))
        BY <2>2, <4>1, Zenon
      <4>3. Stands(z, q, Q[k + 1], L - (k + 1))
        BY <4>2, Zenon DEF Moves, Stops
      <4>4. Q[k + 1] \in 0 .. N /\ (Q[k + 1] # 0 => Q[k + 1] \in 1 .. N)
        <5>1. Q[k + 1] \in 0 .. N
          BY <4>3, Zenon DEF Stands
        <5> QED
          BY <1>2, <5>1
      <4>5. Q[k + 1] # 0 => Height(z, q, Q[k + 1]) \in 1 .. MAXLEVEL
        BY <4>4, ZFacts, Zenon
      <4>6. Q[k + 1] # 0 => Height(z, q, Q[k + 1]) > L - (k + 1)
        BY <4>3, Zenon DEF Stands
      <4>7. Q[k + 1] # 0 => Height(z, q, Q[k + 1]) > L - ((k + 1) + 1)
        BY <4>1, <4>5, <4>6
      <4>8. Stands(z, q, Q[k + 1], L - ((k + 1) + 1))
        BY <4>4, <4>7, Zenon DEF Stands
      <4> QED
        BY <1>8, <4>1, <4>8, Zenon
    <3> QED
      BY <3>1, <3>2, Zenon
  <2> HIDE DEF T
  <2> QED
    BY <2>1, <2>2, NatInduct, Zenon
<1>10. ASSUME NEW i \in 0 .. L - 1
       PROVE  /\ L - i \in 1 .. L /\ L - i \in 0 .. L /\ (L - i) - 1 \in 0 .. L
              /\ Moves(Q[(L - i) - 1], Q[L - i], i)
  <2>1. /\ L - i \in 1 .. L /\ L - i \in 0 .. L /\ (L - i) - 1 \in 0 .. L
        /\ (L - i) - 1 \in Nat /\ ((L - i) - 1) + 1 = L - i /\ L - i <= L /\ L - (L - i) = i
    BY <1>2
  <2>2. (L - i) - 1 \in T
    BY <1>9, <2>1, Zenon
  <2> QED
    BY <2>1, <2>2, Zenon
<1> HIDE DEF T
<1> DEFINE P == [i \in 0 .. L |-> Q[L - i]]
           f == [i \in 0 .. L - 1 |-> Stand(q, P[i])]
<1>11. P \in [0 .. L -> S] /\ P[L] = 0
  <2>1. \A i \in 0 .. L : L - i \in 0 .. L
    BY <1>2
  <2>2. L \in 0 .. L /\ L - L = 0
    BY <1>2
  <2> QED
    BY <1>7, <2>1, <2>2, Zenon
<1>12. ASSUME NEW i \in 0 .. L - 1
       PROVE  Moves(P[i + 1], P[i], i) /\ P[L] = 0 /\ i + 1 \in 0 .. L
  <2>1. i \in 0 .. L /\ i + 1 \in 0 .. L /\ L - (i + 1) = (L - i) - 1
    BY <1>2
  <2> QED
    BY <1>10, <1>11, <2>1, Zenon
<1> HIDE DEF P
<1>13. ASSUME NEW i \in 0 .. L - 1
       PROVE  f[i] = Walk(z, IF i = L - 1 THEN Header ELSE f[i + 1], i, skip)
  <2>1. f[i] = Stand(q, P[i]) /\ Walk(z, Stand(q, P[i + 1]), i, skip) = Stand(q, P[i])
    BY <1>12, Zenon DEF Moves
  <2>2. CASE i = L - 1
    <3>1. i + 1 = L
      BY <1>2, <2>2
    <3> QED
      BY <1>11, <2>1, <2>2, <3>1, Zenon DEF Stand
  <2>3. CASE i # L - 1
    <3>1. i + 1 \in 0 .. L - 1
      BY <1>2, <2>3
    <3> QED
      BY <2>1, <2>3, <3>1, Zenon
  <2> QED
    BY <2>2, <2>3, Zenon
<1>14. f = F(f)
  BY <1>13, Zenon
<1>15. u = F(u)
  <2> HIDE DEF F, f
  <2> QED
    BY <1>14, Zenon
<1>16. \A i \in 0 .. L - 1 : u[i] = Walk(z, IF i = L - 1 THEN Header ELSE u[i + 1], i, skip)
  <2> HIDE DEF u
  <2> QED
    BY <1>15, Zenon
<1> HIDE DEF u, F, f
<1> DEFINE V == {k \in Nat : k + 1 <= L => u[L - (k + 1)] = Stand(q, P[L - (k + 1)])}
<1>17. ASSUME NEW k \in Nat, (k + 1) + 1 <= L, u[L - (k + 1)] = Stand(q, P[L - (k + 1)])
       PROVE  u[L - ((k + 1) + 1)] = Stand(q, P[L - ((k + 1) + 1)])
  <2> DEFINE i == L - ((k + 1) + 1)
  <2>1. i \in 0 .. L - 1 /\ i # L - 1 /\ i + 1 = L - (k + 1)
    BY <1>2, <1>17
  <2> HIDE DEF i
  <2>2. u[i + 1] = Stand(q, P[i + 1])
    BY <1>17, <2>1, Zenon
  <2>3. u[i] = Walk(z, u[i + 1], i, skip)
    BY <1>16, <2>1, Zenon
  <2>4. u[i] = Stand(q, P[i])
    BY <1>12, <2>1, <2>2, <2>3, Zenon DEF Moves
  <2> QED
    BY <2>4, Zenon DEF i
<1>18. \A k \in Nat : k \in V
  <2>1. 0 \in V
    <3>1. L - 1 \in 0 .. L - 1 /\ (L - 1) + 1 = L /\ 0 + 1 = 1
      BY <1>2
    <3>2. u[L - 1] = Walk(z, Header, L - 1, skip)
      BY <1>16, <3>1, Zenon
    <3>3. Walk(z, Stand(q, P[(L - 1) + 1]), L - 1, skip) = Stand(q, P[L - 1])
      BY <1>12, <3>1, Zenon DEF Moves
    <3>4. Stand(q, P[(L - 1) + 1]) = Header
      BY <1>11, <3>1, Zenon DEF Stand
    <3>5. u[L - 1] = Stand(q, P[L - 1])
      BY <3>2, <3>3, <3>4, Zenon
    <3> QED
      BY <3>1, <3>5, Zenon
  <2>2. ASSUME NEW k \in Nat, k \in V PROVE k + 1 \in V
    <3>1. k + 1 \in Nat
      OBVIOUS
    <3>2. (k + 1) + 1 <= L => k + 1 <= L
      BY <1>2
    <3> QED
      BY <1>17, <2>2, <3>1, <3>2, Zenon
  <2> HIDE DEF V
  <2> QED
    BY <2>1, <2>2, NatInduct, Zenon
<1>19. ASSUME NEW i \in 0 .. L - 1 PROVE u[i] = Stand(q, P[i])
  <2>1. /\ (L - i) - 1 \in Nat /\ ((L - i) - 1) + 1 <= L
        /\ L - (((L - i) - 1) + 1) = i
    BY <1>2
  <2>2. (L - i) - 1 \in V
    BY <1>18, <2>1, Zenon
  <2> QED
    BY <2>1, <2>2, Zenon
<1>20. IsUpdate(P, z, q, skip)
  BY <1>1, <1>11, <1>12, <1>19, Zenon DEF IsUpdate, Moves
<1> QED
  BY <1>20, Zenon

-----------------------------------------------------------------------------
(* Orders with one node more or less, and the order of the list.           *)

(* r is q with n in place k.                                               *)
IsOpened(r, q, k, n) ==
    /\ r \in Seq(Node) /\ Len(r) = Len(q) + 1 /\ Distinct(r)
    /\ \A j \in 1 .. Len(r) : /\ j < k => r[j] = q[j]
                              /\ j = k => r[j] = n
                              /\ j > k => r[j] = q[j - 1]
    /\ Range(r) = Range(q) \cup {n}

(* There is room for n in place k.                                         *)
LEMMA Opened ==
    ASSUME NEW q \in Seq(Node), Distinct(q), NEW k \in 1 .. Len(q) + 1,
           NEW n \in Node \ Range(q)
    PROVE  \E r : IsOpened(r, q, k, n)
<1> DEFINE N == Len(q)
           r == [j \in 1 .. N + 1 |-> IF j < k THEN q[j] ELSE IF j = k THEN n ELSE q[j - 1]]
<1>1. /\ N \in Nat /\ \A i \in 1 .. N : q[i] \in Node /\ q[i] \in Range(q)
      /\ \A x \in Range(q) : \E i \in 1 .. N : x = q[i]
  BY InRange, Zenon
<1>2. \A j \in 1 .. N + 1 : /\ j < k => j \in 1 .. N
                            /\ ~(j < k) /\ j # k => j > k /\ j - 1 \in 1 .. N
                            /\ j > k => ~(j < k) /\ j # k
                            /\ j = k => ~(j < k)
  BY <1>1
<1>3. /\ \A j \in 1 .. N : j < k => j \in 1 .. N + 1
      /\ \A j \in 1 .. N : ~(j < k) => /\ j + 1 \in 1 .. N + 1 /\ j + 1 > k /\ (j + 1) - 1 = j
      /\ k \in 1 .. N + 1
  BY <1>1
<1>4. \A j \in 1 .. N + 1 : /\ j < k => r[j] = q[j]
                            /\ j = k => r[j] = n
                            /\ j > k => r[j] = q[j - 1]
  BY <1>2, Zenon
<1>5. \A j \in 1 .. N + 1 : r[j] \in Node
  BY <1>1, <1>2, <1>4, Zenon
<1>6. r \in [1 .. N + 1 -> Node]
  BY <1>5, Zenon
<1> HIDE DEF r
<1>7. r \in Seq(Node) /\ Len(r) = N + 1
  BY <1>1, <1>6
<1>8. \A x : x \in Range(r) => x \in Range(q) \cup {n}
  <2>1. \A x \in Range(r) : \E j \in 1 .. N + 1 : x = r[j]
    BY <1>7, InRange, Zenon
  <2>2. ASSUME NEW j \in 1 .. N + 1 PROVE r[j] \in Range(q) \cup {n}
    <3>1. CASE j < k
      BY <1>1, <1>2, <1>4, <3>1, Zenon
    <3>2. CASE j = k
      BY <1>4, <3>2, Zenon
    <3>3. CASE ~(j < k) /\ j # k
      BY <1>1, <1>2, <1>4, <3>3, Zenon
    <3> QED
      BY <3>1, <3>2, <3>3, Zenon
  <2> QED
    BY <2>1, <2>2, Zenon
<1>9. \A x : x \in Range(q) \cup {n} => x \in Range(r)
  <2>1. \A j \in 1 .. N + 1 : r[j] \in Range(r)
    BY <1>7, InRange, Zenon
  <2>2. n \in Range(r)
    BY <1>3, <1>4, <2>1, Zenon
  <2>3. ASSUME NEW i \in 1 .. N PROVE q[i] \in Range(r)
    BY <1>3, <1>4, <2>1, Zenon
  <2> QED
    BY <1>1, <2>2, <2>3, Zenon
<1>10. ASSUME NEW i \in 1 .. N + 1, NEW j \in 1 .. N + 1, r[i] = r[j] PROVE i = j
  <2>1. \A a \in 1 .. N + 1 : a # k =>
          \E b \in 1 .. N : r[a] = q[b] /\ (a < k => b = a) /\ (~(a < k) => b = a - 1)
    BY <1>2, <1>4, Zenon
  <2>5. \A a \in 1 .. N + 1 : a # k => r[a] # n
    BY <1>1, <2>1, Zenon
  <2>6. r[k] = n
    BY <1>3, <1>4, Zenon
  <2>2. CASE i = k
    BY <1>10, <2>2, <2>5, <2>6, Zenon
  <2>3. CASE j = k
    BY <1>10, <2>3, <2>5, <2>6, Zenon
  <2>4. CASE i # k /\ j # k
    <3>1. PICK a \in 1 .. N : r[i] = q[a] /\ (i < k => a = i) /\ (~(i < k) => a = i - 1)
      BY <2>1, <2>4, Zenon
    <3>2. PICK b \in 1 .. N : r[j] = q[b] /\ (j < k => b = j) /\ (~(j < k) => b = j - 1)
      BY <2>1, <2>4, Zenon
    <3>3. a = b
      BY <1>10, <3>1, <3>2, Zenon DEF Distinct
    <3> QED
      BY <1>1, <2>4, <3>1, <3>2, <3>3
  <2> QED
    BY <2>2, <2>3, <2>4, Zenon
<1>11. Distinct(r)
  BY <1>7, <1>10, Zenon DEF Distinct
<1>12. Range(r) = Range(q) \cup {n}
  BY <1>8, <1>9, Zenon
<1>13. IsOpened(r, q, k, n)
  BY <1>4, <1>7, <1>11, <1>12, Zenon DEF IsOpened
<1> QED
  BY <1>13, Zenon

(* r is q without what it has in place k.                                  *)
IsClosed(r, q, k) ==
    /\ r \in Seq(Node) /\ Len(r) = Len(q) - 1 /\ Distinct(r)
    /\ \A j \in 1 .. Len(r) : /\ j < k => r[j] = q[j]
                              /\ ~(j < k) => r[j] = q[j + 1]
    /\ Range(r) = Range(q) \ {q[k]}

(* The list closes over place k.                                           *)
LEMMA Closed ==
    ASSUME NEW q \in Seq(Node), Distinct(q), NEW k \in 1 .. Len(q)
    PROVE  \E r : IsClosed(r, q, k)
<1> DEFINE N == Len(q)
           r == [j \in 1 .. N - 1 |-> IF j < k THEN q[j] ELSE q[j + 1]]
<1>1. /\ N \in Nat /\ \A i \in 1 .. N : q[i] \in Node /\ q[i] \in Range(q)
      /\ \A x \in Range(q) : \E i \in 1 .. N : x = q[i]
  BY InRange, Zenon
<1>2. \A j \in 1 .. N - 1 : j \in 1 .. N /\ j + 1 \in 1 .. N /\ (j < k => j # k) /\ (~(j < k) => j + 1 # k)
  BY <1>1
<1>3. /\ \A j \in 1 .. N : j < k => j \in 1 .. N - 1
      /\ \A j \in 1 .. N : ~(j < k) /\ j # k => j - 1 \in 1 .. N - 1 /\ ~(j - 1 < k) /\ (j - 1) + 1 = j
  BY <1>1
<1>4. \A j \in 1 .. N - 1 : /\ j < k => r[j] = q[j]
                            /\ ~(j < k) => r[j] = q[j + 1]
  BY Zenon
<1>5. \A j \in 1 .. N - 1 : r[j] \in Node
  BY <1>1, <1>2, <1>4, Zenon
<1>6. r \in [1 .. N - 1 -> Node]
  BY <1>5, Zenon
<1> HIDE DEF r
<1>7. r \in Seq(Node) /\ Len(r) = N - 1
  <2>1. N - 1 \in Nat
    BY <1>1
  <2> QED
    BY <1>6, <2>1
<1>8. \A j \in 1 .. N - 1 : \E b \in 1 .. N :
        r[j] = q[b] /\ b # k /\ (j < k => b = j) /\ (~(j < k) => b = j + 1)
  BY <1>2, <1>4, Zenon
<1>9. \A x : x \in Range(r) => x \in Range(q) \ {q[k]}
  <2>1. \A x \in Range(r) : \E j \in 1 .. N - 1 : x = r[j]
    BY <1>7, InRange, Zenon
  <2>2. \A b \in 1 .. N : b # k => q[b] # q[k]
    BY Zenon DEF Distinct
  <2>3. ASSUME NEW j \in 1 .. N - 1 PROVE r[j] \in Range(q) \ {q[k]}
    <3>1. PICK b \in 1 .. N : r[j] = q[b] /\ b # k
      BY <1>8, Zenon
    <3> QED
      BY <1>1, <2>2, <3>1, Zenon
  <2> QED
    BY <2>1, <2>3, Zenon
<1>10. \A x : x \in Range(q) \ {q[k]} => x \in Range(r)
  <2>1. \A j \in 1 .. N - 1 : r[j] \in Range(r)
    BY <1>7, InRange, Zenon
  <2>2. ASSUME NEW i \in 1 .. N, i # k PROVE q[i] \in Range(r)
    <3>1. CASE i < k
      BY <1>3, <1>4, <2>1, <3>1, Zenon
    <3>2. CASE ~(i < k)
      <4>1. i - 1 \in 1 .. N - 1 /\ ~(i - 1 < k) /\ (i - 1) + 1 = i
        BY <1>3, <2>2, <3>2, Zenon
      <4>2. r[i - 1] = q[(i - 1) + 1]
        BY <1>4, <4>1, Zenon
      <4> QED
        BY <2>1, <4>1, <4>2, Zenon
    <3> QED
      BY <3>1, <3>2, Zenon
  <2> QED
    BY <1>1, <2>2, Zenon
<1>11. ASSUME NEW i \in 1 .. N - 1, NEW j \in 1 .. N - 1, r[i] = r[j] PROVE i = j
  <2>1. PICK a \in 1 .. N : r[i] = q[a] /\ (i < k => a = i) /\ (~(i < k) => a = i + 1)
    BY <1>8, Zenon
  <2>2. PICK b \in 1 .. N : r[j] = q[b] /\ (j < k => b = j) /\ (~(j < k) => b = j + 1)
    BY <1>8, Zenon
  <2>3. a = b
    BY <1>11, <2>1, <2>2, Zenon DEF Distinct
  <2> QED
    BY <1>1, <2>1, <2>2, <2>3
<1>12. Distinct(r)
  BY <1>7, <1>11, Zenon DEF Distinct
<1>13. Range(r) = Range(q) \ {q[k]}
  BY <1>9, <1>10, Zenon
<1>14. IsClosed(r, q, k)
  BY <1>4, <1>7, <1>12, <1>13, Zenon DEF IsClosed
<1> QED
  BY <1>14, Zenon

(* What holds of the places below k of one walk holds of all walks after.  *)
LEMMA StaysBelow ==
    ASSUME NEW z, NEW q, ZType(z, q), NEW skip, NEW P, IsUpdate(P, z, q, skip),
           NEW k \in Nat, NEW top \in 0 .. z.level, P[top] < k,
           \A i \in 0 .. top - 1 : \A a, e \in 0 .. Len(q) :
             Stops(z, q, skip, a, e, i) /\ a < k => e < k
    PROVE  \A i \in 0 .. top : P[i] < k
<1>1. z.level \in Nat /\ top \in Nat /\ top <= z.level
  <2>1. z.level \in Nat
    BY LevelFacts, Zenon
  <2> QED
    BY <2>1
<1>2. /\ P \in [0 .. z.level -> 0 .. Len(q)]
      /\ \A i \in 0 .. z.level - 1 : Stops(z, q, skip, P[i + 1], P[i], i)
  BY Zenon DEF IsUpdate
<1> DEFINE T == {d \in Nat : d <= top => P[top - d] < k}
<1>3. 0 \in T
  <2>1. top - 0 = top
    BY <1>1
  <2> QED
    BY <2>1, Zenon
<1>4. ASSUME NEW d \in Nat, d \in T PROVE d + 1 \in T
  <2> DEFINE i == top - (d + 1)
  <2>1. d + 1 \in Nat
    OBVIOUS
  <2>2. ASSUME d + 1 <= top PROVE P[i] < k
    <3>1. /\ i \in 0 .. top - 1 /\ i \in 0 .. z.level - 1 /\ i + 1 = top - d /\ d <= top
          /\ i \in 0 .. z.level /\ i + 1 \in 0 .. z.level
      BY <1>1, <2>2
    <3>2. P[i + 1] < k
      BY <1>4, <3>1, Zenon
    <3> HIDE DEF i
    <3>3. Stops(z, q, skip, P[i + 1], P[i], i) /\ P[i] \in 0 .. Len(q) /\ P[i + 1] \in 0 .. Len(q)
      BY <1>2, <3>1, Zenon
    <3> QED
      BY <3>1, <3>2, <3>3, Zenon
  <2> QED
    BY <2>1, <2>2, Zenon
<1>5. \A d \in Nat : d \in T
  <2> HIDE DEF T
  <2> QED
    BY <1>3, <1>4, NatInduct, Zenon
<1>6. ASSUME NEW i \in 0 .. top PROVE P[i] < k
  <2>1. top - i \in Nat /\ top - i <= top /\ top - (top - i) = i
    BY <1>1
  <2>2. top - i \in T
    BY <1>5, <2>1, Zenon
  <2> QED
    BY <2>1, <2>2, Zenon
<1> QED
  BY <1>6, Zenon

-----------------------------------------------------------------------------
(* zsl_insert.                                                             *)

(* The backward pointers lead through the order in reverse, from the tail. *)
ZBack(z, q) ==
    /\ \A j \in 1 .. Len(q) : z.backward[q[j]] = At(q, j - 1)
    /\ \A n \in Node \ Used(z) : z.backward[n] = NULL
    /\ z.tail = At(q, Len(q))

(* The order is the order of scores and members.                           *)
ZSorted(z, q) ==
    \A j, k \in 1 .. Len(q) :
      j < k => ~NodeBefore(z, q[k], z.node[q[j]].score, z.node[q[j]].member)

(* The list's level is the height of its tallest node.                     *)
ZLevel(z, q) ==
    /\ \A j \in 1 .. Len(q) : ~(Height(z, q, j) > z.level)
    /\ z.level = 1 \/ \E j \in 1 .. Len(q) : Height(z, q, j) = z.level

(* z is a skip list whose nodes are in the order q.                        *)
ZInv(z, q) == ZType(z, q) /\ ZForward(z, q) /\ ZBack(z, q) /\ ZSorted(z, q) /\ ZLevel(z, q)

(* The nodes that come before s and m are the first k - 1.                 *)
Parts(q, skip, k) ==
    k \in 1 .. Len(q) + 1 /\ \A j \in 1 .. Len(q) : q[j] \in skip <=> j < k

(* Scores and members of nodes in use are numbers.                         *)
LEMMA NodeInts ==
    ASSUME NEW z, NEW q, ZType(z, q)
    PROVE  \A j \in 1 .. Len(q) :
             /\ z.node[q[j]].score \in Int /\ z.node[q[j]].member \in Int
             /\ z.node[q[j]].score \in Score /\ z.node[q[j]].member \in Member
<1>1. \A j \in 1 .. Len(q) : z.node[q[j]] \in ZNode
  BY ZFacts, Zenon
<1>2. \A e \in ZNode : e.score \in Score /\ e.member \in Member
  BY DEF ZNode
<1>3. Score \subseteq Int /\ Member \subseteq Int
  BY ObjectsAssumption, Zenon
<1> QED
  BY <1>1, <1>2, <1>3, Zenon

(* What is not behind something that is before s and m is before them too. *)
LEMMA BeforeAll ==
    ASSUME NEW z, NEW a, NEW b, NEW s \in Int, NEW m \in Int,
           z.node[a].score \in Int, z.node[a].member \in Int,
           z.node[b].score \in Int, z.node[b].member \in Int,
           NodeBefore(z, a, s, m), ~NodeBefore(z, a, z.node[b].score, z.node[b].member)
    PROVE  NodeBefore(z, b, s, m)
<1> DEFINE t == z.node[a].score
           k == z.node[a].member
           u == z.node[b].score
           l == z.node[b].member
<1>1. t \in Int /\ k \in Int /\ u \in Int /\ l \in Int
  BY Zenon
<1>2. Before(t, k, s, m) /\ ~Before(t, k, u, l)
  BY Zenon DEF NodeBefore
<1>3. Before(u, l, s, m)
  <2> HIDE DEF t, k, u, l
  <2> QED
    BY ONLY <1>1, <1>2, s \in Int, m \in Int DEF Before
<1> QED
  BY <1>3, Zenon DEF NodeBefore

(* The nodes that come before a score and a member are a front part of the *)
(* order.                                                                  *)
LEMMA SkipParts ==
    ASSUME NEW z, NEW q, ZType(z, q), ZSorted(z, q), NEW s \in Score, NEW m \in Member
    PROVE  \E k : Parts(q, {n \in Used(z) : NodeBefore(z, n, s, m)}, k)
<1> DEFINE N == Len(q)
           B(j) == NodeBefore(z, q[j], s, m)
           T == {k \in Nat : k \in 1 .. N + 1 /\ (k <= N => ~B(k))}
<1>1. N \in Nat /\ \A j \in 1 .. N : q[j] \in Used(z)
  BY ZFacts, Zenon
<1>2. T \in SUBSET Nat /\ T # {}
  <2>1. N + 1 \in Nat /\ N + 1 \in 1 .. N + 1 /\ ~(N + 1 <= N)
    BY <1>1
  <2>2. N + 1 \in T
    BY <2>1, Zenon
  <2> QED
    BY <2>2, Zenon
<1>3. PICK k \in T : \A l \in T : k <= l
  <2> HIDE DEF T
  <2> QED
    BY <1>2, LeastNat, Zenon
<1>4. k \in 1 .. N + 1 /\ (k <= N => ~B(k))
  BY Zenon
<1>5. s \in Int /\ m \in Int
  BY ObjectsAssumption, Zenon
<1>6. ASSUME NEW j \in 1 .. N, j < k PROVE B(j)
  <2>1. j \in Nat /\ j \in 1 .. N + 1 /\ ~(k <= j)
    BY <1>1, <1>4, <1>6
  <2> QED
    BY <1>3, <2>1, Zenon
<1>7. ASSUME NEW j \in 1 .. N, B(j) PROVE j < k
  <2> SUFFICES ASSUME ~(j < k) PROVE FALSE
    BY Zenon
  <2>1. k \in 1 .. N /\ k <= N /\ (k = j \/ k < j)
    BY <1>1, <1>4
  <2>2. ~B(k)
    BY <1>4, <2>1, Zenon
  <2>3. k < j
    BY <1>7, <2>1, <2>2, Zenon
  <2>4. ~NodeBefore(z, q[j], z.node[q[k]].score, z.node[q[k]].member)
    BY <2>1, <2>3, Zenon DEF ZSorted
  <2>5. /\ z.node[q[j]].score \in Int /\ z.node[q[j]].member \in Int
        /\ z.node[q[k]].score \in Int /\ z.node[q[k]].member \in Int
    BY <2>1, NodeInts, Zenon
  <2>6. /\ NodeBefore(z, q[j], s, m)
        /\ ~NodeBefore(z, q[j], z.node[q[k]].score, z.node[q[k]].member)
    BY <1>7, <2>4, Zenon DEF NodeBefore
  <2>7. NodeBefore(z, q[k], s, m)
    BY ONLY <1>5, <2>5, <2>6, BeforeAll, Zenon
  <2> QED
    BY <2>2, <2>7, Zenon
<1>8. Parts(q, {n \in Used(z) : NodeBefore(z, n, s, m)}, k)
  BY <1>1, <1>4, <1>6, <1>7, Zenon DEF Parts
<1> QED
  BY <1>8, Zenon

(* The place of update[i].                                                 *)
Prec(P, z, i) == IF i < z.level THEN P[i] ELSE 0

(* It is the last on level i before place k.                               *)
IsPrec(z, q, p, i, k) ==
    /\ Stands(z, q, p, i) /\ p < k
    /\ \A j \in p + 1 .. k - 1 : ~(Height(z, q, j) > i)

(* The walks of zsl_insert end before place k.                             *)
LEMMA PrecBelow ==
    ASSUME NEW z, NEW q, ZType(z, q), NEW skip, NEW P, IsUpdate(P, z, q, skip),
           NEW k, Parts(q, skip, k)
    PROVE  \A i \in 0 .. z.level : P[i] < k
<1>1. Len(q) \in Nat /\ k \in 1 .. Len(q) + 1 /\ \A j \in 1 .. Len(q) : q[j] \in skip => j < k
  BY ZFacts, Zenon DEF Parts
<1>2. k \in Nat /\ 0 < k
  BY <1>1
<1>3. z.level \in Nat /\ z.level \in 0 .. z.level /\ P[z.level] = 0
  <2>1. z.level \in Nat
    BY LevelFacts, Zenon
  <2>2. z.level \in 0 .. z.level
    BY <2>1
  <2> QED
    BY <2>1, <2>2, Zenon DEF IsUpdate
<1>4. ASSUME NEW i \in 0 .. z.level - 1, NEW a \in 0 .. Len(q), NEW e \in 0 .. Len(q),
             Stops(z, q, skip, a, e, i), a < k
      PROVE  e < k
  <2>1. /\ a <= e /\ (e = 0 \/ Height(z, q, e) > i)
        /\ \A j \in a + 1 .. e : Height(z, q, j) > i => q[j] \in skip
    BY <1>4, Zenon DEF Stops, Stands
  <2>2. CASE e = 0
    BY <1>2, <2>2, Zenon
  <2>3. CASE e # 0 /\ a < e
    <3>1. e \in a + 1 .. e /\ e \in 1 .. Len(q)
      BY <1>1, <2>3
    <3> QED
      BY <1>1, <2>1, <2>3, <3>1, Zenon
  <2>4. CASE ~(a < e)
    BY <1>1, <1>4, <2>1, <2>4
  <2> QED
    BY <2>2, <2>3, <2>4, Zenon
<1>5. P[z.level] < k
  BY <1>2, <1>3, Zenon
<1> QED
  BY <1>2, <1>3, <1>4, <1>5, StaysBelow, Zenon

(* update[i] of zsl_insert is the last place on level i before the new     *)
(* node's.                                                                 *)
LEMMA PrecIs ==
    ASSUME NEW z, NEW q, ZInv(z, q), NEW skip, NEW P, IsUpdate(P, z, q, skip),
           NEW k, Parts(q, skip, k), NEW i \in Levels
    PROVE  IsPrec(z, q, Prec(P, z, i), i, k)
<1>1. ZType(z, q) /\ ZForward(z, q) /\ ZLevel(z, q)
  BY Zenon DEF ZInv
<1>2. Len(q) \in Nat /\ k \in 1 .. Len(q) + 1 /\ \A j \in 1 .. Len(q) : q[j] \in skip <=> j < k
  BY <1>1, ZFacts, Zenon DEF Parts
<1>3. i \in Nat /\ z.level \in Nat /\ k \in Nat /\ 0 < k /\ 0 \in 0 .. Len(q)
  <2>1. z.level \in Nat /\ MAXLEVEL \in Nat
    BY <1>1, LevelFacts, Zenon
  <2> QED
    BY <1>2, <2>1 DEF Levels
<1>4. CASE ~(i < z.level)
  <2>1. ASSUME NEW j \in 0 + 1 .. k - 1 PROVE ~(Height(z, q, j) > i)
    <3>1. j \in 1 .. Len(q)
      BY <1>2
    <3>2. ~(Height(z, q, j) > z.level) /\ Height(z, q, j) \in 1 .. MAXLEVEL
      BY <1>1, <3>1, ZFacts, Zenon DEF ZLevel
    <3> QED
      BY <1>3, <1>4, <3>2
  <2>2. Stands(z, q, 0, i)
    BY <1>3, Zenon DEF Stands
  <2> QED
    BY <1>3, <1>4, <2>1, <2>2, Zenon DEF IsPrec, Prec
<1>5. CASE i < z.level
  <2> DEFINE p == P[i]
  <2>1. i \in 0 .. z.level - 1 /\ i \in 0 .. z.level
    BY <1>3, <1>5
  <2>2. Stops(z, q, skip, P[i + 1], p, i)
    BY <2>1, Zenon DEF IsUpdate
  <2>3. p < k
    BY <1>1, <2>1, PrecBelow, Zenon
  <2> HIDE DEF p
  <2>4. /\ Stands(z, q, p, i) /\ p \in 0 .. Len(q)
        /\ \A l \in 1 .. Len(q) : IsNext(z, q, p, i, l) => q[l] \notin skip
    BY <2>2, Zenon DEF Stops, Stands
  <2>5. PICK e \in 1 .. Len(q) + 1 : IsNext(z, q, p, i, e)
    BY <1>1, <2>4, Zenon DEF ZForward
  <2>6. ~(e < k)
    <3>1. e < k => e \in 1 .. Len(q)
      BY <1>2
    <3> QED
      BY <1>2, <2>4, <2>5, <3>1, Zenon
  <2>7. \A j \in p + 1 .. e - 1 : ~(Height(z, q, j) > i)
    BY <2>5, Zenon DEF IsNext
  <2>8. \A j \in p + 1 .. k - 1 : j \in p + 1 .. e - 1
    BY <1>2, <2>4, <2>6
  <2>9. IsPrec(z, q, p, i, k)
    BY <2>3, <2>4, <2>7, <2>8, Zenon DEF IsPrec
  <2> QED
    BY <1>5, <2>9, Zenon DEF Prec, p
<1> QED
  BY <1>4, <1>5, Zenon

(* On level 0 every pointer leads to the next place.                       *)
LEMMA NextOnGround ==
    ASSUME NEW z, NEW q, ZType(z, q), ZForward(z, q), NEW p \in 0 .. Len(q)
    PROVE  z.forward[Stand(q, p)][0] = At(q, p + 1)
<1>1. Len(q) \in Nat /\ \A j \in 1 .. Len(q) : Height(z, q, j) \in 1 .. MAXLEVEL
  BY ZFacts, Zenon
<1>2. 0 \in Levels /\ MAXLEVEL \in Nat
  BY LevelFacts, Zenon
<1>3. \A j \in 1 .. Len(q) : Height(z, q, j) > 0
  BY <1>1, <1>2
<1>4. Stands(z, q, p, 0)
  <2>1. p # 0 => p \in 1 .. Len(q)
    BY <1>1
  <2> QED
    BY <1>3, <2>1, Zenon DEF Stands
<1>5. PICK e \in 1 .. Len(q) + 1 : IsNext(z, q, p, 0, e) /\ z.forward[Stand(q, p)][0] = At(q, e)
  BY <1>2, <1>4, Zenon DEF ZForward
<1>6. e \in p + 1 .. Len(q) + 1 /\ \A j \in p + 1 .. e - 1 : ~(Height(z, q, j) > 0)
  BY <1>5, Zenon DEF IsNext
<1>7. e = p + 1
  BY <1>1, <1>3, <1>6
<1> QED
  BY <1>5, <1>7, Zenon

(* The nodes that the walks of zsl_insert skip.                            *)
Skipped(z, s, m) == {n \in Used(z) : NodeBefore(z, n, s, m)}

(* w is z with a node n for m and s in place k of its order q, behind the  *)
(* place pr[i] on every level i below h.                                   *)
InsNode(w, z, q, n, k, s, m, h) ==
    /\ n \in Node \ Used(z) /\ k \in 1 .. Len(q) + 1
    /\ s \in Score /\ m \in Member /\ h \in 1 .. MAXLEVEL
    /\ w.node = [z.node EXCEPT ![n] = [member |-> m, score |-> s, level |-> h]]
    /\ w.length = z.length + 1 /\ w.level = IF h > z.level THEN h ELSE z.level

(* On every level below h the new node is linked between pr[i] and its     *)
(* successor.                                                              *)
InsForward(w, z, q, n, k, h, pr) ==
    /\ pr \in [Levels -> 0 .. Len(q)]
    /\ \A i \in Levels : IsPrec(z, q, pr[i], i, k)
    /\ w.forward \in [Place -> [Levels -> Ptr]]
    /\ \A x \in Place : \A i \in Levels :
         w.forward[x][i] = IF i < h /\ x = n THEN z.forward[Stand(q, pr[i])][i]
                           ELSE IF i < h /\ x = Stand(q, pr[i]) THEN n ELSE z.forward[x][i]

(* Backwards, the new node is linked between its neighbours on level 0.    *)
InsBack(w, z, q, n, k) ==
    /\ w.backward \in [Node -> Ptr]
    /\ \A x \in Node : w.backward[x] = IF x = n THEN At(q, k - 1)
                                       ELSE IF x = At(q, k) THEN n ELSE z.backward[x]
    /\ w.tail = IF k = Len(q) + 1 THEN n ELSE z.tail

(* w is z with the node n for s and m in place k.                          *)
IsInserted(w, z, q, n, k, s, m, h, pr) ==
    /\ Parts(q, Skipped(z, s, m), k)
    /\ InsNode(w, z, q, n, k, s, m, h)
    /\ InsForward(w, z, q, n, k, h, pr)
    /\ InsBack(w, z, q, n, k)

(* zsl_insert links a new node in the place that its score and member give *)
(* it.                                                                     *)
LEMMA Inserted ==
    ASSUME NEW z, NEW q, ZInv(z, q), Used(z) # Node,
           NEW s \in Score, NEW m \in Member, NEW h \in 1 .. MAXLEVEL
    PROVE  \E n, k, pr : IsInserted(zsl_insert(z, s, m, h), z, q, n, k, s, m, h, pr)
<1> DEFINE w == zsl_insert(z, s, m, h)
           skip == Skipped(z, s, m)
           u == Update(z, skip)
           up(i) == IF i < z.level THEN u[i] ELSE Header
           n == Calloc(Used(z))
           N == Len(q)
           succ == z.forward[up(0)][0]
           G(x, i) == IF i < h /\ x = n THEN z.forward[up(i)][i]
                      ELSE IF i < h /\ x = up(i) THEN n ELSE z.forward[x][i]
<1>1. ZType(z, q) /\ ZForward(z, q) /\ ZSorted(z, q)
  BY Zenon DEF ZInv
<1>2. PICK k : Parts(q, skip, k)
  BY <1>1, SkipParts, Zenon DEF Skipped
<1>3. skip \in SUBSET Node
  BY Zenon DEF Skipped, Used
<1>4. PICK P : IsUpdate(P, z, q, skip)
  <2> HIDE DEF skip
  <2> QED
    BY <1>1, <1>3, UpdateEnds, Zenon
<1> DEFINE pr == [i \in Levels |-> Prec(P, z, i)]
<1>5. n \in Node \ Used(z)
  <2>1. Node \ Used(z) # {}
    BY Zenon DEF Used
  <2> QED
    BY <2>1, CallocFree, Zenon
<1>6. k \in 1 .. N + 1 /\ N \in Nat /\ 0 \in Levels
  BY <1>1, <1>2, ZFacts, LevelFacts, Zenon DEF Parts
<1>7. /\ w.node = [z.node EXCEPT ![n] = [member |-> m, score |-> s, level |-> h]]
      /\ w.forward = [x \in Place |-> [i \in Levels |-> G(x, i)]]
      /\ w.backward = [x \in Node |->
           IF x = n THEN IF up(0) = Header THEN NULL ELSE up(0)
           ELSE IF x = succ THEN n ELSE z.backward[x]]
      /\ w.tail = NewTail(z, n, succ)
      /\ w.level = (IF h > z.level THEN h ELSE z.level)
      /\ w.length = z.length + 1
  BY Zenon DEF zsl_insert, Skipped, Place
<1> HIDE DEF w, skip, u, n, G
<1>8. \A i \in Levels : IsPrec(z, q, Prec(P, z, i), i, k)
  BY <1>2, <1>4, PrecIs, Zenon
<1>9. \A i \in Levels : Prec(P, z, i) \in 0 .. N
  BY <1>8, Zenon DEF IsPrec, Stands
<1>10. \A i \in Levels : up(i) = Stand(q, Prec(P, z, i))
  <2>1. \A i \in Levels : i < z.level => i \in 0 .. z.level - 1
    <3>1. z.level \in Nat /\ MAXLEVEL \in Nat
      BY <1>1, LevelFacts, Zenon
    <3> QED
      BY <3>1 DEF Levels
  <2> QED
    BY <1>4, <2>1, Zenon DEF IsUpdate, Prec, Stand, u
<1>11. Prec(P, z, 0) = k - 1
  <2>1. /\ Prec(P, z, 0) \in 0 .. N /\ Prec(P, z, 0) < k
        /\ \A j \in Prec(P, z, 0) + 1 .. k - 1 : ~(Height(z, q, j) > 0)
    BY <1>6, <1>8, <1>9, Zenon DEF IsPrec
  <2>2. \A j \in 1 .. N : Height(z, q, j) > 0
    <3>1. MAXLEVEL \in Nat /\ \A j \in 1 .. N : Height(z, q, j) \in 1 .. MAXLEVEL
      BY <1>1, LevelFacts, ZFacts, Zenon
    <3> QED
      BY <3>1
  <2> QED
    BY <1>6, <2>1, <2>2
<1>12. up(0) = Stand(q, k - 1)
  BY <1>6, <1>10, <1>11, Zenon
<1>13. succ = At(q, k)
  <2>1. k - 1 \in 0 .. N /\ (k - 1) + 1 = k
    BY <1>6
  <2>2. z.forward[Stand(q, k - 1)][0] = At(q, (k - 1) + 1)
    BY <1>1, <2>1, NextOnGround, Zenon
  <2> QED
    BY <1>12, <2>1, <2>2, Zenon
<1>14. (IF up(0) = Header THEN NULL ELSE up(0)) = At(q, k - 1)
  <2>1. CASE k = 1
    <3>1. k - 1 = 0 /\ ~(k - 1 \in 1 .. Len(q))
      BY <1>6, <2>1
    <3> QED
      BY <1>12, <3>1, Zenon DEF Stand, At
  <2>2. CASE k # 1
    <3>1. k - 1 \in 1 .. N /\ k - 1 # 0
      BY <1>6, <2>2
    <3>2. q[k - 1] # Header
      <4>1. q[k - 1] \in Ptr
        BY <1>1, <3>1, ZFacts, NullIsNone, Zenon
      <4> QED
        BY <4>1, SkipListAssumption, Zenon
    <3> QED
      BY <1>12, <3>1, <3>2, Zenon DEF Stand, At
  <2> QED
    BY <2>1, <2>2, Zenon
<1>15. (succ = NULL) <=> k = N + 1
  <2>1. k # N + 1 <=> k \in 1 .. N
    BY <1>6
  <2>2. k \in 1 .. N => q[k] # NULL
    BY <1>1, ZFacts, NullIsNone, Zenon
  <2>3. k \in 1 .. N => succ = q[k]
    BY <1>13, Zenon DEF At
  <2>4. ~(k \in 1 .. N) => succ = NULL
    BY <1>13, Zenon DEF At
  <2> HIDE DEF succ
  <2> QED
    BY <2>1, <2>2, <2>3, <2>4, Zenon
<1> HIDE DEF up, succ
<1>16. InsNode(w, z, q, n, k, s, m, h)
  BY <1>5, <1>6, <1>7, Zenon DEF InsNode
<1>17. InsForward(w, z, q, n, k, h, pr)
  <2>1. pr \in [Levels -> 0 .. Len(q)] /\ \A i \in Levels : pr[i] = Prec(P, z, i)
    BY <1>9, Zenon
  <2> HIDE DEF pr
  <2>2. \A x \in Place : \A i \in Levels : w.forward[x][i] = G(x, i)
    <3>1. \A x \in Place : w.forward[x] = [i \in Levels |-> G(x, i)]
      BY <1>7, Zenon
    <3> QED
      BY <3>1
  <2>3. \A i \in Levels : up(i) \in Place
    <3>1. \A p \in 0 .. N : p # 0 => p \in 1 .. N
      BY <1>6
    <3>2. \A p \in 0 .. N : Stand(q, p) \in Place
      BY <1>1, <3>1, ZFacts, Zenon DEF Stand, Place
    <3> QED
      BY <1>9, <1>10, <3>2, Zenon
  <2>4. \A x \in Place : \A i \in Levels : z.forward[x][i] \in Ptr
    BY <1>1, Zenon DEF ZType
  <2>5. n \in Ptr
    BY <1>5, NullIsNone, Zenon
  <2>6. \A x \in Place : \A i \in Levels : G(x, i) \in Ptr
    BY <2>3, <2>4, <2>5, Zenon DEF G
  <2>7. w.forward \in [Place -> [Levels -> Ptr]]
    <3>1. \A x \in Place : [i \in Levels |-> G(x, i)] \in [Levels -> Ptr]
      BY <2>6, Zenon
    <3> QED
      BY <1>7, <3>1, Zenon
  <2>8. \A i \in Levels : up(i) = Stand(q, pr[i]) /\ IsPrec(z, q, pr[i], i, k)
    BY <1>8, <1>10, <2>1, Zenon
  <2>9. \A x \in Place : \A i \in Levels :
          w.forward[x][i] = IF i < h /\ x = n THEN z.forward[Stand(q, pr[i])][i]
                            ELSE IF i < h /\ x = Stand(q, pr[i]) THEN n ELSE z.forward[x][i]
    <3> SUFFICES ASSUME NEW x \in Place, NEW i \in Levels
                 PROVE w.forward[x][i] = IF i < h /\ x = n THEN z.forward[Stand(q, pr[i])][i]
                            ELSE IF i < h /\ x = Stand(q, pr[i]) THEN n ELSE z.forward[x][i]
      BY Zenon
    <3>1. up(i) = Stand(q, pr[i])
      BY <2>8, Zenon
    <3> QED
      BY <2>2, <3>1, Zenon DEF G
  <2> QED
    BY <2>1, <2>7, <2>8, <2>9, Zenon DEF InsForward
<1>18. InsBack(w, z, q, n, k)
  <2>1. \A x \in Node : w.backward[x] = IF x = n THEN At(q, k - 1)
                                        ELSE IF x = At(q, k) THEN n ELSE z.backward[x]
    BY <1>7, <1>13, <1>14, Zenon
  <2>2. z.backward \in [Node -> Ptr] /\ n \in Ptr
    BY <1>1, <1>5, NullIsNone, Zenon DEF ZType
  <2>3. At(q, k - 1) \in Ptr
    BY <1>1, ZFacts, NullIsNone, Zenon DEF At
  <2>4. w.backward \in [Node -> Ptr]
    <3>1. \A x \in Node : (IF x = n THEN IF up(0) = Header THEN NULL ELSE up(0)
                           ELSE IF x = succ THEN n ELSE z.backward[x]) \in Ptr
      BY <1>14, <2>2, <2>3, Zenon
    <3> QED
      BY <1>7, <3>1, Zenon
  <2>5. w.tail = IF k = Len(q) + 1 THEN n ELSE z.tail
    BY <1>7, <1>15, Zenon DEF NewTail
  <2> QED
    BY <2>1, <2>4, <2>5, Zenon DEF InsBack
<1>19. IsInserted(w, z, q, n, k, s, m, h, pr)
  <2> HIDE DEF pr
  <2> QED
    BY <1>2, <1>16, <1>17, <1>18, Zenon DEF IsInserted, skip
<1> QED
  BY <1>19, Zenon DEF w

(* The new node's fields.                                                  *)
NewNode(s, m, h) == [member |-> m, score |-> s, level |-> h]

(* The nodes of w in the order r: those of z in the order q, and in place  *)
(* k the node new.                                                         *)
IsShifted(w, r, z, q, k, new) ==
    \A j \in 1 .. Len(q) + 1 : /\ j < k => w.node[r[j]] = z.node[q[j]] /\ j \in 1 .. Len(q)
                               /\ j = k => w.node[r[j]] = new
                               /\ j > k => w.node[r[j]] = z.node[q[j - 1]] /\ j - 1 \in 1 .. Len(q)

(* After zsl_insert the fields have their types, and the nodes their       *)
(* places.                                                                 *)
LEMMA InsType ==
    ASSUME NEW z, NEW q, ZType(z, q), NEW w, NEW n, NEW k, NEW s, NEW m, NEW h, NEW pr,
           IsInserted(w, z, q, n, k, s, m, h, pr), NEW r, IsOpened(r, q, k, n)
    PROVE  /\ ZType(w, r) /\ IsShifted(w, r, z, q, k, NewNode(s, m, h))
           /\ Used(w) = Used(z) \cup {n}
<1> DEFINE new == NewNode(s, m, h)
           N == Len(q)
<1>1. /\ n \in Node /\ n \notin Used(z) /\ k \in 1 .. N + 1
      /\ s \in Score /\ m \in Member /\ h \in 1 .. MAXLEVEL
      /\ w.node = [z.node EXCEPT ![n] = new]
      /\ w.length = z.length + 1 /\ w.level = IF h > z.level THEN h ELSE z.level
  BY Zenon DEF IsInserted, InsNode, NewNode
<1>2. w.forward \in [Place -> [Levels -> Ptr]] /\ w.backward \in [Node -> Ptr]
  BY Zenon DEF IsInserted, InsForward, InsBack
<1>3. w.tail \in Ptr
  BY <1>1, NullIsNone, Zenon DEF IsInserted, InsBack, ZType
<1>4. /\ z.node \in [Node -> ZNode \cup {Free}] /\ z.level \in 1 .. MAXLEVEL
      /\ z.length = N /\ Range(q) = Used(z)
  BY Zenon DEF ZType
<1>5. w.level \in 1 .. MAXLEVEL
  BY <1>1, <1>4, Zenon
<1>6. new \in ZNode /\ new # Free
  <2>1. new \in ZNode
    BY <1>1 DEF NewNode, ZNode
  <2> HIDE DEF new
  <2> QED
    BY <2>1, ObjectsAssumption, Zenon DEF ZNode
<1> HIDE DEF new
<1>7. /\ w.node \in [Node -> ZNode \cup {Free}] /\ w.node[n] = new
      /\ \A x \in Node : x # n => w.node[x] = z.node[x]
  BY <1>1, <1>4, <1>6, Zenon
<1>8. Used(w) = Used(z) \cup {n}
  <2>1. \A x \in Node : x # n => (x \in Used(w) <=> x \in Used(z))
    BY <1>7, Zenon DEF Used
  <2>2. n \in Used(w)
    BY <1>1, <1>6, <1>7, Zenon DEF Used
  <2>3. Used(w) \subseteq Node /\ Used(z) \subseteq Node
    BY Zenon DEF Used
  <2> QED
    BY <1>1, <2>1, <2>2, <2>3, Zenon
<1>9. /\ r \in Seq(Node) /\ Len(r) = N + 1 /\ Distinct(r) /\ Range(r) = Range(q) \cup {n}
      /\ \A j \in 1 .. N + 1 : /\ j < k => r[j] = q[j]
                               /\ j = k => r[j] = n
                               /\ j > k => r[j] = q[j - 1]
  BY Zenon DEF IsOpened
<1>10. ZType(w, r)
  BY <1>1, <1>2, <1>3, <1>4, <1>5, <1>7, <1>8, <1>9, Zenon DEF ZType
<1>11. N \in Nat /\ \A j \in 1 .. N : q[j] \in Node /\ q[j] # n
  <2>1. N \in Nat /\ \A j \in 1 .. N : q[j] \in Node /\ q[j] \in Used(z)
    BY ZFacts, Zenon
  <2> QED
    BY <1>1, <2>1
<1>12. \A j \in 1 .. N + 1 : (j < k => j \in 1 .. N) /\ (j > k => j - 1 \in 1 .. N)
  BY <1>1, <1>11
<1>13. IsShifted(w, r, z, q, k, new)
  <2>1. ASSUME NEW j \in 1 .. N + 1
        PROVE  /\ j < k => w.node[r[j]] = z.node[q[j]] /\ j \in 1 .. N
               /\ j = k => w.node[r[j]] = new
               /\ j > k => w.node[r[j]] = z.node[q[j - 1]] /\ j - 1 \in 1 .. N
    <3>1. CASE j < k
      <4>1. j \in 1 .. N /\ r[j] = q[j] /\ j # k /\ ~(j > k)
        BY <1>1, <1>9, <1>11, <1>12, <3>1
      <4>2. w.node[q[j]] = z.node[q[j]]
        BY <1>7, <1>11, <4>1, Zenon
      <4> QED
        BY <4>1, <4>2, Zenon
    <3>2. CASE j = k
      <4>1. r[j] = n /\ ~(j < k) /\ ~(j > k)
        BY <1>1, <1>9, <1>11, <3>2
      <4> QED
        BY <1>7, <4>1, Zenon
    <3>3. CASE j > k
      <4>1. j - 1 \in 1 .. N /\ r[j] = q[j - 1] /\ j # k /\ ~(j < k)
        BY <1>1, <1>9, <1>11, <1>12, <3>3
      <4>2. w.node[q[j - 1]] = z.node[q[j - 1]]
        BY <1>7, <1>11, <4>1, Zenon
      <4> QED
        BY <4>1, <4>2, Zenon
    <3> QED
      BY <3>1, <3>2, <3>3, Zenon
  <2> QED
    BY <2>1, Zenon DEF IsShifted
<1> QED
  BY <1>8, <1>10, <1>13, Zenon DEF new

(* The heights in the new order.                                           *)
Raised(w, r, z, q, k, h) ==
    \A j \in 1 .. Len(q) + 1 : /\ j < k => Height(w, r, j) = Height(z, q, j)
                               /\ j = k => Height(w, r, j) = h
                               /\ j > k => Height(w, r, j) = Height(z, q, j - 1)

(* After zsl_insert the heights are the old ones, with h in place k.       *)
LEMMA InsHeights ==
    ASSUME NEW w, NEW r, NEW z, NEW q, NEW k, NEW s, NEW m, NEW h,
           IsShifted(w, r, z, q, k, NewNode(s, m, h))
    PROVE  Raised(w, r, z, q, k, h)
<1>1. NewNode(s, m, h).level = h
  BY DEF NewNode
<1> QED
  BY <1>1, Zenon DEF Raised, IsShifted, Height

(* An old place in the new order.                                          *)
Later(e, k) == IF e < k THEN e ELSE e + 1

(* What was in place e is in place Later(e, k).                            *)
LEMMA LaterAt ==
    ASSUME NEW q, NEW r, NEW n, NEW k \in 1 .. Len(q) + 1, IsOpened(r, q, k, n), Len(q) \in Nat,
           NEW e \in 1 .. Len(q) + 1
    PROVE  At(r, Later(e, k)) = At(q, e)
<1>1. /\ Len(r) = Len(q) + 1
      /\ \A j \in 1 .. Len(r) : (j < k => r[j] = q[j]) /\ (j > k => r[j] = q[j - 1])
  BY Zenon DEF IsOpened
<1>2. CASE e < k
  <2>1. e \in 1 .. Len(r) /\ e \in 1 .. Len(q)
    BY <1>1, <1>2
  <2> QED
    BY <1>1, <1>2, <2>1, Zenon DEF Later, At
<1>3. CASE ~(e < k) /\ e <= Len(q)
  <2>1. e + 1 \in 1 .. Len(r) /\ e \in 1 .. Len(q) /\ (e + 1) - 1 = e /\ e + 1 > k
    BY <1>1, <1>3
  <2>2. r[e + 1] = q[(e + 1) - 1]
    BY <1>1, <2>1, Zenon
  <2> QED
    BY <1>3, <2>1, <2>2, Zenon DEF Later, At
<1>4. CASE ~(e < k) /\ ~(e <= Len(q))
  <2>1. ~(e + 1 \in 1 .. Len(r)) /\ ~(e \in 1 .. Len(q))
    BY <1>1, <1>4
  <2> QED
    BY <1>4, <2>1, Zenon DEF Later, At
<1> QED
  BY <1>2, <1>3, <1>4, Zenon

(* The next of the new node on level i is what was the next of the one     *)
(* before it.                                                              *)
LEMMA NextOfNew ==
    ASSUME NEW z, NEW q, NEW w, NEW r, NEW k \in 1 .. Len(q) + 1, NEW h, NEW i, NEW p, NEW e,
           Len(q) \in Nat, Len(r) = Len(q) + 1, Raised(w, r, z, q, k, h),
           IsPrec(z, q, p, i, k), IsNext(z, q, p, i, e)
    PROVE  Later(e, k) = e + 1 /\ IsNext(w, r, k, i, e + 1)
<1> DEFINE N == Len(q)
<1>1. /\ p \in 0 .. N /\ p < k /\ \A j \in p + 1 .. k - 1 : ~(Height(z, q, j) > i)
      /\ e \in p + 1 .. N + 1 /\ (e <= N => Height(z, q, e) > i)
      /\ \A j \in p + 1 .. e - 1 : ~(Height(z, q, j) > i)
  BY Zenon DEF IsPrec, IsNext, Stands
<1>2. \A j \in 1 .. N + 1 : j > k => Height(w, r, j) = Height(z, q, j - 1)
  BY Zenon DEF Raised
<1>3. ~(e < k)
  <2>1. e < k => e \in p + 1 .. k - 1 /\ e <= N
    BY <1>1
  <2> QED
    BY <1>1, <2>1, Zenon
<1>4. e + 1 \in k + 1 .. (N + 1) + 1
  BY <1>1, <1>3
<1>5. e + 1 <= N + 1 => Height(w, r, e + 1) > i
  <2> SUFFICES ASSUME e + 1 <= N + 1 PROVE Height(w, r, e + 1) > i
    BY Zenon
  <2>1. e <= N /\ e + 1 \in 1 .. N + 1 /\ e + 1 > k /\ (e + 1) - 1 = e
    BY <1>1, <1>3
  <2>2. Height(w, r, e + 1) = Height(z, q, (e + 1) - 1)
    BY <1>2, <2>1, Zenon
  <2> QED
    BY <1>1, <2>1, <2>2, Zenon
<1>6. ASSUME NEW j \in k + 1 .. (e + 1) - 1 PROVE ~(Height(w, r, j) > i)
  <2>1. j \in 1 .. N + 1 /\ j > k /\ j - 1 \in p + 1 .. e - 1
    BY <1>1, <1>3
  <2>2. Height(w, r, j) = Height(z, q, j - 1)
    BY <1>2, <2>1, Zenon
  <2> QED
    BY <1>1, <2>1, <2>2, Zenon
<1>7. IsNext(w, r, k, i, e + 1)
  BY <1>4, <1>5, <1>6, Zenon DEF IsNext
<1> QED
  BY <1>3, <1>7, Zenon DEF Later

(* The next of the place before the new node is the new node, on the       *)
(* levels that it has.                                                     *)
LEMMA NextIsNew ==
    ASSUME NEW z, NEW q, NEW w, NEW r, NEW k \in 1 .. Len(q) + 1, NEW h, NEW i, NEW p,
           Len(q) \in Nat, Len(r) = Len(q) + 1, Raised(w, r, z, q, k, h),
           IsPrec(z, q, p, i, k), h > i
    PROVE  IsNext(w, r, p, i, k)
<1> DEFINE N == Len(q)
<1>1. /\ p \in 0 .. N /\ p < k /\ \A j \in p + 1 .. k - 1 : ~(Height(z, q, j) > i)
  BY Zenon DEF IsPrec, Stands
<1>2. k \in p + 1 .. (N + 1) + 1 /\ \A j \in p + 1 .. k - 1 : j \in 1 .. N + 1 /\ j < k
  BY <1>1
<1>3. \A j \in 1 .. N + 1 : (j < k => Height(w, r, j) = Height(z, q, j))
                            /\ (j = k => Height(w, r, j) = h)
  BY Zenon DEF Raised
<1>4. \A j \in p + 1 .. k - 1 : ~(Height(w, r, j) > i)
  BY <1>1, <1>2, <1>3, Zenon
<1> QED
  BY <1>2, <1>3, <1>4, Zenon DEF IsNext

(* For every other place the next is what it was.                          *)
LEMMA NextOfOther ==
    ASSUME NEW z, NEW q, NEW w, NEW r, NEW k \in 1 .. Len(q) + 1, NEW h, NEW i, NEW pr,
           NEW p, NEW e,
           Len(q) \in Nat, Len(r) = Len(q) + 1, Raised(w, r, z, q, k, h),
           IsPrec(z, q, pr, i, k), Stands(z, q, p, i), IsNext(z, q, p, i, e),
           h > i => p # pr
    PROVE  IsNext(w, r, Later(p, k), i, Later(e, k))
<1> DEFINE N == Len(q)
<1>1. /\ pr \in 0 .. N /\ pr < k /\ \A j \in pr + 1 .. k - 1 : ~(Height(z, q, j) > i)
      /\ pr = 0 \/ Height(z, q, pr) > i
      /\ p \in 0 .. N /\ (p = 0 \/ Height(z, q, p) > i)
      /\ e \in p + 1 .. N + 1 /\ (e <= N => Height(z, q, e) > i)
      /\ \A j \in p + 1 .. e - 1 : ~(Height(z, q, j) > i)
  BY Zenon DEF IsPrec, IsNext, Stands
<1>2. \A j \in 1 .. N + 1 : /\ j < k => Height(w, r, j) = Height(z, q, j)
                            /\ j = k => Height(w, r, j) = h
                            /\ j > k => Height(w, r, j) = Height(z, q, j - 1)
  BY Zenon DEF Raised
<1>3. p < k /\ ~(e < k) => ~(h > i)
  <2> SUFFICES ASSUME p < k, ~(e < k), h > i PROVE FALSE
    BY Zenon
  <2>1. ~(p < pr)
    <3>1. p < pr => pr \in p + 1 .. e - 1 /\ pr # 0
      BY <1>1
    <3> QED
      BY <1>1, <3>1, Zenon
  <2>2. ~(pr < p)
    <3>1. pr < p => p \in pr + 1 .. k - 1 /\ p # 0
      BY <1>1
    <3> QED
      BY <1>1, <3>1, Zenon
  <2>3. p = pr
    BY <1>1, <2>1, <2>2
  <2> QED
    BY <2>3, Zenon
<1>4. Later(e, k) \in Later(p, k) + 1 .. (N + 1) + 1
  BY <1>1 DEF Later
<1>5. Later(e, k) <= N + 1 => Height(w, r, Later(e, k)) > i
  <2>1. CASE e < k
    <3>1. e \in 1 .. N + 1 /\ e <= N
      BY <1>1, <2>1
    <3> QED
      BY <1>1, <1>2, <2>1, <3>1, Zenon DEF Later
  <2>2. CASE ~(e < k)
    <3> SUFFICES ASSUME e + 1 <= N + 1 PROVE Height(w, r, e + 1) > i
      BY <2>2, Zenon DEF Later
    <3>1. e + 1 \in 1 .. N + 1 /\ e <= N /\ e + 1 > k /\ (e + 1) - 1 = e
      BY <1>1, <2>2
    <3>2. Height(w, r, e + 1) = Height(z, q, (e + 1) - 1)
      BY <1>2, <3>1, Zenon
    <3> QED
      BY <1>1, <3>1, <3>2, Zenon
  <2> QED
    BY <2>1, <2>2, Zenon
<1>6. ASSUME NEW j \in Later(p, k) + 1 .. Later(e, k) - 1 PROVE ~(Height(w, r, j) > i)
  <2>1. CASE j < k
    <3>1. j \in 1 .. N + 1 /\ j \in p + 1 .. e - 1
      BY <1>1, <2>1 DEF Later
    <3> QED
      BY <1>1, <1>2, <2>1, <3>1, Zenon
  <2>2. CASE j = k
    <3>1. j \in 1 .. N + 1 /\ p < k /\ ~(e < k)
      BY <1>1, <2>2 DEF Later
    <3> QED
      BY <1>2, <1>3, <2>2, <3>1, Zenon
  <2>3. CASE j > k
    <3>1. j \in 1 .. N + 1 /\ j - 1 \in p + 1 .. e - 1
      BY <1>1, <2>3 DEF Later
    <3>2. Height(w, r, j) = Height(z, q, j - 1)
      BY <1>2, <2>3, <3>1, Zenon
    <3> QED
      BY <1>1, <3>1, <3>2, Zenon
  <2>4. j < k \/ j = k \/ j > k
    BY <1>1 DEF Later
  <2> QED
    BY <2>1, <2>2, <2>3, <2>4, Zenon
<1> QED
  BY <1>4, <1>5, <1>6, Zenon DEF IsNext

(* Different places have different nodes.                                  *)
LEMMA StandInj ==
    ASSUME NEW z, NEW q, ZType(z, q), NEW p \in 0 .. Len(q), NEW e \in 0 .. Len(q),
           Stand(q, p) = Stand(q, e)
    PROVE  p = e
<1>1. PICK pos : IsPlaces(pos, q)
  BY PlacesOf, Zenon DEF ZType
<1>2. pos[Stand(q, p)] = p /\ pos[Stand(q, e)] = e
  BY <1>1, Zenon DEF IsPlaces
<1> QED
  BY <1>2, Zenon

(* What stands in a place, the header or a node in use.                    *)
LEMMA StandPlace ==
    ASSUME NEW z, NEW q, ZType(z, q), NEW p \in 0 .. Len(q)
    PROVE  /\ Stand(q, p) \in Place /\ (Stand(q, p) \in Node <=> p # 0)
           /\ Stand(q, p) \in Node => p \in 1 .. Len(q) /\ Stand(q, p) = q[p] /\ q[p] \in Used(z)
<1>1. Len(q) \in Nat /\ \A j \in 1 .. Len(q) : q[j] \in Node /\ q[j] \in Used(z)
  BY ZFacts, Zenon
<1>2. p # 0 => p \in 1 .. Len(q)
  BY <1>1
<1>3. Header \notin Node
  BY SkipListAssumption, Zenon DEF Ptr
<1> QED
  BY <1>1, <1>2, <1>3, Zenon DEF Stand, Place

(* The old place of a place in the new order that is not k.                *)
Earlier(j, k) == IF j < k THEN j ELSE j - 1

(* After zsl_insert every forward pointer still leads to the next node of  *)
(* its level.                                                              *)
LEMMA InsForwardKept ==
    ASSUME NEW z, NEW q, ZType(z, q), ZForward(z, q),
           NEW w, NEW n, NEW k, NEW s, NEW m, NEW h, NEW pr,
           IsInserted(w, z, q, n, k, s, m, h, pr), NEW r, IsOpened(r, q, k, n)
    PROVE  ZForward(w, r)
<1> DEFINE N == Len(q)
<1>1. /\ ZType(w, r) /\ IsShifted(w, r, z, q, k, NewNode(s, m, h))
      /\ Used(w) = Used(z) \cup {n}
  BY InsType, Zenon
<1>2. Raised(w, r, z, q, k, h)
  BY <1>1, InsHeights, Zenon
<1>3. /\ n \in Node /\ n \notin Used(z) /\ k \in 1 .. N + 1 /\ h \in 1 .. MAXLEVEL
      /\ w.node = [z.node EXCEPT ![n] = NewNode(s, m, h)]
  BY Zenon DEF IsInserted, InsNode, NewNode
<1>4. /\ pr \in [Levels -> 0 .. Len(q)]
      /\ \A i \in Levels : IsPrec(z, q, pr[i], i, k)
      /\ \A x \in Place : \A i \in Levels :
           w.forward[x][i] = IF i < h /\ x = n THEN z.forward[Stand(q, pr[i])][i]
                             ELSE IF i < h /\ x = Stand(q, pr[i]) THEN n ELSE z.forward[x][i]
  BY Zenon DEF IsInserted, InsForward
<1>5. /\ Len(r) = N + 1 /\ \A j \in 1 .. N + 1 : /\ j < k => r[j] = q[j]
                                                 /\ j = k => r[j] = n
                                                 /\ j > k => r[j] = q[j - 1]
  BY Zenon DEF IsOpened
<1>6. N \in Nat /\ MAXLEVEL \in Nat
  BY ZFacts, LevelFacts, Zenon
<1>7. \A i \in Levels : h > i <=> i < h
  BY <1>3, <1>6 DEF Levels
<1>8. \A i \in Levels : \A p \in 0 .. N : Stands(z, q, p, i) =>
        \E e \in 1 .. N + 1 : IsNext(z, q, p, i, e) /\ z.forward[Stand(q, p)][i] = At(q, e)
  BY Zenon DEF ZForward
<1>9. ASSUME NEW i \in Levels, NEW p \in 0 .. Len(r), Stands(w, r, p, i)
      PROVE  \E e \in 1 .. Len(r) + 1 :
               IsNext(w, r, p, i, e) /\ w.forward[Stand(r, p)][i] = At(r, e)
  <2> DEFINE b == pr[i]
  <2>1. /\ IsPrec(z, q, b, i, k) /\ b \in 0 .. N /\ Stands(z, q, b, i) /\ b < k
        /\ Stand(q, b) \in Place /\ Stand(q, b) # n
    <3>1. IsPrec(z, q, b, i, k) /\ b \in 0 .. N /\ Stands(z, q, b, i) /\ b < k
      BY <1>4, Zenon DEF IsPrec
    <3>2. Stand(q, b) \in Place /\ (Stand(q, b) \in Node => Stand(q, b) \in Used(z))
      BY <3>1, StandPlace, Zenon
    <3> QED
      BY <1>3, <3>1, <3>2, Zenon
  <2>2. /\ i < h => w.forward[n][i] = z.forward[Stand(q, b)][i]
        /\ \A x \in Place : x # n /\ ~(i < h /\ x = Stand(q, b)) => w.forward[x][i] = z.forward[x][i]
        /\ i < h => w.forward[Stand(q, b)][i] = n
    <3>1. n \in Place
      BY <1>3, Zenon DEF Place
    <3> QED
      BY <1>4, <2>1, <3>1, Zenon
  <2> HIDE DEF b
  <2>3. CASE p = k
    <3>1. Height(w, r, k) > i /\ Height(w, r, k) = h
      <4>1. k # 0 /\ k \in 1 .. N + 1
        BY <1>3, <1>6
      <4> QED
        BY <1>2, <1>9, <2>3, <4>1, Zenon DEF Stands, Raised
    <3>2. i < h
      BY <1>7, <3>1, Zenon
    <3>3. PICK e \in 1 .. N + 1 : IsNext(z, q, b, i, e) /\ z.forward[Stand(q, b)][i] = At(q, e)
      BY <1>8, <2>1, Zenon
    <3>4. Later(e, k) = e + 1 /\ IsNext(w, r, k, i, e + 1)
      BY <1>2, <1>3, <1>5, <1>6, <2>1, <3>3, NextOfNew, Zenon
    <3>5. At(r, e + 1) = At(q, e)
      BY <1>3, <1>6, <3>4, LaterAt
    <3>6. Stand(r, p) = n
      <4>1. k # 0 /\ k \in 1 .. N + 1
        BY <1>3, <1>6
      <4> QED
        BY <1>5, <2>3, <4>1, Zenon DEF Stand
    <3>7. e + 1 \in 1 .. Len(r) + 1
      BY <1>5, <1>6
    <3> QED
      BY <2>2, <2>3, <3>2, <3>3, <3>4, <3>5, <3>6, <3>7, Zenon
  <2>4. CASE p # k
    <3> DEFINE a == Earlier(p, k)
    <3>1. /\ a \in 0 .. N /\ Later(a, k) = p /\ (p = 0 <=> a = 0)
          /\ (p # 0 => p \in 1 .. N + 1) /\ (p < k => a = p) /\ (p > k => a = p - 1)
          /\ p < k \/ p > k
      BY <1>3, <1>5, <1>6, <2>4 DEF Earlier, Later
    <3> HIDE DEF a
    <3>2. Stand(r, p) = Stand(q, a)
      BY <1>5, <3>1, Zenon DEF Stand
    <3>3. Stands(z, q, a, i)
      <4>1. p = 0 \/ Height(w, r, p) > i
        BY <1>9, Zenon DEF Stands
      <4>2. p # 0 => Height(w, r, p) = Height(z, q, a)
        BY <1>2, <3>1, Zenon DEF Raised
      <4> QED
        BY <3>1, <4>1, <4>2, Zenon DEF Stands
    <3>4. PICK e \in 1 .. N + 1 : IsNext(z, q, a, i, e) /\ z.forward[Stand(q, a)][i] = At(q, e)
      BY <1>8, <3>1, <3>3, Zenon
    <3>5. CASE h > i /\ a = b
      <4>1. IsNext(w, r, b, i, k)
        BY <1>2, <1>3, <1>5, <1>6, <2>1, <3>5, NextIsNew, Zenon
      <4>2. p = b
        <5>1. Later(b, k) = b
          BY <2>1, Zenon DEF Later
        <5> QED
          BY <3>1, <3>5, <5>1, Zenon
      <4>3. At(r, k) = n /\ k \in 1 .. Len(r) + 1
        <5>1. k \in 1 .. Len(r) /\ k \in 1 .. Len(r) + 1
          BY <1>3, <1>5, <1>6
        <5> QED
          BY <1>3, <1>5, <5>1, Zenon DEF At
      <4> QED
        BY <1>7, <2>2, <3>2, <3>5, <4>1, <4>2, <4>3, Zenon
    <3>6. CASE h > i => a # b
      <4>1. IsNext(w, r, Later(a, k), i, Later(e, k))
        BY <1>2, <1>3, <1>5, <1>6, <2>1, <3>3, <3>4, <3>6, NextOfOther, Zenon
      <4>2. At(r, Later(e, k)) = At(q, e)
        BY <1>3, <1>6, LaterAt
      <4>3. Later(e, k) \in 1 .. Len(r) + 1
        BY <1>3, <1>5, <1>6 DEF Later
      <4>4. Stand(q, a) \in Place /\ Stand(q, a) # n
        <5>1. Stand(q, a) \in Place /\ (Stand(q, a) \in Node => Stand(q, a) \in Used(z))
          BY <3>1, StandPlace, Zenon
        <5> QED
          BY <1>3, <5>1, Zenon
      <4>5. Stand(q, a) = Stand(q, b) => a = b
        BY <2>1, <3>1, StandInj, Zenon
      <4>6. w.forward[Stand(q, a)][i] = z.forward[Stand(q, a)][i]
        BY <1>7, <2>2, <3>6, <4>4, <4>5, Zenon
      <4> QED
        BY <3>1, <3>2, <3>4, <4>1, <4>2, <4>3, <4>6, Zenon
    <3> QED
      BY <3>5, <3>6, Zenon
  <2> QED
    BY <2>3, <2>4, Zenon
<1>10. ASSUME NEW i \in Levels, NEW x \in Node, x \notin Used(w) \/ ~(w.node[x].level > i)
       PROVE  w.forward[x][i] = NULL
  <2>1. x \in Place
    BY Zenon DEF Place
  <2>2. \A y \in Node : y \notin Used(z) \/ ~(z.node[y].level > i) => z.forward[y][i] = NULL
    BY Zenon DEF ZForward
  <2>3. CASE x = n
    <3>1. w.node[n] = NewNode(s, m, h)
      BY <1>3, Zenon DEF ZType
    <3>2. NewNode(s, m, h).level = h
      BY DEF NewNode
    <3>3. ~(i < h)
      BY <1>1, <1>3, <1>7, <1>10, <2>3, <3>1, <3>2, Zenon
    <3>4. w.forward[x][i] = z.forward[x][i]
      BY <1>4, <2>1, <3>3, Zenon
    <3> QED
      BY <1>3, <2>2, <2>3, <3>4, Zenon
  <2>4. CASE x # n
    <3>1. w.node[x] = z.node[x]
      BY <1>3, <2>4, Zenon DEF ZType
    <3>2. x \notin Used(z) \/ ~(z.node[x].level > i)
      BY <1>1, <1>10, <3>1, Zenon
    <3>3. x # Stand(q, pr[i])
      <4> SUFFICES ASSUME x = Stand(q, pr[i]) PROVE FALSE
        BY Zenon
      <4>1. pr[i] \in 0 .. N /\ (pr[i] = 0 \/ Height(z, q, pr[i]) > i)
        BY <1>4, Zenon DEF IsPrec, Stands
      <4>2. pr[i] # 0 /\ x = q[pr[i]] /\ x \in Used(z)
        BY <4>1, StandPlace, Zenon
      <4> QED
        BY <3>2, <4>1, <4>2, Zenon DEF Height
    <3>4. w.forward[x][i] = z.forward[x][i]
      BY <1>4, <2>1, <2>4, <3>3, Zenon
    <3> QED
      BY <2>2, <3>2, <3>4, Zenon
  <2> QED
    BY <2>3, <2>4, Zenon
<1> QED
  BY <1>9, <1>10, Zenon DEF ZForward

(* After zsl_insert the backward pointers still lead through the order in  *)
(* reverse.                                                                *)
LEMMA InsBackKept ==
    ASSUME NEW z, NEW q, ZType(z, q), ZBack(z, q),
           NEW w, NEW n, NEW k, NEW s, NEW m, NEW h, NEW pr,
           IsInserted(w, z, q, n, k, s, m, h, pr), NEW r, IsOpened(r, q, k, n)
    PROVE  ZBack(w, r)
<1> DEFINE N == Len(q)
<1>1. Used(w) = Used(z) \cup {n}
  BY InsType, Zenon
<1>2. n \in Node /\ n \notin Used(z) /\ k \in 1 .. N + 1
  BY Zenon DEF IsInserted, InsNode
<1>3. /\ \A x \in Node : w.backward[x] = IF x = n THEN At(q, k - 1)
                                         ELSE IF x = At(q, k) THEN n ELSE z.backward[x]
      /\ w.tail = IF k = N + 1 THEN n ELSE z.tail
  BY Zenon DEF IsInserted, InsBack
<1>4. /\ Len(r) = N + 1 /\ \A j \in 1 .. N + 1 : /\ j < k => r[j] = q[j]
                                                 /\ j = k => r[j] = n
                                                 /\ j > k => r[j] = q[j - 1]
  BY Zenon DEF IsOpened
<1>5. N \in Nat /\ \A j \in 1 .. N : q[j] \in Node /\ q[j] \in Used(z)
  BY ZFacts, Zenon
<1>6. \A j \in 1 .. N : q[j] # n
  BY <1>2, <1>5
<1>7. \A i, j \in 1 .. N : q[i] = q[j] => i = j
  BY Zenon DEF ZType, Distinct
<1>8. /\ \A j \in 1 .. N : z.backward[q[j]] = At(q, j - 1)
      /\ \A x \in Node \ Used(z) : z.backward[x] = NULL
      /\ z.tail = At(q, N)
  BY Zenon DEF ZBack
<1>9. At(r, 0) = At(q, 0) /\ \A j \in 1 .. N : At(r, Later(j, k)) = At(q, j)
  <2>1. ~(0 \in 1 .. Len(r)) /\ ~(0 \in 1 .. Len(q)) /\ \A j \in 1 .. N : j \in 1 .. N + 1
    BY <1>4, <1>5
  <2>2. \A j \in 1 .. N + 1 : At(r, Later(j, k)) = At(q, j)
    BY <1>2, <1>5, LaterAt
  <2> QED
    BY <2>1, <2>2, Zenon DEF At
<1>10. \A j \in 0 .. N : j < k => At(r, j) = At(q, j)
  <2>1. \A j \in 0 .. N : j # 0 => j \in 1 .. N
    BY <1>5
  <2> QED
    BY <1>9, <2>1, Zenon DEF Later
<1>11. ASSUME NEW j \in 1 .. N + 1 PROVE w.backward[r[j]] = At(r, j - 1)
  <2>1. CASE j = k
    <3>1. k - 1 \in 0 .. N /\ k - 1 < k
      BY <1>2, <1>5
    <3> QED
      BY <1>2, <1>3, <1>4, <1>10, <2>1, <3>1, Zenon
  <2>2. CASE j < k
    <3>1. j \in 1 .. N /\ j - 1 \in 0 .. N /\ j - 1 < k /\ j # k
      BY <1>2, <1>5, <2>2
    <3>2. q[j] # At(q, k)
      <4>1. k \in 1 .. N => q[j] # q[k]
        BY <1>7, <3>1, Zenon
      <4>2. q[j] # NULL
        BY <1>5, <3>1, NullIsNone, Zenon
      <4> QED
        BY <4>1, <4>2, Zenon DEF At
    <3>3. w.backward[q[j]] = z.backward[q[j]]
      BY <1>3, <1>5, <1>6, <3>1, <3>2, Zenon
    <3> QED
      BY <1>4, <1>8, <1>10, <2>2, <3>1, <3>3, Zenon
  <2>3. CASE j = k + 1
    <3>1. /\ k \in 1 .. N /\ j - 1 = k /\ j > k /\ k \in 1 .. Len(r) /\ k \in 1 .. N + 1
      BY <1>2, <1>4, <1>5, <2>3
    <3>2. r[j] = q[k] /\ r[k] = n /\ At(r, k) = r[k] /\ At(q, k) = q[k]
      BY <1>4, <3>1, Zenon DEF At
    <3>3. w.backward[q[k]] = n
      BY <1>3, <1>5, <1>6, <3>1, <3>2, Zenon
    <3> QED
      BY <3>1, <3>2, <3>3, Zenon
  <2>4. CASE j > k + 1
    <3> DEFINE l == j - 1
    <3>1. /\ l \in 1 .. N /\ j > k /\ l # k /\ l - 1 \in 1 .. N /\ ~(l - 1 < k) /\ (l - 1) + 1 = l
      BY <1>2, <1>5, <2>4
    <3>2. r[j] = q[l]
      BY <1>4, <3>1, Zenon
    <3> HIDE DEF l
    <3>3. q[l] # At(q, k)
      <4>1. k \in 1 .. N => q[l] # q[k]
        BY <1>7, <3>1, Zenon
      <4>2. q[l] # NULL
        BY <1>5, <3>1, NullIsNone, Zenon
      <4> QED
        BY <4>1, <4>2, Zenon DEF At
    <3>4. w.backward[q[l]] = z.backward[q[l]]
      BY <1>3, <1>5, <1>6, <3>1, <3>3, Zenon
    <3>5. At(r, Later(l - 1, k)) = At(q, l - 1)
      BY <1>9, <3>1, Zenon
    <3>6. Later(l - 1, k) = l
      BY <3>1, Zenon DEF Later
    <3>7. w.backward[r[j]] = At(r, l)
      BY <1>8, <3>1, <3>2, <3>4, <3>5, <3>6, Zenon
    <3> QED
      BY <3>7, Zenon DEF l
  <2>5. j = k \/ j < k \/ j = k + 1 \/ j > k + 1
    BY <1>2, <1>5
  <2> QED
    BY <2>1, <2>2, <2>3, <2>4, <2>5, Zenon
<1>12. ASSUME NEW x \in Node \ Used(w) PROVE w.backward[x] = NULL
  <2>1. x \in Node /\ x # n /\ x \notin Used(z)
    BY <1>1, Zenon
  <2>2. x # At(q, k)
    <3>1. x # NULL
      BY <2>1, NullIsNone, Zenon
    <3> QED
      BY <1>5, <2>1, <3>1, Zenon DEF At
  <2> QED
    BY <1>3, <1>8, <2>1, <2>2, Zenon
<1>13. w.tail = At(r, N + 1)
  <2>1. N + 1 \in 1 .. Len(r) /\ N + 1 \in 1 .. N + 1
    BY <1>4, <1>5
  <2>2. CASE k = N + 1
    BY <1>3, <1>4, <2>1, <2>2, Zenon DEF At
  <2>3. CASE k # N + 1
    <3>1. N \in 1 .. N /\ ~(N < k)
      BY <1>2, <1>5, <2>3
    <3>2. At(r, Later(N, k)) = At(q, N)
      BY <1>9, <3>1, Zenon
    <3> QED
      BY <1>3, <1>8, <2>3, <3>1, <3>2, Zenon DEF Later
  <2> QED
    BY <2>2, <2>3, Zenon
<1> QED
  BY <1>4, <1>11, <1>12, <1>13, Zenon DEF ZBack

(* After zsl_insert the order is still that of scores and members.         *)
LEMMA InsSortedKept ==
    ASSUME NEW z, NEW q, ZType(z, q), ZSorted(z, q),
           NEW w, NEW n, NEW k, NEW s, NEW m, NEW h, NEW pr,
           IsInserted(w, z, q, n, k, s, m, h, pr), NEW r, IsOpened(r, q, k, n)
    PROVE  ZSorted(w, r)
<1> DEFINE N == Len(q)
           new == NewNode(s, m, h)
           B(a, b) == Before(a.score, a.member, b.score, b.member)
           Z(j) == z.node[q[j]]
           W(j) == w.node[r[j]]
<1>1. \A j \in 1 .. N + 1 : /\ j < k => W(j) = Z(j) /\ j \in 1 .. N
                            /\ j = k => W(j) = new
                            /\ j > k => W(j) = Z(j - 1) /\ j - 1 \in 1 .. N
  BY InsType, Zenon DEF IsShifted
<1>2. k \in 1 .. N + 1 /\ s \in Int /\ m \in Int
  BY ObjectsAssumption, Zenon DEF IsInserted, InsNode
<1>3. new.score = s /\ new.member = m
  BY DEF NewNode
<1>4. \A j \in 1 .. N : Z(j).score \in Int /\ Z(j).member \in Int
  BY NodeInts, Zenon
<1>5. \A j \in 1 .. N : NodeBefore(z, q[j], s, m) <=> j < k
  BY ZFacts, Zenon DEF IsInserted, Parts, Skipped
<1>6. \A j \in 1 .. N : Before(Z(j).score, Z(j).member, s, m) <=> j < k
  BY <1>5, Zenon DEF NodeBefore
<1>7. \A i, j \in 1 .. N : i < j => ~B(Z(j), Z(i))
  BY Zenon DEF ZSorted, NodeBefore
<1>8. N \in Nat /\ Len(r) = N + 1
  BY ZFacts, Zenon DEF IsOpened
<1> HIDE DEF Z, W, new, B
<1>9. ASSUME NEW i \in 1 .. N + 1, NEW j \in 1 .. N + 1, i < j PROVE ~B(W(j), W(i))
  <2>1. CASE j < k
    <3>1. i < k
      BY <1>2, <1>8, <1>9, <2>1
    <3> QED
      BY <1>1, <1>7, <1>9, <2>1, <3>1, Zenon
  <2>2. CASE j = k
    <3>1. W(j) = new /\ W(i) = Z(i) /\ i \in 1 .. N /\ i < k
      BY <1>1, <1>9, <2>2, Zenon
    <3>2. Before(Z(i).score, Z(i).member, s, m) /\ Z(i).score \in Int /\ Z(i).member \in Int
      BY <1>4, <1>6, <3>1, Zenon
    <3>3. ~Before(s, m, Z(i).score, Z(i).member)
      BY <1>2, <3>2 DEF Before
    <3> QED
      BY <1>3, <3>1, <3>3, Zenon DEF B
  <2>3. CASE j > k /\ i = k
    <3>1. W(j) = Z(j - 1) /\ W(i) = new /\ j - 1 \in 1 .. N /\ ~(j - 1 < k)
      <4>1. ~(j - 1 < k)
        BY <1>2, <1>8, <2>3
      <4> QED
        BY <1>1, <2>3, <4>1, Zenon
    <3> QED
      BY <1>3, <1>6, <3>1, Zenon DEF B
  <2>4. CASE j > k /\ i < k
    <3>1. W(j) = Z(j - 1) /\ W(i) = Z(i) /\ j - 1 \in 1 .. N /\ i \in 1 .. N
      BY <1>1, <2>4, Zenon
    <3>2. i < j - 1
      BY <1>2, <1>8, <2>4
    <3> QED
      BY <1>7, <3>1, <3>2, Zenon
  <2>5. CASE j > k /\ i > k
    <3>1. W(j) = Z(j - 1) /\ W(i) = Z(i - 1) /\ j - 1 \in 1 .. N /\ i - 1 \in 1 .. N
      BY <1>1, <2>5, Zenon
    <3>2. i - 1 < j - 1
      BY <1>2, <1>8, <1>9
    <3> QED
      BY <1>7, <3>1, <3>2, Zenon
  <2>6. (j < k \/ j = k \/ j > k) /\ (i < k \/ i = k \/ i > k)
    BY <1>2, <1>8
  <2> QED
    BY <2>1, <2>2, <2>3, <2>4, <2>5, <2>6, Zenon
<1> QED
  BY <1>8, <1>9, Zenon DEF ZSorted, NodeBefore, W, B

(* After zsl_insert the level is still the height of the tallest node.     *)
LEMMA InsLevelKept ==
    ASSUME NEW z, NEW q, ZType(z, q), ZLevel(z, q),
           NEW w, NEW n, NEW k, NEW s, NEW m, NEW h, NEW pr,
           IsInserted(w, z, q, n, k, s, m, h, pr), NEW r, IsOpened(r, q, k, n)
    PROVE  ZLevel(w, r)
<1> DEFINE N == Len(q)
<1>1. Raised(w, r, z, q, k, h)
  <2>1. IsShifted(w, r, z, q, k, NewNode(s, m, h))
    BY InsType, Zenon
  <2> QED
    BY <2>1, InsHeights, Zenon
<1>2. /\ k \in 1 .. N + 1 /\ h \in 1 .. MAXLEVEL
      /\ w.level = IF h > z.level THEN h ELSE z.level
  BY Zenon DEF IsInserted, InsNode
<1>3. /\ N \in Nat /\ Len(r) = N + 1 /\ z.level \in Nat /\ MAXLEVEL \in Nat
      /\ \A j \in 1 .. N : Height(z, q, j) \in 1 .. MAXLEVEL
  BY ZFacts, LevelFacts, Zenon DEF IsOpened
<1>4. /\ \A j \in 1 .. N : ~(Height(z, q, j) > z.level)
      /\ z.level = 1 \/ \E j \in 1 .. N : Height(z, q, j) = z.level
  BY Zenon DEF ZLevel
<1>5. \A j \in 1 .. N + 1 : /\ j < k => Height(w, r, j) = Height(z, q, j)
                            /\ j = k => Height(w, r, j) = h
                            /\ j > k => Height(w, r, j) = Height(z, q, j - 1)
  BY <1>1, Zenon DEF Raised
<1>6. ASSUME NEW j \in 1 .. N + 1 PROVE ~(Height(w, r, j) > w.level)
  <2>1. CASE j < k
    <3>1. j \in 1 .. N
      BY <1>2, <1>3, <2>1
    <3>2. Height(w, r, j) = Height(z, q, j) /\ ~(Height(z, q, j) > z.level)
          /\ Height(z, q, j) \in 1 .. MAXLEVEL
      BY <1>3, <1>4, <1>5, <2>1, <3>1, Zenon
    <3> QED
      BY <1>2, <1>3, <3>2
  <2>2. CASE j = k
    BY <1>2, <1>3, <1>5, <2>2
  <2>3. CASE j > k
    <3>1. j - 1 \in 1 .. N
      BY <1>2, <1>3, <2>3
    <3>2. Height(w, r, j) = Height(z, q, j - 1) /\ ~(Height(z, q, j - 1) > z.level)
          /\ Height(z, q, j - 1) \in 1 .. MAXLEVEL
      BY <1>3, <1>4, <1>5, <2>3, <3>1, Zenon
    <3> QED
      BY <1>2, <1>3, <3>2
  <2>4. j < k \/ j = k \/ j > k
    BY <1>2, <1>3
  <2> QED
    BY <2>1, <2>2, <2>3, <2>4, Zenon
<1>7. w.level = 1 \/ \E j \in 1 .. N + 1 : Height(w, r, j) = w.level
  <2>1. CASE h > z.level
    BY <1>2, <1>5, <2>1, Zenon
  <2>2. CASE ~(h > z.level) /\ z.level = 1
    BY <1>2, <2>2, Zenon
  <2>3. CASE ~(h > z.level) /\ z.level # 1
    <3>1. PICK j \in 1 .. N : Height(z, q, j) = z.level
      BY <1>4, <2>3, Zenon
    <3>2. CASE j < k
      <4>1. j \in 1 .. N + 1
        BY <1>3
      <4> QED
        BY <1>2, <1>5, <2>3, <3>1, <3>2, <4>1, Zenon
    <3>3. CASE ~(j < k)
      <4>1. j + 1 \in 1 .. N + 1 /\ j + 1 > k /\ (j + 1) - 1 = j
        BY <1>2, <1>3, <3>3
      <4>2. Height(w, r, j + 1) = Height(z, q, (j + 1) - 1)
        BY <1>5, <4>1, Zenon
      <4> QED
        BY <1>2, <2>3, <3>1, <4>1, <4>2, Zenon
    <3> QED
      BY <3>2, <3>3, Zenon
  <2> QED
    BY <2>1, <2>2, <2>3, Zenon
<1> QED
  BY <1>3, <1>6, <1>7, Zenon DEF ZLevel

(* zsl_insert makes a skip list of a skip list, whatever the level it      *)
(* draws.                                                                  *)
LEMMA InsertKeeps ==
    ASSUME NEW z, NEW q, ZInv(z, q), Used(z) # Node,
           NEW s \in Score, NEW m \in Member, NEW h \in 1 .. MAXLEVEL
    PROVE  \E r : ZInv(zsl_insert(z, s, m, h), r)
<1> DEFINE w == zsl_insert(z, s, m, h)
<1>1. PICK n, k, pr : IsInserted(w, z, q, n, k, s, m, h, pr)
  BY Inserted, Zenon
<1> HIDE DEF w
<1>2. ZType(z, q) /\ ZForward(z, q) /\ ZBack(z, q) /\ ZSorted(z, q) /\ ZLevel(z, q)
  BY Zenon DEF ZInv
<1>3. PICK r : IsOpened(r, q, k, n)
  <2>1. q \in Seq(Node) /\ Distinct(q) /\ Range(q) = Used(z)
    BY <1>2, Zenon DEF ZType
  <2>2. n \in Node \ Range(q) /\ k \in 1 .. Len(q) + 1
    BY <1>1, <2>1, Zenon DEF IsInserted, InsNode
  <2> QED
    BY <2>1, <2>2, Opened, Zenon
<1>4. ZInv(w, r)
  BY <1>1, <1>2, <1>3, InsType, InsForwardKept, InsBackKept, InsSortedKept, InsLevelKept,
     Zenon DEF ZInv
<1> QED
  BY <1>4, Zenon DEF w

-----------------------------------------------------------------------------
(* zsl_delete.                                                             *)

(* The nodes that the walks of zsl_delete skip.                            *)
Others(z, m) == {n \in Used(z) : z.node[n].member # m}

(* Every walk starts where the one above it ended.                         *)
LEMMA Descends ==
    ASSUME NEW z, NEW q, ZType(z, q), NEW skip, NEW P, IsUpdate(P, z, q, skip)
    PROVE  \A i \in 0 .. z.level : P[i] <= P[0]
<1>1. z.level \in Nat /\ Len(q) \in Nat
  BY LevelFacts, ZFacts, Zenon
<1>2. P \in [0 .. z.level -> 0 .. Len(q)] /\ \A i \in 0 .. z.level - 1 : P[i + 1] <= P[i]
  BY Zenon DEF IsUpdate, Stops
<1> DEFINE T == {i \in Nat : i <= z.level => P[i] <= P[0]}
<1>3. 0 \in T
  <2>1. 0 \in 0 .. z.level
    BY <1>1
  <2>2. P[0] \in 0 .. Len(q)
    BY <1>2, <2>1, Zenon
  <2>3. P[0] <= P[0]
    BY <1>1, <2>2
  <2> QED
    BY <2>3, Zenon
<1>4. ASSUME NEW i \in Nat, i \in T PROVE i + 1 \in T
  <2>1. ASSUME i + 1 <= z.level PROVE P[i + 1] <= P[0]
    <3>1. i \in 0 .. z.level - 1 /\ i <= z.level /\ i \in 0 .. z.level /\ i + 1 \in 0 .. z.level
          /\ 0 \in 0 .. z.level
      BY <1>1, <2>1
    <3>2. /\ P[i + 1] <= P[i] /\ P[i] <= P[0]
          /\ P[i + 1] \in 0 .. Len(q) /\ P[i] \in 0 .. Len(q) /\ P[0] \in 0 .. Len(q)
      BY <1>2, <1>4, <3>1, Zenon
    <3> QED
      BY <1>1, <3>2
  <2>2. i + 1 \in Nat
    OBVIOUS
  <2> QED
    BY <2>1, <2>2, Zenon
<1>5. \A i \in Nat : i \in T
  <2> HIDE DEF T
  <2> QED
    BY <1>3, <1>4, NatInduct, Zenon
<1>6. \A i \in 0 .. z.level : i \in Nat /\ i <= z.level
  BY <1>1
<1> QED
  BY <1>5, <1>6, Zenon

(* A node that the walk on its level stops at stops the walks below it.    *)
LEMMA Blocks ==
    ASSUME NEW z, NEW q, ZType(z, q), NEW skip, NEW P, IsUpdate(P, z, q, skip),
           NEW i \in 0 .. z.level - 1, NEW e \in 1 .. Len(q), Height(z, q, e) > i,
           q[e] \notin skip, P[i] < e
    PROVE  \A j \in 0 .. i : P[j] < e
<1>1. /\ Len(q) \in Nat /\ z.level \in Nat /\ MAXLEVEL \in Nat
      /\ Height(z, q, e) \in 1 .. MAXLEVEL
  BY LevelFacts, ZFacts, Zenon
<1>2. e \in Nat /\ i \in 0 .. z.level
  BY <1>1
<1>3. ASSUME NEW j \in 0 .. i - 1, NEW a \in 0 .. Len(q), NEW b \in 0 .. Len(q),
             Stops(z, q, skip, a, b, j), a < e
      PROVE  b < e
  <2>1. \A l \in a + 1 .. b : Height(z, q, l) > j => q[l] \in skip
    BY <1>3, Zenon DEF Stops
  <2>2. Height(z, q, e) > j
    BY <1>1
  <2>3. ~(b < e) => e \in a + 1 .. b
    BY <1>1, <1>3
  <2> QED
    BY <2>1, <2>2, <2>3, Zenon
<1>4. \A j \in 0 .. i - 1 : \A a, b \in 0 .. Len(q) :
        Stops(z, q, skip, a, b, j) /\ a < e => b < e
  BY <1>3, Zenon
<1> QED
  BY <1>2, <1>4, StaysBelow

(* The walks find the node in place k: on every level that it reaches they *)
(* end just before it.                                                     *)
LEMMA FoundAt ==
    ASSUME NEW z, NEW q, ZType(z, q), ZForward(z, q), NEW skip, NEW P, IsUpdate(P, z, q, skip),
           NEW k, k = P[0] + 1, k <= Len(q), NEW i \in 0 .. z.level - 1, Height(z, q, k) > i
    PROVE  IsNext(z, q, P[i], i, k) /\ IsPrec(z, q, P[i], i, k)
<1> DEFINE p == P[i]
           N == Len(q)
<1>1. N \in Nat /\ z.level \in Nat /\ i \in Levels /\ i \in 0 .. z.level /\ 0 \in 0 .. z.level
      /\ i \in 0 .. i /\ 0 \in 0 .. i
  <2>1. N \in Nat /\ z.level \in Nat /\ i \in Levels
    BY LevelFacts, ZFacts, Zenon
  <2>2. i \in 0 .. z.level /\ 0 \in 0 .. z.level /\ i \in 0 .. i /\ 0 \in 0 .. i
    BY <2>1
  <2> QED
    BY <2>1, <2>2, Zenon
<1>2. /\ p \in 0 .. N /\ P[0] \in 0 .. N /\ p <= P[0]
      /\ Stops(z, q, skip, P[i + 1], p, i)
  <2>1. p <= P[0]
    BY <1>1, Descends, Zenon
  <2> QED
    BY <1>1, <2>1, Zenon DEF IsUpdate
<1>3. Stands(z, q, p, i) /\ \A l \in 1 .. N : IsNext(z, q, p, i, l) => q[l] \notin skip
  BY <1>2, Zenon DEF Stops
<1>4. PICK e \in 1 .. N + 1 : IsNext(z, q, p, i, e)
  BY <1>1, <1>2, <1>3, Zenon DEF ZForward
<1>5. /\ e \in p + 1 .. N + 1 /\ (e <= N => Height(z, q, e) > i)
      /\ \A j \in p + 1 .. e - 1 : ~(Height(z, q, j) > i)
  BY <1>4, Zenon DEF IsNext
<1>6. k \in 1 .. N /\ k > p
  BY <1>1, <1>2
<1>7. ~(k < e)
  <2>1. k < e => k \in p + 1 .. e - 1
    BY <1>1, <1>2, <1>6
  <2> QED
    BY <1>5, <2>1, Zenon
<1>8. ~(e < k)
  <2> SUFFICES ASSUME e < k PROVE FALSE
    BY Zenon
  <2>1. e \in 1 .. N /\ e <= N /\ p < e
    BY <1>1, <1>2, <1>5, <1>6
  <2>2. q[e] \notin skip /\ Height(z, q, e) > i
    BY <1>3, <1>4, <1>5, <2>1, Zenon
  <2>3. P[0] < e
    <3> HIDE DEF p
    <3>1. P[i] < e
      BY <2>1, Zenon DEF p
    <3>2. \A j \in 0 .. i : P[j] < e
      BY <2>1, <2>2, <3>1, Blocks, Zenon
    <3> QED
      BY <1>1, <3>2, Zenon
  <2> QED
    BY <1>1, <1>2, <2>1, <2>3
<1>9. e = k
  BY <1>1, <1>6, <1>7, <1>8
<1>10. p < k
  BY <1>1, <1>2, <1>6
<1> QED
  BY <1>3, <1>4, <1>5, <1>9, <1>10, Zenon DEF IsPrec

(* w is z without the node in place k of its order q.                      *)
DelNode(w, z, q, k) ==
    /\ k \in 1 .. Len(q)
    /\ w.node = [z.node EXCEPT ![q[k]] = Free] /\ w.length = z.length - 1

(* On every level that the node has, what led to it leads to its           *)
(* successor.                                                              *)
DelForward(w, z, q, k, pr) ==
    /\ pr \in [Levels -> 0 .. Len(q)]
    /\ \A i \in Levels : i < Height(z, q, k) => IsPrec(z, q, pr[i], i, k)
    /\ w.forward \in [Place -> [Levels -> Ptr]]
    /\ \A y \in Place : \A i \in Levels :
         w.forward[y][i] = IF y = q[k] THEN NULL
                           ELSE IF i < Height(z, q, k) /\ y = Stand(q, pr[i])
                                  THEN z.forward[q[k]][i] ELSE z.forward[y][i]

(* Backwards, its successor leads to its predecessor.                      *)
DelBack(w, z, q, k) ==
    /\ w.backward \in [Node -> Ptr]
    /\ \A y \in Node : w.backward[y] = IF y = q[k] THEN NULL
                                       ELSE IF y = At(q, k + 1) THEN At(q, k - 1) ELSE z.backward[y]
    /\ w.tail = IF k = Len(q) THEN At(q, k - 1) ELSE z.tail

(* w is z without the node in place k of its order q.                      *)
IsDeleted(w, z, q, k, pr) ==
    /\ DelNode(w, z, q, k) /\ DelForward(w, z, q, k, pr) /\ DelBack(w, z, q, k)
    /\ w.level = Lowered(z, w.forward)

(* What a walk finds.                                                      *)
LEMMA FoundIs ==
    ASSUME NEW z, NEW q, ZType(z, q), ZForward(z, q), NEW m, NEW P,
           IsUpdate(P, z, q, Others(z, m))
    PROVE  /\ P[0] \in 0 .. Len(q) /\ Found(z, m) = At(q, P[0] + 1)
           /\ P[0] + 1 \in 1 .. Len(q) => z.node[q[P[0] + 1]].member = m
<1>1. /\ Len(q) \in Nat /\ z.level \in Nat /\ z.level >= 1 /\ 0 \in Levels
      /\ 0 \in 0 .. z.level - 1 /\ 0 \in 0 .. z.level
  <2>1. Len(q) \in Nat /\ z.level \in Nat /\ z.level >= 1 /\ 0 \in Levels
    BY LevelFacts, ZFacts, Zenon
  <2>2. 0 \in 0 .. z.level - 1 /\ 0 \in 0 .. z.level
    BY <2>1
  <2> QED
    BY <2>1, <2>2, Zenon
<1>2. /\ P[0] \in 0 .. Len(q) /\ Stops(z, q, Others(z, m), P[0 + 1], P[0], 0)
      /\ Update(z, Others(z, m))[0] = Stand(q, P[0])
  BY <1>1, Zenon DEF IsUpdate
<1>3. Found(z, m) = At(q, P[0] + 1)
  <2>1. Found(z, m) = z.forward[Update(z, Others(z, m))[0]][0]
    BY Zenon DEF Found, Passing, Others
  <2>2. z.forward[Stand(q, P[0])][0] = At(q, P[0] + 1)
    BY <1>2, NextOnGround, Zenon
  <2> QED
    BY <1>2, <2>1, <2>2, Zenon
<1>4. ASSUME P[0] + 1 \in 1 .. Len(q) PROVE z.node[q[P[0] + 1]].member = m
  <2> DEFINE k == P[0] + 1
  <2>1. Height(z, q, k) > 0
    <3>1. Height(z, q, k) \in 1 .. MAXLEVEL /\ MAXLEVEL \in Nat
      BY <1>4, ZFacts, LevelFacts, Zenon
    <3> HIDE DEF k
    <3> QED
      BY <3>1
  <2>2. k \in P[0] + 1 .. Len(q) + 1 /\ \A j \in P[0] + 1 .. k - 1 : FALSE
    BY <1>1, <1>2, <1>4
  <2>3. IsNext(z, q, P[0], 0, k)
    <3> HIDE DEF k
    <3> QED
      BY <2>1, <2>2, Zenon DEF IsNext
  <2>4. q[k] \notin Others(z, m)
    BY <1>2, <1>4, <2>3, Zenon DEF Stops
  <2>5. q[k] \in Used(z)
    BY <1>4, ZFacts, Zenon
  <2> QED
    BY <2>4, <2>5, Zenon DEF Others
<1> QED
  BY <1>2, <1>3, <1>4, Zenon

(* A pointer on level i leads only to nodes that reach it.                 *)
LEMMA LeadsUp ==
    ASSUME NEW z, NEW q, ZType(z, q), ZForward(z, q), NEW i \in Levels, NEW y \in Place,
           NEW k \in 1 .. Len(q), z.forward[y][i] = q[k]
    PROVE  Height(z, q, k) > i
<1>1. /\ Len(q) \in Nat /\ \A p \in 1 .. Len(q) : q[p] \in Node
      /\ \A x \in Used(z) : \E p \in 1 .. Len(q) : x = q[p]
  <2>1. Len(q) \in Nat /\ \A p \in 1 .. Len(q) : q[p] \in Node
    BY ZFacts, Zenon
  <2>2. \A x \in Used(z) : \E p \in 1 .. Len(q) : x = q[p]
    BY ZFacts
  <2> QED
    BY <2>1, <2>2, Zenon
<1>2. q[k] # NULL
  BY <1>1, NullIsNone, Zenon
<1>3. PICK p \in 0 .. Len(q) : y = Stand(q, p) /\ Stands(z, q, p, i)
  <2>1. CASE y = Header
    <3>1. 0 \in 0 .. Len(q)
      BY <1>1
    <3> QED
      BY <2>1, <3>1, Zenon DEF Stand, Stands
  <2>2. CASE y \in Node
    <3>1. y \in Used(z) /\ z.node[y].level > i
      BY <1>2, <2>2, Zenon DEF ZForward
    <3>2. PICK p \in 1 .. Len(q) : y = q[p]
      BY <1>1, <3>1, Zenon
    <3>3. p \in 0 .. Len(q) /\ p # 0
      BY <1>1
    <3>4. Stands(z, q, p, i) /\ y = Stand(q, p)
      BY <3>1, <3>2, <3>3, Zenon DEF Stands, Height, Stand
    <3> QED
      BY <3>3, <3>4, Zenon
  <2> QED
    BY <2>1, <2>2, Zenon DEF Place
<1>4. PICK e \in 1 .. Len(q) + 1 : IsNext(z, q, p, i, e) /\ z.forward[y][i] = At(q, e)
  BY <1>3, Zenon DEF ZForward
<1>5. e \in 1 .. Len(q) /\ q[e] = q[k]
  BY <1>2, <1>4, Zenon DEF At
<1>6. e = k /\ e <= Len(q)
  <2>1. e = k
    BY <1>5, Zenon DEF ZType, Distinct
  <2> QED
    BY <1>1, <1>5, <2>1
<1> QED
  BY <1>4, <1>6, Zenon DEF IsNext

(* zsl_delete takes a node of the member out of every level that it has.   *)
LEMMA Deleted ==
    ASSUME NEW z, NEW q, ZInv(z, q), NEW m, Found(z, m) # NULL
    PROVE  \E k, pr : /\ IsDeleted(zsl_delete(z, m), z, q, k, pr)
                      /\ z.node[q[k]].member = m
<1> DEFINE w == zsl_delete(z, m)
           skip == Others(z, m)
           u == Update(z, skip)
           N == Len(q)
           x == Found(z, m)
           fwd == Unlinked(z, x, u)
<1>1. ZType(z, q) /\ ZForward(z, q) /\ ZBack(z, q) /\ ZLevel(z, q)
  BY Zenon DEF ZInv
<1>2. skip \in SUBSET Node
  BY Zenon DEF Others, Used
<1>3. PICK P : IsUpdate(P, z, q, skip)
  <2> HIDE DEF skip
  <2> QED
    BY <1>1, <1>2, UpdateEnds, Zenon
<1> DEFINE k == P[0] + 1
           H == Height(z, q, k)
           pr == [i \in Levels |-> IF i < z.level THEN P[i] ELSE 0]
           G(y, i) == IF y = x THEN NULL
                      ELSE IF i < z.level /\ y = u[i] /\ z.forward[y][i] = x
                        THEN z.forward[x][i] ELSE z.forward[y][i]
<1>4. P[0] \in 0 .. N /\ x = At(q, k) /\ (k \in 1 .. N => z.node[q[k]].member = m)
  BY <1>1, <1>3, FoundIs
<1>5. k \in 1 .. N /\ x = q[k] /\ z.node[q[k]].member = m
  BY <1>4, Zenon DEF At
<1>6. N \in Nat /\ z.level \in Nat /\ MAXLEVEL \in Nat /\ 0 \in Levels
  BY <1>1, ZFacts, LevelFacts, Zenon
<1>7. \A i \in Levels : i < z.level => i \in 0 .. z.level - 1 /\ i \in 0 .. z.level
  BY <1>6 DEF Levels
<1>8. H \in 1 .. MAXLEVEL /\ ~(H > z.level)
  BY <1>1, <1>5, ZFacts, Zenon DEF ZLevel
<1>9. \A i \in Levels : i < H <=> H > i
  BY <1>6, <1>8 DEF Levels
<1>10. \A i \in Levels : i < H => i < z.level
  BY <1>6, <1>8 DEF Levels
<1>11. /\ w.node = [z.node EXCEPT ![x] = Free]
       /\ w.forward = fwd
       /\ w.backward = [y \in Node |->
            IF y = x THEN NULL
            ELSE IF y = z.forward[x][0] THEN z.backward[x] ELSE z.backward[y]]
       /\ w.tail = (IF z.forward[x][0] = NULL THEN z.backward[x] ELSE z.tail)
       /\ w.level = Lowered(z, fwd)
       /\ w.length = z.length - 1
  BY Zenon DEF zsl_delete, Passing, Others
<1>12. fwd = [y \in Place |-> [i \in Levels |-> G(y, i)]]
  BY Zenon DEF Unlinked, Place
<1> HIDE DEF w, skip, u, x, fwd, G, H
<1>13. k <= N
  BY <1>5, <1>6
<1>14. \A i \in Levels : i < z.level => P[i] \in 0 .. N /\ u[i] = Stand(q, P[i])
  BY <1>3, <1>7, Zenon DEF IsUpdate, u
<1>15. ASSUME NEW i \in Levels, i < H
       PROVE  IsNext(z, q, P[i], i, k) /\ IsPrec(z, q, P[i], i, k)
  <2>1. i \in 0 .. z.level - 1 /\ Height(z, q, k) > i
    BY <1>7, <1>9, <1>10, <1>15, Zenon DEF H
  <2> DEFINE kk == k
  <2>2. kk = P[0] + 1 /\ kk <= Len(q) /\ Height(z, q, kk) > i
    BY <1>13, <2>1, Zenon
  <2> HIDE DEF kk
  <2>3. IsNext(z, q, P[i], i, kk) /\ IsPrec(z, q, P[i], i, kk)
    BY <1>1, <1>3, <2>1, <2>2, FoundAt, Zenon
  <2> QED
    BY <2>3, Zenon DEF kk
<1> HIDE DEF k
<1>16. ASSUME NEW i \in Levels, i < H PROVE z.forward[Stand(q, P[i])][i] = x
  <2>1. Stands(z, q, P[i], i) /\ P[i] \in 0 .. N /\ IsNext(z, q, P[i], i, k)
    BY <1>15, <1>16, Zenon DEF IsPrec, Stands
  <2>2. PICK e \in 1 .. N + 1 : IsNext(z, q, P[i], i, e) /\ z.forward[Stand(q, P[i])][i] = At(q, e)
    BY <1>1, <2>1, Zenon DEF ZForward
  <2> DEFINE p == P[i]
  <2> HIDE DEF p
  <2>3. /\ e \in p + 1 .. N + 1 /\ (e <= N => Height(z, q, e) > i)
        /\ \A j \in p + 1 .. e - 1 : ~(Height(z, q, j) > i)
        /\ k \in p + 1 .. N + 1 /\ (k <= N => Height(z, q, k) > i)
        /\ \A j \in p + 1 .. k - 1 : ~(Height(z, q, j) > i) /\ p \in 0 .. N
    BY <2>1, <2>2, Zenon DEF IsNext, p
  <2>7. p \in 0 .. N
    BY <2>1, Zenon DEF p
  <2>4. ~(e < k)
    <3>1. e < k => e \in p + 1 .. k - 1 /\ e <= N
      BY <1>6, <1>13, <2>3, <2>7
    <3> QED
      BY <2>3, <3>1, Zenon
  <2>5. ~(k < e)
    <3>1. k < e => k \in p + 1 .. e - 1
      BY <1>6, <2>3, <2>7
    <3> QED
      BY <1>13, <2>3, <3>1, Zenon
  <2>6. e = k
    BY <1>6, <2>3, <2>4, <2>5, <2>7
  <2> QED
    BY <1>4, <2>2, <2>6, Zenon
<1>17. ASSUME NEW i \in Levels, NEW y \in Place, z.forward[y][i] = x PROVE i < H
  BY <1>1, <1>5, <1>9, <1>17, LeadsUp, Zenon DEF H
<1>18. ASSUME NEW y \in Place, NEW i \in Levels
       PROVE  G(y, i) = IF y = q[k] THEN NULL
                        ELSE IF i < H /\ y = Stand(q, pr[i]) THEN z.forward[q[k]][i] ELSE z.forward[y][i]
  <2>1. i < H => pr[i] = P[i] /\ u[i] = Stand(q, P[i]) /\ i < z.level
    BY <1>10, <1>14, Zenon
  <2> HIDE DEF pr
  <2>2. CASE i < H
    BY <1>5, <1>16, <2>1, <2>2, Zenon DEF G
  <2>3. CASE ~(i < H)
    BY <1>5, <1>17, <2>3, Zenon DEF G
  <2> QED
    BY <2>2, <2>3, Zenon
<1>19. DelForward(w, z, q, k, pr)
  <2>1. pr \in [Levels -> 0 .. Len(q)] /\ \A i \in Levels : i < H => IsPrec(z, q, pr[i], i, k)
    <3>1. 0 \in 0 .. N
      BY <1>6
    <3>2. pr \in [Levels -> 0 .. Len(q)]
      BY <1>14, <3>1, Zenon
    <3> QED
      BY <1>10, <1>15, <3>2, Zenon
  <2>2. \A y \in Place : \A i \in Levels : w.forward[y][i] = G(y, i)
    <3>1. \A y \in Place : w.forward[y] = [i \in Levels |-> G(y, i)]
      BY <1>11, <1>12, Zenon
    <3> QED
      BY <3>1
  <2>3. \A y \in Place : \A i \in Levels : z.forward[y][i] \in Ptr
    BY <1>1, Zenon DEF ZType
  <2>4. x \in Place
    BY <1>1, <1>5, ZFacts, Zenon DEF Place
  <2>5. \A y \in Place : \A i \in Levels : G(y, i) \in Ptr
    BY <2>3, <2>4, NullIsNone, Zenon DEF G
  <2>6. w.forward \in [Place -> [Levels -> Ptr]]
    <3>2. w.forward = [y \in Place |-> [i \in Levels |-> G(y, i)]]
      BY <1>11, <1>12, Zenon
    <3>1. \A y \in Place : [i \in Levels |-> G(y, i)] \in [Levels -> Ptr]
      BY <2>5, Zenon
    <3> QED
      BY <3>1, <3>2, Zenon
  <2> HIDE DEF pr
  <2>7. \A y \in Place : \A i \in Levels :
          w.forward[y][i] = IF y = q[k] THEN NULL
                            ELSE IF i < H /\ y = Stand(q, pr[i])
                                   THEN z.forward[q[k]][i] ELSE z.forward[y][i]
    <3> SUFFICES ASSUME NEW y \in Place, NEW i \in Levels
                 PROVE  w.forward[y][i] = IF y = q[k] THEN NULL
                            ELSE IF i < H /\ y = Stand(q, pr[i])
                                   THEN z.forward[q[k]][i] ELSE z.forward[y][i]
      BY Zenon
    <3>1. w.forward[y][i] = G(y, i)
      BY <2>2, Zenon
    <3> QED
      BY <1>18, <3>1
  <2> QED
    BY <2>1, <2>6, <2>7, Zenon DEF DelForward, H
<1>20. DelNode(w, z, q, k)
  BY <1>5, <1>11, Zenon DEF DelNode
<1>21. DelBack(w, z, q, k)
  <2>1. z.forward[x][0] = At(q, k + 1)
    <3>1. k \in 0 .. N /\ k # 0
      BY <1>5, <1>6
    <3>2. z.forward[Stand(q, k)][0] = At(q, k + 1)
      BY <1>1, <3>1, NextOnGround, Zenon
    <3> QED
      BY <1>5, <3>1, <3>2, Zenon DEF Stand
  <2>2. z.backward[x] = At(q, k - 1)
    BY <1>1, <1>5, Zenon DEF ZBack
  <2>3. At(q, k + 1) = NULL <=> k = N
    <3>1. k + 1 \in 1 .. N <=> k # N
      BY <1>5, <1>6
    <3>2. k + 1 \in 1 .. N => q[k + 1] # NULL
      BY <1>1, ZFacts, NullIsNone, Zenon
    <3> QED
      BY <3>1, <3>2, Zenon DEF At
  <2>4. \A y \in Node : w.backward[y] = IF y = q[k] THEN NULL
                                        ELSE IF y = At(q, k + 1) THEN At(q, k - 1) ELSE z.backward[y]
    BY <1>5, <1>11, <2>1, <2>2, Zenon
  <2>5. w.backward \in [Node -> Ptr]
    <3>1. z.backward \in [Node -> Ptr] /\ x \in Node
      BY <1>1, <1>5, ZFacts, Zenon DEF ZType
    <3> QED
      BY <1>11, <3>1, NullIsNone, Zenon
  <2>6. w.tail = IF k = N THEN At(q, k - 1) ELSE z.tail
    BY <1>11, <2>1, <2>2, <2>3, Zenon
  <2> QED
    BY <2>4, <2>5, <2>6, Zenon DEF DelBack
<1>22. w.level = Lowered(z, w.forward)
  BY <1>11, Zenon
<1>23. IsDeleted(w, z, q, k, pr)
  <2> HIDE DEF pr
  <2> QED
    BY <1>19, <1>20, <1>21, <1>22, Zenon DEF IsDeleted
<1> QED
  BY <1>5, <1>23, Zenon DEF w

(* The nodes of w in the order r: those of z in the order q but for the    *)
(* one in place k.                                                         *)
IsDropped(w, r, z, q, k) ==
    \A j \in 1 .. Len(q) - 1 :
      Later(j, k) \in 1 .. Len(q) /\ Later(j, k) # k /\ w.node[r[j]] = z.node[q[Later(j, k)]]

(* After zsl_delete the fields have their types, and the nodes their       *)
(* places.                                                                 *)
LEMMA DelType ==
    ASSUME NEW z, NEW q, ZType(z, q), NEW w, NEW k, NEW pr,
           IsDeleted(w, z, q, k, pr), NEW r, IsClosed(r, q, k)
    PROVE  /\ IsDropped(w, r, z, q, k) /\ Used(w) = Used(z) \ {q[k]}
           /\ w.level \in 1 .. MAXLEVEL => ZType(w, r)
<1> DEFINE N == Len(q)
           x == q[k]
<1>1. k \in 1 .. N /\ w.node = [z.node EXCEPT ![x] = Free] /\ w.length = z.length - 1
  BY Zenon DEF IsDeleted, DelNode
<1>2. w.forward \in [Place -> [Levels -> Ptr]] /\ w.backward \in [Node -> Ptr]
  BY Zenon DEF IsDeleted, DelForward, DelBack
<1>3. N \in Nat /\ \A j \in 1 .. N : q[j] \in Node /\ q[j] \in Used(z)
  BY ZFacts, Zenon
<1>4. w.tail \in Ptr
  <2>1. At(q, k - 1) \in Ptr
    BY <1>3, NullIsNone, Zenon DEF At
  <2> QED
    BY <2>1, Zenon DEF IsDeleted, DelBack, ZType
<1>5. z.node \in [Node -> ZNode \cup {Free}] /\ z.length = N /\ Range(q) = Used(z) /\ Distinct(q)
  BY Zenon DEF ZType
<1>6. x \in Node
  BY <1>1, <1>3, Zenon
<1>7. \A i, j \in 1 .. N : q[i] = q[j] => i = j
  BY <1>5, Zenon DEF Distinct
<1> HIDE DEF x
<1>8. /\ w.node \in [Node -> ZNode \cup {Free}] /\ w.node[x] = Free
      /\ \A y \in Node : y # x => w.node[y] = z.node[y]
  BY <1>1, <1>5, <1>6, Zenon
<1>9. Used(w) = Used(z) \ {x}
  <2>1. \A y \in Node : y # x => (y \in Used(w) <=> y \in Used(z))
    BY <1>8, Zenon DEF Used
  <2>2. x \notin Used(w)
    BY <1>6, <1>8, Zenon DEF Used
  <2>3. Used(w) \subseteq Node /\ Used(z) \subseteq Node
    BY Zenon DEF Used
  <2> QED
    BY <2>1, <2>2, <2>3, Zenon
<1>10. /\ r \in Seq(Node) /\ Len(r) = N - 1 /\ Distinct(r) /\ Range(r) = Range(q) \ {x}
       /\ \A j \in 1 .. N - 1 : (j < k => r[j] = q[j]) /\ (~(j < k) => r[j] = q[j + 1])
  BY Zenon DEF IsClosed, x
<1>11. w.level \in 1 .. MAXLEVEL => ZType(w, r)
  BY <1>1, <1>2, <1>4, <1>5, <1>8, <1>9, <1>10, Zenon DEF ZType
<1>12. ASSUME NEW j \in 1 .. N - 1
       PROVE  Later(j, k) \in 1 .. N /\ Later(j, k) # k /\ w.node[r[j]] = z.node[q[Later(j, k)]]
  <2>1. Later(j, k) \in 1 .. N /\ Later(j, k) # k
    BY <1>1, <1>3 DEF Later
  <2>2. r[j] = q[Later(j, k)]
    BY <1>10, Zenon DEF Later
  <2>3. q[Later(j, k)] \in Node /\ q[Later(j, k)] # x
    BY <1>1, <1>3, <1>7, <2>1, Zenon DEF x
  <2> QED
    BY <1>8, <2>1, <2>2, <2>3, Zenon
<1> QED
  BY <1>9, <1>11, <1>12, Zenon DEF IsDropped, x

(* What was in place e is in place Earlier(e, k).                          *)
LEMMA EarlierAt ==
    ASSUME NEW q, NEW r, NEW k \in 1 .. Len(q), IsClosed(r, q, k), Len(q) \in Nat,
           NEW e \in 0 .. Len(q) + 1, e # k
    PROVE  At(r, Earlier(e, k)) = At(q, e)
<1>1. /\ Len(r) = Len(q) - 1
      /\ \A j \in 1 .. Len(r) : (j < k => r[j] = q[j]) /\ (~(j < k) => r[j] = q[j + 1])
  BY Zenon DEF IsClosed
<1>2. CASE e < k /\ e # 0
  <2>1. e \in 1 .. Len(r) /\ e \in 1 .. Len(q)
    BY <1>1, <1>2
  <2> QED
    BY <1>1, <1>2, <2>1, Zenon DEF Earlier, At
<1>3. CASE ~(e < k) /\ e <= Len(q)
  <2>1. e - 1 \in 1 .. Len(r) /\ e \in 1 .. Len(q) /\ (e - 1) + 1 = e /\ ~(e - 1 < k)
    BY <1>1, <1>3
  <2>2. r[e - 1] = q[(e - 1) + 1]
    BY <1>1, <2>1, Zenon
  <2> QED
    BY <1>3, <2>1, <2>2, Zenon DEF Earlier, At
<1>4. CASE ~(e < k) /\ ~(e <= Len(q))
  <2>1. ~(e - 1 \in 1 .. Len(r)) /\ ~(e \in 1 .. Len(q))
    BY <1>1, <1>4
  <2> QED
    BY <1>4, <2>1, Zenon DEF Earlier, At
<1>5. CASE e = 0
  <2>1. ~(0 \in 1 .. Len(r)) /\ ~(0 \in 1 .. Len(q)) /\ 0 < k
    BY <1>1
  <2> QED
    BY <1>5, <2>1, Zenon DEF Earlier, At
<1> QED
  BY <1>2, <1>3, <1>4, <1>5, Zenon

(* The heights in the new order.                                           *)
Sunk(w, r, z, q, k) ==
    \A j \in 1 .. Len(q) - 1 : Height(w, r, j) = Height(z, q, Later(j, k))

(* The next of the place before the node that goes is what was the next of *)
(* that node.                                                              *)
LEMMA NextAcross ==
    ASSUME NEW z, NEW q, NEW w, NEW r, NEW k \in 1 .. Len(q), NEW i, NEW p, NEW e,
           Len(q) \in Nat, Len(r) = Len(q) - 1,
           Sunk(w, r, z, q, k),
           IsPrec(z, q, p, i, k), IsNext(z, q, k, i, e)
    PROVE  IsNext(w, r, p, i, e - 1) /\ Earlier(e, k) = e - 1
<1> DEFINE N == Len(q)
<1>1. /\ p \in 0 .. N /\ p < k /\ \A j \in p + 1 .. k - 1 : ~(Height(z, q, j) > i)
      /\ e \in k + 1 .. N + 1 /\ (e <= N => Height(z, q, e) > i)
      /\ \A j \in k + 1 .. e - 1 : ~(Height(z, q, j) > i)
  BY Zenon DEF IsPrec, IsNext, Stands
<1>2. e - 1 \in p + 1 .. (N - 1) + 1 /\ ~(e < k)
  BY <1>1
<1>3. ASSUME e - 1 <= N - 1 PROVE Height(w, r, e - 1) > i
  <2>1. e - 1 \in 1 .. N - 1 /\ Later(e - 1, k) = e /\ e <= N
    BY <1>1, <1>3 DEF Later
  <2> QED
    BY <1>1, <2>1, Zenon DEF Sunk
<1>4. ASSUME NEW j \in p + 1 .. (e - 1) - 1 PROVE ~(Height(w, r, j) > i)
  <2>1. /\ j \in 1 .. N - 1
        /\ j < k => j \in p + 1 .. k - 1 /\ Later(j, k) = j
        /\ ~(j < k) => j + 1 \in k + 1 .. e - 1 /\ Later(j, k) = j + 1
    BY <1>1 DEF Later
  <2> QED
    BY <1>1, <2>1, Zenon DEF Sunk
<1> QED
  BY <1>2, <1>3, <1>4, Zenon DEF IsNext, Earlier

(* For every other place the next is what it was.                          *)
LEMMA NextApart ==
    ASSUME NEW z, NEW q, NEW w, NEW r, NEW k \in 1 .. Len(q), NEW i, NEW p, NEW e,
           Len(q) \in Nat, Len(r) = Len(q) - 1,
           Sunk(w, r, z, q, k),
           p \in 0 .. Len(q), p # k, e # k, IsNext(z, q, p, i, e)
    PROVE  IsNext(w, r, Earlier(p, k), i, Earlier(e, k))
<1> DEFINE N == Len(q)
<1>1. /\ e \in p + 1 .. N + 1 /\ (e <= N => Height(z, q, e) > i)
      /\ \A j \in p + 1 .. e - 1 : ~(Height(z, q, j) > i)
  BY Zenon DEF IsNext
<1>2. Earlier(e, k) \in Earlier(p, k) + 1 .. (N - 1) + 1
  BY <1>1 DEF Earlier
<1>3. ASSUME Earlier(e, k) <= N - 1 PROVE Height(w, r, Earlier(e, k)) > i
  <2>1. Earlier(e, k) \in 1 .. N - 1 /\ Later(Earlier(e, k), k) = e /\ e <= N
    BY <1>1, <1>3 DEF Later, Earlier
  <2> QED
    BY <1>1, <2>1, Zenon DEF Sunk
<1>4. ASSUME NEW j \in Earlier(p, k) + 1 .. Earlier(e, k) - 1 PROVE ~(Height(w, r, j) > i)
  <2>1. j \in 1 .. N - 1 /\ Later(j, k) \in p + 1 .. e - 1
    BY <1>1 DEF Later, Earlier
  <2> QED
    BY <1>1, <2>1, Zenon DEF Sunk
<1> QED
  BY <1>2, <1>3, <1>4, Zenon DEF IsNext

(* Only the one before it leads to the node in place k.                    *)
LEMMA OneLeadsTo ==
    ASSUME NEW z, NEW q, NEW k \in 1 .. Len(q), NEW i, NEW p, NEW b, Len(q) \in Nat,
           Stands(z, q, p, i), IsNext(z, q, p, i, k), IsPrec(z, q, b, i, k)
    PROVE  p = b
<1>1. /\ b \in 0 .. Len(q) /\ b < k /\ \A j \in b + 1 .. k - 1 : ~(Height(z, q, j) > i)
      /\ b = 0 \/ Height(z, q, b) > i
      /\ p \in 0 .. Len(q) /\ (p = 0 \/ Height(z, q, p) > i)
      /\ k \in p + 1 .. Len(q) + 1
      /\ \A j \in p + 1 .. k - 1 : ~(Height(z, q, j) > i)
  BY Zenon DEF IsPrec, IsNext, Stands
<1>2. ~(p < b)
  <2>1. p < b => b \in p + 1 .. k - 1 /\ b # 0
    BY <1>1
  <2> QED
    BY <1>1, <2>1, Zenon
<1>3. ~(b < p)
  <2>1. b < p => p \in b + 1 .. k - 1 /\ p # 0
    BY <1>1
  <2> QED
    BY <1>1, <2>1, Zenon
<1> QED
  BY <1>1, <1>2, <1>3

(* After zsl_delete every forward pointer still leads to the next node of  *)
(* its level.                                                              *)
LEMMA DelForwardKept ==
    ASSUME NEW z, NEW q, ZType(z, q), ZForward(z, q), NEW w, NEW k, NEW pr,
           IsDeleted(w, z, q, k, pr), NEW r, IsClosed(r, q, k)
    PROVE  ZForward(w, r) /\ Sunk(w, r, z, q, k)
<1> DEFINE N == Len(q)
           H == Height(z, q, k)
<1>1. IsDropped(w, r, z, q, k) /\ Used(w) = Used(z) \ {q[k]}
  BY DelType
<1>2. Sunk(w, r, z, q, k)
  BY <1>1, Zenon DEF IsDropped, Height, Sunk
<1>3. k \in 1 .. N /\ w.node = [z.node EXCEPT ![q[k]] = Free]
  BY Zenon DEF IsDeleted, DelNode
<1>4. /\ pr \in [Levels -> 0 .. N]
      /\ \A i \in Levels : i < H => IsPrec(z, q, pr[i], i, k)
      /\ \A y \in Place : \A i \in Levels :
           w.forward[y][i] = IF y = q[k] THEN NULL
                             ELSE IF i < H /\ y = Stand(q, pr[i])
                                    THEN z.forward[q[k]][i] ELSE z.forward[y][i]
  BY Zenon DEF IsDeleted, DelForward
<1>5. /\ Len(r) = N - 1
      /\ \A j \in 1 .. N - 1 : (j < k => r[j] = q[j]) /\ (~(j < k) => r[j] = q[j + 1])
  BY Zenon DEF IsClosed
<1>6. N \in Nat /\ MAXLEVEL \in Nat /\ H \in 1 .. MAXLEVEL /\ q[k] \in Node /\ q[k] \in Used(z)
  BY <1>3, ZFacts, LevelFacts, Zenon
<1>7. \A i \in Levels : H > i <=> i < H
  BY <1>6 DEF Levels
<1>8. \A i \in Levels : \A p \in 0 .. N : Stands(z, q, p, i) =>
        \E e \in 1 .. N + 1 : IsNext(z, q, p, i, e) /\ z.forward[Stand(q, p)][i] = At(q, e)
  BY Zenon DEF ZForward
<1>9. ASSUME NEW i \in Levels, NEW p \in 0 .. Len(r), Stands(w, r, p, i)
      PROVE  \E e \in 1 .. Len(r) + 1 :
               IsNext(w, r, p, i, e) /\ w.forward[Stand(r, p)][i] = At(r, e)
  <2> DEFINE a == Later(p, k)
             b == pr[i]
  <2>1. /\ a \in 0 .. N /\ a # k /\ Earlier(a, k) = p /\ (p = 0 <=> a = 0)
        /\ (p # 0 => p \in 1 .. N - 1) /\ (p < k => a = p) /\ (~(p < k) => a = p + 1)
    BY <1>3, <1>5, <1>6 DEF Earlier, Later
  <2>2. Stands(z, q, a, i)
    <3>1. p = 0 \/ Height(w, r, p) > i
      BY <1>9, Zenon DEF Stands
    <3>2. p # 0 => Height(w, r, p) = Height(z, q, a)
      BY <1>2, <2>1, Zenon DEF Sunk
    <3> HIDE DEF a
    <3> QED
      BY <2>1, <3>1, <3>2, Zenon DEF Stands
  <2> HIDE DEF a
  <2>3. Stand(r, p) = Stand(q, a)
    BY <1>5, <2>1, Zenon DEF Stand
  <2>4. Stand(q, a) \in Place /\ Stand(q, a) # q[k]
    <3>1. Stand(q, a) \in Place
      BY <2>1, StandPlace, Zenon
    <3>2. k \in 0 .. N /\ k # 0
      BY <1>3, <1>6
    <3>3. Stand(q, a) # Stand(q, k)
      BY <2>1, <3>2, StandInj, Zenon
    <3> QED
      BY <3>1, <3>2, <3>3, Zenon DEF Stand
  <2>5. PICK e \in 1 .. N + 1 : IsNext(z, q, a, i, e) /\ z.forward[Stand(q, a)][i] = At(q, e)
    BY <1>8, <2>1, <2>2, Zenon
  <2>6. e = k => Height(z, q, k) > i
    <3>1. k <= N
      BY <1>3, <1>6
    <3> QED
      BY <2>5, <3>1, Zenon DEF IsNext
  <2>7. CASE i < H /\ a = b
    <3>1. IsPrec(z, q, b, i, k)
      BY <1>4, <2>7, Zenon
    <3>2. k \in 0 .. N /\ Stands(z, q, k, i) /\ Stand(q, k) = q[k]
      <4>1. k \in 0 .. N /\ k # 0
        BY <1>3, <1>6
      <4> QED
        BY <1>7, <2>7, <4>1, Zenon DEF Stands, Stand
    <3>3. PICK f \in 1 .. N + 1 : IsNext(z, q, k, i, f) /\ z.forward[q[k]][i] = At(q, f)
      BY <1>8, <3>2, Zenon
    <3>4. f \in k + 1 .. N + 1
      BY <3>3, Zenon DEF IsNext
    <3>5. f - 1 \in 1 .. Len(r) + 1 /\ f # k /\ f \in 0 .. N + 1
      BY <1>3, <1>5, <1>6, <3>4
    <3>6. IsNext(w, r, b, i, f - 1) /\ Earlier(f, k) = f - 1
      <4> HIDE DEF b
      <4>1. Len(q) \in Nat /\ Len(r) = Len(q) - 1 /\ k \in 1 .. Len(q)
        BY <1>3, <1>5, <1>6, Zenon
      <4>2. IsPrec(z, q, b, i, k) /\ IsNext(z, q, k, i, f)
        BY <3>1, <3>3, Zenon
      <4> QED
        BY <1>2, <4>1, <4>2, NextAcross
    <3>7. At(r, f - 1) = At(q, f)
      <4>1. At(r, Earlier(f, k)) = At(q, f)
        BY <1>3, <1>6, <3>5, EarlierAt
      <4> QED
        BY <3>6, <4>1, Zenon
    <3>8. p = b
      <4>1. b < k
        BY <3>1, Zenon DEF IsPrec
      <4> QED
        BY <2>1, <2>7, <4>1, Zenon DEF Earlier
    <3>9. w.forward[Stand(q, a)][i] = z.forward[q[k]][i]
      BY <1>4, <2>4, <2>7, Zenon
    <3> QED
      BY <2>3, <3>3, <3>5, <3>6, <3>7, <3>8, <3>9, Zenon
  <2>8. CASE ~(i < H /\ a = b)
    <3>1. e # k
      <4> SUFFICES ASSUME e = k PROVE FALSE
        BY Zenon
      <4>1. i < H
        BY <1>7, <2>6, Zenon
      <4>2. IsPrec(z, q, b, i, k) /\ IsNext(z, q, a, i, k)
        BY <1>4, <2>5, <4>1, Zenon
      <4>3. a = b
        BY <1>3, <1>6, <2>2, <4>2, OneLeadsTo, Zenon
      <4> QED
        BY <2>8, <4>1, <4>3, Zenon
    <3>2. IsNext(w, r, Earlier(a, k), i, Earlier(e, k))
      BY <1>2, <1>3, <1>5, <1>6, <2>1, <2>5, <3>1, NextApart, Zenon
    <3>3. At(r, Earlier(e, k)) = At(q, e)
      <4>1. e \in 0 .. N + 1
        BY <1>6
      <4> QED
        BY <1>3, <1>6, <3>1, <4>1, EarlierAt
    <3>4. Earlier(e, k) \in 1 .. Len(r) + 1
      BY <1>3, <1>5, <1>6, <3>1 DEF Earlier
    <3>5. i < H => Stand(q, a) # Stand(q, b)
      <4>1. i < H => b \in 0 .. N
        BY <1>4, Zenon
      <4> QED
        BY <2>1, <2>8, <4>1, StandInj, Zenon
    <3>6. w.forward[Stand(q, a)][i] = z.forward[Stand(q, a)][i]
      BY <1>4, <2>4, <3>5, Zenon
    <3> QED
      BY <2>1, <2>3, <2>5, <3>2, <3>3, <3>4, <3>6, Zenon
  <2> QED
    BY <2>7, <2>8, Zenon
<1>10. ASSUME NEW i \in Levels, NEW y \in Node, y \notin Used(w) \/ ~(w.node[y].level > i)
       PROVE  w.forward[y][i] = NULL
  <2>1. y \in Place
    BY Zenon DEF Place
  <2>2. CASE y = q[k]
    BY <1>4, <2>1, <2>2, Zenon
  <2>3. CASE y # q[k]
    <3>1. w.node[y] = z.node[y]
      BY <1>3, <2>3, Zenon DEF ZType
    <3>2. y \notin Used(z) \/ ~(z.node[y].level > i)
      BY <1>1, <1>10, <2>3, <3>1, Zenon
    <3>3. ~(i < H /\ y = Stand(q, pr[i]))
      <4> SUFFICES ASSUME i < H, y = Stand(q, pr[i]) PROVE FALSE
        BY Zenon
      <4>1. pr[i] \in 0 .. N /\ (pr[i] = 0 \/ Height(z, q, pr[i]) > i)
        BY <1>4, Zenon DEF IsPrec, Stands
      <4>2. pr[i] # 0 /\ y = q[pr[i]] /\ y \in Used(z)
        BY <4>1, StandPlace, Zenon
      <4> QED
        BY <3>2, <4>1, <4>2, Zenon DEF Height
    <3>4. w.forward[y][i] = z.forward[y][i]
      BY <1>4, <2>1, <2>3, <3>3, Zenon
    <3> QED
      BY <3>2, <3>4, Zenon DEF ZForward
  <2> QED
    BY <2>2, <2>3, Zenon
<1> QED
  BY <1>2, <1>9, <1>10, Zenon DEF ZForward

(* After zsl_delete the backward pointers still lead through the order in  *)
(* reverse.                                                                *)
LEMMA DelBackKept ==
    ASSUME NEW z, NEW q, ZType(z, q), ZBack(z, q), NEW w, NEW k, NEW pr,
           IsDeleted(w, z, q, k, pr), NEW r, IsClosed(r, q, k)
    PROVE  ZBack(w, r)
<1> DEFINE N == Len(q)
<1>1. Used(w) = Used(z) \ {q[k]}
  BY DelType
<1>2. k \in 1 .. N
  BY Zenon DEF IsDeleted, DelNode
<1>3. /\ \A y \in Node : w.backward[y] = IF y = q[k] THEN NULL
                                         ELSE IF y = At(q, k + 1) THEN At(q, k - 1) ELSE z.backward[y]
      /\ w.tail = IF k = N THEN At(q, k - 1) ELSE z.tail
  BY Zenon DEF IsDeleted, DelBack
<1>4. /\ Len(r) = N - 1
      /\ \A j \in 1 .. N - 1 : (j < k => r[j] = q[j]) /\ (~(j < k) => r[j] = q[j + 1])
  BY Zenon DEF IsClosed
<1>5. N \in Nat /\ \A j \in 1 .. N : q[j] \in Node /\ q[j] \in Used(z)
  BY ZFacts, Zenon
<1>6. \A i, j \in 1 .. N : q[i] = q[j] => i = j
  BY Zenon DEF ZType, Distinct
<1>7. /\ \A j \in 1 .. N : z.backward[q[j]] = At(q, j - 1)
      /\ \A x \in Node \ Used(z) : z.backward[x] = NULL
      /\ z.tail = At(q, N)
  BY Zenon DEF ZBack
<1>8. \A e \in 0 .. N + 1 : e # k => At(r, Earlier(e, k)) = At(q, e)
  BY <1>2, <1>5, EarlierAt
<1>9. ASSUME NEW j \in 1 .. N - 1 PROVE w.backward[r[j]] = At(r, j - 1)
  <2> DEFINE l == Later(j, k)
  <2>1. l \in 1 .. N /\ l # k /\ r[j] = q[l]
    <3>1. l \in 1 .. N /\ l # k
      BY <1>2, <1>5 DEF Later
    <3> QED
      BY <1>4, <3>1, Zenon DEF Later
  <2>2. q[l] # q[k] /\ q[l] \in Node
    BY <1>2, <1>5, <1>6, <2>1, Zenon
  <2>3. CASE l = k + 1
    <3>1. /\ k - 1 \in 0 .. N + 1 /\ k - 1 # k /\ Earlier(k - 1, k) = j - 1
      BY <1>2, <1>5, <2>1, <2>3 DEF Earlier, Later
    <3>2. q[l] = At(q, k + 1)
      BY <2>1, <2>3, Zenon DEF At
    <3>3. w.backward[q[l]] = At(q, k - 1)
      BY <1>3, <2>2, <3>2, Zenon
    <3> QED
      BY <1>8, <2>1, <3>1, <3>3, Zenon
  <2>4. CASE l # k + 1
    <3>1. l - 1 \in 0 .. N + 1 /\ l - 1 # k /\ Earlier(l - 1, k) = j - 1
      BY <1>2, <1>5, <2>1, <2>4 DEF Earlier, Later
    <3> HIDE DEF l
    <3>2. q[l] # At(q, k + 1)
      <4>1. q[l] # NULL
        BY <2>2, NullIsNone, Zenon
      <4>2. k + 1 \in 1 .. N => q[l] # q[k + 1]
        BY <1>6, <2>1, <2>4, Zenon
      <4> QED
        BY <4>1, <4>2, Zenon DEF At
    <3>3. w.backward[q[l]] = z.backward[q[l]]
      BY <1>3, <2>2, <3>2, Zenon
    <3> QED
      BY <1>7, <1>8, <2>1, <3>1, <3>3, Zenon
  <2> QED
    BY <2>3, <2>4, Zenon
<1>10. ASSUME NEW x \in Node \ Used(w) PROVE w.backward[x] = NULL
  <2>1. CASE x = q[k]
    BY <1>3, <2>1, Zenon
  <2>2. CASE x # q[k]
    <3>1. x \in Node /\ x \notin Used(z)
      BY <1>1, <2>2, Zenon
    <3>2. x # At(q, k + 1)
      <4>1. x # NULL
        BY <3>1, NullIsNone, Zenon
      <4> QED
        BY <1>5, <3>1, <4>1, Zenon DEF At
    <3> QED
      BY <1>3, <1>7, <2>2, <3>1, <3>2, Zenon
  <2> QED
    BY <2>1, <2>2, Zenon
<1>11. w.tail = At(r, N - 1)
  <2>1. CASE k = N
    <3>1. k - 1 \in 0 .. N + 1 /\ k - 1 # k /\ Earlier(k - 1, k) = N - 1
      BY <1>2, <1>5, <2>1 DEF Earlier
    <3> QED
      BY <1>3, <1>8, <2>1, <3>1, Zenon
  <2>2. CASE k # N
    <3>1. N \in 0 .. N + 1 /\ Earlier(N, k) = N - 1
      BY <1>2, <1>5, <2>2 DEF Earlier
    <3> QED
      BY <1>3, <1>7, <1>8, <2>2, <3>1, Zenon
  <2> QED
    BY <2>1, <2>2, Zenon
<1> QED
  BY <1>4, <1>9, <1>10, <1>11, Zenon DEF ZBack

(* A level is empty when the header has no pointer on it.                  *)
LEMMA EmptyLevel ==
    ASSUME NEW z, NEW q, q \in Seq(Node), ZForward(z, q), NEW i \in Levels
    PROVE  z.forward[Header][i] = NULL <=> \A j \in 1 .. Len(q) : ~(Height(z, q, j) > i)
<1> DEFINE N == Len(q)
<1>1. N \in Nat /\ \A j \in 1 .. N : q[j] \in Node
  BY InRange, Zenon
<1>2. 0 \in 0 .. N /\ Stands(z, q, 0, i) /\ Stand(q, 0) = Header
  <2>1. 0 \in 0 .. N
    BY <1>1
  <2> QED
    BY <2>1, Zenon DEF Stands, Stand
<1>3. PICK e \in 1 .. N + 1 : IsNext(z, q, 0, i, e) /\ z.forward[Header][i] = At(q, e)
  BY <1>2, Zenon DEF ZForward
<1>4. (e <= N => Height(z, q, e) > i) /\ \A j \in 0 + 1 .. e - 1 : ~(Height(z, q, j) > i)
  BY <1>3, Zenon DEF IsNext
<1>5. CASE e <= N
  <2>1. e \in 1 .. N
    BY <1>1, <1>5
  <2>2. At(q, e) # NULL
    BY <1>1, <2>1, NullIsNone, Zenon DEF At
  <2> QED
    BY <1>3, <1>4, <1>5, <2>1, <2>2, Zenon
<1>6. CASE ~(e <= N)
  <2>1. ~(e \in 1 .. N) /\ \A j \in 1 .. N : j \in 0 + 1 .. e - 1
    BY <1>1, <1>6
  <2> QED
    BY <1>3, <1>4, <2>1, Zenon DEF At
<1> QED
  BY <1>5, <1>6, Zenon

(* Once zsl_delete has lowered the level it is the height of the tallest   *)
(* node again.                                                             *)
LEMMA DelLevelKept ==
    ASSUME NEW z, NEW q, ZType(z, q), ZLevel(z, q), NEW w, NEW k, NEW pr,
           IsDeleted(w, z, q, k, pr), NEW r, IsClosed(r, q, k),
           ZForward(w, r), Sunk(w, r, z, q, k)
    PROVE  w.level \in 1 .. MAXLEVEL /\ ZLevel(w, r)
<1> DEFINE N == Len(q)
           L == z.level
           fwd == w.forward
           Tall(i) == \E j \in 1 .. Len(r) : Height(w, r, j) > i
           Fits(l) == /\ l = 1 \/ fwd[Header][l - 1] # NULL
                      /\ \A l1 \in l + 1 .. L : fwd[Header][l1 - 1] = NULL
           T == {l \in Nat : l \in 1 .. L /\ ~Tall(l)}
<1>1. N \in Nat /\ L \in Nat /\ L >= 1 /\ MAXLEVEL \in Nat /\ L <= MAXLEVEL
  BY ZFacts, LevelFacts, Zenon
<1>2. r \in Seq(Node) /\ Len(r) = N - 1 /\ k \in 1 .. N
  BY Zenon DEF IsClosed, IsDeleted, DelNode
<1>3. \A i \in Levels : fwd[Header][i] = NULL <=> ~Tall(i)
  BY <1>2, EmptyLevel, Zenon
<1>4. \A l \in 1 .. L : l - 1 \in Levels
  BY <1>1 DEF Levels
<1>5. \A j \in 1 .. N - 1 : Height(w, r, j) \in 1 .. MAXLEVEL /\ ~(Height(w, r, j) > L)
  <2>1. \A j \in 1 .. N - 1 : Later(j, k) \in 1 .. N
    BY <1>1, <1>2 DEF Later
  <2>2. \A j \in 1 .. N : Height(z, q, j) \in 1 .. MAXLEVEL /\ ~(Height(z, q, j) > L)
    BY ZFacts, Zenon DEF ZLevel
  <2> QED
    BY <2>1, <2>2, Zenon DEF Sunk
<1>6. PICK l \in T : \A y \in T : l <= y
  <2>1. L \in 1 .. L
    BY <1>1
  <2>2. L \in T
    BY <1>1, <1>2, <1>5, <2>1, Zenon
  <2>3. T \in SUBSET Nat /\ T # {}
    BY <2>2, Zenon
  <2> HIDE DEF T
  <2> QED
    BY <2>3, LeastNat, Zenon
<1>7. l \in 1 .. L /\ ~Tall(l)
  BY Zenon
<1>8. Fits(l)
  <2>1. ASSUME l # 1 PROVE fwd[Header][l - 1] # NULL
    <3>1. l - 1 \in Nat /\ l - 1 \in 1 .. L /\ ~(l <= l - 1)
      BY <1>1, <1>7, <2>1
    <3>2. Tall(l - 1)
      BY <1>6, <3>1, Zenon
    <3> QED
      BY <1>3, <1>4, <1>7, <3>2, Zenon
  <2>2. ASSUME NEW l1 \in l + 1 .. L PROVE fwd[Header][l1 - 1] = NULL
    <3>1. l1 \in 1 .. L
      BY <1>1, <1>7
    <3>2. ~Tall(l1 - 1)
      <4> SUFFICES ASSUME NEW j \in 1 .. Len(r), Height(w, r, j) > l1 - 1 PROVE FALSE
        BY Zenon
      <4>1. ~(Height(w, r, j) > l) /\ Height(w, r, j) \in 1 .. MAXLEVEL
        BY <1>2, <1>5, <1>7, Zenon
      <4> QED
        BY <1>1, <1>7, <4>1
    <3> QED
      BY <1>3, <1>4, <3>1, <3>2, Zenon
  <2> QED
    BY <2>1, <2>2, Zenon
<1>9. w.level = CHOOSE l1 \in 1 .. L : Fits(l1)
  BY Zenon DEF IsDeleted, Lowered
<1> DEFINE v == w.level
<1>10. v \in 1 .. L /\ Fits(v)
  <2> HIDE DEF Fits
  <2> QED
    BY <1>7, <1>8, <1>9, Zenon
<1> HIDE DEF v
<1>11. v \in 1 .. MAXLEVEL
  BY <1>1, <1>10
<1>12. ASSUME NEW j \in 1 .. Len(r) PROVE ~(Height(w, r, j) > v)
  <2> SUFFICES ASSUME Height(w, r, j) > v PROVE FALSE
    BY Zenon
  <2>1. Height(w, r, j) \in 1 .. MAXLEVEL /\ ~(Height(w, r, j) > L)
    BY <1>2, <1>5, Zenon
  <2>2. v + 1 \in v + 1 .. L /\ (v + 1) - 1 = v /\ v + 1 \in 1 .. L
    BY <1>1, <1>10, <2>1
  <2>3. fwd[Header][v] = NULL /\ v \in Levels
    <3>1. fwd[Header][(v + 1) - 1] = NULL /\ (v + 1) - 1 \in Levels
      BY <1>4, <1>10, <2>2, Zenon
    <3> QED
      BY <2>2, <3>1, Zenon
  <2> QED
    BY <1>3, <2>3, Zenon
<1>13. v = 1 \/ \E j \in 1 .. Len(r) : Height(w, r, j) = v
  <2> SUFFICES ASSUME v # 1 PROVE \E j \in 1 .. Len(r) : Height(w, r, j) = v
    BY Zenon
  <2>1. fwd[Header][v - 1] # NULL /\ v - 1 \in Levels
    BY <1>4, <1>10, Zenon
  <2>2. PICK j \in 1 .. Len(r) : Height(w, r, j) > v - 1
    BY <1>3, <2>1, Zenon
  <2>3. ~(Height(w, r, j) > v) /\ Height(w, r, j) \in 1 .. MAXLEVEL
    BY <1>2, <1>5, <1>12, Zenon
  <2>4. Height(w, r, j) = v
    BY <1>1, <1>11, <2>2, <2>3
  <2> QED
    BY <2>4, Zenon
<1> QED
  BY <1>11, <1>12, <1>13, Zenon DEF ZLevel, v

(* After zsl_delete the order is still that of scores and members.         *)
LEMMA DelSortedKept ==
    ASSUME NEW z, NEW q, ZType(z, q), ZSorted(z, q), NEW w, NEW k, NEW pr,
           IsDeleted(w, z, q, k, pr), NEW r, IsClosed(r, q, k)
    PROVE  ZSorted(w, r)
<1>1. IsDropped(w, r, z, q, k)
  BY DelType
<1>2. Len(q) \in Nat /\ Len(r) = Len(q) - 1 /\ k \in 1 .. Len(q)
  BY ZFacts, Zenon DEF IsClosed, IsDeleted, DelNode
<1>3. ASSUME NEW i \in 1 .. Len(r), NEW j \in 1 .. Len(r), i < j
      PROVE  ~NodeBefore(w, r[j], w.node[r[i]].score, w.node[r[i]].member)
  <2> DEFINE a == Later(i, k)
             b == Later(j, k)
  <2>1. a < b
    BY <1>2, <1>3 DEF Later
  <2>2. a \in 1 .. Len(q) /\ b \in 1 .. Len(q) /\ w.node[r[i]] = z.node[q[a]] /\ w.node[r[j]] = z.node[q[b]]
    BY <1>1, <1>2, Zenon DEF IsDropped
  <2> HIDE DEF a, b
  <2> QED
    BY <2>1, <2>2, Zenon DEF ZSorted, NodeBefore
<1> QED
  BY <1>3, Zenon DEF ZSorted

(* zsl_delete makes a skip list of a skip list, also when the member has   *)
(* several nodes.                                                          *)
LEMMA DeleteKeeps ==
    ASSUME NEW z, NEW q, ZInv(z, q), NEW m, Found(z, m) # NULL
    PROVE  \E r : ZInv(zsl_delete(z, m), r)
<1> DEFINE w == zsl_delete(z, m)
<1>1. PICK k, pr : IsDeleted(w, z, q, k, pr)
  BY Deleted, Zenon
<1> HIDE DEF w
<1>2. ZType(z, q) /\ ZForward(z, q) /\ ZBack(z, q) /\ ZSorted(z, q) /\ ZLevel(z, q)
  BY Zenon DEF ZInv
<1>3. PICK r : IsClosed(r, q, k)
  <2>1. q \in Seq(Node) /\ Distinct(q) /\ k \in 1 .. Len(q)
    BY <1>1, <1>2, Zenon DEF ZType, IsDeleted, DelNode
  <2> QED
    BY <2>1, Closed, Zenon
<1>4. ZForward(w, r) /\ Sunk(w, r, z, q, k)
  BY <1>1, <1>2, <1>3, DelForwardKept
<1>5. w.level \in 1 .. MAXLEVEL /\ ZLevel(w, r)
  BY <1>1, <1>2, <1>3, <1>4, DelLevelKept
<1>6. ZType(w, r)
  BY <1>1, <1>2, <1>3, <1>5, DelType
<1>7. ZBack(w, r) /\ ZSorted(w, r)
  BY <1>1, <1>2, <1>3, DelBackKept, DelSortedKept
<1>8. ZInv(w, r)
  BY <1>4, <1>5, <1>6, <1>7, Zenon DEF ZInv
<1> QED
  BY <1>8, Zenon DEF w

(* zsl_create makes a skip list without nodes.                             *)
LEMMA CreateKeeps == ZInv(zsl_create, <<>>)
<1> DEFINE z == zsl_create
           q == <<>>
<1>1. /\ z.node = [n \in Node |-> Free]
      /\ z.forward = [x \in Place |-> [i \in Levels |-> NULL]]
      /\ z.backward = [n \in Node |-> NULL] /\ z.tail = NULL /\ z.level = 1 /\ z.length = 0
  BY Zenon DEF zsl_create, Place
<1> HIDE DEF z
<1>2. q \in Seq(Node) /\ Len(q) = 0 /\ \A j \in 1 .. 0 : FALSE
  OBVIOUS
<1>3. Range(q) = {}
  <2>1. \A x \in Range(q) : \E i \in 1 .. Len(q) : x = q[i]
    BY <1>2, InRange, Zenon
  <2> QED
    BY <1>2, <2>1, Zenon
<1>4. Used(z) = {}
  BY <1>1, Zenon DEF Used
<1> HIDE DEF q
<1>5. Distinct(q)
  BY <1>2, Zenon DEF Distinct
<1>6. NULL \in Ptr /\ 1 \in 1 .. MAXLEVEL
  <2>1. 1 \in 1 .. MAXLEVEL
    BY SkipListAssumption
  <2> QED
    BY <2>1, NullIsNone, Zenon
<1>7. \A x \in Place : \A i \in Levels : z.forward[x][i] = NULL
  <2>1. \A x \in Place : z.forward[x] = [i \in Levels |-> NULL]
    BY <1>1, Zenon
  <2> QED
    BY <2>1
<1>8. ZType(z, q)
  <2>1. z.node \in [Node -> ZNode \cup {Free}]
    BY <1>1, Zenon
  <2>2. z.forward \in [Place -> [Levels -> Ptr]] /\ z.backward \in [Node -> Ptr]
    BY <1>1, <1>6, Zenon
  <2> QED
    BY <1>1, <1>2, <1>3, <1>4, <1>5, <1>6, <2>1, <2>2, Zenon DEF ZType
<1>9. ZForward(z, q)
  <2>1. ASSUME NEW i \in Levels, NEW p \in 0 .. Len(q)
        PROVE  IsNext(z, q, p, i, 1) /\ z.forward[Stand(q, p)][i] = At(q, 1) /\ 1 \in 1 .. Len(q) + 1
    <3>1. /\ p = 0 /\ 1 \in p + 1 .. Len(q) + 1 /\ ~(1 <= Len(q)) /\ ~(1 \in 1 .. Len(q))
          /\ 1 \in 1 .. Len(q) + 1 /\ \A j \in p + 1 .. 1 - 1 : FALSE
      BY <1>2
    <3>2. IsNext(z, q, p, i, 1)
      BY <3>1, Zenon DEF IsNext
    <3>3. Header \in Place
      BY Zenon DEF Place
    <3>4. z.forward[Stand(q, p)][i] = NULL
      BY <1>7, <3>1, <3>3, Zenon DEF Stand
    <3> QED
      BY <3>1, <3>2, <3>4, Zenon DEF At
  <2>2. \A i \in Levels : \A n \in Node : z.forward[n][i] = NULL
    BY <1>7, Zenon DEF Place
  <2> QED
    BY <2>1, <2>2, Zenon DEF ZForward
<1>10. ZBack(z, q)
  <2>1. ~(Len(q) \in 1 .. Len(q))
    BY <1>2
  <2> QED
    BY <1>1, <1>2, <2>1, Zenon DEF ZBack, At
<1>11. ZSorted(z, q) /\ ZLevel(z, q)
  BY <1>1, <1>2, Zenon DEF ZSorted, ZLevel
<1>12. ZInv(z, q)
  BY <1>8, <1>9, <1>10, <1>11, Zenon DEF ZInv
<1> QED
  BY <1>12, Zenon DEF z, q

(* The inductive invariant: the object of the key, if it is a sorted set,  *)
(* is a skip list whose pointers, heights and counts all follow from one   *)
(* order of its nodes.                                                     *)
ZSetInv == Is("zset") => \E q : ZInv(obj.ptr, q)

(* What a command on a sorted set finds or makes is a skip list.           *)
LEMMA ZSetHas ==
    ASSUME ZSetInv
    PROVE  \E q : ZInv(ZSet, q)
  BY CreateKeeps, Zenon DEF ZSetInv, ZSet, Ensured

(* g lists the places up to p whose nodes reach level i.                   *)
Picks(g, z, q, i, p) ==
    /\ g \in Seq(1 .. Len(q))
    /\ \A a, b \in 1 .. Len(g) : a < b => g[a] < g[b]
    /\ \A a \in 1 .. Len(g) : ~(g[a] > p) /\ Height(z, q, g[a]) > i
    /\ \A j \in 1 .. p : Height(z, q, j) > i => \E a \in 1 .. Len(g) : g[a] = j

(* There is such a list of places.                                         *)
LEMMA PicksOf ==
    ASSUME NEW z, NEW q, Len(q) \in Nat, NEW i
    PROVE  \E g : Picks(g, z, q, i, Len(q))
<1> DEFINE N == Len(q)
           T == {p \in Nat : p <= N => \E g : Picks(g, z, q, i, p)}
<1>1. 0 \in T
  <2> DEFINE g == <<>>
  <2>1. g \in Seq(1 .. Len(q)) /\ (\A a \in 1 .. Len(g) : FALSE) /\ \A j \in 1 .. 0 : FALSE
    OBVIOUS
  <2> HIDE DEF g
  <2>2. Picks(g, z, q, i, 0)
    BY <2>1, Zenon DEF Picks
  <2> QED
    BY <2>2, Zenon
<1>2. ASSUME NEW p \in Nat, p \in T, p + 1 <= N PROVE \E g : Picks(g, z, q, i, p + 1)
  <2>1. p <= N /\ p + 1 \in 1 .. N
    BY <1>2
  <2>2. PICK g : Picks(g, z, q, i, p)
    BY <1>2, <2>1, Zenon
  <2>3. /\ g \in Seq(1 .. N)
        /\ \A a, b \in 1 .. Len(g) : a < b => g[a] < g[b]
        /\ \A a \in 1 .. Len(g) : ~(g[a] > p) /\ Height(z, q, g[a]) > i
        /\ \A j \in 1 .. p : Height(z, q, j) > i => \E a \in 1 .. Len(g) : g[a] = j
    BY <2>2, Zenon DEF Picks
  <2>4. Len(g) \in Nat /\ \A a \in 1 .. Len(g) : g[a] \in 1 .. N
    BY <2>3
  <2>5. \A a \in 1 .. Len(g) : ~(g[a] > p + 1)
    BY <2>3, <2>4
  <2>6. \A j \in 1 .. p + 1 : j = p + 1 \/ j \in 1 .. p
    OBVIOUS
  <2>7. CASE ~(Height(z, q, p + 1) > i)
    <3>1. Picks(g, z, q, i, p + 1)
      BY <2>3, <2>5, <2>6, <2>7, Zenon DEF Picks
    <3> QED
      BY <3>1, Zenon
  <2>8. CASE Height(z, q, p + 1) > i
    <3> DEFINE f == Append(g, p + 1)
               M == Len(g)
    <3>1. /\ f \in Seq(1 .. N) /\ Len(f) = M + 1 /\ f[M + 1] = p + 1
          /\ \A a \in 1 .. M : f[a] = g[a]
      BY <2>1, <2>3
    <3> HIDE DEF f
    <3>2. /\ \A a \in 1 .. M + 1 : a = M + 1 \/ a \in 1 .. M
          /\ \A a \in 1 .. M : a \in 1 .. M + 1
          /\ M + 1 \in 1 .. M + 1 /\ ~(p + 1 > p + 1)
          /\ \A a, b \in 1 .. M + 1 : a < b => a \in 1 .. M
      BY <2>4
    <3>3. \A a \in 1 .. M : f[a] < p + 1
      <4>1. \A a \in 1 .. M : g[a] < p + 1
        BY <2>3, <2>4
      <4> QED
        BY <3>1, <4>1, Zenon
    <3>4. \A a \in 1 .. M + 1 : ~(f[a] > p + 1) /\ Height(z, q, f[a]) > i
      BY <2>3, <2>5, <2>8, <3>1, <3>2, Zenon
    <3>5. ASSUME NEW a \in 1 .. M + 1, NEW b \in 1 .. M + 1, a < b PROVE f[a] < f[b]
      <4>1. a \in 1 .. M
        BY <3>2, <3>5, Zenon
      <4>2. CASE b = M + 1
        BY <3>1, <3>3, <4>1, <4>2, Zenon
      <4>3. CASE b \in 1 .. M
        BY <2>3, <3>1, <3>5, <4>1, <4>3, Zenon
      <4> QED
        BY <3>2, <4>2, <4>3, Zenon
    <3>6. \A j \in 1 .. p + 1 : Height(z, q, j) > i => \E a \in 1 .. M + 1 : f[a] = j
      <4> SUFFICES ASSUME NEW j \in 1 .. p + 1, Height(z, q, j) > i
                   PROVE  \E a \in 1 .. M + 1 : f[a] = j
        BY Zenon
      <4>1. CASE j = p + 1
        BY <3>1, <3>2, <4>1, Zenon
      <4>2. CASE j \in 1 .. p
        <5>1. PICK a \in 1 .. M : g[a] = j
          BY <2>3, <4>2, Zenon
        <5> QED
          BY <3>1, <3>2, <5>1, Zenon
      <4> QED
        BY <2>6, <4>1, <4>2, Zenon
    <3>7. Picks(f, z, q, i, p + 1)
      BY <3>1, <3>4, <3>5, <3>6, Zenon DEF Picks
    <3> QED
      BY <3>7, Zenon
  <2> QED
    BY <2>7, <2>8, Zenon
<1>3. \A p \in Nat : p \in T => p + 1 \in T
  <2> TAKE p \in Nat
  <2>1. p + 1 \in Nat
    OBVIOUS
  <2> QED
    BY <1>2, <2>1, Zenon
<1>4. \A p \in Nat : p \in T
  <2> HIDE DEF T
  <2> QED
    BY <1>1, <1>3, NatInduct, Zenon
<1>5. N <= N
  OBVIOUS
<1> QED
  BY <1>4, <1>5, Zenon

(* From a place that g lists, or from the header's, the next on level i is *)
(* the next that g lists.                                                  *)
LEMMA NextPick ==
    ASSUME NEW z, NEW q, ZType(z, q), ZForward(z, q), NEW i \in Levels, NEW g,
           Picks(g, z, q, i, Len(q)), NEW p \in 0 .. Len(q), NEW a \in 0 .. Len(g),
           a = 0 => p = 0, a # 0 => p = g[a]
    PROVE  z.forward[Stand(q, p)][i] = IF a = Len(g) THEN NULL ELSE q[g[a + 1]]
<1> DEFINE N == Len(q)
           M == Len(g)
<1>1. /\ g \in Seq(1 .. N)
      /\ \A b, c \in 1 .. M : b < c => g[b] < g[c]
      /\ \A b \in 1 .. M : Height(z, q, g[b]) > i
      /\ \A j \in 1 .. N : Height(z, q, j) > i => \E b \in 1 .. M : g[b] = j
  BY Zenon DEF Picks
<1>2. N \in Nat /\ M \in Nat /\ \A b \in 1 .. M : g[b] \in 1 .. N
  BY <1>1, ZFacts, SeqFacts, Zenon
<1>3. a # 0 => a \in 1 .. M
  BY <1>2
<1>4. Stands(z, q, p, i)
  BY <1>1, <1>3, Zenon DEF Stands
<1>5. PICK e \in 1 .. N + 1 : IsNext(z, q, p, i, e) /\ z.forward[Stand(q, p)][i] = At(q, e)
  BY <1>4, Zenon DEF ZForward
<1>6. /\ e \in p + 1 .. N + 1 /\ (e <= N => Height(z, q, e) > i)
      /\ \A j \in p + 1 .. e - 1 : ~(Height(z, q, j) > i)
  BY <1>5, Zenon DEF IsNext
<1>7. ASSUME NEW b \in 1 .. M, a < b PROVE p < g[b] /\ ~(g[b] < e)
  <2>1. p < g[b]
    <3>1. CASE a = 0
      BY <1>2, <3>1
    <3>2. CASE a # 0
      BY <1>1, <1>3, <1>7, <3>2, Zenon
    <3> QED
      BY <3>1, <3>2, Zenon
  <2>2. g[b] < e => g[b] \in p + 1 .. e - 1
    BY <1>2, <1>6, <2>1
  <2> QED
    BY <1>1, <1>6, <2>1, <2>2, Zenon
<1>8. ASSUME NEW b \in 1 .. M, g[b] = e PROVE a < b
  <2>1. CASE a = 0
    BY <1>2, <2>1
  <2>2. CASE a # 0
    <3>1. p < e /\ g[a] \in 1 .. N /\ p = g[a] /\ a \in 1 .. M
      BY <1>2, <1>3, <1>6, <2>2
    <3>2. b < a => g[b] < g[a]
      BY <1>1, <3>1, Zenon
    <3>3. a # b
      BY <1>2, <1>8, <3>1
    <3> QED
      BY <1>2, <1>6, <1>8, <3>1, <3>2, <3>3
  <2> QED
    BY <2>1, <2>2, Zenon
<1>9. CASE a = M
  <2>1. ~(e <= N)
    <3> SUFFICES ASSUME e <= N PROVE FALSE
      BY Zenon
    <3>1. e \in 1 .. N
      BY <1>2, <1>6
    <3>2. PICK b \in 1 .. M : g[b] = e
      BY <1>1, <1>6, <3>1, Zenon
    <3>3. a < b
      BY <1>8, <3>2, Zenon
    <3> QED
      BY <1>2, <1>9, <3>3
  <2>2. ~(e \in 1 .. N)
    BY <1>2, <2>1
  <2> QED
    BY <1>5, <1>9, <2>2, Zenon DEF At
<1>10. CASE a # M
  <2>1. a + 1 \in 1 .. M /\ a < a + 1
    BY <1>2, <1>10
  <2>2. ~(g[a + 1] < e) /\ g[a + 1] \in 1 .. N
    BY <1>2, <1>7, <2>1, Zenon
  <2>3. e \in 1 .. N /\ e <= N
    BY <1>2, <1>6, <2>2
  <2>4. PICK b \in 1 .. M : g[b] = e
    BY <1>1, <1>6, <2>3, Zenon
  <2>5. a < b
    BY <1>8, <2>4, Zenon
  <2>6. a + 1 < b => g[a + 1] < g[b]
    BY <1>1, <2>1, Zenon
  <2>7. a + 1 = b
    BY <1>2, <1>6, <2>1, <2>2, <2>4, <2>5, <2>6
  <2>8. At(q, e) = q[g[a + 1]]
    BY <2>3, <2>4, <2>7, Zenon DEF At
  <2> QED
    BY <1>5, <1>10, <2>8, Zenon
<1> QED
  BY <1>9, <1>10, Zenon

(* The nodes of level i, in the order of the list.                         *)
IsChain(c, z, q, i) ==
    /\ c \in Seq(Node) /\ Distinct(c)
    /\ Range(c) = {n \in Used(z) : z.node[n].level > i}
    /\ \A a, b \in 1 .. Len(c) : a < b =>
         \E j, k \in 1 .. Len(q) : j < k /\ c[a] = q[j] /\ c[b] = q[k]

(* The forward pointers of level i meet the nodes that reach it, in the    *)
(* order of the list.                                                      *)
LEMMA ChainIs ==
    ASSUME NEW z, NEW q, ZType(z, q), ZForward(z, q), NEW i \in Levels
    PROVE  IsChain(Chain(z, i), z, q, i)
<1> DEFINE N == Len(q)
<1>1. N \in Nat /\ \A j \in 1 .. N : q[j] \in Node /\ q[j] \in Used(z)
  BY ZFacts, Zenon
<1>2. \A x \in Used(z) : \E p \in 1 .. N : x = q[p]
  BY ZFacts
<1>3. PICK g : Picks(g, z, q, i, N)
  BY <1>1, PicksOf, Zenon
<1> DEFINE M == Len(g)
           c == [a \in 1 .. M |-> q[g[a]]]
           next == [x \in Node |-> z.forward[x][i]]
<1>4. /\ g \in Seq(1 .. N)
      /\ \A a, b \in 1 .. M : a < b => g[a] < g[b]
      /\ \A a \in 1 .. M : Height(z, q, g[a]) > i
      /\ \A j \in 1 .. N : Height(z, q, j) > i => \E a \in 1 .. M : g[a] = j
  BY <1>3, Zenon DEF Picks
<1>5. M \in Nat /\ \A a \in 1 .. M : g[a] \in 1 .. N
  BY <1>4
<1>6. /\ c \in [1 .. M -> Node] /\ \A a \in 1 .. M : c[a] = q[g[a]]
  BY <1>1, <1>5, Zenon
<1> HIDE DEF c
<1>7. c \in Seq(Node) /\ Len(c) = M
  BY <1>5, <1>6, SeqOf, Zenon
<1>8. ASSUME NEW a \in 1 .. M, NEW b \in 1 .. M, c[a] = c[b] PROVE a = b
  <2>1. g[a] = g[b]
    <3>1. q[g[a]] = q[g[b]] /\ g[a] \in 1 .. N /\ g[b] \in 1 .. N
      BY <1>5, <1>6, <1>8, Zenon
    <3>2. \A j, k \in 1 .. N : q[j] = q[k] => j = k
      BY Zenon DEF ZType, Distinct
    <3> QED
      BY <3>1, <3>2, Zenon
  <2>2. ~(a < b) /\ ~(b < a)
    <3>1. (a < b => g[a] < g[b]) /\ (b < a => g[b] < g[a]) /\ g[a] \in 1 .. N /\ g[b] \in 1 .. N
      BY <1>4, <1>5, Zenon
    <3> QED
      BY <1>1, <2>1, <3>1
  <2> QED
    BY <1>5, <2>2
<1>9. Distinct(c)
  BY <1>7, <1>8, Zenon DEF Distinct
<1>10. \A x \in Range(c) : \E a \in 1 .. M : x = c[a]
  BY <1>7, InRange, Zenon
<1>11. \A a \in 1 .. M : c[a] \in Range(c)
  BY <1>7, InRange, Zenon
<1>12. Range(c) = {n \in Used(z) : z.node[n].level > i}
  <2>1. \A a \in 1 .. M : c[a] \in Used(z) /\ z.node[c[a]].level > i
    BY <1>1, <1>4, <1>5, <1>6, Zenon DEF Height
  <2>2. ASSUME NEW n \in Used(z), z.node[n].level > i PROVE n \in Range(c)
    <3>1. PICK j \in 1 .. N : n = q[j]
      BY <1>2, Zenon
    <3>2. PICK a \in 1 .. M : g[a] = j
      BY <1>4, <2>2, <3>1, Zenon DEF Height
    <3> QED
      BY <1>6, <1>11, <3>1, <3>2, Zenon
  <2> QED
    BY <1>10, <2>1, <2>2, Zenon
<1>13. \A a, b \in 1 .. M : a < b =>
         \E j, k \in 1 .. N : j < k /\ c[a] = q[j] /\ c[b] = q[k]
  BY <1>4, <1>5, <1>6, Zenon
<1>14. next \in [Node -> Ptr] /\ \A x \in Node : next[x] = z.forward[x][i]
  <2>1. \A x \in Node : z.forward[x][i] \in Ptr
    BY Zenon DEF ZType, Place
  <2> QED
    BY <2>1, Zenon
<1>15. Chain(z, i) = Trace(next, z.forward[Header][i])
  BY Zenon DEF Chain
<1> HIDE DEF next
<1>16. z.forward[Header][i] = At(c, 1)
  <2>1. 0 \in 0 .. N /\ 0 \in 0 .. M
    BY <1>1, <1>5
  <2>2. z.forward[Stand(q, 0)][i] = IF 0 = M THEN NULL ELSE q[g[0 + 1]]
    BY <1>3, <2>1, NextPick
  <2>3. (0 = M <=> ~(1 \in 1 .. M)) /\ 0 + 1 = 1
    BY <1>5
  <2> QED
    BY <1>6, <1>7, <2>2, <2>3, Zenon DEF Stand, At
<1>17. ASSUME NEW a \in 1 .. M PROVE next[c[a]] = At(c, a + 1)
  <2> DEFINE p == g[a]
  <2>1. a \in 0 .. M /\ a # 0 /\ p \in 0 .. N /\ p # 0
    <3>1. p \in 1 .. N
      BY <1>5, Zenon
    <3> QED
      BY <1>1, <1>5, <3>1
  <2>2. z.forward[Stand(q, p)][i] = IF a = M THEN NULL ELSE q[g[a + 1]]
    BY <1>3, <2>1, NextPick
  <2>3. a = M <=> ~(a + 1 \in 1 .. M)
    BY <1>5
  <2>4. c[a] \in Node /\ c[a] = Stand(q, p)
    BY <1>6, <2>1, Zenon DEF Stand
  <2> HIDE DEF p
  <2> QED
    BY <1>6, <1>7, <1>14, <2>2, <2>3, <2>4, Zenon DEF At
<1>18. ASSUME NEW n \in Node \ Range(c) PROVE next[n] = NULL
  <2>1. n \notin Used(z) \/ ~(z.node[n].level > i)
    BY <1>12, Zenon
  <2> QED
    BY <1>14, <2>1, Zenon DEF ZForward
<1>19. Thread(next, z.forward[Header][i], c)
  BY <1>7, <1>9, <1>14, <1>16, <1>17, <1>18, Zenon DEF Thread
<1>20. Chain(z, i) = c
  BY <1>15, <1>19, TraceIs, Zenon
<1>21. IsChain(c, z, q, i)
  BY <1>7, <1>9, <1>12, <1>13 DEF IsChain
<1> QED
  BY <1>20, <1>21, Zenon

(* The forward pointers of level 0 meet the whole order.                   *)
LEMMA GroundIs ==
    ASSUME NEW z, NEW q, ZType(z, q), ZForward(z, q)
    PROVE  Chain(z, 0) = q
<1> DEFINE N == Len(q)
           next == [x \in Node |-> z.forward[x][0]]
<1>1. N \in Nat /\ \A j \in 1 .. N : q[j] \in Node /\ q[j] \in Used(z)
  BY ZFacts, Zenon
<1>2. q \in Seq(Node) /\ Distinct(q) /\ Range(q) = Used(z)
  BY Zenon DEF ZType
<1>3. 0 \in Levels
  BY LevelFacts, Zenon
<1>4. next \in [Node -> Ptr] /\ \A x \in Node : next[x] = z.forward[x][0]
  <2>1. \A x \in Node : z.forward[x][0] \in Ptr
    BY <1>3, Zenon DEF ZType, Place
  <2> QED
    BY <2>1, Zenon
<1>5. Chain(z, 0) = Trace(next, z.forward[Header][0])
  BY Zenon DEF Chain
<1> HIDE DEF next
<1>6. \A p \in 0 .. N : z.forward[Stand(q, p)][0] = At(q, p + 1)
  BY NextOnGround, Zenon
<1>7. z.forward[Header][0] = At(q, 1)
  <2>1. 0 \in 0 .. N /\ 0 + 1 = 1
    BY <1>1
  <2>2. z.forward[Stand(q, 0)][0] = At(q, 0 + 1)
    BY <1>6, <2>1, Zenon
  <2> QED
    BY <2>1, <2>2, Zenon DEF Stand
<1>8. \A p \in 1 .. N : next[q[p]] = At(q, p + 1)
  <2>1. \A p \in 1 .. N : p \in 0 .. N /\ p # 0
    BY <1>1
  <2> QED
    BY <1>1, <1>4, <1>6, <2>1, Zenon DEF Stand
<1>9. \A n \in Node \ Range(q) : next[n] = NULL
  BY <1>2, <1>3, <1>4, Zenon DEF ZForward
<1>10. Thread(next, z.forward[Header][0], q)
  BY <1>2, <1>4, <1>7, <1>8, <1>9, Zenon DEF Thread
<1> QED
  BY <1>5, <1>10, TraceIs, Zenon

(* q in reverse.                                                           *)
IsReverse(r, q) ==
    /\ r \in Seq(Node) /\ Len(r) = Len(q) /\ Distinct(r) /\ Range(r) = Range(q)
    /\ \A j \in 1 .. Len(q) : /\ Len(q) + 1 - j \in 1 .. Len(q)
                              /\ r[j] = q[Len(q) + 1 - j]

(* Reverse reverses.                                                       *)
LEMMA Reversed ==
    ASSUME NEW q \in Seq(Node), Distinct(q)
    PROVE  IsReverse(Reverse(q), q)
<1> DEFINE N == Len(q)
           r == Reverse(q)
<1>1. N \in Nat /\ \A j \in 1 .. N : q[j] \in Node /\ q[j] \in Range(q)
  BY InRange, Zenon
<1>2. \A j \in 1 .. N : N + 1 - j \in 1 .. N /\ N + 1 - (N + 1 - j) = j
  BY <1>1
<1>3. r \in [1 .. N -> Node] /\ \A j \in 1 .. N : r[j] = q[N + 1 - j]
  BY <1>1, <1>2, Zenon DEF Reverse
<1> HIDE DEF r
<1>4. r \in Seq(Node) /\ Len(r) = N
  BY <1>1, <1>3, SeqOf, Zenon
<1>5. ASSUME NEW i \in 1 .. N, NEW j \in 1 .. N, r[i] = r[j] PROVE i = j
  <2>1. N + 1 - i = N + 1 - j
    BY <1>2, <1>3, <1>5, Zenon DEF Distinct
  <2> QED
    BY <1>1, <2>1
<1>6. Range(r) = Range(q)
  <2>1. /\ \A x \in Range(q) : \E i \in 1 .. N : x = q[i]
        /\ \A x \in Range(r) : \E i \in 1 .. N : x = r[i]
        /\ \A i \in 1 .. N : r[i] \in Range(r)
    BY <1>4, InRange, Zenon
  <2>2. \A i \in 1 .. N : r[i] \in Range(q)
    BY <1>1, <1>2, <1>3, Zenon
  <2>3. ASSUME NEW i \in 1 .. N PROVE q[i] \in Range(r)
    <3>1. r[N + 1 - i] = q[N + 1 - (N + 1 - i)]
      BY <1>2, <1>3, Zenon
    <3> QED
      BY <1>2, <2>1, <3>1, Zenon
  <2>4. \A x : x \in Range(r) => x \in Range(q)
    BY <2>1, <2>2, Zenon
  <2>5. \A x : x \in Range(q) => x \in Range(r)
    BY <2>1, <2>3, Zenon
  <2> QED
    BY <2>4, <2>5, Zenon
<1>7. Distinct(r)
  BY <1>4, <1>5, Zenon DEF Distinct
<1> QED
  BY <1>2, <1>3, <1>4, <1>6, <1>7, Zenon DEF IsReverse, r

(* The backward pointers meet the whole order in reverse.                  *)
LEMMA BackIs ==
    ASSUME NEW z, NEW q, ZType(z, q), ZBack(z, q)
    PROVE  BackChain(z) = Reverse(q)
<1> DEFINE N == Len(q)
           r == Reverse(q)
<1>1. q \in Seq(Node) /\ Distinct(q) /\ Range(q) = Used(z) /\ z.backward \in [Node -> Ptr]
  BY Zenon DEF ZType
<1>2. IsReverse(r, q)
  BY <1>1, Reversed, Zenon
<1> HIDE DEF r
<1>3. /\ r \in Seq(Node) /\ Len(r) = N /\ Distinct(r) /\ Range(r) = Range(q)
      /\ \A j \in 1 .. N : N + 1 - j \in 1 .. N /\ r[j] = q[N + 1 - j]
  BY <1>2, Zenon DEF IsReverse
<1>4. N \in Nat
  BY ZFacts, Zenon
<1>5. \A j \in 1 .. N + 1 : At(q, N + 1 - j) = At(r, j)
  <2> TAKE j \in 1 .. N + 1
  <2>1. (j \in 1 .. N <=> j # N + 1) /\ (j = N + 1 => ~(N + 1 - j \in 1 .. N))
    BY <1>4
  <2> QED
    BY <1>3, <2>1, Zenon DEF At
<1>6. z.tail = At(r, 1)
  <2>1. 1 \in 1 .. N + 1 /\ N + 1 - 1 = N
    BY <1>4
  <2>2. At(q, N + 1 - 1) = At(r, 1)
    BY <1>5, <2>1, Zenon
  <2> QED
    BY <2>1, <2>2, Zenon DEF ZBack
<1>7. ASSUME NEW j \in 1 .. N PROVE z.backward[r[j]] = At(r, j + 1)
  <2>1. j + 1 \in 1 .. N + 1 /\ N + 1 - (j + 1) = (N + 1 - j) - 1
    BY <1>4
  <2>2. z.backward[q[N + 1 - j]] = At(q, (N + 1 - j) - 1)
    BY <1>3, Zenon DEF ZBack
  <2>3. At(q, N + 1 - (j + 1)) = At(r, j + 1)
    BY <1>5, <2>1, Zenon
  <2> QED
    BY <1>3, <2>1, <2>2, <2>3, Zenon
<1>8. \A n \in Node \ Range(r) : z.backward[n] = NULL
  BY <1>1, <1>3, Zenon DEF ZBack
<1>9. Thread(z.backward, z.tail, r)
  BY <1>1, <1>3, <1>6, <1>7, <1>8, Zenon DEF Thread
<1> QED
  BY <1>9, TraceIs, Zenon DEF BackChain, r

-----------------------------------------------------------------------------
(* The commands, and the theorems.                                         *)

(* What LevelsNest says of the levels and the counts of a skip list.       *)
LevelNests(z, i, c) ==
    /\ Range(c) = {n \in Used(z) : z.node[n].level > i}
    /\ Len(c) = Cardinality(Range(c))
    /\ \A k \in 1 .. Len(c) - 1 :
         ~NodeBefore(z, c[k + 1], z.node[c[k]].score, z.node[c[k]].member)

(* Every level is complete and sorted.                                     *)
LEMMA LevelInOrder ==
    ASSUME NEW z, NEW q, ZInv(z, q), NEW i \in Levels
    PROVE  LevelNests(z, i, Chain(z, i))
<1> DEFINE c == Chain(z, i)
<1>1. ZType(z, q) /\ ZForward(z, q) /\ ZSorted(z, q)
  BY Zenon DEF ZInv
<1>2. IsChain(c, z, q, i)
  BY <1>1, ChainIs, Zenon
<1> HIDE DEF c
<1>3. /\ c \in Seq(Node) /\ Distinct(c)
      /\ Range(c) = {n \in Used(z) : z.node[n].level > i}
  BY <1>2, Zenon DEF IsChain
<1>4. Len(c) = Cardinality(Range(c)) /\ Len(c) \in Nat
  BY <1>3, Counted, InRange, Zenon
<1>5. ASSUME NEW k \in 1 .. Len(c) - 1
      PROVE  ~NodeBefore(z, c[k + 1], z.node[c[k]].score, z.node[c[k]].member)
  <2>1. k \in 1 .. Len(c) /\ k + 1 \in 1 .. Len(c) /\ k < k + 1
    BY <1>4
  <2>2. PICK j \in 1 .. Len(q), l \in 1 .. Len(q) : j < l /\ c[k] = q[j] /\ c[k + 1] = q[l]
    BY <1>2, <2>1, Zenon DEF IsChain
  <2> QED
    BY <1>1, <2>2, Zenon DEF ZSorted
<1> QED
  BY <1>3, <1>4, <1>5, Zenon DEF LevelNests, c

(* Length and level are what the nodes say.                                *)
LEMMA CountsFit ==
    ASSUME NEW z, NEW q, ZInv(z, q)
    PROVE  /\ z.length = Cardinality(Used(z))
           /\ \A n \in Used(z) : z.node[n].level <= z.level
           /\ z.level = 1 \/ \E n \in Used(z) : z.node[n].level = z.level
<1>1. ZType(z, q) /\ ZLevel(z, q)
  BY Zenon DEF ZInv
<1>2. q \in Seq(Node) /\ Distinct(q) /\ Range(q) = Used(z) /\ z.length = Len(q)
  BY <1>1, Zenon DEF ZType
<1>3. z.length = Cardinality(Used(z))
  BY <1>2, Counted, Zenon
<1>4. z.level \in Nat /\ MAXLEVEL \in Nat
  BY <1>1, LevelFacts, Zenon
<1>5. ASSUME NEW n \in Used(z) PROVE z.node[n].level <= z.level
  <2>1. PICK p \in 1 .. Len(q) : n = q[p]
    BY <1>1, ZFacts
  <2>2. Height(z, q, p) \in 1 .. MAXLEVEL /\ ~(Height(z, q, p) > z.level)
    BY <1>1, ZFacts, Zenon DEF ZLevel
  <2>3. Height(z, q, p) <= z.level
    BY <1>4, <2>2
  <2> QED
    BY <2>1, <2>3, Zenon DEF Height
<1>6. z.level = 1 \/ \E n \in Used(z) : z.node[n].level = z.level
  <2>1. \A p \in 1 .. Len(q) : q[p] \in Used(z)
    BY <1>1, ZFacts, Zenon
  <2> QED
    BY <1>1, <2>1, Zenon DEF ZLevel, Height
<1> QED
  BY <1>3, <1>5, <1>6, Zenon

(* What the key holds after a command.                                     *)
LEMMA HeldIs ==
    ASSUME NEW ty, NEW p, Holds(ty, p)
    PROVE  obj'.type = ty /\ obj'.ptr = p
  BY DEF Holds

(* A command that leaves a skip list keeps the invariant.                  *)
LEMMA HoldsZSet ==
    ASSUME NEW p, Holds("zset", p), \E q : ZInv(p, q)
    PROVE  ZSetInv'
<1>1. obj'.ptr = p
  BY HeldIs, Zenon
<1> QED
  BY <1>1, Zenon DEF ZSetInv

(* A command on another type leaves no sorted set.                         *)
LEMMA HoldsOther ==
    ASSUME NEW ty \in {"list", "set", "hash"}, NEW p, Holds(ty, p)
    PROVE  ZSetInv'
<1>1. obj'.type = ty
  BY HeldIs, Zenon
<1>2. ty # "zset"
  OBVIOUS
<1> QED
  BY <1>1, <1>2, Zenon DEF ZSetInv, Is

(* A key without object has no sorted set.                                 *)
LEMMA AbsentType ==
    ASSUME NEW o, o = Absent
    PROVE  o.type # "zset"
  BY DEF Absent

(* kv_zadd and kv_zrem keep the skip list whole, for every sequence of     *)
(* commands and of levels drawn: one order of the nodes explains every     *)
(* forward pointer of every level, the backward pointers, the tail, the    *)
(* length and the level.                                                   *)
THEOREM SkipListKept == ObjectsSpec => []ZSetInv
<1>1. ObjectsInit => ZSetInv
  BY AbsentType, Zenon DEF ObjectsInit, ZSetInv, Is
<1>2. ZSetInv /\ [ObjectsNext]_obj => ZSetInv'
  <2> SUFFICES ASSUME ZSetInv, [ObjectsNext]_obj PROVE ZSetInv'
    OBVIOUS
  <2>1. ASSUME NEW s \in Side, kv_pop(s) \/ \E val \in Value : kv_push(s, val)
        PROVE  ZSetInv'
    BY <2>1, HoldsOther, Zenon DEF kv_pop, kv_push
  <2>2. CASE kv_lpoprpush
    BY <2>2, HoldsOther, Zenon DEF kv_lpoprpush
  <2>3. ASSUME NEW i \in Index, NEW val \in Value, kv_lset(i, val) \/ kv_lrem(i, val)
        PROVE  ZSetInv'
    BY <2>3, HoldsOther, Zenon DEF kv_lset, kv_lrem
  <2>4. ASSUME NEW f \in Field,
               \/ kv_sadd(f) \/ kv_srem(f) \/ kv_hdel(f)
               \/ \E val \in Value : kv_hset(f, val)
        PROVE  ZSetInv'
    BY <2>4, HoldsOther, Zenon DEF kv_sadd, kv_srem, kv_hdel, kv_hset
  <2>5. ASSUME NEW m \in Member, kv_zrem(m) PROVE ZSetInv'
    <3>1. PICK q : ZInv(ZSet, q)
      BY ZSetHas, Zenon
    <3>2. Found(ZSet, m) # NULL /\ Holds("zset", zsl_delete(ZSet, m))
      BY <2>5, Zenon DEF kv_zrem
    <3>3. \E r : ZInv(zsl_delete(ZSet, m), r)
      BY <3>1, <3>2, DeleteKeeps, Zenon
    <3> QED
      BY <3>2, <3>3, HoldsZSet, Zenon
  <2>6. ASSUME NEW m \in Member, NEW s \in Score, NEW h \in 1 .. MAXLEVEL, kv_zadd(s, m, h)
        PROVE  ZSetInv'
    <3>1. PICK q : ZInv(ZSet, q)
      BY ZSetHas, Zenon
    <3>2. Used(ZSet) # Node /\ Holds("zset", zsl_insert(ZSet, s, m, h))
      BY <2>6, Zenon DEF kv_zadd
    <3>3. \E r : ZInv(zsl_insert(ZSet, s, m, h), r)
      BY <3>1, <3>2, InsertKeeps, Zenon
    <3> QED
      BY <3>2, <3>3, HoldsZSet, Zenon
  <2>7. CASE kv_del
    BY <2>7, AbsentType, Zenon DEF kv_del, ZSetInv, Is
  <2>8. CASE UNCHANGED obj
    BY <2>8, Zenon DEF ZSetInv, Is
  <2> QED
    BY <2>1, <2>2, <2>3, <2>4, <2>5, <2>6, <2>7, <2>8, Zenon DEF ObjectsNext
<1> QED
  BY <1>1, <1>2, PTL DEF ObjectsSpec

(* zsl_insert and zsl_delete keep every level the sorted sublist of the    *)
(* nodes that reach it, with the length and the level that the nodes give, *)
(* for every number of nodes and levels.                                   *)
THEOREM LevelsInOrder == ObjectsSpec => []LevelsNest
<1>1. ZSetInv => LevelsNest
  <2> SUFFICES ASSUME ZSetInv PROVE LevelsNest
    OBVIOUS
  <2>1. PICK q : ZInv(ZSet, q)
    BY ZSetHas, Zenon
  <2>2. \A i \in Levels : LevelNests(ZSet, i, Chain(ZSet, i))
    BY <2>1, LevelInOrder, Zenon
  <2>3. /\ ZSet.length = Cardinality(Used(ZSet))
        /\ \A n \in Used(ZSet) : ZSet.node[n].level <= ZSet.level
        /\ ZSet.level = 1 \/ \E n \in Used(ZSet) : ZSet.node[n].level = ZSet.level
    BY <2>1, CountsFit, Zenon
  <2> QED
    BY <2>2, <2>3, Zenon DEF LevelsNest, LevelNests
<1> QED
  BY <1>1, SkipListKept, PTL

-----------------------------------------------------------------------------
(* Which members zsl_delete finds.                                         *)

(* A node of m with no taller node behind it stops every walk.             *)
LEMMA StopsAtTall ==
    ASSUME NEW z, NEW q, ZInv(z, q), NEW m, NEW P, IsUpdate(P, z, q, Others(z, m)),
           NEW k \in 1 .. Len(q), z.node[q[k]].member = m,
           \A j \in k + 1 .. Len(q) : Height(z, q, j) <= Height(z, q, k)
    PROVE  P[0] < k
<1> DEFINE skip == Others(z, m)
           N == Len(q)
<1>1. ZType(z, q)
  BY Zenon DEF ZInv
<1>2. /\ N \in Nat /\ z.level \in Nat /\ MAXLEVEL \in Nat
      /\ \A j \in 1 .. N : Height(z, q, j) \in 1 .. MAXLEVEL
  BY <1>1, LevelFacts, ZFacts, Zenon
<1>3. q[k] \notin skip
  BY Zenon DEF Others
<1> HIDE DEF skip
<1>4. k \in Nat /\ 0 < k /\ z.level \in 0 .. z.level /\ 0 \in 0 .. z.level
  BY <1>2
<1>5. P[z.level] = 0
  BY Zenon DEF IsUpdate
<1>6. ASSUME NEW i \in 0 .. z.level - 1, NEW a \in 0 .. N, NEW e \in 0 .. N,
             Stops(z, q, skip, a, e, i), a < k
      PROVE  e < k
  <2> SUFFICES ASSUME ~(e < k) PROVE FALSE
    BY Zenon
  <2>1. /\ e = 0 \/ Height(z, q, e) > i
        /\ \A j \in a + 1 .. e : Height(z, q, j) > i => q[j] \in skip
    BY <1>6, Zenon DEF Stops, Stands
  <2>2. e \in 1 .. N /\ e # 0 /\ k \in a + 1 .. e /\ (e # k => e \in k + 1 .. N)
    BY <1>2, <1>6
  <2>3. Height(z, q, e) > i /\ Height(z, q, e) \in 1 .. MAXLEVEL /\ Height(z, q, k) \in 1 .. MAXLEVEL
        /\ (e # k => Height(z, q, e) <= Height(z, q, k))
    BY <1>2, <2>1, <2>2, Zenon
  <2>4. Height(z, q, k) > i
    <3>1. CASE e = k
      BY <2>3, <3>1, Zenon
    <3>2. CASE e # k
      BY <1>2, <2>3, <3>2
    <3> QED
      BY <3>1, <3>2, Zenon
  <2> QED
    BY <1>3, <2>1, <2>2, <2>4, Zenon
<1>7. \A i \in 0 .. z.level - 1 : \A a, e \in 0 .. N : Stops(z, q, skip, a, e, i) /\ a < k => e < k
  BY <1>6, Zenon
<1>8. \A i \in 0 .. z.level : P[i] < k
  <2>1. IsUpdate(P, z, q, skip) /\ P[z.level] < k
    BY <1>4, <1>5, Zenon DEF skip
  <2> QED
    BY <1>1, <1>4, <1>7, <2>1, StaysBelow
<1> QED
  BY <1>4, <1>8, Zenon

(* The tallest that the walks find behind them is one of m.                *)
LEMMA FoundIsTall ==
    ASSUME NEW z, NEW q, ZInv(z, q), NEW m, NEW P, IsUpdate(P, z, q, Others(z, m)),
           P[0] + 1 \in 1 .. Len(q)
    PROVE  \E k \in 1 .. Len(q) :
             /\ z.node[q[k]].member = m
             /\ \A j \in k + 1 .. Len(q) : Height(z, q, j) <= Height(z, q, k)
<1> DEFINE skip == Others(z, m)
           N == Len(q)
           p == P[0]
           T == {b \in Nat : \A j \in p + 1 .. N : ~(Height(z, q, j) > b)}
<1>1. ZType(z, q) /\ ZForward(z, q) /\ ZLevel(z, q)
  BY Zenon DEF ZInv
<1>2. /\ N \in Nat /\ z.level \in Nat /\ MAXLEVEL \in Nat
      /\ \A j \in 1 .. N : Height(z, q, j) \in 1 .. MAXLEVEL
  BY <1>1, LevelFacts, ZFacts, Zenon
<1>3. P \in [0 .. z.level -> 0 .. N] /\ p \in 0 .. N /\ 0 \in 0 .. z.level
  <2>1. 0 \in 0 .. z.level
    BY <1>2
  <2> QED
    BY <2>1, Zenon DEF IsUpdate
<1> HIDE DEF p
<1>4. \A j \in p + 1 .. N : j \in 1 .. N
  BY <1>2, <1>3
<1>5. PICK M \in T : \A y \in T : M <= y
  <2>1. \A j \in 1 .. N : ~(Height(z, q, j) > MAXLEVEL)
    BY <1>2
  <2>2. MAXLEVEL \in T
    BY <1>2, <1>4, <2>1, Zenon
  <2>3. T \in SUBSET Nat /\ T # {}
    BY <2>2, Zenon
  <2> HIDE DEF T
  <2> QED
    BY <2>3, LeastNat, Zenon
<1>6. M \in Nat /\ \A j \in p + 1 .. N : ~(Height(z, q, j) > M)
  BY Zenon
<1>7. p + 1 \in p + 1 .. N /\ p + 1 \in 1 .. N
  <2>1. p + 1 \in 1 .. N
    BY Zenon DEF p
  <2> QED
    BY <1>2, <1>3, <2>1
<1>8. M # 0
  <2>1. ~(Height(z, q, p + 1) > M) /\ Height(z, q, p + 1) \in 1 .. MAXLEVEL
    BY <1>2, <1>6, <1>7, Zenon
  <2> QED
    BY <1>2, <1>6, <2>1
<1> DEFINE i == M - 1
<1>9. i \in Nat /\ ~(M <= i)
  BY <1>6, <1>8
<1>10. PICK t \in p + 1 .. N : Height(z, q, t) > i
  BY <1>5, <1>9, Zenon
<1>11. i \in 0 .. z.level - 1 /\ i \in 0 .. z.level /\ i \in 0 .. i /\ 0 \in 0 .. i
  <2>1. ~(Height(z, q, t) > z.level) /\ Height(z, q, t) \in 1 .. MAXLEVEL
    BY <1>1, <1>2, <1>4, Zenon DEF ZLevel
  <2> HIDE DEF i
  <2> QED
    BY <1>2, <1>9, <1>10, <2>1
<1>12. i \in Levels
  BY <1>1, <1>11, LevelFacts, Zenon
<1> DEFINE a == P[i]
<1>13. Stops(z, q, skip, P[i + 1], a, i) /\ a \in 0 .. N /\ a <= p
  <2>1. a <= p
    BY <1>1, <1>11, Descends, Zenon DEF p
  <2>2. a \in 0 .. N
    BY <1>3, <1>11, Zenon
  <2> QED
    BY <1>11, <2>1, <2>2, Zenon DEF IsUpdate
<1> HIDE DEF a, i
<1>14. Stands(z, q, a, i) /\ \A l \in 1 .. N : IsNext(z, q, a, i, l) => q[l] \notin skip
  BY <1>13, Zenon DEF Stops
<1>15. PICK e \in 1 .. N + 1 : IsNext(z, q, a, i, e)
  BY <1>1, <1>12, <1>13, <1>14, Zenon DEF ZForward
<1>16. /\ e \in a + 1 .. N + 1 /\ (e <= N => Height(z, q, e) > i)
       /\ \A j \in a + 1 .. e - 1 : ~(Height(z, q, j) > i)
  BY <1>15, Zenon DEF IsNext
<1>17. e \in 1 .. N /\ e <= N /\ a < e
  <2>1. ~(t < e)
    <3>1. t < e => t \in a + 1 .. e - 1
      BY <1>2, <1>3, <1>13, <1>16
    <3> QED
      BY <1>10, <1>16, <3>1, Zenon
  <2> QED
    BY <1>2, <1>3, <1>13, <1>16, <2>1
<1>18. q[e] \notin skip /\ Height(z, q, e) > i
  BY <1>14, <1>15, <1>16, <1>17, Zenon
<1>19. z.node[q[e]].member = m
  <2>1. q[e] \in Used(z)
    BY <1>1, <1>17, ZFacts, Zenon
  <2> QED
    BY <1>18, <2>1, Zenon DEF Others
<1>20. p < e
  <2>1. P[i] < e
    BY <1>17, Zenon DEF a
  <2> HIDE DEF skip
  <2>3. IsUpdate(P, z, q, skip)
    BY Zenon DEF skip
  <2>2. \A j \in 0 .. i : P[j] < e
    BY <1>1, <1>11, <1>17, <1>18, <2>1, <2>3, Blocks, Zenon
  <2> QED
    BY <1>11, <2>2, Zenon DEF p
<1>21. ASSUME NEW j \in e + 1 .. N PROVE Height(z, q, j) <= Height(z, q, e)
  <2>1. j \in p + 1 .. N /\ j \in 1 .. N
    BY <1>2, <1>3, <1>17, <1>20
  <2>2. ~(Height(z, q, j) > M) /\ Height(z, q, j) \in 1 .. MAXLEVEL /\ Height(z, q, e) \in 1 .. MAXLEVEL
    BY <1>2, <1>6, <1>17, <2>1, Zenon
  <2> QED
    BY <1>2, <1>6, <1>18, <2>2 DEF i
<1> QED
  BY <1>17, <1>19, <1>21, Zenon

(* zsl_delete finds a member exactly when one of its nodes has no taller   *)
(* node behind it.                                                         *)
LEMMA RemovedWhen ==
    ASSUME NEW z, NEW q, ZInv(z, q), NEW m
    PROVE  Found(z, m) # NULL <=>
             \E k \in 1 .. Len(q) :
               /\ z.node[q[k]].member = m
               /\ \A j \in k + 1 .. Len(q) : z.node[q[j]].level <= z.node[q[k]].level
<1> DEFINE skip == Others(z, m)
           N == Len(q)
<1>1. ZType(z, q) /\ ZForward(z, q)
  BY Zenon DEF ZInv
<1>2. PICK P : IsUpdate(P, z, q, skip)
  <2>1. skip \in SUBSET Node
    BY Zenon DEF Others, Used
  <2> HIDE DEF skip
  <2> QED
    BY <1>1, <2>1, UpdateEnds, Zenon
<1>3. P[0] \in 0 .. N /\ Found(z, m) = At(q, P[0] + 1)
  BY <1>1, <1>2, FoundIs
<1>4. N \in Nat /\ \A j \in 1 .. N : q[j] \in Node
  BY <1>1, ZFacts, Zenon
<1>5. Found(z, m) # NULL <=> P[0] + 1 \in 1 .. N
  BY <1>3, <1>4, NullIsNone, Zenon DEF At
<1>6. ASSUME P[0] + 1 \in 1 .. N
      PROVE  \E k \in 1 .. N :
               /\ z.node[q[k]].member = m
               /\ \A j \in k + 1 .. N : z.node[q[j]].level <= z.node[q[k]].level
  <2>1. \E k \in 1 .. Len(q) :
             /\ z.node[q[k]].member = m
             /\ \A j \in k + 1 .. Len(q) : Height(z, q, j) <= Height(z, q, k)
    BY <1>2, <1>6, FoundIsTall, Zenon
  <2> QED
    BY <2>1, Zenon DEF Height
<1>7. ASSUME NEW k \in 1 .. N, z.node[q[k]].member = m,
             \A j \in k + 1 .. N : z.node[q[j]].level <= z.node[q[k]].level
      PROVE  P[0] + 1 \in 1 .. N
  <2>1. \A j \in k + 1 .. Len(q) : Height(z, q, j) <= Height(z, q, k)
    BY <1>7, Zenon DEF Height
  <2>2. P[0] < k
    BY <1>2, <1>7, <2>1, StopsAtTall
  <2> QED
    BY <1>3, <1>4, <2>2
<1> QED
  BY <1>5, <1>6, <1>7, Zenon

(* kv_zrem removes a member of a sorted set exactly when one of its nodes  *)
(* has no taller node behind it: zsl_delete compares members only, so the  *)
(* walks on the upper levels pass the other nodes.                         *)
THEOREM RemovedWhenOnTop == ObjectsSpec => []RemovedUnlessShadowed
<1>1. ZSetInv => RemovedUnlessShadowed
  <2> SUFFICES ASSUME ZSetInv PROVE RemovedUnlessShadowed
    OBVIOUS
  <2>1. PICK q : ZInv(ZSet, q)
    BY ZSetHas, Zenon
  <2>2. Chain(ZSet, 0) = q
    BY <2>1, GroundIs, Zenon DEF ZInv
  <2>3. \A m \in Member :
          Found(ZSet, m) # NULL <=>
            \E k \in 1 .. Len(q) :
              /\ ZSet.node[q[k]].member = m
              /\ \A j \in k + 1 .. Len(q) : ZSet.node[q[j]].level <= ZSet.node[q[k]].level
    BY <2>1, RemovedWhen
  <2> QED
    BY <2>2, <2>3, Zenon DEF RemovedUnlessShadowed
<1> QED
  BY <1>1, SkipListKept, PTL

-----------------------------------------------------------------------------
(* Ranges and ranks, from both ends.                                       *)

(* The first index that kv_zrange and kv_zrevrange make of start.          *)
Lo(N, start) ==
    LET s == IF start < 0 THEN start + N ELSE start IN IF s < 0 THEN 0 ELSE s

(* The last index that they make of stop.                                  *)
Hi(N, stop) ==
    LET e == IF stop < 0 THEN stop + N ELSE stop IN IF e >= N THEN N - 1 ELSE e

(* Counted from the other end, the first index is the last and the last is *)
(* the first.                                                              *)
LEMMA Mirrored ==
    ASSUME NEW N \in Nat, NEW a \in Int
    PROVE  /\ Lo(N, a) \in Nat /\ Hi(N, a) \in Int /\ Hi(N, a) <= N - 1
           /\ Lo(N, -a - 1) = N - 1 - Hi(N, a)
           /\ Hi(N, -a - 1) = N - 1 - Lo(N, a)
  BY DEF Lo, Hi

(* kv_zrange returns the part of the chain between the two indices.        *)
LEMMA RangeIs ==
    ASSUME NEW z, NEW c, NEW a \in Int, NEW b \in Int
    PROVE  kv_zrange(z, c, a, b)
             = IF Lo(z.length, a) > Hi(z.length, b) THEN <<>>
               ELSE SubSeq(c, Lo(z.length, a) + 1, Hi(z.length, b) + 1)
  BY DEF kv_zrange, Lo, Hi

(* A part of the reverse of q is the reverse of a part of q.               *)
LEMMA PartReversed ==
    ASSUME NEW q \in Seq(Node), NEW r \in Seq(Node), Len(r) = Len(q),
           \A j \in 1 .. Len(q) : r[j] = q[Len(q) + 1 - j],
           NEW l \in Nat, NEW h \in Nat, l <= h, h <= Len(q) - 1
    PROVE  SubSeq(r, l + 1, h + 1)
             = Reverse(SubSeq(q, (Len(q) - 1 - h) + 1, (Len(q) - 1 - l) + 1))
<1> DEFINE N == Len(q)
           s == SubSeq(r, l + 1, h + 1)
           t == SubSeq(q, (N - 1 - h) + 1, (N - 1 - l) + 1)
           w == h - l + 1
<1>1. N \in Nat /\ w \in Nat
  OBVIOUS
<1>2. s \in Seq(Node) /\ Len(s) = w /\ \A j \in 1 .. w : s[j] = r[l + j]
  OBVIOUS
<1>3. t \in Seq(Node) /\ Len(t) = w /\ \A j \in 1 .. w : t[j] = q[(N - 1 - h) + j]
  OBVIOUS
<1> HIDE DEF s, t, w
<1>4. Reverse(t) = [j \in 1 .. w |-> t[w - j + 1]]
  BY <1>3 DEF Reverse
<1>5. ASSUME NEW j \in 1 .. w PROVE s[j] = t[w - j + 1]
  <2>1. w - j + 1 \in 1 .. w /\ (N - 1 - h) + (w - j + 1) = N + 1 - (l + j) /\ l + j \in 1 .. N
    BY <1>1 DEF w
  <2>2. r[l + j] = q[N + 1 - (l + j)]
    BY <2>1, Zenon
  <2> QED
    BY <1>2, <1>3, <2>1, <2>2, Zenon
<1>6. s = [j \in 1 .. w |-> s[j]]
  BY <1>1, <1>2
<1> QED
  BY <1>4, <1>5, <1>6, Zenon DEF s, t

(* A range of the reverse is the reverse of the range counted from the     *)
(* other end.                                                              *)
LEMMA RangesAgree ==
    ASSUME NEW z, NEW q \in Seq(Node), NEW r, IsReverse(r, q), z.length = Len(q),
           NEW a \in Int, NEW b \in Int
    PROVE  kv_zrange(z, r, a, b) = Reverse(kv_zrange(z, q, -b - 1, -a - 1))
<1> DEFINE N == Len(q)
           l == Lo(N, a)
           h == Hi(N, b)
<1>1. N \in Nat /\ -a - 1 \in Int /\ -b - 1 \in Int
  OBVIOUS
<1>2. /\ l \in Nat /\ h \in Int /\ h <= N - 1
      /\ Lo(N, -b - 1) = N - 1 - h /\ Hi(N, -a - 1) = N - 1 - l
  BY <1>1, Mirrored
<1>3. kv_zrange(z, r, a, b) = IF l > h THEN <<>> ELSE SubSeq(r, l + 1, h + 1)
  BY RangeIs, Zenon
<1>4. kv_zrange(z, q, -b - 1, -a - 1)
        = IF Lo(N, -b - 1) > Hi(N, -a - 1) THEN <<>>
          ELSE SubSeq(q, Lo(N, -b - 1) + 1, Hi(N, -a - 1) + 1)
  <2>1. \A i, j \in Int : kv_zrange(z, q, i, j)
                           = IF Lo(z.length, i) > Hi(z.length, j) THEN <<>>
                             ELSE SubSeq(q, Lo(z.length, i) + 1, Hi(z.length, j) + 1)
    BY ONLY RangeIs, Zenon
  <2> QED
    BY <1>1, <2>1
<1> HIDE DEF l, h
<1>5. kv_zrange(z, q, -b - 1, -a - 1)
        = IF N - 1 - h > N - 1 - l THEN <<>> ELSE SubSeq(q, (N - 1 - h) + 1, (N - 1 - l) + 1)
  BY <1>2, <1>4, Zenon
<1>6. N - 1 - h > N - 1 - l <=> l > h
  BY <1>1, <1>2
<1>7. CASE l > h
  <2>1. Reverse(<<>>) = <<>>
    BY DEF Reverse
  <2> QED
    BY <1>3, <1>5, <1>6, <1>7, <2>1, Zenon
<1>8. CASE ~(l > h)
  <2>1. h \in Nat /\ l <= h
    BY <1>2, <1>8
  <2>2. r \in Seq(Node) /\ Len(r) = N /\ \A j \in 1 .. N : r[j] = q[N + 1 - j]
    BY Zenon DEF IsReverse
  <2>3. SubSeq(r, l + 1, h + 1) = Reverse(SubSeq(q, (N - 1 - h) + 1, (N - 1 - l) + 1))
    BY <1>2, <2>1, <2>2, PartReversed
  <2> QED
    BY <1>3, <1>5, <1>6, <1>8, <2>3, Zenon
<1> QED
  BY <1>7, <1>8, Zenon

(* The number that Leading chooses is the only one.                        *)
LEMMA LeadingIs ==
    ASSUME NEW c, Len(c) \in Nat, NEW front, NEW k \in 0 .. Len(c),
           \A j \in 1 .. k : c[j] \in front,
           k = Len(c) \/ c[k + 1] \notin front
    PROVE  Leading(c, front) = k
<1> DEFINE OK(l) == /\ \A j \in 1 .. l : c[j] \in front
                    /\ l = Len(c) \/ c[l + 1] \notin front
           L == Leading(c, front)
<1>1. L \in 0 .. Len(c) /\ OK(L)
  <2>1. \E l \in 0 .. Len(c) : OK(l)
    BY Zenon
  <2>2. L = CHOOSE l \in 0 .. Len(c) : OK(l)
    BY Zenon DEF Leading
  <2> HIDE DEF OK, L
  <2> QED
    BY <2>1, <2>2
<1> HIDE DEF L
<1>2. ASSUME k < L PROVE FALSE
  <2>1. k + 1 \in 1 .. L /\ k # Len(c)
    BY <1>1, <1>2
  <2> QED
    BY <1>1, <2>1, Zenon
<1>3. ASSUME L < k PROVE FALSE
  <2>1. L + 1 \in 1 .. k /\ L # Len(c)
    BY <1>1, <1>3
  <2> QED
    BY <1>1, <2>1, Zenon
<1>4. L = k
  BY <1>1, <1>2, <1>3
<1> QED
  BY <1>4, Zenon DEF L

(* Two nodes that differ in score or member stand in the order of the list.*)
LEMMA InOrder ==
    ASSUME NEW s \in Int, NEW m \in Int, NEW t \in Int, NEW k \in Int,
           ~Before(t, k, s, m), k # m \/ t # s
    PROVE  Before(s, m, t, k)
  BY DEF Before

(* No node is before itself.                                               *)
LEMMA NotBeforeItself ==
    ASSUME NEW s \in Int, NEW m \in Int
    PROVE  ~Before(s, m, s, m)
  BY DEF Before

(* The node n is the only one with its score and its member.               *)
OneOfAKind(z, n) ==
    \A k \in Used(z) \ {n} :
      z.node[k].member # z.node[n].member \/ z.node[k].score # z.node[n].score

(* The two ranks of a member count the nodes on its two sides.             *)
LEMMA RanksAgree ==
    ASSUME NEW z, NEW q, ZInv(z, q), NEW p \in 1 .. Len(q),
           z.node[q[p]].score = kv_zscore(z, z.node[q[p]].member), OneOfAKind(z, q[p])
    PROVE  /\ kv_zrank(z, z.node[q[p]].member) = p - 1
           /\ kv_zrevrank(z, z.node[q[p]].member) = Len(q) - p
<1> DEFINE N == Len(q)
           S(j) == z.node[q[j]].score
           M(j) == z.node[q[j]].member
           r == Reverse(q)
           ahead == {n \in Used(z) : NodeBefore(z, n, S(p), M(p))}
           behind == {n \in Used(z) : Before(S(p), M(p), z.node[n].score, z.node[n].member)}
<1>1. ZType(z, q) /\ ZForward(z, q) /\ ZBack(z, q) /\ ZSorted(z, q)
  BY Zenon DEF ZInv
<1>2. /\ N \in Nat /\ \A j \in 1 .. N : q[j] \in Used(z)
      /\ \A j \in 1 .. N : S(j) \in Int /\ M(j) \in Int
      /\ q \in Seq(Node) /\ Distinct(q)
  BY <1>1, ZFacts, NodeInts, Zenon DEF ZType
<1>3. \A j \in 1 .. N : j # p => M(j) # M(p) \/ S(j) # S(p)
  BY <1>2, Zenon DEF OneOfAKind, Distinct
<1>4. \A j, k \in 1 .. N : j < k => ~Before(S(k), M(k), S(j), M(j))
  BY <1>1, Zenon DEF ZSorted, NodeBefore
<1>5. IsReverse(r, q)
  BY <1>2, Reversed, Zenon
<1>6. Chain(z, 0) = q /\ BackChain(z) = r
  BY <1>1, GroundIs, BackIs, Zenon
<1> HIDE DEF r
<1>7. \A j \in 1 .. N : (q[j] \in ahead <=> Before(S(j), M(j), S(p), M(p)))
                        /\ (q[j] \in behind <=> Before(S(p), M(p), S(j), M(j)))
  BY <1>2, Zenon DEF NodeBefore
<1>8. q[p] \notin ahead /\ q[p] \notin behind
  BY <1>2, <1>7, NotBeforeItself, Zenon
<1>9. ASSUME NEW j \in 1 .. N, j < p PROVE q[j] \in ahead
  <2>1. ~Before(S(p), M(p), S(j), M(j)) /\ j # p
    BY <1>4, <1>9
  <2> HIDE DEF S, M, ahead, behind
  <2>2. Before(S(j), M(j), S(p), M(p))
    BY <1>2, <1>3, <2>1, InOrder
  <2> QED
    BY <1>7, <2>2, Zenon
<1>10. ASSUME NEW j \in 1 .. N, p < j PROVE q[j] \in behind
  <2>1. ~Before(S(j), M(j), S(p), M(p)) /\ j # p
    BY <1>4, <1>10
  <2> HIDE DEF S, M, ahead, behind
  <2>2. Before(S(p), M(p), S(j), M(j))
    BY <1>2, <1>3, <2>1, InOrder
  <2> QED
    BY <1>7, <2>2, Zenon
<1>11. kv_zrank(z, M(p)) = Leading(q, ahead) /\ kv_zrevrank(z, M(p)) = Leading(r, behind)
  BY <1>6, Zenon DEF kv_zrank, kv_zrevrank
<1> HIDE DEF S, ahead, behind
<1>12. Leading(q, ahead) = p - 1
  <2>1. p - 1 \in 0 .. N /\ (p - 1) + 1 = p
        /\ \A j \in 1 .. p - 1 : j \in 1 .. N /\ j < p
    BY <1>2
  <2>2. \A j \in 1 .. p - 1 : q[j] \in ahead
    BY <1>9, <2>1, Zenon
  <2>3. q[(p - 1) + 1] \notin ahead
    BY <1>8, <2>1, Zenon
  <2> QED
    BY <1>2, <2>1, <2>2, <2>3, LeadingIs
<1>13. Leading(r, behind) = N - p
  <2>1. Len(r) = N /\ \A j \in 1 .. N : r[j] = q[N + 1 - j]
    BY <1>5, Zenon DEF IsReverse
  <2>2. /\ N - p \in 0 .. N /\ (N - p) + 1 \in 1 .. N /\ N + 1 - ((N - p) + 1) = p
        /\ \A j \in 1 .. N - p : j \in 1 .. N /\ N + 1 - j \in 1 .. N /\ p < N + 1 - j
    BY <1>2
  <2>3. \A j \in 1 .. N - p : r[j] \in behind
    BY <1>10, <2>1, <2>2, Zenon
  <2>4. r[(N - p) + 1] \notin behind
    BY <1>8, <2>1, <2>2, Zenon
  <2> QED
    BY <1>2, <2>1, <2>2, <2>3, <2>4, LeadingIs
<1> QED
  BY <1>11, <1>12, <1>13, Zenon

(* kv_zrevrange and kv_zrevrank, which follow the backward pointers, agree *)
(* with kv_zrange and kv_zrank, which follow level 0: a range is the       *)
(* reverse of the range counted from the other end, and the two ranks of a *)
(* member add up to the length less one.                                   *)
THEOREM ReadBothWays == ObjectsSpec => []BothWaysAgree
<1>1. ZSetInv => BothWaysAgree
  <2> SUFFICES ASSUME ZSetInv PROVE BothWaysAgree
    OBVIOUS
  <2> DEFINE z == ZSet
  <2>1. PICK q : ZInv(z, q)
    BY ZSetHas, Zenon
  <2> HIDE DEF z
  <2>2. ZType(z, q) /\ ZForward(z, q) /\ ZBack(z, q)
    BY <2>1, Zenon DEF ZInv
  <2>3. Chain(z, 0) = q /\ BackChain(z) = Reverse(q)
    BY <2>2, GroundIs, BackIs, Zenon
  <2>4. q \in Seq(Node) /\ Distinct(q) /\ z.length = Len(q)
    BY <2>2, Zenon DEF ZType
  <2>5. IsReverse(Reverse(q), q)
    BY <2>4, Reversed, Zenon
  <2>6. Index \subseteq Int
    BY ObjectsAssumption DEF Index
  <2>7. \A a, b \in Index : kv_zrange(z, Reverse(q), a, b) = Reverse(kv_zrange(z, q, -b - 1, -a - 1))
    BY <2>4, <2>5, <2>6, RangesAgree
  <2>8. ASSUME NEW n \in Used(z), z.node[n].score = kv_zscore(z, z.node[n].member),
               \A k \in Used(z) \ {n} :
                 z.node[k].member # z.node[n].member \/ z.node[k].score # z.node[n].score
        PROVE  /\ kv_zrank(z, z.node[n].member) + kv_zrevrank(z, z.node[n].member) = z.length - 1
               /\ q[kv_zrank(z, z.node[n].member) + 1] = n
    <3>1. PICK p \in 1 .. Len(q) : n = q[p]
      BY <2>2, ZFacts
    <3>2. OneOfAKind(z, q[p])
      BY <2>8, <3>1, Zenon DEF OneOfAKind
    <3>3. kv_zrank(z, z.node[n].member) = p - 1 /\ kv_zrevrank(z, z.node[n].member) = Len(q) - p
      BY <2>1, <2>8, <3>1, <3>2, RanksAgree
    <3>4. (p - 1) + (Len(q) - p) = Len(q) - 1 /\ (p - 1) + 1 = p
      BY <2>4
    <3> QED
      BY <2>4, <3>1, <3>3, <3>4, Zenon
  <2> QED
    BY <2>3, <2>7, <2>8, Zenon DEF BothWaysAgree, z
<1> QED
  BY <1>1, SkipListKept, PTL
=============================================================================
