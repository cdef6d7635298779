----------------------------- MODULE HeapProofs -----------------------------
(***************************************************************************)
(* What the proofs about lists, tables and skip lists share: induction on  *)
(* the naturals, sequences, recursion, and what Trace meets.  Induction    *)
(* is stated for a set of naturals, so that the provers can instantiate    *)
(* it.                                                                     *)
(***************************************************************************)
EXTENDS Heap, FiniteSetTheorems, TLAPS

(* A non-empty set of naturals has a least element.                        *)
LEMMA LeastNat ==
    ASSUME NEW T \in SUBSET Nat, T # {}
    PROVE  \E x \in T : \A y \in T : x <= y
<1> DEFINE R == {ss \in Nat \X Nat : ss[1] < ss[2]}
<1>1. IsWellFoundedOn(R, Nat)
  BY NatLessThanWellFounded, Zenon DEF OpToRel
<1> HIDE DEF R
<1>2. PICK x \in T : \A y \in T : ~(<<y, x>> \in R)
  BY <1>1, WFMin, Zenon
<1>3. ASSUME NEW y \in T PROVE x <= y
  <2>1. x \in Nat /\ y \in Nat
    BY Zenon
  <2>2. ASSUME y < x PROVE FALSE
    <3>1. <<y, x>> \in R
      BY <2>1, <2>2, Zenon DEF R
    <3> QED
      BY <1>2, <3>1, Zenon
  <2> QED
    BY <2>1, <2>2
<1> QED
  BY <1>2, <1>3, Zenon

(* Induction on the naturals, for a set of them.                           *)
LEMMA NatInduct ==
    ASSUME NEW T, 0 \in T, \A n \in Nat : n \in T => n + 1 \in T
    PROVE  \A n \in Nat : n \in T
<1> SUFFICES ASSUME NEW m \in Nat, m \notin T PROVE FALSE
  BY Zenon
<1> DEFINE U == {n \in Nat : n \notin T}
<1>1. U \in SUBSET Nat /\ U # {}
  BY Zenon
<1>2. PICK x \in U : \A y \in U : x <= y
  BY <1>1, LeastNat, Zenon
<1>3. x \in Nat /\ x \notin T
  BY <1>2, Zenon
<1>4. x # 0
  BY <1>3, Zenon
<1>5. x - 1 \in Nat /\ (x - 1) + 1 = x /\ ~(x <= x - 1)
  BY <1>3, <1>4
<1>6. x - 1 \in T
  BY <1>2, <1>5, Zenon
<1> QED
  BY <1>3, <1>5, <1>6, Zenon

-----------------------------------------------------------------------------
(* A function on 1 .. n is a sequence.                                     *)
LEMMA SeqOf ==
    ASSUME NEW S, NEW n \in Nat, NEW f \in [1 .. n -> S]
    PROVE  f \in Seq(S) /\ Len(f) = n
<1>1. f \in Seq(S)
  OBVIOUS
<1>2. DOMAIN f = 1 .. n /\ DOMAIN f = 1 .. Len(f) /\ Len(f) \in Nat
  BY <1>1
<1>3. QED
  BY <1>1, <1>2

(* A sequence is a function on its places.                                 *)
LEMMA SeqFacts ==
    ASSUME NEW S, NEW seq \in Seq(S)
    PROVE  /\ Len(seq) \in Nat /\ seq \in [1 .. Len(seq) -> S]
           /\ DOMAIN seq = 1 .. Len(seq) /\ \A n \in 1 .. Len(seq) : seq[n] \in S
  OBVIOUS

(* Two sequences with the same elements are the same.                      *)
LEMMA SameSeq ==
    ASSUME NEW S, NEW s \in Seq(S), NEW t \in Seq(S),
           Len(s) = Len(t), \A i \in 1 .. Len(s) : s[i] = t[i]
    PROVE  s = t
  OBVIOUS

(* The places of a concatenation.                                          *)
LEMMA Concat ==
    ASSUME NEW S, NEW s \in Seq(S), NEW t \in Seq(S)
    PROVE  /\ s \o t \in Seq(S) /\ Len(s \o t) = Len(s) + Len(t)
           /\ \A i \in 1 .. Len(s) + Len(t) :
                (s \o t)[i] = IF i <= Len(s) THEN s[i] ELSE t[i - Len(s)]
  OBVIOUS

(* The cell at position i, or NULL behind the ends.                        *)
At(q, i) == IF i \in 1 .. Len(q) THEN q[i] ELSE NULL

(* No cell is there twice.                                                 *)
Distinct(q) == \A i, j \in 1 .. Len(q) : q[i] = q[j] => i = j

(* The elements of a sequence and their places.                            *)
LEMMA InRange ==
    ASSUME NEW S, NEW q \in Seq(S)
    PROVE  /\ Len(q) \in Nat
           /\ \A i \in 1 .. Len(q) : q[i] \in S /\ q[i] \in Range(q)
           /\ \A x \in Range(q) : \E i \in 1 .. Len(q) : x = q[i]
           /\ Range(q) \subseteq S
<1>1. Len(q) \in Nat /\ DOMAIN q = 1 .. Len(q)
  OBVIOUS
<1>2. \A i \in 1 .. Len(q) : q[i] \in S
  OBVIOUS
<1> QED
  BY <1>1, <1>2, Zenon DEF Range

(* NULL is no cell.                                                        *)
LEMMA NullIsNone ==
    /\ \A n \in Node : n # NULL /\ n \in Ptr /\ n \in Nat
    /\ NULL \in Ptr
  BY HeapAssumption, Zenon DEF Ptr

-----------------------------------------------------------------------------
(* Calloc finds a free cell if there is one.                               *)
LEMMA CallocFree ==
    ASSUME NEW used, Node \ used # {}
    PROVE  Calloc(used) \in Node \ used
<1>1. Node \ used \in SUBSET Nat
  BY HeapAssumption, Zenon
<1>2. \E n \in Node \ used : \A k \in Node \ used : n <= k
  BY <1>1, LeastNat, Zenon
<1> QED
  BY <1>2, Zenon DEF Calloc

(* A recursion on 0 .. N: it starts at first and goes on by step.          *)
IsStep(step, first, N, S) == N \in Nat /\ first \in S /\ step \in [S \X (1 .. N) -> S]

(* The values f that the recursion runs through.                           *)
IsRun(f, step, first, N, S) ==
    f \in [0 .. N -> S] /\ f[0] = first /\ \A i \in 1 .. N : f[i] = step[<<f[i - 1], i>>]

(* A recursion on 0 .. N has a value at every step.                        *)
LEMMA Recursion ==
    ASSUME NEW step, NEW first, NEW N, NEW S, IsStep(step, first, N, S)
    PROVE  \E f : IsRun(f, step, first, N, S)
<1>0. N \in Nat /\ first \in S /\ step \in [S \X (1 .. N) -> S]
  BY Zenon DEF IsStep
<1> DEFINE P(f, n) == /\ f \in [0 .. n -> S] /\ f[0] = first
                      /\ \A i \in 1 .. n : f[i] = step[<<f[i - 1], i>>]
           T == {n \in Nat : n <= N => \E f : P(f, n)}
<1>1. 0 \in T
  <2> DEFINE f == [i \in 0 .. 0 |-> first]
  <2>1. f \in [0 .. 0 -> S] /\ f[0] = first /\ \A i \in 1 .. 0 : FALSE
    BY <1>0
  <2>2. P(f, 0)
    BY <2>1, Zenon
  <2> QED
    BY <2>2, Zenon
<1>2. ASSUME NEW n \in Nat, n \in T PROVE n + 1 \in T
  <2>1. SUFFICES ASSUME n + 1 <= N PROVE \E f : P(f, n + 1)
    <3>1. n + 1 \in Nat
      OBVIOUS
    <3> QED
      BY <2>1, <3>1, Zenon
  <2>2. n <= N /\ n + 1 \in 1 .. N /\ n \in 0 .. n
    BY <1>0, <2>1
  <2>3. PICK f : P(f, n)
    BY <1>2, <2>2, Zenon
  <2>4. f[n] \in S
    BY <2>2, <2>3, Zenon
  <2> DEFINE e == step[<<f[n], n + 1>>]
             g == [i \in 0 .. n + 1 |-> IF i = n + 1 THEN e ELSE f[i]]
  <2>5. e \in S
    BY <1>0, <2>2, <2>4, Zenon
  <2> HIDE DEF e
  <2>6. \A i \in 0 .. n + 1 : i # n + 1 => i \in 0 .. n
    OBVIOUS
  <2>7. \A i \in 0 .. n + 1 : g[i] \in S
    BY <2>3, <2>5, <2>6, Zenon
  <2>8. g \in [0 .. n + 1 -> S] /\ \A i \in 0 .. n + 1 : g[i] = IF i = n + 1 THEN e ELSE f[i]
    BY <2>7, Zenon
  <2> HIDE DEF g
  <2>9. 0 \in 0 .. n + 1 /\ 0 # n + 1
    OBVIOUS
  <2>10. g[0] = first
    BY <2>3, <2>8, <2>9, Zenon
  <2>11. ASSUME NEW i \in 1 .. n + 1 PROVE g[i] = step[<<g[i - 1], i>>]
    <3>1. i - 1 \in 0 .. n + 1 /\ i - 1 # n + 1 /\ i \in 0 .. n + 1
      OBVIOUS
    <3>2. CASE i = n + 1
      <4>1. i - 1 = n
        BY <3>2
      <4>2. g[i] = e /\ g[i - 1] = f[n]
        BY <2>8, <3>1, <3>2, <4>1, Zenon
      <4> QED
        BY <3>2, <4>2, Zenon DEF e
    <3>3. CASE i # n + 1
      <4>1. i \in 1 .. n
        BY <3>3
      <4> QED
        BY <2>3, <2>8, <3>1, <3>3, <4>1, Zenon
    <3> QED
      BY <3>2, <3>3, Zenon
  <2>12. P(g, n + 1)
    BY <2>8, <2>10, <2>11, Zenon
  <2> QED
    BY <2>12, Zenon
<1> HIDE DEF T
<1>3. N \in T
  BY <1>0, <1>1, <1>2, NatInduct, Zenon
<1>4. N <= N
  BY <1>0
<1> QED
  BY <1>3, <1>4, Zenon DEF T, IsRun

-----------------------------------------------------------------------------
(* The ends of a sequence, one element shorter each.                       *)
LEMMA Suffix ==
    ASSUME NEW S, NEW q \in Seq(S)
    PROVE  /\ SubSeq(q, 1, Len(q)) = q
           /\ SubSeq(q, Len(q) + 1, Len(q)) = <<>>
           /\ \A i \in 1 .. Len(q) : SubSeq(q, i, Len(q)) = <<q[i]>> \o SubSeq(q, i + 1, Len(q))
<1>1. SubSeq(q, 1, Len(q)) = q
  OBVIOUS
<1>2. SubSeq(q, Len(q) + 1, Len(q)) = <<>>
  OBVIOUS
<1>3. ASSUME NEW i \in 1 .. Len(q) PROVE SubSeq(q, i, Len(q)) = <<q[i]>> \o SubSeq(q, i + 1, Len(q))
  OBVIOUS
<1> QED
  BY <1>1, <1>2, <1>3, Zenon

(* Following next from first meets exactly the cells of q, in this order;  *)
(* the pointer of every other cell is NULL.                                *)
Thread(next, first, q) ==
    /\ next \in [Node -> Ptr] /\ q \in Seq(Node)
    /\ Distinct(q) /\ first = At(q, 1)
    /\ \A i \in 1 .. Len(q) : next[q[i]] = At(q, i + 1)
    /\ \A n \in Node \ Range(q) : next[n] = NULL

(* Trace meets exactly the cells of the thread.                            *)
LEMMA TraceIs ==
    ASSUME NEW next, NEW first, NEW q, Thread(next, first, q)
    PROVE  Trace(next, first) = q
<1> DEFINE N == Len(q)
           F(c) == [x \in Ptr |-> IF x = NULL THEN <<>> ELSE <<x>> \o c[next[x]]]
           from(x) == CHOOSE i \in 1 .. N : q[i] = x
           w == [x \in Ptr |->
                   IF x = NULL THEN <<>>
                   ELSE IF x \in Range(q) THEN SubSeq(q, from(x), N) ELSE <<x>>]
<1>1. /\ next \in [Node -> Ptr] /\ q \in Seq(Node)
      /\ Distinct(q) /\ first = At(q, 1)
      /\ \A i \in 1 .. N : next[q[i]] = At(q, i + 1)
      /\ \A n \in Node \ Range(q) : next[n] = NULL
  BY Zenon DEF Thread
<1>2. N \in Nat /\ \A i \in 1 .. N : q[i] \in Node /\ q[i] \in Range(q)
  BY <1>1, InRange, Zenon
<1>3. \A i \in 1 .. N : from(q[i]) = i
  BY <1>1, <1>2, Zenon DEF Distinct
<1>4. \A x \in Range(q) : \E i \in 1 .. N : x = q[i]
  BY <1>1, InRange, Zenon
<1>5. ASSUME NEW i \in 1 .. N + 1
      PROVE  At(q, i) \in Ptr /\ w[At(q, i)] = SubSeq(q, i, N)
  <2>1. CASE i \in 1 .. N
    <3>1. At(q, i) = q[i] /\ q[i] # NULL /\ q[i] \in Ptr
      BY <1>2, <2>1, NullIsNone, Zenon DEF At
    <3>2. w[q[i]] = SubSeq(q, from(q[i]), N)
      BY <1>2, <2>1, <3>1, Zenon
    <3>3. from(q[i]) = i
      BY <1>3, <2>1, Zenon
    <3> HIDE DEF w, from
    <3> QED
      BY <3>1, <3>2, <3>3, Zenon
  <2>2. CASE i \notin 1 .. N
    <3>0. i = N + 1
      BY <1>2, <2>2
    <3>2. SubSeq(q, i, N) = <<>>
      BY <1>1, <3>0, Suffix, Zenon
    <3> QED
      BY <2>2, <3>2, NullIsNone, Zenon DEF At
  <2> QED
    BY <2>1, <2>2, Zenon
<1>6. \A i \in 1 .. N : SubSeq(q, i, N) = <<q[i]>> \o SubSeq(q, i + 1, N)
  BY <1>1, Suffix, Zenon
<1>7. ASSUME NEW x \in Ptr PROVE w[x] = F(w)[x]
  <2>1. CASE x = NULL
    BY <2>1, Zenon
  <2>2. CASE x # NULL /\ x \in Range(q)
    <3>1. PICK i \in 1 .. N : x = q[i]
      BY <1>4, <2>2, Zenon
    <3>2. i \in 1 .. N + 1 /\ i + 1 \in 1 .. N + 1
      BY <1>2
    <3>3. At(q, i) = x
      BY <3>1, Zenon DEF At
    <3>4. w[x] = SubSeq(q, i, N) /\ w[next[x]] = SubSeq(q, i + 1, N)
      BY <1>1, <1>5, <3>1, <3>2, <3>3, Zenon
    <3> HIDE DEF w
    <3> QED
      BY <1>6, <2>2, <3>1, <3>4, Zenon
  <2>3. CASE x # NULL /\ x \notin Range(q)
    <3>1. x \in Node
      BY <2>3, Zenon DEF Ptr
    <3>2. next[x] = NULL /\ w[NULL] = <<>> /\ w[x] = <<x>>
      BY <1>1, <2>3, <3>1, NullIsNone, Zenon
    <3> HIDE DEF w
    <3>3. <<x>> \o <<>> = <<x>>
      OBVIOUS
    <3> QED
      BY <2>3, <3>2, <3>3, Zenon
  <2> QED
    BY <2>1, <2>2, <2>3, Zenon
<1>8. \E c : c = F(c)
  <2>1. w = F(w)
    <3>1. w = [x \in Ptr |-> w[x]]
      OBVIOUS
    <3> HIDE DEF w
    <3> QED
      BY <1>7, <3>1, Zenon
  <2> QED
    BY <2>1, Zenon
<1> DEFINE c == CHOOSE f : f = F(f)
<1>9. c = F(c) /\ Trace(next, first) = c[first]
  BY <1>8, Zenon DEF Trace
<1> HIDE DEF c, w
<1> DEFINE T == {m \in Nat : m <= N => c[At(q, N + 1 - m)] = SubSeq(q, N + 1 - m, N)}
<1>10. \A m \in Nat : m \in T
  <2>1. 0 \in T
    <3>1. N + 1 - 0 \notin 1 .. N /\ N + 1 - 0 = N + 1
      BY <1>2
    <3>2. SubSeq(q, N + 1 - 0, N) = <<>> /\ At(q, N + 1 - 0) = NULL
      BY <1>1, <3>1, Suffix, Zenon DEF At
    <3> QED
      BY <1>9, <3>2, NullIsNone, Zenon
  <2>2. ASSUME NEW m \in Nat, m \in T, m + 1 <= N
        PROVE  c[At(q, N + 1 - (m + 1))] = SubSeq(q, N + 1 - (m + 1), N)
    <3> DEFINE i == N + 1 - (m + 1)
    <3>1. i \in 1 .. N /\ i + 1 = N + 1 - m /\ m <= N
      BY <1>2, <2>2
    <3>2. c[At(q, i + 1)] = SubSeq(q, i + 1, N)
      BY <2>2, <3>1, Zenon
    <3> HIDE DEF i
    <3>3. At(q, i) = q[i] /\ q[i] # NULL /\ q[i] \in Ptr
      BY <1>2, <3>1, NullIsNone, Zenon DEF At
    <3>4. c[q[i]] = <<q[i]>> \o c[next[q[i]]]
      BY <1>9, <3>3, Zenon
    <3>5. c[At(q, i)] = SubSeq(q, i, N)
      BY <1>1, <1>6, <3>1, <3>2, <3>3, <3>4, Zenon
    <3> QED
      BY <3>5, Zenon DEF i
  <2>3. ASSUME NEW m \in Nat, m \in T PROVE m + 1 \in T
    <3>1. m + 1 \in Nat
      OBVIOUS
    <3> QED
      BY <2>2, <2>3, <3>1, Zenon
  <2> HIDE DEF T
  <2> QED
    BY <2>1, <2>3, NatInduct, Zenon
<1>11. N + 1 - N = 1
  BY <1>2
<1>12. N <= N
  BY <1>2
<1>13. N \in T
  BY <1>2, <1>10, Zenon
<1>14. c[At(q, N + 1 - N)] = SubSeq(q, N + 1 - N, N)
  BY <1>12, <1>13, Zenon
<1> QED
  BY <1>1, <1>9, <1>11, <1>14, Suffix, Zenon

(* The number of elements of a sequence without repetition.                *)
LEMMA Counted ==
    ASSUME NEW S, NEW q \in Seq(S), Distinct(q)
    PROVE  IsFiniteSet(Range(q)) /\ Cardinality(Range(q)) = Len(q)
<1>1. /\ Len(q) \in Nat
      /\ \A i \in 1 .. Len(q) : q[i] \in Range(q)
      /\ \A x \in Range(q) : \E i \in 1 .. Len(q) : x = q[i]
  BY InRange, Zenon
<1>2. DOMAIN q = 1 .. Len(q) /\ q \in [1 .. Len(q) -> S]
  OBVIOUS
<1> DEFINE D == 1 .. Len(q)
           f == [i \in D |-> q[i]]
<1>3. f \in Bijection(D, Range(q))
  <2>1. f \in [D -> Range(q)]
    BY <1>1, Zenon
  <2>2. \A i, j \in D : f[i] = f[j] => i = j
    BY Zenon DEF Distinct
  <2>3. \A x \in Range(q) : \E i \in D : f[i] = x
    BY <1>1, Zenon
  <2> HIDE DEF f, D
  <2> QED
    BY <2>1, <2>2, <2>3, Zenon DEF Bijection, Injection, Surjection, IsInjective
<1>4. IsFiniteSet(D) /\ Cardinality(D) = Len(q)
  <2>1. /\ 1 \in Int /\ Len(q) \in Int /\ Len(q) - 1 + 1 = Len(q)
        /\ (1 > Len(q) => Len(q) = 0)
    BY <1>1
  <2>2. /\ IsFiniteSet(1 .. Len(q))
        /\ Cardinality(1 .. Len(q)) = IF 1 > Len(q) THEN 0 ELSE Len(q) - 1 + 1
    BY <2>1, FS_Interval, Zenon
  <2> QED
    BY <2>1, <2>2, Zenon
<1> HIDE DEF f, D
<1> QED
  BY <1>3, <1>4, FS_Bijection, Zenon DEF ExistsBijection
=============================================================================
