---------------------------- MODULE ObjectsProofs ---------------------------
(***************************************************************************)
(* Proofs about the lists, sets and hashes of Objects, for every heap,     *)
(* every hash function and every sequence of commands.  A list is compared *)
(* with the sequence of its cells (Linked), a table with the set of its    *)
(* field and value pairs (Pairs); the inductive invariant ObjInv says that *)
(* the struct of the key's object agrees with such a sequence or set.      *)
(***************************************************************************)
EXTENDS Objects, HeapProofs, TLAPS

-----------------------------------------------------------------------------
(* Sequences of cells with one cell more or less, and in reverse.          *)

(* q with x in place k.                                                    *)
InsertAt(q, k, x) == SubSeq(q, 1, k - 1) \o <<x>> \o SubSeq(q, k, Len(q))

(* q without what it has in place k.                                       *)
RemoveAt(q, k) == SubSeq(q, 1, k - 1) \o SubSeq(q, k + 1, Len(q))

(* r is q with x in place k.                                               *)
IsInsert(r, q, k, x) ==
    /\ r \in Seq(Node) /\ Len(r) = Len(q) + 1
    /\ \A j \in 1 .. Len(q) + 1 : /\ j < k => r[j] = q[j]
                                  /\ j = k => r[j] = x
                                  /\ j > k => r[j] = q[j - 1]
    /\ \A i \in Int : /\ i < k => At(r, i) = At(q, i)
                      /\ i = k => At(r, i) = x
                      /\ i > k => At(r, i) = At(q, i - 1)
    /\ Range(r) = Range(q) \cup {x}

(* r is q without what it has in place k.                                  *)
IsRemove(r, q, k) ==
    /\ r \in Seq(Node) /\ Len(r) = Len(q) - 1
    /\ \A j \in 1 .. Len(q) - 1 : /\ j < k => r[j] = q[j]
                                  /\ j >= k => r[j] = q[j + 1]
    /\ \A i \in Int : /\ i < k => At(r, i) = At(q, i)
                      /\ i >= k => At(r, i) = At(q, i + 1)
    /\ Distinct(q) => Range(r) = Range(q) \ {q[k]}

(* r is q from the end to the start.                                       *)
IsReverse(r, q) ==
    /\ r \in Seq(Node) /\ Len(r) = Len(q)
    /\ \A j \in 1 .. Len(q) : r[j] = q[Len(q) + 1 - j] /\ r[Len(q) + 1 - j] = q[j]
    /\ \A i \in Int : At(r, i) = At(q, Len(q) + 1 - i)
    /\ Range(r) = Range(q)

(* The places of a part of a sequence.                                     *)
LEMMA Slice ==
    ASSUME NEW S, NEW q \in Seq(S), NEW m \in 1 .. Len(q) + 1, NEW n \in 0 .. Len(q)
    PROVE  /\ SubSeq(q, m, n) \in Seq(S)
           /\ Len(SubSeq(q, m, n)) = IF m <= n THEN n - m + 1 ELSE 0
           /\ \A i \in 1 .. n - m + 1 : SubSeq(q, m, n)[i] = q[m + i - 1]
  OBVIOUS

(* The places of a sequence with one element more.                         *)
LEMMA InsertedPlaces ==
    ASSUME NEW q \in Seq(Node), NEW k \in 1 .. Len(q) + 1, NEW x \in Node
    PROVE  /\ InsertAt(q, k, x) \in Seq(Node)
           /\ Len(InsertAt(q, k, x)) = Len(q) + 1
           /\ \A j \in 1 .. Len(q) + 1 :
                /\ j < k => InsertAt(q, k, x)[j] = q[j]
                /\ j = k => InsertAt(q, k, x)[j] = x
                /\ j > k => InsertAt(q, k, x)[j] = q[j - 1]
<1> DEFINE a == SubSeq(q, 1, k - 1)
           b == SubSeq(q, k, Len(q))
<1>1. Len(q) \in Nat /\ \A i \in 1 .. Len(q) : q[i] \in Node
  BY SeqFacts, Zenon
<1>2. /\ k \in 1 .. Len(q) + 1 /\ 1 \in 1 .. Len(q) + 1
      /\ k - 1 \in 0 .. Len(q) /\ Len(q) \in 0 .. Len(q)
  BY <1>1
<1>4. /\ a \in Seq(Node) /\ Len(a) = k - 1
      /\ \A i \in 1 .. k - 1 : a[i] = q[i]
  <2>1. /\ a \in Seq(Node) /\ Len(a) = IF 1 <= k - 1 THEN k - 1 - 1 + 1 ELSE 0
        /\ \A i \in 1 .. k - 1 - 1 + 1 : a[i] = q[1 + i - 1]
    BY <1>2, Slice, Zenon
  <2> QED
    BY <1>1, <2>1
<1>5. /\ b \in Seq(Node) /\ Len(b) = Len(q) - k + 1
      /\ \A i \in 1 .. Len(q) - k + 1 : b[i] = q[k + i - 1]
  <2>1. /\ b \in Seq(Node) /\ Len(b) = IF k <= Len(q) THEN Len(q) - k + 1 ELSE 0
        /\ \A i \in 1 .. Len(q) - k + 1 : b[i] = q[k + i - 1]
    BY <1>2, Slice, Zenon
  <2> QED
    BY <1>1, <2>1
<1> HIDE DEF a, b
<1>6. <<x>> \in Seq(Node) /\ Len(<<x>>) = 1 /\ <<x>>[1] = x
  OBVIOUS
<1>7. /\ a \o <<x>> \in Seq(Node) /\ Len(a \o <<x>>) = k
      /\ \A i \in 1 .. k : (a \o <<x>>)[i] = IF i < k THEN q[i] ELSE x
  <2>1. /\ a \o <<x>> \in Seq(Node) /\ Len(a \o <<x>>) = Len(a) + Len(<<x>>)
        /\ \A i \in 1 .. Len(a) + Len(<<x>>) : (a \o <<x>>)[i] =
             IF i <= Len(a) THEN a[i] ELSE <<x>>[i - Len(a)]
    BY <1>4, <1>6, Concat, Zenon
  <2>2. Len(a) + Len(<<x>>) = k
    BY <1>1, <1>4, <1>6
  <2>3. ASSUME NEW i \in 1 .. k
        PROVE  (a \o <<x>>)[i] = IF i < k THEN q[i] ELSE x
    BY <1>1, <1>4, <1>6, <2>1, <2>2
  <2> QED
    BY <2>1, <2>2, <2>3, Zenon
<1> DEFINE c == a \o <<x>>
<1>8. c \in Seq(Node) /\ Len(c) = k /\ \A i \in 1 .. k : c[i] = IF i < k THEN q[i] ELSE x
  BY <1>7, Zenon
<1>9. InsertAt(q, k, x) = c \o b
  BY Zenon DEF InsertAt, a, b
<1> HIDE DEF c
<1>10. /\ c \o b \in Seq(Node) /\ Len(c \o b) = Len(c) + Len(b)
       /\ \A i \in 1 .. Len(c) + Len(b) : (c \o b)[i] =
            IF i <= Len(c) THEN c[i] ELSE b[i - Len(c)]
  BY <1>5, <1>8, Concat, Zenon
<1>11. Len(c) + Len(b) = Len(q) + 1
  BY <1>1, <1>5, <1>8
<1>12. ASSUME NEW j \in 1 .. Len(q) + 1
       PROVE  /\ j < k => (c \o b)[j] = q[j]
              /\ j = k => (c \o b)[j] = x
              /\ j > k => (c \o b)[j] = q[j - 1]
  BY <1>1, <1>5, <1>8, <1>10, <1>11
<1> QED
  BY <1>9, <1>10, <1>11, <1>12, Zenon

(* The places of a sequence with one element less.                         *)
LEMMA RemovedPlaces ==
    ASSUME NEW S, NEW q \in Seq(S), NEW k \in 1 .. Len(q)
    PROVE  /\ RemoveAt(q, k) \in Seq(S)
           /\ Len(RemoveAt(q, k)) = Len(q) - 1
           /\ \A j \in 1 .. Len(q) - 1 :
                /\ j < k => RemoveAt(q, k)[j] = q[j]
                /\ j >= k => RemoveAt(q, k)[j] = q[j + 1]
<1> DEFINE a == SubSeq(q, 1, k - 1)
           b == SubSeq(q, k + 1, Len(q))
<1>1. Len(q) \in Nat /\ \A i \in 1 .. Len(q) : q[i] \in S
  BY SeqFacts, Zenon
<1>2. /\ k + 1 \in 1 .. Len(q) + 1 /\ 1 \in 1 .. Len(q) + 1
      /\ k - 1 \in 0 .. Len(q) /\ Len(q) \in 0 .. Len(q)
  BY <1>1
<1>4. /\ a \in Seq(S) /\ Len(a) = k - 1
      /\ \A i \in 1 .. k - 1 : a[i] = q[i]
  <2>1. /\ a \in Seq(S) /\ Len(a) = IF 1 <= k - 1 THEN k - 1 - 1 + 1 ELSE 0
        /\ \A i \in 1 .. k - 1 - 1 + 1 : a[i] = q[1 + i - 1]
    BY <1>2, Slice, Zenon
  <2> QED
    BY <1>1, <2>1
<1>5. /\ b \in Seq(S) /\ Len(b) = Len(q) - k
      /\ \A i \in 1 .. Len(q) - k : b[i] = q[k + i]
  <2>1. /\ b \in Seq(S)
        /\ Len(b) = IF k + 1 <= Len(q) THEN Len(q) - (k + 1) + 1 ELSE 0
        /\ \A i \in 1 .. Len(q) - (k + 1) + 1 : b[i] = q[(k + 1) + i - 1]
    BY <1>2, Slice, Zenon
  <2> QED
    BY <1>1, <2>1
<1> HIDE DEF a, b
<1>6. RemoveAt(q, k) = a \o b
  BY Zenon DEF RemoveAt, a, b
<1>7. /\ a \o b \in Seq(S) /\ Len(a \o b) = Len(a) + Len(b)
      /\ \A i \in 1 .. Len(a) + Len(b) : (a \o b)[i] =
           IF i <= Len(a) THEN a[i] ELSE b[i - Len(a)]
  BY <1>4, <1>5, Concat, Zenon
<1>8. Len(a) + Len(b) = Len(q) - 1
  BY <1>1, <1>4, <1>5
<1>9. ASSUME NEW j \in 1 .. Len(q) - 1
      PROVE  /\ j < k => (a \o b)[j] = q[j]
             /\ j >= k => (a \o b)[j] = q[j + 1]
  <2>1. CASE j < k
    BY <1>1, <1>4, <1>7, <1>8, <2>1
  <2>2. CASE j >= k
    <3>0. ~(j < k)
      BY <2>2
    <3>1. j - Len(a) \in 1 .. Len(q) - k /\ k + (j - Len(a)) = j + 1 /\ ~(j <= Len(a))
      BY <1>1, <1>4, <2>2
    <3>2. (a \o b)[j] = b[j - Len(a)]
      BY <1>7, <1>8, <3>1, Zenon
    <3> QED
      BY <1>5, <3>0, <3>1, <3>2, Zenon
  <2> QED
    BY <1>1, <2>1, <2>2
<1> QED
  BY <1>6, <1>7, <1>8, <1>9, Zenon

(* Every element of r was in q, in its place or the next.                  *)
CameFrom(r, q, k) ==
    \A i \in 1 .. Len(r) : \E j \in 1 .. Len(q) :
      /\ r[i] = q[j] /\ j # k
      /\ i < k => j = i
      /\ ~(i < k) => j = i + 1

(* Where the places of a sequence with one element less were.              *)
LEMMA RemovedFrom ==
    ASSUME NEW S, NEW q \in Seq(S), NEW k \in 1 .. Len(q)
    PROVE  CameFrom(RemoveAt(q, k), q, k)
<1> DEFINE r == RemoveAt(q, k)
<1>2. /\ Len(r) = Len(q) - 1
      /\ \A j \in 1 .. Len(q) - 1 : /\ j < k => r[j] = q[j]
                                    /\ j >= k => r[j] = q[j + 1]
  BY RemovedPlaces, Zenon
<1> HIDE DEF r
<1>3. Len(r) = Len(q) - 1 /\ Len(q) \in Nat
  BY <1>2, InRange, Zenon
<1>4. SUFFICES ASSUME NEW i \in 1 .. Len(r)
               PROVE  \E j \in 1 .. Len(q) : /\ r[i] = q[j] /\ j # k
                                             /\ i < k => j = i
                                             /\ ~(i < k) => j = i + 1
  BY Zenon DEF r, CameFrom
<1>5. i \in 1 .. Len(q) - 1 /\ i \in 1 .. Len(q) /\ i + 1 \in 1 .. Len(q)
      /\ (i < k \/ i >= k) /\ (i < k => i # k) /\ (i >= k => i + 1 # k)
  BY <1>3
<1> QED
  BY <1>2, <1>5, Zenon

(* The places of a reverse.                                                *)
LEMMA ReversedPlaces ==
    ASSUME NEW q \in Seq(Node)
    PROVE  /\ Reverse(q) \in Seq(Node) /\ Len(Reverse(q)) = Len(q)
           /\ \A j \in 1 .. Len(q) :
                Reverse(q)[j] = q[Len(q) + 1 - j] /\ Reverse(q)[Len(q) + 1 - j] = q[j]
           /\ Reverse(Reverse(q)) = q
<1>1. Len(q) \in Nat /\ \A i \in 1 .. Len(q) : q[i] \in Node
  BY SeqFacts, Zenon
<1>2. Reverse(q) = [i \in 1 .. Len(q) |-> q[Len(q) + 1 - i]]
  BY Zenon DEF Reverse
<1>3. Reverse(q) \in [1 .. Len(q) -> Node]
  BY <1>1, <1>2
<1>4. Reverse(q) \in Seq(Node) /\ Len(Reverse(q)) = Len(q)
  BY <1>1, <1>3, SeqOf, Zenon
<1>5. ASSUME NEW j \in 1 .. Len(q)
      PROVE  Reverse(q)[j] = q[Len(q) + 1 - j] /\ Reverse(q)[Len(q) + 1 - j] = q[j]
  <2>1. Len(q) + 1 - j \in 1 .. Len(q) /\ Len(q) + 1 - (Len(q) + 1 - j) = j
    BY <1>1
  <2> QED
    BY <1>2, <2>1, Zenon
<1>6. Reverse(Reverse(q)) = [i \in 1 .. Len(q) |-> Reverse(q)[Len(q) + 1 - i]]
  <2> DEFINE r == Reverse(q)
  <2>1. Reverse(r) = [i \in 1 .. Len(r) |-> r[Len(r) + 1 - i]]
    BY Zenon DEF Reverse
  <2>2. Len(r) = Len(q)
    BY <1>4, Zenon
  <2> QED
    BY <2>1, <2>2, Zenon
<1>7. ASSUME NEW i \in 1 .. Len(q) PROVE Reverse(q)[Len(q) + 1 - i] = q[i]
  BY <1>5, Zenon
<1>8. q = [i \in 1 .. Len(q) |-> q[i]]
  BY SeqFacts, Zenon
<1>9. Reverse(Reverse(q)) = q
  BY <1>6, <1>7, <1>8, Zenon
<1> QED
  BY <1>4, <1>5, <1>9, Zenon

(* At after InsertAt.                                                      *)
LEMMA AtInserted ==
    ASSUME NEW q \in Seq(Node), NEW k \in 1 .. Len(q) + 1, NEW n \in Node
    PROVE  \A i \in Int :
             /\ i < k => At(InsertAt(q, k, n), i) = At(q, i)
             /\ i = k => At(InsertAt(q, k, n), i) = n
             /\ i > k => At(InsertAt(q, k, n), i) = At(q, i - 1)
<1> DEFINE r == InsertAt(q, k, n)
<1>1. /\ Len(r) = Len(q) + 1
      /\ \A j \in 1 .. Len(q) + 1 :
           /\ j < k => r[j] = q[j]
           /\ j = k => r[j] = n
           /\ j > k => r[j] = q[j - 1]
  BY InsertedPlaces, Zenon
<1>2. Len(q) \in Nat
  BY SeqFacts, Zenon
<1> HIDE DEF r
<1> SUFFICES ASSUME NEW i \in Int
             PROVE  /\ i < k => At(r, i) = At(q, i)
                    /\ i = k => At(r, i) = n
                    /\ i > k => At(r, i) = At(q, i - 1)
  BY Zenon DEF r
<1> QED
  BY <1>1, <1>2 DEF At

(* At after RemoveAt.                                                      *)
LEMMA AtRemoved ==
    ASSUME NEW q \in Seq(Node), NEW k \in 1 .. Len(q)
    PROVE  \A i \in Int :
             /\ i < k => At(RemoveAt(q, k), i) = At(q, i)
             /\ i >= k => At(RemoveAt(q, k), i) = At(q, i + 1)
<1> DEFINE r == RemoveAt(q, k)
<1>1. /\ Len(r) = Len(q) - 1
      /\ \A j \in 1 .. Len(q) - 1 :
           (j < k => r[j] = q[j]) /\ (j >= k => r[j] = q[j + 1])
  BY RemovedPlaces, Zenon
<1>2. Len(q) \in Nat
  BY SeqFacts, Zenon
<1> HIDE DEF r
<1> SUFFICES ASSUME NEW i \in Int
             PROVE  /\ i < k => At(r, i) = At(q, i)
                    /\ i >= k => At(r, i) = At(q, i + 1)
  BY Zenon DEF r
<1> QED
  BY <1>1, <1>2 DEF At

(* At after Reverse.                                                       *)
LEMMA AtReversed ==
    ASSUME NEW q \in Seq(Node)
    PROVE  \A i \in Int : At(Reverse(q), i) = At(q, Len(q) + 1 - i)
<1> DEFINE r == Reverse(q)
<1>1. Len(r) = Len(q) /\ \A j \in 1 .. Len(q) : r[j] = q[Len(q) + 1 - j]
  BY ReversedPlaces, Zenon
<1>2. Len(q) \in Nat
  BY SeqFacts, Zenon
<1> HIDE DEF r
<1> SUFFICES ASSUME NEW i \in Int PROVE At(r, i) = At(q, Len(q) + 1 - i)
  BY Zenon DEF r
<1> QED
  BY <1>1, <1>2 DEF At

(* What InsertAt returns.                                                  *)
LEMMA Inserted ==
    ASSUME NEW q \in Seq(Node), NEW k \in 1 .. Len(q) + 1, NEW x \in Node
    PROVE  IsInsert(InsertAt(q, k, x), q, k, x)
<1> DEFINE r == InsertAt(q, k, x)
<1>1. /\ r \in Seq(Node) /\ Len(r) = Len(q) + 1
      /\ \A j \in 1 .. Len(q) + 1 : /\ j < k => r[j] = q[j]
                                    /\ j = k => r[j] = x
                                    /\ j > k => r[j] = q[j - 1]
  BY InsertedPlaces, Zenon
<1>2. \A i \in Int : /\ i < k => At(r, i) = At(q, i)
                     /\ i = k => At(r, i) = x
                     /\ i > k => At(r, i) = At(q, i - 1)
  BY AtInserted, Zenon
<1>3. /\ Len(q) \in Nat
      /\ \A i \in 1 .. Len(q) : q[i] \in Range(q)
      /\ \A y \in Range(q) : \E i \in 1 .. Len(q) : y = q[i]
  BY InRange, Zenon
<1>4. /\ \A i \in 1 .. Len(r) : r[i] \in Range(r)
      /\ \A y \in Range(r) : \E i \in 1 .. Len(r) : y = r[i]
  BY <1>1, InRange, Zenon
<1> HIDE DEF r
<1>9. Len(r) = Len(q) + 1 /\ Len(q) \in Nat
  BY <1>1, <1>3, Zenon
<1>5. x \in Range(r)
  <2>1. k \in 1 .. Len(r) /\ k \in 1 .. Len(q) + 1
    BY <1>9
  <2> QED
    BY <1>1, <1>4, <2>1, Zenon
<1>6. ASSUME NEW i \in 1 .. Len(q) PROVE q[i] \in Range(r)
  <2>1. CASE i < k
    <3>1. i \in 1 .. Len(r) /\ i \in 1 .. Len(q) + 1
      BY <1>9
    <3> QED
      BY <1>1, <1>4, <2>1, <3>1, Zenon
  <2>2. CASE ~(i < k)
    <3>1. /\ i + 1 \in 1 .. Len(r) /\ i + 1 \in 1 .. Len(q) + 1
          /\ i + 1 > k /\ (i + 1) - 1 = i
      BY <1>9, <2>2
    <3>2. r[i + 1] = q[(i + 1) - 1]
      BY <1>1, <3>1, Zenon
    <3> QED
      BY <1>4, <3>1, <3>2, Zenon
  <2> QED
    BY <2>1, <2>2, Zenon
<1>7. ASSUME NEW y \in Range(r) PROVE y \in Range(q) \cup {x}
  <2>1. PICK i \in 1 .. Len(r) : y = r[i]
    BY <1>4, Zenon
  <2>5. i \in 1 .. Len(q) + 1 /\ (i < k \/ i = k \/ i > k)
    BY <1>9
  <2>2. CASE i < k
    <3>1. i \in 1 .. Len(q)
      BY <1>9, <2>2
    <3> QED
      BY <1>1, <1>3, <2>1, <2>2, <2>5, <3>1, Zenon
  <2>3. CASE i = k
    BY <1>1, <2>1, <2>3, <2>5, Zenon
  <2>4. CASE i > k
    <3>1. i - 1 \in 1 .. Len(q)
      BY <1>9, <2>4
    <3> QED
      BY <1>1, <1>3, <2>1, <2>4, <2>5, <3>1, Zenon
  <2> QED
    BY <2>2, <2>3, <2>4, <2>5, Zenon
<1>8. Range(r) = Range(q) \cup {x}
  BY <1>3, <1>5, <1>6, <1>7, Zenon
<1> QED
  BY <1>1, <1>2, <1>8, Zenon DEF IsInsert, r

(* What RemoveAt returns.                                                  *)
LEMMA Removed ==
    ASSUME NEW q \in Seq(Node), NEW k \in 1 .. Len(q)
    PROVE  IsRemove(RemoveAt(q, k), q, k)
<1> DEFINE r == RemoveAt(q, k)
<1>1. /\ r \in Seq(Node) /\ Len(r) = Len(q) - 1
      /\ \A j \in 1 .. Len(q) - 1 : /\ j < k => r[j] = q[j]
                                    /\ j >= k => r[j] = q[j + 1]
  BY RemovedPlaces, Zenon
<1>2. \A i \in Int : /\ i < k => At(r, i) = At(q, i)
                     /\ i >= k => At(r, i) = At(q, i + 1)
  BY AtRemoved, Zenon
<1>3. /\ Len(q) \in Nat
      /\ \A i \in 1 .. Len(q) : q[i] \in Range(q)
      /\ \A y \in Range(q) : \E i \in 1 .. Len(q) : y = q[i]
  BY InRange, Zenon
<1>4. /\ \A i \in 1 .. Len(r) : r[i] \in Range(r)
      /\ \A y \in Range(r) : \E i \in 1 .. Len(r) : y = r[i]
  BY <1>1, InRange, Zenon
<1> HIDE DEF r
<1>9. Len(r) = Len(q) - 1 /\ Len(q) \in Nat
  BY <1>1, <1>3, Zenon
<1>5. ASSUME NEW i \in 1 .. Len(q), i # k PROVE q[i] \in Range(r)
  <2>1. CASE i < k
    <3>1. i \in 1 .. Len(r) /\ i \in 1 .. Len(q) - 1
      BY <1>9, <2>1
    <3> QED
      BY <1>1, <1>4, <2>1, <3>1, Zenon
  <2>2. CASE ~(i < k)
    <3>1. /\ i - 1 \in 1 .. Len(r) /\ i - 1 \in 1 .. Len(q) - 1
          /\ i - 1 >= k /\ (i - 1) + 1 = i
      BY <1>9, <1>5, <2>2
    <3>2. r[i - 1] = q[(i - 1) + 1]
      BY <1>1, <3>1, Zenon
    <3> QED
      BY <1>4, <3>1, <3>2, Zenon
  <2> QED
    BY <2>1, <2>2, Zenon
<1>6. ASSUME Distinct(q), NEW y \in Range(r) PROVE y \in Range(q) \ {q[k]}
  <2>1. PICK i \in 1 .. Len(r) : y = r[i]
    BY <1>4, Zenon
  <2>2. PICK j \in 1 .. Len(q) : y = q[j] /\ j # k
    <3>1. CASE i < k
      <4>1. i \in 1 .. Len(q) /\ i # k /\ i \in 1 .. Len(q) - 1
        BY <1>9, <3>1
      <4> QED
        BY <1>1, <2>1, <3>1, <4>1, Zenon
    <3>2. CASE ~(i < k)
      <4>1. i + 1 \in 1 .. Len(q) /\ i + 1 # k /\ i \in 1 .. Len(q) - 1 /\ i >= k
        BY <1>9, <3>2
      <4> QED
        BY <1>1, <2>1, <4>1, Zenon
    <3> QED
      BY <3>1, <3>2, Zenon
  <2> QED
    BY <1>3, <1>6, <2>2, Zenon DEF Distinct
<1>7. ASSUME NEW y \in Range(q), y # q[k] PROVE y \in Range(r)
  BY <1>3, <1>5, <1>7, Zenon
<1>8. Distinct(q) => Range(r) = Range(q) \ {q[k]}
  BY <1>6, <1>7, Zenon
<1> QED
  BY <1>1, <1>2, <1>8, Zenon DEF IsRemove, r

(* What Reverse returns.                                                   *)
LEMMA Reversed ==
    ASSUME NEW q \in Seq(Node)
    PROVE  IsReverse(Reverse(q), q) /\ Reverse(Reverse(q)) = q
<1> DEFINE r == Reverse(q)
<1>1. /\ r \in Seq(Node) /\ Len(r) = Len(q)
      /\ \A j \in 1 .. Len(q) : r[j] = q[Len(q) + 1 - j] /\ r[Len(q) + 1 - j] = q[j]
  BY ReversedPlaces, Zenon
<1>2. \A i \in Int : At(r, i) = At(q, Len(q) + 1 - i)
  BY AtReversed, Zenon
<1>3. /\ Len(q) \in Nat
      /\ \A i \in 1 .. Len(q) : q[i] \in Range(q)
      /\ \A y \in Range(q) : \E i \in 1 .. Len(q) : y = q[i]
  BY InRange, Zenon
<1>4. /\ \A i \in 1 .. Len(r) : r[i] \in Range(r)
      /\ \A y \in Range(r) : \E i \in 1 .. Len(r) : y = r[i]
  BY <1>1, InRange, Zenon
<1> HIDE DEF r
<1>5. \A i \in 1 .. Len(q) : Len(q) + 1 - i \in 1 .. Len(q)
  BY <1>3
<1>6. ASSUME NEW y \in Range(q) PROVE y \in Range(r)
  <2>1. PICK i \in 1 .. Len(q) : y = q[i]
    BY <1>3, Zenon
  <2> QED
    BY <1>1, <1>4, <1>5, <2>1, Zenon
<1>7. ASSUME NEW y \in Range(r) PROVE y \in Range(q)
  <2>1. PICK i \in 1 .. Len(q) : y = r[i]
    BY <1>1, <1>4, Zenon
  <2> QED
    BY <1>1, <1>3, <1>5, <2>1, Zenon
<1>8. Range(r) = Range(q)
  BY <1>6, <1>7, Zenon
<1>9. Reverse(Reverse(q)) = q
  BY ReversedPlaces, Zenon
<1> QED
  BY <1>1, <1>2, <1>8, <1>9, Zenon DEF IsReverse, r

(* A new cell leaves the cells distinct.                                   *)
LEMMA DistinctInserted ==
    ASSUME NEW q \in Seq(Node), NEW k \in 1 .. Len(q) + 1, NEW x \in Node,
           x \notin Range(q), Distinct(q)
    PROVE  Distinct(InsertAt(q, k, x))
<1> DEFINE r == InsertAt(q, k, x)
<1>1. IsInsert(r, q, k, x)
  BY Inserted, Zenon
<1> HIDE DEF r
<1>2. /\ Len(r) = Len(q) + 1
      /\ \A j \in 1 .. Len(q) + 1 : /\ j < k => r[j] = q[j]
                                    /\ j = k => r[j] = x
                                    /\ j > k => r[j] = q[j - 1]
  BY <1>1, Zenon DEF IsInsert
<1>3. Len(q) \in Nat /\ \A i \in 1 .. Len(q) : q[i] \in Range(q)
  BY InRange, Zenon
<1>4. Len(r) = Len(q) + 1 /\ Len(q) \in Nat
  BY <1>2, <1>3, Zenon
<1>5. ASSUME NEW i \in 1 .. Len(r), i # k
      PROVE  \E j \in 1 .. Len(q) : /\ r[i] = q[j]
                                    /\ i < k => j = i
                                    /\ ~(i < k) => j = i - 1 /\ j >= k
  <2>1. i \in 1 .. Len(q) + 1
    BY <1>4
  <2>2. CASE i < k
    <3>1. i \in 1 .. Len(q)
      BY <1>4, <2>2
    <3> QED
      BY <1>2, <2>1, <2>2, <3>1, Zenon
  <2>3. CASE ~(i < k)
    <3>1. i - 1 \in 1 .. Len(q) /\ i > k /\ i - 1 >= k
      BY <1>4, <1>5, <2>3
    <3> QED
      BY <1>2, <2>1, <2>3, <3>1, Zenon
  <2> QED
    BY <2>2, <2>3, Zenon
<1>6. k \in 1 .. Len(q) + 1 /\ r[k] = x
  BY <1>2, Zenon
<1>7. ASSUME NEW i \in 1 .. Len(r), i # k PROVE r[i] # x
  BY <1>3, <1>5, <1>7, Zenon
<1>8. ASSUME NEW i \in 1 .. Len(r), NEW j \in 1 .. Len(r), r[i] = r[j]
      PROVE  i = j
  <2>1. CASE i = k \/ j = k
    BY <1>6, <1>7, <1>8, <2>1, Zenon
  <2>2. CASE i # k /\ j # k
    <3>1. PICK g \in 1 .. Len(q) : /\ r[i] = q[g] /\ (i < k => g = i)
                                   /\ ~(i < k) => g = i - 1 /\ g >= k
      BY <1>5, <2>2, Zenon
    <3>2. PICK h \in 1 .. Len(q) : /\ r[j] = q[h] /\ (j < k => h = j)
                                   /\ ~(j < k) => h = j - 1 /\ h >= k
      BY <1>5, <2>2, Zenon
    <3>3. g = h
      BY <1>8, <3>1, <3>2, Zenon DEF Distinct
    <3> QED
      BY <1>4, <3>1, <3>2, <3>3
  <2> QED
    BY <2>1, <2>2, Zenon
<1> QED
  BY <1>8, Zenon DEF Distinct, r

(* And so does a cell that goes.                                           *)
LEMMA DistinctRemoved ==
    ASSUME NEW q \in Seq(Node), NEW k \in 1 .. Len(q), Distinct(q)
    PROVE  Distinct(RemoveAt(q, k))
<1> DEFINE r == RemoveAt(q, k)
<1>1. IsRemove(r, q, k)
  BY Removed, Zenon
<1> HIDE DEF r
<1>2. /\ Len(r) = Len(q) - 1
      /\ \A j \in 1 .. Len(q) - 1 : /\ j < k => r[j] = q[j]
                                    /\ j >= k => r[j] = q[j + 1]
  BY <1>1, Zenon DEF IsRemove
<1>3. Len(r) = Len(q) - 1 /\ Len(q) \in Nat
  BY <1>2, InRange, Zenon
<1>4. ASSUME NEW i \in 1 .. Len(r)
      PROVE  \E j \in 1 .. Len(q) : /\ r[i] = q[j]
                                    /\ i < k => j = i
                                    /\ ~(i < k) => j = i + 1
  <2>1. i \in 1 .. Len(q) - 1 /\ i \in 1 .. Len(q) /\ i + 1 \in 1 .. Len(q)
        /\ (i < k \/ i >= k)
    BY <1>3
  <2> QED
    BY <1>2, <2>1, Zenon
<1>5. ASSUME NEW i \in 1 .. Len(r), NEW j \in 1 .. Len(r), r[i] = r[j]
      PROVE  i = j
  <2>1. PICK g \in 1 .. Len(q) : r[i] = q[g] /\ (i < k => g = i) /\ (~(i < k) => g = i + 1)
    BY <1>4, Zenon
  <2>2. PICK h \in 1 .. Len(q) : r[j] = q[h] /\ (j < k => h = j) /\ (~(j < k) => h = j + 1)
    BY <1>4, Zenon
  <2>3. g = h
    BY <1>5, <2>1, <2>2, Zenon DEF Distinct
  <2> QED
    BY <1>3, <2>1, <2>2, <2>3
<1> QED
  BY <1>5, Zenon DEF Distinct, r

(* Two sequences with the same cells everywhere are the same.              *)
LEMMA SameAt ==
    ASSUME NEW q \in Seq(Node), NEW r \in Seq(Node), Len(q) = Len(r),
           \A i \in Int : At(q, i) = At(r, i)
    PROVE  q = r
<1>1. ASSUME NEW i \in 1 .. Len(q) PROVE q[i] = r[i]
  <2>1. i \in Int
    OBVIOUS
  <2> QED
    BY <2>1, Zenon DEF At
<1> QED
  BY <1>1, SameSeq, Zenon

(* InsertAt seen from the other end.                                       *)
LEMMA ReverseInserted ==
    ASSUME NEW q \in Seq(Node), NEW k \in 1 .. Len(q) + 1, NEW n \in Node
    PROVE  /\ Len(q) + 2 - k \in 1 .. Len(Reverse(q)) + 1
           /\ Reverse(InsertAt(q, k, n)) = InsertAt(Reverse(q), Len(q) + 2 - k, n)
<1> DEFINE h == Len(q) + 2 - k
           a == InsertAt(q, k, n)
           b == InsertAt(Reverse(q), h, n)
<1>1. Len(q) \in Nat
  BY SeqFacts, Zenon
<1>2. a \in Seq(Node) /\ Len(a) = Len(q) + 1
  BY Inserted, Zenon DEF IsInsert
<1>3. Reverse(q) \in Seq(Node) /\ Len(Reverse(q)) = Len(q)
  BY Reversed, Zenon DEF IsReverse
<1>4. h \in 1 .. Len(Reverse(q)) + 1
  BY <1>1, <1>3
<1>5. b \in Seq(Node) /\ Len(b) = Len(q) + 1
  BY <1>3, <1>4, Inserted, Zenon DEF IsInsert
<1>6. Reverse(a) \in Seq(Node) /\ Len(Reverse(a)) = Len(a)
  BY <1>2, Reversed, Zenon DEF IsReverse
<1>7. ASSUME NEW i \in Int PROVE At(Reverse(a), i) = At(b, i)
  <2> DEFINE j == Len(q) + 2 - i
  <2>1. At(Reverse(a), i) = At(a, Len(a) + 1 - i)
    BY <1>2, AtReversed, Zenon
  <2>2. Len(a) + 1 - i = j /\ j \in Int
    BY <1>1, <1>2
  <2>3. /\ j < k => At(a, j) = At(q, j)
        /\ j = k => At(a, j) = n
        /\ j > k => At(a, j) = At(q, j - 1)
    BY <2>2, AtInserted, Zenon
  <2>4. /\ i < h => At(b, i) = At(Reverse(q), i)
        /\ i = h => At(b, i) = n
        /\ i > h => At(b, i) = At(Reverse(q), i - 1)
    BY <1>3, <1>4, AtInserted, Zenon
  <2>5. i - 1 \in Int /\ Len(q) + 1 - (i - 1) = j /\ Len(q) + 1 - i = j - 1
    BY <1>1
  <2>6. At(Reverse(q), i) = At(q, j - 1) /\ At(Reverse(q), i - 1) = At(q, j)
    BY <2>5, AtReversed, Zenon
  <2>7. (i < h /\ j > k) \/ (i = h /\ j = k) \/ (i > h /\ j < k)
    BY <1>1
  <2> HIDE DEF a, b, h, j
  <2> QED
    BY <2>1, <2>2, <2>3, <2>4, <2>6, <2>7, Zenon
<1>8. Reverse(a) = b
  <2> HIDE DEF a, b
  <2> QED
    BY <1>2, <1>5, <1>6, <1>7, SameAt, Zenon
<1> QED
  BY <1>4, <1>8, Zenon

(* RemoveAt seen from the other end.                                       *)
LEMMA ReverseRemoved ==
    ASSUME NEW q \in Seq(Node), NEW k \in 1 .. Len(q)
    PROVE  /\ Len(q) + 1 - k \in 1 .. Len(Reverse(q))
           /\ Reverse(RemoveAt(q, k)) = RemoveAt(Reverse(q), Len(q) + 1 - k)
<1> DEFINE h == Len(q) + 1 - k
           a == RemoveAt(q, k)
           b == RemoveAt(Reverse(q), h)
<1>1. Len(q) \in Nat
  BY SeqFacts, Zenon
<1>2. a \in Seq(Node) /\ Len(a) = Len(q) - 1
  BY Removed, Zenon DEF IsRemove
<1>3. Reverse(q) \in Seq(Node) /\ Len(Reverse(q)) = Len(q)
  BY Reversed, Zenon DEF IsReverse
<1>4. h \in 1 .. Len(Reverse(q))
  BY <1>1, <1>3
<1>5. b \in Seq(Node) /\ Len(b) = Len(q) - 1
  BY <1>3, <1>4, Removed, Zenon DEF IsRemove
<1>6. Reverse(a) \in Seq(Node) /\ Len(Reverse(a)) = Len(a)
  BY <1>2, Reversed, Zenon DEF IsReverse
<1>7. ASSUME NEW i \in Int PROVE At(Reverse(a), i) = At(b, i)
  <2> DEFINE j == Len(q) - i
  <2>1. At(Reverse(a), i) = At(a, Len(a) + 1 - i)
    BY <1>2, AtReversed, Zenon
  <2>2. Len(a) + 1 - i = j /\ j \in Int
    BY <1>1, <1>2
  <2>3. (j < k => At(a, j) = At(q, j)) /\ (j >= k => At(a, j) = At(q, j + 1))
    BY <2>2, AtRemoved, Zenon
  <2>4. /\ i < h => At(b, i) = At(Reverse(q), i)
        /\ i >= h => At(b, i) = At(Reverse(q), i + 1)
    BY <1>3, <1>4, AtRemoved, Zenon
  <2>5. i + 1 \in Int /\ Len(q) + 1 - (i + 1) = j /\ Len(q) + 1 - i = j + 1
    BY <1>1
  <2>6. At(Reverse(q), i) = At(q, j + 1) /\ At(Reverse(q), i + 1) = At(q, j)
    BY <2>5, AtReversed, Zenon
  <2>7. (i < h /\ j >= k) \/ (i >= h /\ j < k)
    BY <1>1
  <2> HIDE DEF a, b, h, j
  <2> QED
    BY <2>1, <2>2, <2>3, <2>4, <2>6, <2>7, Zenon
<1>8. Reverse(a) = b
  <2> HIDE DEF a, b
  <2> QED
    BY <1>2, <1>5, <1>6, <1>7, SameAt, Zenon
<1> QED
  BY <1>4, <1>8, Zenon

(* Twice in reverse is as before.                                          *)
LEMMA ReverseTwice ==
    ASSUME NEW q \in Seq(Node)
    PROVE  Reverse(Reverse(q)) = q
<1> DEFINE r == Reverse(q)
<1>1. /\ r \in Seq(Node) /\ Len(r) = Len(q) /\ Len(q) \in Nat
      /\ \A j \in 1 .. Len(q) : r[Len(q) + 1 - j] = q[j]
  BY Reversed, SeqFacts, Zenon DEF IsReverse
<1> HIDE DEF r
<1>4. /\ Reverse(r) \in Seq(Node) /\ Len(Reverse(r)) = Len(r)
      /\ \A j \in 1 .. Len(r) : Reverse(r)[j] = r[Len(r) + 1 - j]
  BY <1>1, Reversed, Zenon DEF IsReverse
<1>5. Len(r) = Len(q)
  BY <1>1, Zenon
<1>2. /\ Reverse(r) \in Seq(Node) /\ Len(Reverse(r)) = Len(q)
      /\ \A j \in 1 .. Len(q) : Reverse(r)[j] = r[Len(q) + 1 - j]
  BY <1>4, <1>5, Zenon
<1>3. Reverse(r) = q
  BY <1>1, <1>2, SameSeq, Zenon
<1> QED
  BY <1>3, Zenon DEF r

(* The pointers that link n in place k, next and entry of the thread.      *)
LEMMA ThreadInserted ==
    ASSUME NEW next, NEW first, NEW q, Thread(next, first, q),
           NEW k \in 1 .. Len(q) + 1, NEW n \in Node \ Range(q),
           NEW new \in [Node -> Ptr],
           new[n] = At(q, k),
           \A x \in Node \ {n} : /\ x = At(q, k - 1) => new[x] = n
                                 /\ x # At(q, k - 1) => new[x] = next[x],
           NEW entry, k = 1 => entry = n, k # 1 => entry = first
    PROVE  Thread(new, entry, InsertAt(q, k, n))
<1> DEFINE r == InsertAt(q, k, n)
<1>1. /\ q \in Seq(Node) /\ first = At(q, 1)
      /\ Distinct(q)
      /\ \A i \in 1 .. Len(q) : next[q[i]] = At(q, i + 1)
      /\ \A x \in Node \ Range(q) : next[x] = NULL
  BY Zenon DEF Thread
<1>0. n \in Node /\ n \notin Range(q)
  BY Zenon
<1>11. IsInsert(r, q, k, n)
  BY <1>0, <1>1, Inserted, Zenon
<1>2. /\ r \in Seq(Node) /\ Len(r) = Len(q) + 1
      /\ \A j \in 1 .. Len(q) + 1 :
           /\ j < k => r[j] = q[j]
           /\ j = k => r[j] = n
           /\ j > k => r[j] = q[j - 1]
  BY <1>11, Zenon DEF IsInsert
<1>3. Range(r) = Range(q) \cup {n} /\ Distinct(r)
  BY <1>0, <1>1, <1>11, DistinctInserted, Zenon DEF IsInsert
<1>4. \A i \in Int : /\ i < k => At(r, i) = At(q, i)
                     /\ i = k => At(r, i) = n
                     /\ i > k => At(r, i) = At(q, i - 1)
  BY <1>11, Zenon DEF IsInsert
<1>5. Len(q) \in Nat /\ \A i \in 1 .. Len(q) : q[i] \in Node /\ q[i] \in Range(q)
  BY <1>1, InRange, Zenon
<1> HIDE DEF r
<1>6. entry = At(r, 1)
  BY <1>1, <1>4
<1>7. \A i \in 1 .. Len(q) : q[i] # n
  BY <1>5, Zenon
<1>8. ASSUME NEW i \in 1 .. Len(q) PROVE q[i] = At(q, k - 1) <=> i = k - 1
  <2>1. CASE k - 1 \in 1 .. Len(q)
    BY <1>1, <2>1, Zenon DEF At, Distinct
  <2>2. CASE k - 1 \notin 1 .. Len(q)
    BY <1>5, <2>2, NullIsNone, Zenon DEF At
  <2> QED
    BY <2>1, <2>2, Zenon
<1>9. ASSUME NEW i \in 1 .. Len(r) PROVE new[r[i]] = At(r, i + 1)
  <2>1. CASE i = k
    <3>1. r[i] = n /\ At(r, i + 1) = At(q, k)
      BY <1>2, <1>4, <1>5, <2>1
    <3> QED
      BY <3>1, Zenon
  <2>2. CASE i = k - 1
    <3>1. i \in 1 .. Len(q) /\ r[i] = q[i] /\ At(r, i + 1) = n
      BY <1>2, <1>4, <1>5, <2>2
    <3> QED
      BY <1>5, <1>7, <1>8, <2>2, <3>1, Zenon
  <2>3. CASE i < k - 1
    <3>1. i \in 1 .. Len(q) /\ r[i] = q[i] /\ i # k - 1 /\ At(r, i + 1) = At(q, i + 1)
      BY <1>2, <1>4, <1>5, <2>3
    <3> QED
      BY <1>1, <1>5, <1>7, <1>8, <3>1, Zenon
  <2>4. CASE i > k
    <3>1. /\ i - 1 \in 1 .. Len(q) /\ r[i] = q[i - 1] /\ i - 1 # k - 1
          /\ At(r, i + 1) = At(q, i) /\ (i - 1) + 1 = i
      BY <1>2, <1>4, <1>5, <2>4
    <3>2. new[q[i - 1]] = next[q[i - 1]]
      BY <1>5, <1>7, <1>8, <3>1, Zenon
    <3>3. next[q[i - 1]] = At(q, i)
      BY <1>1, <3>1, Zenon
    <3> QED
      BY <3>1, <3>2, <3>3, Zenon
  <2> QED
    BY <1>2, <1>5, <2>1, <2>2, <2>3, <2>4
<1>10. ASSUME NEW x \in Node \ Range(r) PROVE new[x] = NULL
  <2>1. x \in Node \ Range(q) /\ x # n
    BY <1>3, Zenon
  <2>2. x # At(q, k - 1)
    BY <1>5, <2>1, NullIsNone, Zenon DEF At
  <2> QED
    BY <1>1, <2>1, <2>2, Zenon
<1> QED
  BY <1>2, <1>3, <1>6, <1>9, <1>10, Zenon DEF Thread, r

(* The pointers once the cell in place k is unlinked.                      *)
LEMMA ThreadRemoved ==
    ASSUME NEW next, NEW first, NEW q, Thread(next, first, q),
           NEW k \in 1 .. Len(q), NEW new \in [Node -> Ptr],
           new[q[k]] = NULL,
           \A x \in Node \ {q[k]} : /\ x = At(q, k - 1) => new[x] = At(q, k + 1)
                                    /\ x # At(q, k - 1) => new[x] = next[x],
           NEW entry, k = 1 => entry = At(q, 2), k # 1 => entry = first
    PROVE  Thread(new, entry, RemoveAt(q, k))
<1> DEFINE r == RemoveAt(q, k)
<1>1. /\ q \in Seq(Node) /\ first = At(q, 1)
      /\ Distinct(q)
      /\ \A i \in 1 .. Len(q) : next[q[i]] = At(q, i + 1)
      /\ \A x \in Node \ Range(q) : next[x] = NULL
  BY Zenon DEF Thread
<1>11. IsRemove(r, q, k)
  BY <1>1, Removed, Zenon
<1>2. /\ r \in Seq(Node) /\ Len(r) = Len(q) - 1
      /\ \A j \in 1 .. Len(q) - 1 :
           (j < k => r[j] = q[j]) /\ (j >= k => r[j] = q[j + 1])
  BY <1>11, Zenon DEF IsRemove
<1>3. Range(r) = Range(q) \ {q[k]} /\ Distinct(r)
  BY <1>1, <1>11, DistinctRemoved, Zenon DEF IsRemove
<1>4. \A i \in Int : /\ i < k => At(r, i) = At(q, i)
                     /\ i >= k => At(r, i) = At(q, i + 1)
  BY <1>11, Zenon DEF IsRemove
<1>5. Len(q) \in Nat /\ \A i \in 1 .. Len(q) : q[i] \in Node /\ q[i] \in Range(q)
  BY <1>1, InRange, Zenon
<1> HIDE DEF r
<1>6. entry = At(r, 1)
  BY <1>1, <1>4
<1>7. ASSUME NEW i \in 1 .. Len(q) PROVE q[i] = At(q, k - 1) <=> i = k - 1
  <2>1. CASE k - 1 \in 1 .. Len(q)
    BY <1>1, <2>1, Zenon DEF At, Distinct
  <2>2. CASE k - 1 \notin 1 .. Len(q)
    BY <1>5, <2>2, NullIsNone, Zenon DEF At
  <2> QED
    BY <2>1, <2>2, Zenon
<1>8. \A i \in 1 .. Len(q) : i # k => q[i] # q[k]
  BY <1>1, Zenon DEF Distinct
<1>9. ASSUME NEW i \in 1 .. Len(r) PROVE new[r[i]] = At(r, i + 1)
  <2>1. CASE i = k - 1
    <3>1. /\ i \in 1 .. Len(q) /\ i \in 1 .. Len(q) - 1 /\ i < k /\ i # k
          /\ i + 1 \in Int /\ i + 1 >= k /\ (i + 1) + 1 = k + 1
      BY <1>2, <1>5, <2>1
    <3>2. r[i] = q[i] /\ At(r, i + 1) = At(q, k + 1)
      BY <1>2, <1>4, <3>1, Zenon
    <3> QED
      BY <1>5, <1>7, <1>8, <2>1, <3>1, <3>2, Zenon
  <2>2. CASE i < k - 1
    <3>1. /\ i \in 1 .. Len(q) /\ i \in 1 .. Len(q) - 1 /\ i < k /\ i # k
          /\ i # k - 1 /\ i + 1 \in Int /\ i + 1 < k
      BY <1>2, <1>5, <2>2
    <3>2. r[i] = q[i] /\ At(r, i + 1) = At(q, i + 1)
      BY <1>2, <1>4, <3>1, Zenon
    <3> QED
      BY <1>1, <1>5, <1>7, <1>8, <3>1, <3>2, Zenon
  <2>3. CASE i >= k
    <3>1. /\ i + 1 \in 1 .. Len(q) /\ i + 1 # k /\ i + 1 # k - 1
          /\ r[i] = q[i + 1] /\ At(r, i + 1) = At(q, (i + 1) + 1)
      BY <1>2, <1>4, <1>5, <2>3
    <3>2. new[q[i + 1]] = next[q[i + 1]]
      BY <1>5, <1>7, <1>8, <3>1, Zenon
    <3> QED
      BY <1>1, <3>1, <3>2, Zenon
  <2> QED
    BY <1>2, <1>5, <2>1, <2>2, <2>3
<1>10. ASSUME NEW x \in Node \ Range(r) PROVE new[x] = NULL
  <2>1. CASE x = q[k]
    BY <2>1, Zenon
  <2>2. CASE x # q[k]
    <3>1. x \in Node \ Range(q)
      BY <1>3, <2>2, Zenon
    <3>2. x # At(q, k - 1)
      BY <1>5, <3>1, NullIsNone, Zenon DEF At
    <3> QED
      BY <1>1, <2>2, <3>1, <3>2, Zenon
  <2> QED
    BY <2>1, <2>2, Zenon
<1> QED
  BY <1>2, <1>3, <1>6, <1>9, <1>10, Zenon DEF Thread, r

-----------------------------------------------------------------------------
(* Lists: the pointers that follow from a sequence of cells.               *)

(* The structs dlist_t.                                                    *)
ListStruct ==
    [end : [Side -> Ptr], link : [Side -> [Node -> Ptr]],
     value : [Node -> Value \cup {Free}], len : Int]

(* Read from the end s, the list is the cells q: the links of the one      *)
(* direction run through them, those of the other through their reverse.   *)
Linked(l, s, q) ==
    /\ l \in ListStruct
    /\ Thread(l.link[Other(s)], l.end[s], q)
    /\ Thread(l.link[s], l.end[Other(s)], Reverse(q))
    /\ Range(q) = ListCells(l) /\ l.len = Len(q)

(* The two ends of a list.                                                 *)
LEMMA Sides ==
    \A s \in Side : /\ Other(s) \in Side /\ Other(s) # s /\ Other(Other(s)) = s
                    /\ \A t \in Side : t = s \/ t = Other(s)
  BY Zenon DEF Side, Other

(* A list read from one end can be read from the other.                    *)
LEMMA Flip ==
    ASSUME NEW l, NEW s \in Side, NEW q, Linked(l, s, q)
    PROVE  Linked(l, Other(s), Reverse(q))
<1>1. q \in Seq(Node)
  BY Zenon DEF Linked, Thread
<1>2. Reverse(Reverse(q)) = q /\ Len(Reverse(q)) = Len(q) /\ Reverse(q) \in Seq(Node)
  BY <1>1, Reversed, ReverseTwice, Zenon DEF IsReverse
<1>3. Other(Other(s)) = s
  BY Sides, Zenon
<1>4. Range(Reverse(q)) = Range(q)
  BY <1>1, Reversed, Zenon DEF IsReverse
<1> QED
  BY <1>2, <1>3, <1>4, Zenon DEF Linked

(* The walks of a list meet its cells, from either end.                    *)
LEMMA CellsAre ==
    ASSUME NEW l, NEW s \in Side, NEW q, Linked(l, s, q)
    PROVE  Cells(l, s) = q /\ Cells(l, Other(s)) = Reverse(q)
<1>1. Other(Other(s)) = s
  BY Sides, Zenon
<1> QED
  BY <1>1, TraceIs, Zenon DEF Linked, Cells

(* The cells of a list are those with a value.                             *)
LEMMA CellFacts ==
    ASSUME NEW l \in ListStruct
    PROVE  /\ ListCells(l) \subseteq Node
           /\ \A n \in Node : n \in ListCells(l) <=> l.value[n] \in Value
  BY ObjectsAssumption DEF ListStruct, ListCells

(* m is l with the cell n in front of what it has from s on.               *)
IsPushed(m, l, s, val, n) ==
    /\ n \in Node /\ n \notin ListCells(l) /\ m \in ListStruct
    /\ m.value = [l.value EXCEPT ![n] = val] /\ m.len = l.len + 1
    /\ m.end[s] = n
    /\ l.end[s] = NULL => m.end[Other(s)] = n /\ m.link = l.link
    /\ l.end[s] # NULL =>
         /\ m.end[Other(s)] = l.end[Other(s)]
         /\ m.link[Other(s)] = [l.link[Other(s)] EXCEPT ![n] = l.end[s]]
         /\ m.link[s] = [l.link[s] EXCEPT ![l.end[s]] = n]

(* dlist_push does that, in the cell that calloc gives.                    *)
LEMMA PushFields ==
    ASSUME NEW l \in ListStruct, NEW s \in Side, NEW val \in Value,
           ListCells(l) # Node
    PROVE  IsPushed(dlist_push(l, s, val), l, s, val, Calloc(ListCells(l)))
<1> DEFINE n == Calloc(ListCells(l))
           old == l.end[s]
           o == Other(s)
           new == [l EXCEPT !.value[n] = val, !.end[s] = n, !.len = @ + 1]
<1>1. ListCells(l) \subseteq Node
  BY CellFacts, Zenon
<1>2. n \in Node /\ n \notin ListCells(l)
  BY <1>1, CallocFree, Zenon
<1>3. o \in Side /\ o # s /\ \A t \in Side : t = s \/ t = o
  BY Sides, Zenon
<1>4. dlist_push(l, s, val) =
        IF old = NULL THEN [new EXCEPT !.end[o] = n]
        ELSE [new EXCEPT !.link[o][n] = old, !.link[s][old] = n]
  BY Zenon DEF dlist_push
<1>5. old \in Ptr /\ n \in Ptr
  BY <1>2, NullIsNone DEF ListStruct
<1> HIDE DEF n, o
<1>6. /\ new \in ListStruct /\ new.link = l.link
      /\ new.value = [l.value EXCEPT ![n] = val] /\ new.len = l.len + 1
      /\ new.end = [l.end EXCEPT ![s] = n]
  <2> DEFINE a == [l EXCEPT !.value[n] = val]
             b == [a EXCEPT !.end[s] = n]
             c == [b EXCEPT !.len = @ + 1]
  <2>1. /\ a \in ListStruct /\ a.link = l.link /\ a.end = l.end /\ a.len = l.len
        /\ a.value = [l.value EXCEPT ![n] = val]
    BY <1>2 DEF ListStruct
  <2>2. new = c
    BY DEF ListStruct
  <2> HIDE DEF a
  <2>3. /\ b \in ListStruct /\ b.link = l.link /\ b.value = a.value /\ b.len = l.len
        /\ b.end = [l.end EXCEPT ![s] = n]
    BY <1>5, <2>1 DEF ListStruct
  <2> HIDE DEF b
  <2>4. /\ c \in ListStruct /\ c.link = l.link /\ c.value = a.value /\ c.len = l.len + 1
        /\ c.end = b.end
    BY <2>3 DEF ListStruct
  <2> HIDE DEF c, new
  <2> QED
    BY <2>1, <2>2, <2>3, <2>4, Zenon
<1> HIDE DEF new
<1>7. CASE old = NULL
  <2> DEFINE m == [new EXCEPT !.end[o] = n]
  <2>1. /\ m \in ListStruct /\ m.link = l.link /\ m.value = new.value /\ m.len = new.len
        /\ m.end = [new.end EXCEPT ![o] = n]
    BY <1>3, <1>5, <1>6 DEF ListStruct
  <2>2. m.end[s] = n /\ m.end[o] = n
    BY <1>3, <1>6, <2>1 DEF ListStruct
  <2>3. m = dlist_push(l, s, val)
    BY <1>4, <1>7, Zenon
  <2> HIDE DEF m
  <2> QED
    BY <1>2, <1>6, <1>7, <2>1, <2>2, <2>3, Zenon DEF n, o, IsPushed
<1>8. CASE old # NULL
  <2> DEFINE m == [new EXCEPT !.link[o][n] = old, !.link[s][old] = n]
  <2>0. old \in Node
    BY <1>5, <1>8, Zenon DEF Ptr
  <2>1. /\ m \in ListStruct /\ m.end = new.end /\ m.value = new.value /\ m.len = new.len
        /\ m.link[o] = [l.link[o] EXCEPT ![n] = old]
        /\ m.link[s] = [l.link[s] EXCEPT ![old] = n]
    BY <1>2, <1>3, <1>5, <1>6, <2>0 DEF ListStruct
  <2>2. m.end[s] = n /\ m.end[o] = l.end[o]
    BY <1>3, <1>6, <2>1 DEF ListStruct
  <2>3. m = dlist_push(l, s, val)
    BY <1>4, <1>8, Zenon
  <2> HIDE DEF m
  <2> QED
    BY <1>2, <1>6, <1>8, <2>1, <2>2, <2>3, Zenon DEF n, o, IsPushed
<1> QED
  BY <1>7, <1>8, Zenon

(* What is known of such a list.                                           *)
ListFacts(l, s, q) ==
    /\ l \in ListStruct /\ q \in Seq(Node) /\ Len(q) \in Nat
    /\ Reverse(q) \in Seq(Node) /\ Len(Reverse(q)) = Len(q)
    /\ Distinct(q)
    /\ \A i \in 1 .. Len(q) : q[i] \in Node /\ q[i] \in Range(q)
    /\ l.end[s] = At(q, 1) /\ l.end[Other(s)] = At(q, Len(q))
    /\ \A i \in 1 .. Len(q) : /\ l.link[Other(s)][q[i]] = At(q, i + 1)
                              /\ l.link[s][q[i]] = At(q, i - 1)
    /\ \A x \in Node \ ListCells(l) :
         l.link[s][x] = NULL /\ l.link[Other(s)][x] = NULL
    /\ Range(q) = ListCells(l) /\ l.len = Len(q)

(* What Linked says, pointer by pointer.                                   *)
LEMMA LinkedFacts ==
    ASSUME NEW l, NEW s \in Side, NEW q, Linked(l, s, q)
    PROVE  ListFacts(l, s, q)
<1>1. /\ l \in ListStruct /\ q \in Seq(Node)
      /\ Distinct(q)
      /\ l.end[s] = At(q, 1)
      /\ \A i \in 1 .. Len(q) : l.link[Other(s)][q[i]] = At(q, i + 1)
      /\ \A x \in Node \ Range(q) : l.link[Other(s)][x] = NULL
      /\ Range(q) = ListCells(l) /\ l.len = Len(q)
  BY Zenon DEF Linked, Thread
<1>2. Linked(l, Other(s), Reverse(q)) /\ Other(Other(s)) = s
  BY Flip, Sides, Zenon
<1>3. /\ l.end[Other(s)] = At(Reverse(q), 1)
      /\ \A i \in 1 .. Len(Reverse(q)) : l.link[s][Reverse(q)[i]] = At(Reverse(q), i + 1)
      /\ \A x \in Node \ Range(Reverse(q)) : l.link[s][x] = NULL
      /\ Range(Reverse(q)) = ListCells(l)
  BY <1>2, Zenon DEF Linked, Thread
<1>4. /\ Reverse(q) \in Seq(Node) /\ Len(Reverse(q)) = Len(q)
      /\ \A j \in 1 .. Len(q) : Reverse(q)[Len(q) + 1 - j] = q[j]
  BY <1>1, Reversed, Zenon DEF IsReverse
<1>5. \A i \in Int : At(Reverse(q), i) = At(q, Len(q) + 1 - i)
  BY <1>1, AtReversed, Zenon
<1>6. Len(q) \in Nat /\ \A i \in 1 .. Len(q) : q[i] \in Node /\ q[i] \in Range(q)
  BY <1>1, InRange, Zenon
<1>7. l.end[Other(s)] = At(q, Len(q))
  <2>1. Len(q) + 1 - 1 = Len(q) /\ 1 \in Int
    BY <1>6
  <2> QED
    BY <1>3, <1>5, <2>1, Zenon
<1>8. ASSUME NEW i \in 1 .. Len(q) PROVE l.link[s][q[i]] = At(q, i - 1)
  <2> DEFINE j == Len(q) + 1 - i
  <2>1. /\ j \in 1 .. Len(q) /\ j + 1 \in Int /\ Len(q) + 1 - (j + 1) = i - 1
    BY <1>6
  <2>2. Reverse(q)[j] = q[i]
    BY <1>4, Zenon
  <2> HIDE DEF j
  <2> QED
    BY <1>3, <1>4, <1>5, <2>1, <2>2, Zenon
<1> QED
  BY <1>1, <1>3, <1>4, <1>6, <1>7, <1>8, Zenon DEF ListFacts

(* A push puts the new cell in front.                                      *)
LEMMA PushLinked ==
    ASSUME NEW l, NEW s \in Side, NEW q, Linked(l, s, q), NEW val \in Value,
           ListCells(l) # Node
    PROVE  LET n == Calloc(ListCells(l))
           IN  Linked(dlist_push(l, s, val), s, InsertAt(q, 1, n))
<1> DEFINE m == dlist_push(l, s, val)
           n == Calloc(ListCells(l))
           old == l.end[s]
           o == Other(s)
           r == InsertAt(q, 1, n)
<1>1. /\ l \in ListStruct /\ q \in Seq(Node) /\ Len(q) \in Nat
      /\ Reverse(q) \in Seq(Node) /\ Len(Reverse(q)) = Len(q)
      /\ Distinct(q)
      /\ \A i \in 1 .. Len(q) : q[i] \in Node /\ q[i] \in Range(q)
      /\ l.end[s] = At(q, 1) /\ l.end[Other(s)] = At(q, Len(q))
      /\ \A x \in Node \ ListCells(l) :
           l.link[s][x] = NULL /\ l.link[Other(s)][x] = NULL
      /\ Range(q) = ListCells(l) /\ l.len = Len(q)
  BY LinkedFacts, Zenon DEF ListFacts
<1>17. IsPushed(m, l, s, val, n)
  BY <1>1, PushFields, Zenon
<1>2. /\ n \in Node /\ n \notin ListCells(l)
      /\ m \in ListStruct
      /\ m.value = [l.value EXCEPT ![n] = val] /\ m.len = l.len + 1
      /\ m.end[s] = n
      /\ old = NULL => m.end[o] = n /\ m.link = l.link
      /\ old # NULL => /\ m.end[o] = l.end[o]
                       /\ m.link[o] = [l.link[o] EXCEPT ![n] = old]
                       /\ m.link[s] = [l.link[s] EXCEPT ![old] = n]
  BY <1>17, Zenon DEF IsPushed
<1>3. Thread(l.link[o], old, q) /\ Thread(l.link[s], l.end[o], Reverse(q))
  BY Zenon DEF Linked
<1>4. o \in Side
  BY Sides, Zenon
<1>5. m.link[o] \in [Node -> Ptr] /\ m.link[s] \in [Node -> Ptr]
  BY <1>2, <1>4 DEF ListStruct
<1>11. l.link[o] \in [Node -> Ptr] /\ l.link[s] \in [Node -> Ptr]
  BY <1>1, <1>4 DEF ListStruct
<1>12. /\ old = At(q, 1) /\ l.end[o] = At(q, Len(q))
       /\ \A x \in Node \ ListCells(l) : l.link[s][x] = NULL /\ l.link[o][x] = NULL
  BY <1>1, Zenon
<1> HIDE DEF m, n, old, o
<1>13. ASSUME NEW x \in Node
       PROVE  /\ old # NULL /\ x = n => m.link[o][x] = old
              /\ old = NULL \/ x # n => m.link[o][x] = l.link[o][x]
              /\ old # NULL /\ x = old => m.link[s][x] = n
              /\ old = NULL \/ x # old => m.link[s][x] = l.link[s][x]
  BY <1>2, <1>11, Zenon
<1>6. 1 \in 1 .. Len(q) + 1 /\ 1 - 1 \notin 1 .. Len(q)
  BY <1>1
<1>7. n \in Node \ Range(q) /\ At(q, 1 - 1) = NULL
  BY <1>1, <1>2, <1>6, Zenon DEF At
<1>14. n \in Node /\ q \in Seq(Node)
  BY <1>1, <1>2, Zenon
<1>15. IsInsert(r, q, 1, n)
  BY <1>6, <1>14, Inserted, Zenon
<1>16. (1 = 1 => m.end[s] = n) /\ (1 # 1 => m.end[s] = old)
  BY <1>2, Zenon
<1>8. Thread(m.link[o], m.end[s], r)
  <2>1. m.link[o][n] = At(q, 1)
    BY <1>2, <1>12, <1>13, Zenon
  <2>2. \A x \in Node \ {n} : /\ x = At(q, 1 - 1) => m.link[o][x] = n
                              /\ x # At(q, 1 - 1) => m.link[o][x] = l.link[o][x]
    BY <1>7, <1>13, NullIsNone, Zenon
  <2> QED
    BY <1>3, <1>5, <1>6, <1>7, <1>16, <2>1, <2>2, ThreadInserted, Zenon
<1>9. Thread(m.link[s], m.end[o], Reverse(r))
  <2> DEFINE R == Reverse(q)
             k == Len(q) + 1
  <2>1. /\ k \in 1 .. Len(R) + 1 /\ k = Len(q) + 2 - 1 /\ k \in Int /\ k - 1 \in Int
        /\ Len(q) + 1 - k = 0 /\ Len(q) + 1 - (k - 1) = 1 /\ 0 \notin 1 .. Len(q)
        /\ (k = 1 <=> 1 \notin 1 .. Len(q))
    BY <1>1
  <2>2. Reverse(r) = InsertAt(R, k, n)
    <3>1. Reverse(r) = InsertAt(R, Len(q) + 2 - 1, n)
      BY <1>6, <1>14, ReverseInserted, Zenon
    <3> QED
      BY <2>1, <3>1
  <2>3. n \in Node \ Range(R)
    <3>1. Range(R) = ListCells(l)
      BY Flip, Zenon DEF Linked
    <3> QED
      BY <1>2, <3>1, Zenon
  <2>4. At(R, k) = NULL /\ At(R, k - 1) = old
    <3>1. At(R, k) = At(q, 0) /\ At(R, k - 1) = At(q, 1)
      BY <1>1, <2>1, AtReversed, Zenon
    <3> QED
      BY <1>12, <2>1, <3>1, Zenon DEF At
  <2>5. old = NULL <=> k = 1
    BY <1>1, <1>12, <2>1, NullIsNone, Zenon DEF At
  <2>6. old # n
    <3>1. \A i \in 1 .. Len(q) : q[i] \in Range(q)
      BY <1>1, Zenon
    <3> QED
      BY <1>7, <1>12, <1>14, <3>1, NullIsNone, Zenon DEF At
  <2> HIDE DEF R, k
  <2>7. m.link[s][n] = At(R, k)
    BY <1>2, <1>12, <1>13, <2>4, <2>6, Zenon
  <2>8. \A x \in Node \ {n} : /\ x = At(R, k - 1) => m.link[s][x] = n
                              /\ x # At(R, k - 1) => m.link[s][x] = l.link[s][x]
    BY <1>13, <2>4, NullIsNone, Zenon
  <2>9. (k = 1 => m.end[o] = n) /\ (k # 1 => m.end[o] = l.end[o])
    BY <1>2, <2>5, Zenon
  <2>10. Thread(l.link[s], l.end[o], R)
    BY <1>3, Zenon DEF R
  <2>12. k \in 1 .. Len(R) + 1
    BY <2>1, Zenon
  <2>11. Thread(m.link[s], m.end[o], InsertAt(R, k, n))
    BY <1>5, <2>3, <2>7, <2>8, <2>9, <2>10, <2>12, ThreadInserted, Zenon
  <2> QED
    BY <2>2, <2>11, Zenon
<1>10. Range(r) = ListCells(m) /\ m.len = Len(r)
  <2>1. Range(r) = Range(q) \cup {n}
    BY <1>15, Zenon DEF IsInsert
  <2>2. Len(r) = Len(q) + 1
    BY <1>15, Zenon DEF IsInsert
  <2>3. ListCells(m) = ListCells(l) \cup {n}
    BY <1>1, <1>2, ObjectsAssumption DEF ListCells, ListStruct
  <2> QED
    BY <1>1, <1>2, <2>1, <2>2, <2>3
<1> QED
  BY <1>2, <1>8, <1>9, <1>10, Zenon DEF Linked, m, n, o

(* m is l without the cell n.                                              *)
IsUnlinked(m, l, n) ==
    /\ m \in ListStruct
    /\ m.value = [l.value EXCEPT ![n] = Free] /\ m.len = l.len - 1
    /\ \A t \in Side :
         /\ l.link[t][n] = NULL => m.end[t] = l.link[Other(t)][n]
         /\ l.link[t][n] # NULL => m.end[t] = l.end[t]
         /\ \A x \in Node :
              /\ x = n => m.link[t][x] = NULL
              /\ x # n /\ x = l.link[Other(t)][n] => m.link[t][x] = l.link[t][n]
              /\ x # n /\ x # l.link[Other(t)][n] => m.link[t][x] = l.link[t][x]

(* What FreeCell does to the fields.                                       *)
LEMMA FreeCellFields ==
    ASSUME NEW l \in ListStruct, NEW n \in Node
    PROVE  /\ FreeCell(l, n) \in ListStruct
           /\ FreeCell(l, n).value = [l.value EXCEPT ![n] = Free]
           /\ FreeCell(l, n).len = l.len - 1 /\ FreeCell(l, n).end = l.end
           /\ \A t \in Side : FreeCell(l, n).link[t] = [l.link[t] EXCEPT ![n] = NULL]
<1> DEFINE a == [l EXCEPT !.value[n] = Free]
           b == [a EXCEPT !.len = @ - 1]
           k == [s \in Side |-> [l.link[s] EXCEPT ![n] = NULL]]
           c == [b EXCEPT !.link = k]
<1>1. /\ a \in ListStruct /\ a.link = l.link /\ a.end = l.end /\ a.len = l.len
      /\ a.value = [l.value EXCEPT ![n] = Free]
  BY DEF ListStruct
<1>2. FreeCell(l, n) = c
  BY DEF ListStruct, FreeCell
<1> HIDE DEF a
<1>3. /\ b \in ListStruct /\ b.link = l.link /\ b.value = a.value /\ b.len = l.len - 1
      /\ b.end = l.end
  BY <1>1 DEF ListStruct
<1> HIDE DEF b
<1>4. k \in [Side -> [Node -> Ptr]] /\ \A t \in Side : k[t] = [l.link[t] EXCEPT ![n] = NULL]
  BY NullIsNone DEF ListStruct
<1> HIDE DEF k
<1>5. /\ c \in ListStruct /\ c.link = k /\ c.value = b.value /\ c.len = b.len
      /\ c.end = b.end
  BY <1>3, <1>4 DEF ListStruct
<1> HIDE DEF c
<1> QED
  BY <1>1, <1>2, <1>3, <1>4, <1>5, Zenon

(* m is l with what led to nbr's cell from the side s leading past it.     *)
Joined(m, l, nbr, s, o) ==
    /\ m \in ListStruct /\ m.value = l.value /\ m.len = l.len
    /\ m.end[o] = l.end[o] /\ m.link[s] = l.link[s]
    /\ nbr[s] = NULL => m.end[s] = nbr[o]
    /\ nbr[s] # NULL => m.end[s] = l.end[s]
    /\ \A x \in Node : /\ nbr[s] = x => m.link[o][x] = nbr[o]
                       /\ nbr[s] # x => m.link[o][x] = l.link[o][x]

(* What Join does to the fields.                                           *)
LEMMA JoinFields ==
    ASSUME NEW l \in ListStruct, NEW nbr \in [Side -> Ptr], NEW s \in Side
    PROVE  Joined(Join(l, nbr, s), l, nbr, s, Other(s))
<1> DEFINE o == Other(s)
<1>1. o \in Side /\ o # s /\ nbr[s] \in Ptr /\ nbr[o] \in Ptr
  BY Sides, Zenon
<1> HIDE DEF o
<1>2. CASE nbr[s] = NULL
  <2> DEFINE m == [l EXCEPT !.end[s] = nbr[o]]
  <2>1. m = Join(l, nbr, s)
    BY <1>2, Zenon DEF Join, o
  <2>2. /\ m \in ListStruct /\ m.value = l.value /\ m.len = l.len /\ m.link = l.link
        /\ m.end[s] = nbr[o] /\ m.end[o] = l.end[o]
    BY <1>1 DEF ListStruct
  <2> HIDE DEF m
  <2> QED
    BY <1>2, <2>1, <2>2, NullIsNone, Zenon DEF o, Joined
<1>3. CASE nbr[s] # NULL
  <2> DEFINE m == [l EXCEPT !.link[o][nbr[s]] = nbr[o]]
  <2>1. m = Join(l, nbr, s)
    BY <1>3, Zenon DEF Join, o
  <2>3. nbr[s] \in Node
    BY <1>1, <1>3, Zenon DEF Ptr
  <2>2. /\ m \in ListStruct /\ m.value = l.value /\ m.len = l.len /\ m.end = l.end
        /\ m.link[o] = [l.link[o] EXCEPT ![nbr[s]] = nbr[o]] /\ m.link[s] = l.link[s]
    BY <1>1, <2>3 DEF ListStruct
  <2>4. l.link[o] \in [Node -> Ptr]
    BY <1>1 DEF ListStruct
  <2> HIDE DEF m
  <2>5. \A x \in Node : /\ nbr[s] = x => m.link[o][x] = nbr[o]
                        /\ nbr[s] # x => m.link[o][x] = l.link[o][x]
    BY <2>2, <2>4, Zenon
  <2> QED
    BY <1>3, <2>1, <2>2, <2>5, Zenon DEF o, Joined
<1> QED
  BY <1>2, <1>3, Zenon

(* Unlink takes the cell out.                                              *)
LEMMA UnlinkFields ==
    ASSUME NEW l \in ListStruct, NEW n \in Node
    PROVE  IsUnlinked(Unlink(l, n), l, n)
<1> DEFINE nbr == [s \in Side |-> l.link[s][n]]
           a == Join(l, nbr, "left")
           b == Join(a, nbr, "right")
           m == FreeCell(b, n)
<1>0. "left" \in Side /\ "right" \in Side /\ Other("left") = "right" /\ Other("right") = "left"
  BY Zenon DEF Side, Other
<1>1. nbr \in [Side -> Ptr] /\ \A s \in Side : nbr[s] = l.link[s][n]
  BY DEF ListStruct
<1>2. Unlink(l, n) = m
  BY Zenon DEF Unlink
<1> HIDE DEF nbr
<1>3. Joined(a, l, nbr, "left", "right")
  BY <1>0, <1>1, JoinFields, Zenon
<1>14. a \in ListStruct
  BY <1>3, Zenon DEF Joined
<1> HIDE DEF a
<1>4. Joined(b, a, nbr, "right", "left")
  BY <1>0, <1>1, <1>14, JoinFields, Zenon
<1>15. b \in ListStruct
  BY <1>4, Zenon DEF Joined
<1> HIDE DEF b
<1>5. /\ m \in ListStruct /\ m.value = [b.value EXCEPT ![n] = Free]
      /\ m.len = b.len - 1 /\ m.end = b.end
      /\ \A t \in Side : m.link[t] = [b.link[t] EXCEPT ![n] = NULL]
  BY <1>15, FreeCellFields, Zenon
<1> HIDE DEF m
<1>6. b.link["left"] \in [Node -> Ptr] /\ b.link["right"] \in [Node -> Ptr]
  BY <1>0, <1>15 DEF ListStruct
<1>7. ASSUME NEW x \in Node
      PROVE  /\ nbr["right"] # x => b.link["left"][x] = l.link["left"][x]
             /\ nbr["right"] = x => b.link["left"][x] = nbr["left"]
             /\ nbr["left"] # x => b.link["right"][x] = l.link["right"][x]
             /\ nbr["left"] = x => b.link["right"][x] = nbr["right"]
  BY <1>3, <1>4, Zenon DEF Joined
<1>8. ASSUME NEW x \in Node, NEW t \in Side
      PROVE  /\ x = n => m.link[t][x] = NULL
             /\ x # n => m.link[t][x] = b.link[t][x]
  <2>1. b.link[t] \in [Node -> Ptr] /\ m.link[t] = [b.link[t] EXCEPT ![n] = NULL]
    BY <1>0, <1>5, <1>6, Zenon DEF Side
  <2> QED
    BY <2>1, Zenon
<1>9. m.value = [l.value EXCEPT ![n] = Free] /\ m.len = l.len - 1
  BY <1>3, <1>4, <1>5, Zenon DEF Joined
<1>10. /\ nbr["left"] = l.link["left"][n] /\ nbr["right"] = l.link["right"][n]
  BY <1>0, <1>1, Zenon
<1>11. ASSUME NEW t \in Side
       PROVE  /\ l.link[t][n] = NULL => m.end[t] = l.link[Other(t)][n]
              /\ l.link[t][n] # NULL => m.end[t] = l.end[t]
  <2>1. CASE t = "left"
    BY <1>0, <1>3, <1>4, <1>5, <1>10, <2>1, Zenon DEF Joined
  <2>2. CASE t = "right"
    BY <1>0, <1>3, <1>4, <1>5, <1>10, <2>2, Zenon DEF Joined
  <2> QED
    BY <2>1, <2>2, Zenon DEF Side
<1>12. ASSUME NEW t \in Side, NEW x \in Node
       PROVE  /\ x # n /\ x = l.link[Other(t)][n] => m.link[t][x] = l.link[t][n]
              /\ x # n /\ x # l.link[Other(t)][n] => m.link[t][x] = l.link[t][x]
  <2>1. CASE t = "left"
    <3>1. x # n => m.link["left"][x] = b.link["left"][x]
      BY <1>0, <1>8, Zenon
    <3>2. /\ x # n /\ x = l.link["right"][n] => m.link["left"][x] = l.link["left"][n]
          /\ x # n /\ x # l.link["right"][n] => m.link["left"][x] = l.link["left"][x]
      BY <1>7, <1>10, <3>1, Zenon
    <3> QED
      BY <1>0, <2>1, <3>2, Zenon
  <2>2. CASE t = "right"
    <3>1. x # n => m.link["right"][x] = b.link["right"][x]
      BY <1>0, <1>8, Zenon
    <3>2. /\ x # n /\ x = l.link["left"][n] => m.link["right"][x] = l.link["right"][n]
          /\ x # n /\ x # l.link["left"][n] => m.link["right"][x] = l.link["right"][x]
      BY <1>7, <1>10, <3>1, Zenon
    <3> QED
      BY <1>0, <2>2, <3>2, Zenon
  <2> QED
    BY <2>1, <2>2, Zenon DEF Side
<1>13. IsUnlinked(m, l, n)
  BY <1>5, <1>8, <1>9, <1>11, <1>12, Zenon DEF IsUnlinked
<1> QED
  BY <1>2, <1>13, Zenon

(* A pop takes the first cell out.                                         *)
LEMMA PopFields ==
    ASSUME NEW l \in ListStruct, NEW s \in Side, NEW n \in Node, l.end[s] = n,
           l.link[s][n] = NULL, l.link[Other(s)][n] # n
    PROVE  IsUnlinked(dlist_pop(l, s), l, n)
<1> DEFINE o == Other(s)
           next == l.link[o][n]
           a == FreeCell(l, n)
           rest == [a EXCEPT !.end[s] = next]
           m == dlist_pop(l, s)
<1>1. /\ o \in Side /\ o # s /\ Other(o) = s /\ \A t \in Side : t = s \/ t = o
  BY Sides, Zenon
<1>2. m = IF next = NULL THEN [rest EXCEPT !.end[o] = NULL]
          ELSE [rest EXCEPT !.link[s][next] = NULL]
  BY Zenon DEF dlist_pop
<1>3. /\ a \in ListStruct /\ a.value = [l.value EXCEPT ![n] = Free]
      /\ a.len = l.len - 1 /\ a.end = l.end
      /\ \A t \in Side : a.link[t] = [l.link[t] EXCEPT ![n] = NULL]
  BY FreeCellFields, Zenon
<1> HIDE DEF o
<1>4. next \in Ptr /\ l.link[s] \in [Node -> Ptr] /\ l.link[o] \in [Node -> Ptr]
  BY <1>1 DEF ListStruct
<1>14. next # n
  BY Zenon DEF o
<1> HIDE DEF next, a
<1>5. /\ rest \in ListStruct /\ rest.value = a.value /\ rest.len = a.len
      /\ rest.link = a.link /\ rest.end[s] = next /\ rest.end[o] = l.end[o]
  BY <1>1, <1>3, <1>4 DEF ListStruct
<1> HIDE DEF rest
<1>6. /\ m \in ListStruct /\ m.value = a.value /\ m.len = a.len
      /\ m.end[s] = next
      /\ next = NULL => m.end[o] = NULL /\ m.link = a.link
      /\ next # NULL => /\ m.end[o] = l.end[o] /\ m.link[o] = a.link[o]
                        /\ m.link[s] = [a.link[s] EXCEPT ![next] = NULL]
  <2>1. CASE next = NULL
    <3> DEFINE e == [rest EXCEPT !.end[o] = NULL]
    <3>1. m = e
      BY <1>2, <2>1, Zenon
    <3>2. /\ e \in ListStruct /\ e.value = rest.value /\ e.len = rest.len
          /\ e.link = rest.link /\ e.end[s] = rest.end[s] /\ e.end[o] = NULL
      BY <1>1, <1>5, NullIsNone DEF ListStruct
    <3> HIDE DEF e, m
    <3> QED
      BY <1>5, <2>1, <3>1, <3>2, Zenon
  <2>2. CASE next # NULL
    <3>1. next \in Node
      BY <1>4, <2>2, Zenon DEF Ptr
    <3> DEFINE e == [rest EXCEPT !.link[s][next] = NULL]
    <3>2. m = e
      BY <1>2, <2>2, Zenon
    <3>3. /\ e \in ListStruct /\ e.value = rest.value /\ e.len = rest.len
          /\ e.end = rest.end /\ e.link[o] = rest.link[o]
          /\ e.link[s] = [rest.link[s] EXCEPT ![next] = NULL]
      BY <1>1, <1>5, <3>1, NullIsNone DEF ListStruct
    <3> HIDE DEF e, m
    <3> QED
      BY <1>5, <2>2, <3>2, <3>3, Zenon
  <2> QED
    BY <2>1, <2>2, Zenon
<1> HIDE DEF m
<1>7. a.link[s] \in [Node -> Ptr] /\ a.link[o] \in [Node -> Ptr]
  BY <1>1, <1>3 DEF ListStruct
<1>8. ASSUME NEW x \in Node
      PROVE  /\ x = n => m.link[s][x] = NULL /\ m.link[o][x] = NULL
             /\ x # n => m.link[o][x] = l.link[o][x]
             /\ x # n /\ x = next => m.link[s][x] = NULL
             /\ x # n /\ x # next => m.link[s][x] = l.link[s][x]
  <2>1. /\ x = n => a.link[s][x] = NULL /\ a.link[o][x] = NULL
        /\ x # n => a.link[s][x] = l.link[s][x] /\ a.link[o][x] = l.link[o][x]
    <3>1. /\ a.link[s] = [l.link[s] EXCEPT ![n] = NULL]
          /\ a.link[o] = [l.link[o] EXCEPT ![n] = NULL]
      BY <1>1, <1>3, Zenon
    <3> QED
      BY <1>4, <3>1, Zenon
  <2>2. CASE next = NULL
    BY <1>6, <2>1, <2>2, NullIsNone, Zenon
  <2>3. CASE next # NULL
    <3>1. /\ m.link[o] = a.link[o]
          /\ x = next => m.link[s][x] = NULL
          /\ x # next => m.link[s][x] = a.link[s][x]
      BY <1>6, <1>7, <2>3, Zenon
    <3> QED
      BY <1>14, <2>1, <3>1, Zenon
  <2> QED
    BY <2>2, <2>3, Zenon
<1>9. ASSUME NEW t \in Side
      PROVE  /\ l.link[t][n] = NULL => m.end[t] = l.link[Other(t)][n]
             /\ l.link[t][n] # NULL => m.end[t] = l.end[t]
  <2>1. CASE t = s
    BY <1>6, <2>1, Zenon DEF o, next
  <2>2. CASE t = o
    BY <1>1, <1>6, <2>2, Zenon DEF next
  <2> QED
    BY <1>1, <2>1, <2>2, Zenon
<1>10. ASSUME NEW t \in Side, NEW x \in Node
       PROVE  /\ x = n => m.link[t][x] = NULL
              /\ x # n /\ x = l.link[Other(t)][n] => m.link[t][x] = l.link[t][n]
              /\ x # n /\ x # l.link[Other(t)][n] => m.link[t][x] = l.link[t][x]
  <2>1. CASE t = s
    BY <1>8, <2>1, Zenon DEF o, next
  <2>2. CASE t = o
    <3>1. x # l.link[s][n]
      BY NullIsNone, Zenon
    <3> QED
      BY <1>1, <1>8, <2>2, <3>1, Zenon
  <2> QED
    BY <1>1, <2>1, <2>2, Zenon
<1>11. m.value = [l.value EXCEPT ![n] = Free] /\ m.len = l.len - 1
  BY <1>3, <1>6, Zenon
<1>12. IsUnlinked(m, l, n)
  BY <1>6, <1>9, <1>10, <1>11, Zenon DEF IsUnlinked
<1> QED
  BY <1>12, Zenon DEF m

(* One direction of the list that has lost its cell in place k.            *)
LEMMA UnlinkedThread ==
    ASSUME NEW l, NEW s \in Side, NEW q, Linked(l, s, q), NEW k \in 1 .. Len(q),
           NEW m, IsUnlinked(m, l, q[k])
    PROVE  Thread(m.link[Other(s)], m.end[s], RemoveAt(q, k))
<1> DEFINE o == Other(s)
           n == q[k]
<1>1. ListFacts(l, s, q)
  BY LinkedFacts, Zenon
<1>2. /\ o \in Side /\ Other(o) = s
  BY Sides, Zenon
<1>3. /\ n \in Node /\ l.link[o][n] = At(q, k + 1) /\ l.link[s][n] = At(q, k - 1)
  BY <1>1, Zenon DEF ListFacts
<1>4. Thread(l.link[o], l.end[s], q)
  BY Zenon DEF Linked
<1>5. m.link[o] \in [Node -> Ptr]
  BY <1>2 DEF IsUnlinked, ListStruct
<1>6. /\ l.link[s][n] = NULL => m.end[s] = l.link[o][n]
      /\ l.link[s][n] # NULL => m.end[s] = l.end[s]
      /\ \A x \in Node :
           /\ x = n => m.link[o][x] = NULL
           /\ x # n /\ x = l.link[s][n] => m.link[o][x] = l.link[o][n]
           /\ x # n /\ x # l.link[s][n] => m.link[o][x] = l.link[o][x]
  <2>1. /\ l.link[s][n] = NULL => m.end[s] = l.link[Other(s)][n]
        /\ l.link[s][n] # NULL => m.end[s] = l.end[s]
    BY Zenon DEF IsUnlinked
  <2>2. \A x \in Node :
          /\ x = n => m.link[o][x] = NULL
          /\ x # n /\ x = l.link[Other(o)][n] => m.link[o][x] = l.link[o][n]
          /\ x # n /\ x # l.link[Other(o)][n] => m.link[o][x] = l.link[o][x]
    BY <1>2, Zenon DEF IsUnlinked
  <2>3. Other(o) = s
    BY <1>2, Zenon
  <2> HIDE DEF o, n
  <2> QED
    BY <2>1, <2>2, <2>3, Zenon DEF o
<1> HIDE DEF o
<1>7. Len(q) \in Nat /\ \A i \in 1 .. Len(q) : q[i] \in Node
  BY <1>1, Zenon DEF ListFacts
<1>8. /\ k = 1 => k - 1 \notin 1 .. Len(q) /\ k + 1 = 2
      /\ k # 1 => k - 1 \in 1 .. Len(q)
  BY <1>7
<1>9. /\ k = 1 => At(q, k - 1) = NULL /\ At(q, k + 1) = At(q, 2)
      /\ k # 1 => At(q, k - 1) # NULL
  BY <1>7, <1>8, NullIsNone, Zenon DEF At
<1>10. m.link[o][q[k]] = NULL
  BY <1>3, <1>6, Zenon
<1>11. \A x \in Node \ {q[k]} : /\ x = At(q, k - 1) => m.link[o][x] = At(q, k + 1)
                                /\ x # At(q, k - 1) => m.link[o][x] = l.link[o][x]
  BY <1>3, <1>6, Zenon
<1>12. (k = 1 => m.end[s] = At(q, 2)) /\ (k # 1 => m.end[s] = l.end[s])
  BY <1>3, <1>6, <1>9, Zenon
<1>13. Thread(m.link[o], m.end[s], RemoveAt(q, k))
  BY <1>4, <1>5, <1>10, <1>11, <1>12, ThreadRemoved, Zenon
<1> QED
  BY <1>13, Zenon DEF o

(* The list that has lost its cell in place k.                             *)
LEMMA UnlinkedLinked ==
    ASSUME NEW l, NEW s \in Side, NEW q, Linked(l, s, q), NEW k \in 1 .. Len(q),
           NEW m, IsUnlinked(m, l, q[k])
    PROVE  Linked(m, s, RemoveAt(q, k))
<1> DEFINE o == Other(s)
           h == Len(q) + 1 - k
           R == Reverse(q)
           r == RemoveAt(q, k)
<1>1. ListFacts(l, s, q)
  BY LinkedFacts, Zenon
<1>2. /\ q \in Seq(Node) /\ Len(q) \in Nat /\ Distinct(q) /\ q[k] \in Node
      /\ Range(q) = ListCells(l) /\ l.len = Len(q) /\ l \in ListStruct
  BY <1>1, Zenon DEF ListFacts
<1>3. o \in Side /\ Other(o) = s /\ Linked(l, o, R)
  BY Flip, Sides, Zenon
<1>4. /\ Len(R) = Len(q) /\ R[h] = q[k]
  BY <1>2, Reversed, Zenon DEF IsReverse
<1>5. h \in 1 .. Len(R)
  BY <1>2, <1>4
<1>6. Thread(m.link[o], m.end[s], r)
  BY UnlinkedThread, Zenon
<1>7. Thread(m.link[s], m.end[o], Reverse(r))
  <2>1. IsUnlinked(m, l, R[h])
    BY <1>4, Zenon
  <2>2. Reverse(r) = RemoveAt(R, h)
    BY <1>2, ReverseRemoved, Zenon
  <2> HIDE DEF o, R, h
  <2>3. Thread(m.link[Other(o)], m.end[o], RemoveAt(R, h))
    BY <1>3, <1>5, <2>1, UnlinkedThread, Zenon
  <2> QED
    BY <1>3, <2>2, <2>3, Zenon
<1>8. Range(r) = Range(q) \ {q[k]} /\ Len(r) = Len(q) - 1
  BY <1>2, Removed, Zenon DEF IsRemove
<1>9. m \in ListStruct /\ m.value = [l.value EXCEPT ![q[k]] = Free] /\ m.len = l.len - 1
  BY Zenon DEF IsUnlinked
<1>10. ListCells(m) = ListCells(l) \ {q[k]}
  <2>1. l.value \in [Node -> Value \cup {Free}]
    BY <1>2 DEF ListStruct
  <2> QED
    BY <1>2, <1>9, <2>1, Zenon DEF ListCells
<1> HIDE DEF r
<1>11. m.len = Len(r)
  BY <1>2, <1>8, <1>9, Zenon
<1>12. Range(r) = ListCells(m)
  BY <1>2, <1>8, <1>10, Zenon
<1>13. Linked(m, s, r)
  BY <1>6, <1>7, <1>9, <1>11, <1>12, Zenon DEF Linked
<1> QED
  BY <1>13, Zenon DEF r

-----------------------------------------------------------------------------
(* The values of a list, and what the commands do to them.                 *)

(* What a cell can hold.                                                   *)
Slot == Value \cup {Free}

(* What the cells of q hold, in their order.                               *)
Vals(f, q) == [i \in 1 .. Len(q) |-> f[q[i]]]

(* Those are a sequence.                                                   *)
LEMMA ValsSeq ==
    ASSUME NEW f \in [Node -> Slot], NEW q \in Seq(Node)
    PROVE  /\ Vals(f, q) \in Seq(Slot) /\ Len(Vals(f, q)) = Len(q) /\ Len(q) \in Nat
           /\ \A i \in 1 .. Len(q) : Vals(f, q)[i] = f[q[i]] /\ q[i] \in Node
<1>1. Len(q) \in Nat /\ \A i \in 1 .. Len(q) : q[i] \in Node
  BY InRange, Zenon
<1>2. Vals(f, q) \in [1 .. Len(q) -> Slot] /\ \A i \in 1 .. Len(q) : Vals(f, q)[i] = f[q[i]]
  BY <1>1, Zenon DEF Vals
<1> QED
  BY <1>1, <1>2, SeqOf, Zenon

(* Items reads the values of the cells in order.                           *)
LEMMA ItemsAre ==
    ASSUME NEW l, NEW q, Linked(l, "left", q)
    PROVE  /\ Items(l, "left") = Vals(l.value, q)
           /\ l.value \in [Node -> Slot] /\ q \in Seq(Node)
<1>1. "left" \in Side
  BY Zenon DEF Side
<1>2. Cells(l, "left") = q
  BY <1>1, CellsAre, Zenon
<1>3. l \in ListStruct /\ q \in Seq(Node)
  BY Zenon DEF Linked, Thread
<1>4. l.value \in [Node -> Slot]
  BY <1>3 DEF ListStruct, Slot
<1> QED
  BY <1>2, <1>3, <1>4, Zenon DEF Items, Vals

(* The values once a cell is in front or behind.                           *)
LEMMA ValsInserted ==
    ASSUME NEW f \in [Node -> Slot], NEW q \in Seq(Node), NEW n \in Node,
           n \notin Range(q), NEW val \in Value, NEW k \in 1 .. Len(q) + 1
    PROVE  LET w == Vals([f EXCEPT ![n] = val], InsertAt(q, k, n))
           IN  /\ k = 1 => w = <<val>> \o Vals(f, q)
               /\ k = Len(q) + 1 => w = Append(Vals(f, q), val)
<1> DEFINE g == [f EXCEPT ![n] = val]
           r == InsertAt(q, k, n)
           v == Vals(f, q)
           w == Vals(g, r)
<1>1. /\ r \in Seq(Node) /\ Len(r) = Len(q) + 1
      /\ \A j \in 1 .. Len(q) + 1 : /\ j < k => r[j] = q[j]
                                    /\ j = k => r[j] = n
                                    /\ j > k => r[j] = q[j - 1]
  BY Inserted, Zenon DEF IsInsert
<1>2. /\ v \in Seq(Slot) /\ Len(v) = Len(q) /\ Len(q) \in Nat
      /\ \A i \in 1 .. Len(q) : v[i] = f[q[i]] /\ q[i] \in Node
  BY ValsSeq, Zenon
<1>3. val \in Slot
  BY Zenon DEF Slot
<1>4. g \in [Node -> Slot] /\ g[n] = val /\ \A x \in Node : x # n => g[x] = f[x]
  BY <1>3, Zenon
<1> HIDE DEF g, r
<1>5. /\ w \in Seq(Slot) /\ Len(w) = Len(r)
      /\ \A i \in 1 .. Len(r) : w[i] = g[r[i]]
  BY <1>1, <1>4, ValsSeq, Zenon
<1>6. \A i \in 1 .. Len(q) : q[i] \in Range(q)
  BY InRange, Zenon
<1> HIDE DEF v, w
<1>7. \A i \in 1 .. Len(q) : g[q[i]] = v[i]
  BY <1>2, <1>4, <1>6, Zenon
<1>8. Len(w) = Len(q) + 1 /\ Len(v) = Len(q) /\ Len(q) \in Nat
  BY <1>1, <1>2, <1>5, Zenon
<1>9. ASSUME NEW i \in 1 .. Len(q) + 1
      PROVE  /\ i = k => w[i] = val
             /\ i < k => w[i] = v[i]
             /\ i > k => w[i] = v[i - 1]
  <2>1. i \in 1 .. Len(r)
    BY <1>1, Zenon
  <2>2. (i < k => i \in 1 .. Len(q)) /\ (i > k => i - 1 \in 1 .. Len(q))
    BY <1>8
  <2>3. w[i] = g[r[i]]
    BY <1>5, <2>1, Zenon
  <2>4. (i = k => r[i] = n) /\ (i < k => r[i] = q[i]) /\ (i > k => r[i] = q[i - 1])
    BY <1>1, Zenon
  <2> QED
    BY <1>4, <1>7, <2>2, <2>3, <2>4, Zenon
<1>10. ASSUME k = 1 PROVE w = <<val>> \o v
  <2> DEFINE b == <<val>> \o v
  <2>1. /\ b \in Seq(Slot) /\ Len(b) = Len(q) + 1 /\ b[1] = val
        /\ \A i \in 1 .. Len(q) + 1 : i > 1 => b[i] = v[i - 1]
    BY <1>2, <1>3, <1>8
  <2>2. \A i \in 1 .. Len(q) + 1 : i = 1 \/ i > 1
    BY <1>8
  <2> HIDE DEF b
  <2>3. \A i \in 1 .. Len(w) : w[i] = b[i]
    BY <1>8, <1>9, <1>10, <2>1, <2>2, Zenon
  <2>4. w = b
    BY <1>5, <1>8, <2>1, <2>3, SameSeq, Zenon
  <2> QED
    BY <2>4, Zenon DEF b
<1>11. ASSUME k = Len(q) + 1 PROVE w = Append(v, val)
  <2> DEFINE b == Append(v, val)
  <2>1. /\ b \in Seq(Slot) /\ Len(b) = Len(q) + 1 /\ b[Len(q) + 1] = val
        /\ \A i \in 1 .. Len(q) + 1 : i < Len(q) + 1 => b[i] = v[i]
    BY <1>2, <1>3, <1>8
  <2>2. \A i \in 1 .. Len(q) + 1 : i = Len(q) + 1 \/ i < Len(q) + 1
    BY <1>8
  <2> HIDE DEF b
  <2>3. \A i \in 1 .. Len(w) : w[i] = b[i]
    BY <1>8, <1>9, <1>11, <2>1, <2>2, Zenon
  <2>4. w = b
    BY <1>5, <1>8, <2>1, <2>3, SameSeq, Zenon
  <2> QED
    BY <2>4, Zenon DEF b
<1> QED
  BY <1>10, <1>11, Zenon DEF g, r, v, w

(* The values once a cell is gone.                                         *)
LEMMA ValsRemoved ==
    ASSUME NEW f \in [Node -> Slot], NEW q \in Seq(Node), Distinct(q),
           NEW k \in 1 .. Len(q)
    PROVE  LET w == Vals([f EXCEPT ![q[k]] = Free], RemoveAt(q, k))
           IN  /\ k = 1 => w = Tail(Vals(f, q))
               /\ k = Len(q) => w = SubSeq(Vals(f, q), 1, Len(Vals(f, q)) - 1)
<1> DEFINE g == [f EXCEPT ![q[k]] = Free]
           r == RemoveAt(q, k)
           v == Vals(f, q)
           w == Vals(g, r)
<1>1. /\ r \in Seq(Node) /\ Len(r) = Len(q) - 1
      /\ \A j \in 1 .. Len(q) - 1 : /\ j < k => r[j] = q[j]
                                    /\ j >= k => r[j] = q[j + 1]
  BY Removed, Zenon DEF IsRemove
<1>2. /\ v \in Seq(Slot) /\ Len(v) = Len(q) /\ Len(q) \in Nat
      /\ \A i \in 1 .. Len(q) : v[i] = f[q[i]] /\ q[i] \in Node
  BY ValsSeq, Zenon
<1>3. Free \in Slot
  BY Zenon DEF Slot
<1>4. g \in [Node -> Slot] /\ \A x \in Node : x # q[k] => g[x] = f[x]
  BY <1>3, Zenon
<1> HIDE DEF g, r
<1>5. /\ w \in Seq(Slot) /\ Len(w) = Len(r)
      /\ \A i \in 1 .. Len(r) : w[i] = g[r[i]]
  BY <1>1, <1>4, ValsSeq, Zenon
<1> HIDE DEF v, w
<1>7. \A i \in 1 .. Len(q) : i # k => g[q[i]] = v[i]
  BY <1>2, <1>4, Zenon DEF Distinct
<1>8. Len(w) = Len(q) - 1 /\ Len(v) = Len(q) /\ Len(q) \in Nat
  BY <1>1, <1>2, <1>5, Zenon
<1>9. ASSUME NEW i \in 1 .. Len(q) - 1
      PROVE  /\ i < k => w[i] = v[i]
             /\ i >= k => w[i] = v[i + 1]
  <2>1. i \in 1 .. Len(r)
    BY <1>1, Zenon
  <2>2. /\ i \in 1 .. Len(q) /\ i + 1 \in 1 .. Len(q)
        /\ (i < k => i # k) /\ (i >= k => i + 1 # k)
    BY <1>8
  <2>3. w[i] = g[r[i]]
    BY <1>5, <2>1, Zenon
  <2>4. (i < k => r[i] = q[i]) /\ (i >= k => r[i] = q[i + 1])
    BY <1>1, Zenon
  <2> QED
    BY <1>7, <2>2, <2>3, <2>4, Zenon
<1>10. ASSUME k = 1 PROVE w = Tail(v)
  <2> DEFINE b == Tail(v)
  <2>1. /\ b \in Seq(Slot) /\ Len(b) = Len(q) - 1
        /\ \A i \in 1 .. Len(q) - 1 : b[i] = v[i + 1]
    BY <1>2, <1>8
  <2>2. \A i \in 1 .. Len(q) - 1 : i >= k
    BY <1>8, <1>10
  <2> HIDE DEF b
  <2>5. \A i \in 1 .. Len(q) - 1 : w[i] = v[i + 1]
    BY <1>9, <2>2, Zenon
  <2>3. \A i \in 1 .. Len(w) : w[i] = b[i]
    BY <1>8, <2>1, <2>5, Zenon
  <2>4. w = b
    BY <1>5, <1>8, <2>1, <2>3, SameSeq, Zenon
  <2> QED
    BY <2>4, Zenon DEF b
<1>11. ASSUME k = Len(q) PROVE w = SubSeq(v, 1, Len(v) - 1)
  <2> DEFINE b == SubSeq(v, 1, Len(v) - 1)
  <2>1. /\ b \in Seq(Slot) /\ Len(b) = Len(q) - 1
        /\ \A i \in 1 .. Len(q) - 1 : b[i] = v[i]
    BY <1>2, <1>8
  <2>2. \A i \in 1 .. Len(q) - 1 : i < k
    BY <1>8, <1>11
  <2> HIDE DEF b
  <2>3. \A i \in 1 .. Len(w) : w[i] = b[i]
    BY <1>8, <1>9, <1>11, <2>1, <2>2, Zenon
  <2>4. w = b
    BY <1>5, <1>8, <2>1, <2>3, SameSeq, Zenon
  <2> QED
    BY <2>4, Zenon DEF b
<1> QED
  BY <1>10, <1>11, Zenon DEF g, r, v, w

(* dlist_push at the left end puts the value in front.                     *)
LEMMA PushLeft ==
    ASSUME NEW l, NEW q, Linked(l, "left", q), NEW val \in Value, ListCells(l) # Node
    PROVE  \E r : /\ Linked(dlist_push(l, "left", val), "left", r)
                  /\ Vals(dlist_push(l, "left", val).value, r) = <<val>> \o Vals(l.value, q)
<1> DEFINE m == dlist_push(l, "left", val)
           n == Calloc(ListCells(l))
<1>1. "left" \in Side /\ ListFacts(l, "left", q)
  BY LinkedFacts, Zenon DEF Side
<1>2. Linked(m, "left", InsertAt(q, 1, n))
  BY <1>1, PushLinked, Zenon
<1>3. l \in ListStruct /\ q \in Seq(Node) /\ Len(q) \in Nat /\ Range(q) = ListCells(l)
  BY <1>1, Zenon DEF ListFacts
<1>14. IsPushed(m, l, "left", val, n)
  BY <1>1, <1>3, PushFields, Zenon
<1>4. n \in Node /\ n \notin ListCells(l) /\ m.value = [l.value EXCEPT ![n] = val]
  BY <1>14, Zenon DEF IsPushed
<1>13. n \in Node /\ n \notin Range(q) /\ q \in Seq(Node)
  BY <1>3, <1>4, Zenon
<1>5. 1 \in 1 .. Len(q) + 1
  BY <1>3
<1>6. l.value \in [Node -> Slot]
  BY ItemsAre, Zenon
<1> HIDE DEF m, n
<1>7. Vals([l.value EXCEPT ![n] = val], InsertAt(q, 1, n)) = <<val>> \o Vals(l.value, q)
  BY <1>5, <1>6, <1>13, ValsInserted, Zenon
<1> QED
  BY <1>2, <1>4, <1>7, Zenon DEF m

(* dlist_push at the right end puts the value behind.                      *)
LEMMA PushRight ==
    ASSUME NEW l, NEW q, Linked(l, "left", q), NEW val \in Value, ListCells(l) # Node
    PROVE  \E r : /\ Linked(dlist_push(l, "right", val), "left", r)
                  /\ Vals(dlist_push(l, "right", val).value, r) = Append(Vals(l.value, q), val)
<1> DEFINE m == dlist_push(l, "right", val)
           n == Calloc(ListCells(l))
           R == Reverse(q)
           k == Len(q) + 1
<1>1. /\ "left" \in Side /\ "right" \in Side /\ Other("left") = "right"
      /\ Other("right") = "left" /\ ListFacts(l, "left", q)
  BY LinkedFacts, Zenon DEF Side, Other
<1>2. Linked(l, "right", R)
  BY <1>1, Flip, Zenon
<1>3. l \in ListStruct /\ q \in Seq(Node) /\ Len(q) \in Nat /\ Range(q) = ListCells(l)
  BY <1>1, Zenon DEF ListFacts
<1>14. IsPushed(m, l, "right", val, n)
  BY <1>1, <1>3, PushFields, Zenon
<1>4. n \in Node /\ n \notin ListCells(l) /\ m.value = [l.value EXCEPT ![n] = val]
  BY <1>14, Zenon DEF IsPushed
<1>13. n \in Node /\ n \notin Range(q) /\ q \in Seq(Node)
  BY <1>3, <1>4, Zenon
<1>5. k \in 1 .. Len(q) + 1 /\ Len(q) + 2 - k = 1
  BY <1>3
<1>6. l.value \in [Node -> Slot]
  BY ItemsAre, Zenon
<1> HIDE DEF R
<1>7. Linked(m, "right", InsertAt(R, 1, n))
  BY <1>1, <1>2, PushLinked, Zenon
<1> HIDE DEF m, n
<1>8. InsertAt(q, k, n) \in Seq(Node)
  BY <1>3, <1>4, <1>5, Inserted, Zenon DEF IsInsert
<1>9. Reverse(InsertAt(q, k, n)) = InsertAt(R, 1, n)
  <2>1. Reverse(InsertAt(q, k, n)) = InsertAt(Reverse(q), Len(q) + 2 - k, n)
    BY <1>3, <1>4, <1>5, ReverseInserted, Zenon
  <2> QED
    BY <1>5, <2>1, Zenon DEF R
<1>10. Linked(m, "left", Reverse(InsertAt(R, 1, n)))
  BY <1>1, <1>7, Flip, Zenon
<1>11. Reverse(InsertAt(R, 1, n)) = InsertAt(q, k, n)
  BY <1>8, <1>9, ReverseTwice, Zenon
<1>12. Vals([l.value EXCEPT ![n] = val], InsertAt(q, k, n)) = Append(Vals(l.value, q), val)
  BY <1>5, <1>6, <1>13, ValsInserted, Zenon
<1> QED
  BY <1>4, <1>10, <1>11, <1>12, Zenon DEF m

(* An end that is not NULL is the first or the last cell, and has no       *)
(* neighbour beyond.                                                       *)
LEMMA Ends ==
    ASSUME NEW l, NEW q, Linked(l, "left", q), NEW s \in Side, l.end[s] # NULL
    PROVE  LET k == IF s = "left" THEN 1 ELSE Len(q)
           IN  /\ k \in 1 .. Len(q) /\ l.end[s] = q[k] /\ q[k] \in Node
               /\ l.link[s][q[k]] = NULL /\ l.link[Other(s)][q[k]] # q[k]
<1>1. /\ "left" \in Side /\ "right" \in Side /\ Other("left") = "right"
      /\ Other("right") = "left" /\ ListFacts(l, "left", q)
  BY LinkedFacts, Zenon DEF Side, Other
<1>2. /\ l.end["left"] = At(q, 1) /\ l.end["right"] = At(q, Len(q)) /\ Len(q) \in Nat
      /\ \A i \in 1 .. Len(q) : /\ l.link["right"][q[i]] = At(q, i + 1)
                                /\ l.link["left"][q[i]] = At(q, i - 1)
                                /\ q[i] \in Node
      /\ Distinct(q)
  BY <1>1, Zenon DEF ListFacts
<1>3. Len(q) # 0
  <2>1. ASSUME Len(q) = 0 PROVE 1 \notin 1 .. Len(q) /\ Len(q) \notin 1 .. Len(q)
    BY <2>1
  <2> QED
    BY <1>2, <2>1, Zenon DEF At, Side
<1>4. 1 \in 1 .. Len(q) /\ Len(q) \in 1 .. Len(q)
  BY <1>2, <1>3
<1>5. \A i \in 1 .. Len(q) : /\ At(q, i) = q[i]
                             /\ At(q, i + 1) # q[i] /\ At(q, i - 1) # q[i]
  <2> TAKE i \in 1 .. Len(q)
  <2>1. i + 1 # i /\ i - 1 # i
    BY <1>2
  <2> QED
    BY <1>2, <2>1, NullIsNone, Zenon DEF At, Distinct
<1>6. At(q, 1 - 1) = NULL /\ At(q, Len(q) + 1) = NULL
  <2>1. 1 - 1 \notin 1 .. Len(q) /\ Len(q) + 1 \notin 1 .. Len(q)
    BY <1>2
  <2> QED
    BY <2>1, Zenon DEF At
<1>7. CASE s = "left"
  BY <1>1, <1>2, <1>4, <1>5, <1>6, <1>7, Zenon
<1>8. CASE s = "right"
  BY <1>1, <1>2, <1>4, <1>5, <1>6, <1>8, Zenon
<1> QED
  BY <1>7, <1>8, Zenon DEF Side

(* dlist_pop takes the value at its end.                                   *)
LEMMA PopEither ==
    ASSUME NEW l, NEW q, Linked(l, "left", q), NEW s \in Side, l.end[s] # NULL
    PROVE  LET m == dlist_pop(l, s)
           IN  \E r : /\ Linked(m, "left", r)
                      /\ s = "left" => Vals(m.value, r) = Tail(Vals(l.value, q))
                      /\ s = "right" => Vals(m.value, r) =
                           SubSeq(Vals(l.value, q), 1, Len(Vals(l.value, q)) - 1)
<1> DEFINE m == dlist_pop(l, s)
           k == IF s = "left" THEN 1 ELSE Len(q)
<1>1. /\ k \in 1 .. Len(q) /\ l.end[s] = q[k] /\ q[k] \in Node
      /\ l.link[s][q[k]] = NULL /\ l.link[Other(s)][q[k]] # q[k]
  BY Ends, Zenon
<1>2. "left" \in Side /\ (s = "left" => k = 1) /\ (s = "right" => k = Len(q))
  BY Zenon DEF Side
<1>3. ListFacts(l, "left", q)
  BY <1>2, LinkedFacts, Zenon
<1>4. l \in ListStruct /\ q \in Seq(Node) /\ Distinct(q)
  BY <1>3, Zenon DEF ListFacts
<1>5. l.value \in [Node -> Slot]
  BY ItemsAre, Zenon
<1> HIDE DEF k
<1>6. IsUnlinked(m, l, q[k])
  BY <1>1, <1>4, PopFields, Zenon
<1> HIDE DEF m
<1>7. Linked(m, "left", RemoveAt(q, k))
  BY <1>1, <1>2, <1>6, UnlinkedLinked, Zenon
<1>8. m.value = [l.value EXCEPT ![q[k]] = Free]
  BY <1>6, Zenon DEF IsUnlinked
<1> DEFINE w == Vals([l.value EXCEPT ![q[k]] = Free], RemoveAt(q, k))
<1>9. /\ k = 1 => w = Tail(Vals(l.value, q))
      /\ k = Len(q) => w = SubSeq(Vals(l.value, q), 1, Len(Vals(l.value, q)) - 1)
  BY <1>1, <1>4, <1>5, ValsRemoved, Zenon
<1>10. w = Vals(m.value, RemoveAt(q, k))
  BY <1>8, Zenon
<1> HIDE DEF w
<1> QED
  BY <1>2, <1>7, <1>9, <1>10, Zenon DEF m

(* The cell at an index.                                                   *)
LEMMA CellAtIs ==
    ASSUME NEW l, NEW q, Linked(l, "left", q), NEW idx \in Int
    PROVE  LET i == IF idx < 0 THEN idx + Len(q) ELSE idx
           IN  /\ i < 0 \/ i >= Len(q) => CellAt(l, idx) = NULL
               /\ ~(i < 0 \/ i >= Len(q)) => i + 1 \in 1 .. Len(q) /\ CellAt(l, idx) = q[i + 1]
<1> DEFINE i == IF idx < 0 THEN idx + Len(q) ELSE idx
<1>1. "left" \in Side
  BY Zenon DEF Side
<1>2. ListFacts(l, "left", q)
  BY <1>1, LinkedFacts, Zenon
<1>3. l.len = Len(q) /\ Len(q) \in Nat
  BY <1>2, Zenon DEF ListFacts
<1>4. Cells(l, "left") = q
  BY <1>1, CellsAre, Zenon
<1>5. CellAt(l, idx) = IF i < 0 \/ i >= Len(q) THEN NULL ELSE q[i + 1]
  BY <1>3, <1>4, Zenon DEF CellAt
<1>6. ~(i < 0 \/ i >= Len(q)) => i + 1 \in 1 .. Len(q)
  BY <1>3
<1> HIDE DEF i
<1>7. /\ i < 0 \/ i >= Len(q) => CellAt(l, idx) = NULL
      /\ ~(i < 0 \/ i >= Len(q)) => i + 1 \in 1 .. Len(q) /\ CellAt(l, idx) = q[i + 1]
  BY <1>5, <1>6, Zenon
<1> QED
  BY <1>7, Zenon DEF i

(* kv_lset: the cell at an index gets another value.                       *)
Place(q, idx) == IF idx < 0 THEN Len(q) + idx + 1 ELSE idx + 1

(* m is l with another value in one place.                                 *)
IsSetAt(m, l, q, idx, val) ==
    /\ Linked(m, "left", q)
    /\ Vals(m.value, q) = [Vals(l.value, q) EXCEPT ![Place(q, idx)] = val]

(* kv_lset writes in the place that its index names.                       *)
LEMMA SetOne ==
    ASSUME NEW l, NEW q, Linked(l, "left", q), NEW idx \in Int, NEW val \in Value,
           CellAt(l, idx) # NULL
    PROVE  IsSetAt([l EXCEPT !.value[CellAt(l, idx)] = val], l, q, idx, val)
<1> DEFINE n == CellAt(l, idx)
           m == [l EXCEPT !.value[n] = val]
           i == IF idx < 0 THEN idx + Len(q) ELSE idx
           p == IF idx < 0 THEN Len(q) + idx + 1 ELSE idx + 1
           v == Vals(l.value, q)
           w == Vals(m.value, q)
<1>1. "left" \in Side
  BY Zenon DEF Side
<1>2. ListFacts(l, "left", q)
  BY <1>1, LinkedFacts, Zenon
<1>3. /\ l \in ListStruct /\ q \in Seq(Node) /\ Len(q) \in Nat /\ Distinct(q)
      /\ Range(q) = ListCells(l)
      /\ \A j \in 1 .. Len(q) : q[j] \in Node /\ q[j] \in Range(q)
  BY <1>2, Zenon DEF ListFacts
<1>4. i + 1 \in 1 .. Len(q) /\ n = q[i + 1]
  BY CellAtIs, Zenon
<1>5. i + 1 = p
  BY <1>3
<1>6. n \in Node /\ n = q[p] /\ p \in 1 .. Len(q) /\ n \in ListCells(l)
  BY <1>3, <1>4, <1>5, Zenon
<1> HIDE DEF i, p, n
<1>7. /\ m \in ListStruct /\ m.end = l.end /\ m.link = l.link /\ m.len = l.len
      /\ m.value = [l.value EXCEPT ![n] = val]
  BY <1>3, <1>6 DEF ListStruct
<1>8. l.value \in [Node -> Slot]
  BY ItemsAre, Zenon
<1> HIDE DEF m
<1>9. ListCells(m) = ListCells(l)
  <2>1. val # Free /\ l.value[n] # Free
    BY <1>6, ObjectsAssumption, Zenon DEF ListCells
  <2>2. \A x \in Node : (x = n => m.value[x] = val) /\ (x # n => m.value[x] = l.value[x])
    BY <1>7, <1>8, Zenon
  <2> QED
    BY <2>1, <2>2, Zenon DEF ListCells
<1>10. Linked(m, "left", q)
  BY <1>7, <1>9, Zenon DEF Linked
<1>11. m.value \in [Node -> Slot]
  BY <1>10, ItemsAre, Zenon
<1>12. /\ v \in Seq(Slot) /\ Len(v) = Len(q) /\ \A j \in 1 .. Len(q) : v[j] = l.value[q[j]]
  BY <1>3, <1>8, ValsSeq, Zenon
<1>13. /\ w \in Seq(Slot) /\ Len(w) = Len(q) /\ \A j \in 1 .. Len(q) : w[j] = m.value[q[j]]
  BY <1>3, <1>11, ValsSeq, Zenon
<1> HIDE DEF v, w
<1>14. \A j \in 1 .. Len(q) : (j = p => w[j] = val) /\ (j # p => w[j] = v[j])
  BY <1>3, <1>6, <1>7, <1>8, <1>12, <1>13, Zenon DEF Distinct
<1>15. w = [v EXCEPT ![p] = val]
  <2> DEFINE b == [v EXCEPT ![p] = val]
  <2>1. val \in Slot
    BY Zenon DEF Slot
  <2>2. /\ b \in Seq(Slot) /\ Len(b) = Len(q)
        /\ \A j \in 1 .. Len(q) : (j = p => b[j] = val) /\ (j # p => b[j] = v[j])
    BY <1>6, <1>12, <2>1
  <2> HIDE DEF b
  <2>3. \A j \in 1 .. Len(w) : w[j] = b[j]
    BY <1>13, <1>14, <2>2, Zenon
  <2>4. w = b
    BY <1>13, <2>2, <2>3, SameSeq, Zenon
  <2> QED
    BY <2>4, Zenon DEF b
<1> QED
  BY <1>10, <1>15, Zenon DEF m, n, p, v, w, IsSetAt, Place

(* kv_lpoprpush: the last item comes to the front.                         *)
LEMMA Rotate ==
    ASSUME NEW l, NEW q, Linked(l, "left", q), l.end["right"] # NULL
    PROVE  LET m == dlist_push(dlist_pop(l, "right"), "left", l.value[l.end["right"]])
               v == Vals(l.value, q)
           IN  \E r : /\ Linked(m, "left", r)
                      /\ Vals(m.value, r) = <<v[Len(v)]>> \o SubSeq(v, 1, Len(v) - 1)
<1> DEFINE a == dlist_pop(l, "right")
           val == l.value[l.end["right"]]
           m == dlist_push(a, "left", val)
           v == Vals(l.value, q)
<1>1. "left" \in Side /\ "right" \in Side /\ "right" # "left"
  BY Zenon DEF Side
<1>2. ListFacts(l, "left", q)
  BY <1>1, LinkedFacts, Zenon
<1>3. /\ l \in ListStruct /\ q \in Seq(Node) /\ Len(q) \in Nat
      /\ Range(q) = ListCells(l)
      /\ \A j \in 1 .. Len(q) : q[j] \in Node /\ q[j] \in Range(q)
  BY <1>2, Zenon DEF ListFacts
<1>4. /\ Len(q) \in 1 .. Len(q) /\ l.end["right"] = q[Len(q)] /\ q[Len(q)] \in Node
      /\ l.link["right"][q[Len(q)]] = NULL
      /\ l.link[Other("right")][q[Len(q)]] # q[Len(q)]
  <2> DEFINE k == IF "right" = "left" THEN 1 ELSE Len(q)
  <2>1. /\ k \in 1 .. Len(q) /\ l.end["right"] = q[k] /\ q[k] \in Node
        /\ l.link["right"][q[k]] = NULL /\ l.link[Other("right")][q[k]] # q[k]
    BY <1>1, Ends, Zenon
  <2>2. k = Len(q)
    BY <1>1, Zenon
  <2> HIDE DEF k
  <2> QED
    BY <2>1, <2>2, Zenon
<1>5. val \in Value /\ l.value \in [Node -> Slot]
  <2>1. q[Len(q)] \in ListCells(l)
    BY <1>3, <1>4, Zenon
  <2> QED
    BY <1>3, <1>4, <2>1, CellFacts, ItemsAre, Zenon
<1>6. IsUnlinked(a, l, q[Len(q)])
  BY <1>1, <1>3, <1>4, PopFields, Zenon
<1>7. ListCells(a) # Node
  <2>1. a.value = [l.value EXCEPT ![q[Len(q)]] = Free]
    BY <1>6, Zenon DEF IsUnlinked
  <2>2. a.value[q[Len(q)]] = Free
    BY <1>4, <1>5, <2>1, Zenon
  <2> QED
    BY <1>4, <2>2, Zenon DEF ListCells
<1>8. v[Len(v)] = val
  BY <1>3, <1>4, <1>5, ValsSeq, Zenon
<1>9. PICK r : Linked(a, "left", r) /\ Vals(a.value, r) = SubSeq(v, 1, Len(v) - 1)
  BY <1>1, PopEither, Zenon
<1> HIDE DEF a, val, v
<1>10. \E t : Linked(m, "left", t) /\ Vals(m.value, t) = <<val>> \o Vals(a.value, r)
  BY <1>5, <1>7, <1>9, PushLeft, Zenon
<1> QED
  BY <1>8, <1>9, <1>10, Zenon DEF a, val, v

-----------------------------------------------------------------------------
(* kv_lrem: a walk that unlinks matches as it goes.                        *)

(* r has its cells in the order of q.                                      *)
Follows(r, q) ==
    \A a, b \in 1 .. Len(r), c, d \in 1 .. Len(q) :
      r[a] = q[c] /\ r[b] = q[d] /\ a < b => c < d

(* A cell that goes leaves the order of the others.                        *)
LEMMA FollowsRemoved ==
    ASSUME NEW r \in Seq(Node), NEW p \in 1 .. Len(r), NEW q \in Seq(Node), Follows(r, q)
    PROVE  Follows(RemoveAt(r, p), q)
<1> DEFINE t == RemoveAt(r, p)
<1>1. CameFrom(t, r, p)
  BY RemovedFrom, Zenon
<1>2. t \in Seq(Node)
  BY Removed, Zenon DEF IsRemove
<1>3. Len(t) \in Nat /\ Len(r) \in Nat
  BY <1>2, SeqFacts, Zenon
<1> HIDE DEF t
<1>4. ASSUME NEW a \in 1 .. Len(t), NEW b \in 1 .. Len(t),
             NEW c \in 1 .. Len(q), NEW d \in 1 .. Len(q),
             t[a] = q[c], t[b] = q[d], a < b
      PROVE  c < d
  <2>1. PICK g \in 1 .. Len(r) : t[a] = r[g] /\ (a < p => g = a) /\ (~(a < p) => g = a + 1)
    BY <1>1, Zenon DEF CameFrom
  <2>2. PICK h \in 1 .. Len(r) : t[b] = r[h] /\ (b < p => h = b) /\ (~(b < p) => h = b + 1)
    BY <1>1, Zenon DEF CameFrom
  <2>3. g < h
    BY <1>3, <1>4, <2>1, <2>2
  <2> QED
    BY <1>4, <2>1, <2>2, <2>3, Zenon DEF Follows
<1> QED
  BY <1>4, Zenon DEF Follows, t

(* The number of matches among the first i.                                *)
Matches(v, x, i) == Cardinality({k \in 1 .. i : v[k] = x})

(* One place further there is one match more or as many.                   *)
LEMMA MatchesNext ==
    ASSUME NEW v, NEW x, NEW i \in Nat
    PROVE  /\ Matches(v, x, i) \in Nat /\ Matches(v, x, 0) = 0
           /\ v[i + 1] = x => Matches(v, x, i + 1) = Matches(v, x, i) + 1
           /\ v[i + 1] # x => Matches(v, x, i + 1) = Matches(v, x, i)
<1> DEFINE A(n) == {k \in 1 .. n : v[k] = x}
<1>1. IsFiniteSet(A(i))
  <2>1. IsFiniteSet(1 .. i)
    <3>1. 1 \in Int /\ i \in Int
      OBVIOUS
    <3> QED
      BY <3>1, FS_Interval, Zenon
  <2> QED
    BY <2>1, FS_Subset, Zenon
<1>2. Matches(v, x, i) \in Nat
  BY <1>1, FS_CardinalityType, Zenon DEF Matches
<1>3. A(0) = {}
  OBVIOUS
<1>4. Matches(v, x, 0) = 0
  BY <1>3, FS_EmptySet, Zenon DEF Matches
<1>5. /\ \A k : k \in 1 .. i + 1 <=> k \in 1 .. i \/ k = i + 1
      /\ i + 1 \notin 1 .. i
  OBVIOUS
<1>6. v[i + 1] = x => A(i + 1) = A(i) \cup {i + 1}
  BY <1>5, Zenon
<1>7. v[i + 1] # x => A(i + 1) = A(i)
  BY <1>5, Zenon
<1>8. i + 1 \notin A(i)
  BY <1>5, Zenon
<1>9. Cardinality(A(i) \cup {i + 1}) = Cardinality(A(i)) + 1
  BY <1>1, <1>8, FS_AddElement, Zenon
<1>10. /\ Matches(v, x, i) = Cardinality(A(i))
       /\ Matches(v, x, i + 1) = Cardinality(A(i + 1))
  BY Zenon DEF Matches
<1> HIDE DEF A
<1> QED
  BY <1>2, <1>4, <1>6, <1>7, <1>9, <1>10, Zenon

(* What LREM with this count leaves.                                       *)
Kept(v, x, count, j) == v[j] # x \/ (count > 0 /\ count <= Matches(v, x, j - 1))

(* After a walk past i cells: the list and the number removed.             *)
RemState(a, l, q, count, val, i) ==
    /\ a.removed \in Nat
    /\ count > 0 => /\ Matches(Vals(l.value, q), val, i) < count =>
                         a.removed = Matches(Vals(l.value, q), val, i)
                    /\ ~(Matches(Vals(l.value, q), val, i) < count) => a.removed = count
    /\ \E r : /\ Linked(a.list, "left", r) /\ Follows(r, q) /\ Range(r) \subseteq Range(q)
              /\ \A j \in 1 .. Len(q) :
                   q[j] \in Range(r) <=> j > i \/ Kept(Vals(l.value, q), val, count, j)
              /\ \A x \in Range(r) : a.list.value[x] = l.value[x]

(* The loop's body.                                                        *)
RemBody(a, x, count, val) ==
    IF a.list.value[x] = val /\ RemoveMore(count, a.removed)
      THEN [list |-> Unlink(a.list, x), removed |-> a.removed + 1]
      ELSE a

(* Before the walk nothing is removed.                                     *)
LEMMA RemFirst ==
    ASSUME NEW l, NEW q, Linked(l, "left", q), NEW count \in Int, NEW val \in Value
    PROVE  RemState([list |-> l, removed |-> 0], l, q, count, val, 0)
<1> DEFINE a == [list |-> l, removed |-> 0]
           v == Vals(l.value, q)
<1>1. a.list = l /\ a.removed = 0 /\ 0 \in Nat
  OBVIOUS
<1>2. Matches(v, val, 0) = 0
  BY <1>1, MatchesNext, Zenon
<1>3. "left" \in Side
  BY Zenon DEF Side
<1>4. ListFacts(l, "left", q)
  BY <1>3, LinkedFacts, Zenon
<1>5. /\ q \in Seq(Node) /\ Distinct(q)
      /\ \A j \in 1 .. Len(q) : q[j] \in Range(q)
  BY <1>4, Zenon DEF ListFacts
<1>6. Follows(q, q)
  BY <1>5, Zenon DEF Follows, Distinct
<1>7. \A j \in 1 .. Len(q) : j > 0
  OBVIOUS
<1>8. count > 0 => 0 < count
  OBVIOUS
<1> HIDE DEF a, v
<1>9. a.removed \in Nat
  BY <1>1, Zenon
<1>10. count > 0 => /\ Matches(v, val, 0) < count => a.removed = Matches(v, val, 0)
                    /\ ~(Matches(v, val, 0) < count) => a.removed = count
  BY <1>1, <1>2, <1>8, Zenon
<1>11. /\ Linked(a.list, "left", q) /\ Follows(q, q) /\ Range(q) \subseteq Range(q)
       /\ \A j \in 1 .. Len(q) : q[j] \in Range(q) <=> j > 0 \/ Kept(v, val, count, j)
       /\ \A x \in Range(q) : a.list.value[x] = l.value[x]
  BY <1>1, <1>5, <1>6, <1>7, Zenon
<1>12. RemState(a, l, q, count, val, 0)
  BY <1>9, <1>10, <1>11, Zenon DEF RemState, v
<1> QED
  BY <1>12, Zenon DEF a

(* One step of the walk of kv_lrem.                                        *)
LEMMA RemNext ==
    ASSUME NEW l, NEW q, Linked(l, "left", q), NEW count \in Int, NEW val \in Value,
           NEW i \in Nat, i + 1 <= Len(q), NEW a, RemState(a, l, q, count, val, i)
    PROVE  RemState(RemBody(a, q[i + 1], count, val), l, q, count, val, i + 1)
<1> DEFINE v == Vals(l.value, q)
           M == Matches(v, val, i)
           b == RemBody(a, q[i + 1], count, val)
           cond == v[i + 1] = val /\ RemoveMore(count, a.removed)
           K(j) == Kept(v, val, count, j)
<1>1. "left" \in Side
  BY Zenon DEF Side
<1>2. ListFacts(l, "left", q) /\ l.value \in [Node -> Slot]
  BY <1>1, LinkedFacts, ItemsAre, Zenon
<1>3. /\ q \in Seq(Node) /\ Distinct(q) /\ Len(q) \in Nat
      /\ \A j \in 1 .. Len(q) : q[j] \in Range(q) /\ q[j] \in Node
  BY <1>2, Zenon DEF ListFacts
<1>4. i + 1 \in 1 .. Len(q) /\ i + 1 > i /\ (i + 1) - 1 = i
  BY <1>3
<1>5. v[i + 1] = l.value[q[i + 1]]
  BY <1>2, <1>3, <1>4, ValsSeq, Zenon
<1>6. /\ M \in Nat
      /\ v[i + 1] = val => Matches(v, val, i + 1) = M + 1
      /\ v[i + 1] # val => Matches(v, val, i + 1) = M
  BY MatchesNext, Zenon
<1>7. /\ a.removed \in Nat
      /\ count > 0 => /\ M < count => a.removed = M
                      /\ ~(M < count) => a.removed = count
  BY Zenon DEF RemState
<1>8. PICK r : /\ Linked(a.list, "left", r) /\ Follows(r, q) /\ Range(r) \subseteq Range(q)
               /\ \A j \in 1 .. Len(q) : q[j] \in Range(r) <=> j > i \/ K(j)
               /\ \A x \in Range(r) : a.list.value[x] = l.value[x]
  BY Zenon DEF RemState
<1>9. K(i + 1) <=> v[i + 1] # val \/ (count > 0 /\ count <= M)
  BY <1>4, Zenon DEF Kept
<1> HIDE DEF v, M, K
<1>10. cond <=> ~K(i + 1)
  BY <1>6, <1>7, <1>9 DEF RemoveMore
<1>11. q[i + 1] \in Range(r) /\ a.list.value[q[i + 1]] = v[i + 1]
  BY <1>4, <1>5, <1>8, Zenon
<1>12. \A j \in 1 .. Len(q) : (j > i <=> j > i + 1 \/ j = i + 1) /\ ~(i + 1 > i + 1)
  BY <1>3
<1>13. CASE cond
  <2> DEFINE m == Unlink(a.list, q[i + 1])
  <2>1. b = [list |-> m, removed |-> a.removed + 1]
    BY <1>11, <1>13, Zenon DEF RemBody
  <2>2. b.list = m /\ b.removed = a.removed + 1
    BY <2>1
  <2>3. r \in Seq(Node) /\ Distinct(r) /\ a.list \in ListStruct
    BY <1>8, Zenon DEF Linked, Thread
  <2>4. PICK p \in 1 .. Len(r) : r[p] = q[i + 1]
    BY <1>11, <2>3, InRange, Zenon
  <2>5. IsUnlinked(m, a.list, r[p])
    BY <1>3, <1>4, <2>3, <2>4, UnlinkFields, Zenon
  <2> DEFINE t == RemoveAt(r, p)
  <2>6. Linked(m, "left", t)
    BY <1>1, <1>8, <2>5, UnlinkedLinked, Zenon
  <2>7. Follows(t, q)
    BY <1>3, <1>8, <2>3, FollowsRemoved, Zenon
  <2>8. Range(t) = Range(r) \ {r[p]}
    BY <2>3, Removed, Zenon DEF IsRemove
  <2>9. m.value = [a.list.value EXCEPT ![r[p]] = Free]
    BY <2>5, Zenon DEF IsUnlinked
  <2>10. a.list.value \in [Node -> Slot]
    BY <1>8, ItemsAre, Zenon
  <2> HIDE DEF m, t, b
  <2>11. \A x \in Range(t) : m.value[x] = l.value[x]
    <3>1. Range(r) \subseteq Node
      BY <2>3, InRange, Zenon
    <3>2. \A x \in Node : x # r[p] => m.value[x] = a.list.value[x]
      BY <2>9, <2>10, Zenon
    <3> QED
      BY <1>8, <2>8, <3>1, <3>2, Zenon
  <2>12. \A j \in 1 .. Len(q) : q[j] \in Range(t) <=> j > i + 1 \/ K(j)
    <3>1. \A j \in 1 .. Len(q) : q[j] # r[p] <=> j # i + 1
      BY <1>3, <1>4, <2>4, Zenon DEF Distinct
    <3> QED
      BY <1>8, <1>10, <1>12, <1>13, <2>8, <3>1, Zenon
  <2>13. Range(t) \subseteq Range(q)
    BY <1>8, <2>8, Zenon
  <2>14. b.removed \in Nat
    BY <1>7, <2>2
  <2>15. count > 0 => /\ Matches(v, val, i + 1) < count => b.removed = Matches(v, val, i + 1)
                      /\ ~(Matches(v, val, i + 1) < count) => b.removed = count
    BY <1>6, <1>7, <1>13, <2>2 DEF RemoveMore
  <2>16. RemState(b, l, q, count, val, i + 1)
    BY <2>2, <2>6, <2>7, <2>11, <2>12, <2>13, <2>14, <2>15, Zenon DEF RemState, v, K
  <2> QED
    BY <2>16, Zenon DEF b
<1>14. CASE ~cond
  <2>1. b = a
    BY <1>11, <1>14, Zenon DEF RemBody
  <2>2. \A j \in 1 .. Len(q) : q[j] \in Range(r) <=> j > i + 1 \/ K(j)
    BY <1>8, <1>10, <1>12, <1>14, Zenon
  <2>3. count > 0 => /\ Matches(v, val, i + 1) < count => a.removed = Matches(v, val, i + 1)
                     /\ ~(Matches(v, val, i + 1) < count) => a.removed = count
    BY <1>6, <1>7, <1>14 DEF RemoveMore
  <2>4. RemState(a, l, q, count, val, i + 1)
    BY <1>7, <1>8, <2>2, <2>3, Zenon DEF RemState, v, K
  <2> QED
    BY <2>1, <2>4, Zenon
<1> QED
  BY <1>13, <1>14, Zenon

(* What the walk past all the cells leaves.                                *)
LEMMA RemLast ==
    ASSUME NEW l, NEW q, Linked(l, "left", q), NEW count \in Int, NEW val \in Value,
           NEW a, RemState(a, l, q, count, val, Len(q))
    PROVE  \E r : /\ Linked(a.list, "left", r)
                  /\ Without(Vals(a.list.value, r), Vals(l.value, q), count, val)
<1> DEFINE v == Vals(l.value, q)
           K(j) == Kept(v, val, count, j)
<1>1. PICK r : /\ Linked(a.list, "left", r) /\ Follows(r, q) /\ Range(r) \subseteq Range(q)
               /\ \A j \in 1 .. Len(q) : q[j] \in Range(r) <=> j > Len(q) \/ K(j)
               /\ \A x \in Range(r) : a.list.value[x] = l.value[x]
  BY Zenon DEF RemState
<1> DEFINE w == Vals(a.list.value, r)
           at == [j \in 1 .. Len(r) |-> CHOOSE i \in 1 .. Len(q) : q[i] = r[j]]
<1>2. r \in Seq(Node) /\ q \in Seq(Node) /\ Distinct(q)
  BY <1>1, Zenon DEF Linked, Thread
<1>3. /\ Len(q) \in Nat /\ Len(r) \in Nat
      /\ \A j \in 1 .. Len(r) : r[j] \in Range(r)
      /\ \A x \in Range(r) : \E j \in 1 .. Len(r) : x = r[j]
      /\ \A x \in Range(q) : \E j \in 1 .. Len(q) : x = q[j]
  BY <1>2, InRange, Zenon
<1>4. a.list.value \in [Node -> Slot] /\ l.value \in [Node -> Slot]
  BY <1>1, ItemsAre, Zenon
<1>5. /\ Len(w) = Len(r) /\ w \in Seq(Slot)
      /\ \A j \in 1 .. Len(r) : w[j] = a.list.value[r[j]]
  BY <1>2, <1>4, ValsSeq, Zenon
<1>6. Len(v) = Len(q) /\ \A j \in 1 .. Len(q) : v[j] = l.value[q[j]]
  BY <1>2, <1>4, ValsSeq, Zenon
<1>7. ASSUME NEW j \in 1 .. Len(r) PROVE at[j] \in 1 .. Len(q) /\ q[at[j]] = r[j]
  <2>1. \E i \in 1 .. Len(q) : q[i] = r[j]
    BY <1>1, <1>3, Zenon
  <2> QED
    BY <2>1, Zenon
<1>8. at \in [1 .. Len(r) -> 1 .. Len(q)] /\ DOMAIN at = 1 .. Len(r)
  BY <1>7, Zenon
<1> HIDE DEF at, v, w, K
<1>9. \A j, k \in 1 .. Len(r) : j < k => at[j] < at[k]
  BY <1>1, <1>7, Zenon DEF Follows
<1>10. \A j \in 1 .. Len(q) : ~(j > Len(q))
  BY <1>3
<1>11. Range(at) = {j \in 1 .. Len(q) : K(j)}
  <2>1. ASSUME NEW i \in Range(at) PROVE i \in 1 .. Len(q) /\ K(i)
    <3>1. PICK j \in 1 .. Len(r) : i = at[j]
      BY <1>8, Zenon DEF Range
    <3> QED
      BY <1>1, <1>3, <1>7, <1>10, <3>1, Zenon
  <2>2. ASSUME NEW i \in 1 .. Len(q), K(i) PROVE i \in Range(at)
    <3>1. PICK j \in 1 .. Len(r) : q[i] = r[j]
      BY <1>1, <1>3, <2>2, Zenon
    <3>2. at[j] = i
      BY <1>2, <1>7, <3>1, Zenon DEF Distinct
    <3> QED
      BY <1>8, <3>2, Zenon DEF Range
  <2> QED
    BY <2>1, <2>2, Zenon
<1>12. ASSUME NEW j \in 1 .. Len(r) PROVE w[j] = v[at[j]]
  <2>1. w[j] = a.list.value[r[j]] /\ a.list.value[r[j]] = l.value[r[j]]
    BY <1>1, <1>3, <1>5, Zenon
  <2>2. at[j] \in 1 .. Len(q) /\ q[at[j]] = r[j]
    BY <1>7, Zenon
  <2>3. v[at[j]] = l.value[q[at[j]]]
    BY <1>6, <2>2, Zenon
  <2> QED
    BY <2>1, <2>2, <2>3, Zenon
<1>13. w = [j \in 1 .. Len(r) |-> v[at[j]]]
  <2>1. w = [j \in 1 .. Len(w) |-> w[j]]
    BY <1>5
  <2> QED
    BY <1>5, <1>12, <2>1, Zenon
<1>14. \A j : K(j) <=> (v[j] # val \/ (count > 0 /\ count <= Cardinality({k \in 1 .. j - 1 : v[k] = val})))
  BY Zenon DEF K, Kept, Matches
<1>15. Without(w, v, count, val)
  <2>1. Range(at) = {j \in 1 .. Len(q) : v[j] # val \/ (count > 0 /\ count <= Cardinality({k \in 1 .. j - 1 : v[k] = val}))}
    BY <1>11, <1>14, Zenon
  <2>2. Len(w) = Len(r) /\ Len(v) = Len(q)
    BY <1>5, <1>6, Zenon
  <2> QED
    BY <1>8, <1>9, <1>13, <2>1, <2>2, Zenon DEF Without
<1> QED
  BY <1>1, <1>15, Zenon DEF v, w

(* kv_lrem removes the matches that its count asks for and leaves the rest *)
(* in order.                                                               *)
LEMMA RemItems ==
    ASSUME NEW l, NEW q, Linked(l, "left", q), NEW count \in Int, NEW val \in Value
    PROVE  LET m == dlist_rem(l, count, val)
           IN  \E r : /\ Linked(m, "left", r)
                      /\ Without(Vals(m.value, r), Vals(l.value, q), count, val)
<1> DEFINE n == Len(q)
           S == [list : ListStruct, removed : Int]
           first == [list |-> l, removed |-> 0]
           step == [p \in S \X (1 .. n) |-> RemBody(p[1], q[p[2]], count, val)]
           F(f) == [i \in 0 .. n |-> IF i = 0 THEN first ELSE RemBody(f[i - 1], q[i], count, val)]
<1>1. "left" \in Side /\ l \in ListStruct /\ q \in Seq(Node)
  BY Zenon DEF Side, Linked, Thread
<1>2. Cells(l, "left") = q
  BY <1>1, CellsAre, Zenon
<1>3. n \in Nat /\ \A i \in 1 .. n : q[i] \in Node
  BY <1>1, InRange, Zenon
<1>4. first \in S
  BY <1>1
<1>5. ASSUME NEW a \in S, NEW i \in 1 .. n PROVE RemBody(a, q[i], count, val) \in S
  <2>1. a.list \in ListStruct /\ a.removed \in Int /\ q[i] \in Node
    BY <1>3
  <2>2. Unlink(a.list, q[i]) \in ListStruct
    <3>1. IsUnlinked(Unlink(a.list, q[i]), a.list, q[i])
      BY <2>1, UnlinkFields, Zenon
    <3> QED
      BY <3>1, Zenon DEF IsUnlinked
  <2>3. [list |-> Unlink(a.list, q[i]), removed |-> a.removed + 1] \in S
    BY <2>1, <2>2
  <2> HIDE DEF S
  <2> QED
    BY <2>3, Zenon DEF RemBody
<1> HIDE DEF S, first
<1>6. step \in [S \X (1 .. n) -> S]
  BY <1>5
<1>7. \A a \in S : \A i \in 1 .. n : step[<<a, i>>] = RemBody(a, q[i], count, val)
  OBVIOUS
<1> HIDE DEF step
<1>8. PICK f \in [0 .. n -> S] :
        f[0] = first /\ \A i \in 1 .. n : f[i] = step[<<f[i - 1], i>>]
  <2> HIDE DEF n
  <2>1. IsStep(step, first, n, S)
    BY <1>3, <1>4, <1>6, Zenon DEF IsStep
  <2>2. PICK f : IsRun(f, step, first, n, S)
    BY <2>1, Recursion, Zenon
  <2> QED
    BY <2>2, Zenon DEF IsRun
<1>9. \A i \in 0 .. n : i # 0 => i \in 1 .. n /\ i - 1 \in 0 .. n
  BY <1>3
<1>10. f = F(f)
  <2>1. \A i \in 0 .. n : f[i] = IF i = 0 THEN first ELSE RemBody(f[i - 1], q[i], count, val)
    BY <1>7, <1>8, <1>9, Zenon
  <2>2. f = [i \in 0 .. n |-> f[i]]
    BY <1>8, Zenon
  <2> QED
    BY <2>1, <2>2, Zenon
<1> DEFINE after == CHOOSE g : g = F(g)
<1>11. after = F(after) /\ dlist_rem(l, count, val) = after[n].list
  BY <1>2, <1>10, Zenon DEF dlist_rem, RemBody, first
<1> HIDE DEF after
<1>12. /\ after[0] = first
       /\ \A i \in Nat : i + 1 <= n => after[i + 1] = RemBody(after[i], q[i + 1], count, val)
  <2>1. 0 \in 0 .. n
    BY <1>3
  <2>2. \A i \in Nat : i + 1 <= n => i + 1 \in 0 .. n /\ i + 1 # 0 /\ (i + 1) - 1 = i
    BY <1>3
  <2> QED
    BY <1>11, <2>1, <2>2, Zenon
<1> DEFINE T == {i \in Nat : i <= n => RemState(after[i], l, q, count, val, i)}
<1>13. 0 \in T
  <2>1. RemState(first, l, q, count, val, 0)
    BY RemFirst, Zenon DEF first
  <2> QED
    BY <1>12, <2>1
<1>14. ASSUME NEW i \in Nat, i \in T PROVE i + 1 \in T
  <2>1. i + 1 \in Nat /\ (i + 1 <= n => i <= n)
    BY <1>3
  <2>2. ASSUME i + 1 <= n PROVE RemState(after[i + 1], l, q, count, val, i + 1)
    <3>1. RemState(after[i], l, q, count, val, i)
      BY <1>14, <2>1, <2>2, Zenon
    <3>2. RemState(RemBody(after[i], q[i + 1], count, val), l, q, count, val, i + 1)
      BY <2>2, <3>1, RemNext, Zenon
    <3> QED
      BY <1>12, <2>2, <3>2, Zenon
  <2> QED
    BY <2>1, <2>2, Zenon
<1>15. n \in T
  <2> HIDE DEF T, n
  <2> QED
    BY <1>3, <1>13, <1>14, NatInduct, Zenon
<1>16. n <= n
  BY <1>3
<1>17. RemState(after[n], l, q, count, val, Len(q))
  BY <1>15, <1>16, Zenon
<1> QED
  BY <1>11, <1>17, RemLast, Zenon

-----------------------------------------------------------------------------
(* Tables: the pairs that the chains hold.                                 *)

(* The nodes of a chain.                                                   *)
Entry(X) == [key : Field, value : X]

(* The structs simple_ht_t whose fields have values in X.                  *)
TableStruct(ht, X) ==
    /\ ht.cap \in Nat \ {0} /\ ht.count \in Int
    /\ ht.buckets \in [0 .. ht.cap - 1 -> Seq(Entry(X))]
    /\ ht = [cap |-> ht.cap, count |-> ht.count, buckets |-> ht.buckets]

(* The chain that a field belongs to.                                      *)
ChainOf(ht, f) == ht.buckets[BucketOf(ht, f)]

(* Every node is in the chain of its field, and no chain has a field twice.*)
TableOK(ht, X) ==
    /\ TableStruct(ht, X)
    /\ \A b \in 0 .. ht.cap - 1 : \A i \in 1 .. Len(ht.buckets[b]) :
         /\ BucketOf(ht, ht.buckets[b][i].key) = b
         /\ \A j \in 1 .. Len(ht.buckets[b]) :
              ht.buckets[b][i].key = ht.buckets[b][j].key => i = j

(* The fields of a table with their values.                                *)
Pairs(ht, X) ==
    {p \in Field \X X : \E i \in 1 .. Len(ChainOf(ht, p[1])) :
       ChainOf(ht, p[1])[i].key = p[1] /\ ChainOf(ht, p[1])[i].value = p[2]}

(* Every field has a chain.                                                *)
LEMMA Buckets ==
    ASSUME NEW ht, NEW X, TableStruct(ht, X), NEW f \in Field
    PROVE  /\ BucketOf(ht, f) \in 0 .. ht.cap - 1
           /\ ChainOf(ht, f) \in Seq(Entry(X))
<1>1. ht_fn[f] \in Nat /\ ht.cap \in Nat \ {0}
  BY SimpleHTAssumption, Zenon DEF Field, TableStruct
<1>2. ht_fn[f] % ht.cap \in 0 .. ht.cap - 1
  BY <1>1
<1> QED
  BY <1>2, Zenon DEF BucketOf, TableStruct, ChainOf

(* The fields of the nodes on a chain.                                     *)
LEMMA EntryOf ==
    ASSUME NEW X, NEW c \in Seq(Entry(X))
    PROVE  /\ Len(c) \in Nat
           /\ \A i \in 1 .. Len(c) : /\ c[i] \in Entry(X) /\ c[i].key \in Field
                                     /\ c[i].value \in X
                                     /\ c[i] = [key |-> c[i].key, value |-> c[i].value]
<1>1. Len(c) \in Nat /\ \A i \in 1 .. Len(c) : c[i] \in Entry(X)
  BY SeqFacts, Zenon
<1>2. \A e \in Entry(X) : /\ e.key \in Field /\ e.value \in X
                          /\ e = [key |-> e.key, value |-> e.value]
  BY DEF Entry
<1> QED
  BY <1>1, <1>2, Zenon

(* ht_find_prev finds the node of a field if there is one.                 *)
LEMMA FindPrev ==
    ASSUME NEW ht, NEW X, TableStruct(ht, X), NEW f \in Field
    PROVE  /\ ht_exists(ht, f) =>
                /\ ht_find_prev(ht, f) \in 1 .. Len(ChainOf(ht, f))
                /\ ChainOf(ht, f)[ht_find_prev(ht, f)].key = f
           /\ ~ht_exists(ht, f) =>
                \A i \in 1 .. Len(ChainOf(ht, f)) : ChainOf(ht, f)[i].key # f
<1> DEFINE c == ChainOf(ht, f)
           at == {i \in 1 .. Len(c) : c[i].key = f}
           p == ht_find_prev(ht, f)
<1>1. Len(c) \in Nat
  BY Buckets, SeqFacts, Zenon
<1>2. p = IF at = {} THEN Len(c) + 1 ELSE CHOOSE i \in at : TRUE
  BY Zenon DEF ht_find_prev, ChainOf
<1>3. ht_exists(ht, f) <=> p <= Len(c)
  BY Zenon DEF ht_exists, ChainOf
<1> HIDE DEF p, c
<1>4. CASE at = {}
  <2>1. ~(p <= Len(c))
    BY <1>1, <1>2, <1>4
  <2> QED
    BY <1>3, <1>4, <2>1, Zenon DEF c
<1>5. CASE at # {}
  <2>1. p \in at
    BY <1>2, <1>5, Zenon
  <2>2. p \in 1 .. Len(c) /\ c[p].key = f
    BY <2>1, Zenon
  <2>3. p <= Len(c)
    BY <1>1, <2>2
  <2> QED
    BY <1>3, <2>2, <2>3, Zenon DEF c, p
<1> QED
  BY <1>4, <1>5, Zenon

(* What a table is known to hold of a field.                               *)
LEMMA PairOf ==
    ASSUME NEW ht, NEW X, TableOK(ht, X), NEW f \in Field
    PROVE  /\ ht_exists(ht, f) => <<f, ht_get(ht, f)>> \in Pairs(ht, X)
           /\ \A x : <<f, x>> \in Pairs(ht, X) => ht_exists(ht, f) /\ x = ht_get(ht, f)
<1> DEFINE c == ChainOf(ht, f)
           p == ht_find_prev(ht, f)
<1>1. TableStruct(ht, X)
  BY Zenon DEF TableOK
<1>2. BucketOf(ht, f) \in 0 .. ht.cap - 1 /\ c \in Seq(Entry(X))
  BY <1>1, Buckets, Zenon
<1>3. \A i, j \in 1 .. Len(c) : c[i].key = c[j].key => i = j
  BY <1>2, Zenon DEF TableOK, ChainOf
<1>4. \A i \in 1 .. Len(c) : c[i].value \in X
  BY <1>2, EntryOf, Zenon
<1>5. /\ ht_exists(ht, f) => p \in 1 .. Len(c) /\ c[p].key = f
      /\ ~ht_exists(ht, f) => \A i \in 1 .. Len(c) : c[i].key # f
  BY <1>1, FindPrev, Zenon
<1>6. ht_get(ht, f) = c[p].value
  BY Zenon DEF ht_get, ChainOf
<1>7. \A x : <<f, x>> \in Pairs(ht, X) <=>
               x \in X /\ \E i \in 1 .. Len(c) : c[i].key = f /\ c[i].value = x
  BY DEF Pairs
<1> HIDE DEF c, p
<1> QED
  BY <1>3, <1>4, <1>5, <1>6, <1>7, Zenon

(* A chain whose nodes belong to bucket b, no field twice.                 *)
ChainOK(c, ht, b, X) ==
    /\ c \in Seq(Entry(X))
    /\ \A i \in 1 .. Len(c) : /\ BucketOf(ht, c[i].key) = b
                              /\ \A j \in 1 .. Len(c) : c[i].key = c[j].key => i = j

(* The chain c has a node for g with the value x.                          *)
OnChain(c, g, x) == \E i \in 1 .. Len(c) : c[i].key = g /\ c[i].value = x

(* t is ht with another chain b and another count.                         *)
Changed(t, ht, b, c, n) ==
    t = [cap |-> ht.cap, count |-> n, buckets |-> [ht.buckets EXCEPT ![b] = c]]

(* What a table maps once one chain is changed.                            *)
LEMMA NewChain ==
    ASSUME NEW ht, NEW X, TableOK(ht, X), NEW b \in 0 .. ht.cap - 1, NEW c,
           ChainOK(c, ht, b, X), NEW n \in Int, NEW t, Changed(t, ht, b, c, n)
    PROVE  /\ TableOK(t, X) /\ t.cap = ht.cap /\ t.count = n
           /\ \A g \in Field, x \in X :
                /\ BucketOf(ht, g) = b => (<<g, x>> \in Pairs(t, X) <=> OnChain(c, g, x))
                /\ BucketOf(ht, g) # b => (<<g, x>> \in Pairs(t, X) <=> <<g, x>> \in Pairs(ht, X))
<1>1. TableStruct(ht, X)
  BY Zenon DEF TableOK
<1>2. /\ t.cap = ht.cap /\ t.count = n /\ t.buckets = [ht.buckets EXCEPT ![b] = c]
      /\ t = [cap |-> t.cap, count |-> t.count, buckets |-> t.buckets]
  BY DEF Changed
<1>3. /\ ht.cap \in Nat \ {0} /\ ht.buckets \in [0 .. ht.cap - 1 -> Seq(Entry(X))]
  BY <1>1, Zenon DEF TableStruct
<1>4. c \in Seq(Entry(X))
  BY Zenon DEF ChainOK
<1>5. /\ t.buckets \in [0 .. ht.cap - 1 -> Seq(Entry(X))]
      /\ \A a \in 0 .. ht.cap - 1 : /\ a = b => t.buckets[a] = c
                                    /\ a # b => t.buckets[a] = ht.buckets[a]
  BY <1>2, <1>3, <1>4, Zenon
<1>6. TableStruct(t, X)
  BY <1>2, <1>3, <1>5, Zenon DEF TableStruct
<1>7. \A g : BucketOf(t, g) = BucketOf(ht, g)
  BY <1>2, Zenon DEF BucketOf
<1>8. ASSUME NEW a \in 0 .. ht.cap - 1
      PROVE  \A i \in 1 .. Len(t.buckets[a]) :
               /\ BucketOf(ht, t.buckets[a][i].key) = a
               /\ \A j \in 1 .. Len(t.buckets[a]) :
                    t.buckets[a][i].key = t.buckets[a][j].key => i = j
  <2>1. CASE a = b
    BY <1>5, <2>1, Zenon DEF ChainOK
  <2>2. CASE a # b
    BY <1>5, <2>2, Zenon DEF TableOK
  <2> QED
    BY <2>1, <2>2, Zenon
<1>13. ASSUME NEW a \in 0 .. t.cap - 1, NEW i \in 1 .. Len(t.buckets[a])
       PROVE  /\ BucketOf(t, t.buckets[a][i].key) = a
              /\ \A j \in 1 .. Len(t.buckets[a]) :
                   t.buckets[a][i].key = t.buckets[a][j].key => i = j
  <2>1. a \in 0 .. ht.cap - 1
    BY <1>2, Zenon
  <2> QED
    BY <1>7, <1>8, <2>1, Zenon
<1>9. TableOK(t, X)
  BY <1>6, <1>13, Zenon DEF TableOK
<1>10. ASSUME NEW g \in Field, NEW x \in X
       PROVE  /\ <<g, x>> \in Pairs(t, X) <=> OnChain(ChainOf(t, g), g, x)
              /\ <<g, x>> \in Pairs(ht, X) <=> OnChain(ChainOf(ht, g), g, x)
  BY DEF Pairs, OnChain
<1>11. ASSUME NEW g \in Field
       PROVE  /\ BucketOf(ht, g) = b => ChainOf(t, g) = c
              /\ BucketOf(ht, g) # b => ChainOf(t, g) = ChainOf(ht, g)
  <2>1. BucketOf(ht, g) \in 0 .. ht.cap - 1
    BY <1>1, Buckets, Zenon
  <2> QED
    BY <1>5, <1>7, <2>1, Zenon DEF ChainOf
<1>12. ASSUME NEW g \in Field, NEW x \in X
       PROVE  /\ BucketOf(ht, g) = b => (<<g, x>> \in Pairs(t, X) <=> OnChain(c, g, x))
              /\ BucketOf(ht, g) # b => (<<g, x>> \in Pairs(t, X) <=> <<g, x>> \in Pairs(ht, X))
  BY <1>10, <1>11, Zenon
<1> QED
  BY <1>2, <1>9, <1>12, Zenon

(* One chain is changed at the field f only.                               *)
OnlyAt(c, ht, X, f) ==
    \A g \in Field : \A x \in X :
      g # f => (OnChain(c, g, x) <=> OnChain(ChainOf(ht, f), g, x))

(* t maps what ht maps, except for f.                                      *)
IsOneField(t, ht, X, f, c, n) ==
    /\ TableOK(t, X) /\ t.cap = ht.cap /\ t.count = n
    /\ Pairs(t, X) = {p \in Pairs(ht, X) : p[1] # f}
                       \cup {p \in {f} \X X : OnChain(c, f, p[2])}

(* A chain changed at one field changes that field of the table only.      *)
LEMMA OneField ==
    ASSUME NEW ht, NEW X, TableOK(ht, X), NEW f \in Field, NEW c,
           ChainOK(c, ht, BucketOf(ht, f), X), NEW n \in Int, NEW t,
           Changed(t, ht, BucketOf(ht, f), c, n), OnlyAt(c, ht, X, f)
    PROVE  IsOneField(t, ht, X, f, c, n)
<1> USE DEF OnlyAt, IsOneField
<1> DEFINE b == BucketOf(ht, f)
<1>1. b \in 0 .. ht.cap - 1
  BY Buckets, Zenon DEF TableOK
<1>2. /\ TableOK(t, X) /\ t.cap = ht.cap /\ t.count = n
      /\ \A g \in Field, x \in X :
           /\ BucketOf(ht, g) = b => (<<g, x>> \in Pairs(t, X) <=> OnChain(c, g, x))
           /\ BucketOf(ht, g) # b => (<<g, x>> \in Pairs(t, X) <=> <<g, x>> \in Pairs(ht, X))
  BY <1>1, NewChain, Zenon
<1>3. ASSUME NEW g \in Field, NEW x \in X
      PROVE  /\ <<g, x>> \in Pairs(ht, X) <=> OnChain(ChainOf(ht, g), g, x)
             /\ BucketOf(ht, g) = b => ChainOf(ht, g) = ChainOf(ht, f)
  BY DEF Pairs, OnChain, ChainOf
<1>4. ASSUME NEW g \in Field, NEW x \in X
      PROVE  /\ g = f => (<<g, x>> \in Pairs(t, X) <=> OnChain(c, f, x))
             /\ g # f => (<<g, x>> \in Pairs(t, X) <=> <<g, x>> \in Pairs(ht, X))
  BY <1>2, <1>3, Zenon
<1>5. /\ Pairs(t, X) \subseteq Field \X X /\ Pairs(ht, X) \subseteq Field \X X
  BY Zenon DEF Pairs
<1>6. ASSUME NEW p
      PROVE  p \in Pairs(t, X) <=> \/ p \in Pairs(ht, X) /\ p[1] # f
                                   \/ p \in {f} \X X /\ OnChain(c, f, p[2])
  <2>1. CASE p \in Field \X X
    <3>1. PICK g \in Field, x \in X : p = <<g, x>>
      BY <2>1
    <3>2. p[1] = g /\ p[2] = x
      BY <3>1
    <3>3. p \in {f} \X X <=> g = f
      BY <3>1
    <3> QED
      BY <1>4, <3>1, <3>2, <3>3, Zenon
  <2>2. CASE p \notin Field \X X
    <3>1. p \notin {f} \X X
      BY <2>2
    <3> QED
      BY <1>5, <2>2, <3>1, Zenon
  <2> QED
    BY <2>1, <2>2, Zenon
<1>7. Pairs(t, X) = {p \in Pairs(ht, X) : p[1] # f} \cup {p \in {f} \X X : OnChain(c, f, p[2])}
  BY <1>6, Zenon
<1> QED
  BY <1>2, <1>7, Zenon

(* t is ht with f at x.                                                    *)
Stored(t, ht, X, f, x) ==
    /\ TableOK(t, X) /\ t.cap = ht.cap
    /\ Pairs(t, X) = {p \in Pairs(ht, X) : p[1] # f} \cup {<<f, x>>}

(* t is ht without f.                                                      *)
Cleared(t, ht, X, f) ==
    /\ TableOK(t, X) /\ t.cap = ht.cap
    /\ Pairs(t, X) = {p \in Pairs(ht, X) : p[1] # f}

(* A change of chain and count in one.                                     *)
LEMMA TwoFields ==
    ASSUME NEW ht, NEW X, TableStruct(ht, X), NEW b \in 0 .. ht.cap - 1, NEW c, NEW n
    PROVE  [ht EXCEPT !.buckets[b] = c, !.count = n] =
             [cap |-> ht.cap, count |-> n, buckets |-> [ht.buckets EXCEPT ![b] = c]]
<1>1. ht = [cap |-> ht.cap, count |-> ht.count, buckets |-> ht.buckets]
  BY Zenon DEF TableStruct
<1>2. [ht EXCEPT !.buckets[b] = c] =
        [cap |-> ht.cap, count |-> ht.count, buckets |-> [ht.buckets EXCEPT ![b] = c]]
  BY <1>1
<1>3. [ht EXCEPT !.buckets[b] = c, !.count = n] = [[ht EXCEPT !.buckets[b] = c] EXCEPT !.count = n]
  BY <1>1
<1> DEFINE g == [ht.buckets EXCEPT ![b] = c]
<1> HIDE DEF g
<1>4. [[cap |-> ht.cap, count |-> ht.count, buckets |-> g] EXCEPT !.count = n] =
        [cap |-> ht.cap, count |-> n, buckets |-> g]
  OBVIOUS
<1> QED
  BY <1>2, <1>3, <1>4, Zenon DEF g

(* A field that is new goes to the end of its chain.                       *)
LEMMA PutNew ==
    ASSUME NEW ht, NEW X, TableOK(ht, X), NEW f \in Field, NEW x \in X,
           ~ht_exists(ht, f), NEW replace
    PROVE  /\ Stored(Put(ht, f, x, replace), ht, X, f, x)
           /\ Put(ht, f, x, replace).count = ht.count + 1
<1> DEFINE b == BucketOf(ht, f)
           c == ChainOf(ht, f)
           e == [key |-> f, value |-> x]
           d == Append(c, e)
           t == Put(ht, f, x, replace)
<1>1. TableStruct(ht, X)
  BY Zenon DEF TableOK
<1>2. b \in 0 .. ht.cap - 1 /\ c \in Seq(Entry(X))
  BY <1>1, Buckets, Zenon
<1>3. \A i \in 1 .. Len(c) : c[i].key # f
  BY <1>1, FindPrev, Zenon
<1>4. \A i \in 1 .. Len(c) : /\ BucketOf(ht, c[i].key) = b
                             /\ \A j \in 1 .. Len(c) : c[i].key = c[j].key => i = j
  BY <1>2, Zenon DEF TableOK, ChainOf
<1>5. e \in Entry(X) /\ e.key = f /\ e.value = x
  BY DEF Entry
<1>6. Changed(t, ht, b, d, ht.count + 1)
  <2>1. t = [ht EXCEPT !.buckets[b] = Append(@, e), !.count = @ + 1]
    BY Zenon DEF Put
  <2> HIDE DEF e, t, b
  <2>3. [ht EXCEPT !.buckets[b] = Append(@, e), !.count = @ + 1] =
          [cap |-> ht.cap, count |-> ht.count + 1,
           buckets |-> [ht.buckets EXCEPT ![b] = Append(ht.buckets[b], e)]]
    BY <1>1, <1>2, TwoFields, Zenon
  <2> QED
    BY <2>1, <2>3, Zenon DEF Changed, ChainOf, b
<1> HIDE DEF e, c, t
<1>7. /\ d \in Seq(Entry(X)) /\ Len(d) = Len(c) + 1 /\ d[Len(c) + 1] = e
      /\ \A i \in 1 .. Len(c) : d[i] = c[i]
      /\ Len(c) \in Nat
  BY <1>2, <1>5
<1> HIDE DEF d
<1>8. \A i \in 1 .. Len(d) : i \in 1 .. Len(c) \/ i = Len(c) + 1
  BY <1>7
<1>9. \A i \in 1 .. Len(c) : i \in 1 .. Len(d)
  BY <1>7
<1>10. Len(c) + 1 \in 1 .. Len(d)
  BY <1>7
<1>11. ChainOK(d, ht, b, X)
  <2>1. ASSUME NEW i \in 1 .. Len(d) PROVE BucketOf(ht, d[i].key) = b
    BY <1>4, <1>5, <1>7, <1>8, Zenon
  <2>2. ASSUME NEW i \in 1 .. Len(d), NEW j \in 1 .. Len(d), d[i].key = d[j].key
        PROVE  i = j
    BY <1>3, <1>4, <1>5, <1>7, <1>8, <2>2, Zenon
  <2> QED
    BY <1>7, <2>1, <2>2, Zenon DEF ChainOK
<1>12. ASSUME NEW g \in Field, NEW y \in X, g # f
       PROVE  OnChain(d, g, y) <=> OnChain(c, g, y)
  BY <1>5, <1>7, <1>8, <1>9, <1>12, Zenon DEF OnChain
<1>13. \A y \in X : OnChain(d, f, y) <=> y = x
  BY <1>3, <1>5, <1>7, <1>8, <1>10, Zenon DEF OnChain
<1>14. ht.count + 1 \in Int
  BY <1>1 DEF TableStruct
<1>15. IsOneField(t, ht, X, f, d, ht.count + 1)
  <2>1. OnlyAt(d, ht, X, f)
    BY <1>12, Zenon DEF OnlyAt, c
  <2> QED
    BY <1>6, <1>11, <1>14, <2>1, OneField, Zenon
<1>16. {p \in {f} \X X : OnChain(d, f, p[2])} = {<<f, x>>}
  <2>1. ASSUME NEW p \in {f} \X X, OnChain(d, f, p[2]) PROVE p = <<f, x>>
    <3>1. p = <<f, p[2]>> /\ p[2] \in X
      OBVIOUS
    <3> QED
      BY <1>13, <2>1, <3>1, Zenon
  <2>2. <<f, x>> \in {f} \X X /\ <<f, x>>[2] = x
    OBVIOUS
  <2> QED
    BY <1>13, <2>1, <2>2, Zenon
<1> QED
  BY <1>15, <1>16, Zenon DEF Stored, IsOneField, t

(* A field that is there gets another value.                               *)
LEMMA PutOld ==
    ASSUME NEW ht, NEW X, TableOK(ht, X), NEW f \in Field, NEW x \in X,
           ht_exists(ht, f)
    PROVE  /\ Stored(Put(ht, f, x, TRUE), ht, X, f, x)
           /\ Put(ht, f, x, TRUE).count = ht.count
<1> DEFINE b == BucketOf(ht, f)
           c == ChainOf(ht, f)
           k == ht_find_prev(ht, f)
           d == [c EXCEPT ![k].value = x]
           t == Put(ht, f, x, TRUE)
<1>1. TableStruct(ht, X)
  BY Zenon DEF TableOK
<1>2. b \in 0 .. ht.cap - 1 /\ c \in Seq(Entry(X))
  BY <1>1, Buckets, Zenon
<1>3. k \in 1 .. Len(c) /\ c[k].key = f
  BY <1>1, FindPrev, Zenon
<1>4. \A i \in 1 .. Len(c) : /\ BucketOf(ht, c[i].key) = b
                             /\ \A j \in 1 .. Len(c) : c[i].key = c[j].key => i = j
  BY <1>2, Zenon DEF TableOK, ChainOf
<1>5. Changed(t, ht, b, d, ht.count)
  <2>1. t = [ht EXCEPT !.buckets[b][k].value = x]
    BY Zenon DEF Put
  <2>2. ht = [cap |-> ht.cap, count |-> ht.count, buckets |-> ht.buckets]
    BY <1>1, Zenon DEF TableStruct
  <2> HIDE DEF t, b, k
  <2>3. [ht EXCEPT !.buckets[b][k].value = x] =
          [cap |-> ht.cap, count |-> ht.count,
           buckets |-> [ht.buckets EXCEPT ![b] = [ht.buckets[b] EXCEPT ![k].value = x]]]
    BY <2>2
  <2> QED
    BY <2>1, <2>3, Zenon DEF Changed, ChainOf, b
<1> HIDE DEF c, t, k
<1>6. \A i \in 1 .. Len(c) : c[i] \in Entry(X)
  BY <1>2, EntryOf, Zenon
<1>7. /\ d \in Seq(Entry(X)) /\ Len(d) = Len(c)
      /\ d[k].key = f /\ d[k].value = x
      /\ \A i \in 1 .. Len(c) : i # k => d[i] = c[i]
  BY <1>2, <1>3, <1>6 DEF Entry
<1> HIDE DEF d
<1>8. \A i \in 1 .. Len(c) : d[i].key = c[i].key
  BY <1>3, <1>7, Zenon
<1>9. ChainOK(d, ht, b, X)
  BY <1>4, <1>7, <1>8, Zenon DEF ChainOK
<1>10. ASSUME NEW g \in Field, NEW y \in X, g # f
       PROVE  OnChain(d, g, y) <=> OnChain(c, g, y)
  BY <1>3, <1>7, <1>8, <1>10, Zenon DEF OnChain
<1>11. \A y \in X : OnChain(d, f, y) <=> y = x
  BY <1>3, <1>4, <1>7, <1>8, Zenon DEF OnChain
<1>12. ht.count \in Int
  BY <1>1, Zenon DEF TableStruct
<1>13. IsOneField(t, ht, X, f, d, ht.count)
  <2>1. OnlyAt(d, ht, X, f)
    BY <1>10, Zenon DEF OnlyAt, c
  <2> QED
    BY <1>5, <1>9, <1>12, <2>1, OneField, Zenon
<1>14. {p \in {f} \X X : OnChain(d, f, p[2])} = {<<f, x>>}
  <2>1. ASSUME NEW p \in {f} \X X, OnChain(d, f, p[2]) PROVE p = <<f, x>>
    <3>1. p = <<f, p[2]>> /\ p[2] \in X
      OBVIOUS
    <3> QED
      BY <1>11, <2>1, <3>1, Zenon
  <2>2. <<f, x>> \in {f} \X X /\ <<f, x>>[2] = x
    OBVIOUS
  <2> QED
    BY <1>11, <2>1, <2>2, Zenon
<1> QED
  BY <1>13, <1>14, Zenon DEF Stored, IsOneField, t

(* A field that is removed leaves its chain.                               *)
LEMMA RemoveOld ==
    ASSUME NEW ht, NEW X, TableOK(ht, X), NEW f \in Field, ht_exists(ht, f)
    PROVE  /\ Cleared(ht_remove(ht, f), ht, X, f)
           /\ ht_remove(ht, f).count = ht.count - 1
<1> DEFINE b == BucketOf(ht, f)
           c == ChainOf(ht, f)
           k == ht_find_prev(ht, f)
           d == RemoveAt(c, k)
           t == ht_remove(ht, f)
<1>1. TableStruct(ht, X)
  BY Zenon DEF TableOK
<1>2. b \in 0 .. ht.cap - 1 /\ c \in Seq(Entry(X))
  BY <1>1, Buckets, Zenon
<1>3. k \in 1 .. Len(c) /\ c[k].key = f
  BY <1>1, FindPrev, Zenon
<1>4. \A i \in 1 .. Len(c) : /\ BucketOf(ht, c[i].key) = b
                             /\ \A j \in 1 .. Len(c) : c[i].key = c[j].key => i = j
  BY <1>2, Zenon DEF TableOK, ChainOf
<1>5. Changed(t, ht, b, d, ht.count - 1)
  <2>1. t = [ht EXCEPT !.buckets[b] = SubSeq(@, 1, k - 1) \o SubSeq(@, k + 1, Len(@)),
                       !.count = @ - 1]
    BY Zenon DEF ht_remove
  <2> HIDE DEF t, b, k
  <2>3. [ht EXCEPT !.buckets[b] = SubSeq(@, 1, k - 1) \o SubSeq(@, k + 1, Len(@)),
                   !.count = @ - 1] =
          [cap |-> ht.cap, count |-> ht.count - 1,
           buckets |-> [ht.buckets EXCEPT ![b] = SubSeq(ht.buckets[b], 1, k - 1)
                                       \o SubSeq(ht.buckets[b], k + 1, Len(ht.buckets[b]))]]
    BY <1>1, <1>2, TwoFields, Zenon
  <2> QED
    BY <2>1, <2>3, Zenon DEF Changed, ChainOf, RemoveAt, b
<1> HIDE DEF c, t, k
<1>6. d \in Seq(Entry(X)) /\ Len(d) = Len(c) - 1
      /\ \A j \in 1 .. Len(c) - 1 : /\ j < k => d[j] = c[j]
                                    /\ j >= k => d[j] = c[j + 1]
  BY <1>2, <1>3, RemovedPlaces, Zenon
<1>7. CameFrom(d, c, k)
  BY <1>2, <1>3, RemovedFrom, Zenon
<1>8. Len(c) \in Nat /\ Len(d) = Len(c) - 1
  BY <1>2, <1>6, EntryOf, Zenon
<1> HIDE DEF d
<1>9. ASSUME NEW i \in 1 .. Len(c), i # k PROVE \E j \in 1 .. Len(d) : c[i] = d[j]
  <2>1. CASE i < k
    <3>1. i \in 1 .. Len(d) /\ i \in 1 .. Len(c) - 1
      BY <1>3, <1>8, <2>1
    <3> QED
      BY <1>6, <2>1, <3>1, Zenon
  <2>2. CASE ~(i < k)
    <3>1. i - 1 \in 1 .. Len(d) /\ i - 1 \in 1 .. Len(c) - 1 /\ i - 1 >= k /\ (i - 1) + 1 = i
      BY <1>3, <1>8, <1>9, <2>2
    <3>2. d[i - 1] = c[(i - 1) + 1]
      BY <1>6, <3>1, Zenon
    <3> QED
      BY <3>1, <3>2, Zenon
  <2> QED
    BY <2>1, <2>2, Zenon
<1>10. ASSUME NEW i \in 1 .. Len(d) PROVE BucketOf(ht, d[i].key) = b /\ d[i].key # f
  <2>1. PICK j \in 1 .. Len(c) : d[i] = c[j] /\ j # k
    BY <1>7, Zenon DEF CameFrom
  <2> QED
    BY <1>3, <1>4, <2>1, Zenon
<1>11. ASSUME NEW i \in 1 .. Len(d), NEW j \in 1 .. Len(d), d[i].key = d[j].key
       PROVE  i = j
  <2>1. PICK g \in 1 .. Len(c) : d[i] = c[g] /\ (i < k => g = i) /\ (~(i < k) => g = i + 1)
    BY <1>7, Zenon DEF CameFrom
  <2>2. PICK h \in 1 .. Len(c) : d[j] = c[h] /\ (j < k => h = j) /\ (~(j < k) => h = j + 1)
    BY <1>7, Zenon DEF CameFrom
  <2>3. g = h
    BY <1>4, <1>11, <2>1, <2>2, Zenon
  <2>4. k \in Int
    BY <1>3, <1>8
  <2> QED
    BY <1>8, <2>1, <2>2, <2>3, <2>4
<1>12. ChainOK(d, ht, b, X)
  BY <1>6, <1>10, <1>11, Zenon DEF ChainOK
<1>13. ASSUME NEW g \in Field, NEW y \in X, g # f
       PROVE  OnChain(d, g, y) <=> OnChain(c, g, y)
  <2>1. ASSUME OnChain(d, g, y) PROVE OnChain(c, g, y)
    BY <1>7, <2>1, Zenon DEF OnChain, CameFrom
  <2>2. ASSUME OnChain(c, g, y) PROVE OnChain(d, g, y)
    <3>1. PICK i \in 1 .. Len(c) : c[i].key = g /\ c[i].value = y
      BY <2>2, Zenon DEF OnChain
    <3>2. i # k
      BY <1>3, <1>13, <3>1, Zenon
    <3> QED
      BY <1>9, <3>1, <3>2, Zenon DEF OnChain
  <2> QED
    BY <2>1, <2>2, Zenon
<1>14. ht.count - 1 \in Int
  BY <1>1 DEF TableStruct
<1>15. IsOneField(t, ht, X, f, d, ht.count - 1)
  <2>1. OnlyAt(d, ht, X, f)
    BY <1>13, Zenon DEF OnlyAt, c
  <2> QED
    BY <1>5, <1>12, <1>14, <2>1, OneField, Zenon
<1>16. {p \in {f} \X X : OnChain(d, f, p[2])} = {}
  BY <1>10, Zenon DEF OnChain
<1> QED
  BY <1>15, <1>16, Zenon DEF Cleared, IsOneField, t

-----------------------------------------------------------------------------
(* One field of a table changes; the nodes of a table.                     *)

(* w is s, then c.                                                         *)
IsConcat(w, s, c, S) ==
    /\ w \in Seq(S) /\ Len(w) = Len(s) + Len(c)
    /\ \A i \in 1 .. Len(s) : w[i] = s[i]
    /\ \A i \in 1 .. Len(c) : w[Len(s) + i] = c[i]

(* The places of a concatenation.                                          *)
LEMMA ConcatPlaces ==
    ASSUME NEW S, NEW s \in Seq(S), NEW c \in Seq(S)
    PROVE  IsConcat(s \o c, s, c, S)
<1>1. Len(s) \in Nat /\ Len(c) \in Nat
  BY SeqFacts, Zenon
<1>2. s \o c \in Seq(S) /\ Len(s \o c) = Len(s) + Len(c)
  OBVIOUS
<1>3. ASSUME NEW i \in 1 .. Len(s) PROVE (s \o c)[i] = s[i]
  OBVIOUS
<1>4. ASSUME NEW i \in 1 .. Len(c) PROVE (s \o c)[Len(s) + i] = c[i]
  OBVIOUS
<1> QED
  BY <1>2, <1>3, <1>4, Zenon DEF IsConcat

(* s lists every node of the buckets below b,                              *)
AllOf(s, ht, b) ==
    \A g \in 0 .. b - 1 : \A i \in 1 .. Len(ht.buckets[g]) :
      \E j \in 1 .. Len(s) : s[j] = ht.buckets[g][i]

(* no other node,                                                          *)
OnlyOf(s, ht, b) ==
    \A j \in 1 .. Len(s) : \E g \in 0 .. b - 1 : \E i \in 1 .. Len(ht.buckets[g]) :
      s[j] = ht.buckets[g][i]

(* and no field twice.                                                     *)
OneEach(s) == \A i, j \in 1 .. Len(s) : s[i].key = s[j].key => i = j

(* s lists the nodes of the buckets below b, once each.                    *)
NodesBelow(s, ht, X, b) ==
    s \in Seq(Entry(X)) /\ AllOf(s, ht, b) /\ OnlyOf(s, ht, b) /\ OneEach(s)

(* One bucket more.                                                        *)
LEMMA NodesNext ==
    ASSUME NEW ht, NEW X, TableOK(ht, X), NEW b \in 0 .. ht.cap - 1, NEW s,
           NodesBelow(s, ht, X, b)
    PROVE  NodesBelow(s \o ht.buckets[b], ht, X, b + 1)
<1> DEFINE c == ht.buckets[b]
           w == s \o c
<1>1. ht.cap \in Nat \ {0} /\ c \in Seq(Entry(X)) /\ s \in Seq(Entry(X))
  BY Zenon DEF TableOK, TableStruct, NodesBelow
<1>2. \A i \in 1 .. Len(c) : /\ BucketOf(ht, c[i].key) = b
                             /\ \A j \in 1 .. Len(c) : c[i].key = c[j].key => i = j
  BY Zenon DEF TableOK
<1> HIDE DEF c
<1>3. /\ w \in Seq(Entry(X)) /\ Len(w) = Len(s) + Len(c)
      /\ \A i \in 1 .. Len(s) : w[i] = s[i]
      /\ \A i \in 1 .. Len(c) : w[Len(s) + i] = c[i]
  <2>1. IsConcat(s \o c, s, c, Entry(X))
    BY <1>1, ConcatPlaces, Zenon
  <2> QED
    BY <2>1, Zenon DEF IsConcat
<1>4. Len(s) \in Nat /\ Len(c) \in Nat /\ b \in Nat /\ b < ht.cap
  BY <1>1, EntryOf
<1> HIDE DEF w
<1>5. Len(w) = Len(s) + Len(c)
  BY <1>3, Zenon
<1>6. \A i \in 1 .. Len(s) : i \in 1 .. Len(w)
  BY <1>4, <1>5
<1>7. \A i \in 1 .. Len(c) : Len(s) + i \in 1 .. Len(w)
  BY <1>4, <1>5
<1>8. \A i \in 1 .. Len(w) :
        i \in 1 .. Len(s) \/ (i - Len(s) \in 1 .. Len(c) /\ Len(s) + (i - Len(s)) = i)
  BY <1>4, <1>5
<1>9. \A g \in 0 .. (b + 1) - 1 : g \in 0 .. b - 1 \/ g = b
  BY <1>4
<1>20. ht.cap \in Nat
  BY <1>1
<1>10. b \in 0 .. (b + 1) - 1 /\ \A g \in 0 .. b - 1 : g \in 0 .. (b + 1) - 1 /\ g # b
                                                  /\ g \in 0 .. ht.cap - 1
  BY <1>4, <1>20
<1>11. AllOf(w, ht, b + 1)
  <2>1. SUFFICES ASSUME NEW g \in 0 .. (b + 1) - 1, NEW i \in 1 .. Len(ht.buckets[g])
                 PROVE  \E j \in 1 .. Len(w) : w[j] = ht.buckets[g][i]
    BY Zenon DEF AllOf
  <2>2. CASE g = b
    BY <1>3, <1>7, <2>2, Zenon DEF c
  <2>3. CASE g \in 0 .. b - 1
    <3>1. PICK j \in 1 .. Len(s) : s[j] = ht.buckets[g][i]
      BY <2>3, Zenon DEF NodesBelow, AllOf
    <3> QED
      BY <1>3, <1>6, <3>1, Zenon
  <2> QED
    BY <1>9, <2>2, <2>3, Zenon
<1>12. ASSUME NEW j \in 1 .. Len(s)
       PROVE  \E g \in 0 .. b - 1 : \E i \in 1 .. Len(ht.buckets[g]) : s[j] = ht.buckets[g][i]
  BY Zenon DEF NodesBelow, OnlyOf
<1>13. OnlyOf(w, ht, b + 1)
  <2>1. SUFFICES ASSUME NEW j \in 1 .. Len(w)
                 PROVE  \E g \in 0 .. (b + 1) - 1 : \E i \in 1 .. Len(ht.buckets[g]) :
                          w[j] = ht.buckets[g][i]
    BY Zenon DEF OnlyOf
  <2>2. CASE j \in 1 .. Len(s)
    <3>1. w[j] = s[j]
      BY <1>3, <2>2, Zenon
    <3> QED
      BY <1>10, <1>12, <2>2, <3>1, Zenon
  <2>3. CASE j - Len(s) \in 1 .. Len(c) /\ Len(s) + (j - Len(s)) = j
    <3>1. w[j] = c[j - Len(s)]
      BY <1>3, <2>3, Zenon
    <3> QED
      BY <1>10, <2>3, <3>1, Zenon DEF c
  <2> QED
    BY <1>8, <2>2, <2>3, Zenon
<1>14. ASSUME NEW j \in 1 .. Len(s) PROVE BucketOf(ht, s[j].key) # b
  <2>1. PICK g \in 0 .. b - 1 : \E i \in 1 .. Len(ht.buckets[g]) : s[j] = ht.buckets[g][i]
    BY <1>12, Zenon
  <2>2. g \in 0 .. ht.cap - 1 /\ g # b
    BY <1>10, Zenon
  <2>3. \A i \in 1 .. Len(ht.buckets[g]) : BucketOf(ht, ht.buckets[g][i].key) = g
    BY <2>2, Zenon DEF TableOK
  <2> QED
    BY <2>1, <2>2, <2>3, Zenon
<1>15. OneEach(w)
  <2>1. SUFFICES ASSUME NEW i \in 1 .. Len(w), NEW j \in 1 .. Len(w), w[i].key = w[j].key
                 PROVE  i = j
    BY Zenon DEF OneEach
  <2>2. ASSUME NEW k \in 1 .. Len(w)
        PROVE  \/ k \in 1 .. Len(s) /\ w[k] = s[k]
               \/ k - Len(s) \in 1 .. Len(c) /\ w[k] = c[k - Len(s)]
    BY <1>3, <1>8, Zenon
  <2>3. CASE i \in 1 .. Len(s) /\ w[i] = s[i] /\ j \in 1 .. Len(s) /\ w[j] = s[j]
    BY <2>1, <2>3, Zenon DEF NodesBelow, OneEach
  <2>4. CASE /\ i - Len(s) \in 1 .. Len(c) /\ w[i] = c[i - Len(s)]
             /\ j - Len(s) \in 1 .. Len(c) /\ w[j] = c[j - Len(s)]
    <3>1. i - Len(s) = j - Len(s)
      BY <1>2, <2>1, <2>4, Zenon
    <3> QED
      BY <1>4, <3>1
  <2>5. CASE i \in 1 .. Len(s) /\ w[i] = s[i] /\ j - Len(s) \in 1 .. Len(c) /\ w[j] = c[j - Len(s)]
    BY <1>2, <1>14, <2>1, <2>5, Zenon
  <2>6. CASE j \in 1 .. Len(s) /\ w[j] = s[j] /\ i - Len(s) \in 1 .. Len(c) /\ w[i] = c[i - Len(s)]
    BY <1>2, <1>14, <2>1, <2>6, Zenon
  <2> QED
    BY <2>2, <2>3, <2>4, <2>5, <2>6, Zenon
<1> QED
  BY <1>3, <1>11, <1>13, <1>15, Zenon DEF NodesBelow, w, c

(* The nodes of a table are listed once each.                              *)
LEMMA NodesAre ==
    ASSUME NEW ht, NEW X, TableOK(ht, X)
    PROVE  NodesBelow(Nodes(ht), ht, X, ht.cap)
<1> DEFINE n == ht.cap
           S == Seq(Entry(X))
           first == <<>>
           step == [a \in S \X (1 .. n) |-> a[1] \o ht.buckets[a[2] - 1]]
           F(f) == [i \in 0 .. n |-> IF i = 0 THEN <<>> ELSE f[i - 1] \o ht.buckets[i - 1]]
<1>1. n \in Nat \ {0} /\ \A b \in 0 .. n - 1 : ht.buckets[b] \in S
  BY Zenon DEF TableOK, TableStruct
<1>2. first \in S
  OBVIOUS
<1>3. \A i \in 1 .. n : i - 1 \in 0 .. n - 1
  BY <1>1
<1>4. \A s \in S : \A i \in 1 .. n : s \o ht.buckets[i - 1] \in S
  <2>1. ASSUME NEW s \in Seq(Entry(X)), NEW c \in Seq(Entry(X)) PROVE s \o c \in Seq(Entry(X))
    BY Concat, Zenon
  <2> QED
    BY <1>1, <1>3, <2>1, Zenon
<1> HIDE DEF S, n
<1>5. step \in [S \X (1 .. n) -> S]
  BY <1>4
<1>6. \A a \in S : \A i \in 1 .. n : step[<<a, i>>] = a \o ht.buckets[i - 1]
  OBVIOUS
<1> HIDE DEF step
<1>7. PICK f : IsRun(f, step, first, n, S)
  <2>1. IsStep(step, first, n, S)
    BY <1>1, <1>2, <1>5, Zenon DEF IsStep
  <2> QED
    BY <2>1, Recursion, Zenon
<1>8. f \in [0 .. n -> S] /\ f[0] = first /\ \A i \in 1 .. n : f[i] = step[<<f[i - 1], i>>]
  BY <1>7, Zenon DEF IsRun
<1>9. \A i \in 0 .. n : i # 0 => i \in 1 .. n /\ i - 1 \in 0 .. n
  BY <1>1
<1>10. f = F(f)
  <2>1. \A i \in 0 .. n : f[i] = IF i = 0 THEN <<>> ELSE f[i - 1] \o ht.buckets[i - 1]
    BY <1>6, <1>8, <1>9, Zenon
  <2>2. f = [i \in 0 .. n |-> f[i]]
    BY <1>8, Zenon
  <2> QED
    BY <2>1, <2>2, Zenon
<1> DEFINE upTo == CHOOSE g : g = F(g)
<1>11. upTo = F(upTo) /\ Nodes(ht) = upTo[n]
  BY <1>10, Zenon DEF Nodes, n
<1> HIDE DEF upTo
<1>12. /\ upTo[0] = <<>>
       /\ \A i \in Nat : i + 1 <= n => upTo[i + 1] = upTo[i] \o ht.buckets[i]
  <2>1. 0 \in 0 .. n
    BY <1>1
  <2>2. \A i \in Nat : i + 1 <= n => i + 1 \in 0 .. n /\ i + 1 # 0 /\ (i + 1) - 1 = i
    BY <1>1
  <2> QED
    BY <1>11, <2>1, <2>2, Zenon
<1> DEFINE T == {i \in Nat : i <= n => NodesBelow(upTo[i], ht, X, i)}
<1>13. 0 \in T
  <2>1. /\ <<>> \in Seq(Entry(X)) /\ 1 .. Len(<<>>) = {} /\ 0 .. 0 - 1 = {}
    OBVIOUS
  <2>2. NodesBelow(<<>>, ht, X, 0)
    BY <2>1, Zenon DEF NodesBelow, AllOf, OnlyOf, OneEach
  <2>3. 0 \in Nat
    OBVIOUS
  <2> QED
    BY <1>12, <2>2, <2>3, Zenon
<1>14. ASSUME NEW i \in Nat, i \in T PROVE i + 1 \in T
  <2>1. i + 1 \in Nat /\ (i + 1 <= n => i <= n /\ i \in 0 .. n - 1)
    BY <1>1
  <2>2. ASSUME i + 1 <= n PROVE NodesBelow(upTo[i + 1], ht, X, i + 1)
    <3>1. NodesBelow(upTo[i], ht, X, i)
      BY <1>14, <2>1, <2>2, Zenon
    <3>2. i \in 0 .. ht.cap - 1
      BY <2>1, <2>2, Zenon DEF n
    <3>3. NodesBelow(upTo[i] \o ht.buckets[i], ht, X, i + 1)
      BY <3>1, <3>2, NodesNext, Zenon
    <3> QED
      BY <1>12, <2>2, <3>3, Zenon
  <2> QED
    BY <2>1, <2>2, Zenon
<1> HIDE DEF T
<1>15. n \in T
  BY <1>1, <1>13, <1>14, NatInduct, Zenon
<1>16. n <= n
  BY <1>1
<1> QED
  BY <1>11, <1>15, <1>16, Zenon DEF T, n

(* q lists the pairs of a table.                                           *)
ListsPairs(q, ht, X) ==
    /\ \A i \in 1 .. Len(q) : <<q[i].key, q[i].value>> \in Pairs(ht, X)
    /\ \A p \in Pairs(ht, X) : \E i \in 1 .. Len(q) : p = <<q[i].key, q[i].value>>

(* The nodes of a table are its pairs.                                     *)
LEMMA NodePairs ==
    ASSUME NEW ht, NEW X, TableOK(ht, X), NEW q, NodesBelow(q, ht, X, ht.cap)
    PROVE  ListsPairs(q, ht, X)
<1>1. TableStruct(ht, X) /\ q \in Seq(Entry(X))
  BY Zenon DEF TableOK, NodesBelow
<1>2. ASSUME NEW i \in 1 .. Len(q) PROVE <<q[i].key, q[i].value>> \in Pairs(ht, X)
  <2>1. PICK b \in 0 .. ht.cap - 1 : \E j \in 1 .. Len(ht.buckets[b]) : q[i] = ht.buckets[b][j]
    BY Zenon DEF NodesBelow, OnlyOf
  <2>2. PICK j \in 1 .. Len(ht.buckets[b]) : q[i] = ht.buckets[b][j]
    BY <2>1, Zenon
  <2>3. BucketOf(ht, q[i].key) = b
    BY <2>2, Zenon DEF TableOK
  <2>4. \E k \in 1 .. Len(ChainOf(ht, q[i].key)) :
          /\ ChainOf(ht, q[i].key)[k].key = q[i].key
          /\ ChainOf(ht, q[i].key)[k].value = q[i].value
    BY <2>2, <2>3, Zenon DEF ChainOf
  <2>5. q[i].key \in Field /\ q[i].value \in X
    BY <1>1, EntryOf, Zenon
  <2> HIDE DEF ChainOf
  <2> QED
    BY <2>4, <2>5 DEF Pairs
<1>3. ASSUME NEW p \in Pairs(ht, X) PROVE \E i \in 1 .. Len(q) : p = <<q[i].key, q[i].value>>
  <2>1. p[1] \in Field /\ p = <<p[1], p[2]>>
    BY DEF Pairs
  <2>2. PICK k \in 1 .. Len(ChainOf(ht, p[1])) :
          ChainOf(ht, p[1])[k].key = p[1] /\ ChainOf(ht, p[1])[k].value = p[2]
    BY Zenon DEF Pairs
  <2>3. BucketOf(ht, p[1]) \in 0 .. ht.cap - 1
    BY <1>1, <2>1, Buckets, Zenon
  <2>4. PICK i \in 1 .. Len(q) : q[i] = ChainOf(ht, p[1])[k]
    BY <2>2, <2>3, Zenon DEF NodesBelow, AllOf, ChainOf
  <2> QED
    BY <2>1, <2>2, <2>4, Zenon
<1> QED
  BY <1>2, <1>3, Zenon DEF ListsPairs

(* The nodes are as many as the pairs.                                     *)
LEMMA NodesCounted ==
    ASSUME NEW ht, NEW X, TableOK(ht, X), NEW q, NodesBelow(q, ht, X, ht.cap)
    PROVE  /\ IsFiniteSet(Pairs(ht, X)) /\ Cardinality(Pairs(ht, X)) = Len(q)
           /\ Len(q) \in Nat
<1> DEFINE ps == [i \in 1 .. Len(q) |-> <<q[i].key, q[i].value>>]
<1>1. q \in Seq(Entry(X)) /\ OneEach(q)
  BY Zenon DEF NodesBelow
<1>2. Len(q) \in Nat /\ \A i \in 1 .. Len(q) : q[i].key \in Field /\ q[i].value \in X
  BY <1>1, EntryOf, Zenon
<1>3. ps \in Seq(Field \X X) /\ Len(ps) = Len(q)
      /\ \A i \in 1 .. Len(q) : ps[i] = <<q[i].key, q[i].value>>
  <2>1. \A i \in 1 .. Len(q) : <<q[i].key, q[i].value>> \in Field \X X
    BY <1>2
  <2>2. ps \in [1 .. Len(q) -> Field \X X]
    BY <2>1, Zenon
  <2>3. ps \in Seq(Field \X X) /\ Len(ps) = Len(q)
    <3> HIDE DEF ps
    <3> QED
      BY <1>2, <2>2
  <2> QED
    BY <2>3, Zenon
<1> HIDE DEF ps
<1>4. Distinct(ps)
  <2>1. SUFFICES ASSUME NEW i \in 1 .. Len(q), NEW j \in 1 .. Len(q), ps[i] = ps[j]
                 PROVE  i = j
    BY <1>3, Zenon DEF Distinct
  <2>2. q[i].key = q[j].key
    BY <1>3, <2>1
  <2> QED
    BY <1>1, <2>2, Zenon DEF OneEach
<1>5. Range(ps) = Pairs(ht, X)
  <2>1. /\ \A i \in 1 .. Len(ps) : ps[i] \in Range(ps)
        /\ \A x \in Range(ps) : \E i \in 1 .. Len(ps) : x = ps[i]
    BY <1>3, InRange, Zenon
  <2>2. /\ \A i \in 1 .. Len(q) : <<q[i].key, q[i].value>> \in Pairs(ht, X)
        /\ \A p \in Pairs(ht, X) : \E i \in 1 .. Len(q) : p = <<q[i].key, q[i].value>>
    <3>1. ListsPairs(q, ht, X)
      BY NodePairs, Zenon
    <3> QED
      BY <3>1, Zenon DEF ListsPairs
  <2>3. \A p : p \in Range(ps) => p \in Pairs(ht, X)
    BY <1>3, <2>1, <2>2, Zenon
  <2>4. \A p : p \in Pairs(ht, X) => p \in Range(ps)
    BY <1>3, <2>1, <2>2, Zenon
  <2> QED
    BY <2>3, <2>4, Zenon
<1>6. IsFiniteSet(Range(ps)) /\ Cardinality(Range(ps)) = Len(ps)
  BY <1>3, <1>4, Counted, Zenon
<1> QED
  BY <1>2, <1>3, <1>5, <1>6, Zenon

-----------------------------------------------------------------------------
(* ht_resize, ht_add and ht_remove.                                        *)

(* An empty table.                                                         *)
LEMMA EmptyTable ==
    ASSUME NEW cap \in Nat \ {0}, NEW X
    PROVE  /\ TableOK(Table(cap), X) /\ Table(cap).cap = cap /\ Table(cap).count = 0
           /\ Pairs(Table(cap), X) = {}
<1> DEFINE t == Table(cap)
<1>1. t = [cap |-> cap, count |-> 0, buckets |-> [i \in 0 .. cap - 1 |-> <<>>]]
  BY Zenon DEF Table
<1>2. t.cap = cap /\ t.count = 0 /\ t.buckets = [i \in 0 .. cap - 1 |-> <<>>]
  BY <1>1
<1> HIDE DEF t
<1>3. <<>> \in Seq(Entry(X)) /\ 1 .. Len(<<>>) = {} /\ 0 \in Int
  OBVIOUS
<1>4. TableStruct(t, X)
  BY <1>1, <1>2, <1>3, Zenon DEF TableStruct
<1>5. \A b \in 0 .. cap - 1 : t.buckets[b] = <<>>
  BY <1>2, Zenon
<1>6. TableOK(t, X)
  BY <1>2, <1>3, <1>4, <1>5, Zenon DEF TableOK
<1>7. ASSUME NEW p \in Pairs(t, X) PROVE FALSE
  <2>1. p[1] \in Field
    BY DEF Pairs
  <2>2. ChainOf(t, p[1]) = <<>>
    <3>1. BucketOf(t, p[1]) \in 0 .. cap - 1
      BY <1>2, <1>4, <2>1, Buckets, Zenon
    <3> QED
      BY <1>5, <3>1, Zenon DEF ChainOf
  <2> QED
    BY <1>3, <2>2, Zenon DEF Pairs
<1> QED
  BY <1>2, <1>6, <1>7, Zenon DEF t

(* The tables of one size.                                                 *)
Tables(C, X) ==
    {t \in [cap : {C}, count : Int, buckets : [0 .. C - 1 -> Seq(Entry(X))]] : TableOK(t, X)}

(* A good table is one of its size,                                        *)
LEMMA InTables ==
    ASSUME NEW t, NEW X, TableOK(t, X) PROVE t \in Tables(t.cap, X)
<1>1. /\ t.count \in Int /\ t.buckets \in [0 .. t.cap - 1 -> Seq(Entry(X))]
      /\ t = [cap |-> t.cap, count |-> t.count, buckets |-> t.buckets]
  BY Zenon DEF TableOK, TableStruct
<1>2. \A a, b, c : a \in Int /\ b \in [0 .. c - 1 -> Seq(Entry(X))] =>
        [cap |-> c, count |-> a, buckets |-> b] \in
          [cap : {c}, count : Int, buckets : [0 .. c - 1 -> Seq(Entry(X))]]
  BY Zenon
<1>3. t \in [cap : {t.cap}, count : Int, buckets : [0 .. t.cap - 1 -> Seq(Entry(X))]]
  BY <1>1, <1>2, Zenon
<1> QED
  BY <1>3, Zenon DEF Tables

(* and conversely.                                                         *)
LEMMA OfTables ==
    ASSUME NEW C, NEW X, NEW t \in Tables(C, X) PROVE TableOK(t, X) /\ t.cap = C
<1>1. TableOK(t, X) /\ t \in [cap : {C}, count : Int, buckets : [0 .. C - 1 -> Seq(Entry(X))]]
  BY Zenon DEF Tables
<1> QED
  BY <1>1

(* Put keeps a table good, and its size.                                   *)
LEMMA PutTables ==
    ASSUME NEW C, NEW X, NEW t \in Tables(C, X), NEW f \in Field, NEW x \in X
    PROVE  Put(t, f, x, FALSE) \in Tables(C, X)
<1> DEFINE u == Put(t, f, x, FALSE)
<1>1. TableOK(t, X) /\ t.cap = C
  BY OfTables, Zenon
<1>2. CASE ht_exists(t, f)
  <2>1. u = t
    BY <1>2, Zenon DEF Put
  <2> QED
    BY <2>1, Zenon
<1>3. CASE ~ht_exists(t, f)
  <2>1. Stored(u, t, X, f, x)
    BY <1>1, <1>3, PutNew, Zenon
  <2>2. TableOK(u, X) /\ u.cap = C
    BY <1>1, <2>1, Zenon DEF Stored
  <2> HIDE DEF u
  <2>3. u \in Tables(u.cap, X)
    BY <2>2, InTables, Zenon
  <2> QED
    BY <2>2, <2>3, Zenon DEF u
<1> QED
  BY <1>2, <1>3, Zenon

(* The first i nodes of q are in the table t.                              *)
Filled(t, q, C, X, i) ==
    /\ TableOK(t, X) /\ t.cap = C /\ t.count = i
    /\ Pairs(t, X) = {<<q[j].key, q[j].value>> : j \in 1 .. i}

(* One node more.                                                          *)
LEMMA FilledNext ==
    ASSUME NEW q, NEW X, q \in Seq(Entry(X)), OneEach(q), NEW C, NEW i \in Nat,
           i + 1 <= Len(q), NEW t, Filled(t, q, C, X, i)
    PROVE  Filled(Put(t, q[i + 1].key, q[i + 1].value, FALSE), q, C, X, i + 1)
<1> DEFINE f == q[i + 1].key
           x == q[i + 1].value
           u == Put(t, f, x, FALSE)
           P(k) == {<<q[j].key, q[j].value>> : j \in 1 .. k}
<1>1. Len(q) \in Nat
  BY EntryOf, Zenon
<1>2. /\ i + 1 \in 1 .. Len(q) /\ i + 1 \in 1 .. i + 1
      /\ \A j \in 1 .. i : j \in 1 .. Len(q) /\ j \in 1 .. i + 1 /\ j # i + 1
      /\ \A j \in 1 .. i + 1 : j # i + 1 => j \in 1 .. i
  BY <1>1
<1>3. f \in Field /\ x \in X
  BY <1>2, EntryOf, Zenon
<1>4. TableOK(t, X) /\ t.cap = C /\ t.count = i /\ Pairs(t, X) = P(i)
  BY Zenon DEF Filled
<1>5. \A p \in P(i) : p[1] # f
  <2>1. SUFFICES ASSUME NEW j \in 1 .. i PROVE <<q[j].key, q[j].value>>[1] # f
    BY Zenon
  <2>2. q[j].key # f
    BY <1>2, Zenon DEF OneEach
  <2> QED
    BY <2>2
<1>6. ~ht_exists(t, f)
  <2>1. ASSUME ht_exists(t, f) PROVE FALSE
    <3>1. <<f, ht_get(t, f)>> \in Pairs(t, X)
      BY <1>3, <1>4, <2>1, PairOf, Zenon
    <3>2. <<f, ht_get(t, f)>>[1] = f
      OBVIOUS
    <3> QED
      BY <1>4, <1>5, <3>1, <3>2, Zenon
  <2> QED
    BY <2>1, Zenon
<1>7. Stored(u, t, X, f, x) /\ u.count = t.count + 1
  <2> HIDE DEF f, x
  <2> QED
    BY <1>3, <1>4, <1>6, PutNew, Zenon
<1>8. {p \in P(i) : p[1] # f} = P(i)
  BY <1>5, Zenon
<1>9. P(i) \cup {<<f, x>>} = P(i + 1)
  BY <1>2, Zenon
<1>10. Pairs(u, X) = P(i + 1)
  BY <1>4, <1>7, <1>8, <1>9, Zenon DEF Stored
<1> QED
  BY <1>4, <1>7, <1>10, Zenon DEF Filled, Stored

(* ht_resize fills the new table with the nodes of the old one.            *)
LEMMA RefillIs ==
    ASSUME NEW q, NEW X, q \in Seq(Entry(X)), OneEach(q), NEW C \in Nat \ {0}
    PROVE  Filled(Refill(Table(C), q), q, C, X, Len(q))
<1> DEFINE n == Len(q)
           S == Tables(C, X)
           first == Table(C)
           step == [a \in S \X (1 .. n) |-> Put(a[1], q[a[2]].key, q[a[2]].value, FALSE)]
           F(f) == [i \in 0 .. n |-> IF i = 0 THEN first
                                     ELSE Put(f[i - 1], q[i].key, q[i].value, FALSE)]
<1>1. n \in Nat /\ \A i \in 1 .. n : q[i].key \in Field /\ q[i].value \in X
  BY EntryOf, Zenon
<1>2. TableOK(first, X) /\ first.cap = C /\ first.count = 0 /\ Pairs(first, X) = {}
  BY EmptyTable, Zenon
<1>3. first \in S
  <2> HIDE DEF first
  <2>1. first \in Tables(first.cap, X)
    BY <1>2, InTables, Zenon
  <2> QED
    BY <1>2, <2>1, Zenon
<1>4. \A t \in S : \A i \in 1 .. n : Put(t, q[i].key, q[i].value, FALSE) \in S
  BY <1>1, PutTables, Zenon
<1> HIDE DEF S, n, first
<1>5. step \in [S \X (1 .. n) -> S]
  BY <1>4
<1>6. \A a \in S : \A i \in 1 .. n : step[<<a, i>>] = Put(a, q[i].key, q[i].value, FALSE)
  OBVIOUS
<1> HIDE DEF step
<1>7. PICK f : IsRun(f, step, first, n, S)
  <2>1. IsStep(step, first, n, S)
    BY <1>1, <1>3, <1>5, Zenon DEF IsStep
  <2> QED
    BY <2>1, Recursion, Zenon
<1>8. f \in [0 .. n -> S] /\ f[0] = first /\ \A i \in 1 .. n : f[i] = step[<<f[i - 1], i>>]
  BY <1>7, Zenon DEF IsRun
<1>9. \A i \in 0 .. n : i # 0 => i \in 1 .. n /\ i - 1 \in 0 .. n
  BY <1>1
<1>10. f = F(f)
  <2>1. \A i \in 0 .. n : f[i] = IF i = 0 THEN first
                                 ELSE Put(f[i - 1], q[i].key, q[i].value, FALSE)
    BY <1>6, <1>8, <1>9, Zenon
  <2>2. f = [i \in 0 .. n |-> f[i]]
    BY <1>8, Zenon
  <2> QED
    BY <2>1, <2>2, Zenon
<1> DEFINE t == CHOOSE g : g = F(g)
<1>11. t = F(t) /\ Refill(Table(C), q) = t[n]
  BY <1>10, Zenon DEF Refill, n, first
<1> HIDE DEF t
<1>12. /\ t[0] = first
       /\ \A i \in Nat : i + 1 <= n => t[i + 1] = Put(t[i], q[i + 1].key, q[i + 1].value, FALSE)
  <2>1. 0 \in 0 .. n
    BY <1>1
  <2>2. \A i \in Nat : i + 1 <= n => i + 1 \in 0 .. n /\ i + 1 # 0 /\ (i + 1) - 1 = i
    BY <1>1
  <2> QED
    BY <1>11, <2>1, <2>2, Zenon
<1> DEFINE T == {i \in Nat : i <= n => Filled(t[i], q, C, X, i)}
<1>13. 0 \in T
  <2>1. 1 .. 0 = {} /\ 0 \in Nat
    OBVIOUS
  <2>2. Filled(first, q, C, X, 0)
    BY <1>2, <2>1, Zenon DEF Filled
  <2> QED
    BY <1>12, <2>1, <2>2, Zenon
<1>14. ASSUME NEW i \in Nat, i \in T PROVE i + 1 \in T
  <2>1. i + 1 \in Nat /\ (i + 1 <= n => i <= n)
    BY <1>1
  <2>2. ASSUME i + 1 <= n PROVE Filled(t[i + 1], q, C, X, i + 1)
    <3>1. Filled(t[i], q, C, X, i)
      BY <1>14, <2>1, <2>2, Zenon
    <3>2. Filled(Put(t[i], q[i + 1].key, q[i + 1].value, FALSE), q, C, X, i + 1)
      BY <2>2, <3>1, FilledNext, Zenon DEF n
    <3> QED
      BY <1>12, <2>2, <3>2, Zenon
  <2> QED
    BY <2>1, <2>2, Zenon
<1> HIDE DEF T
<1>15. n \in T
  BY <1>1, <1>13, <1>14, NatInduct, Zenon
<1>16. n <= n
  BY <1>1
<1> QED
  BY <1>11, <1>15, <1>16, Zenon DEF T, n

(* The table ht maps its fields to values in X: its count is the number of *)
(* its fields, and it is at most one field above its load.                 *)
TableInv(ht, X) ==
    /\ TableOK(ht, X) /\ ht.count = Cardinality(Pairs(ht, X))
    /\ 4 * (ht.count - 1) < 3 * ht.cap

(* A table has finitely many pairs, as many as nodes.                      *)
LEMMA PairsFinite ==
    ASSUME NEW ht, NEW X, TableOK(ht, X)
    PROVE  /\ IsFiniteSet(Pairs(ht, X)) /\ Cardinality(Pairs(ht, X)) = Len(Nodes(ht))
           /\ Len(Nodes(ht)) \in Nat
  BY NodesAre, NodesCounted, Zenon

(* ht_create makes a table without fields.                                 *)
LEMMA CreateInv ==
    ASSUME NEW X PROVE TableInv(ht_create, X)
<1> DEFINE t == ht_create
<1>1. HT_SMALL_CAP \in Nat \ {0}
  BY SimpleHTAssumption, Zenon
<1>2. TableOK(t, X) /\ t.cap = HT_SMALL_CAP /\ t.count = 0 /\ Pairs(t, X) = {}
  BY <1>1, EmptyTable, Zenon DEF ht_create
<1>3. Cardinality({}) = 0
  BY FS_EmptySet, Zenon
<1> HIDE DEF t
<1>4. 4 * (t.count - 1) < 3 * t.cap
  BY <1>1, <1>2
<1> QED
  BY <1>2, <1>3, <1>4, Zenon DEF TableInv, t

(* ht_resize keeps the content and leaves room for one more field.         *)
LEMMA ResizeKeeps ==
    ASSUME NEW ht, NEW X, TableInv(ht, X)
    PROVE  /\ TableOK(ht_resize(ht), X) /\ Pairs(ht_resize(ht), X) = Pairs(ht, X)
           /\ ht_resize(ht).count = Cardinality(Pairs(ht, X))
           /\ 4 * ht_resize(ht).count < 3 * ht_resize(ht).cap
<1>1. TableOK(ht, X) /\ ht.count = Cardinality(Pairs(ht, X))
      /\ 4 * (ht.count - 1) < 3 * ht.cap
  BY Zenon DEF TableInv
<1>2. CASE 4 * ht.count < 3 * ht.cap
  <2>1. ht_resize(ht) = ht
    BY <1>2, Zenon DEF ht_resize
  <2> QED
    BY <1>1, <1>2, <2>1, Zenon
<1>3. CASE ~(4 * ht.count < 3 * ht.cap)
  <2> DEFINE q == Nodes(ht)
             t == ht_resize(ht)
             C == 2 * ht.cap
  <2>1. t = Refill(Table(C), q)
    BY <1>3, Zenon DEF ht_resize
  <2>2. ht.cap \in Nat \ {0}
    BY <1>1, Zenon DEF TableOK, TableStruct
  <2>3. C \in Nat \ {0}
    BY <2>2
  <2>4. NodesBelow(q, ht, X, ht.cap)
    BY <1>1, NodesAre, Zenon
  <2> HIDE DEF t, C, q
  <2>5. q \in Seq(Entry(X)) /\ OneEach(q)
    BY <2>4, Zenon DEF NodesBelow
  <2>6. Filled(t, q, C, X, Len(q))
    BY <2>1, <2>3, <2>5, RefillIs, Zenon
  <2>7. ListsPairs(q, ht, X)
    BY <1>1, <2>4, NodePairs, Zenon
  <2>8. Cardinality(Pairs(ht, X)) = Len(q) /\ Len(q) \in Nat
    BY <1>1, <2>4, NodesCounted, Zenon
  <2>9. /\ TableOK(t, X) /\ t.cap = C /\ t.count = Len(q)
        /\ Pairs(t, X) = {<<q[j].key, q[j].value>> : j \in 1 .. Len(q)}
    BY <2>6, Zenon DEF Filled
  <2>10. Pairs(t, X) = Pairs(ht, X)
    BY <2>7, <2>9, Zenon DEF ListsPairs
  <2>11. t.cap = 2 * ht.cap /\ t.count = ht.count /\ ht.count \in Nat
    BY <1>1, <2>8, <2>9, Zenon DEF C
  <2>12. 4 * t.count < 3 * t.cap
    BY <1>1, <2>2, <2>11
  <2> QED
    BY <2>8, <2>9, <2>10, <2>12, Zenon DEF t
<1> QED
  BY <1>2, <1>3, Zenon

(* The pairs of the other fields, and how many they are.                   *)
LEMMA OtherPairs ==
    ASSUME NEW ht, NEW X, TableOK(ht, X), NEW f \in Field
    PROVE  /\ ht_exists(ht, f) =>
                /\ {p \in Pairs(ht, X) : p[1] # f} = Pairs(ht, X) \ {<<f, ht_get(ht, f)>>}
                /\ <<f, ht_get(ht, f)>> \in Pairs(ht, X)
           /\ ~ht_exists(ht, f) => {p \in Pairs(ht, X) : p[1] # f} = Pairs(ht, X)
<1>1. \A p \in Pairs(ht, X) : p = <<p[1], p[2]>>
  BY DEF Pairs
<1>2. \A x : <<f, x>>[1] = f
  OBVIOUS
<1>3. /\ ht_exists(ht, f) => <<f, ht_get(ht, f)>> \in Pairs(ht, X)
      /\ \A x : <<f, x>> \in Pairs(ht, X) => ht_exists(ht, f) /\ x = ht_get(ht, f)
  BY PairOf, Zenon
<1>4. \A p \in Pairs(ht, X) : p[1] = f => ht_exists(ht, f) /\ p = <<f, ht_get(ht, f)>>
  BY <1>1, <1>3, Zenon
<1> QED
  BY <1>2, <1>3, <1>4, Zenon

(* t is the good table ht with f at x.                                     *)
HasPut(t, ht, X, f, x) ==
    TableInv(t, X) /\ Pairs(t, X) = {p \in Pairs(ht, X) : p[1] # f} \cup {<<f, x>>}

(* t is the good table ht without f.                                       *)
HasTaken(t, ht, X, f) ==
    TableInv(t, X) /\ Pairs(t, X) = {p \in Pairs(ht, X) : p[1] # f}

(* ht_add stores the value, whether or not the table grows first.          *)
LEMMA AddKeeps ==
    ASSUME NEW ht, NEW X, TableInv(ht, X), NEW f \in Field, NEW x \in X,
           NEW replace, replace = TRUE \/ (replace = FALSE /\ X = {x})
    PROVE  HasPut(ht_add(ht, f, x, replace), ht, X, f, x)
<1> USE DEF HasPut
<1> DEFINE h == ht_resize(ht)
           t == Put(h, f, x, replace)
           P == Pairs(ht, X)
           O == {p \in P : p[1] # f}
<1>1. ht_add(ht, f, x, replace) = t
  BY Zenon DEF ht_add
<1>2. /\ TableOK(h, X) /\ Pairs(h, X) = P /\ h.count = Cardinality(P)
      /\ 4 * h.count < 3 * h.cap
  BY ResizeKeeps, Zenon
<1>3. IsFiniteSet(P) /\ Cardinality(P) \in Nat
  <2>1. TableOK(ht, X)
    BY Zenon DEF TableInv
  <2> QED
    BY <2>1, PairsFinite, Zenon
<1>4. h.cap \in Nat
  BY <1>2 DEF TableOK, TableStruct
<1> HIDE DEF h, P
<1>8. ht_exists(h, f) => O = P \ {<<f, ht_get(h, f)>>} /\ <<f, ht_get(h, f)>> \in P
  <2> DEFINE e == <<f, ht_get(h, f)>>
  <2> HIDE DEF e
  <2>1. ht_exists(h, f) =>
          {p \in Pairs(h, X) : p[1] # f} = Pairs(h, X) \ {e} /\ e \in Pairs(h, X)
    BY <1>2, OtherPairs, Zenon DEF e
  <2> QED
    BY <1>2, <2>1, Zenon DEF e
<1>5. CASE ~ht_exists(h, f)
  <2>1. Stored(t, h, X, f, x) /\ t.count = h.count + 1
    BY <1>2, <1>5, PutNew, Zenon
  <2>2. O = P
    BY <1>2, <1>5, OtherPairs, Zenon
  <2>3. <<f, x>> \notin P
    <3>1. \A p \in P : p[1] # f
      BY <2>2, Zenon
    <3>2. <<f, x>>[1] = f
      OBVIOUS
    <3> QED
      BY <3>1, <3>2, Zenon
  <2>4. Cardinality(P \cup {<<f, x>>}) = Cardinality(P) + 1
    BY <1>3, <2>3, FS_AddElement, Zenon
  <2>5. TableOK(t, X) /\ t.cap = h.cap /\ Pairs(t, X) = O \cup {<<f, x>>}
    BY <1>2, <2>1, Zenon DEF Stored
  <2> HIDE DEF t, O
  <2>6. t.count = Cardinality(Pairs(t, X))
    BY <1>2, <2>1, <2>2, <2>4, <2>5, Zenon
  <2>7. 4 * (t.count - 1) < 3 * t.cap
    BY <1>2, <1>3, <1>4, <2>1, <2>5
  <2> QED
    BY <1>1, <2>5, <2>6, <2>7, Zenon DEF TableInv, O, P
<1>6. CASE ht_exists(h, f) /\ replace = TRUE
  <2>1. Stored(t, h, X, f, x) /\ t.count = h.count
    BY <1>2, <1>6, PutOld, Zenon
  <2> DEFINE e == <<f, ht_get(h, f)>>
  <2>2. O = P \ {e} /\ e \in P
    BY <1>6, <1>8, Zenon
  <2>3. <<f, x>> \notin O
    <3>1. <<f, x>>[1] = f
      OBVIOUS
    <3> QED
      BY <3>1, Zenon
  <2> HIDE DEF e, O
  <2>4. IsFiniteSet(O) /\ Cardinality(O) = Cardinality(P) - 1
    BY <1>3, <2>2, FS_RemoveElement, Zenon
  <2>5. Cardinality(O \cup {<<f, x>>}) = Cardinality(O) + 1
    BY <2>3, <2>4, FS_AddElement, Zenon
  <2>6. TableOK(t, X) /\ t.cap = h.cap /\ Pairs(t, X) = O \cup {<<f, x>>}
    BY <1>2, <2>1, Zenon DEF Stored, O
  <2> HIDE DEF t
  <2>7. Cardinality(O \cup {<<f, x>>}) = Cardinality(P)
    BY <1>3, <2>4, <2>5
  <2>8. t.count = Cardinality(Pairs(t, X))
    BY <1>2, <2>1, <2>6, <2>7, Zenon
  <2>9. 4 * (t.count - 1) < 3 * t.cap
    BY <1>2, <1>3, <1>4, <2>1, <2>6
  <2> QED
    BY <1>1, <2>6, <2>8, <2>9, Zenon DEF TableInv, O, P
<1>7. CASE ht_exists(h, f) /\ replace = FALSE /\ X = {x}
  <2>1. t = h
    BY <1>7, Zenon DEF Put
  <2> DEFINE e == <<f, ht_get(h, f)>>
  <2>2. O = P \ {e} /\ e \in P
    BY <1>7, <1>8, Zenon
  <2>3. e = <<f, x>>
    <3>1. \A p \in Pairs(h, X) : p[2] \in X
      BY DEF Pairs
    <3>2. e[2] = ht_get(h, f)
      OBVIOUS
    <3> QED
      BY <1>2, <1>7, <2>2, <3>1, <3>2, Zenon
  <2>4. P = O \cup {<<f, x>>}
    BY <2>2, <2>3, Zenon
  <2> HIDE DEF t, O
  <2>5. 4 * (h.count - 1) < 3 * h.cap
    BY <1>2, <1>3, <1>4
  <2> QED
    BY <1>1, <1>2, <2>1, <2>4, <2>5, Zenon DEF TableInv, O, P
<1> QED
  BY <1>5, <1>6, <1>7, Zenon

(* ht_remove takes the field and no other.                                 *)
LEMMA RemoveKeeps ==
    ASSUME NEW ht, NEW X, TableInv(ht, X), NEW f \in Field
    PROVE  HasTaken(ht_remove(ht, f), ht, X, f)
<1> USE DEF HasTaken
<1> DEFINE t == ht_remove(ht, f)
           P == Pairs(ht, X)
           O == {p \in P : p[1] # f}
<1>1. TableOK(ht, X) /\ ht.count = Cardinality(P) /\ 4 * (ht.count - 1) < 3 * ht.cap
  BY Zenon DEF TableInv
<1>2. IsFiniteSet(P) /\ Cardinality(P) \in Nat
  BY <1>1, PairsFinite, Zenon
<1>3. ht.cap \in Nat
  BY <1>1 DEF TableOK, TableStruct
<1>4. CASE ~ht_exists(ht, f)
  <2>1. t = ht
    BY <1>4, Zenon DEF ht_remove
  <2>2. O = P
    BY <1>1, <1>4, OtherPairs, Zenon
  <2> QED
    BY <2>1, <2>2, Zenon
<1>5. CASE ht_exists(ht, f)
  <2>1. Cleared(t, ht, X, f) /\ t.count = ht.count - 1
    BY <1>1, <1>5, RemoveOld, Zenon
  <2> DEFINE e == <<f, ht_get(ht, f)>>
  <2>2. O = P \ {e} /\ e \in P
    BY <1>1, <1>5, OtherPairs, Zenon
  <2>3. TableOK(t, X) /\ t.cap = ht.cap /\ Pairs(t, X) = O
    BY <2>1, Zenon DEF Cleared
  <2> HIDE DEF e, O, P, t
  <2>4. IsFiniteSet(O) /\ Cardinality(O) = Cardinality(P) - 1
    BY <1>2, <2>2, FS_RemoveElement, Zenon
  <2>5. t.count = Cardinality(Pairs(t, X))
    BY <1>1, <2>1, <2>3, <2>4, Zenon
  <2>6. 4 * (t.count - 1) < 3 * t.cap
    BY <1>1, <1>2, <1>3, <2>1, <2>3
  <2> QED
    BY <2>3, <2>5, <2>6, Zenon DEF TableInv, O, P, t
<1> QED
  BY <1>4, <1>5, Zenon

-----------------------------------------------------------------------------
(* The commands, and the theorems.                                         *)

(* l is a list whose pointers all follow from one sequence of its cells.   *)
ListInv(l) == \E q : Linked(l, "left", q)

(* The inductive invariant: the object of the key is a list whose pointers *)
(* follow from one sequence of cells, or a table whose chains make a map   *)
(* from its fields.                                                        *)
ObjInv ==
    /\ Is("list") => ListInv(obj.ptr)
    /\ Is("set") => TableInv(obj.ptr, {NULL})
    /\ Is("hash") => TableInv(obj.ptr, Value)

(* obj_create_list makes a list without cells.                             *)
LEMMA EmptyList == Linked(obj_create_list, "left", <<>>)
<1> DEFINE l == obj_create_list
           none == [n \in Node |-> NULL]
<1>1. "left" \in Side /\ "right" \in Side /\ Other("left") = "right" /\ "left" # "right"
  BY Zenon DEF Side, Other
<1>2. /\ l.end = [s \in Side |-> NULL] /\ l.link = [s \in Side |-> none]
      /\ l.value = [n \in Node |-> Free] /\ l.len = 0
      /\ l = [end |-> [s \in Side |-> NULL], link |-> [s \in Side |-> none],
              value |-> [n \in Node |-> Free], len |-> 0]
  BY DEF obj_create_list
<1>3. NULL \in Ptr /\ none \in [Node -> Ptr]
  BY NullIsNone, Zenon
<1>4. /\ [s \in Side |-> NULL] \in [Side -> Ptr] /\ [s \in Side |-> none] \in [Side -> [Node -> Ptr]]
      /\ [n \in Node |-> Free] \in [Node -> Value \cup {Free}]
  BY <1>3, Zenon
<1>5. 0 \in Int
  OBVIOUS
<1>6. l \in ListStruct
  BY <1>2, <1>4, <1>5, Zenon DEF ListStruct
<1>7. /\ <<>> \in Seq(Node) /\ Len(<<>>) = 0 /\ 1 .. Len(<<>>) = {} /\ Range(<<>>) = {}
      /\ Reverse(<<>>) = <<>>
  <2>1. <<>> \in Seq(Node) /\ Len(<<>>) = 0 /\ 1 .. Len(<<>>) = {}
    OBVIOUS
  <2>2. \A x \in Range(<<>>) : \E i \in 1 .. Len(<<>>) : x = <<>>[i]
    BY <2>1, InRange, Zenon
  <2>3. Reverse(<<>>) = <<>>
    BY <2>1 DEF Reverse
  <2> QED
    BY <2>1, <2>2, <2>3, Zenon
<1>8. At(<<>>, 1) = NULL
  BY <1>7, Zenon DEF At
<1>9. Distinct(<<>>)
  BY <1>7, Zenon DEF Distinct
<1>10. \A n \in Node : none[n] = NULL
  BY Zenon
<1> HIDE DEF none
<1>11. Thread(none, NULL, <<>>)
  BY <1>3, <1>7, <1>8, <1>9, <1>10, Zenon DEF Thread
<1> HIDE DEF l
<1>12. /\ l.link["left"] = none /\ l.link["right"] = none
       /\ l.end["left"] = NULL /\ l.end["right"] = NULL
  BY <1>1, <1>2, Zenon
<1>13. ListCells(l) = {}
  BY <1>2, Zenon DEF ListCells
<1>14. Thread(l.link[Other("left")], l.end["left"], <<>>)
  BY <1>1, <1>11, <1>12, Zenon
<1>15. Thread(l.link["left"], l.end[Other("left")], Reverse(<<>>))
  BY <1>1, <1>7, <1>11, <1>12, Zenon
<1>16. Range(<<>>) = ListCells(l) /\ l.len = Len(<<>>)
  BY <1>2, <1>7, <1>13, Zenon
<1> QED
  BY <1>6, <1>14, <1>15, <1>16, Zenon DEF Linked, l

(* What a command finds or makes is well formed.                           *)
LEMMA FoundInv ==
    ASSUME ObjInv
    PROVE  ListInv(List) /\ TableInv(Set, {NULL}) /\ TableInv(Hash, Value)
<1>1. ListInv(List)
  BY EmptyList, Zenon DEF ObjInv, List, Ensured, ListInv
<1>2. TableInv(Set, {NULL})
  BY CreateInv, Zenon DEF ObjInv, Set, Ensured
<1>3. TableInv(Hash, Value)
  BY CreateInv, Zenon DEF ObjInv, Hash, Ensured
<1> QED
  BY <1>1, <1>2, <1>3, Zenon

(* What the key holds after a command.                                     *)
LEMMA HeldIs ==
    ASSUME NEW ty, NEW p, Holds(ty, p)
    PROVE  obj'.type = ty /\ obj'.ptr = p
  BY DEF Holds

(* A command that leaves a good list keeps the invariant.                  *)
LEMMA HoldsList ==
    ASSUME NEW p, Holds("list", p), ListInv(p)
    PROVE  ObjInv' /\ List' = p
<1>1. obj'.type = "list" /\ obj'.ptr = p
  BY HeldIs, Zenon
<1>2. "list" # "set" /\ "list" # "hash"
  OBVIOUS
<1>3. List' = p
  BY <1>1, Zenon DEF List, Ensured, Is
<1>4. ObjInv'
  BY <1>1, <1>2, Zenon DEF ObjInv, Is
<1> QED
  BY <1>3, <1>4, Zenon

(* A command that leaves a good set keeps the invariant.                   *)
LEMMA HoldsSet ==
    ASSUME NEW p, Holds("set", p), TableInv(p, {NULL})
    PROVE  ObjInv' /\ Set' = p
<1>1. obj'.type = "set" /\ obj'.ptr = p
  BY HeldIs, Zenon
<1>2. "set" # "list" /\ "set" # "hash"
  OBVIOUS
<1>3. Set' = p
  BY <1>1, Zenon DEF Set, Ensured, Is
<1>4. ObjInv'
  BY <1>1, <1>2, Zenon DEF ObjInv, Is
<1> QED
  BY <1>3, <1>4, Zenon

(* A command that leaves a good hash keeps the invariant.                  *)
LEMMA HoldsHash ==
    ASSUME NEW p, Holds("hash", p), TableInv(p, Value)
    PROVE  ObjInv' /\ Hash' = p
<1>1. obj'.type = "hash" /\ obj'.ptr = p
  BY HeldIs, Zenon
<1>2. "hash" # "list" /\ "hash" # "set"
  OBVIOUS
<1>3. Hash' = p
  BY <1>1, Zenon DEF Hash, Ensured, Is
<1>4. ObjInv'
  BY <1>1, <1>2, Zenon DEF ObjInv, Is
<1> QED
  BY <1>3, <1>4, Zenon

(* The items of a list are the values of its cells.                        *)
LEMMA ItemsOf ==
    ASSUME NEW l, NEW q, Linked(l, "left", q)
    PROVE  ListInv(l) /\ Items(l, "left") = Vals(l.value, q)
  BY ItemsAre, Zenon DEF ListInv

(* LPUSH and RPUSH.                                                        *)
LEMMA PushStep ==
    ASSUME ObjInv, NEW s \in Side, NEW x \in Value, kv_push(s, x)
    PROVE  /\ ObjInv'
           /\ s = "left" => Items(List', "left") = <<x>> \o Items(List, "left")
           /\ s = "right" => Items(List', "left") = Append(Items(List, "left"), x)
<1> DEFINE l == List
           m == dlist_push(l, s, x)
<1>1. ListCells(l) # Node /\ Holds("list", m)
  BY Zenon DEF kv_push
<1>2. PICK q : Linked(l, "left", q)
  BY FoundInv, Zenon DEF ListInv
<1>3. Items(l, "left") = Vals(l.value, q)
  BY <1>2, ItemsOf, Zenon
<1> HIDE DEF l
<1>4. CASE s = "left"
  <2>1. PICK r : /\ Linked(dlist_push(l, "left", x), "left", r)
                 /\ Vals(dlist_push(l, "left", x).value, r) = <<x>> \o Vals(l.value, q)
    BY <1>1, <1>2, PushLeft, Zenon
  <2>2. ListInv(m) /\ Items(m, "left") = <<x>> \o Vals(l.value, q)
    BY <1>4, <2>1, ItemsOf, Zenon
  <2> HIDE DEF m
  <2>3. ObjInv' /\ List' = m
    BY <1>1, <2>2, HoldsList, Zenon
  <2>4. "left" # "right"
    OBVIOUS
  <2> QED
    BY <1>3, <1>4, <2>2, <2>3, <2>4, Zenon DEF l
<1>5. CASE s = "right"
  <2>1. PICK r : /\ Linked(dlist_push(l, "right", x), "left", r)
                 /\ Vals(dlist_push(l, "right", x).value, r) = Append(Vals(l.value, q), x)
    BY <1>1, <1>2, PushRight, Zenon
  <2>2. ListInv(m) /\ Items(m, "left") = Append(Vals(l.value, q), x)
    BY <1>5, <2>1, ItemsOf, Zenon
  <2> HIDE DEF m
  <2>3. ObjInv' /\ List' = m
    BY <1>1, <2>2, HoldsList, Zenon
  <2>4. "left" # "right"
    OBVIOUS
  <2> QED
    BY <1>3, <1>5, <2>2, <2>3, <2>4, Zenon DEF l
<1> QED
  BY <1>4, <1>5, Zenon DEF Side

(* LPOP and RPOP.                                                          *)
LEMMA PopStep ==
    ASSUME ObjInv, NEW s \in Side, kv_pop(s)
    PROVE  LET v == Items(List, "left")
           IN  /\ ObjInv'
               /\ s = "left" => Items(List', "left") = Tail(v)
               /\ s = "right" => Items(List', "left") = SubSeq(v, 1, Len(v) - 1)
<1> DEFINE l == List
           m == dlist_pop(l, s)
<1>1. l.end[s] # NULL /\ Holds("list", m)
  BY Zenon DEF kv_pop
<1>2. PICK q : Linked(l, "left", q)
  BY FoundInv, Zenon DEF ListInv
<1>3. Items(l, "left") = Vals(l.value, q)
  BY <1>2, ItemsOf, Zenon
<1> HIDE DEF l
<1>4. PICK r : /\ Linked(m, "left", r)
               /\ s = "left" => Vals(m.value, r) = Tail(Vals(l.value, q))
               /\ s = "right" => Vals(m.value, r) =
                    SubSeq(Vals(l.value, q), 1, Len(Vals(l.value, q)) - 1)
  BY <1>1, <1>2, PopEither, Zenon
<1> HIDE DEF m
<1>5. ListInv(m) /\ Items(m, "left") = Vals(m.value, r)
  BY <1>4, ItemsOf, Zenon
<1>6. ObjInv' /\ List' = m
  BY <1>1, <1>5, HoldsList, Zenon
<1> QED
  BY <1>3, <1>4, <1>5, <1>6, Zenon DEF l

(* RPOPLPUSH on one list.                                                  *)
LEMMA RotateStep ==
    ASSUME ObjInv, kv_lpoprpush
    PROVE  LET v == Items(List, "left")
           IN  ObjInv' /\ Items(List', "left") = <<v[Len(v)]>> \o SubSeq(v, 1, Len(v) - 1)
<1> DEFINE l == List
           m == dlist_push(dlist_pop(l, "right"), "left", l.value[l.end["right"]])
<1>1. l.end["right"] # NULL /\ Holds("list", m)
  BY Zenon DEF kv_lpoprpush
<1>2. PICK q : Linked(l, "left", q)
  BY FoundInv, Zenon DEF ListInv
<1> DEFINE v == Vals(l.value, q)
<1>3. Items(l, "left") = v
  BY <1>2, ItemsOf, Zenon
<1> HIDE DEF l
<1>4. PICK r : /\ Linked(m, "left", r)
               /\ Vals(m.value, r) = <<v[Len(v)]>> \o SubSeq(v, 1, Len(v) - 1)
  BY <1>1, <1>2, Rotate, Zenon
<1> HIDE DEF m, v
<1>5. ListInv(m) /\ Items(m, "left") = Vals(m.value, r)
  BY <1>4, ItemsOf, Zenon
<1>6. ObjInv' /\ List' = m
  BY <1>1, <1>5, HoldsList, Zenon
<1> QED
  BY <1>3, <1>4, <1>5, <1>6, Zenon DEF l

(* Indices are integers.                                                   *)
LEMMA IndexInt == Index \subseteq Int
  BY ObjectsAssumption DEF Index

(* LSET.                                                                   *)
LEMMA SetStep ==
    ASSUME ObjInv, NEW i \in Index, NEW x \in Value, kv_lset(i, x)
    PROVE  LET v == Items(List, "left")
           IN  /\ ObjInv'
               /\ Items(List', "left") =
                    [v EXCEPT ![IF i < 0 THEN Len(v) + i + 1 ELSE i + 1] = x]
<1> DEFINE l == List
           m == [l EXCEPT !.value[CellAt(l, i)] = x]
<1>1. CellAt(l, i) # NULL /\ Holds("list", m) /\ i \in Int
  BY IndexInt, Zenon DEF kv_lset
<1>2. PICK q : Linked(l, "left", q)
  BY FoundInv, Zenon DEF ListInv
<1> DEFINE v == Vals(l.value, q)
<1>3. Items(l, "left") = v /\ Len(v) = Len(q)
  BY <1>2, ItemsAre, ValsSeq, Zenon
<1> HIDE DEF l
<1>7. IsSetAt(m, l, q, i, x)
  BY <1>1, <1>2, SetOne, Zenon
<1> HIDE DEF m, v
<1>4. Linked(m, "left", q) /\ Vals(m.value, q) = [v EXCEPT ![Place(q, i)] = x]
  BY <1>7, Zenon DEF IsSetAt, v
<1>8. Place(q, i) = IF i < 0 THEN Len(v) + i + 1 ELSE i + 1
  BY <1>3, Zenon DEF Place
<1>5. ListInv(m) /\ Items(m, "left") = Vals(m.value, q)
  BY <1>4, ItemsOf, Zenon
<1>6. ObjInv' /\ List' = m
  BY <1>1, <1>5, HoldsList, Zenon
<1> QED
  BY <1>3, <1>4, <1>5, <1>6, <1>8, Zenon DEF l

(* LREM.                                                                   *)
LEMMA RemStep ==
    ASSUME ObjInv, NEW i \in Index, NEW x \in Value, kv_lrem(i, x)
    PROVE  /\ ObjInv'
           /\ Without(Items(List', "left"), Items(List, "left"), i, x)
<1> DEFINE l == List
           m == dlist_rem(l, i, x)
<1>1. Holds("list", m) /\ i \in Int
  BY IndexInt, Zenon DEF kv_lrem
<1>2. PICK q : Linked(l, "left", q)
  BY FoundInv, Zenon DEF ListInv
<1>3. Items(l, "left") = Vals(l.value, q)
  BY <1>2, ItemsOf, Zenon
<1> HIDE DEF l
<1>4. PICK r : Linked(m, "left", r) /\ Without(Vals(m.value, r), Vals(l.value, q), i, x)
  BY <1>1, <1>2, RemItems, Zenon
<1> HIDE DEF m
<1>5. ListInv(m) /\ Items(m, "left") = Vals(m.value, r)
  BY <1>4, ItemsOf, Zenon
<1>6. ObjInv' /\ List' = m
  BY <1>1, <1>5, HoldsList, Zenon
<1> QED
  BY <1>3, <1>4, <1>5, <1>6, Zenon DEF l

(* HGET and SISMEMBER find exactly the pairs of a table.                   *)
LEMMA ContentIs ==
    ASSUME NEW ht, NEW X, TableInv(ht, X)
    PROVE  Content(ht) = Pairs(ht, X)
<1>1. TableOK(ht, X)
  BY Zenon DEF TableInv
<1>2. \A f \in Field : ht_exists(ht, f) => <<f, ht_get(ht, f)>> \in Pairs(ht, X)
  BY <1>1, PairOf, Zenon
<1>3. \A p \in Pairs(ht, X) : p[1] \in Field /\ p = <<p[1], p[2]>>
  BY DEF Pairs
<1>4. \A p \in Pairs(ht, X) : ht_exists(ht, p[1]) /\ p[2] = ht_get(ht, p[1])
  <2>1. \A f \in Field : \A x : <<f, x>> \in Pairs(ht, X) => ht_exists(ht, f) /\ x = ht_get(ht, f)
    BY <1>1, PairOf, Zenon
  <2> QED
    BY <1>3, <2>1, Zenon
<1>5. \A p \in Pairs(ht, X) : p = <<p[1], ht_get(ht, p[1])>>
  BY <1>3, <1>4, Zenon
<1> QED
  <2>1. \A p : p \in Content(ht) => p \in Pairs(ht, X)
    BY <1>2, Zenon DEF Content
  <2>2. ASSUME NEW p \in Pairs(ht, X) PROVE p \in Content(ht)
    <3>1. p[1] \in {g \in Field : ht_exists(ht, g)} /\ p = <<p[1], ht_get(ht, p[1])>>
      BY <1>3, <1>4, <1>5, Zenon
    <3> QED
      BY <3>1, Zenon DEF Content
  <2> QED
    BY <2>1, <2>2, Zenon

(* SADD.                                                                   *)
LEMMA SaddStep ==
    ASSUME ObjInv, NEW f \in Field, kv_sadd(f)
    PROVE  /\ ObjInv'
           /\ Content(Set') = {e \in Content(Set) : e[1] # f} \cup {<<f, NULL>>}
<1> DEFINE h == Set
           t == ht_add(h, f, NULL, FALSE)
           X == {NULL}
<1>1. Holds("set", t)
  BY Zenon DEF kv_sadd
<1>2. TableInv(h, X) /\ NULL \in X
  BY FoundInv, Zenon
<1> HIDE DEF h
<1>6. HasPut(t, h, X, f, NULL)
  BY <1>2, AddKeeps, Zenon
<1>3. TableInv(t, X) /\ Pairs(t, X) = {p \in Pairs(h, X) : p[1] # f} \cup {<<f, NULL>>}
  BY <1>6, Zenon DEF HasPut
<1> HIDE DEF t
<1>4. ObjInv' /\ Set' = t
  BY <1>1, <1>3, HoldsSet, Zenon
<1> HIDE DEF X
<1>5. Content(h) = Pairs(h, X) /\ Content(t) = Pairs(t, X)
  BY <1>2, <1>3, ContentIs, Zenon
<1> QED
  BY <1>3, <1>4, <1>5, Zenon DEF h

(* SREM.                                                                   *)
LEMMA SremStep ==
    ASSUME ObjInv, NEW f \in Field, kv_srem(f)
    PROVE  ObjInv' /\ Content(Set') = {e \in Content(Set) : e[1] # f}
<1> DEFINE h == Set
           t == ht_remove(h, f)
           X == {NULL}
<1>1. Holds("set", t)
  BY Zenon DEF kv_srem
<1>2. TableInv(h, X)
  BY FoundInv, Zenon
<1> HIDE DEF h
<1>6. HasTaken(t, h, X, f)
  BY <1>2, RemoveKeeps, Zenon
<1>3. TableInv(t, X) /\ Pairs(t, X) = {p \in Pairs(h, X) : p[1] # f}
  BY <1>6, Zenon DEF HasTaken
<1> HIDE DEF t
<1>4. ObjInv' /\ Set' = t
  BY <1>1, <1>3, HoldsSet, Zenon
<1> HIDE DEF X
<1>5. Content(h) = Pairs(h, X) /\ Content(t) = Pairs(t, X)
  BY <1>2, <1>3, ContentIs, Zenon
<1> QED
  BY <1>3, <1>4, <1>5, Zenon DEF h

(* HSET.                                                                   *)
LEMMA HsetStep ==
    ASSUME ObjInv, NEW f \in Field, NEW x \in Value, kv_hset(f, x)
    PROVE  /\ ObjInv'
           /\ Content(Hash') = {e \in Content(Hash) : e[1] # f} \cup {<<f, x>>}
<1> DEFINE h == Hash
           t == ht_add(h, f, x, TRUE)
<1>1. Holds("hash", t)
  BY Zenon DEF kv_hset
<1>2. TableInv(h, Value)
  BY FoundInv, Zenon
<1> HIDE DEF h
<1>6. HasPut(t, h, Value, f, x)
  BY <1>2, AddKeeps, Zenon
<1>3. TableInv(t, Value) /\ Pairs(t, Value) = {p \in Pairs(h, Value) : p[1] # f} \cup {<<f, x>>}
  BY <1>6, Zenon DEF HasPut
<1> HIDE DEF t
<1>4. ObjInv' /\ Hash' = t
  BY <1>1, <1>3, HoldsHash, Zenon
<1>5. Content(h) = Pairs(h, Value) /\ Content(t) = Pairs(t, Value)
  BY <1>2, <1>3, ContentIs, Zenon
<1> QED
  BY <1>3, <1>4, <1>5, Zenon DEF h

(* HDEL.                                                                   *)
LEMMA HdelStep ==
    ASSUME ObjInv, NEW f \in Field, kv_hdel(f)
    PROVE  ObjInv' /\ Content(Hash') = {e \in Content(Hash) : e[1] # f}
<1> DEFINE h == Hash
           t == ht_remove(h, f)
<1>1. Holds("hash", t)
  BY Zenon DEF kv_hdel
<1>2. TableInv(h, Value)
  BY FoundInv, Zenon
<1> HIDE DEF h
<1>6. HasTaken(t, h, Value, f)
  BY <1>2, RemoveKeeps, Zenon
<1>3. TableInv(t, Value) /\ Pairs(t, Value) = {p \in Pairs(h, Value) : p[1] # f}
  BY <1>6, Zenon DEF HasTaken
<1> HIDE DEF t
<1>4. ObjInv' /\ Hash' = t
  BY <1>1, <1>3, HoldsHash, Zenon
<1>5. Content(h) = Pairs(h, Value) /\ Content(t) = Pairs(t, Value)
  BY <1>2, <1>3, ContentIs, Zenon
<1> QED
  BY <1>3, <1>4, <1>5, Zenon DEF h

(* A sorted set command leaves no list and no table.                       *)
LEMMA HoldsZSet ==
    ASSUME NEW p, Holds("zset", p)
    PROVE  ObjInv'
<1>1. obj'.type = "zset"
  BY HeldIs, Zenon
<1>2. "zset" # "list" /\ "zset" # "set" /\ "zset" # "hash"
  OBVIOUS
<1> QED
  BY <1>1, <1>2, Zenon DEF ObjInv, Is

(* A key without object has a type of its own.                             *)
LEMMA AbsentInv ==
    ASSUME NEW o, o = Absent
    PROVE  o.type # "list" /\ o.type # "set" /\ o.type # "hash" /\ o.type # "zset"
  BY DEF Absent

(* Every list, set and hash command keeps the structs whole, for every     *)
(* heap, every hash function and every sequence of commands: the pointers  *)
(* of a list follow from one sequence of cells, the chains of a table make *)
(* a map, its count is the number of fields and its load stays below the   *)
(* limit.                                                                  *)
THEOREM StructsKept == ObjectsSpec => []ObjInv
<1>1. ObjectsInit => ObjInv
  BY AbsentInv, Zenon DEF ObjectsInit, ObjInv, Is
<1>2. ObjInv /\ [ObjectsNext]_obj => ObjInv'
  <2> SUFFICES ASSUME ObjInv, [ObjectsNext]_obj PROVE ObjInv'
    OBVIOUS
  <2>1. ASSUME NEW s \in Side, kv_pop(s) \/ \E val \in Value : kv_push(s, val)
        PROVE  ObjInv'
    BY <2>1, PopStep, PushStep, Zenon
  <2>2. CASE kv_lpoprpush
    BY <2>2, RotateStep, Zenon
  <2>3. ASSUME NEW i \in Index, NEW val \in Value, kv_lset(i, val) \/ kv_lrem(i, val)
        PROVE  ObjInv'
    BY <2>3, SetStep, RemStep, Zenon
  <2>4. ASSUME NEW f \in Field,
               \/ kv_sadd(f) \/ kv_srem(f) \/ kv_hdel(f)
               \/ \E val \in Value : kv_hset(f, val)
        PROVE  ObjInv'
    BY <2>4, SaddStep, SremStep, HdelStep, HsetStep, Zenon
  <2>5. ASSUME NEW m \in Member, kv_zrem(m) PROVE ObjInv'
    BY <2>5, HoldsZSet, Zenon DEF kv_zrem
  <2>6. ASSUME NEW m \in Member, NEW s \in Score, NEW h \in 1 .. MAXLEVEL, kv_zadd(s, m, h)
        PROVE  ObjInv'
    BY <2>6, HoldsZSet, Zenon DEF kv_zadd
  <2>7. CASE kv_del
    BY <2>7, AbsentInv, Zenon DEF kv_del, ObjInv, Is
  <2>8. CASE UNCHANGED obj
    BY <2>8, Zenon DEF ObjInv, Is
  <2> QED
    BY <2>1, <2>2, <2>3, <2>4, <2>5, <2>6, <2>7, <2>8, Zenon DEF ObjectsNext
<1> QED
  BY <1>1, <1>2, PTL DEF ObjectsSpec

(* kv_push, kv_pop, kv_lpoprpush, kv_lset and kv_lrem do to the items of a *)
(* list what they do to a sequence, whatever cells the heap gives and      *)
(* however long the list.                                                  *)
THEOREM ListCommands == ObjectsSpec => ListActsAsSequence
<1> DEFINE A == LET v == Items(List, "left")
                    w == Items(List', "left")
                    n == Len(v)
                IN  /\ \A x \in Value :
                         /\ kv_push("left", x) => w = <<x>> \o v
                         /\ kv_push("right", x) => w = Append(v, x)
                         /\ \A i \in Index :
                              /\ kv_lset(i, x) =>
                                   w = [v EXCEPT ![IF i < 0 THEN n + i + 1 ELSE i + 1] = x]
                              /\ kv_lrem(i, x) => Without(w, v, i, x)
                    /\ kv_pop("left") => w = Tail(v)
                    /\ kv_pop("right") => w = SubSeq(v, 1, n - 1)
                    /\ kv_lpoprpush => w = <<v[n]>> \o SubSeq(v, 1, n - 1)
<1>1. ObjInv => A
  <2> SUFFICES ASSUME ObjInv PROVE A
    OBVIOUS
  <2>1. "left" \in Side /\ "right" \in Side
    BY Zenon DEF Side
  <2>2. ASSUME NEW x \in Value
        PROVE  /\ kv_push("left", x) => Items(List', "left") = <<x>> \o Items(List, "left")
               /\ kv_push("right", x) => Items(List', "left") = Append(Items(List, "left"), x)
    BY <2>1, PushStep, Zenon
  <2>3. ASSUME NEW x \in Value, NEW i \in Index
        PROVE  LET v == Items(List, "left")
               IN  kv_lset(i, x) => Items(List', "left") =
                     [v EXCEPT ![IF i < 0 THEN Len(v) + i + 1 ELSE i + 1] = x]
    BY SetStep, Zenon
  <2>4. ASSUME NEW x \in Value, NEW i \in Index
        PROVE  kv_lrem(i, x) => Without(Items(List', "left"), Items(List, "left"), i, x)
    BY RemStep, Zenon
  <2>5. kv_pop("left") => Items(List', "left") = Tail(Items(List, "left"))
    BY <2>1, PopStep, Zenon
  <2>6. kv_pop("right") => LET v == Items(List, "left")
                           IN  Items(List', "left") = SubSeq(v, 1, Len(v) - 1)
    BY <2>1, PopStep, Zenon
  <2>7. kv_lpoprpush => LET v == Items(List, "left")
                        IN  Items(List', "left") = <<v[Len(v)]>> \o SubSeq(v, 1, Len(v) - 1)
    BY RotateStep, Zenon
  <2> QED
    BY <2>2, <2>3, <2>4, <2>5, <2>6, <2>7, Zenon
<1>2. []ObjInv => [][A]_obj
  BY <1>1, PTL
<1>3. [][A]_obj => ListActsAsSequence
  BY PTL DEF ListActsAsSequence
<1> QED
  BY <1>2, <1>3, StructsKept, PTL

(* kv_sadd, kv_srem, kv_hset and kv_hdel do to a table what they do to a   *)
(* map: the named field changes and no other, also when ht_resize moves    *)
(* every node to another bucket.                                           *)
THEOREM TableCommands == ObjectsSpec => TableActsAsMap
<1> DEFINE A == \A f \in Field :
                  LET Others(ht) == {e \in Content(ht) : e[1] # f}
                  IN  /\ kv_sadd(f) => Content(Set') = Others(Set) \cup {<<f, NULL>>}
                      /\ kv_srem(f) => Content(Set') = Others(Set)
                      /\ kv_hdel(f) => Content(Hash') = Others(Hash)
                      /\ \A x \in Value :
                           kv_hset(f, x) => Content(Hash') = Others(Hash) \cup {<<f, x>>}
<1>1. ObjInv => A
  BY SaddStep, SremStep, HdelStep, HsetStep, Zenon
<1>2. []ObjInv => [][A]_obj
  BY <1>1, PTL
<1>3. [][A]_obj => TableActsAsMap
  BY PTL DEF TableActsAsMap
<1> QED
  BY <1>2, <1>3, StructsKept, PTL

(* dlist_push, dlist_pop and the unlinking of kv_lrem keep both directions *)
(* of a list, its ends and its length in agreement.                        *)
THEOREM ListsWellFormed == ObjectsSpec => []ListShape
<1>1. ObjInv => ListShape
  <2> SUFFICES ASSUME ObjInv PROVE ListShape
    OBVIOUS
  <2> DEFINE l == List
  <2>1. PICK q : Linked(l, "left", q)
    BY FoundInv, Zenon DEF ListInv
  <2> HIDE DEF l
  <2> DEFINE v == Vals(l.value, q)
  <2>2. "left" \in Side /\ Other("left") = "right"
    BY Zenon DEF Side, Other
  <2>3. Cells(l, "left") = q /\ Cells(l, "right") = Reverse(q)
    BY <2>1, <2>2, CellsAre, Zenon
  <2>4. Items(l, "left") = v /\ l.value \in [Node -> Slot] /\ q \in Seq(Node)
    BY <2>1, ItemsAre, Zenon
  <2>5. /\ Len(v) = Len(q) /\ Len(q) \in Nat
        /\ \A i \in 1 .. Len(q) : v[i] = l.value[q[i]] /\ q[i] \in Node
    BY <2>4, ValsSeq, Zenon
  <2>6. Distinct(q) /\ Range(q) = ListCells(l)
    BY <2>1, Zenon DEF Linked, Thread
  <2>7. Cardinality(Range(q)) = Len(q)
    BY <2>4, <2>6, Counted, Zenon
  <2> HIDE DEF v
  <2>8. ASSUME NEW i \in 0 .. MaxIndex - 1
        PROVE  LET n == CellAt(l, -i - 1)
               IN  IF i < Len(v) THEN n # NULL /\ l.value[n] = Reverse(v)[i + 1]
                   ELSE n = NULL /\ CellAt(l, i) = NULL
    <3>1. /\ i \in Nat /\ -i - 1 \in Int /\ -i - 1 < 0 /\ ~(i < 0) /\ i \in Int
          /\ i < Len(q) => ~(-i - 1 + Len(q) < 0 \/ -i - 1 + Len(q) >= Len(q))
          /\ ~(i < Len(q)) => -i - 1 + Len(q) < 0 /\ i >= Len(q)
          /\ i < Len(q) => /\ i + 1 \in 1 .. Len(q) /\ -i - 1 + Len(q) + 1 = Len(q) - i
                           /\ Len(q) + 1 - (i + 1) = Len(q) - i /\ Len(q) - i \in 1 .. Len(q)
      BY <2>5, ObjectsAssumption
    <3> DEFINE a == -i - 1
    <3>2. a \in Int /\ a < 0
      BY <3>1, Zenon
    <3>3. LET j == IF a < 0 THEN a + Len(q) ELSE a
          IN  /\ j < 0 \/ j >= Len(q) => CellAt(l, a) = NULL
              /\ ~(j < 0 \/ j >= Len(q)) => j + 1 \in 1 .. Len(q) /\ CellAt(l, a) = q[j + 1]
      <4> HIDE DEF a
      <4> QED
        BY <2>1, <3>2, CellAtIs, Zenon
    <3>4. LET j == IF i < 0 THEN i + Len(q) ELSE i
          IN  j < 0 \/ j >= Len(q) => CellAt(l, i) = NULL
      BY <2>1, <3>1, CellAtIs, Zenon
    <3>5. CASE i < Len(q)
      <4>1. CellAt(l, -i - 1) = q[Len(q) - i]
        BY <3>1, <3>2, <3>3, <3>5, Zenon
      <4>2. q[Len(q) - i] \in Node /\ l.value[q[Len(q) - i]] = v[Len(q) - i]
        BY <2>5, <3>1, <3>5, Zenon
      <4>3. Reverse(v)[i + 1] = v[Len(q) - i]
        BY <2>5, <3>1, <3>5, Zenon DEF Reverse
      <4> QED
        BY <2>5, <3>5, <4>1, <4>2, <4>3, NullIsNone, Zenon
    <3>6. CASE ~(i < Len(q))
      BY <2>5, <3>1, <3>2, <3>3, <3>4, <3>6, Zenon
    <3> QED
      BY <3>5, <3>6, Zenon
  <2> QED
    BY <2>3, <2>4, <2>6, <2>7, <2>8, Zenon DEF ListShape, l
<1> QED
  BY <1>1, StructsKept, PTL

(* A well-formed table as TableShape has it.                               *)
TableFine(ht) ==
    LET keys == [i \in 1 .. Len(Listed(ht)) |-> Listed(ht)[i].key]
    IN  /\ \A b \in 0 .. ht.cap - 1 : \A n \in Range(ht.buckets[b]) :
             BucketOf(ht, n.key) = b
        /\ Len(keys) = Cardinality(Range(keys)) /\ Len(keys) = ht.count
        /\ Range(keys) = {f \in Field : ht_exists(ht, f)}
        /\ 4 * (ht.count - 1) < 3 * ht.cap

(* A good table is fine.                                                   *)
LEMMA InvFine ==
    ASSUME NEW ht, NEW X, TableInv(ht, X)
    PROVE  TableFine(ht)
<1> DEFINE q == Nodes(ht)
           keys == [i \in 1 .. Len(q) |-> q[i].key]
<1>1. TableOK(ht, X) /\ ht.count = Cardinality(Pairs(ht, X)) /\ 4 * (ht.count - 1) < 3 * ht.cap
  BY Zenon DEF TableInv
<1>2. NodesBelow(q, ht, X, ht.cap)
  BY <1>1, NodesAre, Zenon
<1> HIDE DEF q
<1>3. q \in Seq(Entry(X)) /\ OneEach(q)
  BY <1>2, Zenon DEF NodesBelow
<1>4. ht.count = Len(q) /\ Len(q) \in Nat
  BY <1>1, <1>2, NodesCounted, Zenon
<1>5. ListsPairs(q, ht, X)
  BY <1>1, <1>2, NodePairs, Zenon
<1>6. Listed(ht) = q
  <2>1. Listed(ht) = SubSeq(q, 1, IF ht.count < Len(q) THEN ht.count ELSE Len(q))
    BY Zenon DEF Listed, q
  <2>2. SubSeq(q, 1, Len(q)) = q
    BY <1>3
  <2> QED
    BY <1>4, <2>1, <2>2, Zenon
<1>7. \A i \in 1 .. Len(q) : q[i].key \in Field
  BY <1>3, EntryOf, Zenon
<1>8. keys \in Seq(Field) /\ Len(keys) = Len(q) /\ \A i \in 1 .. Len(q) : keys[i] = q[i].key
  <2>1. keys \in [1 .. Len(q) -> Field]
    BY <1>7, Zenon
  <2>2. \A i \in 1 .. Len(q) : keys[i] = q[i].key
    BY Zenon
  <2> HIDE DEF keys
  <2>3. keys \in Seq(Field) /\ Len(keys) = Len(q)
    BY <1>4, <2>1
  <2> QED
    BY <2>2, <2>3, Zenon
<1> HIDE DEF keys
<1>9. Distinct(keys)
  BY <1>3, <1>8, Zenon DEF Distinct, OneEach
<1>10. Len(keys) = Cardinality(Range(keys))
  BY <1>8, <1>9, Counted, Zenon
<1>11. Range(keys) = {f \in Field : ht_exists(ht, f)}
  <2>1. /\ \A i \in 1 .. Len(keys) : keys[i] \in Range(keys)
        /\ \A x \in Range(keys) : \E i \in 1 .. Len(keys) : x = keys[i]
    BY <1>8, InRange, Zenon
  <2>2. ASSUME NEW i \in 1 .. Len(q) PROVE q[i].key \in Field /\ ht_exists(ht, q[i].key)
    <3>1. <<q[i].key, q[i].value>> \in Pairs(ht, X)
      BY <1>5, Zenon DEF ListsPairs
    <3> QED
      BY <1>1, <1>7, <3>1, PairOf, Zenon
  <2>3. ASSUME NEW f \in Field, ht_exists(ht, f) PROVE \E i \in 1 .. Len(q) : f = q[i].key
    <3>1. <<f, ht_get(ht, f)>> \in Pairs(ht, X)
      BY <1>1, <2>3, PairOf, Zenon
    <3>2. PICK i \in 1 .. Len(q) : <<f, ht_get(ht, f)>> = <<q[i].key, q[i].value>>
      BY <1>5, <3>1, Zenon DEF ListsPairs
    <3>3. f = q[i].key
      BY <3>2
    <3> QED
      BY <3>3, Zenon
  <2>4. \A f : f \in Range(keys) => f \in Field /\ ht_exists(ht, f)
    BY <1>8, <2>1, <2>2, Zenon
  <2>5. \A f \in Field : ht_exists(ht, f) => f \in Range(keys)
    BY <1>8, <2>1, <2>3, Zenon
  <2> QED
    BY <2>4, <2>5, Zenon
<1>12. ASSUME NEW b \in 0 .. ht.cap - 1, NEW n \in Range(ht.buckets[b])
       PROVE  BucketOf(ht, n.key) = b
  <2>1. ht.buckets[b] \in Seq(Entry(X))
    BY <1>1, Zenon DEF TableOK, TableStruct
  <2>2. PICK i \in 1 .. Len(ht.buckets[b]) : n = ht.buckets[b][i]
    BY <2>1, InRange, Zenon
  <2> QED
    BY <1>1, <2>2, Zenon DEF TableOK
<1>13. keys = [i \in 1 .. Len(Listed(ht)) |-> Listed(ht)[i].key]
  BY <1>6, Zenon DEF keys
<1>14. Len(keys) = ht.count
  BY <1>4, <1>8, Zenon
<1> QED
  BY <1>1, <1>10, <1>11, <1>12, <1>13, <1>14, Zenon DEF TableFine

(* ht_add, ht_remove and ht_resize keep every node in the bucket of its    *)
(* field, no field twice, the count the number of fields, and the load     *)
(* within the limit.                                                       *)
THEOREM TablesWellFormed == ObjectsSpec => []TableShape
<1>1. ObjInv => TableShape
  <2>1. ObjInv => TableFine(Set) /\ TableFine(Hash)
    BY FoundInv, InvFine, Zenon
  <2> QED
    BY <2>1, Zenon DEF TableShape, TableFine
<1> QED
  BY <1>1, StructsKept, PTL
=============================================================================
