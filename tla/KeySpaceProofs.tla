--------------------------- MODULE KeySpaceProofs ---------------------------
(***************************************************************************)
(* Proofs about KeySpace, for every set of keys, every hash function and   *)
(* every initial capacity greater than one: the inductive invariant Inv,   *)
(* the properties that follow from it, and the refinement of KeyMap by     *)
(* behaviours in which no probe is exhausted.                              *)
(***************************************************************************)
EXTENDS KeySpace, FiniteSetTheorems, WellFoundedInduction, TLAPS

-----------------------------------------------------------------------------
(* Arithmetic.                                                             *)

(* A nonempty set of naturals has a least element: the loop of probe ends  *)
(* at a first round.                                                       *)
LEMMA LeastNat ==
    ASSUME NEW T \in SUBSET Nat, T # {}
    PROVE  \E x \in T : \A y \in T : x <= y
<1> DEFINE R == {ss \in Nat \X Nat : ss[1] < ss[2]}
<1>1. IsWellFoundedOn(R, Nat)
  BY NatLessThanWellFounded, Zenon DEF OpToRel
<1> HIDE DEF R
<1>2. PICK x \in T : \A y \in T : ~(<<y, x>> \in R)
  BY <1>1, WFMin, Zenon
<1>3. ASSUME NEW y \in T PROVE x <= y
  <2>1. x \in Nat /\ y \in Nat
    BY Zenon
  <2>2. ASSUME y < x PROVE FALSE
    <3>1. <<y, x>> \in R
      BY <2>1, <2>2, Zenon DEF R
    <3>2. QED
      BY <1>2, <3>1, Zenon
  <2>3. QED
    BY <2>1, <2>2
<1>4. QED
  BY <1>2, <1>3, Zenon

(* Quotient and remainder are unique.                                      *)
LEMMA RemainderUnique ==
    ASSUME NEW c \in Nat, c > 0, NEW q1 \in Int, NEW q2 \in Int,
           NEW r1 \in 0 .. (c - 1), NEW r2 \in 0 .. (c - 1),
           c * q1 + r1 = c * q2 + r2
    PROVE  r1 = r2
<1>1. CASE q1 = q2
  BY <1>1
<1>2. CASE q1 < q2
  <2>1. c * (q2 - q1) = r1 - r2
    OBVIOUS
  <2>2. c * (q2 - q1) >= c
    BY <1>2
  <2>3. QED
    BY <2>1, <2>2
<1>3. CASE q2 < q1
  <2>1. c * (q1 - q2) = r2 - r1
    OBVIOUS
  <2>2. c * (q1 - q2) >= c
    BY <1>3
  <2>3. QED
    BY <2>1, <2>2
<1>4. QED
  BY <1>1, <1>2, <1>3

(* Adding c * c does not move an index of a table of c slots: the last     *)
(* round of an exhausted probe returns the slot it has just examined.      *)
LEMMA SquareStep ==
    ASSUME NEW a \in Nat, NEW c \in Nat, c > 0
    PROVE  (a + c * c) % c = a % c
<1> DEFINE b == a + c * c
<1>1. b \in Nat
  OBVIOUS
<1>2. a = c * (a \div c) + (a % c) /\ a % c \in 0 .. (c - 1) /\ a \div c \in Int
  OBVIOUS
<1>3. b = c * (b \div c) + (b % c) /\ b % c \in 0 .. (c - 1) /\ b \div c \in Int
  BY <1>1
<1>4. c * ((a \div c) + c) + (a % c) = c * (b \div c) + (b % c)
  BY <1>2, <1>3
<1>5. (a \div c) + c \in Int
  BY <1>2
<1> HIDE DEF b
<1>6. a % c = b % c
  BY <1>2, <1>3, <1>4, <1>5, RemainderUnique, Zenon
<1>7. QED
  BY <1>6, Zenon DEF b

LEMMA DivStep ==
    ASSUME NEW x \in Int, NEW y \in Int, NEW z \in Int, x = y + 6 * z
    PROVE  x \div 6 = (y \div 6) + z
  OBVIOUS

(* The closed form of SumOfSquares satisfies the recurrence of the code,   *)
(* idx + i * i.                                                            *)
LEMMA SumOfSquaresStep ==
    ASSUME NEW i \in Nat, i > 0
    PROVE  /\ SumOfSquares(i) \in Nat
           /\ SumOfSquares(i) = SumOfSquares(i - 1) + i * i
<1>1. i * (i + 1) * (2 * i + 1)
        = (i - 1) * ((i - 1) + 1) * (2 * (i - 1) + 1) + 6 * (i * i)
  OBVIOUS
<1>2. QED
  BY <1>1, DivStep DEF SumOfSquares

LEMMA SumOfSquaresNat ==
    ASSUME NEW i \in Nat
    PROVE  SumOfSquares(i) \in Nat
  BY DEF SumOfSquares

-----------------------------------------------------------------------------
(* The probe path.                                                         *)

LEMMA ProbeSlotRange ==
    ASSUME NEW c \in Nat, c > 0, NEW key \in Key, NEW i \in Nat
    PROVE  ProbeSlot(c, key, i) \in 0 .. (c - 1)
<1>1. Hash[key] + SumOfSquares(i) \in Nat
  BY SumOfSquaresNat, KeySpaceAssumption
<1>2. QED
  BY <1>1 DEF ProbeSlot

LEMMA ProbeSlotLast ==
    ASSUME NEW c \in Nat, c > 0, NEW key \in Key
    PROVE  ProbeSlot(c, key, c) = ProbeSlot(c, key, c - 1)
<1>1. Hash[key] + SumOfSquares(c - 1) \in Nat
  BY SumOfSquaresNat, KeySpaceAssumption
<1>2. Hash[key] + SumOfSquares(c) = (Hash[key] + SumOfSquares(c - 1)) + c * c
  BY SumOfSquaresStep, SumOfSquaresNat, KeySpaceAssumption
<1>3. QED
  BY <1>1, <1>2, SquareStep, Zenon DEF ProbeSlot

(* The loop of probe ends, after a unique number of rounds.                *)
LEMMA ProbeEndsOnce ==
    ASSUME NEW t, NEW c \in Nat, NEW key \in Key,
           NEW m \in 0 .. c, NEW n \in 0 .. c,
           ProbeEnds(t, c, key, m), ProbeEnds(t, c, key, n)
    PROVE  m = n
  BY DEF ProbeEnds

LEMMA RoundsEnd ==
    ASSUME NEW t, NEW c \in Nat, NEW key \in Key
    PROVE  /\ Rounds(t, c, key) \in 0 .. c
           /\ ProbeEnds(t, c, key, Rounds(t, c, key))
<1> DEFINE T == {i \in 0 .. c : i < c => Stops(t, c, key, i)}
<1>1. T \in SUBSET Nat /\ T # {}
  OBVIOUS
<1>2. PICK n \in T : \A y \in T : n <= y
  BY <1>1, LeastNat, Zenon
<1>3. n \in 0 .. c /\ ProbeEnds(t, c, key, n)
  BY <1>2 DEF ProbeEnds
<1>4. QED
  BY <1>3, Zenon DEF Rounds

(* What probe returns.                                                     *)
LEMMA ProbeResult ==
    ASSUME NEW t, NEW c \in Nat, c > 0, NEW key \in Key
    PROVE  /\ probe(t, c, key).idx \in 0 .. (c - 1)
           /\ probe(t, c, key).idx = ProbeSlot(c, key, Rounds(t, c, key))
           /\ probe(t, c, key).found <=> Holds(t, key, probe(t, c, key).idx)
<1> DEFINE n == Rounds(t, c, key)
           s == ProbeSlot(c, key, n)
<1>1. n \in 0 .. c /\ ProbeEnds(t, c, key, n)
  BY RoundsEnd, Zenon
<1>2. s \in 0 .. (c - 1)
  BY <1>1, ProbeSlotRange
<1>3. ASSUME n = c PROVE ~Holds(t, key, s)
  <2>1. s = ProbeSlot(c, key, c - 1)
    BY <1>3, ProbeSlotLast, Zenon
  <2>2. ~Stops(t, c, key, c - 1)
    BY <1>1, <1>3 DEF ProbeEnds
  <2>3. QED
    BY <2>1, <2>2, Zenon DEF Stops
<1>4. probe(t, c, key).idx = s
  BY Zenon DEF probe
<1>5. probe(t, c, key).found <=> n < c /\ Holds(t, key, s)
  BY Zenon DEF probe
<1>6. n < c \/ n = c
  BY <1>1
<1> HIDE DEF n, s
<1>7. QED
  BY <1>2, <1>3, <1>4, <1>5, <1>6, Zenon DEF n, s

-----------------------------------------------------------------------------
(* KeysFindable, of a table t of c slots.                                  *)
Findable(t, c) ==
    \A idx \in 0 .. (c - 1) :
      t[idx].state = "E_OCCUPIED" =>
        probe(t, c, t[idx].key).found /\ probe(t, c, t[idx].key).idx = idx

(* A key is found at the slot where its probe path first stops.            *)
LEMMA ProbeFinds ==
    ASSUME NEW t, NEW c \in Nat, c > 0, NEW key \in Key,
           NEW n \in 0 .. (c - 1), ProbeEnds(t, c, key, n),
           Holds(t, key, ProbeSlot(c, key, n))
    PROVE  /\ probe(t, c, key).found
           /\ probe(t, c, key).idx = ProbeSlot(c, key, n)
<1>1. Rounds(t, c, key) = n
  BY RoundsEnd, ProbeEndsOnce
<1>2. probe(t, c, key).idx = ProbeSlot(c, key, n)
  BY <1>1, ProbeResult, Zenon
<1>3. QED
  BY <1>2, ProbeResult, Zenon

(* A slot that is found is the first stop, before the break.               *)
LEMMA FoundRounds ==
    ASSUME NEW t, NEW c \in Nat, c > 0, NEW key \in Key,
           probe(t, c, key).found
    PROVE  Rounds(t, c, key) \in 0 .. (c - 1)
<1>1. Rounds(t, c, key) \in 0 .. c
  BY RoundsEnd, Zenon
<1>2. Rounds(t, c, key) < c
  BY Zenon DEF probe
<1>3. QED
  BY <1>1, <1>2

(* Writing the slot that probe returns, free or not, keeps every key that  *)
(* remains findable, and makes the new key findable.                       *)
LEMMA InsertFindable ==
    ASSUME NEW c \in Nat, c > 0, NEW t, IsTable(t, c), Findable(t, c),
           NEW key \in Key, NEW slot \in kv_entry,
           slot.state = "E_OCCUPIED", slot.key = key,
           NEW u, u = [t EXCEPT ![probe(t, c, key).idx] = slot]
    PROVE  Findable(u, c)
<1> DEFINE m == Rounds(t, c, key)
           p == probe(t, c, key).idx
<1>1. m \in 0 .. c /\ ProbeEnds(t, c, key, m) /\ p = ProbeSlot(c, key, m)
  BY RoundsEnd, ProbeResult, Zenon
<1>2. p \in 0 .. (c - 1)
  BY ProbeResult, Zenon
<1>3. /\ u \in [0 .. (c - 1) -> kv_entry]
      /\ u[p] = slot
      /\ \A j \in 0 .. (c - 1) : j # p => u[j] = t[j]
  BY <1>2, Zenon DEF IsTable
<1> HIDE DEF m, p
<1>4. ASSUME NEW idx \in 0 .. (c - 1), u[idx].state = "E_OCCUPIED", idx = p
      PROVE  probe(u, c, u[idx].key).found /\ probe(u, c, u[idx].key).idx = idx
  <2> DEFINE T == {i \in 0 .. (c - 1) : ProbeSlot(c, key, i) = p}
  <2>1. T \in SUBSET Nat /\ T # {} /\ \E i \in T : i <= m
    <3>1. CASE m < c
      BY <1>1, <3>1
    <3>2. CASE m = c
      <4>1. c - 1 \in T
        BY <1>1, <3>2, ProbeSlotLast
      <4>2. QED
        BY <4>1, <3>2
    <3>3. QED
      BY <1>1, <3>1, <3>2
  <2>2. PICK n \in T : \A y \in T : n <= y
    BY <2>1, LeastNat, Zenon
  <2>3. n \in 0 .. (c - 1) /\ ProbeSlot(c, key, n) = p /\ n <= m
    BY <2>1, <2>2, <1>1
  <2>4. Holds(u, key, ProbeSlot(c, key, n))
    BY <1>3, <2>3, Zenon DEF Holds
  <2>5. ASSUME NEW i \in 0 .. (n - 1) PROVE ~Stops(u, c, key, i)
    <3>1. i \in 0 .. (c - 1) /\ i \in 0 .. (m - 1) /\ i \notin T
      BY <2>2, <2>3, <1>1
    <3>2. ProbeSlot(c, key, i) # p /\ ProbeSlot(c, key, i) \in 0 .. (c - 1)
      BY <3>1, ProbeSlotRange
    <3>3. ~Stops(t, c, key, i)
      BY <1>1, <3>1, Zenon DEF ProbeEnds
    <3>4. QED
      BY <3>2, <3>3, <1>3, Zenon DEF Stops, Holds
  <2>6. ProbeEnds(u, c, key, n)
    BY <2>4, <2>5, Zenon DEF ProbeEnds, Stops
  <2>7. QED
    BY <2>3, <2>4, <2>6, <1>3, <1>4, ProbeFinds
<1>5. ASSUME NEW idx \in 0 .. (c - 1), u[idx].state = "E_OCCUPIED", idx # p
      PROVE  probe(u, c, u[idx].key).found /\ probe(u, c, u[idx].key).idx = idx
  <2> DEFINE k == t[idx].key
             n == Rounds(t, c, k)
  <2>1. u[idx] = t[idx] /\ t[idx].state = "E_OCCUPIED" /\ k \in Key
    BY <1>3, <1>5, Zenon DEF IsTable
  <2>2. probe(t, c, k).found /\ probe(t, c, k).idx = idx
    BY <2>1, Zenon DEF Findable
  <2>3. n \in 0 .. (c - 1) /\ ProbeEnds(t, c, k, n) /\ ProbeSlot(c, k, n) = idx
    BY <2>1, <2>2, FoundRounds, RoundsEnd, ProbeResult, Zenon
  <2>4. k # key
    BY <2>2, <1>5, Zenon DEF p
  <2> HIDE DEF k, n
  <2>5. ASSUME NEW i \in 0 .. (n - 1) PROVE ~Stops(u, c, k, i)
    <3>1. ProbeSlot(c, k, i) \in 0 .. (c - 1)
      BY <2>1, <2>3, ProbeSlotRange
    <3>2. ~Stops(t, c, k, i)
      BY <2>3, Zenon DEF ProbeEnds
    <3>3. QED
      BY <3>1, <3>2, <2>4, <1>3, Zenon DEF Stops, Holds
  <2>6. Holds(u, k, ProbeSlot(c, k, n))
    BY <2>1, <2>3, Zenon DEF Holds, k
  <2>7. ProbeEnds(u, c, k, n)
    BY <2>5, <2>6, Zenon DEF ProbeEnds, Stops
  <2>8. probe(u, c, k).found /\ probe(u, c, k).idx = idx
    BY <2>1, <2>3, <2>6, <2>7, ProbeFinds, Zenon
  <2>9. QED
    BY <2>1, <2>8, Zenon DEF k
<1>6. QED
  BY <1>4, <1>5, Zenon DEF Findable

(* So does any change that empties no slot and renames none: a deletion    *)
(* leaves a tombstone, a new expiry time keeps key and state.              *)
LEMMA KeepFindable ==
    ASSUME NEW c \in Nat, c > 0, NEW t, IsTable(t, c), Findable(t, c),
           NEW u,
           \A j \in 0 .. (c - 1) :
             \/ u[j].state = "E_DELETED" /\ t[j].state # "E_EMPTY"
             \/ u[j].state = t[j].state /\ u[j].key = t[j].key
    PROVE  Findable(u, c)
<1> SUFFICES ASSUME NEW idx \in 0 .. (c - 1), u[idx].state = "E_OCCUPIED"
             PROVE  /\ probe(u, c, u[idx].key).found
                    /\ probe(u, c, u[idx].key).idx = idx
  BY Zenon DEF Findable
<1> DEFINE k == t[idx].key
           n == Rounds(t, c, k)
<1>1. t[idx].state = "E_OCCUPIED" /\ u[idx].key = k /\ k \in Key
  BY Zenon DEF IsTable
<1>2. probe(t, c, k).found /\ probe(t, c, k).idx = idx
  BY <1>1, Zenon DEF Findable
<1>3. n \in 0 .. (c - 1) /\ ProbeEnds(t, c, k, n) /\ ProbeSlot(c, k, n) = idx
  BY <1>1, <1>2, FoundRounds, RoundsEnd, ProbeResult, Zenon
<1> HIDE DEF k, n
<1>4. ASSUME NEW i \in 0 .. (n - 1) PROVE ~Stops(u, c, k, i)
  <2>1. ProbeSlot(c, k, i) \in 0 .. (c - 1)
    BY <1>1, <1>3, ProbeSlotRange
  <2>2. ~Stops(t, c, k, i)
    BY <1>3, Zenon DEF ProbeEnds
  <2>3. QED
    BY <2>1, <2>2, Zenon DEF Stops, Holds
<1>5. Holds(u, k, ProbeSlot(c, k, n))
  BY <1>1, <1>3, Zenon DEF Holds
<1>6. ProbeEnds(u, c, k, n)
  BY <1>4, <1>5, Zenon DEF ProbeEnds, Stops
<1>7. QED
  BY <1>1, <1>3, <1>5, <1>6, ProbeFinds, Zenon

-----------------------------------------------------------------------------
(* The steps that write the table preserve the parts of Inv about it.      *)

LEMMA OccupiedFinite ==
    ASSUME capacity \in Nat
    PROVE  IsFiniteSet(Occupied) /\ Cardinality(Occupied) \in Nat
<1>1. IsFiniteSet(0 .. (capacity - 1))
  BY FS_Interval
<1>2. Occupied \in SUBSET (0 .. (capacity - 1))
  BY Zenon DEF Occupied
<1>3. QED
  BY <1>1, <1>2, FS_Subset, FS_CardinalityType, Zenon

LEMMA KeysFindableAt ==
    /\ KeysFindable <=> Findable(entries, capacity)
    /\ KeysFindable' <=> Findable(entries', capacity')
  BY Zenon DEF KeysFindable, Findable, Occupied

(* The conjuncts of Inv that speak of the current table.                   *)
TableInv ==
    /\ capacity \in Nat /\ capacity > 1 /\ count \in Nat /\ db_version \in Nat
    /\ IsTable(entries, capacity)
    /\ KeysFindable
    /\ Cardinality(Occupied) <= count
    /\ VersionCoversObjects

LEMMA FoundOccupied ==
    ASSUME TableInv, NEW key \in Key, probe(entries, capacity, key).found
    PROVE  probe(entries, capacity, key).idx \in Occupied
<1>1. capacity \in Nat /\ capacity > 0
  BY DEF TableInv
<1>2. /\ probe(entries, capacity, key).idx \in 0 .. (capacity - 1)
      /\ Holds(entries, key, probe(entries, capacity, key).idx)
  BY <1>1, ProbeResult, Zenon
<1>3. QED
  BY <1>2, Zenon DEF Occupied, Holds

(* Writing key and object into the slot that probe returns.                *)
LEMMA InsertStep ==
    ASSUME TableInv, NEW slot \in kv_entry, slot.state = "E_OCCUPIED",
           slot.key \in Key, slot.obj \in db_object_t,
           capacity' = capacity, db_version' \in Nat, db_version' >= db_version,
           slot.obj.meta.version <= db_version',
           entries' = [entries EXCEPT
                         ![probe(entries, capacity, slot.key).idx] = slot],
           count' \in Nat, count' >= count,
           probe(entries, capacity, slot.key).found \/ count' = count + 1
    PROVE  TableInv'
<1> DEFINE p == probe(entries, capacity, slot.key).idx
<1>1. p \in 0 .. (capacity - 1)
  BY ProbeResult DEF TableInv
<1>2. /\ entries' \in [0 .. (capacity - 1) -> kv_entry]
      /\ entries'[p] = slot
      /\ \A j \in 0 .. (capacity - 1) : j # p => entries'[j] = entries[j]
  BY <1>1, Zenon DEF TableInv, IsTable
<1>3. KeysFindable'
  <2>1. /\ Findable(entries, capacity) /\ IsTable(entries, capacity)
        /\ capacity \in Nat /\ capacity > 0
    BY KeysFindableAt DEF TableInv
  <2>2. Findable(entries', capacity)
    BY <2>1, InsertFindable, Zenon
  <2>3. QED
    BY <2>2, KeysFindableAt, Zenon
<1>4. probe(entries, capacity, slot.key).found => p \in Occupied
  BY FoundOccupied, Zenon
<1> HIDE DEF p
<1>5. IsTable(entries', capacity')
  BY <1>2, Zenon DEF IsTable, TableInv
<1>6. Occupied' = Occupied \cup {p}
  BY <1>1, <1>2, Zenon DEF Occupied
<1>7. Cardinality(Occupied') <= count'
  <2>1. IsFiniteSet(Occupied) /\ Cardinality(Occupied) \in Nat
    BY OccupiedFinite, Zenon DEF TableInv
  <2>2. Cardinality(Occupied \cup {p}) =
          IF p \in Occupied THEN Cardinality(Occupied) ELSE Cardinality(Occupied) + 1
    BY <2>1, FS_AddElement, Zenon
  <2>3. QED
    BY <2>1, <2>2, <1>4, <1>6 DEF TableInv
<1>8. VersionCoversObjects'
  <2> SUFFICES ASSUME NEW idx \in Occupied'
               PROVE  entries'[idx].obj.meta.version <= db_version'
    BY Zenon DEF VersionCoversObjects
  <2>1. CASE idx = p
    BY <2>1, <1>2, Zenon
  <2>2. CASE idx # p
    <3>1. idx \in Occupied /\ idx \in 0 .. (capacity - 1) /\ entries'[idx] = entries[idx]
      BY <2>2, <1>2, <1>6, Zenon DEF Occupied
    <3>2. entries[idx].obj \in db_object_t
      BY <3>1, Zenon DEF TableInv, IsTable, Occupied
    <3>3. entries[idx].obj.meta.version \in Nat
      BY <3>2, Zenon DEF db_object_t, kv_meta_t
    <3>4. QED
      BY <3>1, <3>3 DEF TableInv, VersionCoversObjects
  <2>3. QED
    BY <2>1, <2>2, Zenon
<1>9. QED
  BY <1>3, <1>5, <1>7, <1>8, Zenon DEF TableInv

(* Turning an occupied slot into a tombstone.                              *)
LEMMA RemoveStep ==
    ASSUME TableInv, NEW idx \in Occupied, RemoveAt(idx),
           capacity' = capacity, db_version' \in Nat, db_version' >= db_version
    PROVE  TableInv' /\ count' < count
<1>1. idx \in 0 .. (capacity - 1)
  BY Zenon DEF Occupied
<1>2. /\ entries' \in [0 .. (capacity - 1) -> kv_entry]
      /\ entries'[idx] = DeletedSlot
      /\ \A j \in 0 .. (capacity - 1) : j # idx => entries'[j] = entries[j]
  BY <1>1, Zenon DEF TableInv, IsTable, RemoveAt, DeletedSlot, kv_entry
<1>3. IsTable(entries', capacity')
  BY <1>2 DEF IsTable, TableInv, DeletedSlot
<1>4. Occupied' = Occupied \ {idx}
  BY <1>1, <1>2 DEF Occupied, DeletedSlot
<1>5. KeysFindable'
  <2>1. /\ Findable(entries, capacity) /\ IsTable(entries, capacity)
        /\ capacity \in Nat /\ capacity > 0
    BY KeysFindableAt DEF TableInv
  <2>2. ASSUME NEW j \in 0 .. (capacity - 1)
        PROVE  \/ entries'[j].state = "E_DELETED" /\ entries[j].state # "E_EMPTY"
               \/ entries'[j].state = entries[j].state /\ entries'[j].key = entries[j].key
    <3>1. CASE j = idx
      BY <3>1, <1>2 DEF Occupied, DeletedSlot
    <3>2. CASE j # idx
      BY <3>2, <1>2, Zenon
    <3>3. QED
      BY <3>1, <3>2, Zenon
  <2>3. Findable(entries', capacity)
    BY <2>1, <2>2, KeepFindable, Zenon
  <2>4. QED
    BY <2>3, KeysFindableAt, Zenon
<1>6. count' = count - 1 /\ count' \in Nat /\ Cardinality(Occupied') <= count'
  <2>1. IsFiniteSet(Occupied) /\ Cardinality(Occupied) \in Nat
    BY OccupiedFinite, Zenon DEF TableInv
  <2>2. Cardinality(Occupied \ {idx}) = Cardinality(Occupied) - 1
    BY <2>1, FS_RemoveElement, Zenon
  <2>3. IsFiniteSet(Occupied \ {idx})
    BY <2>1, FS_RemoveElement, Zenon
  <2>4. Cardinality(Occupied \ {idx}) \in Nat
    BY <2>3, FS_CardinalityType, Zenon
  <2>5. QED
    BY <2>1, <2>2, <2>4, <1>4 DEF TableInv, RemoveAt
<1>7. VersionCoversObjects'
  <2> SUFFICES ASSUME NEW j \in Occupied'
               PROVE  entries'[j].obj.meta.version <= db_version'
    BY Zenon DEF VersionCoversObjects
  <2>1. j \in Occupied /\ j \in 0 .. (capacity - 1) /\ entries'[j] = entries[j]
    BY <1>2, <1>4, Zenon DEF Occupied
  <2>2. entries[j].obj \in db_object_t
    BY <2>1, Zenon DEF TableInv, IsTable, Occupied
  <2>3. entries[j].obj.meta.version \in Nat
    BY <2>2, Zenon DEF db_object_t, kv_meta_t
  <2>4. QED
    BY <2>1, <2>3 DEF TableInv, VersionCoversObjects
<1>8. QED
  BY <1>3, <1>5, <1>6, <1>7 DEF TableInv

(* A new expiry time.                                                      *)
LEMMA TtlStep ==
    ASSUME TableInv, NEW idx \in Occupied, NEW ttl \in Int,
           entries' = [entries EXCEPT ![idx].obj.ttl = ttl],
           UNCHANGED <<capacity, count, db_version>>
    PROVE  TableInv'
<1>1. idx \in 0 .. (capacity - 1) /\ entries[idx].state = "E_OCCUPIED"
  BY Zenon DEF Occupied
<1>2. entries[idx].key \in Key /\ entries[idx].obj \in db_object_t
  BY <1>1, Zenon DEF TableInv, IsTable
<1> DEFINE new == [entries[idx] EXCEPT !.obj.ttl = ttl]
<1>3. /\ new \in kv_entry /\ new.state = "E_OCCUPIED" /\ new.key = entries[idx].key
      /\ new.obj \in db_object_t /\ new.obj.meta = entries[idx].obj.meta
  BY <1>1, <1>2, Zenon DEF TableInv, IsTable, kv_entry, db_object_t
<1>4. /\ entries' \in [0 .. (capacity - 1) -> kv_entry]
      /\ entries'[idx] = new
      /\ \A j \in 0 .. (capacity - 1) : j # idx => entries'[j] = entries[j]
  BY <1>1, <1>3, Zenon DEF TableInv, IsTable
<1> HIDE DEF new
<1>5. IsTable(entries', capacity')
  BY <1>2, <1>3, <1>4, Zenon DEF IsTable, TableInv
<1>6. \A j \in 0 .. (capacity - 1) :
        /\ entries'[j].state = entries[j].state /\ entries'[j].key = entries[j].key
        /\ entries'[j].obj.meta = entries[j].obj.meta
  BY <1>1, <1>3, <1>4, Zenon
<1>7. Occupied' = Occupied
  BY <1>6, Zenon DEF Occupied
<1>8. KeysFindable'
  <2>1. /\ Findable(entries, capacity) /\ IsTable(entries, capacity)
        /\ capacity \in Nat /\ capacity > 0
    BY KeysFindableAt DEF TableInv
  <2>2. Findable(entries', capacity)
    BY <2>1, <1>6, KeepFindable, Zenon
  <2>3. QED
    BY <2>2, KeysFindableAt, Zenon
<1>9. VersionCoversObjects'
  BY <1>6, <1>7, ZenonT(30) DEF TableInv, VersionCoversObjects, Occupied
<1>10. QED
  BY <1>5, <1>7, <1>8, <1>9, Zenon DEF TableInv

(* A table of empty slots.                                                 *)
LEMMA EmptyTable ==
    ASSUME NEW c \in Nat, c > 1,
           capacity' = c, entries' = [i \in 0 .. (c - 1) |-> EmptySlot],
           count' = 0, db_version' \in Nat
    PROVE  TableInv' /\ Occupied' = {}
<1>1. IsTable(entries', c)
  BY Zenon DEF IsTable, EmptySlot, kv_entry
<1>2. Occupied' = {}
  BY Zenon DEF Occupied, EmptySlot
<1>3. KeysFindable' /\ VersionCoversObjects'
  BY <1>2, Zenon DEF KeysFindable, VersionCoversObjects
<1>4. Cardinality(Occupied') = 0
  BY <1>2, FS_EmptySet, Zenon
<1>5. QED
  BY <1>1, <1>2, <1>3, <1>4 DEF TableInv

-----------------------------------------------------------------------------
(* Inv is inductive.                                                       *)

LoopTypes ==
    /\ pending \in Request \cup {NoRequest}
    /\ moved \in 0 .. (capacity \div 2)
    /\ pending # NoRequest =>
         capacity % 2 = 0 /\ capacity > 3 /\ IsTable(old, capacity \div 2)

(* The load factor, as count grows by one or is at most half the slots.    *)
LEMMA LoadStep ==
    \A m, n, c \in Nat : n <= m /\ 4 * m <= 3 * c => 4 * n <= 3 * c
  OBVIOUS

LEMMA LoadHalf ==
    \A n, c \in Nat : n <= c \div 2 => 4 * n <= 3 * c
  OBVIOUS

LEMMA InvParts ==
    /\ Inv <=> TableInv /\ LoopTypes /\ LoadBounded /\ ResizeSound
    /\ Inv' <=> TableInv' /\ LoopTypes' /\ LoadBounded' /\ ResizeSound'
  BY Zenon DEF Inv, TypeOK, TableInv, LoopTypes

LEMMA InitInv == Init => Inv
<1> SUFFICES ASSUME Init PROVE Inv
  BY Zenon
<1>1. capacity \in Nat /\ capacity > 1 /\ count = 0 /\ db_version = 0
  BY KeySpaceAssumption, Zenon DEF Init
<1>2. IsTable(entries, capacity)
  BY Zenon DEF Init, IsTable, EmptySlot, kv_entry
<1>3. Occupied = {}
  BY Zenon DEF Init, Occupied, EmptySlot
<1>4. KeysFindable /\ VersionCoversObjects
  BY <1>3, Zenon DEF KeysFindable, VersionCoversObjects
<1>5. Cardinality(Occupied) = 0
  BY <1>3, FS_EmptySet, Zenon
<1>6. TableInv
  BY <1>1, <1>2, <1>4, <1>5 DEF TableInv
<1>7. LoopTypes /\ LoadBounded /\ ResizeSound
  BY <1>1 DEF Init, LoopTypes, LoadBounded, ResizeSound
<1>8. QED
  BY <1>6, <1>7, InvParts, Zenon

(* db_version never runs backwards.                                        *)
LEMMA CoveringGrows ==
    ASSUME db_version \in Nat, NEW meta \in kv_meta_t \cup {NoMeta}
    PROVE  /\ Covering(meta) \in Nat /\ Covering(meta) >= db_version
           /\ meta # NoMeta => meta.version <= Covering(meta)
  BY DEF Covering, kv_meta_t

(* A SET that needs no resize, or the end of one that does.                *)
LEMMA StoreStep ==
    ASSUME TableInv, NEW req \in Request, Store(req), capacity' = capacity,
           req.meta # NoMeta => req.obj.meta = req.meta,
           req.meta = NoMeta => req.obj.meta.version <= db_version
    PROVE  TableInv' /\ count' <= count + 1
<1> DEFINE slot == OccupiedSlot(req.key, req.obj)
<1>1. /\ slot \in kv_entry /\ slot.state = "E_OCCUPIED" /\ slot.key = req.key
      /\ slot.obj = req.obj
  BY Zenon DEF OccupiedSlot, kv_entry, Request
<1>2. /\ req.key \in Key /\ req.obj \in db_object_t
      /\ req.meta \in kv_meta_t \cup {NoMeta} /\ req.obj.meta.version \in Nat
  BY Zenon DEF Request, db_object_t, kv_meta_t
<1>3. /\ db_version' \in Nat /\ db_version' >= db_version
      /\ req.obj.meta.version <= db_version'
  BY <1>2, CoveringGrows DEF Store, TableInv
<1>4. /\ count' \in Nat /\ count' >= count /\ count' <= count + 1
      /\ probe(entries, capacity, req.key).found \/ count' = count + 1
  BY DEF Store, TableInv
<1>5. entries' = [entries EXCEPT ![probe(entries, capacity, slot.key).idx] = slot]
  BY <1>1, Zenon DEF Store
<1> HIDE DEF slot
<1>6. TableInv'
  BY <1>1, <1>2, <1>3, <1>4, <1>5, InsertStep, Zenon
<1>7. QED
  BY <1>4, <1>6, Zenon

LEMMA SetInv ==
    ASSUME Inv, NEW key \in Key, NEW own \in kv_meta_t,
           NEW meta \in kv_meta_t \cup {NoMeta},
           meta = NoMeta => own.version <= db_version,
           kv_set_object(key, own, meta)
    PROVE  Inv'
<1> DEFINE req == [key  |-> key,
                   obj  |-> [meta |-> IF meta = NoMeta THEN own ELSE meta,
                             ttl  |-> -1],
                   meta |-> meta]
<1>1. TableInv /\ LoopTypes /\ LoadBounded /\ ResizeSound
  BY InvParts, Zenon
<1>2. /\ req \in Request
      /\ req.meta # NoMeta => req.obj.meta = req.meta
      /\ req.meta = NoMeta => req.obj.meta.version <= db_version
  BY DEF Request, db_object_t
<1>3. /\ pending = NoRequest
      /\ \/ Crowded /\ BeginResize(req)
         \/ ~Crowded /\ Store(req) /\ UNCHANGED <<capacity, old, moved, pending>>
  BY Zenon DEF kv_set_object
<1> HIDE DEF req
<1>4. CASE ~Crowded /\ Store(req) /\ UNCHANGED <<capacity, old, moved, pending>>
  <2>1. TableInv' /\ count' <= count + 1
    BY <1>1, <1>2, <1>4, StoreStep, ZenonT(30)
  <2>2. LoadBounded'
    <3>1. count \in Nat /\ count' \in Nat /\ capacity \in Nat /\ capacity' = capacity
      BY <1>1, <1>4, <2>1, Zenon DEF TableInv
    <3>2. 4 * (count + 1) <= 3 * capacity
      BY <1>4, <3>1 DEF Crowded
    <3>3. count + 1 \in Nat
      BY <3>1
    <3>4. 4 * count' <= 3 * capacity
      BY <2>1, <3>1, <3>2, <3>3, LoadStep, Zenon
    <3>5. QED
      BY <3>1, <3>4, Zenon DEF LoadBounded
  <2>3. LoopTypes' /\ ResizeSound'
    BY <1>1, <1>3, <1>4, Zenon DEF LoopTypes, ResizeSound
  <2>4. QED
    BY <2>1, <2>2, <2>3, InvParts, Zenon
<1>5. CASE Crowded /\ BeginResize(req)
  <2>1. capacity \in Nat /\ capacity > 1 /\ count \in Nat /\ db_version \in Nat
    BY <1>1, Zenon DEF TableInv
  <2>2. TableInv' /\ Occupied' = {}
    <3>1. /\ 2 * capacity \in Nat /\ 2 * capacity > 1
          /\ capacity' = 2 * capacity
          /\ entries' = [i \in 0 .. (2 * capacity - 1) |-> EmptySlot]
          /\ count' = 0 /\ db_version' \in Nat
      BY <1>5, <2>1 DEF BeginResize
    <3>2. QED
      BY <3>1, EmptyTable, Zenon
  <2>3. /\ capacity' \div 2 = capacity /\ capacity' % 2 = 0 /\ capacity' > 3
        /\ old' = entries /\ moved' = 0 /\ pending' = req /\ count' = 0
        /\ db_version' = db_version
    BY <1>5, <2>1 DEF BeginResize
  <2>4. LoopTypes'
    BY <1>1, <1>2, <2>1, <2>3 DEF LoopTypes, TableInv
  <2>5. LoadBounded'
    <3>1. count' \in Nat /\ capacity' \in Nat
      BY <2>2, Zenon DEF TableInv
    <3>2. count' <= capacity
      BY <2>1, <2>3
    <3>3. QED
      BY <2>3, <3>1, <3>2, LoadHalf, Zenon DEF LoadBounded
  <2>6. ResizeSound'
    <3>1. \A i, j \in Occupied : entries[i].key = entries[j].key => i = j
      BY <1>1, Zenon DEF TableInv, KeysFindable
    <3>2. {i \in 0 .. (capacity' \div 2 - 1) : old'[i].state = "E_OCCUPIED"} = Occupied
      BY <2>3, Zenon DEF Occupied
    <3>3. \A i \in Occupied : entries[i].obj.meta.version <= db_version
      BY <1>1, Zenon DEF TableInv, VersionCoversObjects
    <3>4. QED
      BY <1>2, <2>2, <2>3, <3>1, <3>2, <3>3 DEF ResizeSound
  <2>7. QED
    BY <2>2, <2>4, <2>5, <2>6, InvParts, Zenon
<1>6. QED
  BY <1>3, <1>4, <1>5, Zenon

LEMMA NextVersionInv ==
    ASSUME Inv, kv_next_version
    PROVE  Inv'
<1>1. TableInv /\ LoopTypes /\ LoadBounded /\ ResizeSound
  BY InvParts, Zenon
<1>2. /\ UNCHANGED <<entries, capacity, count, old, moved, pending>>
      /\ db_version \in Nat /\ db_version' = db_version + 1
  BY <1>1, Zenon DEF kv_next_version, TableInv
<1>3. Occupied' = Occupied
  BY <1>2, Zenon DEF Occupied
<1>4. \A i \in Occupied : entries[i].obj.meta.version \in Nat
  BY <1>1, Zenon DEF TableInv, IsTable, Occupied, db_object_t, kv_meta_t
<1>5. VersionCoversObjects'
  BY <1>1, <1>2, <1>3, <1>4 DEF TableInv, VersionCoversObjects
<1>6. KeysFindable'
  BY <1>1, <1>2, KeysFindableAt, Zenon DEF TableInv
<1>7. TableInv'
  BY <1>1, <1>2, <1>3, <1>5, <1>6 DEF TableInv
<1>8. LoopTypes' /\ LoadBounded'
  BY <1>1, <1>2, Zenon DEF LoopTypes, LoadBounded
<1>9. ResizeSound'
  <2> SUFFICES ASSUME pending # NoRequest PROVE ResizeSound'
    BY <1>2, Zenon DEF ResizeSound
  <2> DEFINE Left == {i \in 0 .. (capacity \div 2 - 1) : old[i].state = "E_OCCUPIED"}
  <2>1. \A i \in Left : old[i].obj.meta.version \in Nat
    BY <1>1, Zenon DEF LoopTypes, IsTable, db_object_t, kv_meta_t
  <2>2. pending.obj.meta.version \in Nat
    BY <1>1, Zenon DEF LoopTypes, Request, db_object_t, kv_meta_t
  <2>3. /\ \A i \in Left : old[i].obj.meta.version <= db_version'
        /\ pending.meta = NoMeta => pending.obj.meta.version <= db_version'
    BY <1>1, <1>2, <2>1, <2>2 DEF ResizeSound
  <2>4. QED
    BY <1>1, <1>2, <1>3, <2>3, ZenonT(30) DEF ResizeSound
<1>10. QED
  BY <1>7, <1>8, <1>9, InvParts, Zenon

LEMMA ResizeStepInv ==
    ASSUME Inv, ResizeStep
    PROVE  Inv'
<1> DEFINE Left == {i \in 0 .. (capacity \div 2 - 1) : old[i].state = "E_OCCUPIED"}
<1>1. TableInv /\ LoopTypes /\ LoadBounded /\ ResizeSound
  BY InvParts, Zenon
<1>2. /\ pending # NoRequest /\ moved < capacity \div 2 /\ moved' = moved + 1
      /\ UNCHANGED <<capacity, db_version, old, pending>>
  BY Zenon DEF ResizeStep
<1>3. /\ capacity \in Nat /\ capacity > 3 /\ capacity % 2 = 0
      /\ count \in Nat /\ db_version \in Nat
      /\ moved \in 0 .. (capacity \div 2 - 1) /\ IsTable(old, capacity \div 2)
  BY <1>1, <1>2 DEF TableInv, LoopTypes
<1>4. /\ count <= moved
      /\ \A i, j \in Left : old[i].key = old[j].key => i = j
      /\ \A i \in Left, idx \in Occupied : i >= moved => entries[idx].key # old[i].key
      /\ \A i \in Left : old[i].obj.meta.version <= db_version
  BY <1>1, <1>2, Zenon DEF ResizeSound
<1>5. LoopTypes'
  BY <1>1, <1>2, <1>3 DEF LoopTypes
<1>6. /\ TableInv' /\ count' <= moved'
      /\ \A i \in Left, idx \in Occupied' : i >= moved' => entries'[idx].key # old[i].key
  <2>1. CASE old[moved].state = "E_OCCUPIED"
    <3> DEFINE slot == old[moved]
               p    == probe(entries, capacity, slot.key).idx
    <3>1. /\ slot \in kv_entry /\ slot.key \in Key /\ slot.obj \in db_object_t
          /\ moved \in Left
      BY <1>3, <2>1, Zenon DEF IsTable
    <3>2. count' = count + 1 /\ entries' = [entries EXCEPT ![p] = slot]
      BY <2>1, Zenon DEF ResizeStep
    <3>3. slot.obj.meta.version <= db_version'
      BY <1>2, <1>4, <3>1, Zenon
    <3>4. TableInv'
      <4>1. /\ db_version' \in Nat /\ db_version' >= db_version
            /\ count' \in Nat /\ count' >= count
        BY <1>2, <1>3, <3>2
      <4>2. QED
        BY <1>1, <1>2, <2>1, <3>1, <3>2, <3>3, <4>1, InsertStep, Zenon
    <3>5. p \in 0 .. (capacity - 1)
      BY <1>3, <3>1, ProbeResult
    <3>6. ASSUME NEW i \in Left, NEW idx \in Occupied', i >= moved'
          PROVE  entries'[idx].key # old[i].key
      <4>1. i \in Left /\ i > moved /\ i >= moved
        BY <1>2, <1>3, <3>6
      <4>2. CASE idx = p
        <5>1. entries'[idx] = slot
          BY <1>1, <3>2, <3>5, <4>2, Zenon DEF TableInv, IsTable
        <5>2. QED
          BY <1>3, <1>4, <3>1, <4>1, <5>1
      <4>3. CASE idx # p
        <5>1. idx \in Occupied /\ entries'[idx] = entries[idx]
          BY <1>1, <1>2, <3>2, <3>5, <4>3, Zenon DEF TableInv, IsTable, Occupied
        <5>2. QED
          BY <1>4, <4>1, <5>1, Zenon
      <4>4. QED
        BY <4>2, <4>3, Zenon
    <3>7. count' <= moved'
      BY <1>2, <1>3, <1>4, <3>2, SMTT(30)
    <3>8. QED
      BY <3>4, <3>6, <3>7, Zenon
  <2>2. CASE old[moved].state # "E_OCCUPIED"
    <3>1. UNCHANGED <<entries, count>>
      BY <2>2, Zenon DEF ResizeStep
    <3>2. Occupied' = Occupied
      BY <1>2, <3>1, Zenon DEF Occupied
    <3>3. KeysFindable' /\ VersionCoversObjects'
      BY <1>1, <1>2, <3>1, <3>2, KeysFindableAt, Zenon DEF TableInv, VersionCoversObjects
    <3>4. TableInv'
      BY <1>1, <1>2, <3>1, <3>2, <3>3, Zenon DEF TableInv
    <3>5. QED
      BY <1>2, <1>3, <1>4, <3>1, <3>2, <3>4
  <2>3. QED
    BY <2>1, <2>2, Zenon
<1>7. LoadBounded'
  <2>1. count' \in Nat /\ capacity' \in Nat /\ count' <= capacity' \div 2
    BY <1>2, <1>3, <1>6, SMTT(30) DEF TableInv
  <2>2. QED
    BY <2>1, LoadHalf, Zenon DEF LoadBounded
<1>8. ResizeSound'
  BY <1>1, <1>2, <1>4, <1>6 DEF ResizeSound
<1>9. QED
  BY <1>5, <1>6, <1>7, <1>8, InvParts, Zenon

LEMMA FinishSetInv ==
    ASSUME Inv, FinishSet
    PROVE  Inv'
<1>1. TableInv /\ LoopTypes /\ LoadBounded /\ ResizeSound
  BY InvParts, Zenon
<1>2. /\ pending # NoRequest /\ moved = capacity \div 2 /\ Store(pending)
      /\ pending' = NoRequest /\ moved' = 0 /\ capacity' = capacity
  BY Zenon DEF FinishSet
<1>3. /\ pending \in Request /\ capacity > 3 /\ capacity % 2 = 0
      /\ capacity \in Nat /\ count \in Nat
  BY <1>1, <1>2, Zenon DEF LoopTypes, TableInv
<1>4. /\ count <= moved
      /\ pending.meta # NoMeta => pending.obj.meta = pending.meta
      /\ pending.meta = NoMeta => pending.obj.meta.version <= db_version
  BY <1>1, <1>2, Zenon DEF ResizeSound
<1>5. TableInv' /\ count' <= count + 1
  BY <1>1, <1>2, <1>3, <1>4, StoreStep, Zenon
<1>6. LoadBounded'
  <2>1. /\ count + 1 \in Nat /\ count' \in Nat
        /\ 4 * (count + 1) <= 3 * capacity
    BY <1>2, <1>3, <1>4, <1>5 DEF TableInv
  <2>2. 4 * count' <= 3 * capacity
    BY <1>3, <1>5, <2>1, LoadStep, Zenon
  <2>3. QED
    BY <1>2, <2>2, Zenon DEF LoadBounded
<1>7. LoopTypes' /\ ResizeSound'
  BY <1>2, <1>3 DEF LoopTypes, ResizeSound
<1>8. QED
  BY <1>5, <1>6, <1>7, InvParts, Zenon

(* The steps that remove a slot, or none.                                  *)
LEMMA DropInv ==
    ASSUME Inv, pending = NoRequest, NEW idx \in Occupied, RemoveAt(idx),
           UNCHANGED <<capacity, old, moved, pending>>,
           db_version' \in Nat, db_version' >= db_version
    PROVE  Inv'
<1>1. TableInv /\ LoopTypes /\ LoadBounded /\ ResizeSound
  BY InvParts, Zenon
<1>2. TableInv' /\ count' < count
  BY <1>1, RemoveStep, Zenon
<1>3. LoadBounded'
  <2>1. /\ count \in Nat /\ count' \in Nat /\ count' <= count
        /\ capacity \in Nat /\ capacity' = capacity
    BY <1>1, <1>2, SMTT(30) DEF TableInv
  <2>2. QED
    BY <1>1, <2>1, LoadStep, Zenon DEF LoadBounded
<1>4. LoopTypes' /\ ResizeSound'
  BY <1>1, Zenon DEF LoopTypes, ResizeSound
<1>5. QED
  BY <1>2, <1>3, <1>4, InvParts, Zenon

(* What probe finds is an occupied slot.                                   *)
LEMMA DelInv ==
    ASSUME Inv, NEW key \in Key, kv_del(key)
    PROVE  Inv'
<1>1. TableInv
  BY InvParts, Zenon
<1>2. probe(entries, capacity, key).idx \in Occupied
  BY <1>1, FoundOccupied, Zenon DEF kv_del
<1>3. db_version' \in Nat /\ db_version' >= db_version
  BY <1>1, SMTT(30) DEF kv_del, TableInv
<1>4. QED
  BY <1>2, <1>3, DropInv, Zenon DEF kv_del

LEMMA DelMetaInv ==
    ASSUME Inv, NEW key \in Key, NEW meta \in kv_meta_t, kv_del_meta(key, meta)
    PROVE  Inv'
<1> DEFINE p == probe(entries, capacity, key)
<1>1. TableInv /\ LoopTypes /\ LoadBounded /\ ResizeSound
  BY InvParts, Zenon
<1>2. db_version' \in Nat /\ db_version' >= db_version
  BY <1>1, CoveringGrows, Zenon DEF kv_del_meta, TableInv
<1>3. pending = NoRequest /\ UNCHANGED <<capacity, old, moved, pending>>
  BY Zenon DEF kv_del_meta
<1>4. CASE p.found /\ RemoveAt(p.idx)
  BY <1>1, <1>2, <1>3, <1>4, FoundOccupied, DropInv, Zenon
<1>5. CASE UNCHANGED <<entries, count>>
  <2>1. Occupied' = Occupied
    BY <1>3, <1>5, Zenon DEF Occupied
  <2>2. \A i \in Occupied : entries[i].obj.meta.version \in Nat
    BY <1>1, Zenon DEF TableInv, IsTable, Occupied, db_object_t, kv_meta_t
  <2>3. VersionCoversObjects'
    BY <1>1, <1>2, <1>5, <2>1, <2>2 DEF TableInv, VersionCoversObjects
  <2>4. KeysFindable'
    BY <1>1, <1>3, <1>5, KeysFindableAt, Zenon DEF TableInv
  <2>5. TableInv'
    BY <1>1, <1>2, <1>3, <1>5, <2>1, <2>3, <2>4, Zenon DEF TableInv
  <2>6. LoopTypes' /\ LoadBounded' /\ ResizeSound'
    BY <1>1, <1>3, <1>5, Zenon DEF LoopTypes, LoadBounded, ResizeSound
  <2>7. QED
    BY <2>5, <2>6, InvParts, Zenon
<1>6. QED
  BY <1>4, <1>5, Zenon DEF kv_del_meta

LEMMA SetTtlInv ==
    ASSUME Inv, NEW key \in Key, NEW ttl \in Int, kv_set_ttl(key, ttl)
    PROVE  Inv'
<1> DEFINE p == probe(entries, capacity, key).idx
<1>1. TableInv /\ LoopTypes /\ LoadBounded /\ ResizeSound
  BY InvParts, Zenon
<1>2. /\ pending = NoRequest /\ entries' = [entries EXCEPT ![p].obj.ttl = ttl]
      /\ UNCHANGED <<capacity, count, db_version, old, moved, pending>>
  BY Zenon DEF kv_set_ttl
<1>3. p \in Occupied
  BY <1>1, FoundOccupied, Zenon DEF kv_set_ttl
<1> HIDE DEF p
<1>4. TableInv'
  BY <1>1, <1>2, <1>3, TtlStep, Zenon
<1>5. LoopTypes' /\ LoadBounded' /\ ResizeSound'
  BY <1>1, <1>2, Zenon DEF LoopTypes, LoadBounded, ResizeSound
<1>6. QED
  BY <1>4, <1>5, InvParts, Zenon

LEMMA ActiveExpireInv ==
    ASSUME Inv, NEW now \in Int, NEW idx \in 0 .. (capacity - 1),
           kv_active_expire(now, idx)
    PROVE  Inv'
<1>1. idx \in Occupied
  BY Zenon DEF kv_active_expire, Occupied
<1>2. db_version' \in Nat /\ db_version' >= db_version
  BY InvParts DEF kv_active_expire, TableInv
<1>3. QED
  BY <1>1, <1>2, DropInv, Zenon DEF kv_active_expire

(* Every step of the key-space preserves Inv.                              *)
LEMMA NextInv == Inv /\ [Next]_vars => Inv'
<1> SUFFICES ASSUME Inv, [Next]_vars PROVE Inv'
  BY Zenon
<1>1. CASE kv_next_version
  BY <1>1, NextVersionInv, Zenon
<1>2. CASE ResizeStep
  BY <1>2, ResizeStepInv, Zenon
<1>3. CASE FinishSet
  BY <1>3, FinishSetInv, Zenon
<1>4. ASSUME NEW key \in Key, kv_del(key) PROVE Inv'
  BY <1>4, DelInv, Zenon
<1>5. ASSUME NEW key \in Key, NEW meta \in Metas, kv_set_object(key, meta, meta)
      PROVE  Inv'
  <2>1. meta \in kv_meta_t /\ meta # NoMeta
    BY KeySpaceAssumption, Zenon
  <2>2. QED
    BY <1>5, <2>1, SetInv, Zenon
<1>6. ASSUME NEW key \in Key, NEW meta \in Metas, meta.version <= db_version,
             kv_set_object(key, meta, NoMeta)
      PROVE  Inv'
  <2>1. meta \in kv_meta_t
    BY KeySpaceAssumption, Zenon
  <2>2. QED
    BY <1>6, <2>1, SetInv, Zenon
<1>7. ASSUME NEW key \in Key, NEW meta \in Metas, kv_del_meta(key, meta)
      PROVE  Inv'
  <2>1. meta \in kv_meta_t
    BY KeySpaceAssumption, Zenon
  <2>2. QED
    BY <1>7, <2>1, DelMetaInv, Zenon
<1>8. ASSUME NEW key \in Key, NEW ttl \in Ttls \cup {-1}, kv_set_ttl(key, ttl)
      PROVE  Inv'
  <2>1. ttl \in Int
    BY KeySpaceAssumption
  <2>2. QED
    BY <1>8, <2>1, SetTtlInv, Zenon
<1>9. ASSUME NEW now \in Ttls, NEW idx \in 0 .. (capacity - 1),
             kv_active_expire(now, idx)
      PROVE  Inv'
  <2>1. now \in Int
    BY KeySpaceAssumption, Zenon
  <2>2. QED
    BY <1>9, <2>1, ActiveExpireInv, Zenon
<1>10. CASE UNCHANGED vars
  <2>1. UNCHANGED <<entries, capacity, count, db_version, old, moved, pending>>
    BY <1>10 DEF vars
  <2>2. Occupied' = Occupied
    BY <2>1, Zenon DEF Occupied
  <2>3. KeysFindable'
    BY <2>1, KeysFindableAt, Zenon DEF Inv
  <2>4. QED
    BY <2>1, <2>2, <2>3
    DEF Inv, TypeOK, LoadBounded, VersionCoversObjects, ResizeSound
<1>11. QED
  BY <1>1, <1>2, <1>3, <1>4, <1>5, <1>6, <1>7, <1>8, <1>9, <1>10, ZenonT(30) DEF Next

(* Inv holds of every reachable state.                                     *)
THEOREM InvHolds == Spec => []Inv
  BY InitInv, NextInv, PTL DEF Spec

(* Every variable keeps its type.                                          *)
THEOREM TypesHold == Spec => []TypeOK
<1>1. Inv => TypeOK
  BY Zenon DEF Inv
<1>2. QED
  BY <1>1, InvHolds, PTL

(* For every key set, hash function and initial capacity, every key in the *)
(* table is found by probe, at the slot that holds it, and has no other.   *)
THEOREM StoredKeysAreFound == Spec => []KeysFindable
<1>1. Inv => KeysFindable
  BY Zenon DEF Inv
<1>2. QED
  BY <1>1, InvHolds, PTL

(* The load factor bounds the counted slots at every moment.               *)
THEOREM LoadHolds == Spec => []LoadBounded
<1>1. Inv => LoadBounded
  BY Zenon DEF Inv
<1>2. QED
  BY <1>1, InvHolds, PTL

(* The version counter covers every stored object.                         *)
THEOREM VersionsCovered == Spec => []VersionCoversObjects
<1>1. Inv => VersionCoversObjects
  BY Zenon DEF Inv
<1>2. QED
  BY <1>1, InvHolds, PTL

-----------------------------------------------------------------------------
(* What the readers return: KEYS lists exactly the keys that GET finds,    *)
(* and, as long as no probe is exhausted, the table implements the map of  *)
(* KeyMap.                                                                 *)

(* kv_get_object, of a table t of c slots.                                 *)
Get(t, c, key) ==
    IF probe(t, c, key).found THEN t[probe(t, c, key).idx].obj ELSE NoObject

LEMMA GetIsGet ==
    ASSUME NEW key \in Key
    PROVE  /\ kv_get_object(key) = Get(entries, capacity, key)
           /\ kv_get_object(key)' = Get(entries', capacity', key)
  BY Zenon DEF kv_get_object, Get

(* GET returns the object of the slot that holds the key, or nothing.      *)
LEMMA GetHolds ==
    ASSUME NEW c \in Nat, c > 0, NEW t, IsTable(t, c), Findable(t, c),
           NEW key \in Key, NEW idx \in 0 .. (c - 1), Holds(t, key, idx)
    PROVE  Get(t, c, key) = t[idx].obj /\ Get(t, c, key) \in db_object_t
<1>1. probe(t, c, key).found /\ probe(t, c, key).idx = idx
  BY Zenon DEF Findable, Holds
<1>2. t[idx].obj \in db_object_t
  BY Zenon DEF IsTable, Holds
<1>3. QED
  BY <1>1, <1>2, Zenon DEF Get

LEMMA GetMissing ==
    ASSUME NEW c \in Nat, c > 0, NEW t, NEW key \in Key,
           \A idx \in 0 .. (c - 1) : ~Holds(t, key, idx)
    PROVE  Get(t, c, key) = NoObject
<1>1. ~probe(t, c, key).found
  BY ProbeResult, Zenon
<1>2. QED
  BY <1>1, Zenon DEF Get

(* A probe with room on its path ends at the key or at an empty slot.      *)
LEMMA ProbeWithRoom ==
    ASSUME NEW c \in Nat, c > 0, NEW t, NEW key \in Key,
           \E i \in 0 .. (c - 1) : Stops(t, c, key, i)
    PROVE  LET p == probe(t, c, key).idx
           IN  t[p].state = "E_EMPTY" \/ Holds(t, key, p)
<1>1. Rounds(t, c, key) \in 0 .. c /\ ProbeEnds(t, c, key, Rounds(t, c, key))
  BY RoundsEnd, Zenon
<1>2. Rounds(t, c, key) < c
  BY <1>1 DEF ProbeEnds
<1>3. Stops(t, c, key, Rounds(t, c, key))
  BY <1>1, <1>2, Zenon DEF ProbeEnds
<1>4. QED
  BY <1>3, ProbeResult, Zenon DEF Stops

(* Two tables that hold key k at the same slot, or nowhere, give the same  *)
(* answer for it.                                                          *)
Sound(t, c) == c \in Nat /\ c > 0 /\ IsTable(t, c) /\ Findable(t, c)

SameFor(t, u, c, k) ==
    /\ \A i \in 0 .. (c - 1) :
         Holds(t, k, i) => Holds(u, k, i) /\ u[i].obj = t[i].obj
    /\ \A i \in 0 .. (c - 1) : Holds(u, k, i) => Holds(t, k, i)

SameGet(t, u, c, k) == Get(u, c, k) = Get(t, c, k)

LEMMA GetSame ==
    ASSUME NEW c, NEW t, NEW u, NEW k \in Key,
           Sound(t, c), Sound(u, c), SameFor(t, u, c, k)
    PROVE  SameGet(t, u, c, k)
<1> USE DEF SameGet
<1>1. CASE \E i \in 0 .. (c - 1) : Holds(t, k, i)
  <2>1. PICK i \in 0 .. (c - 1) : Holds(t, k, i)
    BY <1>1, Zenon
  <2>2. Holds(u, k, i) /\ u[i].obj = t[i].obj
    BY <2>1, Zenon DEF SameFor
  <2>3. Get(t, c, k) = t[i].obj
    BY <2>1, GetHolds, Zenon DEF Sound
  <2>4. Get(u, c, k) = u[i].obj
    BY <2>2, GetHolds, Zenon DEF Sound
  <2>5. QED
    BY <2>2, <2>3, <2>4, Zenon
<1>2. CASE \A i \in 0 .. (c - 1) : ~Holds(t, k, i)
  <2>1. \A i \in 0 .. (c - 1) : ~Holds(u, k, i)
    BY <1>2, Zenon DEF SameFor
  <2>2. Get(t, c, k) = NoObject
    BY <1>2, GetMissing, Zenon DEF Sound
  <2>3. Get(u, c, k) = NoObject
    BY <2>1, GetMissing, Zenon DEF Sound
  <2>4. QED
    BY <2>2, <2>3, Zenon
<1>3. QED
  BY <1>1, <1>2, Zenon

-----------------------------------------------------------------------------
(* KEYS.                                                                   *)

LEMMA InvKeysComplete == Inv => KeysComplete
<1> SUFFICES ASSUME Inv PROVE KeysComplete
  BY Zenon
<1>1. /\ TableInv /\ Findable(entries, capacity) /\ IsTable(entries, capacity)
      /\ capacity \in Nat /\ capacity > 0
  BY InvParts, KeysFindableAt DEF TableInv
<1>2. ASSUME NEW i \in Occupied
      PROVE  /\ entries[i].key \in Key
             /\ kv_get_object(entries[i].key) # NoObject
  <2>1. /\ i \in 0 .. (capacity - 1) /\ entries[i].key \in Key
        /\ Holds(entries, entries[i].key, i)
    BY <1>1, Zenon DEF Occupied, IsTable, Holds
  <2>2. kv_get_object(entries[i].key) \in db_object_t
    BY <1>1, <2>1, GetHolds, GetIsGet, Zenon
  <2>3. QED
    BY <2>1, <2>2, KeySpaceAssumption, Zenon
<1>3. ASSUME NEW i \in Occupied
      PROVE  Cardinality({h \in Occupied : h < i}) < count
  <2>1. IsFiniteSet(Occupied) /\ Cardinality(Occupied) \in Nat
    BY <1>1, OccupiedFinite, Zenon
  <2>2. /\ IsFiniteSet(Occupied \ {i})
        /\ Cardinality(Occupied \ {i}) = Cardinality(Occupied) - 1
    BY <2>1, FS_RemoveElement, Zenon
  <2>3. {h \in Occupied : h < i} \in SUBSET (Occupied \ {i})
    BY <1>1 DEF Occupied
  <2>4. /\ Cardinality({h \in Occupied : h < i}) <= Cardinality(Occupied \ {i})
        /\ IsFiniteSet({h \in Occupied : h < i})
    BY <2>2, <2>3, FS_Subset, Zenon
  <2>5. Cardinality({h \in Occupied : h < i}) \in Nat
    BY <2>4, FS_CardinalityType, Zenon
  <2>6. QED
    BY <1>1, <2>1, <2>2, <2>4, <2>5 DEF TableInv
<1>4. kv_keys = {entries[i].key : i \in Occupied}
  BY <1>3, Zenon DEF kv_keys
<1>5. ASSUME NEW key \in Key, kv_get_object(key) # NoObject
      PROVE  \E i \in Occupied : entries[i].key = key
  <2>1. probe(entries, capacity, key).found
    BY <1>5, Zenon DEF kv_get_object
  <2>2. /\ probe(entries, capacity, key).idx \in Occupied
        /\ Holds(entries, key, probe(entries, capacity, key).idx)
    BY <1>1, <2>1, FoundOccupied, ProbeResult, Zenon
  <2>3. QED
    BY <2>2, Zenon DEF Holds
<1>6. QED
  BY <1>2, <1>4, <1>5, Zenon DEF KeysComplete

(* KEYS lists exactly the keys that GET finds, in every reachable state.   *)
THEOREM KeysListsAll == Spec => []KeysComplete
  BY InvHolds, InvKeysComplete, PTL

-----------------------------------------------------------------------------
(* The map.  How GET's answers change when a slot is written or removed.   *)

PutOnly(t, u, c, key) ==
    /\ Get(u, c, key) \in db_object_t
    /\ \A k \in Key \ {key} : Get(u, c, k) = Get(t, c, k)

Inserted(t, u, c, slot) ==
    /\ slot \in kv_entry /\ slot.state = "E_OCCUPIED"
    /\ slot.key \in Key /\ slot.obj \in db_object_t
    /\ \E i \in 0 .. (c - 1) : Stops(t, c, slot.key, i)
    /\ u = [t EXCEPT ![probe(t, c, slot.key).idx] = slot]

LEMMA GetInsert ==
    ASSUME NEW c, NEW t, NEW u, NEW slot, Sound(t, c), Inserted(t, u, c, slot)
    PROVE  PutOnly(t, u, c, slot.key) /\ Get(u, c, slot.key) = slot.obj
<1> DEFINE key == slot.key
<1>0. /\ c \in Nat /\ c > 0 /\ IsTable(t, c) /\ Findable(t, c) /\ key \in Key
      /\ slot \in kv_entry /\ slot.state = "E_OCCUPIED" /\ slot.obj \in db_object_t
      /\ u = [t EXCEPT ![probe(t, c, key).idx] = slot]
      /\ \E i \in 0 .. (c - 1) : Stops(t, c, key, i)
  BY Zenon DEF Sound, Inserted
<1> DEFINE p == probe(t, c, key).idx
<1>1. p \in 0 .. (c - 1) /\ (t[p].state = "E_EMPTY" \/ Holds(t, key, p))
  BY <1>0, ProbeResult, ProbeWithRoom, Zenon
<1>2. /\ DOMAIN u = 0 .. (c - 1) /\ u[p] = slot
      /\ \A j \in 0 .. (c - 1) : j # p => u[j] = t[j]
      /\ u \in [0 .. (c - 1) -> kv_entry]
  BY <1>0, <1>1, Zenon DEF IsTable
<1>3. IsTable(u, c)
  BY <1>0, <1>1, <1>2, Zenon DEF IsTable
<1>4. Findable(u, c)
  BY <1>0, InsertFindable, Zenon
<1>5. Holds(u, key, p)
  BY <1>0, <1>2, Zenon DEF Holds
<1> HIDE DEF p
<1>6. Get(u, c, key) = slot.obj
  <2>1. Get(u, c, key) = u[p].obj
    BY <1>0, <1>1, <1>3, <1>4, <1>5, GetHolds, Zenon
  <2>2. QED
    BY <1>2, <2>1, Zenon
<1>7. ASSUME NEW k \in Key \ {key}
      PROVE  Get(u, c, k) = Get(t, c, k)
  <2>1. SameFor(t, u, c, k)
    BY <1>0, <1>1, <1>2, <1>7, Zenon DEF Holds, SameFor
  <2>2. Sound(t, c) /\ Sound(u, c) /\ k \in Key
    BY <1>0, <1>3, <1>4, Zenon DEF Sound
  <2>3. SameGet(t, u, c, k)
    BY <2>1, <2>2, GetSame, Zenon
  <2>4. QED
    BY <2>3, ZenonT(30) DEF SameGet
<1>8. QED
  BY <1>0, <1>6, <1>7, Zenon DEF PutOnly

RemoveOnly(t, u, c, key) ==
    /\ Get(u, c, key) = NoObject
    /\ \A k \in Key \ {key} : Get(u, c, k) = Get(t, c, k)

LEMMA GetRemove ==
    ASSUME NEW c \in Nat, c > 0, NEW t, IsTable(t, c), Findable(t, c),
           NEW u, IsTable(u, c), Findable(u, c),
           NEW idx \in 0 .. (c - 1), t[idx].state = "E_OCCUPIED",
           u = [t EXCEPT ![idx] = DeletedSlot]
    PROVE  RemoveOnly(t, u, c, t[idx].key)
<1> DEFINE key == t[idx].key
<1>1. key \in Key /\ Holds(t, key, idx)
  BY Zenon DEF IsTable, Holds
<1>2. /\ u[idx].state = "E_DELETED"
      /\ \A j \in 0 .. (c - 1) : j # idx => u[j] = t[j]
  BY Zenon DEF IsTable, DeletedSlot
<1>3. \A i, j \in 0 .. (c - 1) : Holds(t, key, i) /\ Holds(t, key, j) => i = j
  BY DEF Findable, Holds
<1>4. \A i \in 0 .. (c - 1) : ~Holds(u, key, i)
  BY <1>1, <1>2, <1>3, Zenon DEF Holds
<1>5. ASSUME NEW k \in Key \ {key}
      PROVE  Get(u, c, k) = Get(t, c, k)
  <2>1. SameFor(t, u, c, k)
    BY <1>2, <1>5, Zenon DEF Holds, SameFor
  <2>2. Sound(t, c) /\ Sound(u, c) /\ k \in Key
    BY Zenon DEF Sound
  <2>3. SameGet(t, u, c, k)
    BY <2>1, <2>2, GetSame, Zenon
  <2>4. QED
    BY <2>3, Zenon DEF SameGet
<1>6. Get(u, c, key) = NoObject
  BY <1>1, <1>4, GetMissing, Zenon
<1>7. QED
  BY <1>5, <1>6, Zenon DEF RemoveOnly

LEMMA GetTtl ==
    ASSUME NEW c \in Nat, c > 0, NEW t, IsTable(t, c), Findable(t, c),
           NEW u, IsTable(u, c), Findable(u, c),
           NEW idx \in 0 .. (c - 1), t[idx].state = "E_OCCUPIED",
           NEW ttl \in Int, u = [t EXCEPT ![idx].obj.ttl = ttl]
    PROVE  PutOnly(t, u, c, t[idx].key)
<1> DEFINE key == t[idx].key
<1>1. key \in Key /\ Holds(t, key, idx)
  BY Zenon DEF IsTable, Holds
<1>2. /\ u[idx].state = t[idx].state /\ u[idx].key = key
      /\ \A j \in 0 .. (c - 1) : j # idx => u[j] = t[j]
  BY Zenon DEF IsTable, kv_entry
<1>3. Holds(u, key, idx)
  BY <1>1, <1>2, Zenon DEF Holds
<1>4. ASSUME NEW k \in Key \ {key}
      PROVE  Get(u, c, k) = Get(t, c, k)
  <2>1. SameFor(t, u, c, k)
    BY <1>2, <1>4, Zenon DEF Holds, SameFor
  <2>2. Sound(t, c) /\ Sound(u, c) /\ k \in Key
    BY Zenon DEF Sound
  <2>3. SameGet(t, u, c, k)
    BY <2>1, <2>2, GetSame, Zenon
  <2>4. QED
    BY <2>3, Zenon DEF SameGet
<1>5. Get(u, c, key) \in db_object_t
  BY <1>1, <1>3, GetHolds, Zenon
<1>6. QED
  BY <1>4, <1>5, Zenon DEF PutOnly

-----------------------------------------------------------------------------
(* What Lookup is, in this state and in the next.                          *)

LEMMA LookupIdle ==
    ASSUME NEW k \in Key
    PROVE  /\ pending = NoRequest => Lookup[k] = Get(entries, capacity, k)
           /\ pending' = NoRequest => Lookup'[k] = Get(entries', capacity', k)
  BY GetIsGet, Zenon DEF Lookup

LEMMA LookupMoved ==
    ASSUME NEW k \in Key
    PROVE  /\ Unmoved(k) = {} => Lookup[k] = Get(entries, capacity, k)
           /\ Unmoved(k)' = {} => Lookup'[k] = Get(entries', capacity', k)
  BY GetIsGet, Zenon DEF Lookup

LEMMA LookupUnmoved ==
    ASSUME NEW k \in Key
    PROVE  /\ pending # NoRequest /\ Unmoved(k) # {} =>
                \E i \in Unmoved(k) : Lookup[k] = old[i].obj
           /\ pending' # NoRequest /\ Unmoved(k)' # {} =>
                \E i \in Unmoved(k)' : Lookup'[k] = old'[i].obj
<1>1. ASSUME pending # NoRequest, Unmoved(k) # {}
      PROVE  \E i \in Unmoved(k) : Lookup[k] = old[i].obj
  <2>1. (CHOOSE i \in Unmoved(k) : TRUE) \in Unmoved(k)
    BY <1>1, Zenon
  <2>2. Lookup[k] = old[CHOOSE i \in Unmoved(k) : TRUE].obj
    BY <1>1, Zenon DEF Lookup
  <2>3. QED
    BY <2>1, <2>2, Zenon
<1>2. ASSUME pending' # NoRequest, Unmoved(k)' # {}
      PROVE  \E i \in Unmoved(k)' : Lookup'[k] = old'[i].obj
  <2>1. (CHOOSE i \in Unmoved(k)' : TRUE) \in Unmoved(k)'
    BY <1>2, Zenon
  <2>2. Lookup'[k] = old'[CHOOSE i \in Unmoved(k)' : TRUE].obj
    BY <1>2, Zenon DEF Lookup
  <2>3. QED
    BY <2>1, <2>2, Zenon
<1>3. QED
  BY <1>1, <1>2, Zenon

LEMMA InvSound ==
    /\ Inv => Sound(entries, capacity)
    /\ Inv' => Sound(entries', capacity')
  BY InvParts, KeysFindableAt DEF TableInv, Sound

(* A SET that finds room changes what GET answers for its own key only.    *)
LEMMA StoreGets ==
    ASSUME Inv, HasRoom, NEW req \in Request, Store(req), capacity' = capacity
    PROVE  PutOnly(entries, entries', capacity, req.key)
<1> DEFINE slot == OccupiedSlot(req.key, req.obj)
<1>1. /\ slot \in kv_entry /\ slot.state = "E_OCCUPIED" /\ slot.key = req.key
      /\ slot.obj = req.obj /\ req.key \in Key /\ req.obj \in db_object_t
  BY Zenon DEF OccupiedSlot, kv_entry, Request
<1>2. entries' = [entries EXCEPT ![probe(entries, capacity, req.key).idx] = slot]
  BY Zenon DEF Store
<1>3. \E i \in 0 .. (capacity - 1) : Stops(entries, capacity, req.key, i)
  BY <1>1, Zenon DEF HasRoom
<1> HIDE DEF slot
<1>4. Inserted(entries, entries', capacity, slot)
  BY <1>1, <1>2, <1>3, Zenon DEF Inserted
<1>5. PutOnly(entries, entries', capacity, slot.key)
  BY <1>4, InvSound, GetInsert, Zenon
<1>6. QED
  BY <1>1, <1>5, Zenon

LEMMA RemoveGets ==
    ASSUME Inv, Inv', NEW idx \in Occupied, RemoveAt(idx), capacity' = capacity
    PROVE  RemoveOnly(entries, entries', capacity, entries[idx].key)
<1>1. Sound(entries, capacity) /\ Sound(entries', capacity)
  BY InvSound, Zenon
<1>2. idx \in 0 .. (capacity - 1) /\ entries[idx].state = "E_OCCUPIED"
  BY Zenon DEF Occupied
<1>3. entries' = [entries EXCEPT ![idx] = DeletedSlot]
  BY Zenon DEF RemoveAt
<1>4. QED
  BY <1>1, <1>2, <1>3, GetRemove, Zenon DEF Sound

LEMMA TtlGets ==
    ASSUME Inv, Inv', NEW idx \in Occupied, NEW ttl \in Int,
           entries' = [entries EXCEPT ![idx].obj.ttl = ttl], capacity' = capacity
    PROVE  PutOnly(entries, entries', capacity, entries[idx].key)
<1>1. Sound(entries, capacity) /\ Sound(entries', capacity)
  BY InvSound, Zenon
<1>2. idx \in 0 .. (capacity - 1) /\ entries[idx].state = "E_OCCUPIED"
  BY Zenon DEF Occupied
<1>3. QED
  BY <1>1, <1>2, GetTtl, Zenon DEF Sound

(* An operation that changes one key of an idle table is a step of the map.*)
LEMMA PutStep ==
    ASSUME NEW key \in Key, pending = NoRequest, pending' = NoRequest,
           capacity' = capacity, db_version' >= db_version,
           PutOnly(entries, entries', capacity, key)
    PROVE  Map!Next
<1>1. \A k \in Key : /\ Lookup[k] = Get(entries, capacity, k)
                     /\ Lookup'[k] = Get(entries', capacity, k)
  BY LookupIdle, Zenon
<1>2. Map!Put(key)
  BY <1>1, Zenon DEF Map!Put, Map!Others, PutOnly
<1>3. QED
  BY <1>2, Zenon DEF Map!Next

LEMMA RemoveMapStep ==
    ASSUME NEW key \in Key, pending = NoRequest, pending' = NoRequest,
           capacity' = capacity, db_version' >= db_version,
           RemoveOnly(entries, entries', capacity, key)
    PROVE  Map!Next
<1>1. \A k \in Key : /\ Lookup[k] = Get(entries, capacity, k)
                     /\ Lookup'[k] = Get(entries', capacity, k)
  BY LookupIdle, Zenon
<1>2. Map!Remove(key)
  BY <1>1, Zenon DEF Map!Remove, Map!Others, RemoveOnly
<1>3. QED
  BY <1>2, Zenon DEF Map!Next

LEMMA AdvanceStep ==
    ASSUME \A k \in Key : Lookup'[k] = Lookup[k], db_version' >= db_version
    PROVE  Map!Next
  BY Zenon DEF Map!Next, Map!Advance

(* Moving into the new table changes nothing: a key is looked up in the    *)
(* old table until its slot has been moved.                                *)
LEMMA BeginResizeMap ==
    ASSUME Inv, pending = NoRequest, NEW req \in Request, BeginResize(req)
    PROVE  \A k \in Key : Lookup'[k] = Lookup[k]
<1> TAKE k \in Key
<1>1. Sound(entries, capacity) /\ capacity \in Nat /\ capacity > 0
  BY InvSound, Zenon DEF Sound
<1>2. /\ capacity' = 2 * capacity /\ old' = entries /\ moved' = 0
      /\ pending' # NoRequest
      /\ entries' = [i \in 0 .. (2 * capacity - 1) |-> EmptySlot]
  BY KeySpaceAssumption, Zenon DEF BeginResize
<1>3. capacity' \div 2 = capacity
  BY <1>1, <1>2
<1>4. Unmoved(k)' = {i \in 0 .. (capacity - 1) : Holds(entries, k, i)}
  BY <1>2, <1>3, Zenon DEF Unmoved, Holds
<1>5. Lookup[k] = Get(entries, capacity, k)
  BY LookupIdle, Zenon
<1>6. CASE Unmoved(k)' # {}
  <2>1. PICK i \in Unmoved(k)' : Lookup'[k] = old'[i].obj
    BY <1>2, <1>6, LookupUnmoved, Zenon
  <2>2. i \in 0 .. (capacity - 1) /\ Holds(entries, k, i)
    BY <1>4, Zenon
  <2>3. Get(entries, capacity, k) = entries[i].obj
    BY <1>1, <2>2, GetHolds, Zenon DEF Sound
  <2>4. QED
    BY <1>2, <1>5, <2>1, <2>3, Zenon
<1>7. CASE Unmoved(k)' = {}
  <2>1. Lookup'[k] = Get(entries', capacity', k)
    BY <1>7, LookupMoved, Zenon
  <2>2. \A i \in 0 .. (capacity' - 1) : ~Holds(entries', k, i)
    BY <1>1, <1>2, Zenon DEF Holds, EmptySlot
  <2>3. Get(entries', capacity', k) = NoObject
    BY <1>1, <1>2, <2>2, GetMissing
  <2>4. \A i \in 0 .. (capacity - 1) : ~Holds(entries, k, i)
    BY <1>4, <1>7, Zenon
  <2>5. Get(entries, capacity, k) = NoObject
    BY <1>1, <2>4, GetMissing, Zenon
  <2>6. QED
    BY <1>5, <2>1, <2>3, <2>5, Zenon
<1>8. QED
  BY <1>6, <1>7, Zenon

LEMMA ResizeStepMap ==
    ASSUME Inv, HasRoom, ResizeStep
    PROVE  \A k \in Key : Lookup'[k] = Lookup[k]
<1> TAKE k \in Key
<1> DEFINE Left == {i \in 0 .. (capacity \div 2 - 1) : old[i].state = "E_OCCUPIED"}
<1>1. /\ pending # NoRequest /\ moved < capacity \div 2 /\ moved' = moved + 1
      /\ capacity' = capacity /\ old' = old /\ pending' = pending
  BY Zenon DEF ResizeStep
<1>2. /\ Sound(entries, capacity) /\ capacity \in Nat
      /\ moved \in 0 .. (capacity \div 2 - 1) /\ IsTable(old, capacity \div 2)
  BY <1>1, InvSound, InvParts DEF LoopTypes, Sound
<1>3. /\ \A i, j \in Left : old[i].key = old[j].key => i = j
      /\ \A i \in Left, idx \in Occupied : i >= moved => entries[idx].key # old[i].key
  BY <1>1, Zenon DEF Inv, ResizeSound
<1>4. /\ Unmoved(k) = {i \in Left : i >= moved /\ old[i].key = k}
      /\ Unmoved(k)' = {i \in Left : i > moved /\ old[i].key = k}
  BY <1>1, <1>2 DEF Unmoved
<1>5. CASE old[moved].state = "E_OCCUPIED"
  <2> DEFINE slot == old[moved]
  <2>1. /\ slot \in kv_entry /\ slot.key \in Key /\ slot.obj \in db_object_t
        /\ moved \in Left
    BY <1>2, <1>5, Zenon DEF IsTable
  <2>2. entries' = [entries EXCEPT ![probe(entries, capacity, slot.key).idx] = slot]
    BY <1>5, Zenon DEF ResizeStep
  <2>3. \E i \in 0 .. (capacity - 1) : Stops(entries, capacity, slot.key, i)
    BY <2>1, Zenon DEF HasRoom
  <2>4. Inserted(entries, entries', capacity, slot)
    BY <1>5, <2>1, <2>2, <2>3, Zenon DEF Inserted
  <2>5. /\ PutOnly(entries, entries', capacity, slot.key)
        /\ Get(entries', capacity, slot.key) = slot.obj
    BY <1>2, <2>4, GetInsert, Zenon
  <2>6. CASE k = slot.key
    <3>1. Unmoved(k) = {moved} /\ Unmoved(k)' = {}
      BY <1>2, <1>3, <1>4, <2>1, <2>6
    <3>2. Lookup[k] = slot.obj
      BY <1>1, <3>1, LookupUnmoved, ZenonT(30)
    <3>3. Lookup'[k] = Get(entries', capacity, k)
      BY <1>1, <3>1, LookupMoved, Zenon
    <3>4. QED
      BY <2>5, <2>6, <3>2, <3>3, Zenon
  <2>7. CASE k # slot.key
    <3>1. Unmoved(k)' = Unmoved(k)
      BY <1>2, <1>4, <2>7
    <3>2. Get(entries', capacity, k) = Get(entries, capacity, k)
      BY <2>5, <2>7, Zenon DEF PutOnly
    <3>3. kv_get_object(k)' = kv_get_object(k)
      BY <1>1, <3>2, GetIsGet, Zenon
    <3>4. QED
      BY <1>1, <3>1, <3>3 DEF Lookup
  <2>8. QED
    BY <2>6, <2>7, Zenon
<1>6. CASE old[moved].state # "E_OCCUPIED"
  <2>1. entries' = entries
    BY <1>6, Zenon DEF ResizeStep
  <2>2. Unmoved(k)' = Unmoved(k)
    BY <1>2, <1>4, <1>6
  <2>3. kv_get_object(k)' = kv_get_object(k)
    BY <1>1, <2>1, GetIsGet, Zenon
  <2>4. QED
    BY <1>1, <2>2, <2>3 DEF Lookup
<1>7. QED
  BY <1>5, <1>6, Zenon

LEMMA FinishSetMap ==
    ASSUME Inv, HasRoom, FinishSet
    PROVE  Map!Next
<1>1. /\ pending # NoRequest /\ moved = capacity \div 2 /\ Store(pending)
      /\ pending' = NoRequest /\ capacity' = capacity
  BY Zenon DEF FinishSet
<1>2. capacity \in Nat /\ pending \in Request /\ pending.key \in Key
  BY <1>1, InvParts, Zenon DEF LoopTypes, TableInv, Request
<1>3. PutOnly(entries, entries', capacity, pending.key)
  BY <1>1, <1>2, StoreGets, Zenon
<1>4. db_version' >= db_version
  <2>1. db_version \in Nat /\ pending.meta \in kv_meta_t \cup {NoMeta}
    BY <1>2, InvParts, Zenon DEF TableInv, Request
  <2>2. QED
    BY <1>1, <2>1, CoveringGrows, Zenon DEF Store
<1>5. \A k \in Key : Unmoved(k) = {}
  BY <1>1, <1>2 DEF Unmoved
<1>6. \A k \in Key : /\ Lookup[k] = Get(entries, capacity, k)
                     /\ Lookup'[k] = Get(entries', capacity, k)
  BY <1>1, <1>5, LookupMoved, LookupIdle, Zenon
<1>7. Map!Put(pending.key)
  BY <1>2, <1>3, <1>4, <1>6, Zenon DEF Map!Put, Map!Others, PutOnly
<1>8. QED
  BY <1>2, <1>7, Zenon DEF Map!Next

LEMMA SetMap ==
    ASSUME Inv, HasRoom, NEW key \in Key, NEW own \in kv_meta_t,
           NEW meta \in kv_meta_t \cup {NoMeta}, kv_set_object(key, own, meta)
    PROVE  Map!Next
<1> DEFINE req == [key  |-> key,
                   obj  |-> [meta |-> IF meta = NoMeta THEN own ELSE meta,
                             ttl  |-> -1],
                   meta |-> meta]
<1>1. req \in Request /\ req.key = key /\ req.meta = meta
  BY DEF Request, db_object_t
<1>2. /\ pending = NoRequest
      /\ \/ BeginResize(req)
         \/ Store(req) /\ UNCHANGED <<capacity, old, moved, pending>>
  BY Zenon DEF kv_set_object
<1> HIDE DEF req
<1>3. db_version \in Nat
  BY InvParts, Zenon DEF TableInv
<1>4. CASE BeginResize(req)
  <2>1. db_version' >= db_version
    BY <1>3, <1>4 DEF BeginResize
  <2>2. QED
    BY <1>1, <1>2, <1>4, <2>1, BeginResizeMap, AdvanceStep, Zenon
<1>5. CASE Store(req) /\ UNCHANGED <<capacity, old, moved, pending>>
  <2>1. PutOnly(entries, entries', capacity, key)
    BY <1>1, <1>5, StoreGets, Zenon
  <2>2. db_version' >= db_version
    BY <1>1, <1>3, <1>5, CoveringGrows, Zenon DEF Store
  <2>3. QED
    BY <1>2, <1>5, <2>1, <2>2, PutStep, ZenonT(30)
<1>6. QED
  BY <1>2, <1>4, <1>5, Zenon

LEMMA DelMap ==
    ASSUME Inv, Inv', NEW key \in Key, kv_del(key)
    PROVE  Map!Next
<1> DEFINE p == probe(entries, capacity, key).idx
<1>1. /\ TableInv /\ capacity \in Nat /\ capacity > 0 /\ db_version \in Nat
      /\ probe(entries, capacity, key).found
  BY InvParts DEF kv_del, TableInv
<1>2. p \in Occupied /\ entries[p].key = key
  BY <1>1, FoundOccupied, ProbeResult, Zenon DEF Holds
<1>3. /\ RemoveAt(p) /\ pending = NoRequest
      /\ UNCHANGED <<capacity, db_version, pending>>
  BY Zenon DEF kv_del
<1> HIDE DEF p
<1>4. RemoveOnly(entries, entries', capacity, key)
  BY <1>2, <1>3, RemoveGets, Zenon
<1>5. QED
  BY <1>1, <1>3, <1>4, RemoveMapStep

LEMMA DelMetaMap ==
    ASSUME Inv, Inv', NEW key \in Key, NEW meta \in kv_meta_t,
           kv_del_meta(key, meta)
    PROVE  Map!Next
<1> DEFINE p == probe(entries, capacity, key).idx
<1>1. TableInv /\ capacity \in Nat /\ capacity > 0 /\ db_version \in Nat
  BY InvParts DEF TableInv
<1>2. /\ db_version' >= db_version /\ pending = NoRequest
      /\ UNCHANGED <<capacity, old, moved, pending>>
  BY <1>1, CoveringGrows, Zenon DEF kv_del_meta
<1>3. CASE probe(entries, capacity, key).found
  <2>1. p \in Occupied /\ entries[p].key = key
    BY <1>1, <1>3, FoundOccupied, ProbeResult, Zenon DEF Holds
  <2>2. RemoveAt(p)
    BY <1>3, Zenon DEF kv_del_meta
  <2> HIDE DEF p
  <2>3. RemoveOnly(entries, entries', capacity, key)
    BY <1>2, <2>1, <2>2, RemoveGets, Zenon
  <2>4. QED
    BY <1>2, <2>3, RemoveMapStep, Zenon
<1>4. CASE ~probe(entries, capacity, key).found
  <2>1. entries' = entries
    BY <1>4, Zenon DEF kv_del_meta
  <2>2. \A k \in Key : Lookup'[k] = Lookup[k]
    BY <1>2, <2>1, LookupIdle, Zenon
  <2>3. QED
    BY <1>2, <2>2, AdvanceStep, Zenon
<1>5. QED
  BY <1>3, <1>4, Zenon

LEMMA SetTtlMap ==
    ASSUME Inv, Inv', NEW key \in Key, NEW ttl \in Int, kv_set_ttl(key, ttl)
    PROVE  Map!Next
<1> DEFINE p == probe(entries, capacity, key).idx
<1>1. /\ TableInv /\ capacity \in Nat /\ capacity > 0 /\ db_version \in Nat
      /\ probe(entries, capacity, key).found
  BY InvParts DEF kv_set_ttl, TableInv
<1>2. p \in Occupied /\ entries[p].key = key
  BY <1>1, FoundOccupied, ProbeResult, Zenon DEF Holds
<1>3. /\ entries' = [entries EXCEPT ![p].obj.ttl = ttl] /\ pending = NoRequest
      /\ UNCHANGED <<capacity, db_version, pending>>
  BY Zenon DEF kv_set_ttl
<1> HIDE DEF p
<1>4. PutOnly(entries, entries', capacity, key)
  BY <1>2, <1>3, TtlGets, Zenon
<1>5. /\ pending = NoRequest /\ pending' = NoRequest /\ capacity' = capacity
      /\ db_version' >= db_version
  BY <1>1, <1>3
<1>6. QED
  BY <1>4, <1>5, PutStep, Zenon

LEMMA ActiveExpireMap ==
    ASSUME Inv, Inv', NEW now, NEW idx \in 0 .. (capacity - 1),
           kv_active_expire(now, idx)
    PROVE  Map!Next
<1>1. /\ RemoveAt(idx) /\ pending = NoRequest /\ idx \in Occupied
      /\ UNCHANGED <<capacity, db_version, pending>>
  BY Zenon DEF kv_active_expire, Occupied
<1>2. db_version \in Nat /\ entries[idx].key \in Key
  BY <1>1, InvParts, Zenon DEF TableInv, IsTable, Occupied
<1>3. RemoveOnly(entries, entries', capacity, entries[idx].key)
  BY <1>1, RemoveGets, Zenon
<1>4. QED
  BY <1>1, <1>2, <1>3, RemoveMapStep

LEMMA NextVersionMap ==
    ASSUME Inv, kv_next_version
    PROVE  Map!Next
<1>1. /\ UNCHANGED <<entries, capacity, old, moved, pending>>
      /\ db_version \in Nat /\ db_version' = db_version + 1
  BY InvParts, Zenon DEF kv_next_version, TableInv
<1>2. ASSUME NEW k \in Key PROVE Lookup'[k] = Lookup[k]
  <2>1. Unmoved(k)' = Unmoved(k)
    BY <1>1, Zenon DEF Unmoved
  <2>2. kv_get_object(k)' = kv_get_object(k)
    BY <1>1, GetIsGet, Zenon
  <2>3. QED
    BY <1>1, <2>1, <2>2 DEF Lookup
<1>3. QED
  BY <1>1, <1>2, AdvanceStep

LEMMA NextMap ==
    ASSUME Inv, Inv', HasRoom, Next
    PROVE  Map!Next
<1>1. CASE kv_next_version
  BY <1>1, NextVersionMap, Zenon
<1>2. CASE ResizeStep
  <2>1. db_version \in Nat /\ db_version' = db_version
    BY <1>2, InvParts, Zenon DEF ResizeStep, TableInv
  <2>2. QED
    BY <1>2, <2>1, ResizeStepMap, AdvanceStep
<1>3. CASE FinishSet
  BY <1>3, FinishSetMap, Zenon
<1>4. ASSUME NEW key \in Key, kv_del(key) PROVE Map!Next
  BY <1>4, DelMap, Zenon
<1>5. ASSUME NEW key \in Key, NEW meta \in Metas,
             kv_set_object(key, meta, meta) \/ kv_set_object(key, meta, NoMeta)
      PROVE  Map!Next
  <2>1. meta \in kv_meta_t
    BY KeySpaceAssumption, Zenon
  <2>2. QED
    BY <1>5, <2>1, SetMap, Zenon
<1>6. ASSUME NEW key \in Key, NEW meta \in Metas, kv_del_meta(key, meta)
      PROVE  Map!Next
  <2>1. meta \in kv_meta_t
    BY KeySpaceAssumption, Zenon
  <2>2. QED
    BY <1>6, <2>1, DelMetaMap, Zenon
<1>7. ASSUME NEW key \in Key, NEW ttl \in Ttls \cup {-1}, kv_set_ttl(key, ttl)
      PROVE  Map!Next
  <2>1. ttl \in Int
    BY KeySpaceAssumption
  <2>2. QED
    BY <1>7, <2>1, SetTtlMap, Zenon
<1>8. ASSUME NEW now \in Ttls, NEW idx \in 0 .. (capacity - 1),
             kv_active_expire(now, idx)
      PROVE  Map!Next
  BY <1>8, ActiveExpireMap, Zenon
<1>9. QED
  BY <1>1, <1>2, <1>3, <1>4, <1>5, <1>6, <1>7, <1>8, ZenonT(30) DEF Next

LEMMA InitMap == Init => Map!Init /\ HasRoom
<1> SUFFICES ASSUME Init PROVE Map!Init /\ HasRoom
  BY Zenon
<1>1. /\ capacity \in Nat /\ capacity > 0 /\ pending = NoRequest
      /\ \A i \in 0 .. (capacity - 1) : entries[i] = EmptySlot
  BY KeySpaceAssumption DEF Init
<1>2. ASSUME NEW k \in Key PROVE Lookup[k] = NoObject
  <2>1. \A i \in 0 .. (capacity - 1) : ~Holds(entries, k, i)
    BY <1>1 DEF Holds, EmptySlot
  <2>2. Get(entries, capacity, k) = NoObject
    BY <1>1, <2>1, GetMissing, Zenon
  <2>3. QED
    BY <1>1, <2>2, LookupIdle, Zenon
<1>3. HasRoom
  <2>1. ASSUME NEW k \in Key PROVE Stops(entries, capacity, k, 0)
    <3>1. ProbeSlot(capacity, k, 0) \in 0 .. (capacity - 1)
      BY <1>1, ProbeSlotRange, Zenon
    <3>2. QED
      BY <1>1, <3>1 DEF Stops, EmptySlot
  <2>2. QED
    BY <1>1, <2>1 DEF HasRoom
<1>4. QED
  BY <1>2, <1>3, Zenon DEF Map!Init, Init

LEMMA StutterMap == UNCHANGED vars => UNCHANGED Map!vars
<1>1. SUFFICES ASSUME UNCHANGED vars PROVE UNCHANGED Map!vars
  BY Zenon
<1>2. UNCHANGED <<entries, capacity, db_version, old, moved, pending>>
  BY <1>1, Zenon DEF vars
<1>3. Lookup' = Lookup
  BY <1>2 DEF Lookup, Unmoved, kv_get_object
<1>4. QED
  BY <1>2, <1>3, Zenon DEF Map!vars

(* For every key set, hash function and initial capacity: every step that  *)
(* starts where no probe is exhausted is a step of the map of KeyMap       *)
(* (kv_set_object, resize, kv_del, kv_del_meta, kv_set_ttl,                *)
(* kv_active_expire).                                                      *)
THEOREM StepsImplementMap == Spec => ImplementsMap
<1>1. Inv /\ [Next]_vars => Inv'
  BY NextInv, Zenon
<1>2. Inv /\ Inv' /\ [Next]_vars => [HasRoom => [Map!Next]_(Map!vars)]_vars
  BY NextMap, StutterMap, Zenon
<1>3. QED
  BY <1>1, <1>2, InitInv, InitMap, PTL DEF Spec, ImplementsMap

(* So, as long as no probe is ever exhausted, the table of kvdb.c          *)
(* implements the map of KeyMap.                                           *)
THEOREM TableImplementsMap == SpecWithRoom => Map!Spec
<1>1. Inv /\ HasRoom /\ [Next /\ HasRoom']_vars => Inv' /\ HasRoom'
  <2>1. UNCHANGED vars /\ HasRoom => HasRoom'
    BY Zenon DEF vars, HasRoom
  <2>2. QED
    BY <2>1, NextInv, Zenon
<1>2. Inv /\ Inv' /\ HasRoom /\ [Next /\ HasRoom']_vars => [Map!Next]_(Map!vars)
  BY NextMap, StutterMap, Zenon
<1>3. QED
  BY <1>1, <1>2, InitInv, InitMap, PTL DEF SpecWithRoom, Map!Spec
=============================================================================
