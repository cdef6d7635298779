------------------------------ MODULE SimpleHT ------------------------------
(***************************************************************************)
(* The chained hash table of src/core/kvdb.c that holds sets and hashes,   *)
(* as operators on the struct simple_ht_t.  A chain is the sequence of its *)
(* nodes.                                                                  *)
(***************************************************************************)
EXTENDS Integers, Sequences, FiniteSets

CONSTANTS
    ht_fn,         \* the hash of every field
    HT_SMALL_CAP

ASSUME SimpleHTAssumption ==
    /\ \A f \in DOMAIN ht_fn : ht_fn[f] \in Nat
    /\ HT_SMALL_CAP \in Nat \ {0}

Table(cap) == [cap |-> cap, count |-> 0,
               buckets |-> [i \in 0 .. cap - 1 |-> <<>>]]

ht_create == Table(HT_SMALL_CAP)

BucketOf(ht, key) == ht_fn[key] % ht.cap

(* The position of a key in its chain, one past its end for a new key.     *)
ht_find_prev(ht, key) ==
    LET chain == ht.buckets[BucketOf(ht, key)]
        at    == {i \in 1 .. Len(chain) : chain[i].key = key}
    IN  IF at = {} THEN Len(chain) + 1 ELSE CHOOSE i \in at : TRUE

ht_exists(ht, key) ==
    ht_find_prev(ht, key) <= Len(ht.buckets[BucketOf(ht, key)])

ht_get(ht, key) == ht.buckets[BucketOf(ht, key)][ht_find_prev(ht, key)].value

(* ht_add after ht_resize has returned.                                    *)
Put(ht, key, val, replace) ==
    LET b == BucketOf(ht, key)
    IN  IF ~ht_exists(ht, key)
          THEN [ht EXCEPT !.buckets[b] = Append(@, [key |-> key, value |-> val]),
                          !.count = @ + 1]
        ELSE IF replace
          THEN [ht EXCEPT !.buckets[b][ht_find_prev(ht, key)].value = val]
        ELSE ht

(* The nodes in the order of buckets and chains.                           *)
Nodes(ht) ==
    LET upTo[b \in 0 .. ht.cap] ==
          IF b = 0 THEN <<>> ELSE upTo[b - 1] \o ht.buckets[b - 1]
    IN  upTo[ht.cap]

(* The nodes added one by one to the table new.                            *)
Refill(new, nodes) ==
    LET t[i \in 0 .. Len(nodes)] ==
          IF i = 0 THEN new ELSE Put(t[i - 1], nodes[i].key, nodes[i].value, FALSE)
    IN  t[Len(nodes)]

(* Mutant: the new table starts with the old count.                        *)
ht_resizeCounted(ht) ==
    IF 4 * ht.count < 3 * ht.cap THEN ht
    ELSE Refill([Table(2 * ht.cap) EXCEPT !.count = ht.count], Nodes(ht))

(* ht_resize: at a load of 0.75 twice the buckets, filled by ht_add, whose *)
(* own call of ht_resize returns at once.                                  *)
ht_resize(ht) ==
    IF 4 * ht.count < 3 * ht.cap THEN ht
    ELSE Refill(Table(2 * ht.cap), Nodes(ht))

ht_add(ht, key, val, replace) == Put(ht_resize(ht), key, val, replace)

(* Mutant: the chain is cut behind the removed node.                       *)
ht_removeTail(ht, key) ==
    IF ~ht_exists(ht, key) THEN ht
    ELSE [ht EXCEPT !.buckets[BucketOf(ht, key)] =
                      SubSeq(@, 1, ht_find_prev(ht, key) - 1),
                    !.count = @ - 1]

ht_remove(ht, key) ==
    LET i == ht_find_prev(ht, key)
    IN  IF ~ht_exists(ht, key) THEN ht
        ELSE [ht EXCEPT !.buckets[BucketOf(ht, key)] =
                          SubSeq(@, 1, i - 1) \o SubSeq(@, i + 1, Len(@)),
                        !.count = @ - 1]

(* ht_keys and ht_items: at most count nodes are listed.                   *)
Listed(ht) ==
    LET all == Nodes(ht)
    IN  SubSeq(all, 1, IF ht.count < Len(all) THEN ht.count ELSE Len(all))
=============================================================================
