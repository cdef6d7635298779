------------------------------ MODULE Objects -------------------------------
(***************************************************************************)
(* The list, set, hash and sorted-set commands of src/core/kvdb.c on one   *)
(* key.  A command finds the object by wr_obj and uses it; a command that  *)
(* writes first puts an empty object in the place of one of another type.  *)
(* One worker uses the object at a time: the code takes no lock for it.    *)
(***************************************************************************)
EXTENDS DList, SimpleHT, SkipList

CONSTANTS
    Value,         \* of list items and of fields of a hash
    Member, Score, \* of sorted sets
    MaxIndex       \* bound: indices and counts are in -MaxIndex .. MaxIndex

ASSUME ObjectsAssumption ==
    /\ Member \subseteq Int /\ Score \subseteq Int
    /\ MaxIndex \in Nat /\ Free \notin Value
    /\ Free \notin [member : Member, score : Score, level : 1 .. MAXLEVEL]

VARIABLE obj       \* the key's object: its type and its struct, or Absent

Absent == [type |-> "none", ptr |-> NULL]

ObjectsInit == obj = Absent

Field == DOMAIN ht_fn
Index == -MaxIndex .. MaxIndex

(* wr_obj finds an object of that type.                                    *)
Is(type) == obj.type = type

(* The struct a writing command gets: wr_obj's, or that of a new object,   *)
(* for which kv_set_object frees whatever the key held.                    *)
Ensured(type, new) == IF Is(type) THEN obj.ptr ELSE new

(* The commands that read and find no object of their type change nothing. *)
List == Ensured("list", obj_create_list)
Set  == Ensured("set", ht_create)
Hash == Ensured("hash", ht_create)
ZSet == Ensured("zset", zsl_create)

Holds(type, ptr) == obj' = [type |-> type, ptr |-> ptr]

-----------------------------------------------------------------------------
(* kv_lpush and kv_rpush.                                                  *)
kv_push(s, val) ==
    /\ ListCells(List) # Node
    /\ Holds("list", dlist_push(List, s, val))

(* kv_lpop and kv_rpop: an empty list stays.                               *)
kv_pop(s) ==
    /\ Is("list") /\ List.end[s] # NULL
    /\ Holds("list", dlist_pop(List, s))

(* kv_lpoprpush of a list to itself; to another key it is a kv_rpop here   *)
(* and a kv_lpush there.                                                   *)
kv_lpoprpush ==
    /\ Is("list") /\ List.end["right"] # NULL
    /\ Holds("list", dlist_push(dlist_pop(List, "right"), "left",
                                List.value[List.end["right"]]))

kv_lset(idx, val) ==
    /\ Is("list") /\ CellAt(List, idx) # NULL
    /\ Holds("list", [List EXCEPT !.value[CellAt(List, idx)] = val])

kv_lrem(count, val) ==
    /\ Is("list")
    /\ Holds("list", dlist_rem(List, count, val))

kv_sadd(m) == Holds("set", ht_add(Set, m, NULL, FALSE))
kv_srem(m) == Is("set") /\ Holds("set", ht_remove(Set, m))

kv_hset(f, val) == Holds("hash", ht_add(Hash, f, val, TRUE))
kv_hdel(f) == Is("hash") /\ Holds("hash", ht_remove(Hash, f))

kv_zadd(s, m, h) ==
    /\ Used(ZSet) # Node
    /\ Holds("zset", zsl_insert(ZSet, s, m, h))

kv_zrem(m) ==
    /\ Is("zset") /\ Found(ZSet, m) # NULL
    /\ Holds("zset", zsl_delete(ZSet, m))

(* DEL, an expiry, or a SET, whose string is to these commands what no    *)
(* object is.                                                              *)
kv_del == ~Is("none") /\ obj' = Absent

ObjectsNext ==
    \/ \E s \in Side : kv_pop(s) \/ \E val \in Value : kv_push(s, val)
    \/ kv_lpoprpush
    \/ \E i \in Index, val \in Value : kv_lset(i, val) \/ kv_lrem(i, val)
    \/ \E f \in Field :
         \/ kv_sadd(f) \/ kv_srem(f) \/ kv_hdel(f)
         \/ \E val \in Value : kv_hset(f, val)
    \/ \E m \in Member :
         \/ kv_zrem(m)
         \/ \E s \in Score, h \in 1 .. MAXLEVEL : kv_zadd(s, m, h)
    \/ kv_del

ObjectsSpec == ObjectsInit /\ [][ObjectsNext]_obj

-----------------------------------------------------------------------------
(* A list read from its tail is the list read from its head in reverse,    *)
(* len and every LINDEX agree with it, and no node that was freed is on it *)
(* and none that was not is lost (dlist_push, dlist_pop, dlist_rem).       *)
ListShape ==
    LET c == Cells(List, "left")
        v == Items(List, "left")
    IN  /\ Cells(List, "right") = Reverse(c)
        /\ Range(c) = ListCells(List) /\ Len(c) = Cardinality(Range(c))
        /\ \A i \in 0 .. MaxIndex - 1 :
             LET n == CellAt(List, -i - 1)
             IN  IF i < Len(v) THEN n # NULL /\ List.value[n] = Reverse(v)[i + 1]
                 ELSE n = NULL /\ CellAt(List, i) = NULL

(* w is v without its first count items x, without all of them if count is *)
(* not positive.                                                           *)
Without(w, v, count, x) ==
    LET kept(j) == \/ v[j] # x
                   \/ count > 0 /\ count <= Cardinality({k \in 1 .. j - 1 : v[k] = x})
    IN  \E at \in [1 .. Len(w) -> 1 .. Len(v)] :
          /\ \A j, k \in 1 .. Len(w) : j < k => at[j] < at[k]
          /\ Range(at) = {j \in 1 .. Len(v) : kept(j)}
          /\ w = [j \in 1 .. Len(w) |-> v[at[j]]]

(* A list command does to the sequence of the items what its name says; a  *)
(* key of another type counts as an empty list (kv_lpush to kv_lpoprpush). *)
ListActsAsSequence ==
    [][LET v == Items(List, "left")
           w == Items(List', "left")
           n == Len(v)
       IN  /\ \A x \in Value :
                /\ kv_push("left", x) => w = <<x>> \o v
                /\ kv_push("right", x) => w = Append(v, x)
                /\ \A i \in Index :
                     /\ kv_lset(i, x) =>
                          w = [v EXCEPT ![IF i < 0 THEN n + i + 1 ELSE i + 1] = x]
                     /\ kv_lrem(i, x) => Without(w, v, i, x)
           /\ kv_pop("left") => w = Tail(v)
           /\ kv_pop("right") => w = SubSeq(v, 1, n - 1)
           /\ kv_lpoprpush => w = <<v[n]>> \o SubSeq(v, 1, n - 1)]_obj

(* Every field is in one node, of the chain its hash selects; count is the *)
(* number of nodes, so SMEMBERS and HGETALL list every field once, and the *)
(* table is never more than one field above its load (ht_add, ht_resize).  *)
TableShape ==
    \A ht \in {Set, Hash} :
      LET keys == [i \in 1 .. Len(Listed(ht)) |-> Listed(ht)[i].key]
      IN  /\ \A b \in 0 .. ht.cap - 1 : \A n \in Range(ht.buckets[b]) :
               BucketOf(ht, n.key) = b
          /\ Len(keys) = Cardinality(Range(keys)) /\ Len(keys) = ht.count
          /\ Range(keys) = {f \in Field : ht_exists(ht, f)}
          /\ 4 * (ht.count - 1) < 3 * ht.cap

(* What HGET and SISMEMBER find of a table.                                *)
Content(ht) == {<<f, ht_get(ht, f)>> : f \in {g \in Field : ht_exists(ht, g)}}

(* A set or hash command changes the field it names and no other, also     *)
(* when the table grows (kv_sadd, kv_srem, kv_hset, kv_hdel).              *)
TableActsAsMap ==
    [][\A f \in Field :
         LET Others(ht) == {e \in Content(ht) : e[1] # f}
         IN  /\ kv_sadd(f) => Content(Set') = Others(Set) \cup {<<f, NULL>>}
             /\ kv_srem(f) => Content(Set') = Others(Set)
             /\ kv_hdel(f) => Content(Hash') = Others(Hash)
             /\ \A x \in Value :
                  kv_hset(f, x) => Content(Hash') = Others(Hash) \cup {<<f, x>>}]_obj

(* Every level of a sorted set lists, in the order of score and member,    *)
(* exactly the nodes that reach it: no pointer leads to a freed node and   *)
(* none is lost.  z->level is the level of the tallest node, z->length the *)
(* number of nodes (zsl_insert and zsl_delete).                            *)
LevelsNest ==
    LET z == ZSet
    IN  /\ \A i \in Levels :
             LET c == Chain(z, i)
             IN  /\ Range(c) = {n \in Used(z) : z.node[n].level > i}
                 /\ Len(c) = Cardinality(Range(c))
                 /\ \A k \in 1 .. Len(c) - 1 :
                      ~NodeBefore(z, c[k + 1], z.node[c[k]].score,
                                  z.node[c[k]].member)
        /\ z.length = Cardinality(Used(z))
        /\ \A n \in Used(z) : z.node[n].level <= z.level
        /\ z.level = 1 \/ \E n \in Used(z) : z.node[n].level = z.level

(* ZREVRANGE a b gives what ZRANGE -b-1 -a-1 gives, in reverse, and the    *)
(* ranks of a member whose node has no equal count up and down to the same *)
(* place (kv_zrange, kv_zrevrange, kv_zrank, kv_zrevrank).                 *)
BothWaysAgree ==
    LET z == ZSet
        up == Chain(z, 0)
        down == BackChain(z)
    IN  /\ \A a, b \in Index :
             kv_zrange(z, down, a, b) = Reverse(kv_zrange(z, up, -b - 1, -a - 1))
        /\ \A n \in Used(z) :
             LET m == z.node[n].member
             IN  /\ z.node[n].score = kv_zscore(z, m)
                 /\ \A k \in Used(z) \ {n} :
                      z.node[k].member # m \/ z.node[k].score # z.node[n].score
                 => /\ kv_zrank(z, m) + kv_zrevrank(z, m) = z.length - 1
                    /\ up[kv_zrank(z, m) + 1] = n

(* ZREM of a member that is in the set takes a node of it exactly when one *)
(* of its nodes has no taller node behind it: a walk on a level that the   *)
(* member does not reach runs to the end of that level (zsl_delete).       *)
RemovedUnlessShadowed ==
    LET z == ZSet
        c == Chain(z, 0)
    IN  \A m \in Member :
          Found(z, m) # NULL <=>
            \E k \in 1 .. Len(c) :
              /\ z.node[c[k]].member = m
              /\ \A j \in k + 1 .. Len(c) :
                   z.node[c[j]].level <= z.node[c[k]].level
=============================================================================
