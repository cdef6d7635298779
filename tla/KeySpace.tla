------------------------------ MODULE KeySpace ------------------------------
(***************************************************************************)
(* The key-space of src/core/kvdb.c: a flat open-addressing hash table     *)
(* with tombstones, one table-wide reader/writer lock, and a version       *)
(* counter with a mutex of its own.                                        *)
(*                                                                         *)
(* Every operation holds db->lock for its whole body, so each is one       *)
(* action.  The exception is resize, whose copying loop is one action per  *)
(* old slot: `pending' is the SET that holds the write lock meanwhile, and *)
(* only kv_next_version, which does not take that lock, can interleave.    *)
(* An object is reduced to its metadata and its expiry time.               *)
(***************************************************************************)
EXTENDS Meta, FiniteSets

CONSTANTS
    Key,
    Hash,              \* fnv1a, as a function on Key
    INITIAL_CAPACITY,
    MaxCapacity,       \* bound: no resize beyond this many slots
    MaxVersion,        \* bound: kv_next_version stops here
    Metas,             \* the metadata that callers pass
    Ttls,              \* the expiry times that callers pass
    NoKey, NoObject, NoMeta, NoRequest

(* db_object_t, kv_entry and the arguments of kv_set_object.               *)

db_object_t == [meta : kv_meta_t, ttl : Int]

kv_entry == [state : {"E_EMPTY", "E_OCCUPIED", "E_DELETED"},
             key   : Key \cup {NoKey},
             obj   : db_object_t \cup {NoObject}]

EmptySlot == [state |-> "E_EMPTY", key |-> NoKey, obj |-> NoObject]
DeletedSlot == [state |-> "E_DELETED", key |-> NoKey, obj |-> NoObject]
OccupiedSlot(key, obj) == [state |-> "E_OCCUPIED", key |-> key, obj |-> obj]

Request == [key : Key, obj : db_object_t, meta : kv_meta_t \cup {NoMeta}]

ASSUME KeySpaceAssumption ==
    /\ Hash \in [Key -> Nat]
    /\ INITIAL_CAPACITY \in Nat /\ INITIAL_CAPACITY > 1
    /\ MaxCapacity \in Nat /\ MaxVersion \in Nat
    /\ Metas \subseteq kv_meta_t
    /\ Ttls \subseteq Int
    /\ NoKey \notin Key /\ NoObject \notin db_object_t
    /\ NoMeta \notin kv_meta_t /\ NoRequest \notin Request

VARIABLES
    entries,           \* db->entries, a function on 0 .. capacity - 1
    capacity, count, db_version,
    old, moved,        \* resize: the table being copied, the loop index i
    pending            \* resize: the kv_set_object call it serves

vars == <<entries, capacity, count, db_version, old, moved, pending>>

-----------------------------------------------------------------------------
(* probe, in a table t of cap slots.  Round i adds i * i to the index, so  *)
(* after i rounds the offset from the home slot is 1 + 4 + ... + i * i.    *)

SumOfSquares(i) == (i * (i + 1) * (2 * i + 1)) \div 6

ProbeSlot(cap, key, i) == (Hash[key] + SumOfSquares(i)) % cap

Holds(t, key, idx) == t[idx].state = "E_OCCUPIED" /\ t[idx].key = key

Stops(t, cap, key, i) ==
    \/ t[ProbeSlot(cap, key, i)].state = "E_EMPTY"
    \/ Holds(t, key, ProbeSlot(cap, key, i))

(* The loop leaves after n rounds: at the first slot that is empty or      *)
(* holds the key or, with n = cap, by the break.                           *)
ProbeEnds(t, cap, key, n) ==
    /\ n < cap => Stops(t, cap, key, n)
    /\ \A i \in 0 .. (n - 1) : ~Stops(t, cap, key, i)

Rounds(t, cap, key) == CHOOSE n \in 0 .. cap : ProbeEnds(t, cap, key, n)

probe(t, cap, key) ==
    LET n   == Rounds(t, cap, key)
        idx == ProbeSlot(cap, key, n)
    IN  [idx |-> idx, found |-> n < cap /\ Holds(t, key, idx)]

-----------------------------------------------------------------------------
Init ==
    /\ capacity = INITIAL_CAPACITY
    /\ entries = [i \in 0 .. (INITIAL_CAPACITY - 1) |-> EmptySlot]
    /\ count = 0
    /\ db_version = 0
    /\ old = <<>> /\ moved = 0 /\ pending = NoRequest

(* Mutant: the version a caller passes is not followed.                    *)
CoveringNothing(meta) == db_version

(* db_version follows the largest version seen.                            *)
Covering(meta) ==
    IF meta # NoMeta /\ meta.version > db_version
      THEN meta.version ELSE db_version

kv_next_version ==
    /\ db_version < MaxVersion
    /\ db_version' = db_version + 1
    /\ UNCHANGED <<entries, capacity, count, old, moved, pending>>

(* Mutant: a new key is not counted.                                       *)
StoreUncounted(req) ==
    LET p == probe(entries, capacity, req.key)
    IN  /\ entries' = [entries EXCEPT ![p.idx] = OccupiedSlot(req.key, req.obj)]
        /\ count' = count
        /\ db_version' = Covering(req.meta)

(* The second half of kv_set_object: the slot that probe returns is        *)
(* written whether or not it was free, and counted unless key was found.   *)
Store(req) ==
    LET p == probe(entries, capacity, req.key)
    IN  /\ entries' = [entries EXCEPT ![p.idx] = OccupiedSlot(req.key, req.obj)]
        /\ count' = IF p.found THEN count ELSE count + 1
        /\ db_version' = Covering(req.meta)

(* resize up to its loop: a table of twice the size, nothing counted.      *)
BeginResize(req) ==
    /\ 2 * capacity <= MaxCapacity
    /\ capacity' = 2 * capacity
    /\ entries' = [i \in 0 .. (2 * capacity - 1) |-> EmptySlot]
    /\ count' = 0
    /\ old' = entries /\ moved' = 0 /\ pending' = req
    /\ UNCHANGED db_version

(* Mutant: the key about to be stored is not counted in.                   *)
CrowdedLate == 4 * count > 3 * capacity

(* (count + 1) / capacity > LOAD_FACTOR                                    *)
Crowded == 4 * (count + 1) > 3 * capacity

(* A new object never expires; its metadata is the caller's when it gives  *)
(* one, else the object's own, with a version kv_next_version has issued   *)
(* (kv_incrby) or 0.                                                       *)
kv_set_object(key, own, meta) ==
    LET req == [key  |-> key,
                obj  |-> [meta |-> IF meta = NoMeta THEN own ELSE meta,
                          ttl  |-> -1],
                meta |-> meta]
    IN  /\ pending = NoRequest
        /\ \/ Crowded /\ BeginResize(req)
           \/ ~Crowded /\ Store(req) /\ UNCHANGED <<capacity, old, moved, pending>>

(* One iteration of the loop of resize; what probe found is not asked.     *)
ResizeStep ==
    /\ pending # NoRequest /\ moved < capacity \div 2
    /\ moved' = moved + 1
    /\ \/ /\ old[moved].state = "E_OCCUPIED"
          /\ LET p == probe(entries, capacity, old[moved].key)
             IN  entries' = [entries EXCEPT ![p.idx] = old[moved]]
          /\ count' = count + 1
       \/ old[moved].state # "E_OCCUPIED" /\ UNCHANGED <<entries, count>>
    /\ UNCHANGED <<capacity, db_version, old, pending>>

(* Mutant: the loop leaves the last slot of the old table behind.          *)
FinishSetEarly ==
    /\ pending # NoRequest /\ moved >= capacity \div 2 - 1
    /\ Store(pending)
    /\ old' = <<>> /\ moved' = 0 /\ pending' = NoRequest
    /\ UNCHANGED capacity

(* resize returns and kv_set_object goes on.                               *)
FinishSet ==
    /\ pending # NoRequest /\ moved = capacity \div 2
    /\ Store(pending)
    /\ old' = <<>> /\ moved' = 0 /\ pending' = NoRequest
    /\ UNCHANGED capacity

-----------------------------------------------------------------------------
(* Mutant: a removed slot becomes empty and cuts the probe paths through it.*)
RemoveAtEmpty(idx) ==
    /\ entries' = [entries EXCEPT ![idx] = EmptySlot]
    /\ count' = count - 1

RemoveAt(idx) ==
    /\ entries' = [entries EXCEPT ![idx] = DeletedSlot]
    /\ count' = count - 1

kv_del(key) ==
    LET p == probe(entries, capacity, key)
    IN  /\ pending = NoRequest
        /\ p.found /\ RemoveAt(p.idx)
        /\ UNCHANGED <<capacity, db_version, old, moved, pending>>

(* A replicated DEL: nothing happens when the stored object is newer.      *)
kv_del_meta(key, meta) ==
    LET p == probe(entries, capacity, key)
    IN  /\ pending = NoRequest
        /\ \/ p.found /\ ~meta_gt(entries[p.idx].obj.meta, meta) /\ RemoveAt(p.idx)
           \/ ~p.found /\ UNCHANGED <<entries, count>>
        /\ db_version' = Covering(meta)
        /\ UNCHANGED <<capacity, old, moved, pending>>

(* kv_set_ttl, and through it kv_expire and kv_persist.                    *)
kv_set_ttl(key, ttl) ==
    LET p == probe(entries, capacity, key)
    IN  /\ pending = NoRequest
        /\ p.found /\ entries' = [entries EXCEPT ![p.idx].obj.ttl = ttl]
        /\ UNCHANGED <<capacity, count, db_version, old, moved, pending>>

(* One sample of kv_active_expire; the slot is any the generator yields.   *)
kv_active_expire(now, idx) ==
    /\ pending = NoRequest
    /\ entries[idx].state = "E_OCCUPIED"
    /\ entries[idx].obj.ttl >= 0 /\ now >= entries[idx].obj.ttl
    /\ RemoveAt(idx)
    /\ UNCHANGED <<capacity, db_version, old, moved, pending>>

Next ==
    \/ kv_next_version
    \/ ResizeStep
    \/ FinishSet
    \/ \E key \in Key :
         \/ kv_del(key)
         \/ \E meta \in Metas :
              \/ kv_set_object(key, meta, meta)
              \/ meta.version <= db_version /\ kv_set_object(key, meta, NoMeta)
              \/ kv_del_meta(key, meta)
         \/ \E ttl \in Ttls \cup {-1} : kv_set_ttl(key, ttl)
    \/ \E now \in Ttls, idx \in 0 .. (capacity - 1) : kv_active_expire(now, idx)

Spec == Init /\ [][Next]_vars

-----------------------------------------------------------------------------
(* What the readers return: kv_get_object (and kv_exists, kv_ttl_ms, which *)
(* probe the same way) and kv_keys, which lists the keys of the first      *)
(* `count' occupied slots.                                                 *)

kv_get_object(key) ==
    LET p == probe(entries, capacity, key)
    IN  IF p.found THEN entries[p.idx].obj ELSE NoObject

Occupied == {i \in 0 .. (capacity - 1) : entries[i].state = "E_OCCUPIED"}

kv_keys ==
    {entries[i].key :
       i \in {j \in Occupied : Cardinality({h \in Occupied : h < j}) < count}}

-----------------------------------------------------------------------------
(* Types.  Only an occupied slot has a key and an object, and while resize *)
(* copies, the old table has half the slots of the new one.                *)
IsTable(t, size) ==
    /\ t \in [0 .. (size - 1) -> kv_entry]
    /\ \A i \in 0 .. (size - 1) :
         t[i].state = "E_OCCUPIED" => t[i].key \in Key /\ t[i].obj \in db_object_t

TypeOK ==
    /\ capacity \in Nat /\ capacity > 1 /\ count \in Nat /\ db_version \in Nat
    /\ IsTable(entries, capacity)
    /\ pending \in Request \cup {NoRequest}
    /\ moved \in 0 .. (capacity \div 2)
    /\ pending # NoRequest =>
         capacity % 2 = 0 /\ capacity > 3 /\ IsTable(old, capacity \div 2)

(* Every stored key is found: the probe of the key of an occupied slot     *)
(* ends at that very slot, tombstones, resizes and exhausted probes        *)
(* notwithstanding.  So a key never has two slots, of which GET would read *)
(* one and DEL leave the other (probe, kv_set_object, resize).             *)
KeysFindable ==
    \A idx \in Occupied :
      LET p == probe(entries, capacity, entries[idx].key)
      IN  p.found /\ p.idx = idx

(* KEYS lists exactly the keys that GET finds, although it stops after     *)
(* db->count slots and an exhausted probe makes count drift (kv_keys).     *)
KeysComplete ==
    kv_keys = {key \in Key : kv_get_object(key) # NoObject}

(* The load factor is respected at every moment, the middle of a resize    *)
(* included: at most three quarters of the slots are counted, so one       *)
(* doubling per SET is always enough (kv_set_object, resize).              *)
LoadBounded == 4 * count <= 3 * capacity

(* db_version covers every stored object, so that the next local write     *)
(* gets a version greater than that of any object it may replace           *)
(* (kv_next_version, kv_set_object, kv_del_meta).                          *)
VersionCoversObjects ==
    \A idx \in Occupied : entries[idx].obj.meta.version <= db_version

(* What resize relies on: no more is counted than was moved, the old table *)
(* has each key once, what is left to move is not in the new table yet,    *)
(* and db_version covers what is still to be stored.                       *)
ResizeSound ==
    LET Left == {i \in 0 .. (capacity \div 2 - 1) : old[i].state = "E_OCCUPIED"}
    IN  pending # NoRequest =>
          /\ count <= moved
          /\ \A i, j \in Left : old[i].key = old[j].key => i = j
          /\ \A i \in Left, idx \in Occupied :
               i >= moved => entries[idx].key # old[i].key
          /\ \A i \in Left : old[i].obj.meta.version <= db_version
          /\ pending.meta # NoMeta => pending.obj.meta = pending.meta
          /\ pending.meta = NoMeta => pending.obj.meta.version <= db_version

(* The inductive invariant behind the properties above.                    *)
Inv ==
    /\ TypeOK
    /\ KeysFindable
    /\ Cardinality(Occupied) <= count
    /\ LoadBounded
    /\ VersionCoversObjects
    /\ ResizeSound

-----------------------------------------------------------------------------
(* The map that the table stands for.  Copying has not changed it: what    *)
(* resize has yet to move still belongs to it.                             *)
Unmoved(key) ==
    {i \in moved .. (capacity \div 2 - 1) :
       old[i].state = "E_OCCUPIED" /\ old[i].key = key}

Lookup ==
    [key \in Key |->
       IF pending # NoRequest /\ Unmoved(key) # {}
         THEN old[CHOOSE i \in Unmoved(key) : TRUE].obj
         ELSE kv_get_object(key)]

Map == INSTANCE KeyMap
         WITH Object <- db_object_t, store <- Lookup, version <- db_version

(* No probe is exhausted: on the path of every key there is an empty slot  *)
(* or the key itself.                                                      *)
HasRoom ==
    \A key \in Key :
      \E i \in 0 .. (capacity - 1) : Stops(entries, capacity, key, i)

SpecWithRoom == Init /\ [][Next /\ HasRoom']_vars

(* From a state in which no probe is exhausted, a step of the table is a   *)
(* step of the map: SET, DEL, EXPIRE, expiry and a resize in between       *)
(* change the named key only.                                              *)
ImplementsMap == Map!Init /\ [][HasRoom => [Map!Next]_(Map!vars)]_vars

(* A SET changes no key but its own: what test_kvdb.c expects of a SET and *)
(* a later GET (kv_set_object and the resize it may start).                *)
OthersKept ==
    [][/\ ResizeStep => Lookup' = Lookup
       /\ \A key \in Key, meta \in Metas :
            kv_set_object(key, meta, meta) =>
              \A k \in Key \ {key} : Lookup'[k] = Lookup[k]]_vars
=============================================================================
