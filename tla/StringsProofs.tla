---------------------------- MODULE StringsProofs ---------------------------
(***************************************************************************)
(* Proofs about Strings, for every set of workers, every table and every   *)
(* number of commands: what a restart finds in the file, and that commands *)
(* of several critical sections act as one step where nobody interferes.   *)
(***************************************************************************)
EXTENDS Strings, FiniteSetTheorems, TLAPS

N == Len(Slots)
Object0 == Object \cup {Absent}

(* What a worker may be about to do.                                       *)
Saver == [pc : {"save"}, slot : 0 .. N + 1, pos : 0 .. N + 1]
WorkerState ==
    {Idle} \cup Saver
      \cup [pc : {"ttl"}, cmd : {"SETEX"}, key : Key]
      \cup [pc : {"create"}, cmd : {"SETNX", "INCR", "APPEND", "LPUSH"}, key : Key]
      \cup [pc : {"finish"}, cmd : {"INCR", "APPEND"}, key : Key]

TypeOK ==
    /\ db \in [Key -> Object0]
    /\ ideal \in [Key -> Object0]
    /\ now \in Nat /\ up \in BOOLEAN /\ torn \in BOOLEAN
    /\ worker \in [Worker -> WorkerState]
    /\ \A w \in Saving : /\ worker[w].pos <= worker[w].slot
                         /\ worker[w].slot > 0 => worker[w].pos > 0
    /\ file = [i \in 0 .. N |-> file[i]]
    /\ file[0] \in 0 .. N \cup {EOF, Hole}
    /\ \A i \in 1 .. N : file[i] \in Record \cup {EOF, Hole}
    /\ snapshot \in [Key -> Nat \cup {Absent}]
    /\ ~up => worker = [w \in Worker |-> Idle]

(* The slots up to s whose strings the snapshot has, the place of the      *)
(* record of the last of them, and the record of slot j.                   *)
Kept(snap, s) == {j \in 1 .. s : snap[Slots[j]] # Absent}
Rank(snap, s) == Cardinality(Kept(snap, s))
Saved(snap, j) == [key |-> Slots[j], val |-> snap[Slots[j]]]

(* The header and the records of the slots up to s are in the file.        *)
WrittenTo(f, snap, s) ==
    s >= 0 => /\ f[0] \in Nat
              /\ \A j \in Kept(snap, s) : f[Rank(snap, j)] = Saved(snap, j)

(* What the file has is from the snapshot, and there is no gap in it.      *)
Sound(f, snap) ==
    /\ f[0] \in Nat => f[0] >= Rank(snap, N)
    /\ \A i \in 1 .. N : f[i] \notin {EOF, Hole} =>
         \E j \in Kept(snap, N) : Rank(snap, j) = i /\ f[i] = Saved(snap, j)
    /\ \A i \in 0 .. N : f[i] # EOF => \A j \in 0 .. i : f[j] # EOF

(* Savers agree with the snapshot and are where the slots put them, the    *)
(* file is sound, and one of the savers has left everything behind it      *)
(* complete, or the whole file is.                                         *)
SaveInv ==
    /\ Saving # {} =>
         \A k \in Key : snapshot[k] = IF IsString(db[k]) THEN db[k].val ELSE Absent
    /\ \A w \in Saving :
         worker[w].pos = IF worker[w].slot = 0 THEN 0
                         ELSE Rank(snapshot, worker[w].slot - 1) + 1
    /\ Sound(file, snapshot)
    /\ IF Saving = {}
         THEN torn \/ Kept(snapshot, N) = {} \/ WrittenTo(file, snapshot, N)
       ELSE \/ WrittenTo(file, snapshot, N)
            \/ \E w \in Saving : WrittenTo(file, snapshot, worker[w].slot - 1)

(* A worker within a command on a key that nobody else has changed still   *)
(* finds there what it has seen or stored.                                 *)
Stage(w) ==
    LET k == worker[w].key
    IN  /\ worker[w].pc = "ttl" => db[k] = String(0, Forever)
        /\ worker[w].pc = "create" =>
             /\ worker[w].cmd \in {"SETNX", "INCR"} => db[k] = Absent
             /\ worker[w].cmd = "APPEND" => ~IsString(db[k])
        /\ worker[w].pc = "finish" =>
             /\ IsString(db[k])
             /\ worker[w].cmd = "INCR" => ~IsList(ideal[k])

(* The key differs from its ideal only by a string that a command has      *)
(* stored and not yet completed.                                           *)
Near(k) ==
    \/ db[k] = ideal[k]
    \/ /\ db[k] = String(0, Forever)
       /\ \E w \in Worker :
            /\ Within(w, k)
            /\ \/ worker[w].pc = "ttl"
               \/ worker[w].pc = "finish" /\ ~IsString(ideal[k])

AtomicInv ==
    up => \A k \in Key \ clash :
            Near(k) /\ \A w \in Worker : Within(w, k) => Stage(w)

-----------------------------------------------------------------------------
(* Types.                                                                  *)

(* What every step but those of a save, a crash and a restart leaves.      *)
Command ==
    /\ up /\ UNCHANGED <<file, snapshot, torn, up>>
    /\ now' \in Nat
    /\ db' \in [Key -> Object0]
    /\ ideal' \in [Key -> Object0]
    /\ worker' \in [Worker -> WorkerState]
    /\ Saving' = Saving
    /\ \A w \in Saving : worker'[w] = worker[w]
    /\ Saving # {} => db' = db

LEMMA SlotFacts ==
    /\ N \in Nat /\ DOMAIN Slots = 1 .. N
    /\ \A j \in 1 .. N : Slots[j] \in Key
    /\ \A k \in Key : \E j \in 1 .. N : k = Slots[j]
    /\ \A i, j \in 1 .. N : Slots[i] = Slots[j] => i = j
<1>1. Slots \in Seq(Key)
  BY StringsAssumption, Zenon
<1>2. N \in Nat /\ DOMAIN Slots = 1 .. N
  BY <1>1 DEF N
<1>3. \A k \in Key : \E j \in 1 .. N : k = Slots[j]
  BY <1>2, Zenon DEF Key, Range
<1>4. \A j \in 1 .. N : Slots[j] \in Key
  BY <1>2, Zenon DEF Key, Range
<1>5. QED
  BY <1>2, <1>3, <1>4, StringsAssumption, ZenonT(30) DEF IsInjective

LEMMA ObjectFacts ==
    /\ \A n \in Nat, t \in Nat \cup {Forever} :
         String(n, t) \in Object /\ IsString(String(n, t)) /\ ~IsList(String(n, t))
    /\ List \in Object /\ IsList(List) /\ ~IsString(List)
    /\ ~IsString(Absent) /\ ~IsList(Absent)
    /\ Absent \notin Object
    /\ \A obj \in Object : /\ obj.val \in Nat
                           /\ IsString(obj) \/ IsList(obj)
                           /\ ~(IsString(obj) /\ IsList(obj))
  BY StringsAssumption DEF Object, String, List, IsString, IsList

LEMMA AddedType ==
    ASSUME NEW cmd, NEW obj \in Object0
    PROVE  Added(cmd, obj) \in Object0
<1>1. CASE IsString(obj)
  <2>1. obj \in Object
    BY <1>1, Zenon DEF IsString, Object0
  <2>2. /\ [obj EXCEPT !.val = @ + 1] \in Object
        /\ [obj EXCEPT !.val = 10 * @ + 1] \in Object
    BY <2>1 DEF Object
  <2>3. QED
    BY <1>1, <2>1, <2>2, Zenon DEF Added, Object0
<1>2. CASE ~IsString(obj)
  <2>1. String(0, Forever) \in Object
    BY ObjectFacts, Zenon
  <2>2. /\ [String(0, Forever) EXCEPT !.val = @ + 1] \in Object
        /\ [String(0, Forever) EXCEPT !.val = 10 * @ + 1] \in Object
    BY <2>1 DEF Object
  <2>3. QED
    BY <1>2, <2>1, <2>2, Zenon DEF Added, Object0
<1>3. QED
  BY <1>1, <1>2, Zenon

LEMMA WorkerFacts ==
    ASSUME TypeOK, NEW w \in Worker
    PROVE  /\ worker[w] \in WorkerState
           /\ worker[w].pc = "idle" => worker[w] = Idle
           /\ worker[w].pc = "save" => worker[w] \in Saver
           /\ worker[w].pc = "ttl" => worker[w].key \in Key
           /\ worker[w].pc = "create" =>
                /\ worker[w].key \in Key
                /\ worker[w].cmd \in {"SETNX", "INCR", "APPEND", "LPUSH"}
           /\ worker[w].pc = "finish" =>
                worker[w].key \in Key /\ worker[w].cmd \in {"INCR", "APPEND"}
           /\ worker[w].pc \in {"idle", "save", "ttl", "create", "finish"}
<1>1. worker[w] \in WorkerState
  BY Zenon DEF TypeOK
<1>2. QED
  BY <1>1 DEF WorkerState, Saver, Idle

LEMMA NotSaver ==
    /\ Idle \in WorkerState /\ Idle.pc = "idle"
    /\ \A k \in Key :
         /\ [pc |-> "ttl", cmd |-> "SETEX", key |-> k] \in WorkerState
         /\ \A cmd \in {"SETNX", "INCR", "APPEND", "LPUSH"} :
              [pc |-> "create", cmd |-> cmd, key |-> k] \in WorkerState
         /\ \A cmd \in {"INCR", "APPEND"} :
              [pc |-> "finish", cmd |-> cmd, key |-> k] \in WorkerState
  BY Zenon DEF WorkerState, Idle

(* A worker that does not save goes on to something that is no save.       *)
LEMMA CommandMove ==
    ASSUME TypeOK, NEW w \in Worker, NEW st \in WorkerState,
           worker[w].pc # "save", st.pc # "save",
           worker' = [worker EXCEPT ![w] = st]
    PROVE  /\ worker' \in [Worker -> WorkerState]
           /\ Saving' = Saving
           /\ \A u \in Saving : worker'[u] = worker[u]
<1>1. worker \in [Worker -> WorkerState]
  BY Zenon DEF TypeOK
<1>2. /\ worker' \in [Worker -> WorkerState] /\ worker'[w] = st
      /\ \A u \in Worker \ {w} : worker'[u] = worker[u]
  BY <1>1, Zenon
<1>3. \A u \in Worker : u \in Saving' <=> u \in Saving
  BY <1>2, Zenon DEF Saving
<1>4. QED
  BY <1>2, <1>3, Zenon DEF Saving

LEMMA CommandWrite ==
    ASSUME TypeOK, NEW w, NEW k \in Key, NEW obj \in Object0, NEW shown \in Object0,
           NEW adding, Write(w, k, obj, shown, adding),
           worker' \in [Worker -> WorkerState], Saving' = Saving
    PROVE  Command
<1>1. /\ db' \in [Key -> Object0] /\ ideal' \in [Key -> Object0]
  BY Zenon DEF TypeOK, Write, Object0
<1>2. Saving = {}
  BY Zenon DEF Write
<1>3. QED
  BY <1>1, <1>2, Zenon DEF Command, Write, TypeOK, Object0

LEMMA CommandLook ==
    ASSUME TypeOK, Look, worker' \in [Worker -> WorkerState], Saving' = Saving,
           \A u \in Saving : worker'[u] = worker[u]
    PROVE  Command
  BY Zenon DEF Command, Look, TypeOK

(* The steps of the commands other than SAVE, and of the expiry thread.    *)
StringStep ==
    \/ \E w \in Worker :
         \/ kv_setex(w) \/ kv_set_object(w) \/ Finish(w)
         \/ \E k \in Key :
              \/ kv_set(w, k, "SET") \/ kv_set(w, k, "SETEX")
              \/ \E ttl \in {Forever, now + 1} : kv_set_ttl(w, k, ttl)
              \/ kv_del(w, k) \/ kv_setnx(w, k) \/ kv_incrby(w, k)
              \/ kv_append(w, k) \/ kv_ensure_list(w, k)
    \/ \E k \in Key : kv_active_expire(k)

LEMMA CommandStep ==
    ASSUME TypeOK, StringStep
    PROVE  Command
<1> DEFINE S0 == String(0, Forever)
<1>1. S0 \in Object0 /\ Absent \in Object0 /\ List \in Object0
  BY ObjectFacts, Zenon DEF Object0
<1>2. \A k \in Key : db[k] \in Object0 /\ ideal[k] \in Object0
  BY Zenon DEF TypeOK
<1>3. now + 1 \in Nat /\ now \in Nat
  BY DEF TypeOK
<1>4. \A obj \in Object, ttl \in Nat \cup {Forever} :
        [obj EXCEPT !.ttl = ttl] \in Object0
  BY Zenon DEF Object, Object0
<1> HIDE DEF S0
<1>5. ASSUME NEW w \in Worker, NEW k \in Key, NEW obj \in Object0,
             NEW shown \in Object0, NEW adding, Write(w, k, obj, shown, adding),
             NEW st \in WorkerState, st.pc # "save", worker[w].pc # "save",
             worker' = [worker EXCEPT ![w] = st]
      PROVE  Command
  BY <1>5, CommandMove, CommandWrite, Zenon
<1>6. ASSUME NEW w \in Worker, Look, NEW st \in WorkerState, st.pc # "save",
             worker[w].pc # "save", worker' = [worker EXCEPT ![w] = st]
      PROVE  Command
  BY <1>6, CommandMove, CommandLook, Zenon
<1>7. ASSUME NEW w, NEW k \in Key, NEW obj \in Object0,
             NEW shown \in Object0, NEW adding, Write(w, k, obj, shown, adding),
             UNCHANGED worker
      PROVE  Command
  <2>1. worker' \in [Worker -> WorkerState] /\ Saving' = Saving
    BY <1>7, Zenon DEF TypeOK, Saving
  <2>2. QED
    BY <1>7, <2>1, CommandWrite, Zenon
<1>8. ASSUME NEW w \in Worker, kv_setex(w) PROVE Command
  <2>1. worker[w].key \in Key /\ worker[w].pc # "save"
    BY <1>8, WorkerFacts, Zenon DEF kv_setex
  <2>2. CASE db[worker[w].key] = Absent
    BY <1>6, <1>8, <2>1, <2>2, NotSaver, Zenon DEF kv_setex, Done
  <2>3. CASE db[worker[w].key] # Absent
    <3>1. /\ [db[worker[w].key] EXCEPT !.ttl = now + 1] \in Object0
          /\ String(0, now + 1) \in Object0
      BY <1>2, <1>3, <1>4, <2>1, <2>3, ObjectFacts, Zenon DEF Object0
    <3>2. QED
      BY <1>5, <1>8, <2>1, <2>3, <3>1, NotSaver, Zenon DEF kv_setex, Done
  <2>4. QED
    BY <2>2, <2>3, Zenon
<1>9. ASSUME NEW w \in Worker, kv_set_object(w) PROVE Command
  <2>1. /\ worker[w].key \in Key /\ worker[w].pc # "save"
        /\ worker[w].cmd \in {"SETNX", "INCR", "APPEND", "LPUSH"}
    BY <1>9, WorkerFacts, Zenon DEF kv_set_object
  <2>2. CASE worker[w].cmd = "SETNX"
    <3>1. (IF ideal[worker[w].key] = Absent THEN S0 ELSE ideal[worker[w].key])
            \in Object0
      BY <1>1, <1>2, <2>1, Zenon
    <3>2. QED
      BY <1>1, <1>5, <1>9, <2>1, <2>2, <3>1, NotSaver, Zenon DEF kv_set_object, Done, S0
  <2>3. CASE worker[w].cmd = "LPUSH"
    BY <1>1, <1>5, <1>9, <2>1, <2>3, NotSaver, Zenon DEF kv_set_object, Done
  <2>4. CASE worker[w].cmd \in {"INCR", "APPEND"}
    <3>1. /\ Goto(w, "finish", worker[w].cmd, worker[w].key)
          /\ Write(w, worker[w].key, S0, ideal[worker[w].key], FALSE)
      BY <1>9, <2>4, Zenon DEF kv_set_object, S0
    <3>2. [pc |-> "finish", cmd |-> worker[w].cmd, key |-> worker[w].key]
            \in WorkerState
      BY <2>1, <2>4, NotSaver, Zenon
    <3>3. QED
      BY <1>1, <1>2, <1>5, <2>1, <3>1, <3>2, Zenon DEF Goto
  <2>5. QED
    BY <2>1, <2>2, <2>3, <2>4, Zenon
<1>10. ASSUME NEW w \in Worker, Finish(w) PROVE Command
  <2>1. worker[w].key \in Key /\ worker[w].pc # "save"
    BY <1>10, WorkerFacts, Zenon DEF Finish
  <2>2. \A cmd : Added(cmd, db[worker[w].key]) \in Object0
                 /\ Added(cmd, ideal[worker[w].key]) \in Object0
    BY <1>2, <2>1, AddedType, Zenon
  <2>3. CASE IsString(db[worker[w].key])
    BY <1>5, <1>10, <2>1, <2>2, <2>3, NotSaver, Zenon DEF Finish, Done
  <2>4. CASE ~IsString(db[worker[w].key])
    BY <1>6, <1>10, <2>1, <2>4, NotSaver, Zenon DEF Finish, Done
  <2>5. QED
    BY <2>3, <2>4, Zenon
<1>11. ASSUME NEW w \in Worker, NEW k \in Key, worker[w] = Idle,
              kv_set(w, k, "SET") \/ kv_set(w, k, "SETEX")
       PROVE  Command
  <2>1. worker[w].pc # "save"
    BY <1>11, NotSaver, Zenon
  <2>2. CASE kv_set(w, k, "SET")
    BY <1>1, <1>5, <2>1, <2>2, NotSaver, Zenon DEF kv_set, Done, S0
  <2>3. CASE kv_set(w, k, "SETEX")
    BY <1>1, <1>2, <1>5, <2>1, <2>3, NotSaver, Zenon DEF kv_set, Goto, S0
  <2>4. QED
    BY <1>11, <2>2, <2>3, Zenon
<1>12. ASSUME NEW w \in Worker, NEW k \in Key, NEW ttl \in {Forever, now + 1},
              kv_set_ttl(w, k, ttl)
       PROVE  Command
  <2> DEFINE Given(obj) == IF obj = Absent THEN obj ELSE [obj EXCEPT !.ttl = ttl]
  <2>1. ttl \in Nat \cup {Forever}
    BY <1>3, Zenon
  <2>2. ASSUME NEW obj \in Object0 PROVE Given(obj) \in Object0
    BY <1>4, <2>1, <2>2, Zenon DEF Object0
  <2>3. Given(db[k]) \in Object0 /\ Given(ideal[k]) \in Object0
    BY <1>2, <2>2, Zenon
  <2>4. Write(w, k, Given(db[k]), Given(ideal[k]), FALSE) /\ UNCHANGED worker
    BY <1>12, Zenon DEF kv_set_ttl
  <2> HIDE DEF Given
  <2>5. QED
    BY <1>7, <2>3, <2>4, Zenon
<1>13. ASSUME NEW w \in Worker, NEW k \in Key, kv_del(w, k) PROVE Command
  BY <1>1, <1>7, <1>13, Zenon DEF kv_del
<1>14. ASSUME NEW w \in Worker, NEW k \in Key,
              kv_setnx(w, k) \/ kv_append(w, k) \/ kv_ensure_list(w, k)
       PROVE  Command
  <2>1. worker[w].pc # "save"
    BY <1>14, NotSaver, Zenon DEF kv_setnx, kv_append, kv_ensure_list
  <2>2. CASE kv_setnx(w, k)
    BY <1>6, <2>1, <2>2, NotSaver, Zenon DEF kv_setnx, Goto
  <2>3. CASE kv_append(w, k)
    <3>1. CASE IsString(db[k])
      BY <1>6, <2>1, <2>3, <3>1, NotSaver, Zenon DEF kv_append, Goto
    <3>2. CASE ~IsString(db[k])
      BY <1>6, <2>1, <2>3, <3>2, NotSaver, Zenon DEF kv_append, Goto
    <3>3. QED
      BY <3>1, <3>2, Zenon
  <2>4. CASE kv_ensure_list(w, k)
    BY <1>6, <2>1, <2>4, NotSaver, Zenon DEF kv_ensure_list, Goto
  <2>5. QED
    BY <1>14, <2>2, <2>3, <2>4, Zenon
<1>15. ASSUME NEW w \in Worker, NEW k \in Key, kv_incrby(w, k) PROVE Command
  <2>1. worker[w].pc # "save"
    BY <1>15, NotSaver, Zenon DEF kv_incrby
  <2>2. CASE db[k] = Absent
    BY <1>6, <1>15, <2>1, <2>2, NotSaver, Zenon DEF kv_incrby, Goto
  <2>3. CASE db[k] # Absent
    BY <1>2, <1>7, <1>15, <2>3, AddedType, Zenon DEF kv_incrby
  <2>4. QED
    BY <2>2, <2>3, Zenon
<1>16. ASSUME NEW k \in Key, kv_active_expire(k) PROVE Command
  BY <1>1, <1>7, <1>16, Zenon DEF kv_active_expire
<1>17. QED
  BY <1>8, <1>9, <1>10, <1>11, <1>12, <1>13, <1>14, <1>15, <1>16, Zenon
     DEF StringStep, kv_set

LEMMA TypeInit == Init => TypeOK
<1> SUFFICES ASSUME Init PROVE TypeOK
  BY Zenon
<1>1. /\ db \in [Key -> Object0] /\ ideal \in [Key -> Object0]
      /\ snapshot \in [Key -> Nat \cup {Absent}]
  BY Zenon DEF Init, Empty, Object0
<1>2. N \in Nat /\ file = [i \in 0 .. N |-> EOF]
  BY SlotFacts, Zenon DEF Init, EmptyFile, N
<1>3. worker \in [Worker -> WorkerState] /\ Saving = {}
  BY NotSaver, Zenon DEF Init, Saving
<1>4. /\ file = [i \in 0 .. N |-> file[i]]
      /\ \A i \in 0 .. N : file[i] = EOF
      /\ 0 \in 0 .. N /\ 1 .. N \subseteq 0 .. N
  BY <1>2
<1>5. now \in Nat /\ up = TRUE /\ torn \in BOOLEAN
  BY Zenon DEF Init
<1>6. QED
  BY <1>1, <1>3, <1>4, <1>5, Zenon DEF TypeOK

LEMMA TypeCommand ==
    ASSUME TypeOK, Command
    PROVE  TypeOK'
  BY Zenon DEF TypeOK, Command

(* The header counts no more objects than there are slots.                 *)
LEMMA HeaderType ==
    ASSUME TypeOK
    PROVE  /\ Item(0) \in 0 .. N
           /\ IsFiniteSet({k \in Key : db[k] # Absent})
<1> DEFINE C == {k \in Key : db[k] # Absent}
<1>1. Slots \in Surjection(1 .. N, Key)
  BY SlotFacts, StringsAssumption DEF Surjection
<1>2. IsFiniteSet(1 .. N) /\ Cardinality(1 .. N) = N
  BY SlotFacts, FS_Interval
<1>3. IsFiniteSet(Key) /\ Cardinality(Key) <= N
  BY <1>1, <1>2, FS_Surjection
<1>4. IsFiniteSet(C) /\ Cardinality(C) <= Cardinality(Key)
  BY <1>3, FS_Subset, C \in SUBSET Key, Zenon
<1>5. Cardinality(C) \in Nat /\ Cardinality(Key) \in Nat
  BY <1>3, <1>4, FS_CardinalityType, Zenon
<1>6. QED
  BY <1>3, <1>4, <1>5, SlotFacts DEF Item

LEMMA SaverFacts ==
    ASSUME TypeOK, NEW w \in Worker, worker[w].pc = "save"
    PROVE  /\ worker[w].slot \in 0 .. N + 1 /\ worker[w].pos \in 0 .. N + 1
           /\ worker[w].pos <= worker[w].slot
           /\ worker[w].slot > 0 => worker[w].pos > 0
           /\ w \in Saving
<1>1. worker[w] \in Saver /\ w \in Saving
  BY WorkerFacts, Zenon DEF Saving
<1>2. QED
  BY <1>1, Zenon DEF TypeOK, Saver

LEMMA TypeItem ==
    ASSUME TypeOK, NEW w \in Worker, SaveItem(w)
    PROVE  TypeOK'
<1> DEFINE slot == worker[w].slot
           i == worker[w].pos
           st == [pc |-> "save", slot |-> slot + 1,
                  pos |-> IF Writes(slot) THEN i + 1 ELSE i]
<1>1. /\ worker[w].pc = "save" /\ slot <= N /\ slot \in 0 .. N /\ i \in 0 .. N
      /\ i <= slot /\ (slot > 0 => i > 0) /\ N \in Nat
  BY SaverFacts, SlotFacts DEF SaveItem, N
<1>2. worker' = [worker EXCEPT ![w] = st]
  BY Zenon DEF SaveItem
<1>3. st \in Saver
  BY <1>1 DEF Saver
<1>4. st.pc = "save" /\ st.pos <= st.slot /\ (st.slot > 0 => st.pos > 0)
  BY <1>1 DEF Writes
<1> HIDE DEF st
<1>5. /\ worker' \in [Worker -> WorkerState] /\ worker'[w] = st
      /\ \A u \in Worker \ {w} : worker'[u] = worker[u]
  BY <1>2, <1>3, Zenon DEF TypeOK, WorkerState
<1>6. \A u \in Saving' : /\ worker'[u].pos <= worker'[u].slot
                         /\ worker'[u].slot > 0 => worker'[u].pos > 0
  BY <1>4, <1>5, Zenon DEF TypeOK, Saving
<1>7. /\ file' = [j \in 0 .. N |-> file'[j]]
      /\ file'[0] \in 0 .. N \cup {EOF, Hole}
      /\ \A j \in 1 .. N : file'[j] \in Record \cup {EOF, Hole}
  <2>1. CASE ~Writes(slot)
    BY <2>1, Zenon DEF SaveItem, TypeOK
  <2>2. CASE Writes(slot)
    <3>0. DOMAIN file = 0 .. N
      BY Zenon DEF TypeOK
    <3>1. file' = [j \in 0 .. N |->
                     IF j = i THEN Item(slot)
                     ELSE IF j < i /\ file[j] = EOF THEN Hole ELSE file[j]]
      BY <2>2, <3>0, Zenon DEF SaveItem
    <3>2. slot = 0 => Item(slot) \in 0 .. N
      BY HeaderType, Zenon
    <3>3. slot > 0 => Item(slot) \in Record
      <4> SUFFICES ASSUME slot > 0 PROVE Item(slot) \in Record
        BY Zenon
      <4>1. Slots[slot] \in Key /\ IsString(db[Slots[slot]])
        BY <1>1, <2>2, SlotFacts DEF Writes
      <4>2. db[Slots[slot]] \in Object
        BY <4>1 DEF TypeOK, Object0, IsString
      <4>3. db[Slots[slot]].val \in Nat
        BY <4>2, ObjectFacts, Zenon
      <4>4. QED
        BY <4>1, <4>3, <1>1 DEF Item, Record
    <3>4. i = 0 <=> slot = 0
      BY <1>1
    <3>5. /\ file[0] \in 0 .. N \cup {EOF, Hole}
          /\ \A j \in 1 .. N : file[j] \in Record \cup {EOF, Hole}
      BY Zenon DEF TypeOK
    <3> HIDE DEF slot, i
    <3>6. QED
      BY <1>1, <3>1, <3>2, <3>3, <3>4, <3>5
  <2>3. QED
    BY <2>1, <2>2, Zenon
<1>8. up
  BY <1>1 DEF TypeOK, Idle
<1>9. QED
  BY <1>5, <1>6, <1>7, <1>8, Zenon DEF TypeOK, SaveItem

LEMMA TypeSaveEnds ==
    ASSUME TypeOK, NEW w \in Worker, kv_save(w) \/ SaveClose(w)
    PROVE  TypeOK'
<1>1. CASE kv_save(w)
  <2> DEFINE st == [pc |-> "save", slot |-> 0, pos |-> 0]
  <2>1. worker' = [worker EXCEPT ![w] = st]
    BY <1>1, Zenon DEF kv_save
  <2>2. st \in Saver /\ st.pc = "save" /\ st.slot = 0 /\ st.pos = 0
    BY SlotFacts DEF Saver
  <2> HIDE DEF st
  <2>3. /\ worker' \in [Worker -> WorkerState] /\ worker'[w] = st
        /\ \A u \in Worker \ {w} : worker'[u] = worker[u]
    BY <2>1, <2>2, Zenon DEF TypeOK, WorkerState
  <2>4. \A u \in Saving' : /\ worker'[u].pos <= worker'[u].slot
                           /\ worker'[u].slot > 0 => worker'[u].pos > 0
    BY <2>2, <2>3 DEF TypeOK, Saving
  <2>5. file' = [i \in 0 .. N |-> EOF] /\ N \in Nat
    BY <1>1, SlotFacts, Zenon DEF kv_save, EmptyFile, N
  <2>6. snapshot' \in [Key -> Nat \cup {Absent}]
    <3>1. ASSUME NEW k \in Key, IsString(db[k]) PROVE db[k].val \in Nat
      BY <3>1, ObjectFacts, Zenon DEF TypeOK, Object0, IsString
    <3>2. QED
      BY <1>1, <3>1, Zenon DEF kv_save
  <2>7. QED
    BY <1>1, <2>3, <2>4, <2>5, <2>6 DEF TypeOK, kv_save
<1>2. CASE SaveClose(w)
  <2>1. worker' = [worker EXCEPT ![w] = Idle]
    BY <1>2, Zenon DEF SaveClose, Done
  <2>2. /\ worker' \in [Worker -> WorkerState] /\ worker'[w] = Idle
        /\ \A u \in Worker \ {w} : worker'[u] = worker[u]
    BY <2>1, NotSaver, Zenon DEF TypeOK
  <2>3. \A u \in Saving' : u \in Saving /\ worker'[u] = worker[u]
    BY <2>2, NotSaver, Zenon DEF Saving
  <2>4. up
    BY <1>2 DEF TypeOK, SaveClose, Idle
  <2>5. torn' \in BOOLEAN
    BY <1>2, Zenon DEF SaveClose
  <2>6. QED
    BY <1>2, <2>2, <2>3, <2>4, <2>5, Zenon DEF TypeOK, SaveClose
<1>3. QED
  BY <1>1, <1>2, Zenon

LEMMA TypeEnds ==
    ASSUME TypeOK, Tick \/ Crash \/ kv_open
    PROVE  TypeOK'
<1>1. CASE Tick
  <2>1. now' \in Nat
    BY <1>1 DEF Tick, TypeOK
  <2>2. Saving' = Saving
    BY <1>1, Zenon DEF Tick, Saving
  <2>3. QED
    BY <1>1, <2>1, <2>2, Zenon DEF Tick, TypeOK
<1>2. CASE Crash
  <2>1. worker' \in [Worker -> WorkerState] /\ Saving' = {}
    BY <1>2, NotSaver, Zenon DEF Crash, Saving
  <2>2. db' \in [Key -> Object0]
    BY <1>2, Zenon DEF Crash, Empty, Object0
  <2>3. QED
    BY <1>2, <2>1, <2>2, Zenon DEF Crash, TypeOK
<1>3. CASE kv_open
  <2>1. ASSUME NEW k \in Key, Loaded(k) # {}
        PROVE  String(file[CHOOSE i \in Loaded(k) : TRUE].val, Forever) \in Object0
    <3>1. PICK i : i = (CHOOSE x \in Loaded(k) : TRUE)
      BY Zenon
    <3>2. i \in Loaded(k)
      BY <2>1, <3>1, Zenon
    <3>3. file[0] \in Nat => file[0] <= N
      BY StringsAssumption, SlotFacts DEF TypeOK
    <3>4. i \in 1 .. N /\ file[i] \notin {EOF, Hole}
      BY <3>2, <3>3, SlotFacts DEF Loaded
    <3>5. file[i].val \in Nat
      BY <3>4, Zenon DEF TypeOK, Record
    <3>6. QED
      BY <3>1, <3>5, ObjectFacts, Zenon DEF Object0
  <2>2. db' \in [Key -> Object0]
    BY <1>3, <2>1, Zenon DEF kv_open, Object0
  <2>3. Saving' = Saving
    BY <1>3, Zenon DEF kv_open, Saving
  <2>4. QED
    BY <1>3, <2>2, <2>3, Zenon DEF kv_open, TypeOK
<1>4. QED
  BY <1>1, <1>2, <1>3, Zenon

LEMMA TypeStep ==
    ASSUME TypeOK, [Next]_vars
    PROVE  TypeOK'
<1>1. CASE StringStep
  BY <1>1, CommandStep, TypeCommand, Zenon
<1>2. CASE \E w \in Worker : kv_save(w) \/ SaveItem(w) \/ SaveClose(w)
  BY <1>2, TypeItem, TypeSaveEnds, Zenon
<1>3. CASE Tick \/ Crash \/ kv_open
  BY <1>3, TypeEnds, Zenon
<1>4. CASE UNCHANGED vars
  BY <1>4, Zenon DEF TypeOK, vars, Saving
<1>5. QED
  BY <1>1, <1>2, <1>3, <1>4, Zenon DEF Next, Begin, Continue, StringStep

-----------------------------------------------------------------------------
(* The file.                                                               *)

(* How the places of the records grow with the slots.                      *)
LEMMA RankFacts ==
    ASSUME NEW snap
    PROVE
    /\ Rank(snap, 0) = 0
    /\ \A s \in 0 .. N : IsFiniteSet(Kept(snap, s)) /\ Rank(snap, s) \in 0 .. s
    /\ \A s \in 1 .. N :
         Rank(snap, s) = IF snap[Slots[s]] # Absent THEN Rank(snap, s - 1) + 1 ELSE Rank(snap, s - 1)
    /\ \A i, j \in 0 .. N : i <= j => Rank(snap, i) <= Rank(snap, j)
    /\ \A i, j \in Kept(snap, N) : Rank(snap, i) = Rank(snap, j) => i = j
    /\ \A j \in Kept(snap, N) : Rank(snap, j) \in 1 .. N /\ Rank(snap, j) <= Rank(snap, N)
<1>0. N \in Nat
  BY SlotFacts, Zenon
<1>1. Rank(snap, 0) = 0
  BY FS_EmptySet, Kept(snap, 0) = {}, Zenon DEF Rank, Kept
<1>2. ASSUME NEW s \in 0 .. N
      PROVE  IsFiniteSet(Kept(snap, s)) /\ Rank(snap, s) \in 0 .. s
  <2>1. IsFiniteSet(1 .. s) /\ Cardinality(1 .. s) = s
    BY <1>0, FS_Interval
  <2>2. IsFiniteSet(Kept(snap, s)) /\ Cardinality(Kept(snap, s)) <= s
    BY <2>1, FS_Subset, Kept(snap, s) \in SUBSET (1 .. s), Zenon DEF Kept
  <2>3. Cardinality(Kept(snap, s)) \in Nat
    BY <2>2, FS_CardinalityType, Zenon
  <2>4. QED
    BY <2>2, <2>3 DEF Rank
<1>3. ASSUME NEW s \in 1 .. N
      PROVE  Rank(snap, s) = IF snap[Slots[s]] # Absent THEN Rank(snap, s - 1) + 1
                       ELSE Rank(snap, s - 1)
  <2>1. s - 1 \in 0 .. N /\ IsFiniteSet(Kept(snap, s - 1)) /\ s \notin Kept(snap, s - 1)
    BY <1>0, <1>2 DEF Kept
  <2>2. CASE snap[Slots[s]] # Absent
    <3>1. Kept(snap, s) = Kept(snap, s - 1) \cup {s}
      BY <1>0, <2>2 DEF Kept
    <3>2. QED
      BY <2>1, <2>2, <3>1, FS_AddElement, Zenon DEF Rank
  <2>3. CASE snap[Slots[s]] = Absent
    <3>1. Kept(snap, s) = Kept(snap, s - 1)
      BY <1>0, <2>3 DEF Kept
    <3>2. QED
      BY <2>3, <3>1, Zenon DEF Rank
  <2>4. QED
    BY <2>2, <2>3, Zenon
<1>4. ASSUME NEW i \in 0 .. N, NEW j \in 0 .. N, i <= j
      PROVE  /\ Rank(snap, i) <= Rank(snap, j)
             /\ Rank(snap, i) = Rank(snap, j) => Kept(snap, i) = Kept(snap, j)
  <2>1. Kept(snap, i) \in SUBSET Kept(snap, j)
    BY <1>0, <1>4 DEF Kept
  <2>2. QED
    BY <1>2, <2>1, FS_Subset, Zenon DEF Rank
<1>5. ASSUME NEW i \in Kept(snap, N), NEW j \in Kept(snap, N), Rank(snap, i) = Rank(snap, j), i < j
      PROVE  FALSE
  <2>1. i \in 0 .. N /\ j \in 0 .. N
    BY <1>0 DEF Kept
  <2>2. Kept(snap, i) = Kept(snap, j)
    BY <1>4, <1>5, <2>1
  <2>3. j \in Kept(snap, j) /\ j \notin Kept(snap, i)
    BY <1>0, <1>5, <2>1 DEF Kept
  <2>4. QED
    BY <2>2, <2>3, Zenon
<1>6. \A i, j \in Kept(snap, N) : Rank(snap, i) = Rank(snap, j) => i = j
  <2>1. \A i \in Kept(snap, N) : i \in Nat
    BY <1>0 DEF Kept
  <2>2. QED
    BY <1>5, <2>1
<1>7. ASSUME NEW j \in Kept(snap, N) PROVE Rank(snap, j) \in 1 .. N /\ Rank(snap, j) <= Rank(snap, N)
  <2>1. j \in 1 .. N /\ snap[Slots[j]] # Absent
    BY Zenon DEF Kept
  <2>2. Rank(snap, j) = Rank(snap, j - 1) + 1 /\ Rank(snap, j - 1) \in Nat /\ Rank(snap, j) \in 0 .. j
    BY <1>0, <1>2, <1>3, <2>1
  <2>3. Rank(snap, j) <= Rank(snap, N)
    BY <1>0, <1>4, <2>1
  <2>4. QED
    BY <1>0, <2>1, <2>2, <2>3
<1>8. QED
  BY <1>1, <1>2, <1>3, <1>4, <1>6, <1>7, Zenon

LEMMA SaveInit == Init => SaveInv
<1> SUFFICES ASSUME Init PROVE SaveInv
  BY Zenon
<1>1. Saving = {}
  BY NotSaver, Zenon DEF Init, Saving
<1>2. N \in Nat /\ \A i \in 0 .. N : file[i] = EOF
  BY SlotFacts, Zenon DEF Init, EmptyFile, N
<1>3. file[0] \notin Nat /\ 1 .. N \subseteq 0 .. N
  BY <1>2, StringsAssumption
<1>4. Kept(snapshot, N) = {}
  BY SlotFacts, Zenon DEF Init, Empty, Kept
<1>5. QED
  BY <1>1, <1>2, <1>3, <1>4, Zenon DEF SaveInv, Sound, WrittenTo

(* A step that leaves the file, the snapshot and the savers alone.         *)
LEMMA SaveKept ==
    ASSUME SaveInv, UNCHANGED <<file, snapshot, torn>>, Saving' = Saving,
           \A w \in Saving : worker'[w] = worker[w],
           Saving # {} => db' = db
    PROVE  SaveInv'
<1>1. ASSUME Saving # {}, NEW k \in Key
      PROVE  snapshot'[k] = IF IsString(db'[k]) THEN db'[k].val ELSE Absent
  BY <1>1, Zenon DEF SaveInv
<1>2. QED
  BY <1>1, Zenon DEF SaveInv

LEMMA SaveBegins ==
    ASSUME TypeOK, SaveInv, NEW w \in Worker, kv_save(w)
    PROVE  SaveInv'
<1> DEFINE st == [pc |-> "save", slot |-> 0, pos |-> 0]
<1>1. /\ worker' = [worker EXCEPT ![w] = st] /\ worker[w].pc = "idle"
      /\ st.pc = "save" /\ st.slot = 0 /\ st.pos = 0
  BY NotSaver, Zenon DEF kv_save
<1> HIDE DEF st
<1>2. worker'[w] = st /\ \A u \in Worker \ {w} : worker'[u] = worker[u]
  BY <1>1, Zenon DEF TypeOK
<1>3. w \notin Saving /\ Saving' = Saving \cup {w}
  BY <1>1, <1>2, Zenon DEF Saving
<1>4. \A k \in Key :
        snapshot'[k] = IF IsString(db'[k]) THEN db'[k].val ELSE Absent
  BY Zenon DEF kv_save
<1>5. ASSUME Saving # {} PROVE snapshot' = snapshot
  <2>1. /\ snapshot \in [Key -> Nat \cup {Absent}]
        /\ snapshot' = [k \in Key |-> IF IsString(db[k]) THEN db[k].val ELSE Absent]
    BY Zenon DEF TypeOK, kv_save
  <2>2. \A k \in Key : snapshot'[k] = snapshot[k]
    BY <1>5, <2>1, Zenon DEF SaveInv
  <2>3. QED
    BY <2>1, <2>2, Zenon
<1>6. ASSUME NEW u \in Saving'
      PROVE  worker'[u].pos = IF worker'[u].slot = 0 THEN 0
                              ELSE Rank(snapshot', worker'[u].slot - 1) + 1
  <2>1. CASE u = w
    BY <1>1, <1>2, <2>1, Zenon
  <2>2. CASE u # w
    <3>1. u \in Saving /\ worker'[u] = worker[u]
      BY <1>2, <1>3, <1>6, <2>2, Zenon DEF Saving
    <3>2. snapshot' = snapshot
      BY <1>5, <3>1, Zenon
    <3>3. QED
      BY <3>1, <3>2, Zenon DEF SaveInv
  <2>3. QED
    BY <2>1, <2>2, Zenon
<1>7. Sound(file', snapshot')
  <2>1. N \in Nat /\ \A i \in 0 .. N : file'[i] = EOF
    BY SlotFacts, Zenon DEF kv_save, EmptyFile, N
  <2>2. file'[0] \notin Nat /\ 1 .. N \subseteq 0 .. N
    BY <2>1, StringsAssumption
  <2>3. QED
    BY <2>1, <2>2, Zenon DEF Sound
<1>8. WrittenTo(file', snapshot', worker'[w].slot - 1)
  BY <1>1, <1>2 DEF WrittenTo, Kept
<1>9. QED
  BY <1>3, <1>4, <1>6, <1>7, <1>8, Zenon DEF SaveInv

LEMMA SaveCloses ==
    ASSUME TypeOK, SaveInv, NEW w \in Worker, SaveClose(w)
    PROVE  SaveInv'
<1>1. worker' = [worker EXCEPT ![w] = Idle] /\ w \in Saving
  BY Zenon DEF SaveClose, Done, Saving
<1>2. worker'[w] = Idle /\ \A u \in Worker \ {w} : worker'[u] = worker[u]
  BY <1>1, Zenon DEF TypeOK
<1>3. Saving' = Saving \ {w}
  BY <1>2, NotSaver, Zenon DEF Saving
<1>4. worker[w].slot = N + 1
  BY SaverFacts, SlotFacts DEF SaveClose, N
<1>5. /\ \A k \in Key :
           snapshot[k] = IF IsString(db[k]) THEN db[k].val ELSE Absent
      /\ \A u \in Saving' : u \in Saving /\ worker'[u] = worker[u]
      /\ UNCHANGED <<db, file, snapshot>>
  BY <1>1, <1>2, <1>3, Zenon DEF SaveInv, SaveClose, Saving
<1>6. WrittenTo(file, snapshot, worker[w].slot - 1) => WrittenTo(file, snapshot, N)
  BY <1>4, SlotFacts
<1>7. \/ WrittenTo(file, snapshot, N)
      \/ \E u \in Saving' : WrittenTo(file, snapshot, worker[u].slot - 1)
  BY <1>1, <1>3, <1>6, Zenon DEF SaveInv
<1>8. QED
  BY <1>5, <1>7, Zenon DEF SaveInv

(* The header counts every string of the snapshot, and the other objects.  *)
LEMMA HeaderCovers ==
    ASSUME TypeOK,
           \A k \in Key : snapshot[k] = IF IsString(db[k]) THEN db[k].val ELSE Absent
    PROVE  Item(0) >= Rank(snapshot, N)
<1> DEFINE C == {k \in Key : db[k] # Absent}
           f == [j \in Kept(snapshot, N) |-> Slots[j]]
<1>1. \A j \in Kept(snapshot, N) : j \in 1 .. N /\ Slots[j] \in C
  BY SlotFacts, Zenon DEF Kept, IsString
<1>2. f \in Injection(Kept(snapshot, N), C)
  BY <1>1, SlotFacts, Zenon DEF Injection, IsInjective
<1>3. IsFiniteSet(C)
  BY HeaderType, Zenon
<1>4. Cardinality(Kept(snapshot, N)) <= Cardinality(C) /\ IsFiniteSet(Kept(snapshot, N))
  BY <1>2, <1>3, FS_Injection, Zenon
<1>5. QED
  BY <1>3, <1>4, FS_CardinalityType, Zenon DEF Item, Rank

LEMMA SaveItemStep ==
    ASSUME TypeOK, SaveInv, NEW w \in Worker, SaveItem(w)
    PROVE  SaveInv'
<1> DEFINE slot == worker[w].slot
           i == worker[w].pos
           st == [pc |-> "save", slot |-> slot + 1,
                  pos |-> IF Writes(slot) THEN i + 1 ELSE i]
<1>1. /\ worker[w].pc = "save" /\ slot \in 0 .. N /\ i \in 0 .. N /\ N \in Nat
      /\ (slot > 0 <=> i > 0) /\ w \in Saving
  BY SaverFacts, SlotFacts DEF SaveItem, N
<1>2. /\ worker' = [worker EXCEPT ![w] = st]
      /\ UNCHANGED <<db, up, snapshot, torn>>
      /\ ~Writes(slot) => file' = file
      /\ Writes(slot) =>
           file' = [j \in DOMAIN file |->
                     IF j = i THEN Item(slot)
                     ELSE IF j < i /\ file[j] = EOF THEN Hole ELSE file[j]]
  BY Zenon DEF SaveItem
<1>3. /\ st.pc = "save" /\ st.slot = slot + 1
      /\ st.pos = IF Writes(slot) THEN i + 1 ELSE i
  BY Zenon
<1>4. i = IF slot = 0 THEN 0 ELSE Rank(snapshot, slot - 1) + 1
  BY <1>1, Zenon DEF SaveInv
<1>5. \A k \in Key : snapshot[k] = IF IsString(db[k]) THEN db[k].val ELSE Absent
  BY <1>1, Zenon DEF SaveInv
<1>6. slot = 0 => Writes(slot) /\ Item(slot) \in 0 .. N
  BY HeaderType, Zenon DEF Writes
<1>7. ASSUME slot > 0, Writes(slot)
      PROVE  /\ slot \in Kept(snapshot, N) /\ i = Rank(snapshot, slot)
             /\ Item(slot) = Saved(snapshot, slot)
  <2>1. slot \in 1 .. N /\ Slots[slot] \in Key /\ IsString(db[Slots[slot]])
    BY <1>1, <1>7, SlotFacts DEF Writes
  <2>2. db[Slots[slot]].val \in Nat /\ snapshot[Slots[slot]] = db[Slots[slot]].val
    BY <1>5, <2>1, ObjectFacts, ZenonT(30) DEF TypeOK, Object0, IsString
  <2>3. snapshot[Slots[slot]] # Absent
    BY <2>2, StringsAssumption, Zenon
  <2>4. slot \in Kept(snapshot, N)
    BY <2>1, <2>3, Zenon DEF Kept
  <2>5. Rank(snapshot, slot) = Rank(snapshot, slot - 1) + 1
    BY <2>1, <2>3, RankFacts, Zenon
  <2>6. Item(slot) = Saved(snapshot, slot)
    BY <2>1, <2>2 DEF Item, Saved
  <2>7. QED
    BY <1>4, <1>7, <2>4, <2>5, <2>6
<1>8. ASSUME ~Writes(slot)
      PROVE  slot \in 1 .. N /\ slot \notin Kept(snapshot, N) /\ i = Rank(snapshot, slot) + 1
  <2>1. slot \in 1 .. N /\ Slots[slot] \in Key /\ ~IsString(db[Slots[slot]])
    BY <1>1, <1>8, SlotFacts DEF Writes
  <2>2. snapshot[Slots[slot]] = Absent
    BY <1>5, <2>1, Zenon
  <2>3. Rank(snapshot, slot) = Rank(snapshot, slot - 1)
    BY <2>1, <2>2, RankFacts, Zenon
  <2>4. QED
    BY <1>4, <2>1, <2>2, <2>3 DEF Kept
<1> HIDE DEF slot, i, st
<1>9. worker'[w] = st /\ \A u \in Worker \ {w} : worker'[u] = worker[u]
  BY <1>2, Zenon DEF TypeOK
<1>10. Saving' = Saving
  BY <1>1, <1>3, <1>9, Zenon DEF Saving
<1>11. /\ DOMAIN file = 0 .. N
       /\ file[0] \in 0 .. N \cup {EOF, Hole}
       /\ \A j \in 1 .. N : file[j] \in Record \cup {EOF, Hole}
  BY Zenon DEF TypeOK
<1>12. st.pos = Rank(snapshot, slot) + 1
  <2>1. CASE slot = 0
    <3>1. st.pos = i + 1 /\ i = 0 /\ Rank(snapshot, 0) = 0
      BY <1>3, <1>4, <1>6, <2>1, RankFacts, Zenon
    <3>2. QED
      BY <2>1, <3>1, Zenon
  <2>2. CASE slot > 0 /\ Writes(slot)
    BY <1>3, <1>7, <2>2, Zenon
  <2>3. CASE ~Writes(slot)
    BY <1>3, <1>8, <2>3, Zenon
  <2>4. QED
    BY <1>1, <2>1, <2>2, <2>3
<1>13. ASSUME NEW u \in Saving'
       PROVE  worker'[u].pos = IF worker'[u].slot = 0 THEN 0
                               ELSE Rank(snapshot', worker'[u].slot - 1) + 1
  <2>1. CASE u = w
    <3>1. worker'[u] = st /\ st.slot # 0 /\ st.slot - 1 = slot
      BY <1>1, <1>3, <1>9, <2>1
    <3>2. QED
      BY <1>2, <1>12, <3>1, Zenon
  <2>2. CASE u # w
    <3>1. u \in Saving /\ worker'[u] = worker[u]
      BY <1>9, <1>10, <1>13, <2>2, Zenon DEF Saving
    <3>2. QED
      BY <1>2, <3>1, Zenon DEF SaveInv
  <2>3. QED
    BY <2>1, <2>2, Zenon
<1>14. \A j \in Kept(snapshot, N) : Saved(snapshot, j) \in Record
  <2> TAKE j \in Kept(snapshot, N)
  <2>1. Slots[j] \in Key /\ snapshot[Slots[j]] # Absent
    BY SlotFacts, Zenon DEF Kept
  <2>2. snapshot[Slots[j]] \in Nat
    BY <2>1, Zenon DEF TypeOK
  <2>3. QED
    BY <2>1, <2>2, Zenon DEF Saved, Record
<1>15. ASSUME Writes(slot)
       PROVE  /\ file'[i] = Item(slot)
              /\ \A j \in 0 .. N : j # i =>
                   file'[j] = IF j < i /\ file[j] = EOF THEN Hole ELSE file[j]
              /\ file'[i] # EOF /\ file'[i] # Hole
  <2>1. /\ file'[i] = Item(slot)
        /\ \A j \in 0 .. N : j # i =>
             file'[j] = IF j < i /\ file[j] = EOF THEN Hole ELSE file[j]
    BY <1>1, <1>2, <1>11, <1>15, Zenon
  <2>2. CASE slot = 0
    BY <1>6, <2>1, <2>2, StringsAssumption
  <2>3. CASE slot > 0
    BY <1>7, <1>14, <1>15, <2>1, <2>3, StringsAssumption, Zenon
  <2>4. QED
    BY <1>1, <2>1, <2>2, <2>3
<1>16. ASSUME NEW s \in -1 .. N, WrittenTo(file, snapshot, s)
       PROVE  WrittenTo(file', snapshot, s)
  <2>1. CASE ~Writes(slot)
    BY <1>2, <1>16, <2>1, Zenon
  <2>2. CASE Writes(slot) /\ s >= 0
    <3>1. file[0] \in Nat /\ \A j \in Kept(snapshot, s) : file[Rank(snapshot, j)] = Saved(snapshot, j)
      BY <1>16, <2>2, Zenon DEF WrittenTo
    <3>2. file'[0] \in Nat
      <4>1. CASE i = 0
        BY <1>1, <1>6, <1>15, <2>2, <4>1
      <4>2. CASE i # 0
        BY <1>1, <1>15, <2>2, <3>1, <4>2, StringsAssumption
      <4>3. QED
        BY <4>1, <4>2, Zenon
    <3>3. ASSUME NEW j \in Kept(snapshot, s)
          PROVE  file'[Rank(snapshot, j)] = Saved(snapshot, j)
      <4>1. j \in Kept(snapshot, N)
        BY <1>1 DEF Kept
      <4>2. Rank(snapshot, j) \in 1 .. N
        BY <4>1, RankFacts, Zenon
      <4>3. CASE Rank(snapshot, j) = i
        <5>1. slot > 0
          BY <1>1, <4>2, <4>3
        <5>2. slot = j
          BY <1>7, <2>2, <4>1, <4>3, <5>1, RankFacts, Zenon
        <5>3. QED
          BY <1>7, <1>15, <2>2, <4>3, <5>1, <5>2, Zenon
      <4>4. CASE Rank(snapshot, j) # i
        <5>1. file[Rank(snapshot, j)] = Saved(snapshot, j) /\ file[Rank(snapshot, j)] # EOF
          BY <1>14, <3>1, <4>1, StringsAssumption, Zenon
        <5>2. QED
          BY <1>1, <1>15, <2>2, <4>2, <4>4, <5>1
      <4>5. QED
        BY <4>3, <4>4, Zenon
    <3>4. QED
      BY <3>2, <3>3, Zenon DEF WrittenTo
  <2>3. CASE ~(s >= 0)
    BY <2>3, Zenon DEF WrittenTo
  <2>4. QED
    BY <2>1, <2>2, <2>3, Zenon
<1>17. ASSUME WrittenTo(file, snapshot, slot - 1)
       PROVE  WrittenTo(file', snapshot, slot)
  <2>1. WrittenTo(file', snapshot, slot - 1)
    BY <1>1, <1>16, <1>17
  <2>2. file'[0] \in Nat
    <3>1. CASE slot = 0
      BY <1>1, <1>6, <1>15, <3>1
    <3>2. CASE slot > 0
      BY <1>1, <2>1, <3>2 DEF WrittenTo
    <3>3. QED
      BY <1>1, <3>1, <3>2
  <2>3. ASSUME NEW j \in Kept(snapshot, slot)
        PROVE  file'[Rank(snapshot, j)] = Saved(snapshot, j)
    <3>1. j \in 1 .. slot /\ slot > 0 /\ j \in Kept(snapshot, N)
      BY <1>1 DEF Kept
    <3>2. CASE j = slot
      <4>1. Writes(slot)
        BY <1>8, <3>1, <3>2, Zenon
      <4>2. QED
        BY <1>7, <1>15, <3>1, <3>2, <4>1, Zenon
    <3>3. CASE j # slot
      <4>1. j \in Kept(snapshot, slot - 1) /\ slot - 1 >= 0
        BY <1>1, <3>1, <3>3 DEF Kept
      <4>2. QED
        BY <2>1, <4>1, Zenon DEF WrittenTo
    <3>4. QED
      BY <3>2, <3>3, Zenon
  <2>4. QED
    BY <2>2, <2>3, Zenon DEF WrittenTo
<1>18. Sound(file', snapshot)
  <2>1. CASE ~Writes(slot)
    BY <1>2, <2>1, Zenon DEF SaveInv
  <2>2. CASE Writes(slot)
    <3>1. file'[0] \in Nat => file'[0] >= Rank(snapshot, N)
      <4>1. CASE i = 0
        BY <1>1, <1>5, <1>15, <2>2, <4>1, HeaderCovers
      <4>2. CASE i # 0
        <5>1. file'[0] = Hole \/ file'[0] = file[0]
          BY <1>1, <1>15, <2>2, <4>2
        <5>2. QED
          BY <5>1, StringsAssumption, Zenon DEF SaveInv, Sound
      <4>3. QED
        BY <4>1, <4>2, Zenon
    <3>2. ASSUME NEW a \in 1 .. N, file'[a] \notin {EOF, Hole}
          PROVE  \E j \in Kept(snapshot, N) :
                   Rank(snapshot, j) = a /\ file'[a] = Saved(snapshot, j)
      <4>1. CASE a = i
        BY <1>1, <1>7, <1>15, <2>2, <4>1
      <4>2. CASE a # i
        <5>1. file'[a] = file[a]
          BY <1>1, <1>15, <2>2, <3>2, <4>2
        <5>2. QED
          BY <3>2, <5>1, Zenon DEF SaveInv, Sound
      <4>3. QED
        BY <4>1, <4>2, Zenon
    <3>3. ASSUME NEW a \in 0 .. N, file'[a] # EOF, NEW b \in 0 .. a
          PROVE  file'[b] # EOF
      <4>1. CASE b = i
        BY <1>15, <2>2, <4>1, Zenon
      <4>2. CASE b < i
        BY <1>1, <1>15, <2>2, <4>2, StringsAssumption
      <4>3. CASE b > i
        <5>1. file'[a] = file[a] /\ file'[b] = file[b]
          BY <1>1, <1>15, <2>2, <4>3
        <5>2. QED
          BY <3>3, <5>1, ZenonT(30) DEF SaveInv, Sound
      <4>4. QED
        BY <1>1, <4>1, <4>2, <4>3
    <3>4. QED
      BY <3>1, <3>2, <3>3, Zenon DEF Sound
  <2>3. QED
    BY <2>1, <2>2, Zenon
<1>19. \/ WrittenTo(file', snapshot, N)
       \/ \E u \in Saving : WrittenTo(file', snapshot, worker'[u].slot - 1)
  <2>1. CASE WrittenTo(file, snapshot, N)
    BY <1>1, <1>16, <2>1
  <2>2. ASSUME NEW u \in Saving, WrittenTo(file, snapshot, worker[u].slot - 1)
        PROVE  WrittenTo(file', snapshot, worker'[u].slot - 1)
    <3>1. CASE u = w
      <4>1. worker'[u].slot - 1 = slot
        BY <1>1, <1>3, <1>9, <3>1
      <4>2. QED
        BY <1>17, <2>2, <3>1, <4>1, Zenon DEF slot
    <3>2. CASE u # w
      <4>1. worker'[u] = worker[u] /\ worker[u].slot - 1 \in -1 .. N
        BY <1>1, <1>9, <3>2, SaverFacts DEF Saving
      <4>2. QED
        BY <1>16, <2>2, <4>1, Zenon
    <3>3. QED
      BY <3>1, <3>2, Zenon
  <2>3. QED
    BY <1>1, <2>1, <2>2, Zenon DEF SaveInv
<1>20. QED
  BY <1>1, <1>2, <1>5, <1>10, <1>13, <1>18, <1>19, Zenon DEF SaveInv

LEMMA SaveStep ==
    ASSUME TypeOK, SaveInv, [Next]_vars
    PROVE  SaveInv'
<1>1. CASE StringStep
  <2>1. Command
    BY <1>1, CommandStep, Zenon
  <2>2. QED
    BY <2>1, SaveKept, Zenon DEF Command
<1>2. CASE \E w \in Worker : kv_save(w) \/ SaveItem(w) \/ SaveClose(w)
  BY <1>2, SaveBegins, SaveItemStep, SaveCloses, Zenon
<1>3. CASE Tick
  BY <1>3, SaveKept, Zenon DEF Tick, Saving
<1>4. CASE Crash
  <2>1. Saving' = {}
    BY <1>4, NotSaver, Zenon DEF Crash, Saving
  <2>2. QED
    BY <1>4, <2>1, Zenon DEF Crash, SaveInv
<1>5. CASE kv_open
  <2>1. Saving = {} /\ Saving' = {}
    BY <1>5, NotSaver, Zenon DEF kv_open, TypeOK, Saving
  <2>2. QED
    BY <1>5, <2>1, SaveKept, Zenon DEF kv_open
<1>6. CASE UNCHANGED vars
  BY <1>6, SaveKept, Zenon DEF vars, Saving
<1>7. QED
  BY <1>1, <1>2, <1>3, <1>4, <1>5, <1>6, Zenon DEF Next, Begin, Continue, StringStep

(* What kv_open reads is in the snapshot, and everything that is in the    *)
(* snapshot is read unless the process died in the middle of a save.       *)
LEMMA OpenReads ==
    ASSUME TypeOK, SaveInv, kv_open, NEW k \in Key
    PROVE  IF db'[k] = Absent THEN snapshot[k] = Absent \/ torn
           ELSE db'[k] = String(snapshot[k], Forever)
<1>1. N \in Nat /\ (file[0] \in Nat => file[0] <= N)
  BY StringsAssumption, SlotFacts DEF TypeOK
<1>2. CASE Loaded(k) # {}
  <2>1. PICK i : i = (CHOOSE x \in Loaded(k) : TRUE)
    BY Zenon
  <2>2. i \in Loaded(k) /\ db'[k] = String(file[i].val, Forever)
    BY <1>2, <2>1, Zenon DEF kv_open
  <2>3. i \in 1 .. N /\ file[i] \notin {EOF, Hole} /\ file[i].key = k
    BY <1>1, <2>2 DEF Loaded
  <2>4. PICK j \in Kept(snapshot, N) : file[i] = Saved(snapshot, j)
    BY <2>3, Zenon DEF SaveInv, Sound
  <2>5. file[i].val = snapshot[k] /\ snapshot[k] # Absent
    BY <2>3, <2>4 DEF Saved, Kept
  <2>6. snapshot[k] \in Nat
    BY <2>5, Zenon DEF TypeOK
  <2>7. String(snapshot[k], Forever) # Absent
    BY <2>6, ObjectFacts, Zenon
  <2>8. QED
    BY <2>2, <2>5, <2>7, Zenon
<1>3. CASE Loaded(k) = {}
  <2>1. db'[k] = Absent
    BY <1>3, Zenon DEF kv_open
  <2>2. ASSUME ~torn, snapshot[k] # Absent PROVE FALSE
    <3>1. PICK j \in 1 .. N : k = Slots[j]
      BY SlotFacts, Zenon
    <3>2. j \in Kept(snapshot, N)
      BY <2>2, <3>1, Zenon DEF Kept
    <3>3. Saving = {}
      BY NotSaver, Zenon DEF kv_open, TypeOK, Saving
    <3>4. WrittenTo(file, snapshot, N)
      BY <2>2, <3>2, <3>3, Zenon DEF SaveInv
    <3>5. file[0] \in Nat /\ file[Rank(snapshot, j)] = Saved(snapshot, j)
      BY <1>1, <3>2, <3>4 DEF WrittenTo
    <3>6. Rank(snapshot, j) \in 1 .. N /\ Rank(snapshot, j) <= Rank(snapshot, N)
      BY <3>2, RankFacts, Zenon
    <3>7. Rank(snapshot, N) \in Nat /\ file[0] >= Rank(snapshot, N)
      BY <1>1, <3>5, RankFacts DEF SaveInv, Sound
    <3>8. Rank(snapshot, j) \in 1 .. file[0]
      BY <1>1, <3>5, <3>6, <3>7
    <3>9. Saved(snapshot, j) \in Record /\ Saved(snapshot, j).key = k
      <4>1. snapshot[k] \in Nat
        BY <2>2, Zenon DEF TypeOK
      <4>2. QED
        BY <3>1, <4>1, Zenon DEF Saved, Record
    <3>10. file[Rank(snapshot, j)] \notin {EOF, Hole}
      BY <3>5, <3>9, StringsAssumption, Zenon
    <3>11. \A b \in 1 .. Rank(snapshot, j) : file[b] # EOF
      BY <1>1, <3>6, <3>10 DEF SaveInv, Sound
    <3>12. Rank(snapshot, j) \in Loaded(k)
      BY <3>5, <3>8, <3>9, <3>10, <3>11, Zenon DEF Loaded
    <3>13. QED
      BY <1>3, <3>12, Zenon
  <2>3. QED
    BY <2>1, <2>2, Zenon
<1>4. QED
  BY <1>2, <1>3, Zenon

(* After a crash and a restart the table holds only strings that the       *)
(* latest save found, and all of them unless the crash was in the middle   *)
(* of a save, however many saves ran at a time (kv_save, kv_open).         *)
THEOREM RestartIsFaithful == Spec => RestartRestores
<1>1. Init => TypeOK /\ SaveInv
  BY TypeInit, SaveInit, Zenon
<1>2. TypeOK /\ SaveInv /\ [Next]_vars => (TypeOK /\ SaveInv)'
  BY TypeStep, SaveStep, Zenon
<1>3. TypeOK /\ SaveInv /\ [Next]_vars =>
        [~up /\ up' =>
           \A k \in Key :
             IF db'[k] = Absent THEN snapshot[k] = Absent \/ torn
             ELSE db'[k] = String(snapshot[k], Forever)]_vars
  <2> SUFFICES ASSUME TypeOK, SaveInv, [Next]_vars, ~up, up',
                      NEW k \in Key
               PROVE  IF db'[k] = Absent THEN snapshot[k] = Absent \/ torn
                      ELSE db'[k] = String(snapshot[k], Forever)
    BY Zenon
  <2>1. kv_open
    <3>1. ~StringStep
      BY CommandStep, Zenon DEF Command
    <3>2. ~Tick /\ ~Crash /\ ~UNCHANGED vars
      BY Zenon DEF Tick, Crash, vars
    <3>3. \A w \in Worker : ~(kv_save(w) \/ SaveItem(w) \/ SaveClose(w))
      BY Zenon DEF kv_save, SaveItem, SaveClose
    <3>4. QED
      BY <3>1, <3>2, <3>3, Zenon DEF Next, Begin, Continue, StringStep
  <2>2. QED
    BY <2>1, OpenReads, Zenon
<1>4. QED
  BY <1>1, <1>2, <1>3, PTL DEF Spec, RestartRestores

-----------------------------------------------------------------------------
(* Commands of several critical sections.                                  *)

(* What AtomicInv says of one key.                                         *)
AtomicAt(k) == Near(k) /\ \A w \in Worker : Within(w, k) => Stage(w)

LEMMA AddedFacts ==
    /\ \A cmd, obj : IsString(obj) /\ obj \in Object0 =>
         IsString(Added(cmd, obj)) /\ ~IsList(Added(cmd, obj))
    /\ \A cmd, obj : ~IsString(obj) /\ (cmd = "INCR" => ~IsList(obj)) =>
         Added(cmd, String(0, Forever)) = Added(cmd, obj)
<1>1. ASSUME NEW cmd, NEW obj, IsString(obj), obj \in Object0
      PROVE  IsString(Added(cmd, obj)) /\ ~IsList(Added(cmd, obj))
  <2>1. obj \in Object /\ obj.type = "string" /\ ~IsList(obj)
    BY <1>1, ObjectFacts, Zenon DEF IsString, Object0
  <2> DEFINE a == [obj EXCEPT !.val = @ + 1]
             b == [obj EXCEPT !.val = 10 * @ + 1]
  <2>2. /\ a \in Object /\ a.type = "string"
        /\ b \in Object /\ b.type = "string"
    BY <2>1 DEF Object
  <2>3. Added(cmd, obj) = a \/ Added(cmd, obj) = b
    BY <1>1, <2>1, Zenon DEF Added
  <2> HIDE DEF a, b
  <2>4. QED
    BY <2>2, <2>3, StringsAssumption, Zenon DEF IsString, IsList
<1>2. ASSUME NEW cmd, NEW obj, ~IsString(obj), cmd = "INCR" => ~IsList(obj)
      PROVE  Added(cmd, String(0, Forever)) = Added(cmd, obj)
  BY <1>2, ObjectFacts, Zenon DEF Added
<1>3. QED
  BY <1>1, <1>2, Zenon

(* Nothing changes about a key when its object and those within it stay.   *)
LEMMA AtomicSame ==
    ASSUME NEW k, AtomicAt(k), db'[k] = db[k], ideal'[k] = ideal[k],
           \A u \in Worker : Within(u, k)' <=> Within(u, k),
           \A u \in Worker : Within(u, k) => worker'[u] = worker[u]
    PROVE  AtomicAt(k)'
<1>1. Near(k)'
  BY Zenon DEF AtomicAt, Near
<1>2. ASSUME NEW u \in Worker, Within(u, k)' PROVE Stage(u)'
  <2>1. Within(u, k) /\ worker'[u] = worker[u] /\ Stage(u) /\ worker[u].key = k
    BY <1>2, Zenon DEF AtomicAt, Within
  <2>2. QED
    BY <2>1, Zenon DEF Stage
<1>3. QED
  BY <1>1, <1>2, Zenon DEF AtomicAt

(* A write to k: the other keys are as before, and k is left with those    *)
(* within it whom the write does not disturb.                              *)
LEMMA AtomicWrite ==
    ASSUME TypeOK, AtomicInv, NEW w, NEW k \in Key, NEW obj, NEW shown, NEW adding,
           Write(w, k, obj, shown, adding),
           \A u \in Worker \ {w} : worker'[u] = worker[u],
           w \in Worker => \A k2 \in Key \ {k} : ~Within(w, k2) /\ ~Within(w, k2)',
           k \notin clash' => AtomicAt(k)'
    PROVE  AtomicInv'
<1>1. up /\ clash \subseteq clash'
  BY Zenon DEF Write
<1>2. ASSUME NEW k2 \in Key \ clash', k2 # k PROVE AtomicAt(k2)'
  <2>1. AtomicAt(k2)
    BY <1>1, <1>2, Zenon DEF AtomicInv, AtomicAt
  <2>2. db'[k2] = db[k2] /\ ideal'[k2] = ideal[k2]
    BY <1>2, Zenon DEF Write, TypeOK
  <2>3. ASSUME NEW u \in Worker
        PROVE  /\ Within(u, k2)' <=> Within(u, k2)
               /\ Within(u, k2) => worker'[u] = worker[u]
    <3>1. CASE u = w
      BY <1>2, <3>1, Zenon
    <3>2. CASE u # w
      BY <3>2, Zenon DEF Within
    <3>3. QED
      BY <3>1, <3>2, Zenon
  <2>4. QED
    BY <2>1, <2>2, <2>3, AtomicSame, Zenon
<1>3. QED
  BY <1>2, Zenon DEF AtomicInv, AtomicAt

LEMMA WriteAlone ==
    ASSUME TypeOK, AtomicInv, NEW w, NEW k \in Key, NEW obj, NEW shown, NEW adding,
           Write(w, k, obj, shown, adding), k \notin clash'
    PROVE  /\ AtomicAt(k)
           /\ db'[k] = obj /\ ideal'[k] = shown
           /\ \A u \in Worker \ {w} : Within(u, k) =>
                adding /\ worker[u].pc = "finish" /\ ~IsList(ideal[k])
<1>1. k \notin clash /\ up
  BY Zenon DEF Write
<1>2. AtomicAt(k)
  BY <1>1, Zenon DEF AtomicInv, AtomicAt
<1>3. db'[k] = obj /\ ideal'[k] = shown
  BY Zenon DEF Write, TypeOK
<1>4. QED
  BY <1>1, <1>2, <1>3, Zenon DEF Write

(* A look at the table, from outside a command or at a key that another    *)
(* has changed: only what the worker has seen matters.                     *)
LEMMA AtomicLook ==
    ASSUME TypeOK, AtomicInv, Look, NEW w \in Worker, NEW st,
           worker' = [worker EXCEPT ![w] = st],
           \A k \in Key \ clash : ~Within(w, k),
           \A k \in Key \ clash : Within(w, k)' => Stage(w)'
    PROVE  AtomicInv'
<1>1. worker'[w] = st /\ \A u \in Worker \ {w} : worker'[u] = worker[u]
  BY Zenon DEF TypeOK
<1>2. up /\ UNCHANGED <<db, ideal, clash>>
  BY Zenon DEF Look
<1>3. ASSUME NEW k \in Key \ clash PROVE AtomicAt(k)'
  <2>1. AtomicAt(k) /\ ~Within(w, k)
    BY <1>2, <1>3, Zenon DEF AtomicInv, AtomicAt
  <2>2. \A u \in Worker \ {w} : (Within(u, k)' <=> Within(u, k)) /\ (Stage(u)' <=> Stage(u))
    BY <1>1, <1>2, Zenon DEF Within, Stage
  <2>3. Near(k)'
    <3>1. CASE db[k] = ideal[k]
      BY <1>2, <3>1, Zenon DEF Near
    <3>2. CASE db[k] # ideal[k]
      <4>1. PICK u \in Worker : /\ Within(u, k)
                                /\ \/ worker[u].pc = "ttl"
                                   \/ worker[u].pc = "finish" /\ ~IsString(ideal[k])
        BY <2>1, <3>2, Zenon DEF AtomicAt, Near
      <4>2. u # w /\ worker'[u] = worker[u] /\ Within(u, k)'
        BY <1>1, <2>1, <2>2, <4>1, Zenon
      <4>3. db[k] = String(0, Forever)
        BY <2>1, <3>2, Zenon DEF AtomicAt, Near
      <4>4. QED
        BY <1>2, <4>1, <4>2, <4>3, Zenon DEF Near
    <3>3. QED
      BY <3>1, <3>2, Zenon
  <2>4. \A u \in Worker : Within(u, k)' => Stage(u)'
    BY <1>3, <2>1, <2>2, Zenon DEF AtomicAt
  <2>5. QED
    BY <2>3, <2>4, Zenon DEF AtomicAt
<1>4. QED
  BY <1>2, <1>3, Zenon DEF AtomicInv, AtomicAt

(* A write after which w is done, and which leaves the object that the     *)
(* command should leave.                                                   *)
LEMMA AtomicDone ==
    ASSUME TypeOK, AtomicInv, NEW w, NEW k \in Key, NEW obj, NEW shown,
           Write(w, k, obj, shown, FALSE),
           \A u \in Worker \ {w} : worker'[u] = worker[u],
           w \in Worker => \A k2 \in Key \ {k} : ~Within(w, k2),
           w \in Worker => \A k2 \in Key : ~Within(w, k2)',
           k \notin clash' => obj = shown
    PROVE  AtomicInv'
<1>1. ASSUME k \notin clash' PROVE AtomicAt(k)'
  <2>1. db'[k] = ideal'[k]
    BY <1>1, Zenon DEF Write, TypeOK
  <2>2. \A u \in Worker : ~Within(u, k)'
    <3>1. \A u \in Worker \ {w} : ~Within(u, k)
      BY <1>1, WriteAlone, Zenon
    <3>2. QED
      BY <3>1, Zenon DEF Within
  <2>3. QED
    BY <2>1, <2>2, Zenon DEF AtomicAt, Near
<1>2. QED
  BY <1>1, AtomicWrite, ZenonT(30)

(* A write in the middle of a command: the string without expiry that      *)
(* kv_set and kv_set_object store first.                                   *)
LEMMA AtomicFirst ==
    ASSUME TypeOK, AtomicInv, NEW w \in Worker, NEW k \in Key,
           Write(w, k, String(0, Forever), ideal[k], FALSE),
           \A u \in Worker \ {w} : worker'[u] = worker[u],
           \A k2 \in Key \ {k} : ~Within(w, k2),
           worker'[w].key = k,
           \/ worker'[w].pc = "ttl"
           \/ worker'[w].pc = "finish" /\ (k \notin clash' => ~IsString(ideal[k])),
           k \notin clash' /\ worker'[w].pc = "finish" /\ worker'[w].cmd = "INCR" =>
             ~IsList(ideal[k])
    PROVE  AtomicInv'
<1>1. ASSUME k \notin clash' PROVE AtomicAt(k)'
  <2>1. db'[k] = String(0, Forever) /\ ideal'[k] = ideal[k]
    BY Zenon DEF Write, TypeOK
  <2>2. \A u \in Worker \ {w} : ~Within(u, k)'
    <3>1. \A u \in Worker \ {w} : ~Within(u, k)
      BY <1>1, WriteAlone, Zenon
    <3>2. QED
      BY <3>1, Zenon DEF Within
  <2>3. Within(w, k)'
    BY Zenon DEF Within
  <2>4. Near(k)'
    BY <1>1, <2>1, <2>3, Zenon DEF Near
  <2>5. Stage(w)'
    <3>1. IsString(db'[k])
      BY <2>1, ObjectFacts, ZenonT(30)
    <3>2. QED
      BY <1>1, <2>1, <3>1, Zenon DEF Stage
  <2>6. QED
    BY <2>2, <2>4, <2>5, Zenon DEF AtomicAt
<1>2. \A k2 \in Key \ {k} : ~Within(w, k2)'
  BY Zenon DEF Within
<1>3. QED
  BY <1>1, <1>2, AtomicWrite, ZenonT(30)

(* INCR or the last step of INCR and APPEND: additions of several workers. *)
LEMMA AtomicAdd ==
    ASSUME TypeOK, AtomicInv, NEW w \in Worker, NEW k \in Key, NEW cmd,
           IsString(db[k]),
           Write(w, k, Added(cmd, db[k]), Added(cmd, ideal[k]), TRUE),
           \A u \in Worker \ {w} : worker'[u] = worker[u],
           worker'[w] = Idle,
           \A k2 \in Key \ {k} : ~Within(w, k2),
           \/ worker[w] = Idle
           \/ worker[w].pc = "finish" /\ worker[w].key = k /\ worker[w].cmd = cmd
    PROVE  AtomicInv'
<1>1. ASSUME k \notin clash' PROVE AtomicAt(k)'
  <2>1. /\ AtomicAt(k)
        /\ db'[k] = Added(cmd, db[k]) /\ ideal'[k] = Added(cmd, ideal[k])
        /\ \A u \in Worker \ {w} : Within(u, k) =>
             worker[u].pc = "finish" /\ ~IsList(ideal[k])
    <3>1. db'[k] = Added(cmd, db[k]) /\ ideal'[k] = Added(cmd, ideal[k])
      BY Zenon DEF Write, TypeOK
    <3>2. AtomicAt(k)
      BY <1>1, WriteAlone, ZenonT(30)
    <3>3. \A u \in Worker \ {w} : Within(u, k) =>
            worker[u].pc = "finish" /\ ~IsList(ideal[k])
      BY <1>1, Zenon DEF Write
    <3>4. QED
      BY <3>1, <3>2, <3>3, Zenon
  <2>2. db[k] \in Object0
    BY Zenon DEF TypeOK
  <2>3. db'[k] = ideal'[k]
    <3>1. CASE db[k] = ideal[k]
      BY <2>1, <3>1, Zenon
    <3>2. CASE db[k] # ideal[k]
      <4>1. PICK u \in Worker : /\ Within(u, k)
                                /\ \/ worker[u].pc = "ttl"
                                   \/ worker[u].pc = "finish" /\ ~IsString(ideal[k])
        BY <2>1, <3>2, Zenon DEF AtomicAt, Near
      <4>2. db[k] = String(0, Forever)
        BY <2>1, <3>2, Zenon DEF AtomicAt, Near
      <4>3. worker[u].pc = "finish" /\ ~IsString(ideal[k])
        <5>1. CASE u = w
          BY <4>1, <5>1, NotSaver, Zenon DEF Within
        <5>2. CASE u # w
          BY <2>1, <4>1, <5>2, Zenon
        <5>3. QED
          BY <5>1, <5>2, Zenon
      <4>4. cmd = "INCR" => ~IsList(ideal[k])
        <5>1. CASE u = w
          <6>1. worker[w].cmd = cmd /\ worker[w].key = k /\ Stage(w)
            BY <2>1, <4>1, <5>1, NotSaver, ZenonT(30) DEF AtomicAt, Within
          <6>2. QED
            BY <4>3, <5>1, <6>1, Zenon DEF Stage
        <5>2. CASE u # w
          BY <2>1, <4>1, <5>2, ZenonT(30)
        <5>3. QED
          BY <5>1, <5>2, Zenon
      <4>5. QED
        BY <2>1, <4>2, <4>3, <4>4, AddedFacts, Zenon
    <3>3. QED
      BY <3>1, <3>2, Zenon
  <2>4. IsString(db'[k]) /\ ~IsList(ideal'[k])
    <3>1. IsString(Added(cmd, db[k])) /\ ~IsList(Added(cmd, db[k]))
      BY <2>2, AddedFacts, Zenon
    <3>2. QED
      BY <2>1, <2>3, <3>1, Zenon
  <2>5. ASSUME NEW u \in Worker, Within(u, k)' PROVE Stage(u)'
    <3>1. u # w
      BY <2>5, NotSaver, Zenon DEF Within
    <3>2. worker'[u] = worker[u] /\ Within(u, k)
      BY <2>5, <3>1, Zenon DEF Within
    <3>3. worker'[u].pc = "finish" /\ worker'[u].key = k
      BY <2>1, <3>1, <3>2, SMTT(30) DEF Within
    <3>4. QED
      BY <2>4, <3>3, Zenon DEF Stage
  <2>6. QED
    BY <2>3, <2>5, Zenon DEF AtomicAt, Near
<1>2. \A k2 \in Key : ~Within(w, k2)'
  BY NotSaver, Zenon DEF Within
<1>3. QED
  BY <1>1, <1>2, AtomicWrite, ZenonT(30)

LEMMA AtomicBegins ==
    ASSUME TypeOK, AtomicInv, NEW w \in Worker, worker[w] = Idle, NEW k \in Key,
           \/ kv_set(w, k, "SET") \/ kv_set(w, k, "SETEX")
           \/ \E ttl \in {Forever, now + 1} : kv_set_ttl(w, k, ttl)
           \/ kv_del(w, k) \/ kv_setnx(w, k) \/ kv_incrby(w, k)
           \/ kv_append(w, k) \/ kv_ensure_list(w, k)
    PROVE  AtomicInv'
<1>1. \A k2 : ~Within(w, k2)
  BY NotSaver, Zenon DEF Within
<1>2. ASSUME NEW st, worker' = [worker EXCEPT ![w] = st]
      PROVE  worker'[w] = st /\ \A u \in Worker \ {w} : worker'[u] = worker[u]
  BY <1>2, Zenon DEF TypeOK
<1>3. ASSUME NEW pc, NEW cmd, Goto(w, pc, cmd, k)
      PROVE  /\ worker'[w].pc = pc /\ worker'[w].cmd = cmd /\ worker'[w].key = k
             /\ \A u \in Worker \ {w} : worker'[u] = worker[u]
  BY <1>2, <1>3, Zenon DEF Goto
<1>4. worker'[w] = Idle => \A k2 \in Key : ~Within(w, k2)'
  BY NotSaver, Zenon DEF Within
<1>5. CASE kv_set(w, k, "SET")
  <2>1. /\ worker'[w] = Idle /\ \A u \in Worker \ {w} : worker'[u] = worker[u]
        /\ Write(w, k, String(0, Forever), String(0, Forever), FALSE)
    BY <1>2, <1>5, Zenon DEF kv_set, Done
  <2>2. QED
    BY <1>1, <1>4, <2>1, AtomicDone, Zenon
<1>6. CASE kv_set(w, k, "SETEX")
  <2>1. /\ Goto(w, "ttl", "SETEX", k)
        /\ Write(w, k, String(0, Forever), ideal[k], FALSE)
    BY <1>6, Zenon DEF kv_set
  <2>2. /\ worker'[w].pc = "ttl" /\ worker'[w].key = k
        /\ \A u \in Worker \ {w} : worker'[u] = worker[u]
    BY <1>3, <2>1, Zenon
  <2>3. QED
    BY <1>1, <2>1, <2>2, AtomicFirst, Zenon
<1>7. ASSUME NEW ttl, kv_set_ttl(w, k, ttl) PROVE AtomicInv'
  <2> DEFINE Given(o) == IF o = Absent THEN o ELSE [o EXCEPT !.ttl = ttl]
  <2>1. /\ Write(w, k, Given(db[k]), Given(ideal[k]), FALSE) /\ worker' = worker
    BY <1>7, Zenon DEF kv_set_ttl
  <2>2. ASSUME k \notin clash' PROVE db[k] = ideal[k]
    <3>1. k \notin clash /\ up /\ \A u \in Worker \ {w} : ~Within(u, k)
      BY <2>1, <2>2, Zenon DEF Write
    <3>2. QED
      BY <1>1, <3>1, Zenon DEF AtomicInv, Near
  <2>3. k \notin clash' => Given(db[k]) = Given(ideal[k])
    BY <2>2, Zenon
  <2> HIDE DEF Given
  <2>4. QED
    BY <1>1, <1>4, <2>1, <2>3, AtomicDone, Zenon
<1>8. CASE kv_del(w, k)
  <2>1. Write(w, k, Absent, Absent, FALSE) /\ worker' = worker
    BY <1>8, Zenon DEF kv_del
  <2>2. QED
    BY <1>1, <1>4, <2>1, AtomicDone, Zenon
<1>9. ASSUME NEW pc, NEW cmd, Goto(w, pc, cmd, k), Look,
             \/ pc = "create" /\ (cmd \in {"SETNX", "INCR"} => db[k] = Absent)
                              /\ (cmd = "APPEND" => ~IsString(db[k]))
             \/ pc = "finish" /\ cmd = "APPEND" /\ IsString(db[k])
      PROVE  AtomicInv'
  <2>1. worker'[w].pc = pc /\ worker'[w].cmd = cmd /\ worker'[w].key = k
    BY <1>3, <1>9, Zenon
  <2>2. Stage(w)'
    BY <1>9, <2>1, Zenon DEF Stage, Look
  <2>3. QED
    BY <1>1, <1>9, <2>2, AtomicLook, ZenonT(30) DEF Goto
<1>10. CASE kv_setnx(w, k)
  BY <1>9, <1>10, Zenon DEF kv_setnx
<1>11. CASE kv_append(w, k)
  <2>1. CASE IsString(db[k])
    BY <1>9, <1>11, <2>1, Zenon DEF kv_append
  <2>2. CASE ~IsString(db[k])
    BY <1>9, <1>11, <2>2, Zenon DEF kv_append
  <2>3. QED
    BY <2>1, <2>2, Zenon
<1>12. CASE kv_ensure_list(w, k)
  BY <1>9, <1>12, Zenon DEF kv_ensure_list
<1>13. CASE kv_incrby(w, k)
  <2>1. CASE db[k] = Absent
    BY <1>9, <1>13, <2>1, Zenon DEF kv_incrby
  <2>2. CASE db[k] # Absent
    <3>1. /\ IsString(db[k]) /\ worker' = worker
          /\ Write(w, k, Added("INCR", db[k]), Added("INCR", ideal[k]), TRUE)
      BY <1>13, <2>2, Zenon DEF kv_incrby
    <3>2. QED
      BY <1>1, <3>1, AtomicAdd, Zenon
  <2>3. QED
    BY <2>1, <2>2, Zenon
<1>14. QED
  BY <1>5, <1>6, <1>7, <1>8, <1>10, <1>11, <1>12, <1>13, Zenon

LEMMA AtomicContinues ==
    ASSUME TypeOK, AtomicInv, NEW w \in Worker,
           kv_setex(w) \/ kv_set_object(w) \/ Finish(w)
    PROVE  AtomicInv'
<1> DEFINE k == worker[w].key
           cmd == worker[w].cmd
<1>1. /\ k \in Key /\ worker[w].pc \in {"ttl", "create", "finish"}
      /\ worker[w].pc = "create" => cmd \in {"SETNX", "INCR", "APPEND", "LPUSH"}
      /\ worker[w].pc = "finish" => cmd \in {"INCR", "APPEND"}
  BY WorkerFacts, Zenon DEF kv_setex, kv_set_object, Finish
<1>2. Within(w, k) /\ \A k2 \in Key \ {k} : ~Within(w, k2)
  BY <1>1, Zenon DEF Within
<1>3. Done(w) => /\ worker'[w] = Idle
                 /\ \A u \in Worker \ {w} : worker'[u] = worker[u]
                 /\ \A k2 \in Key : ~Within(w, k2)'
  BY NotSaver, ZenonT(30) DEF Done, Within, TypeOK
<1>4. ASSUME up, k \notin clash PROVE Stage(w) /\ Near(k)
  BY <1>1, <1>2, <1>4, Zenon DEF AtomicInv
<1>5. ASSUME Look, Done(w), k \in clash PROVE AtomicInv'
  <2>1. \A k2 \in Key \ clash : ~Within(w, k2)
    BY <1>2, <1>5, Zenon
  <2>2. QED
    BY <1>3, <1>5, <2>1, AtomicLook, Zenon DEF Done
<1>6. CASE kv_setex(w)
  <2>1. worker[w].pc = "ttl" /\ Done(w)
    BY <1>6, Zenon DEF kv_setex
  <2>2. ASSUME up, k \notin clash PROVE db[k] = String(0, Forever) /\ db[k] # Absent
    BY <1>4, <2>1, <2>2, ObjectFacts, Zenon DEF Stage
  <2>3. CASE db[k] = Absent
    <3>1. Look
      BY <1>6, <2>3, Zenon DEF kv_setex
    <3>2. QED
      BY <1>5, <2>1, <2>2, <2>3, <3>1, Zenon DEF Look
  <2>4. CASE db[k] # Absent
    <3>1. Write(w, k, [db[k] EXCEPT !.ttl = now + 1], String(0, now + 1), FALSE)
      BY <1>6, <2>4, Zenon DEF kv_setex
    <3>2. ASSUME k \notin clash'
          PROVE  [db[k] EXCEPT !.ttl = now + 1] = String(0, now + 1)
      <4>1. k \notin clash /\ up
        BY <3>1, <3>2, Zenon DEF Write
      <4>2. db[k] = String(0, Forever)
        BY <2>2, <4>1, Zenon
      <4>3. QED
        BY <4>2 DEF String
    <3> HIDE DEF k
    <3>3. QED
      BY <1>1, <1>2, <1>3, <2>1, <3>1, <3>2, AtomicDone, Zenon
  <2>5. QED
    BY <2>3, <2>4, Zenon
<1>7. CASE kv_set_object(w)
  <2>1. worker[w].pc = "create"
    BY <1>7, Zenon DEF kv_set_object
  <2>2. ASSUME up, k \notin clash, \A u \in Worker \ {w} : ~Within(u, k)
        PROVE  db[k] = ideal[k]
    BY <1>4, <2>1, <2>2, Zenon DEF Near
  <2>3. CASE cmd = "SETNX"
    <3> DEFINE shown == IF ideal[k] = Absent THEN String(0, Forever) ELSE ideal[k]
    <3>1. Done(w) /\ Write(w, k, String(0, Forever), shown, FALSE)
      BY <1>7, <2>3, ZenonT(30) DEF kv_set_object
    <3>2. ASSUME k \notin clash' PROVE String(0, Forever) = shown
      <4>1. k \notin clash /\ up /\ \A u \in Worker \ {w} : ~Within(u, k)
        BY <3>1, <3>2, Zenon DEF Write
      <4>2. db[k] = Absent
        BY <1>4, <2>1, <2>3, <4>1, Zenon DEF Stage
      <4>3. QED
        BY <2>2, <4>1, <4>2, Zenon
    <3> HIDE DEF k, shown
    <3>3. QED
      BY <1>1, <1>2, <1>3, <3>1, <3>2, AtomicDone, Zenon
  <2>4. CASE cmd = "LPUSH"
    <3>1. Done(w) /\ Write(w, k, List, List, FALSE)
      BY <1>7, <2>4, Zenon DEF kv_set_object
    <3> HIDE DEF k
    <3>2. QED
      BY <1>1, <1>2, <1>3, <3>1, AtomicDone, Zenon
  <2>5. CASE cmd \in {"INCR", "APPEND"}
    <3>1. /\ Goto(w, "finish", cmd, k)
          /\ Write(w, k, String(0, Forever), ideal[k], FALSE)
      BY <1>7, <2>5, Zenon DEF kv_set_object
    <3>2. /\ worker'[w].pc = "finish" /\ worker'[w].key = k /\ worker'[w].cmd = cmd
          /\ \A u \in Worker \ {w} : worker'[u] = worker[u]
      BY <3>1, Zenon DEF Goto, TypeOK
    <3>3. ASSUME k \notin clash'
          PROVE  ~IsString(ideal[k]) /\ (cmd = "INCR" => ~IsList(ideal[k]))
      <4>1. k \notin clash /\ up /\ \A u \in Worker \ {w} : ~Within(u, k)
        BY <3>1, <3>3, Zenon DEF Write
      <4>2. db[k] = ideal[k] /\ Stage(w)
        BY <1>4, <2>2, <4>1, Zenon
      <4>3. ~IsString(db[k]) /\ (cmd = "INCR" => ~IsList(db[k]))
        BY <2>1, <2>5, <4>2, ObjectFacts, Zenon DEF Stage
      <4>4. QED
        BY <4>2, <4>3, Zenon
    <3> HIDE DEF k, cmd
    <3>4. QED
      BY <1>1, <1>2, <3>1, <3>2, <3>3, AtomicFirst, Zenon
  <2>6. QED
    BY <1>1, <2>1, <2>3, <2>4, <2>5, Zenon
<1>8. CASE Finish(w)
  <2>1. worker[w].pc = "finish" /\ Done(w)
    BY <1>8, Zenon DEF Finish
  <2>2. CASE IsString(db[k])
    <3>1. Write(w, k, Added(cmd, db[k]), Added(cmd, ideal[k]), TRUE)
      BY <1>8, <2>2, Zenon DEF Finish
    <3>2. worker[w].key = k /\ worker[w].cmd = cmd
      BY Zenon
    <3> HIDE DEF k, cmd
    <3>3. QED
      BY <1>1, <1>2, <1>3, <2>1, <2>2, <3>1, <3>2, AtomicAdd, Zenon
  <2>3. CASE ~IsString(db[k])
    <3>1. Look
      BY <1>8, <2>3, Zenon DEF Finish
    <3>2. k \in clash
      BY <1>4, <2>1, <2>3, <3>1, Zenon DEF Stage, Look
    <3>3. QED
      BY <1>5, <2>1, <3>1, <3>2, Zenon
  <2>4. QED
    BY <2>2, <2>3, Zenon
<1>9. QED
  BY <1>6, <1>7, <1>8, Zenon

(* The steps of a save, a crash and the clock leave the keys and those     *)
(* within them alone.                                                      *)
LEMMA AtomicStays ==
    ASSUME TypeOK, AtomicInv, UNCHANGED <<db, ideal, clash>>, up' => up,
           \A u \in Worker : \/ worker'[u] = worker[u]
                             \/ /\ worker[u].pc \in {"idle", "save"}
                                /\ worker'[u].pc \in {"idle", "save"}
    PROVE  AtomicInv'
<1>1. ASSUME up, NEW k \in Key \ clash PROVE AtomicAt(k)'
  <2>1. AtomicAt(k)
    BY <1>1, Zenon DEF AtomicInv, AtomicAt
  <2>2. \A u \in Worker : /\ Within(u, k)' <=> Within(u, k)
                          /\ Within(u, k) => worker'[u] = worker[u]
    BY Zenon DEF Within
  <2>3. QED
    BY <2>1, <2>2, AtomicSame, Zenon
<1>2. QED
  BY <1>1, Zenon DEF AtomicInv, AtomicAt

LEMMA AtomicStep ==
    ASSUME TypeOK, AtomicInv, [Next]_vars
    PROVE  AtomicInv'
<1>1. ASSUME NEW w \in Worker, kv_setex(w) \/ kv_set_object(w) \/ Finish(w)
      PROVE  AtomicInv'
  BY <1>1, AtomicContinues, Zenon
<1>2. ASSUME NEW w \in Worker, NEW k \in Key,
             \/ kv_set(w, k, "SET") \/ kv_set(w, k, "SETEX")
             \/ \E ttl \in {Forever, now + 1} : kv_set_ttl(w, k, ttl)
             \/ kv_del(w, k) \/ kv_setnx(w, k) \/ kv_incrby(w, k)
             \/ kv_append(w, k) \/ kv_ensure_list(w, k)
      PROVE  AtomicInv'
  <2>1. worker[w] = Idle
    BY <1>2, Zenon DEF kv_set, kv_set_ttl, kv_del, kv_setnx, kv_incrby, kv_append,
                kv_ensure_list
  <2>2. QED
    BY <1>2, <2>1, AtomicBegins, Zenon
<1>3. ASSUME NEW k \in Key, kv_active_expire(k) PROVE AtomicInv'
  <2>1. Write(0, k, Absent, Absent, FALSE) /\ worker' = worker /\ 0 \notin Worker
    BY <1>3, StringsAssumption, Zenon DEF kv_active_expire
  <2>2. QED
    BY <2>1, AtomicDone, Zenon
<1>4. ASSUME NEW w \in Worker, kv_save(w) \/ SaveItem(w) \/ SaveClose(w)
      PROVE  AtomicInv'
  <2>1. UNCHANGED <<db, ideal, clash, up>> /\ worker[w].pc \in {"idle", "save"}
    BY <1>4, NotSaver, Zenon DEF kv_save, SaveItem, SaveClose
  <2>2. /\ worker'[w].pc \in {"idle", "save"}
        /\ \A u \in Worker \ {w} : worker'[u] = worker[u]
    <3>1. CASE kv_save(w)
      BY <3>1, Zenon DEF kv_save, TypeOK
    <3>2. CASE SaveItem(w)
      BY <3>2, Zenon DEF SaveItem, TypeOK
    <3>3. CASE SaveClose(w)
      BY <3>3, NotSaver, Zenon DEF SaveClose, Done, TypeOK
    <3>4. QED
      BY <1>4, <3>1, <3>2, <3>3, Zenon
  <2>3. QED
    BY <2>1, <2>2, AtomicStays, Zenon
<1>5. CASE Tick
  BY <1>5, AtomicStays, Zenon DEF Tick
<1>6. CASE Crash
  BY <1>6, Zenon DEF Crash, AtomicInv
<1>7. CASE kv_open
  <2>1. ideal' = db' /\ \A w \in Worker : worker'[w] = Idle
    BY <1>7, Zenon DEF kv_open, TypeOK
  <2>2. \A w \in Worker, k \in Key : ~Within(w, k)'
    BY <2>1, NotSaver, Zenon DEF Within
  <2>3. QED
    BY <2>1, <2>2, Zenon DEF AtomicInv, Near
<1>8. CASE UNCHANGED vars
  BY <1>8, AtomicStays, Zenon DEF vars
<1>9. QED
  BY <1>1, <1>2, <1>3, <1>4, <1>5, <1>6, <1>7, <1>8, Zenon DEF Next, Begin, Continue

(* A key on which no command is under way holds what it would hold if each *)
(* command were one step, unless somebody has changed the key in the       *)
(* middle of a command; additions to a string that is there never disturb  *)
(* each other (kv_incrby, kv_append, kv_setnx, kv_setex, kv_set_object).   *)
THEOREM CommandsActAsOne == Spec => []CommandsAreAtomic
<1>1. Init => TypeOK /\ AtomicInv
  <2>1. Init => AtomicInv
    BY NotSaver, Zenon DEF Init, AtomicInv, Near, Within
  <2>2. QED
    BY <2>1, TypeInit, Zenon
<1>2. TypeOK /\ AtomicInv /\ [Next]_vars => (TypeOK /\ AtomicInv)'
  BY TypeStep, AtomicStep, Zenon
<1>3. AtomicInv => CommandsAreAtomic
  BY Zenon DEF AtomicInv, Near, CommandsAreAtomic
<1>4. QED
  BY <1>1, <1>2, <1>3, PTL DEF Spec
=============================================================================
