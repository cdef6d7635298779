------------------------------ MODULE Strings -------------------------------
(***************************************************************************)
(* The string, expiry and persistence commands of src/core/kvdb.c, run by  *)
(* several workers, with the expiry thread, crashes and kv_open.           *)
(*                                                                         *)
(* A step is what happens under one hold of db->lock: a command that looks *)
(* a key up, lets go of the lock and takes it again is two steps.  The     *)
(* text of a string is the number that sscanf reads in it: an empty string *)
(* is 0, APPEND adds the digit 1.  Lists stand for the other types.        *)
(* A save goes through the slots in their order; the file is a header and  *)
(* one item per record, and each saver has its own position in it.         *)
(***************************************************************************)
EXTENDS Integers, Sequences, FiniteSets, Functions

CONSTANTS
    Worker,
    Slots,         \* the keys, in the order of their slots
    MaxCmds,       \* bound: commands
    MaxTime,       \* bound: of the clock
    Absent, Forever, EOF, Hole

Key == Range(Slots)
Object == [type : {"string", "list"}, val : Nat, ttl : Nat \cup {Forever}]
Record == [key : Key, val : Nat]

(* A key is in one slot, no worker is the expiry thread, and the markers   *)
(* are none of the values they stand beside.                               *)
ASSUME StringsAssumption ==
    /\ MaxCmds \in Nat /\ MaxTime \in Nat
    /\ Slots \in Seq(Key) /\ IsInjective(Slots)
    /\ 0 \notin Worker
    /\ Forever \notin Nat /\ Absent \notin Nat \cup Object
    /\ EOF # Hole /\ \A mark \in {EOF, Hole} : mark \notin Nat \cup Record

VARIABLES
    db,            \* the object of every key
    now,           \* the time of day
    worker,        \* what every worker is about to do
    file,          \* item 0 is the header, a Hole is what was never written
    up,            \* the process runs
    snapshot,      \* the strings that the latest save found
    torn,          \* the process died in the middle of it
    ideal,         \* db if every command were one step
    clash,         \* the keys changed in the middle of another's command
    cmds

vars == <<db, now, worker, file, up, snapshot, torn, ideal, clash, cmds>>

Idle == [pc |-> "idle"]
String(v, t) == [type |-> "string", val |-> v, ttl |-> t]
List == [type |-> "list", val |-> 0, ttl |-> Forever]
Empty == [k \in Key |-> Absent]
EmptyFile == [i \in 0 .. Len(Slots) |-> EOF]
IsString(obj) == obj # Absent /\ obj.type = "string"
IsList(obj) == obj # Absent /\ obj.type = "list"

Init ==
    /\ db = Empty /\ now = 0 /\ up = TRUE
    /\ worker = [w \in Worker |-> Idle]
    /\ file = EmptyFile /\ snapshot = Empty /\ torn = FALSE
    /\ ideal = Empty /\ clash = {} /\ cmds = 0

Within(w, k) == worker[w].pc \notin {"idle", "save"} /\ worker[w].key = k
Saving == {w \in Worker : worker[w].pc = "save"}

(* w, or the expiry thread, writes to k under the write lock: no worker    *)
(* saves, for kv_save holds the read lock.  Two additions to a string do   *)
(* not disturb each other, anything else in the middle of a command does.  *)
Write(w, k, obj, shown, adding) ==
    /\ up /\ Saving = {}
    /\ db' = [db EXCEPT ![k] = obj]
    /\ ideal' = [ideal EXCEPT ![k] = shown]
    /\ clash' = IF \E u \in Worker \ {w} :
                     /\ Within(u, k)
                     /\ ~(adding /\ worker[u].pc = "finish" /\ ~IsList(ideal[k]))
                  THEN clash \cup {k} ELSE clash
    /\ UNCHANGED <<now, file, up, snapshot, torn>>

Look == up /\ UNCHANGED <<db, now, file, up, snapshot, torn, ideal, clash>>
Goto(w, pc, cmd, k) ==
    worker' = [worker EXCEPT ![w] = [pc |-> pc, cmd |-> cmd, key |-> k]]
Done(w) == worker' = [worker EXCEPT ![w] = Idle]

-----------------------------------------------------------------------------
(* What INCR and APPEND make of an object; APPEND puts a string in the     *)
(* place of a list, INCR refuses it.                                       *)
Added(cmd, obj) ==
    LET old == IF IsString(obj) THEN obj ELSE String(0, Forever)
    IN  IF cmd = "INCR" THEN IF IsList(obj) THEN obj
                             ELSE [old EXCEPT !.val = @ + 1]
        ELSE [old EXCEPT !.val = 10 * @ + 1]

(* SET, and the first step of SET EX and SETEX: a string without expiry    *)
(* takes the place of whatever there was.                                  *)
kv_set(w, k, cmd) ==
    /\ worker[w] = Idle
    /\ IF cmd = "SET"
         THEN Done(w) /\ Write(w, k, String(0, Forever), String(0, Forever), FALSE)
         ELSE Goto(w, "ttl", cmd, k) /\ Write(w, k, String(0, Forever), ideal[k], FALSE)

(* The second step of kv_setex: kv_set_ttl on whatever the key holds.      *)
kv_setex(w) ==
    LET k == worker[w].key
    IN  /\ worker[w].pc = "ttl"
        /\ Done(w)
        /\ IF db[k] = Absent THEN Look
           ELSE Write(w, k, [db[k] EXCEPT !.ttl = now + 1], String(0, now + 1), FALSE)

(* kv_expire and kv_persist.                                               *)
kv_set_ttl(w, k, ttl) ==
    /\ worker[w] = Idle /\ db[k] # Absent
    /\ LET Given(obj) == IF obj = Absent THEN obj ELSE [obj EXCEPT !.ttl = ttl]
       IN  Write(w, k, Given(db[k]), Given(ideal[k]), FALSE)
    /\ UNCHANGED worker

kv_del(w, k) ==
    /\ worker[w] = Idle /\ db[k] # Absent
    /\ Write(w, k, Absent, Absent, FALSE)
    /\ UNCHANGED worker

(* kv_exists in kv_setnx, and then kv_set.                                 *)
kv_setnx(w, k) ==
    /\ worker[w] = Idle /\ db[k] = Absent
    /\ Look /\ Goto(w, "create", "SETNX", k)

(* kv_incrby: a number that is there is counted up in the first step.      *)
kv_incrby(w, k) ==
    /\ worker[w] = Idle
    /\ IF db[k] = Absent THEN Look /\ Goto(w, "create", "INCR", k)
       ELSE /\ IsString(db[k])
            /\ Write(w, k, Added("INCR", db[k]), Added("INCR", ideal[k]), TRUE)
            /\ UNCHANGED worker

(* get_string_obj in kv_append.                                            *)
kv_append(w, k) ==
    /\ worker[w] = Idle
    /\ Look
    /\ Goto(w, IF IsString(db[k]) THEN "finish" ELSE "create", "APPEND", k)

(* wr_obj in the commands of another type.                                 *)
kv_ensure_list(w, k) ==
    /\ worker[w] = Idle /\ ~IsList(db[k])
    /\ Look /\ Goto(w, "create", "LPUSH", k)

(* kv_set_object, for a key that was not there, or not of that type, when  *)
(* the command looked.                                                     *)
kv_set_object(w) ==
    LET k   == worker[w].key
        cmd == worker[w].cmd
    IN  /\ worker[w].pc = "create"
        /\ CASE cmd = "SETNX" ->
                  /\ Done(w)
                  /\ Write(w, k, String(0, Forever),
                           IF ideal[k] = Absent THEN String(0, Forever)
                           ELSE ideal[k], FALSE)
             [] cmd = "LPUSH" ->
                  Done(w) /\ Write(w, k, List, List, FALSE)
             [] OTHER ->
                  /\ Goto(w, "finish", cmd, k)
                  /\ Write(w, k, String(0, Forever), ideal[k], FALSE)

(* Mutant: the number that the command created is counted up, not the one  *)
(* that is there now.                                                      *)
FinishStale(w) ==
    LET k   == worker[w].key
        cmd == worker[w].cmd
    IN  /\ worker[w].pc = "finish"
        /\ Done(w)
        /\ IF IsString(db[k])
             THEN Write(w, k, Added(cmd, Absent), Added(cmd, ideal[k]), TRUE)
             ELSE Look

(* The last step of kv_incrby and kv_append.  When the key is gone again   *)
(* kv_append returns -1, while kv_incrby goes on with a freed object or    *)
(* with none, and changes nothing of the table or crashes.                 *)
Finish(w) ==
    LET k   == worker[w].key
        cmd == worker[w].cmd
    IN  /\ worker[w].pc = "finish"
        /\ Done(w)
        /\ IF IsString(db[k])
             THEN Write(w, k, Added(cmd, db[k]), Added(cmd, ideal[k]), TRUE)
             ELSE Look

-----------------------------------------------------------------------------
(* Mutant: a key expires only after its time.                              *)
kv_active_expireLate(k) ==
    /\ db[k] # Absent /\ db[k].ttl # Forever /\ now > db[k].ttl
    /\ Write(0, k, Absent, Absent, FALSE)
    /\ UNCHANGED worker

(* expire_thread: the sample of kv_active_expire hits the slot of k.       *)
kv_active_expire(k) ==
    /\ db[k] # Absent /\ db[k].ttl # Forever /\ now >= db[k].ttl
    /\ Write(0, k, Absent, Absent, FALSE)
    /\ UNCHANGED worker

Tick ==
    /\ now < MaxTime
    /\ now' = now + 1
    /\ UNCHANGED <<db, worker, file, up, snapshot, torn, ideal, clash>>

-----------------------------------------------------------------------------
(* kv_save takes the read lock; fopen empties the file.                    *)
kv_save(w) ==
    /\ up /\ worker[w] = Idle
    /\ worker' = [worker EXCEPT ![w] = [pc |-> "save", slot |-> 0, pos |-> 0]]
    /\ file' = EmptyFile
    /\ snapshot' = [k \in Key |-> IF IsString(db[k]) THEN db[k].val ELSE Absent]
    /\ UNCHANGED <<db, now, up, torn, ideal, clash>>

(* What the loop writes for a slot: nothing unless it holds a string; 0    *)
(* stands for the header, which counts the objects of all types.           *)
Writes(slot) == slot = 0 \/ IsString(db[Slots[slot]])
Item(slot) ==
    IF slot = 0 THEN Cardinality({k \in Key : db[k] # Absent})
    ELSE [key |-> Slots[slot], val |-> db[Slots[slot]].val]

(* fwrite of the next item, over whatever another save has written there.  *)
SaveItem(w) ==
    LET slot == worker[w].slot
        i == worker[w].pos
    IN  /\ worker[w].pc = "save" /\ slot <= Len(Slots)
        /\ file' = IF ~Writes(slot) THEN file
                   ELSE [j \in DOMAIN file |->
                          IF j = i THEN Item(slot)
                          ELSE IF j < i /\ file[j] = EOF THEN Hole ELSE file[j]]
        /\ worker' = [worker EXCEPT ![w] =
                        [pc |-> "save", slot |-> slot + 1,
                         pos |-> IF Writes(slot) THEN i + 1 ELSE i]]
        /\ UNCHANGED <<db, now, up, snapshot, torn, ideal, clash>>

(* fclose, and the read lock is released.                                  *)
SaveClose(w) ==
    /\ worker[w].pc = "save" /\ worker[w].slot > Len(Slots)
    /\ Done(w)
    /\ torn' = (torn /\ Saving # {w})
    /\ UNCHANGED <<db, now, file, up, snapshot, ideal, clash>>

Crash ==
    /\ up
    /\ up' = FALSE /\ torn' = (torn \/ Saving # {})
    /\ worker' = [w \in Worker |-> Idle] /\ db' = Empty
    /\ UNCHANGED <<now, file, snapshot, ideal, clash>>

(* Mutant: the loop ends one record early.                                 *)
LoadedButLast(k) ==
    LET n == IF file[0] \in Nat THEN file[0] ELSE 0
    IN  {i \in 1 .. n - 1 : /\ file[i] \notin {EOF, Hole} /\ file[i].key = k
                            /\ \A j \in 1 .. i : file[j] # EOF}

(* The records of k that kv_open reads: as many as the header says, or as  *)
(* the file has.  A hole of zeros reads as an empty key.                   *)
Loaded(k) ==
    LET n == IF file[0] \in Nat THEN file[0] ELSE 0
    IN  {i \in 1 .. n : /\ file[i] \notin {EOF, Hole} /\ file[i].key = k
                        /\ \A j \in 1 .. i : file[j] # EOF}

kv_open ==
    /\ ~up /\ up' = TRUE
    /\ db' = [k \in Key |-> IF Loaded(k) = {} THEN Absent
                             ELSE String(file[CHOOSE i \in Loaded(k) : TRUE].val,
                                         Forever)]
    /\ ideal' = db' /\ clash' = {}
    /\ UNCHANGED <<now, worker, file, snapshot, torn>>

Continue(w) ==
    kv_setex(w) \/ kv_set_object(w) \/ Finish(w) \/ SaveItem(w) \/ SaveClose(w)

(* The commands, as process_command tells them apart; those that only read *)
(* change nothing.                                                         *)
Begin(w) ==
    \/ kv_save(w)
    \/ \E k \in Key :
         \/ kv_set(w, k, "SET") \/ kv_set(w, k, "SETEX")
         \/ \E ttl \in {Forever, now + 1} : kv_set_ttl(w, k, ttl)
         \/ kv_del(w, k) \/ kv_setnx(w, k) \/ kv_incrby(w, k)
         \/ kv_append(w, k) \/ kv_ensure_list(w, k)

Next ==
    \/ /\ cmds < MaxCmds /\ cmds' = cmds + 1
       /\ \E w \in Worker : Begin(w)
    \/ /\ UNCHANGED cmds
       /\ \/ \E w \in Worker : Continue(w)
          \/ \E k \in Key : kv_active_expire(k)
          \/ Tick \/ Crash \/ kv_open

(* The workers go on; the random samples of the expiry thread hit a slot   *)
(* again and again, and it gets the lock if that is free again and again.  *)
Fairness ==
    /\ \A w \in Worker : WF_vars(Continue(w) /\ UNCHANGED cmds)
    /\ \A k \in Key : SF_vars(kv_active_expire(k) /\ UNCHANGED cmds)

Spec == Init /\ [][Next]_vars /\ Fairness

-----------------------------------------------------------------------------
(* A key on which no command is under way holds what it would hold if each *)
(* command were one step, unless another worker or the expiry thread has   *)
(* changed the key in the middle of a command; two INCRs or APPENDs of a   *)
(* key that is there never lose an addition (kv_incrby, kv_append,         *)
(* kv_setnx, kv_setex, kv_set_object).                                     *)
CommandsAreAtomic ==
    up => \A k \in Key \ clash :
            (\A w \in Worker : ~Within(w, k)) => db[k] = ideal[k]

(* After a crash and a restart the table holds only strings that the       *)
(* latest save found, with no expiry, and all of them unless the crash was *)
(* in the middle of a save; two saves at a time do not spoil the file      *)
(* (kv_save, kv_open).                                                     *)
RestartRestores ==
    [][~up /\ up' =>
         \A k \in Key :
           IF db'[k] = Absent THEN snapshot[k] = Absent \/ torn
           ELSE db'[k] = String(snapshot[k], Forever)]_vars

(* A key whose time has come goes away, or its expiry is put off           *)
(* (expire_thread, kv_active_expire).                                      *)
ExpiredGoes ==
    \A k \in Key :
      LET Due == up /\ db[k] # Absent /\ db[k].ttl # Forever /\ db[k].ttl <= now
      IN  Due ~> ~Due
=============================================================================
