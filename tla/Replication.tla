---------------------------- MODULE Replication -----------------------------
(***************************************************************************)
(* A mesh of antzkv nodes: the SET and DEL commands of src/server/server.c *)
(* with what src/cluster/cluster.c does to propagate them.                 *)
(*                                                                         *)
(* A node's key-space is the map of KeyMap; its replication queue is the   *)
(* queue that ReplRing is in its first lap.  A worker executes one SET in  *)
(* four steps, each atomic under a lock of its own: a version, the store,  *)
(* the read-back of the metadata, the queueing.  A connection between two  *)
(* nodes is a TCP stream; a node that reconnects gets a new one, and the   *)
(* peer's handler of the old one goes on with what it still has to read.   *)
(* A value is the number of the write that produced it.                    *)
(***************************************************************************)
EXTENDS Meta, Sequences, FiniteSets

CONSTANTS
    Node,          \* node ids: positive numbers, in the order of strcmp
    Worker,        \* a worker is <<node, i>>: a thread that serves clients
    Key,
    MaxWrites,     \* bound: SET commands
    MaxDels,       \* bound: DEL commands
    MaxConns,      \* bound: connections per ordered pair of nodes
    NoObject

ASSUME ReplicationAssumption ==
    /\ Node \subseteq Nat \ {0}
    /\ Worker \subseteq Node \X Nat
    /\ MaxWrites \in Nat /\ MaxDels \in Nat /\ MaxConns \in Nat \ {0}
    /\ NoObject \notin [val : Nat, meta : kv_meta_t]

VARIABLES
    store,         \* per node: the key-space
    db_version,    \* per node
    worker,        \* per worker: the SET command it executes
    queue,         \* per node: the replication queue
    conn,          \* per pair: the number of the latest connection
    up,            \* per pair: out_fd >= 0 /\ alive
    stream,        \* per pair and connection: the messages not yet read
    written,       \* the writes begun so far: their key, worker and version
    dels

vars == <<store, db_version, worker, queue, conn, up, stream, written, dels>>

Pair == {p \in Node \X Node : p[1] # p[2]}
Idle == [pc |-> "idle"]
Greatest(a, b) == IF a > b THEN a ELSE b

(* A mesh whose nodes have all connected to each other.                    *)
Init ==
    /\ store = [n \in Node |-> [k \in Key |-> NoObject]]
    /\ db_version = [n \in Node |-> 0]
    /\ worker = [w \in Worker |-> Idle]
    /\ queue = [n \in Node |-> <<>>]
    /\ conn = [p \in Pair |-> 1]
    /\ up = [p \in Pair |-> TRUE]
    /\ stream = [p \in Pair |-> [c \in 1 .. MaxConns |-> <<>>]]
    /\ written = <<>> /\ dels = 0

-----------------------------------------------------------------------------
(* Mutant: kv_next_version returns the version before the increment.       *)
kv_next_versionPost(w, key) ==
    LET n  == w[1]
        id == Len(written) + 1
        v  == db_version[n]
    IN  /\ worker[w].pc = "idle" /\ Len(written) < MaxWrites
        /\ db_version' = [db_version EXCEPT ![n] = v + 1]
        /\ worker' = [worker EXCEPT ![w] =
             [pc |-> "set", key |-> key, val |-> id,
              meta |-> [version |-> v, wallclock |-> id, origin |-> 0]]]
        /\ written' = Append(written, [key |-> key, by |-> w, version |-> v])
        /\ UNCHANGED <<store, queue, conn, up, stream, dels>>

(* SET: kv_set takes a version and the time of day (here: the number of    *)
(* the write, a clock that all nodes share); the origin is empty.          *)
SetVersion(w, key) ==
    LET n  == w[1]
        id == Len(written) + 1
        v  == db_version[n] + 1
    IN  /\ worker[w].pc = "idle" /\ Len(written) < MaxWrites
        /\ db_version' = [db_version EXCEPT ![n] = v]
        /\ worker' = [worker EXCEPT ![w] =
             [pc |-> "set", key |-> key, val |-> id,
              meta |-> [version |-> v, wallclock |-> id, origin |-> 0]]]
        /\ written' = Append(written, [key |-> key, by |-> w, version |-> v])
        /\ UNCHANGED <<store, queue, conn, up, stream, dels>>

(* Mutant: the version counter does not follow the versions of others.     *)
kv_set_metaDeaf(n, key, val, meta) ==
    /\ store' = [store EXCEPT ![n][key] = [val |-> val, meta |-> meta]]
    /\ UNCHANGED db_version

(* Mutant: a replaced object does not get the new metadata.                *)
kv_set_metaBlank(n, key, val, meta) ==
    LET kept == IF store[n][key] = NoObject THEN meta
                ELSE [meta EXCEPT !.version = 0]
    IN  /\ store' = [store EXCEPT ![n][key] = [val |-> val, meta |-> kept]]
        /\ db_version' =
             [db_version EXCEPT ![n] = Greatest(db_version[n], meta.version)]

(* kv_set_meta: the object is replaced whatever its metadata.              *)
kv_set_meta(n, key, val, meta) ==
    /\ store' = [store EXCEPT ![n][key] = [val |-> val, meta |-> meta]]
    /\ db_version' =
         [db_version EXCEPT ![n] = Greatest(db_version[n], meta.version)]

(* The rest of kv_set; an EX or PX option changes no more than the expiry. *)
SetStore(w) ==
    LET op == worker[w]
    IN  /\ op.pc = "set"
        /\ kv_set_meta(w[1], op.key, op.val, op.meta)
        /\ worker' = [worker EXCEPT ![w].pc = "stored"]
        /\ UNCHANGED <<queue, conn, up, stream, written, dels>>

(* kv_get_meta: the metadata of whatever the key holds by now, under the   *)
(* name of this node.  A key that is gone is not replicated.               *)
SetReadMeta(w) ==
    LET op  == worker[w]
        obj == store[w[1]][op.key]
    IN  /\ op.pc = "stored"
        /\ worker' = [worker EXCEPT ![w] =
             IF obj = NoObject THEN Idle
             ELSE [op EXCEPT !.pc = "read",
                             !.meta = [obj.meta EXCEPT !.origin = w[1]]]]
        /\ UNCHANGED <<store, db_version, queue, conn, up, stream, written, dels>>

(* Mutant: the message is stamped with a version of its own.               *)
SetEnqueueFresh(w) ==
    LET op == worker[w]
        n  == w[1]
        v  == db_version[n] + 1
    IN  /\ op.pc = "read"
        /\ db_version' = [db_version EXCEPT ![n] = v]
        /\ queue' = [queue EXCEPT ![n] =
             Append(@, [key |-> op.key, val |-> op.val,
                        meta |-> [op.meta EXCEPT !.version = v]])]
        /\ worker' = [worker EXCEPT ![w] = Idle]
        /\ UNCHANGED <<store, conn, up, stream, written, dels>>

(* cluster_replicate_set.                                                  *)
SetEnqueue(w) ==
    LET op == worker[w]
        n  == w[1]
    IN  /\ op.pc = "read"
        /\ queue' = [queue EXCEPT ![n] =
             Append(@, [key |-> op.key, val |-> op.val, meta |-> op.meta])]
        /\ worker' = [worker EXCEPT ![w] = Idle]
        /\ UNCHANGED <<store, db_version, conn, up, stream, written, dels>>

(* DEL: kv_del, and nothing is queued.                                     *)
Del(n, key) ==
    /\ dels < MaxDels
    /\ store[n][key] # NoObject
    /\ store' = [store EXCEPT ![n][key] = NoObject]
    /\ dels' = dels + 1
    /\ UNCHANGED <<db_version, worker, queue, conn, up, stream, written>>

-----------------------------------------------------------------------------
(* Mutant: the loop over the peers stops before the last one.              *)
DispatchButLast(n) ==
    LET last == CHOOSE m \in Node \ {n} : \A k \in Node \ {n} : k <= m
    IN  /\ queue[n] # <<>>
        /\ stream' = [p \in Pair |->
             IF p[1] = n /\ p[2] # last /\ up[p]
               THEN [stream[p] EXCEPT ![conn[p]] = Append(@, Head(queue[n]))]
               ELSE stream[p]]
        /\ queue' = [queue EXCEPT ![n] = Tail(@)]
        /\ UNCHANGED <<store, db_version, worker, conn, up, written, dels>>

(* Mutant: the ring counts as empty when one message is left.              *)
DispatchLate(n) ==
    /\ Len(queue[n]) > 1
    /\ stream' = [p \in Pair |->
         IF p[1] = n /\ up[p]
           THEN [stream[p] EXCEPT ![conn[p]] = Append(@, Head(queue[n]))]
           ELSE stream[p]]
    /\ queue' = [queue EXCEPT ![n] = Tail(@)]
    /\ UNCHANGED <<store, db_version, worker, conn, up, written, dels>>

(* repl_thread: a message goes to every peer that is connected, and is     *)
(* forgotten.                                                              *)
Dispatch(n) ==
    /\ queue[n] # <<>>
    /\ stream' = [p \in Pair |->
         IF p[1] = n /\ up[p]
           THEN [stream[p] EXCEPT ![conn[p]] = Append(@, Head(queue[n]))]
           ELSE stream[p]]
    /\ queue' = [queue EXCEPT ![n] = Tail(@)]
    /\ UNCHANGED <<store, db_version, worker, conn, up, written, dels>>

(* handle_client, one thread per connection: a SET message.                *)
Apply(p, c) ==
    /\ stream[p][c] # <<>>
    /\ LET msg == Head(stream[p][c])
       IN  kv_set_meta(p[2], msg.key, msg.val, msg.meta)
    /\ stream' = [stream EXCEPT ![p][c] = Tail(@)]
    /\ UNCHANGED <<worker, queue, conn, up, written, dels>>

(* cluster_send or the dead-peer sweep closes out_fd: a part of what is    *)
(* under way is lost.                                                      *)
Disconnect(p) ==
    /\ up[p] /\ conn[p] < MaxConns
    /\ up' = [up EXCEPT ![p] = FALSE]
    /\ \E len \in 0 .. Len(stream[p][conn[p]]) :
         stream' = [stream EXCEPT ![p][conn[p]] = SubSeq(@, 1, len)]
    /\ UNCHANGED <<store, db_version, worker, queue, conn, written, dels>>

(* hb_thread calls connect_peer.  Nothing is sent again, and nobody sends  *)
(* SYNC_REQ.                                                               *)
Reconnect(p) ==
    /\ ~up[p]
    /\ conn' = [conn EXCEPT ![p] = @ + 1]
    /\ up' = [up EXCEPT ![p] = TRUE]
    /\ UNCHANGED <<store, db_version, worker, queue, stream, written, dels>>

Work(w) == SetStore(w) \/ SetReadMeta(w) \/ SetEnqueue(w)

Next ==
    \/ \E w \in Worker : Work(w) \/ \E key \in Key : SetVersion(w, key)
    \/ \E n \in Node, key \in Key : Del(n, key)
    \/ \E n \in Node : Dispatch(n)
    \/ \E p \in Pair :
         \/ \E c \in 1 .. MaxConns : Apply(p, c)
         \/ Disconnect(p) \/ Reconnect(p)

(* Every thread gets its turn, and a node that is down is connected again. *)
Fairness ==
    /\ \A w \in Worker : WF_vars(Work(w))
    /\ \A n \in Node : WF_vars(Dispatch(n))
    /\ \A p \in Pair : /\ \A c \in 1 .. MaxConns : WF_vars(Apply(p, c))
                       /\ WF_vars(Reconnect(p))

Spec == Init /\ [][Next]_vars /\ Fairness

-----------------------------------------------------------------------------
Value == 1 .. MaxWrites

(* The messages that node n has sent or will send.                         *)
Outgoing(n) ==
    {queue[n][i] : i \in 1 .. Len(queue[n])} \cup
    UNION {{stream[p][c][i] : i \in 1 .. Len(stream[p][c])} :
             p \in {q \in Pair : q[1] = n}, c \in 1 .. MaxConns}

(* db_version is a Lamport clock: it covers what a node stores, what its   *)
(* workers are about to store and every message it sends, so a write that  *)
(* follows another, on any node, gets a higher version (kv_next_version,   *)
(* kv_set_object).                                                         *)
ClockCovers ==
    \A n \in Node :
      /\ \A k \in Key : store[n][k] # NoObject =>
                          store[n][k].meta.version <= db_version[n]
      /\ \A w \in Worker : w[1] = n /\ worker[w] # Idle =>
                             worker[w].meta.version <= db_version[n]
      /\ \A msg \in Outgoing(n) : msg.meta.version <= db_version[n]

(* A new SET gets a version above that of every object its node holds, so  *)
(* last-write-wins would never drop what a client has just written         *)
(* (kv_set).                                                               *)
NewWriteIsNewest ==
    [][Len(written') > Len(written) =>
         LET op == written'[Len(written')]
         IN  \A k \in Key : store[op.by[1]][k] # NoObject =>
                              op.version > store[op.by[1]][k].meta.version]_vars

(* One worker has written, nothing was deleted and no connection broken:   *)
(* what the properties below need, for kv_set_object compares no metadata, *)
(* DEL is not replicated, and what a broken connection loses is not sent   *)
(* again.                                                                  *)
Calm ==
    /\ \A i, j \in 1 .. Len(written) : written[i].by = written[j].by
    /\ dels = 0
    /\ \A p \in Pair : up[p] /\ conn[p] = 1

(* Last-write-wins: a node never replaces an object by an older one        *)
(* (kv_set_object).                                                        *)
LastWriteWins ==
    [][Calm' =>
         \A n \in Node, k \in Key :
           store[n][k] # NoObject /\ store'[n][k] # NoObject =>
             ~meta_gt(store[n][k].meta, store'[n][k].meta)]_vars

(* Nothing is under way.                                                   *)
Quiescent ==
    /\ \A w \in Worker : worker[w] = Idle
    /\ \A n \in Node : Outgoing(n) = {}

(* Once nothing is under way all nodes hold the same values (SET, DEL,     *)
(* repl_thread, handle_client).                                            *)
Agreement ==
    Calm /\ Quiescent =>
      \A m, n \in Node, k \in Key :
        IF store[m][k] = NoObject THEN store[n][k] = NoObject
        ELSE store[n][k] # NoObject /\ store[n][k].val = store[m][k].val

(* What is sent for a write carries the version that write was given (the  *)
(* read-back in SET).                                                      *)
CarriesOwnVersion ==
    Calm => \A n \in Node : \A msg \in Outgoing(n) :
              msg.meta.version = written[msg.val].version

(* Every write reaches every node, or a later one does (SET, repl_thread,  *)
(* handle_client).                                                         *)
EveryWriteArrives ==
    \A v \in Value, n \in Node :
      (Len(written) >= v) ~>
        \/ ~Calm
        \/ /\ Len(written) >= v
           /\ store[n][written[v].key] # NoObject
           /\ store[n][written[v].key].val >= v
=============================================================================
