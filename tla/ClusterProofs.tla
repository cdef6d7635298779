---------------------------- MODULE ClusterProofs ---------------------------
(***************************************************************************)
(* Proofs about src/cluster/cluster.c: the replication queue, the mesh of  *)
(* nodes that it feeds, and one node's link to a peer.                     *)
(***************************************************************************)
EXTENDS ReplRing, Replication, PeerLink, TLAPS

-----------------------------------------------------------------------------
(***************************************************************************)
(* The first lap of the replication ring, for every capacity: repl_thread  *)
(* sends what repl_enqueue queued, in order and once, and no message is    *)
(* released before it is sent or left behind by a shutdown.                *)
(***************************************************************************)

(* In the first lap the index of a slot is the number of the message       *)
(* before it, and the positions of head and tail tell what was queued and  *)
(* what was taken.                                                         *)
LapInv ==
    /\ RingTypeOK
    /\ FirstLap
    /\ repl_head = queued /\ repl_tail <= repl_head
    /\ \A i \in 0 .. (repl_head - 1) : repl_buf[i] = i + 1
    /\ \A i \in 1 .. Len(sent) : sent[i] = i
    /\ daemon = "sending" => item = repl_tail /\ Len(sent) + 1 = repl_tail
    /\ daemon # "sending" => Len(sent) = repl_tail
    /\ main = "joined" => freed = 1 .. queued /\ daemon = "done"
    /\ main # "joined" => freed = 1 .. Len(sent)

LEMMA Small ==
    ASSUME NEW i \in Nat, i < repl_cap
    PROVE  i % repl_cap = i
  BY ReplRingAssumption

LEMMA FunctionIsSeq ==
    ASSUME NEW n \in Nat, NEW f \in [1 .. n -> Nat]
    PROVE  f \in Seq(Nat) /\ Len(f) = n
<1>1. f \in Seq(Nat)
  OBVIOUS
<1>2. DOMAIN f = 1 .. n /\ DOMAIN f = 1 .. Len(f) /\ Len(f) \in Nat
  BY <1>1
<1>3. QED
  BY <1>1, <1>2

(* Counting from 1 and counting on.                                        *)
LEMMA CountOn ==
    ASSUME NEW s \in Seq(Nat), NEW t \in Seq(Nat),
           \A i \in 1 .. Len(s) : s[i] = i,
           \A i \in 1 .. Len(t) : t[i] = Len(s) + i
    PROVE  /\ s \o t \in Seq(Nat) /\ Len(s \o t) = Len(s) + Len(t)
           /\ \A i \in 1 .. (Len(s) + Len(t)) : (s \o t)[i] = i
<1>1. Len(s) \in Nat /\ Len(t) \in Nat
  OBVIOUS
<1>2. /\ s \o t \in Seq(Nat) /\ Len(s \o t) = Len(s) + Len(t)
      /\ \A i \in 1 .. (Len(s) + Len(t)) :
           (s \o t)[i] = IF i <= Len(s) THEN s[i] ELSE t[i - Len(s)]
  OBVIOUS
<1>3. ASSUME NEW i \in 1 .. (Len(s) + Len(t)) PROVE (s \o t)[i] = i
  <2>1. CASE i <= Len(s)
    BY <1>1, <1>2, <2>1
  <2>2. CASE i > Len(s)
    <3>1. i - Len(s) \in 1 .. Len(t)
      BY <1>1, <2>2
    <3>2. QED
      BY <1>1, <1>2, <2>2, <3>1
  <2>3. QED
    BY <1>1, <2>1, <2>2
<1>4. QED
  BY <1>2, <1>3, Zenon

LEMMA LapInit == RingInit => LapInv
<1> SUFFICES ASSUME RingInit PROVE LapInv
  BY Zenon
<1>1. sent \in Seq(Message) /\ Len(sent) = 0
  BY DEF RingInit
<1>2. RingTypeOK
  <2>1. repl_buf \in [0 .. (repl_cap - 1) -> Message \cup {NoItem}]
    BY Zenon DEF RingInit
  <2>2. /\ repl_head \in 0 .. (repl_cap - 1) /\ repl_tail \in Nat
        /\ queued \in 0 .. MaxMsgs
    BY ReplRingAssumption DEF RingInit
  <2>3. QED
    BY <1>1, <2>1, <2>2, Zenon DEF RingInit, RingTypeOK
<1>3. QED
  BY <1>1, <1>2, ReplRingAssumption DEF RingInit, LapInv, FirstLap

LEMMA LapEnqueue ==
    ASSUME LapInv, repl_enqueue, FirstLap'
    PROVE  LapInv'
<1>1. /\ queued \in Nat /\ queued' = queued + 1 /\ queued' < repl_cap
      /\ queued < MaxMsgs /\ repl_head = queued /\ repl_tail \in 0 .. repl_head
      /\ repl_cap \in Nat /\ MaxMsgs \in Nat
  BY ReplRingAssumption DEF LapInv, RingTypeOK, FirstLap, repl_enqueue
<1>2. (repl_head + 1) % repl_cap = queued + 1 /\ repl_head % repl_cap = repl_head
  BY <1>1, Small
<1>3. /\ repl_head' = queued' /\ repl_tail' = repl_tail /\ freed' = freed
      /\ repl_buf' = [repl_buf EXCEPT ![repl_head] = queued']
      /\ UNCHANGED <<item, stop, main, sent>>
  <2>1. ~((repl_head + 1) % repl_cap = repl_tail)
    BY <1>1, <1>2
  <2>2. QED
    BY <1>1, <1>2, <2>1, Zenon DEF repl_enqueue
<1>4. daemon' \in {daemon, "relock"} /\ (daemon' = "sending" <=> daemon = "sending")
  BY Zenon DEF repl_enqueue, Awakened
<1>5. main = "running"
  BY Zenon DEF repl_enqueue
<1>6. RingTypeOK'
  BY <1>1, <1>3, <1>4 DEF LapInv, RingTypeOK, Message
<1>7. \A i \in 0 .. (repl_head' - 1) : repl_buf'[i] = i + 1
  BY <1>1, <1>3 DEF LapInv, RingTypeOK
<1>8. QED
  BY <1>1, <1>3, <1>4, <1>5, <1>6, <1>7 DEF LapInv

LEMMA LapTake ==
    ASSUME LapInv, Take
    PROVE  LapInv'
<1>1. /\ repl_tail \in Nat /\ repl_head \in Nat /\ repl_tail < repl_head
      /\ repl_head < repl_cap /\ repl_head <= MaxMsgs /\ MaxMsgs \in Nat
  BY ReplRingAssumption DEF LapInv, RingTypeOK, Take, FirstLap
<1>2. repl_tail % repl_cap = repl_tail
  BY <1>1, Small, ReplRingAssumption
<1>3. item' = repl_tail + 1 /\ repl_tail' = repl_tail + 1
  BY <1>1, <1>2 DEF LapInv, Take
<1>4. /\ daemon = "checked" /\ daemon' = "sending"
      /\ UNCHANGED <<repl_buf, repl_head, stop, main, queued, sent, freed>>
  BY Zenon DEF Take
<1>5. RingTypeOK'
  BY <1>1, <1>3, <1>4 DEF LapInv, RingTypeOK, Message
<1>6. QED
  BY <1>1, <1>3, <1>4, <1>5 DEF LapInv, FirstLap

LEMMA LapSend ==
    ASSUME LapInv, Send
    PROVE  LapInv'
<1>1. /\ sent \in Seq(Message) /\ item \in Message /\ item = repl_tail
      /\ Len(sent) \in Nat /\ Len(sent) + 1 = repl_tail /\ repl_tail \in Nat
      /\ repl_tail <= repl_head
  BY ReplRingAssumption DEF LapInv, RingTypeOK, Send, Message
<1>2. /\ sent' = Append(sent, item) /\ daemon' = "relock"
      /\ freed' = freed \cup {item} /\ item' = NoItem /\ daemon = "sending"
      /\ UNCHANGED <<repl_buf, repl_head, repl_tail, stop, main, queued>>
  BY Zenon DEF Send
<1>3. /\ sent' \in Seq(Message) /\ Len(sent') = repl_tail
      /\ \A i \in 1 .. Len(sent') : sent'[i] = i
  BY <1>1, <1>2 DEF LapInv
<1>4. main # "joined" /\ freed = 1 .. Len(sent)
  BY <1>2, Zenon DEF LapInv
<1>5. freed' = 1 .. Len(sent')
  BY <1>1, <1>2, <1>3, <1>4
<1>6. RingTypeOK'
  BY <1>1, <1>2, <1>3, <1>4, Zenon DEF LapInv, RingTypeOK
<1>7. QED
  BY <1>1, <1>2, <1>3, <1>4, <1>5, <1>6, Zenon DEF LapInv, FirstLap

LEMMA LapJoin ==
    ASSUME LapInv, Join
    PROVE  LapInv'
<1>1. /\ repl_tail \in Nat /\ repl_head \in Nat /\ repl_tail <= repl_head
      /\ repl_head < repl_cap /\ repl_head <= MaxMsgs /\ repl_head = queued
      /\ Len(sent) = repl_tail /\ freed = 1 .. repl_tail /\ MaxMsgs \in Nat
  BY ReplRingAssumption DEF LapInv, RingTypeOK, Join, FirstLap
<1>2. \A i \in repl_tail .. (repl_head - 1) : repl_buf[i % repl_cap] = i + 1
  <2>1. ASSUME NEW i \in repl_tail .. (repl_head - 1)
        PROVE  repl_buf[i % repl_cap] = i + 1
    <3>1. i \in Nat /\ i < repl_cap /\ i \in 0 .. (repl_head - 1)
      BY <1>1, ReplRingAssumption
    <3>2. QED
      BY <3>1, Small, Zenon DEF LapInv
  <2>2. QED
    BY <2>1, Zenon
<1>3. {repl_buf[i % repl_cap] : i \in repl_tail .. (repl_head - 1)}
        = (repl_tail + 1) .. repl_head
  <2>1. ASSUME NEW m \in (repl_tail + 1) .. repl_head
        PROVE  \E i \in repl_tail .. (repl_head - 1) : repl_buf[i % repl_cap] = m
    <3>1. m - 1 \in repl_tail .. (repl_head - 1)
      BY <1>1
    <3>2. repl_buf[(m - 1) % repl_cap] = (m - 1) + 1
      BY <1>2, <3>1, Zenon
    <3>3. (m - 1) + 1 = m
      BY <1>1
    <3>4. QED
      BY <3>1, <3>2, <3>3, Zenon
  <2>2. QED
    BY <1>1, <1>2, <2>1
<1>4. /\ daemon = "done" /\ main' = "joined"
      /\ freed' = freed \cup
           {repl_buf[i % repl_cap] : i \in repl_tail .. (repl_head - 1)}
      /\ UNCHANGED <<repl_buf, repl_head, repl_tail, daemon, item, stop,
                     queued, sent>>
  BY Zenon DEF Join
<1>5. freed' = 1 .. queued
  BY <1>1, <1>3, <1>4
<1>6. RingTypeOK'
  <2>1. freed' \subseteq Message
    BY <1>1, <1>5 DEF Message
  <2>2. QED
    BY <1>4, <2>1, Zenon DEF LapInv, RingTypeOK
<1>7. QED
  BY <1>4, <1>5, <1>6, Zenon DEF LapInv, FirstLap

LEMMA LapNext == LapInv /\ [RingNext /\ FirstLap']_ringvars => LapInv'
<1> SUFFICES ASSUME LapInv, [RingNext /\ FirstLap']_ringvars PROVE LapInv'
  BY Zenon
<1>1. CASE repl_enqueue /\ FirstLap'
  BY <1>1, LapEnqueue, Zenon
<1>2. CASE CheckStop
  BY <1>2, Zenon DEF LapInv, RingTypeOK, FirstLap, CheckStop
<1>3. CASE Wait
  BY <1>3, Zenon DEF LapInv, RingTypeOK, FirstLap, Wait
<1>4. CASE Take
  BY <1>4, LapTake, Zenon
<1>5. CASE Send
  BY <1>5, LapSend, Zenon
<1>6. CASE SpuriousWakeup
  BY <1>6, Zenon DEF LapInv, RingTypeOK, FirstLap, SpuriousWakeup
<1>7. CASE cluster_shutdown
  BY <1>7, Zenon DEF LapInv, RingTypeOK, FirstLap, cluster_shutdown
<1>8. CASE Broadcast
  BY <1>8, Zenon DEF LapInv, RingTypeOK, FirstLap, Broadcast, Awakened
<1>9. CASE Join
  BY <1>9, LapJoin, Zenon
<1>10. CASE UNCHANGED ringvars
  BY <1>10, Zenon DEF LapInv, RingTypeOK, FirstLap, ringvars
<1>11. QED
  BY <1>1, <1>2, <1>3, <1>4, <1>5, <1>6, <1>7, <1>8, <1>9, <1>10, Zenon
  DEF RingNext, Daemon, Joined

LEMMA LapHolds == SpecFirstLap => []LapInv
  BY LapInit, LapNext, PTL DEF SpecFirstLap

LEMMA LapFifo == LapInv => QueueIsFifo
<1> SUFFICES ASSUME LapInv PROVE QueueIsFifo
  BY Zenon
<1> DEFINE hand == IF daemon = "sending" THEN <<item>> ELSE <<>>
           left == [i \in 1 .. (repl_head - repl_tail) |->
                      repl_buf[(repl_tail + i - 1) % repl_cap]]
           n    == Len(sent \o hand)
<1>1. /\ repl_tail \in Nat /\ repl_head \in Nat /\ repl_tail <= repl_head
      /\ repl_head < repl_cap /\ repl_head = queued /\ sent \in Seq(Nat)
      /\ repl_cap \in Nat
  <2>1. sent \in Seq(Nat)
    BY ReplRingAssumption DEF LapInv, RingTypeOK, Message
  <2>2. QED
    BY <2>1, ReplRingAssumption DEF LapInv, RingTypeOK, FirstLap
<1>2. hand \in Seq(Nat)
  BY <1>1 DEF LapInv
<1>3. /\ sent \o hand \in Seq(Nat) /\ Len(sent \o hand) = repl_tail
      /\ \A i \in 1 .. repl_tail : (sent \o hand)[i] = i
  BY <1>1, <1>2 DEF LapInv
<1>4. \A i \in 1 .. (repl_head - repl_tail) : left[i] = repl_tail + i
  <2>1. ASSUME NEW i \in 1 .. (repl_head - repl_tail)
        PROVE  left[i] = repl_tail + i
    <3>1. /\ repl_tail + i - 1 \in 0 .. (repl_head - 1)
          /\ repl_tail + i - 1 \in Nat /\ repl_tail + i - 1 < repl_cap
      BY <1>1
    <3>2. repl_buf[(repl_tail + i - 1) % repl_cap] = repl_tail + i - 1 + 1
      BY <3>1, Small, Zenon DEF LapInv
    <3>3. QED
      BY <1>1, <3>2
  <2>2. QED
    BY <2>1, Zenon
<1>5. left \in Seq(Nat) /\ Len(left) = repl_head - repl_tail
  <2>1. repl_head - repl_tail \in Nat
    BY <1>1
  <2>2. left \in [1 .. (repl_head - repl_tail) -> Nat]
    <3> HIDE DEF left
    <3>1. \A i \in 1 .. (repl_head - repl_tail) : left[i] \in Nat
      BY <1>1, <1>4
    <3>2. QED
      BY <3>1, Zenon DEF left
  <2> HIDE DEF left
  <2>3. QED
    BY <2>1, <2>2, FunctionIsSeq, Zenon
<1> HIDE DEF hand, left
<1>6. /\ (sent \o hand) \o left \in Seq(Nat)
      /\ Len((sent \o hand) \o left) = queued
      /\ \A i \in 1 .. queued : ((sent \o hand) \o left)[i] = i
  <2> DEFINE s == sent \o hand
  <2>1. s \in Seq(Nat) /\ Len(s) = repl_tail /\ \A i \in 1 .. Len(s) : s[i] = i
    BY <1>3, Zenon
  <2> HIDE DEF s
  <2>2. \A i \in 1 .. Len(left) : left[i] = Len(s) + i
    BY <1>4, <1>5, <2>1, Zenon
  <2>3. /\ s \o left \in Seq(Nat) /\ Len(s \o left) = Len(s) + Len(left)
        /\ \A i \in 1 .. (Len(s) + Len(left)) : (s \o left)[i] = i
    BY <1>5, <2>1, <2>2, CountOn, Zenon
  <2>4. Len(s) + Len(left) = queued
    BY <1>1, <1>5, <2>1
  <2>5. QED
    BY <2>3, <2>4, Zenon DEF s
<1>7. (sent \o hand) \o left = [i \in 1 .. queued |-> i]
  <2> DEFINE all == (sent \o hand) \o left
  <2>1. all \in Seq(Nat) /\ Len(all) = queued /\ \A i \in 1 .. queued : all[i] = i
    BY <1>6, Zenon
  <2> HIDE DEF all
  <2>2. all \in [1 .. queued -> Nat]
    BY <2>1
  <2>3. all = [i \in 1 .. queued |-> i]
    BY <2>1, <2>2, Zenon
  <2>4. QED
    BY <2>3, Zenon DEF all
<1>8. QED
  BY <1>7, Zenon DEF QueueIsFifo, hand, left

(* Until repl_head wraps for the first time, the replication ring is a     *)
(* queue that loses, repeats and reorders nothing, for every capacity and  *)
(* every interleaving with cluster_shutdown.                               *)
THEOREM FirstLapIsFifo == SpecFirstLap => []QueueIsFifo
  BY LapHolds, LapFifo, PTL

(* Until then the daemon never has released memory in hand.                *)
THEOREM FirstLapItemsLive == SpecFirstLap => []ItemIsLive
<1>1. LapInv => ItemIsLive
  <2> SUFFICES ASSUME LapInv, daemon = "sending"
               PROVE  item \in Message \ freed
    BY Zenon DEF ItemIsLive
  <2>1. /\ item \in Message \cup {NoItem} /\ item = repl_tail /\ repl_tail \in Nat
        /\ Len(sent) + 1 = repl_tail /\ main # "joined" /\ freed = 1 .. Len(sent)
        /\ Len(sent) \in Nat
    BY DEF LapInv, RingTypeOK
  <2>2. QED
    BY <2>1, ReplRingAssumption DEF Message
<1>2. QED
  BY <1>1, LapHolds, PTL

(* Until then a shutdown that ends has released every message.             *)
THEOREM FirstLapNoLeak == SpecFirstLap => []NothingLeaks
<1>1. LapInv => NothingLeaks
  BY Zenon DEF LapInv, NothingLeaks
<1>2. QED
  BY <1>1, LapHolds, PTL

-----------------------------------------------------------------------------
(***************************************************************************)
(* Proofs about Replication, for any number of nodes, workers, keys and    *)
(* connections.  Clock is what ClockCovers says, message by message; it is *)
(* inductive with the types of what carries metadata, deletions and lost   *)
(* connections included.  CalmInv is about a mesh with one writer and no   *)
(* losses: a pipeline from the writer's node through its queue and the     *)
(* streams to the other nodes, in which every write has one place.         *)
(***************************************************************************)

Object == [val : Nat, meta : kv_meta_t]
Msg == [key : Key, val : Nat, meta : kv_meta_t]
Op == [pc : {"set", "stored", "read"}, key : Key, val : Nat, meta : kv_meta_t]
Conn == 1 .. MaxConns

Types ==
    /\ store \in [Node -> [Key -> Object \cup {NoObject}]]
    /\ db_version \in [Node -> Nat]
    /\ worker \in [Worker -> {Idle} \cup Op]
    /\ queue \in [Node -> Seq(Msg)]
    /\ stream \in [Pair -> [Conn -> Seq(Msg)]]
    /\ written \in Seq([key : Key, by : Worker, version : Nat])

Clock ==
    /\ \A n \in Node, k \in Key : store[n][k] # NoObject =>
         store[n][k].meta.version <= db_version[n]
    /\ \A w \in Worker : worker[w] # Idle => worker[w].meta.version <= db_version[w[1]]
    /\ \A n \in Node : \A i \in 1 .. Len(queue[n]) :
         queue[n][i].meta.version <= db_version[n]
    /\ \A p \in Pair, c \in Conn : \A i \in 1 .. Len(stream[p][c]) :
         stream[p][c][i].meta.version <= db_version[p[1]]

-----------------------------------------------------------------------------
LEMMA WorkerNode == \A w \in Worker : w[1] \in Node
  BY ReplicationAssumption, Zenon

(* What carries metadata carries a version.                                *)
LEMMA Versions ==
    \A x : x \in Object \/ x \in Msg \/ x \in Op => x.meta.version \in Nat
  BY Zenon DEF Object, Msg, Op, kv_meta_t

LEMMA PairNodes == \A p \in Pair : p[1] \in Node /\ p[2] \in Node
  BY Zenon DEF Pair

(* What is in a sequence after a message is added or taken.                *)
LEMMA AppendElements ==
    ASSUME NEW S, NEW s \in Seq(S), NEW x \in S
    PROVE  /\ Append(s, x) \in Seq(S)
           /\ \A i \in 1 .. Len(Append(s, x)) :
                Append(s, x)[i] = x \/ \E j \in 1 .. Len(s) : Append(s, x)[i] = s[j]
  OBVIOUS

LEMMA TailElements ==
    ASSUME NEW S, NEW s \in Seq(S), s # <<>>
    PROVE  /\ Head(s) \in S /\ Tail(s) \in Seq(S)
           /\ Head(s) = s[1] /\ 1 \in 1 .. Len(s)
           /\ \A i \in 1 .. Len(Tail(s)) : \E j \in 1 .. Len(s) : Tail(s)[i] = s[j]
  OBVIOUS

LEMMA ClockInit == Init => Types /\ Clock
  BY DEF Init, Types, Clock, Conn

(* While the counters grow, what the store, the queues and the streams     *)
(* hold stays covered.                                                     *)
LEMMA StoreStays ==
    ASSUME Types, Clock, db_version' \in [Node -> Nat],
           \A n \in Node : db_version[n] <= db_version'[n], UNCHANGED store
    PROVE  \A n \in Node, k \in Key : store'[n][k] # NoObject =>
             store'[n][k].meta.version <= db_version'[n]
  <1> SUFFICES ASSUME NEW n \in Node, NEW k \in Key, store[n][k] # NoObject
               PROVE  store[n][k].meta.version <= db_version'[n]
    BY Zenon
  <1>1. store[n][k] \in Object /\ db_version[n] \in Nat /\ db_version'[n] \in Nat
    BY Zenon DEF Types
  <1>2. store[n][k].meta.version \in Nat /\ store[n][k].meta.version <= db_version[n]
    BY <1>1, Versions, Zenon DEF Clock
  <1> QED
    BY <1>1, <1>2

LEMMA WorkersStay ==
    ASSUME Types, Clock, db_version' \in [Node -> Nat],
           \A n \in Node : db_version[n] <= db_version'[n],
           NEW w \in Worker, worker[w] # Idle
    PROVE  worker[w].meta.version \in Nat /\ worker[w].meta.version <= db_version'[w[1]]
  <1>1. worker[w] \in Op /\ w[1] \in Node
    BY WorkerNode, Zenon DEF Types
  <1>2. db_version[w[1]] \in Nat /\ db_version'[w[1]] \in Nat
    BY <1>1, Zenon DEF Types
  <1>3. worker[w].meta.version \in Nat /\ worker[w].meta.version <= db_version[w[1]]
    BY <1>1, Versions, Zenon DEF Clock
  <1> QED
    BY <1>1, <1>2, <1>3

LEMMA QueuesStay ==
    ASSUME Types, Clock, db_version' \in [Node -> Nat],
           \A n \in Node : db_version[n] <= db_version'[n],
           NEW n \in Node, NEW i \in 1 .. Len(queue[n])
    PROVE  queue[n][i].meta.version <= db_version'[n]
  <1>1. queue[n] \in Seq(Msg) /\ db_version[n] \in Nat /\ db_version'[n] \in Nat
    BY Zenon DEF Types
  <1>2. queue[n][i] \in Msg
    BY <1>1
  <1>3. queue[n][i].meta.version \in Nat /\ queue[n][i].meta.version <= db_version[n]
    BY <1>2, Versions, Zenon DEF Clock
  <1> QED
    BY <1>1, <1>3

LEMMA StreamsStay ==
    ASSUME Types, Clock, db_version' \in [Node -> Nat],
           \A n \in Node : db_version[n] <= db_version'[n],
           NEW p \in Pair, NEW c \in Conn, NEW i \in 1 .. Len(stream[p][c])
    PROVE  stream[p][c][i].meta.version <= db_version'[p[1]]
  <1>1. stream[p][c] \in Seq(Msg) /\ p[1] \in Node
    BY PairNodes, Zenon DEF Types
  <1>2. stream[p][c][i] \in Msg
    BY <1>1
  <1>3. db_version[p[1]] \in Nat /\ db_version'[p[1]] \in Nat
    BY <1>1, Zenon DEF Types
  <1>4. stream[p][c][i].meta.version \in Nat /\ stream[p][c][i].meta.version <= db_version[p[1]]
    BY <1>2, Versions, Zenon DEF Clock
  <1> QED
    BY <1>1, <1>3, <1>4

(* A worker begins a SET.                                                  *)
LEMMA VersionStep ==
    ASSUME Types, Clock, NEW w \in Worker, NEW key \in Key, SetVersion(w, key)
    PROVE  Types' /\ Clock'
  <1> DEFINE v == db_version[w[1]] + 1
             op == [pc |-> "set", key |-> key, val |-> Len(written) + 1,
                    meta |-> [version |-> v, wallclock |-> Len(written) + 1, origin |-> 0]]
             rec == [key |-> key, by |-> w, version |-> v]
  <1>1. /\ db_version' = [db_version EXCEPT ![w[1]] = v]
        /\ worker' = [worker EXCEPT ![w] = op] /\ written' = Append(written, rec)
        /\ UNCHANGED <<store, queue, stream>>
    BY Zenon DEF SetVersion
  <1>0. v \in Nat /\ Len(written) \in Nat
    BY WorkerNode DEF Types
  <1>2. op \in Op /\ op.meta.version = v
    BY <1>0 DEF Op, kv_meta_t
  <1>3. rec \in [key : Key, by : Worker, version : Nat]
    BY <1>0, Zenon
  <1> HIDE DEF v, op, rec
  <1>4. /\ db_version' \in [Node -> Nat] /\ db_version'[w[1]] = v
        /\ \A n \in Node : db_version[n] <= db_version'[n]
    BY <1>0, <1>1, WorkerNode DEF Types, v
  <1>5. /\ worker' \in [Worker -> {Idle} \cup Op]
        /\ \A u \in Worker : worker'[u] = IF u = w THEN op ELSE worker[u]
    BY <1>1, <1>2, Zenon DEF Types
  <1>6. written' \in Seq([key : Key, by : Worker, version : Nat])
    BY <1>1, <1>3, AppendElements, Zenon DEF Types
  <1>7. Types'
    BY <1>1, <1>4, <1>5, <1>6, Zenon DEF Types
  <1>8. \A u \in Worker : worker'[u] # Idle => worker'[u].meta.version <= db_version'[u[1]]
    <2> SUFFICES ASSUME NEW u \in Worker, worker'[u] # Idle
                 PROVE  worker'[u].meta.version <= db_version'[u[1]]
      BY Zenon
    <2>1. CASE u = w
      BY <1>0, <1>2, <1>4, <1>5, <2>1
    <2>2. CASE u # w
      BY <1>4, <1>5, <2>2, WorkersStay, Zenon
    <2> QED
      BY <2>1, <2>2, Zenon
  <1> QED
    BY <1>1, <1>4, <1>7, <1>8, StoreStays, QueuesStay, StreamsStay, Zenon DEF Clock

(* An object is stored.                                                    *)
LEMMA StoreStep ==
    ASSUME Types, Clock, NEW n \in Node, NEW key \in Key, NEW val \in Nat,
           NEW meta \in kv_meta_t, kv_set_meta(n, key, val, meta)
    PROVE  /\ store' \in [Node -> [Key -> Object \cup {NoObject}]]
           /\ db_version' \in [Node -> Nat]
           /\ \A m \in Node : db_version[m] <= db_version'[m]
           /\ \A m \in Node, k \in Key : store'[m][k] # NoObject =>
                store'[m][k].meta.version <= db_version'[m]
  <1> DEFINE obj == [val |-> val, meta |-> meta]
  <1>0. obj \in Object /\ meta.version \in Nat /\ obj.meta = meta
    BY Zenon DEF Object, kv_meta_t
  <1> HIDE DEF obj
  <1>1. /\ db_version' \in [Node -> Nat] /\ meta.version <= db_version'[n]
        /\ \A m \in Node : db_version[m] <= db_version'[m]
    BY <1>0 DEF kv_set_meta, Greatest, Types
  <1>2. store' = [store EXCEPT ![n][key] = obj]
    BY Zenon DEF kv_set_meta, obj
  <1>3. store' \in [Node -> [Key -> Object \cup {NoObject}]]
    BY <1>0, <1>2, Zenon DEF Types
  <1>4. ASSUME NEW m \in Node, NEW k \in Key, store'[m][k] # NoObject
        PROVE  store'[m][k].meta.version <= db_version'[m]
    <2>1. CASE m = n /\ k = key
      <3>1. store'[n][key] = obj
        BY <1>2, Zenon DEF Types
      <3> QED
        BY <1>0, <1>1, <2>1, <3>1, Zenon
    <2>2. CASE ~(m = n /\ k = key)
      <3>1. store'[m][k] = store[m][k]
        BY <1>2, <2>2, Zenon DEF Types
      <3>2. store[m][k] \in Object /\ db_version[m] \in Nat /\ db_version'[m] \in Nat
        BY <1>1, <1>4, <3>1, Zenon DEF Types
      <3>3. /\ store[m][k].meta.version \in Nat
            /\ store[m][k].meta.version <= db_version[m]
        BY <1>4, <3>1, <3>2, Versions, Zenon DEF Clock
      <3> QED
        BY <1>1, <3>1, <3>2, <3>3
    <2> QED
      BY <2>1, <2>2, Zenon
  <1> QED
    BY <1>1, <1>3, <1>4, Zenon

(* The clocks stand still and so does what they cover, but for the part    *)
(* that a step changes.                                                    *)
LEMMA Still ==
    ASSUME Types, UNCHANGED db_version
    PROVE  db_version' \in [Node -> Nat] /\ \A n \in Node : db_version[n] <= db_version'[n]
  BY DEF Types

(* kv_set by a worker, the rest of it.                                     *)
LEMMA SetStoreStep ==
    ASSUME Types, Clock, NEW w \in Worker, SetStore(w)
    PROVE  Types' /\ Clock'
  <1> DEFINE op == worker[w]
             op2 == [op EXCEPT !.pc = "stored"]
  <1>1. op.pc = "set" /\ kv_set_meta(w[1], op.key, op.val, op.meta)
    BY Zenon DEF SetStore
  <1>2. UNCHANGED <<queue, stream, written>>
    BY Zenon DEF SetStore
  <1>3. op \in Op
    BY <1>1 DEF Types, Idle
  <1>4. op2 \in Op /\ op2.meta = op.meta /\ w[1] \in Node
    BY <1>3, WorkerNode, Zenon DEF Op
  <1>5. worker' = [worker EXCEPT ![w] = op2]
    BY Zenon DEF SetStore
  <1>6. op.key \in Key /\ op.val \in Nat /\ op.meta \in kv_meta_t
    BY <1>3, Zenon DEF Op
  <1>7. /\ store' \in [Node -> [Key -> Object \cup {NoObject}]]
        /\ db_version' \in [Node -> Nat]
        /\ \A m \in Node : db_version[m] <= db_version'[m]
        /\ \A m \in Node, k \in Key : store'[m][k] # NoObject =>
             store'[m][k].meta.version <= db_version'[m]
    BY <1>1, <1>4, <1>6, StoreStep, Zenon
  <1>8. op # Idle
    BY <1>1 DEF Idle
  <1> HIDE DEF op2
  <1>9. /\ worker' \in [Worker -> {Idle} \cup Op]
        /\ \A u \in Worker : worker'[u] = IF u = w THEN op2 ELSE worker[u]
    BY <1>4, <1>5, Zenon DEF Types
  <1>10. \A u \in Worker : worker'[u] # Idle => worker'[u].meta.version <= db_version'[u[1]]
    <2> SUFFICES ASSUME NEW u \in Worker, worker'[u] # Idle
                 PROVE  worker'[u].meta.version <= db_version'[u[1]]
      BY Zenon
    <2>1. worker[u] # Idle /\ worker'[u].meta = worker[u].meta
      BY <1>4, <1>8, <1>9, Zenon
    <2> QED
      BY <1>7, <2>1, WorkersStay, Zenon
  <1> QED
    BY <1>2, <1>7, <1>9, <1>10, QueuesStay, StreamsStay, Zenon DEF Types, Clock

(* kv_get_meta.                                                            *)
LEMMA ReadMetaStep ==
    ASSUME Types, Clock, NEW w \in Worker, SetReadMeta(w)
    PROVE  Types' /\ Clock'
  <1> DEFINE op == worker[w]
             obj == store[w[1]][op.key]
             op2 == IF obj = NoObject THEN Idle
                    ELSE [op EXCEPT !.pc = "read", !.meta = [obj.meta EXCEPT !.origin = w[1]]]
  <1>1. /\ op.pc = "stored" /\ worker' = [worker EXCEPT ![w] = op2]
        /\ UNCHANGED <<store, db_version, queue, stream, written>>
    BY Zenon DEF SetReadMeta
  <1>2. op \in Op /\ w[1] \in Node /\ w[1] \in Nat
    BY <1>1, WorkerNode, ReplicationAssumption DEF Types, Idle
  <1>3. op.key \in Key
    BY <1>2, Zenon DEF Op
  <1>4. obj # NoObject => /\ obj \in Object /\ obj.meta.version <= db_version[w[1]]
                          /\ obj.meta \in kv_meta_t
    BY <1>2, <1>3, ZenonT(30) DEF Types, Clock, Object
  <1>5. obj # NoObject => op2 \in Op /\ op2.meta.version = obj.meta.version
    BY <1>2, <1>4, ZenonT(30) DEF Op, kv_meta_t
  <1>6. op2 # Idle => op2 \in Op /\ op2.meta.version <= db_version[w[1]]
    BY <1>4, <1>5, Zenon
  <1> HIDE DEF op2
  <1>7. /\ worker' \in [Worker -> {Idle} \cup Op]
        /\ \A u \in Worker : worker'[u] = IF u = w THEN op2 ELSE worker[u]
    BY <1>1, <1>6, Zenon DEF Types
  <1>8. \A u \in Worker : worker'[u] # Idle => worker'[u].meta.version <= db_version'[u[1]]
    BY <1>1, <1>6, <1>7, Zenon DEF Clock
  <1> QED
    BY <1>1, <1>7, <1>8, Zenon DEF Types, Clock

(* cluster_replicate_set.                                                  *)
LEMMA EnqueueStep ==
    ASSUME Types, Clock, NEW w \in Worker, SetEnqueue(w)
    PROVE  Types' /\ Clock'
  <1> DEFINE op == worker[w]
             n == w[1]
             msg == [key |-> op.key, val |-> op.val, meta |-> op.meta]
  <1>1. /\ op.pc = "read" /\ worker' = [worker EXCEPT ![w] = Idle]
        /\ queue' = [queue EXCEPT ![n] = Append(queue[n], msg)]
        /\ UNCHANGED <<store, db_version, stream, written>>
    BY Zenon DEF SetEnqueue
  <1>2. op \in Op /\ op # Idle /\ n \in Node
    BY <1>1, WorkerNode DEF Types, Idle
  <1>3. msg \in Msg /\ msg.meta = op.meta
    BY <1>2, Zenon DEF Op, Msg
  <1>4. msg.meta.version <= db_version[n]
    BY <1>2, <1>3, Zenon DEF Clock
  <1> HIDE DEF msg
  <1>5. queue[n] \in Seq(Msg)
    BY <1>2, Zenon DEF Types
  <1>6. /\ queue' \in [Node -> Seq(Msg)]
        /\ \A m \in Node : queue'[m] = IF m = n THEN Append(queue[n], msg) ELSE queue[m]
    BY <1>1, <1>2, <1>3, <1>5, AppendElements, Zenon DEF Types
  <1>7. \A m \in Node : \A i \in 1 .. Len(queue'[m]) :
          queue'[m][i].meta.version <= db_version[m]
    <2> SUFFICES ASSUME NEW m \in Node, NEW i \in 1 .. Len(queue'[m])
                 PROVE  queue'[m][i].meta.version <= db_version[m]
      BY Zenon
    <2>1. CASE m = n
      <3>0. queue'[m] = Append(queue[n], msg)
        BY <1>6, <2>1, Zenon
      <3>1. queue'[m][i] = msg \/ \E j \in 1 .. Len(queue[n]) : queue'[m][i] = queue[n][j]
        <4>1. \A h \in 1 .. Len(Append(queue[n], msg)) : Append(queue[n], msg)[h] = msg
                \/ \E j \in 1 .. Len(queue[n]) : Append(queue[n], msg)[h] = queue[n][j]
          BY ONLY <1>3, <1>5, AppendElements
        <4> QED
          BY <3>0, <4>1, Zenon
      <3> QED
        BY <1>2, <1>4, <2>1, <3>1, Zenon DEF Clock
    <2>2. CASE m # n
      BY <1>6, <2>2, Zenon DEF Clock
    <2> QED
      BY <2>1, <2>2, Zenon
  <1>8. /\ worker' \in [Worker -> {Idle} \cup Op]
        /\ \A u \in Worker : worker'[u] # Idle => worker'[u].meta.version <= db_version[u[1]]
    BY <1>1, Zenon DEF Types, Clock
  <1> QED
    BY <1>1, <1>6, <1>7, <1>8, Zenon DEF Types, Clock

LEMMA DelStep ==
    ASSUME Types, Clock, NEW n \in Node, NEW key \in Key, Del(n, key)
    PROVE  Types' /\ Clock'
  <1>1. /\ store' = [store EXCEPT ![n][key] = NoObject]
        /\ UNCHANGED <<db_version, worker, queue, stream, written>>
    BY Zenon DEF Del
  <1>2. /\ store' \in [Node -> [Key -> Object \cup {NoObject}]]
        /\ \A m \in Node, k \in Key : store'[m][k] \in {NoObject, store[m][k]}
    BY <1>1, Zenon DEF Types
  <1>3. \A m \in Node, k \in Key : store'[m][k] # NoObject =>
          store'[m][k].meta.version <= db_version[m]
    BY <1>2, Zenon DEF Clock
  <1> QED
    BY <1>1, <1>2, <1>3, Zenon DEF Types, Clock

(* repl_thread.                                                            *)
LEMMA DispatchStep ==
    ASSUME Types, Clock, NEW n \in Node, Dispatch(n)
    PROVE  Types' /\ Clock'
  <1> DEFINE msg == Head(queue[n])
  <1>1. /\ queue[n] # <<>> /\ queue' = [queue EXCEPT ![n] = Tail(queue[n])]
        /\ UNCHANGED <<store, db_version, worker, written>>
    BY Zenon DEF Dispatch
  <1>2. queue[n] \in Seq(Msg)
    BY Zenon DEF Types
  <1>3. /\ msg \in Msg /\ Tail(queue[n]) \in Seq(Msg)
        /\ msg = queue[n][1] /\ 1 \in 1 .. Len(queue[n])
        /\ \A i \in 1 .. Len(Tail(queue[n])) :
             \E j \in 1 .. Len(queue[n]) : Tail(queue[n])[i] = queue[n][j]
    BY <1>1, <1>2, TailElements, Zenon
  <1>4. msg.meta.version <= db_version[n]
    BY <1>3, Zenon DEF Clock
  <1>5. stream' = [p \in Pair |->
          IF p[1] = n /\ up[p] THEN [stream[p] EXCEPT ![conn[p]] = Append(@, msg)]
          ELSE stream[p]]
    BY Zenon DEF Dispatch
  <1> HIDE DEF msg
  <1>6. /\ queue' \in [Node -> Seq(Msg)]
        /\ \A m \in Node : queue'[m] = IF m = n THEN Tail(queue[n]) ELSE queue[m]
    BY <1>1, <1>3, Zenon DEF Types
  <1>7. \A m \in Node : \A i \in 1 .. Len(queue'[m]) :
          queue'[m][i].meta.version <= db_version[m]
    <2> SUFFICES ASSUME NEW m \in Node, NEW i \in 1 .. Len(queue'[m])
                 PROVE  queue'[m][i].meta.version <= db_version[m]
      BY Zenon
    <2>1. \E j \in 1 .. Len(queue[m]) : queue'[m][i] = queue[m][j]
      BY <1>3, <1>6, Zenon
    <2> QED
      BY <2>1, Zenon DEF Clock
  <1>8. ASSUME NEW p \in Pair, NEW c \in Conn
        PROVE  stream'[p][c] = stream[p][c] \/ (p[1] = n /\ stream'[p][c] = Append(stream[p][c], msg))
    BY <1>5, Zenon DEF Types
  <1>9. ASSUME NEW p \in Pair
        PROVE  stream'[p] = [c \in Conn |-> stream'[p][c]]
    BY <1>5, Zenon DEF Types
  <1>10. ASSUME NEW p \in Pair, NEW c \in Conn
         PROVE  /\ stream[p][c] \in Seq(Msg) /\ stream'[p][c] \in Seq(Msg)
                /\ \A i \in 1 .. Len(stream'[p][c]) :
                     stream'[p][c][i].meta.version <= db_version[p[1]]
    <2>1. stream[p][c] \in Seq(Msg)
      BY Zenon DEF Types
    <2>2. CASE stream'[p][c] = stream[p][c]
      BY <2>1, <2>2, Zenon DEF Clock
    <2>3. CASE p[1] = n /\ stream'[p][c] = Append(stream[p][c], msg)
      <3>1. /\ Append(stream[p][c], msg) \in Seq(Msg)
            /\ \A i \in 1 .. Len(stream'[p][c]) : stream'[p][c][i] = msg
                 \/ \E j \in 1 .. Len(stream[p][c]) : stream'[p][c][i] = stream[p][c][j]
        <4>1. /\ Append(stream[p][c], msg) \in Seq(Msg)
              /\ \A i \in 1 .. Len(Append(stream[p][c], msg)) :
                   Append(stream[p][c], msg)[i] = msg
                   \/ \E j \in 1 .. Len(stream[p][c]) :
                        Append(stream[p][c], msg)[i] = stream[p][c][j]
          BY ONLY <1>3, <2>1, AppendElements
        <4> QED
          BY <2>3, <4>1, Zenon
      <3> QED
        BY <1>4, <2>1, <2>3, <3>1, Zenon DEF Clock
    <2> QED
      BY <1>8, <2>2, <2>3, Zenon
  <1>11. stream' \in [Pair -> [Conn -> Seq(Msg)]]
    <2>1. \A p \in Pair : stream'[p] \in [Conn -> Seq(Msg)]
      BY <1>9, <1>10, Zenon
    <2>2. stream' = [p \in Pair |-> stream'[p]]
      BY <1>5, Zenon
    <2> QED
      BY <2>1, <2>2, Zenon
  <1> QED
    BY <1>1, <1>6, <1>7, <1>10, <1>11, Zenon DEF Types, Clock

(* A step that only takes from a stream.                                   *)
LEMMA StreamShrinks ==
    ASSUME Types, Clock, db_version' \in [Node -> Nat],
           \A n \in Node : db_version[n] <= db_version'[n],
           NEW p \in Pair, NEW c, NEW s,
           c \in Conn => /\ s \in Seq(Msg)
                         /\ \A i \in 1 .. Len(s) : \E j \in 1 .. Len(stream[p][c]) :
                              s[i] = stream[p][c][j],
           stream' = [stream EXCEPT ![p][c] = s]
    PROVE  /\ stream' \in [Pair -> [Conn -> Seq(Msg)]]
           /\ \A q \in Pair, d \in Conn : \A i \in 1 .. Len(stream'[q][d]) :
                stream'[q][d][i].meta.version <= db_version'[q[1]]
  <1>1. stream' \in [Pair -> [Conn -> Seq(Msg)]]
    BY Zenon DEF Types
  <1>2. ASSUME NEW q \in Pair, NEW d \in Conn
        PROVE  stream'[q][d] = stream[q][d] \/ (q = p /\ d = c /\ stream'[q][d] = s)
    BY Zenon DEF Types
  <1>3. ASSUME NEW q \in Pair, NEW d \in Conn, NEW i \in 1 .. Len(stream'[q][d])
        PROVE  \E j \in 1 .. Len(stream[q][d]) : stream'[q][d][i] = stream[q][d][j]
    BY <1>2, <1>3, Zenon
  <1>4. ASSUME NEW q \in Pair, NEW d \in Conn, NEW i \in 1 .. Len(stream'[q][d])
        PROVE  stream'[q][d][i].meta.version <= db_version'[q[1]]
    <2>1. PICK j \in 1 .. Len(stream[q][d]) : stream'[q][d][i] = stream[q][d][j]
      BY <1>3
    <2>2. stream[q][d][j].meta.version <= db_version'[q[1]]
      BY StreamsStay, Zenon
    <2> QED
      BY <2>1, <2>2, Zenon
  <1> QED
    BY <1>1, <1>4, Zenon

(* handle_client: a SET message.                                           *)
LEMMA ApplyStep ==
    ASSUME Types, Clock, NEW p \in Pair, NEW c \in Conn, Apply(p, c)
    PROVE  Types' /\ Clock'
  <1> DEFINE msg == Head(stream[p][c])
  <1>1. /\ stream[p][c] # <<>> /\ kv_set_meta(p[2], msg.key, msg.val, msg.meta)
        /\ stream' = [stream EXCEPT ![p][c] = Tail(stream[p][c])]
        /\ UNCHANGED <<worker, queue, written>>
    BY Zenon DEF Apply
  <1>2. stream[p][c] \in Seq(Msg) /\ p[2] \in Node
    BY PairNodes, Zenon DEF Types
  <1>3. /\ msg \in Msg /\ Tail(stream[p][c]) \in Seq(Msg)
        /\ \A i \in 1 .. Len(Tail(stream[p][c])) :
             \E j \in 1 .. Len(stream[p][c]) : Tail(stream[p][c])[i] = stream[p][c][j]
    BY <1>1, <1>2, TailElements
  <1>4. msg.key \in Key /\ msg.val \in Nat /\ msg.meta \in kv_meta_t
    BY <1>3, Zenon DEF Msg
  <1>5. /\ store' \in [Node -> [Key -> Object \cup {NoObject}]]
        /\ db_version' \in [Node -> Nat]
        /\ \A m \in Node : db_version[m] <= db_version'[m]
        /\ \A m \in Node, k \in Key : store'[m][k] # NoObject =>
             store'[m][k].meta.version <= db_version'[m]
    BY <1>1, <1>2, <1>4, StoreStep, Zenon
  <1>6. /\ stream' \in [Pair -> [Conn -> Seq(Msg)]]
        /\ \A q \in Pair, d \in Conn : \A i \in 1 .. Len(stream'[q][d]) :
             stream'[q][d][i].meta.version <= db_version'[q[1]]
    BY <1>1, <1>3, <1>5, StreamShrinks, Zenon
  <1> QED
    BY <1>1, <1>5, <1>6, WorkersStay, QueuesStay, Zenon DEF Types, Clock

(* A connection breaks.                                                    *)
LEMMA DisconnectStep ==
    ASSUME Types, Clock, NEW p \in Pair, Disconnect(p)
    PROVE  Types' /\ Clock'
  <1> DEFINE c == conn[p]
  <1>1. PICK len \in 0 .. Len(stream[p][c]) :
          stream' = [stream EXCEPT ![p][c] = SubSeq(stream[p][c], 1, len)]
    BY Zenon DEF Disconnect
  <1>2. UNCHANGED <<store, db_version, worker, queue, written>>
    BY Zenon DEF Disconnect
  <1>3. ASSUME c \in Conn
        PROVE  /\ SubSeq(stream[p][c], 1, len) \in Seq(Msg)
               /\ \A i \in 1 .. Len(SubSeq(stream[p][c], 1, len)) :
                    \E j \in 1 .. Len(stream[p][c]) :
                      SubSeq(stream[p][c], 1, len)[i] = stream[p][c][j]
    <2>1. stream[p][c] \in Seq(Msg)
      BY <1>3, Zenon DEF Types
    <2> QED
      BY <2>1
  <1> HIDE DEF c
  <1>4. /\ stream' \in [Pair -> [Conn -> Seq(Msg)]]
        /\ \A q \in Pair, d \in Conn : \A i \in 1 .. Len(stream'[q][d]) :
             stream'[q][d][i].meta.version <= db_version'[q[1]]
    BY <1>1, <1>2, <1>3, Still, StreamShrinks, Zenon
  <1> QED
    BY <1>2, <1>4, Zenon DEF Types, Clock

LEMMA ClockStep == Types /\ Clock /\ [Next]_vars => Types' /\ Clock'
  <1> SUFFICES ASSUME Types, Clock, [Next]_vars PROVE Types' /\ Clock'
    BY Zenon
  <1>1. ASSUME NEW p \in Pair, Reconnect(p) PROVE Types' /\ Clock'
    BY <1>1, Zenon DEF Reconnect, Types, Clock
  <1>2. CASE UNCHANGED vars
    BY <1>2, Zenon DEF vars, Types, Clock
  <1> QED
    BY <1>1, <1>2, VersionStep, SetStoreStep, ReadMetaStep, EnqueueStep, DelStep,
       DispatchStep, ApplyStep, DisconnectStep, Zenon DEF Next, Work, Conn

-----------------------------------------------------------------------------
(* The invariant holds throughout.                                         *)
THEOREM ClockHolds == Spec => [](Types /\ Clock)
  BY ClockInit, ClockStep, PTL DEF Spec

(* db_version is a Lamport clock on a mesh of any size, with any number of *)
(* writers, deletions and lost connections (kv_next_version,               *)
(* kv_set_object, handle_client).                                          *)
THEOREM VersionIsClock == Spec => []ClockCovers
  <1>1. ASSUME Types, Clock PROVE ClockCovers
    <2>1. ASSUME NEW n \in Node, NEW msg \in Outgoing(n)
          PROVE  msg.meta.version <= db_version[n]
      <3>1. CASE msg \in {queue[n][i] : i \in 1 .. Len(queue[n])}
        BY <1>1, <3>1, Zenon DEF Clock
      <3>2. CASE \E p \in {q \in Pair : q[1] = n}, c \in Conn :
                   \E i \in 1 .. Len(stream[p][c]) : msg = stream[p][c][i]
        BY <1>1, <3>2, Zenon DEF Clock
      <3> QED
        BY <2>1, <3>1, <3>2 DEF Outgoing, Conn
    <2> QED
      BY <1>1, <2>1, Zenon DEF Clock, ClockCovers
  <1> QED
    BY <1>1, ClockHolds, PTL

(* A SET is newer than all its node holds, on a mesh of any size (kv_set). *)
THEOREM NewWritesAreNewest == Spec => NewWriteIsNewest
  <1> DEFINE Newest == Len(written') > Len(written) =>
               LET op == written'[Len(written')]
               IN  \A k \in Key : store[op.by[1]][k] # NoObject =>
                     op.version > store[op.by[1]][k].meta.version
  <1>1. ASSUME Types, Clock, [Next]_vars PROVE [Newest]_vars
    <2>1. ASSUME NEW w \in Worker, NEW key \in Key, SetVersion(w, key) PROVE Newest
      <3> DEFINE rec == [key |-> key, by |-> w, version |-> db_version[w[1]] + 1]
      <3>1. written' = Append(written, rec)
        BY <2>1, Zenon DEF SetVersion
      <3>2. written'[Len(written')] = rec
        BY <1>1, <3>1 DEF Types
      <3>3. ASSUME NEW k \in Key, store[w[1]][k] # NoObject
            PROVE  db_version[w[1]] + 1 > store[w[1]][k].meta.version
        <4>1. w[1] \in Node
          BY WorkerNode, Zenon
        <4>2. store[w[1]][k] \in Object /\ db_version[w[1]] \in Nat
          BY <1>1, <3>3, <4>1, Zenon DEF Types
        <4>3. /\ store[w[1]][k].meta.version \in Nat
              /\ store[w[1]][k].meta.version <= db_version[w[1]]
          BY <1>1, <3>3, <4>1, <4>2, Versions, Zenon DEF Clock
        <4> QED
          BY <4>2, <4>3
      <3> QED
        BY <3>2, <3>3
    <2>2. CASE UNCHANGED written
      BY <1>1, <2>2 DEF Types
    <2>3. (\E w \in Worker, key \in Key : SetVersion(w, key)) \/ UNCHANGED written
      BY <1>1, Zenon DEF Next, Work, SetStore, SetReadMeta, SetEnqueue, Del, Dispatch, Apply,
                         Disconnect, Reconnect, vars
    <2> QED
      BY <2>1, <2>2, <2>3, Zenon
  <1> QED
    BY <1>1, ClockHolds, PTL DEF Spec, NewWriteIsNewest

-----------------------------------------------------------------------------
(* One writer and no losses.                                               *)

(* obj is what key holds once the first a writes are stored.               *)
Holds(wr, obj, key, a) ==
    IF obj = NoObject THEN \A i \in 1 .. a : wr[i].key # key
    ELSE /\ obj.val \in 1 .. a /\ wr[obj.val].key = key
         /\ obj.meta.version = obj.val
         /\ \A i \in 1 .. a : wr[i].key = key => i <= obj.val

(* The messages of s are those of the writes that follow the first a.      *)
Run(wr, s, a) ==
    \A i \in 1 .. Len(s) : /\ s[i].val = a + i /\ s[i].meta.version = a + i
                           /\ s[i].key = wr[a + i].key

(* The writes that w has stored on its node and queued, that have left the *)
(* queue, and that the peer of p has applied.                              *)
Stored(w) == IF worker[w].pc = "set" THEN Len(written) - 1 ELSE Len(written)
Queued(w) == IF worker[w] = Idle THEN Len(written) ELSE Len(written) - 1
Gone(w) == Queued(w) - Len(queue[w[1]])
Applied(w, p) == Gone(w) - Len(stream[p][1])

(* w alone has written: its node, the queue, the streams and the other     *)
(* nodes hold the writes in their order, each where the one before it has  *)
(* left off.                                                               *)
Pipeline(w) ==
    /\ \A u \in Worker \ {w} : worker[u] = Idle
    /\ \A i \in 1 .. Len(written) : written[i].version = i
    /\ db_version[w[1]] = Len(written)
    /\ worker[w] # Idle =>
         /\ Len(written) > 0 /\ worker[w].val = Len(written)
         /\ worker[w].key = written[Len(written)].key
         /\ worker[w].meta.version = Len(written)
    /\ \A k \in Key : Holds(written, store[w[1]][k], k, Stored(w))
    /\ Gone(w) >= 0 /\ Run(written, queue[w[1]], Gone(w))
    /\ \A p \in Pair : p[1] = w[1] =>
         /\ Applied(w, p) >= 0 /\ Run(written, stream[p][1], Applied(w, p))
         /\ \A k \in Key : Holds(written, store[p[2]][k], k, Applied(w, p))
    /\ \A n \in Node \ {w[1]} : queue[n] = <<>>
    /\ \A p \in Pair, c \in Conn : p[1] # w[1] \/ c # 1 => stream[p][c] = <<>>

Fresh ==
    /\ \A w \in Worker : worker[w] = Idle
    /\ \A n \in Node : /\ queue[n] = <<>> /\ db_version[n] = 0
                       /\ \A k \in Key : store[n][k] = NoObject
    /\ \A p \in Pair, c \in Conn : stream[p][c] = <<>>

CalmInv ==
    Calm => IF written = <<>> THEN Fresh
            ELSE \E w \in Worker : written[1].by = w /\ Pipeline(w)


(* A link has had a connection.                                            *)
Links ==
    /\ conn \in [Pair -> Nat \ {0}] /\ up \in [Pair -> BOOLEAN] /\ dels \in Nat

-----------------------------------------------------------------------------
(* A member of written.                                                    *)
Write == [key : Key, by : Worker, version : Nat]

(* What a node holds and what is under way do not change with a new write. *)
LEMMA HoldsGrows ==
    ASSUME NEW wr \in Seq(Write), NEW x \in Write, NEW a \in Nat, a <= Len(wr),
           NEW obj, NEW k, Holds(wr, obj, k, a)
    PROVE  Holds(Append(wr, x), obj, k, a)
  <1>1. \A i \in 1 .. a : Append(wr, x)[i] = wr[i]
    OBVIOUS
  <1> QED
    BY <1>1, Zenon DEF Holds

LEMMA RunGrows ==
    ASSUME NEW wr \in Seq(Write), NEW x \in Write, NEW a \in Nat, NEW s \in Seq(Msg),
           a + Len(s) <= Len(wr), Run(wr, s, a)
    PROVE  Run(Append(wr, x), s, a)
  <1>1. \A i \in 1 .. Len(s) : Append(wr, x)[a + i] = wr[a + i]
    OBVIOUS
  <1> QED
    BY <1>1, Zenon DEF Run

(* The next write is stored: under its key, and what the others hold is    *)
(* still the latest.                                                       *)
LEMMA HoldsNext ==
    ASSUME NEW wr, NEW a \in Nat, NEW obj, NEW k, Holds(wr, obj, k, a)
    PROVE  /\ wr[a + 1].key # k => Holds(wr, obj, k, a + 1)
           /\ \A new : /\ new # NoObject /\ wr[a + 1].key = k
                       /\ new.val = a + 1 /\ new.meta.version = a + 1
                       => Holds(wr, new, k, a + 1)
  <1>1. \A i \in 1 .. (a + 1) : i \in 1 .. a \/ i = a + 1
    OBVIOUS
  <1>2. ASSUME wr[a + 1].key # k PROVE Holds(wr, obj, k, a + 1)
    <2>1. CASE obj = NoObject
      BY <1>1, <1>2, <2>1, Zenon DEF Holds
    <2>2. CASE obj # NoObject
      BY <1>1, <1>2, <2>2 DEF Holds
    <2> QED
      BY <2>1, <2>2, Zenon
  <1>3. ASSUME NEW new, new # NoObject, wr[a + 1].key = k,
               new.val = a + 1, new.meta.version = a + 1
        PROVE  Holds(wr, new, k, a + 1)
    BY <1>3 DEF Holds
  <1> QED
    BY <1>2, <1>3, Zenon

(* What a node holds for the key of the last write is that write.          *)
LEMMA HoldsLast ==
    ASSUME NEW wr, NEW a \in Nat, a > 0, NEW obj, Holds(wr, obj, wr[a].key, a)
    PROVE  obj # NoObject /\ obj.val = a /\ obj.meta.version = a
  BY DEF Holds

(* Two nodes that have stored the same writes hold the same.               *)
LEMMA HoldsSame ==
    ASSUME NEW wr, NEW a \in Nat, NEW k, NEW x, NEW y,
           Holds(wr, x, k, a), Holds(wr, y, k, a)
    PROVE  IF x = NoObject THEN y = NoObject ELSE y # NoObject /\ y.val = x.val
  <1>1. CASE x = NoObject
    BY <1>1, Zenon DEF Holds
  <1>2. CASE x # NoObject
    <2>1. y # NoObject
      BY <1>2, Zenon DEF Holds
    <2>2. y.val \in 1 .. a /\ x.val \in 1 .. a /\ y.val <= x.val /\ x.val <= y.val
      BY <1>2, <2>1, Zenon DEF Holds
    <2> QED
      BY <1>2, <2>1, <2>2
  <1> QED
    BY <1>1, <1>2, Zenon

(* A message is added to a run of messages, or taken from it.              *)
LEMMA RunAppend ==
    ASSUME NEW wr, NEW a \in Nat, NEW s \in Seq(Msg), NEW msg \in Msg,
           Run(wr, s, a), msg.val = a + Len(s) + 1, msg.meta.version = a + Len(s) + 1,
           msg.key = wr[a + Len(s) + 1].key
    PROVE  Run(wr, Append(s, msg), a) /\ Len(Append(s, msg)) = Len(s) + 1
  <1>1. ASSUME NEW i \in 1 .. Len(Append(s, msg))
        PROVE  \/ i \in 1 .. Len(s) /\ Append(s, msg)[i] = s[i]
               \/ i = Len(s) + 1 /\ Append(s, msg)[i] = msg
    OBVIOUS
  <1>2. ASSUME NEW i \in 1 .. Len(Append(s, msg))
        PROVE  /\ Append(s, msg)[i].val = a + i /\ Append(s, msg)[i].meta.version = a + i
               /\ Append(s, msg)[i].key = wr[a + i].key
    <2>1. CASE i \in 1 .. Len(s) /\ Append(s, msg)[i] = s[i]
      BY <2>1, Zenon DEF Run
    <2>2. CASE i = Len(s) + 1 /\ Append(s, msg)[i] = msg
      BY <2>2
    <2> QED
      BY <1>1, <2>1, <2>2, Zenon
  <1> QED
    BY <1>2 DEF Run

LEMMA RunTail ==
    ASSUME NEW wr, NEW a \in Nat, NEW s \in Seq(Msg), s # <<>>, Run(wr, s, a)
    PROVE  /\ Head(s).val = a + 1 /\ Head(s).meta.version = a + 1
           /\ Head(s).key = wr[a + 1].key
           /\ Run(wr, Tail(s), a + 1) /\ Len(Tail(s)) = Len(s) - 1 /\ Len(s) > 0
  <1>1. Head(s) = s[1] /\ 1 \in 1 .. Len(s) /\ Len(Tail(s)) = Len(s) - 1
    OBVIOUS
  <1>2. \A i \in 1 .. Len(Tail(s)) : Tail(s)[i] = s[i + 1] /\ i + 1 \in 1 .. Len(s)
    OBVIOUS
  <1> QED
    BY <1>1, <1>2 DEF Run

-----------------------------------------------------------------------------
(* The counts of a pipeline, and how they follow one another.              *)
LEMMA Counts ==
    ASSUME Types, NEW w \in Worker, Pipeline(w)
    PROVE  /\ w[1] \in Node /\ Len(written) \in Nat /\ queue[w[1]] \in Seq(Msg)
           /\ Stored(w) \in Nat /\ Stored(w) <= Len(written)
           /\ Gone(w) \in Nat /\ Gone(w) + Len(queue[w[1]]) = Queued(w)
           /\ Queued(w) <= Len(written)
           /\ 1 \in Conn
           /\ \A p \in Pair : p[1] = w[1] =>
                /\ stream[p][1] \in Seq(Msg)
                /\ Applied(w, p) \in Nat /\ Applied(w, p) + Len(stream[p][1]) = Gone(w)
  <1>1. w[1] \in Node /\ Len(written) \in Nat
    BY WorkerNode DEF Types
  <1>2. queue[w[1]] \in Seq(Msg)
    BY <1>1, Zenon DEF Types
  <1>3. worker[w] # Idle => Len(written) > 0
    BY Zenon DEF Pipeline
  <1>4. worker[w].pc = "set" => worker[w] # Idle
    BY DEF Idle
  <1>5. /\ Stored(w) \in Nat /\ Stored(w) <= Len(written)
        /\ Queued(w) \in Nat /\ Queued(w) <= Len(written)
    BY <1>1, <1>3, <1>4 DEF Stored, Queued
  <1>6. Gone(w) \in Nat /\ Gone(w) + Len(queue[w[1]]) = Queued(w)
    <2>1. Gone(w) = Queued(w) - Len(queue[w[1]]) /\ Gone(w) >= 0
      BY Zenon DEF Gone, Pipeline
    <2>2. Len(queue[w[1]]) \in Nat
      BY <1>2
    <2> DEFINE g == Gone(w)
               u == Queued(w)
               q == Len(queue[w[1]])
    <2>3. g = u - q /\ g >= 0 /\ q \in Nat /\ u \in Nat
      BY <1>5, <2>1, <2>2, Zenon
    <2> HIDE DEF g, u, q
    <2>4. g \in Nat /\ g + q = u
      BY <2>3
    <2> QED
      BY <2>4, Zenon DEF g, u, q
  <1>7. 1 \in Conn
    BY ReplicationAssumption DEF Conn
  <1>8. ASSUME NEW p \in Pair, p[1] = w[1]
        PROVE  /\ stream[p][1] \in Seq(Msg)
               /\ Applied(w, p) \in Nat /\ Applied(w, p) + Len(stream[p][1]) = Gone(w)
    <2>1. stream[p][1] \in Seq(Msg)
      BY <1>7, Zenon DEF Types
    <2>2. Applied(w, p) >= 0
      BY <1>8, Zenon DEF Pipeline
    <2>3. Len(stream[p][1]) \in Nat /\ Gone(w) \in Int
      BY <1>6, <2>1
    <2> HIDE DEF Pipeline
    <2>4. Applied(w, p) = Gone(w) - Len(stream[p][1])
      BY Zenon DEF Applied
    <2>5. Applied(w, p) \in Nat
      BY <2>2, <2>3, <2>4
    <2>6. Applied(w, p) + Len(stream[p][1]) = Gone(w)
      BY <2>3, <2>4
    <2> QED
      BY <2>1, <2>5, <2>6, Zenon
  <1> QED
    BY <1>1, <1>2, <1>5, <1>6, <1>7, <1>8, Zenon

(* Before the first write any worker may be the one that writes.           *)
LEMMA FreshPipeline ==
    ASSUME Types, written = <<>>, Fresh, NEW w \in Worker
    PROVE  Pipeline(w)
  <1>1. w[1] \in Node /\ 1 \in Conn /\ Len(written) = 0
    BY WorkerNode, ReplicationAssumption DEF Conn
  <1>2. /\ worker[w] = Idle /\ queue[w[1]] = <<>> /\ db_version[w[1]] = 0
        /\ \A p \in Pair, c \in Conn : stream[p][c] = <<>>
        /\ \A n \in Node : \A k \in Key : store[n][k] = NoObject
    BY <1>1, Zenon DEF Fresh
  <1>3. Stored(w) = 0 /\ Queued(w) = 0
    BY <1>1, <1>2 DEF Stored, Queued, Idle
  <1>4. Len(queue[w[1]]) = 0 /\ Gone(w) = Queued(w) - Len(queue[w[1]])
    BY <1>2, Zenon DEF Gone
  <1>5. Gone(w) = 0
    BY <1>3, <1>4
  <1>9. \A p \in Pair : Applied(w, p) = 0 /\ stream[p][1] = <<>>
    <2> SUFFICES ASSUME NEW p \in Pair PROVE Applied(w, p) = 0 /\ stream[p][1] = <<>>
      BY Zenon
    <2>1. stream[p][1] = <<>>
      BY <1>1, <1>2, Zenon
    <2>2. Len(stream[p][1]) = 0 /\ Applied(w, p) = Gone(w) - Len(stream[p][1])
      BY <2>1, Zenon DEF Applied
    <2> QED
      BY <1>5, <2>1, <2>2
  <1>6. \A n \in Node : \A k \in Key : Holds(written, store[n][k], k, 0)
    BY <1>2 DEF Holds
  <1>7. Run(written, <<>>, 0)
    BY DEF Run
  <1>8. \A p \in Pair : p[2] \in Node
    BY PairNodes, Zenon
  <1> QED
    BY <1>1, <1>2, <1>3, <1>5, <1>6, <1>7, <1>8, <1>9 DEF Pipeline, Fresh

(* kv_set takes a version.                                                 *)
LEMMA PipeVersion ==
    ASSUME Types, Types', NEW w \in Worker, NEW key \in Key, Pipeline(w), SetVersion(w, key)
    PROVE  Pipeline(w)'
  <1> DEFINE L == Len(written)
             v == db_version[w[1]] + 1
             op == [pc |-> "set", key |-> key, val |-> L + 1,
                    meta |-> [version |-> v, wallclock |-> L + 1, origin |-> 0]]
             rec == [key |-> key, by |-> w, version |-> v]
  <1>1. /\ worker[w].pc = "idle" /\ db_version' = [db_version EXCEPT ![w[1]] = v]
        /\ worker' = [worker EXCEPT ![w] = op] /\ written' = Append(written, rec)
        /\ UNCHANGED <<store, queue, stream>>
    BY Zenon DEF SetVersion
  <1>2. worker[w] = Idle
    BY <1>1, Zenon DEF Types, Op
  <1>0. L \in Nat /\ w[1] \in Node /\ db_version[w[1]] = L /\ written \in Seq(Write)
    BY Counts, Zenon DEF Pipeline, Write, Types
  <1>3. v = L + 1 /\ L \in Nat /\ rec \in Write /\ written \in Seq(Write) /\ w[1] \in Node
    BY <1>0 DEF Write
  <1>4. /\ Len(written') = L + 1 /\ written'[L + 1] = rec
        /\ \A i \in 1 .. L : written'[i] = written[i]
    BY <1>1, <1>3
  <1>5. worker'[w] = op /\ \A u \in Worker \ {w} : worker'[u] = worker[u]
    BY <1>1, Zenon DEF Types
  <1>6. /\ Stored(w) = L /\ Queued(w) = L /\ Stored(w)' = L /\ Queued(w)' = L
    BY <1>1, <1>2, <1>3, <1>4, <1>5 DEF Stored, Queued, Idle
  <1>7. /\ Gone(w)' = Gone(w) /\ \A p \in Pair : Applied(w, p)' = Applied(w, p)
    BY <1>1, <1>6, Zenon DEF Gone, Applied
  <1>8. \A k \in Key : Holds(written', store'[w[1]][k], k, Stored(w)')
    BY <1>1, <1>3, <1>6, HoldsGrows DEF Pipeline
  <1>9. Run(written', queue'[w[1]], Gone(w)')
    BY <1>1, <1>3, <1>6, <1>7, Counts, RunGrows, ZenonT(30) DEF Pipeline
  <1>10. ASSUME NEW p \in Pair, p[1] = w[1]
         PROVE  /\ Applied(w, p)' >= 0 /\ Run(written', stream'[p][1], Applied(w, p)')
                /\ \A k \in Key : Holds(written', store'[p[2]][k], k, Applied(w, p)')
    <2>1. /\ stream[p][1] \in Seq(Msg) /\ Applied(w, p) \in Nat
          /\ Applied(w, p) + Len(stream[p][1]) <= L /\ Applied(w, p) <= L
      <3>1. /\ stream[p][1] \in Seq(Msg) /\ Applied(w, p) \in Nat
            /\ Applied(w, p) + Len(stream[p][1]) = Gone(w)
            /\ Gone(w) + Len(queue[w[1]]) = L /\ queue[w[1]] \in Seq(Msg)
        BY <1>6, <1>10, Counts, Zenon
      <3> DEFINE x == Applied(w, p)
                 y == Len(stream[p][1])
                 q == Len(queue[w[1]])
      <3>2. x \in Nat /\ y \in Nat /\ q \in Nat /\ (x + y) + q = L
        <4>1. y \in Nat /\ q \in Nat
          BY <3>1
        <4> QED
          BY <3>1, <4>1, Zenon
      <3> HIDE DEF x, y, q, L
      <3>3. x + y <= L /\ x <= L
        BY <1>3, <3>2
      <3> QED
        BY <3>1, <3>3, Zenon DEF x, y
    <2>2. /\ Run(written, stream[p][1], Applied(w, p))
          /\ \A k \in Key : Holds(written, store[p[2]][k], k, Applied(w, p))
      BY <1>10, Zenon DEF Pipeline
    <2>3. Run(Append(written, rec), stream[p][1], Applied(w, p))
      BY <1>3, <2>1, <2>2, RunGrows, Zenon
    <2>4. \A k \in Key : Holds(Append(written, rec), store[p[2]][k], k, Applied(w, p))
      BY <1>3, <2>1, <2>2, HoldsGrows, Zenon
    <2> QED
      BY <1>1, <1>7, <2>1, <2>3, <2>4
  <1>11. /\ op # Idle /\ op.val = L + 1 /\ op.key = key /\ op.meta.version = v
         /\ rec.key = key /\ rec.version = v
    BY Zenon DEF Idle
  <1>12. \A i \in 1 .. Len(written') : written'[i].version = i
    BY <1>3, <1>4, <1>11, SMTT(30) DEF Pipeline
  <1>13. db_version'[w[1]] = Len(written')
    BY <1>1, <1>3, <1>4, Zenon DEF Types
  <1>14. Gone(w)' >= 0
    BY <1>7, Zenon DEF Pipeline
  <1> HIDE DEF op, rec, v, L
  <1>15. \A u \in Worker \ {w} : worker'[u] = Idle
    BY <1>5, Zenon DEF Pipeline
  <1>16. /\ Len(written') > 0 /\ worker'[w].val = Len(written')
         /\ worker'[w].key = written'[Len(written')].key
         /\ worker'[w].meta.version = Len(written')
    BY <1>3, <1>4, <1>5, <1>11, SMTT(30)
  <1>17. /\ \A n \in Node \ {w[1]} : queue'[n] = <<>>
         /\ \A p \in Pair, c \in Conn : p[1] # w[1] \/ c # 1 => stream'[p][c] = <<>>
    BY <1>1, Zenon DEF Pipeline
  <1> QED
    BY <1>8, <1>9, <1>10, <1>12, <1>13, <1>14, <1>15, <1>16, <1>17, Zenon DEF Pipeline

(* What the queue, the streams and the other nodes hold.                   *)
Sent(w) ==
    /\ Gone(w) >= 0 /\ Run(written, queue[w[1]], Gone(w))
    /\ \A p \in Pair : p[1] = w[1] =>
         /\ Applied(w, p) >= 0 /\ Run(written, stream[p][1], Applied(w, p))
         /\ \A k \in Key : Holds(written, store[p[2]][k], k, Applied(w, p))
    /\ \A n \in Node \ {w[1]} : queue[n] = <<>>
    /\ \A p \in Pair, c \in Conn : p[1] # w[1] \/ c # 1 => stream[p][c] = <<>>

LEMMA SentStays ==
    ASSUME Types, NEW w \in Worker, Pipeline(w), UNCHANGED <<written, queue, stream>>,
           Queued(w)' = Queued(w), \A m \in Node \ {w[1]} : store'[m] = store[m]
    PROVE  Sent(w)'
  <1>1. Gone(w)' = Gone(w) /\ \A p \in Pair : Applied(w, p)' = Applied(w, p)
    BY Zenon DEF Gone, Applied
  <1>2. \A p \in Pair : p[1] = w[1] => p[2] \in Node \ {w[1]}
    BY Zenon DEF Pair
  <1>3. \A p \in Pair : p[1] = w[1] => store'[p[2]] = store[p[2]]
    BY <1>2, Zenon
  <1> QED
    BY <1>1, <1>3, Zenon DEF Pipeline, Sent

(* The rest of kv_set.                                                     *)
LEMMA PipeStore ==
    ASSUME Types, Types', NEW w \in Worker, Pipeline(w), SetStore(w)
    PROVE  /\ Pipeline(w)'
           /\ \A n \in Node, k \in Key :
                \/ store'[n][k] = store[n][k]
                \/ store[n][k] = NoObject
                \/ store[n][k].meta.version < store'[n][k].meta.version
  <1> DEFINE L == Len(written)
             n == w[1]
             op == worker[w]
             obj == [val |-> op.val, meta |-> op.meta]
  <1>1. op.pc = "set" /\ UNCHANGED <<queue, stream, written>>
    BY Zenon DEF SetStore
  <1>2. op \in Op /\ op # Idle
    BY <1>1, SMTT(30) DEF Types, Idle
  <1>3. /\ L \in Nat /\ L > 0 /\ op.val = L /\ op.key = written[L].key
        /\ op.meta.version = L /\ n \in Node /\ op.key \in Key
    BY <1>2, Counts, Zenon DEF Pipeline, Op
  <1>4. obj \in Object /\ obj # NoObject /\ obj.val = L /\ obj.meta.version = L
    BY <1>2, <1>3, ReplicationAssumption DEF Op, Object
  <1>5. worker'[w] = [op EXCEPT !.pc = "stored"] /\ \A u \in Worker \ {w} : worker'[u] = worker[u]
    BY Zenon DEF SetStore, Types
  <1>6. /\ worker'[w].pc = "stored" /\ worker'[w].val = op.val
        /\ worker'[w].key = op.key /\ worker'[w].meta = op.meta
    BY <1>2, <1>5, Zenon DEF Op
  <1>7. worker'[w] # Idle
    BY <1>6 DEF Idle
  <1>8. Stored(w) = L - 1 /\ Stored(w)' = L /\ Queued(w)' = Queued(w)
    BY <1>1, <1>2, <1>6, <1>7, Zenon DEF Stored, Queued
  <1>9. store' = [store EXCEPT ![n][op.key] = obj]
    BY Zenon DEF SetStore, kv_set_meta
  <1>10. db_version'[n] = L
    BY <1>3, Zenon DEF SetStore, kv_set_meta, Greatest, Types, Pipeline
  <1> HIDE DEF obj, op, L
  <1>11. /\ store'[n][op.key] = obj
         /\ \A m \in Node, k \in Key : m # n \/ k # op.key => store'[m][k] = store[m][k]
    BY <1>3, <1>9, Zenon DEF Types
  <1>12. \A m \in Node \ {n} : store'[m] = store[m]
    BY <1>9, Zenon DEF Types
  <1>13. \A k \in Key : Holds(written, store[n][k], k, L - 1)
    BY <1>8, Zenon DEF Pipeline
  <1>14. ASSUME NEW k \in Key PROVE Holds(written, store'[n][k], k, L)
    <2>1. L - 1 \in Nat /\ (L - 1) + 1 = L
      BY <1>3
    <2>2. CASE k = op.key
      BY <1>3, <1>4, <1>11, <1>13, <2>1, <2>2, HoldsNext
    <2>3. CASE k # op.key
      <3>1. Holds(written, store[n][k], k, L - 1) /\ store'[n][k] = store[n][k]
        BY <1>3, <1>11, <1>13, <2>3, Zenon
      <3>2. written[(L - 1) + 1].key # k
        BY <1>3, <2>1, <2>3, Zenon
      <3> QED
        BY <2>1, <3>1, <3>2, HoldsNext, Zenon
    <2> QED
      BY <2>2, <2>3, Zenon
  <1>15. Sent(w)'
    BY <1>1, <1>8, <1>12, SentStays, Zenon
  <1>16. Pipeline(w)'
    <2>1. \A u \in Worker \ {w} : worker'[u] = Idle
      BY <1>5, Zenon DEF Pipeline
    <2>2. \A i \in 1 .. Len(written') : written'[i].version = i
      BY <1>1, Zenon DEF Pipeline
    <2>3. /\ Len(written') = L /\ written'[L].key = op.key
          /\ \A k \in Key : Holds(written', store'[w[1]][k], k, Stored(w)')
      BY <1>1, <1>3, <1>8, <1>14, Zenon DEF L
    <2> QED
      BY <1>3, <1>6, <1>10, <1>15, <2>1, <2>2, <2>3, Zenon DEF Pipeline, Sent
  <1>17. ASSUME NEW m \in Node, NEW k \in Key
         PROVE  \/ store'[m][k] = store[m][k] \/ store[m][k] = NoObject
                \/ store[m][k].meta.version < store'[m][k].meta.version
    <2>1. CASE m # n \/ k # op.key
      BY <1>11, <2>1, Zenon
    <2>2. CASE m = n /\ k = op.key /\ store[m][k] # NoObject
      <3>1. store[n][k].meta.version \in 1 .. (L - 1)
        BY <1>13, <2>2, Zenon DEF Holds
      <3> QED
        BY <1>3, <1>4, <1>11, <2>2, <3>1
    <2> QED
      BY <2>1, <2>2, Zenon
  <1> QED
    BY <1>16, <1>17, Zenon

(* kv_get_meta: the key holds what the worker has just stored.             *)
LEMMA PipeRead ==
    ASSUME Types, Types', NEW w \in Worker, Pipeline(w), SetReadMeta(w)
    PROVE  Pipeline(w)' /\ UNCHANGED store
  <1> DEFINE L == Len(written)
             n == w[1]
             op == worker[w]
             obj == store[n][op.key]
  <1>1. /\ op.pc = "stored" /\ UNCHANGED <<store, db_version, queue, stream, written>>
    BY Zenon DEF SetReadMeta
  <1>2. op \in Op /\ op # Idle
    BY <1>1, SMTT(30) DEF Types, Idle
  <1>3. /\ L \in Nat /\ L > 0 /\ op.val = L /\ op.key = written[L].key
        /\ op.meta.version = L /\ n \in Node /\ op.key \in Key /\ Stored(w) = L
    BY <1>1, <1>2, Counts, Zenon DEF Pipeline, Op, Stored
  <1>4. Holds(written, obj, op.key, L)
    BY <1>3, Zenon DEF Pipeline
  <1>5. obj # NoObject /\ obj.meta.version = L
    <2> HIDE DEF L, obj, op
    <2>1. Holds(written, obj, written[L].key, L)
      BY <1>3, <1>4, Zenon
    <2> QED
      BY <1>3, <2>1, HoldsLast, Zenon
  <1>6. obj \in Object
    <2>1. store[n] \in [Key -> Object \cup {NoObject}]
      BY <1>3, Zenon DEF Types
    <2> QED
      BY <1>3, <1>5, <2>1, Zenon
  <1>7. /\ worker'[w] = [op EXCEPT !.pc = "read", !.meta = [obj.meta EXCEPT !.origin = n]]
        /\ \A u \in Worker \ {w} : worker'[u] = worker[u]
    BY <1>5, Zenon DEF SetReadMeta, Types
  <1>8. /\ worker'[w].pc = "read" /\ worker'[w].val = L
        /\ worker'[w].key = op.key /\ worker'[w].meta.version = L
    BY <1>2, <1>3, <1>5, <1>6, <1>7, Zenon DEF Op, Object, kv_meta_t
  <1>9. worker'[w] # Idle
    BY <1>8 DEF Idle
  <1>10. Stored(w)' = L /\ Queued(w)' = Queued(w)
    BY <1>1, <1>2, <1>8, <1>9, Zenon DEF Stored, Queued
  <1>11. Sent(w)'
    BY <1>1, <1>10, SentStays, Zenon
  <1> HIDE DEF op, obj
  <1>12. /\ \A u \in Worker \ {w} : worker'[u] = Idle
         /\ \A i \in 1 .. Len(written') : written'[i].version = i
         /\ db_version'[n] = L /\ Len(written') = L
         /\ \A k \in Key : Holds(written', store'[n][k], k, Stored(w)')
    BY <1>1, <1>3, <1>7, <1>10, SMTT(30) DEF Pipeline
  <1> QED
    BY <1>1, <1>3, <1>8, <1>11, <1>12, Zenon DEF Pipeline, Sent

(* cluster_replicate_set: the message of the last write is queued.         *)
LEMMA PipeEnqueue ==
    ASSUME Types, Types', NEW w \in Worker, Pipeline(w), SetEnqueue(w)
    PROVE  Pipeline(w)' /\ UNCHANGED store
  <1> DEFINE L == Len(written)
             n == w[1]
             op == worker[w]
             msg == [key |-> op.key, val |-> op.val, meta |-> op.meta]
             s == queue[n]
  <1>1. /\ op.pc = "read" /\ worker' = [worker EXCEPT ![w] = Idle]
        /\ queue' = [queue EXCEPT ![n] = Append(s, msg)]
        /\ UNCHANGED <<store, db_version, stream, written>>
    BY Zenon DEF SetEnqueue
  <1>2. op \in Op /\ op # Idle
    BY <1>1, SMTT(30) DEF Types, Idle
  <1>3. /\ L \in Nat /\ L > 0 /\ op.val = L /\ op.key = written[L].key
        /\ op.meta.version = L /\ n \in Node
    BY <1>2, Counts, Zenon DEF Pipeline
  <1>4. msg \in Msg /\ msg.val = L /\ msg.meta.version = L /\ msg.key = written[L].key
    BY <1>2, <1>3, Zenon DEF Op, Msg
  <1>5. /\ worker'[w] = Idle /\ \A u \in Worker \ {w} : worker'[u] = worker[u]
    BY <1>1, Zenon DEF Types
  <1>6. /\ Stored(w) = L /\ Stored(w)' = L /\ Queued(w) = L - 1 /\ Queued(w)' = L
    BY <1>1, <1>2, <1>5 DEF Stored, Queued, Idle
  <1> HIDE DEF op, msg, L
  <1>7. queue'[n] = Append(s, msg) /\ \A m \in Node \ {n} : queue'[m] = queue[m]
    BY <1>1, <1>3, Zenon DEF Types
  <1>8. s \in Seq(Msg) /\ Gone(w) \in Nat /\ Gone(w) + Len(s) = L - 1
    BY <1>6, Counts, Zenon
  <1>9. Len(s) \in Nat /\ Len(Append(s, msg)) = Len(s) + 1 /\ Gone(w) + Len(s) + 1 = L
    BY <1>3, <1>4, <1>8
  <1>10. Gone(w)' = Gone(w)
    <2>1. Gone(w)' = Queued(w)' - Len(queue'[n])
      BY Zenon DEF Gone
    <2>2. Gone(w)' = L - (Len(s) + 1)
      BY <1>6, <1>7, <1>9, <2>1, Zenon
    <2> HIDE DEF s
    <2> QED
      BY <1>3, <1>8, <1>9, <2>2
  <1>11. Run(written, s, Gone(w))
    BY Zenon DEF Pipeline
  <1>12. Run(written, Append(s, msg), Gone(w))
    BY <1>4, <1>8, <1>9, <1>11, RunAppend, ZenonT(30)
  <1>13. \A p \in Pair : Applied(w, p)' = Applied(w, p)
    BY <1>1, <1>10, Zenon DEF Applied
  <1>14. Sent(w)'
    BY <1>1, <1>7, <1>10, <1>12, <1>13, Zenon DEF Pipeline, Sent
  <1>15. /\ \A u \in Worker \ {w} : worker'[u] = Idle
         /\ \A i \in 1 .. Len(written') : written'[i].version = i
         /\ db_version'[n] = Len(written') /\ worker'[w] = Idle
         /\ \A k \in Key : Holds(written', store'[n][k], k, Stored(w)')
    BY <1>1, <1>5, <1>6, Zenon DEF Pipeline
  <1> QED
    BY <1>1, <1>14, <1>15, Zenon DEF Pipeline, Sent

(* repl_thread: the first message of the queue is the next one of every    *)
(* stream.                                                                 *)
LEMMA PipeDispatch ==
    ASSUME Types, Types', Calm, NEW w \in Worker, NEW n \in Node, Pipeline(w), Dispatch(n)
    PROVE  Pipeline(w)' /\ UNCHANGED store
  <1> DEFINE s == queue[n]
             msg == Head(s)
             g == Gone(w)
  <1>1. /\ s # <<>> /\ queue' = [queue EXCEPT ![n] = Tail(s)]
        /\ UNCHANGED <<store, db_version, worker, written>>
    BY Zenon DEF Dispatch
  <1>2. n = w[1]
    BY <1>1, Zenon DEF Pipeline
  <1>3. s \in Seq(Msg) /\ g \in Nat /\ g + Len(s) = Queued(w) /\ 1 \in Conn
    BY <1>2, Counts, Zenon
  <1>4. /\ msg.val = g + 1 /\ msg.meta.version = g + 1 /\ msg.key = written[g + 1].key
        /\ Run(written, Tail(s), g + 1) /\ Len(Tail(s)) = Len(s) - 1 /\ Len(s) > 0
    <2>1. Run(written, s, g)
      BY <1>2, Zenon DEF Pipeline
    <2> HIDE DEF s, g
    <2> QED
      BY <1>1, <1>3, <2>1, RunTail, SMTT(30)
  <1>5. msg \in Msg
    BY <1>1, <1>3, TailElements, Zenon
  <1>6. /\ queue'[n] = Tail(s) /\ \A m \in Node \ {n} : queue'[m] = queue[m]
    BY <1>1, Zenon DEF Types
  <1>7. Queued(w)' = Queued(w) /\ Stored(w)' = Stored(w)
    BY <1>1, Zenon DEF Queued, Stored
  <1>8. Gone(w)' = g + 1
    <2>1. Gone(w)' = Queued(w)' - Len(queue'[n]) /\ Len(s) \in Nat
      BY <1>2, <1>3 DEF Gone
    <2> QED
      BY <1>3, <1>4, <1>6, <1>7, <2>1
  <1>9. \A p \in Pair : up[p] /\ conn[p] = 1
    BY Zenon DEF Calm
  <1>10. /\ \A p \in Pair : p[1] = n => stream'[p][1] = Append(stream[p][1], msg)
         /\ \A p \in Pair, c \in Conn : p[1] # n \/ c # 1 => stream'[p][c] = stream[p][c]
    BY <1>3, <1>9, Zenon DEF Dispatch, Types
  <1> HIDE DEF msg, s, g
  <1>11. ASSUME NEW p \in Pair, p[1] = n
         PROVE  /\ Applied(w, p)' >= 0 /\ Run(written, stream'[p][1], Applied(w, p)')
                /\ \A k \in Key : Holds(written, store[p[2]][k], k, Applied(w, p)')
    <2> DEFINE t == stream[p][1]
               a == Applied(w, p)
    <2>1. t \in Seq(Msg) /\ a \in Nat /\ a + Len(t) = g
      BY <1>2, <1>11, Counts, Zenon DEF g
    <2>2. Run(written, t, a) /\ \A k \in Key : Holds(written, store[p[2]][k], k, a)
      BY <1>2, <1>11, Zenon DEF Pipeline
    <2>3. Applied(w, p)' = Gone(w)' - Len(stream'[p][1]) /\ stream'[p][1] = Append(t, msg)
      BY <1>10, <1>11, Zenon DEF Applied
    <2> HIDE DEF t, a
    <2>4. Run(written, Append(t, msg), a) /\ Len(Append(t, msg)) = Len(t) + 1
      BY <1>4, <1>5, <2>1, <2>2, RunAppend, Zenon
    <2>5. Len(t) \in Nat
      BY <2>1
    <2>6. Applied(w, p)' = a
      <3>1. Applied(w, p)' = Gone(w)' - (Len(t) + 1)
        BY <2>3, <2>4, Zenon
      <3> QED
        BY <1>3, <1>8, <2>1, <2>5, <3>1
    <2> QED
      BY <2>1, <2>2, <2>3, <2>4, <2>6
  <1>12. Sent(w)'
    <2>1. Gone(w)' >= 0 /\ Run(written', queue'[w[1]], Gone(w)')
      <3>1. g + 1 >= 0
        BY <1>3
      <3>2. Run(written', queue'[w[1]], g + 1)
        BY <1>1, <1>2, <1>4, <1>6, Zenon
      <3> QED
        BY <1>8, <3>1, <3>2, Zenon
    <2>2. /\ \A m \in Node \ {w[1]} : queue'[m] = <<>>
          /\ \A p \in Pair, c \in Conn : p[1] # w[1] \/ c # 1 => stream'[p][c] = <<>>
      BY <1>2, <1>6, <1>10, Zenon DEF Pipeline
    <2> QED
      BY <1>1, <1>2, <1>11, <2>1, <2>2, Zenon DEF Sent
  <1>13. /\ \A u \in Worker \ {w} : worker'[u] = Idle
         /\ \A i \in 1 .. Len(written') : written'[i].version = i
         /\ db_version'[w[1]] = Len(written')
         /\ worker'[w] # Idle =>
              /\ Len(written') > 0 /\ worker'[w].val = Len(written')
              /\ worker'[w].key = written'[Len(written')].key
              /\ worker'[w].meta.version = Len(written')
         /\ \A k \in Key : Holds(written', store'[w[1]][k], k, Stored(w)')
    BY <1>1, <1>7, ZenonT(30) DEF Pipeline
  <1> QED
    BY <1>1, <1>12, <1>13, ZenonT(30) DEF Pipeline, Sent

(* handle_client: the next message of a stream is the next write.          *)
LEMMA PipeApply ==
    ASSUME Types, Types', NEW w \in Worker, NEW p \in Pair, NEW c \in Conn,
           Pipeline(w), Apply(p, c)
    PROVE  /\ Pipeline(w)'
           /\ \A n \in Node, k \in Key :
                \/ store'[n][k] = store[n][k]
                \/ store[n][k] = NoObject
                \/ store[n][k].meta.version < store'[n][k].meta.version
  <1> DEFINE s == stream[p][1]
             msg == Head(s)
             a == Applied(w, p)
             r == p[2]
             obj == [val |-> msg.val, meta |-> msg.meta]
  <1>1. p[1] = w[1] /\ c = 1
    BY Zenon DEF Apply, Pipeline
  <1>2. /\ s # <<>> /\ stream' = [stream EXCEPT ![p][1] = Tail(s)]
        /\ store' = [store EXCEPT ![r][msg.key] = obj]
        /\ db_version' = [db_version EXCEPT ![r] = Greatest(db_version[r], msg.meta.version)]
        /\ UNCHANGED <<worker, queue, written>>
    BY <1>1, Zenon DEF Apply, kv_set_meta
  <1>3. s \in Seq(Msg) /\ a \in Nat /\ a + Len(s) = Gone(w)
    BY <1>1, Counts, Zenon
  <1>4. /\ msg.val = a + 1 /\ msg.meta.version = a + 1 /\ msg.key = written[a + 1].key
        /\ Run(written, Tail(s), a + 1) /\ Len(Tail(s)) = Len(s) - 1 /\ Len(s) > 0
    <2>1. Run(written, s, a)
      BY <1>1, Zenon DEF Pipeline
    <2>2. s # <<>> /\ s \in Seq(Msg) /\ a \in Nat
      BY <1>2, <1>3, Zenon
    <2> HIDE DEF s, a
    <2> QED
      BY <2>1, <2>2, RunTail, SMTT(30)
  <1>5. msg \in Msg
    BY <1>2, <1>3, TailElements, Zenon
  <1>6. /\ msg.key \in Key /\ obj \in Object /\ obj # NoObject
        /\ obj.val = a + 1 /\ obj.meta.version = a + 1
    <2> HIDE DEF msg, a
    <2>1. msg.key \in Key /\ msg.val \in Nat /\ msg.meta \in kv_meta_t
      BY <1>5, Zenon DEF Msg
    <2>2. obj \in [val : Nat, meta : kv_meta_t]
      BY <2>1, Zenon
    <2>3. obj \in Object /\ obj # NoObject
      BY <2>2, ReplicationAssumption, Zenon DEF Object
    <2>4. obj.val = msg.val /\ obj.meta = msg.meta
      BY Zenon
    <2> QED
      BY <1>4, <2>1, <2>3, <2>4, Zenon
  <1>7. r \in Node /\ r # w[1] /\ w[1] \in Node
    BY <1>1, WorkerNode, Zenon DEF Pair
  <1>8. Queued(w)' = Queued(w) /\ Stored(w)' = Stored(w) /\ Gone(w)' = Gone(w)
    BY <1>2, Zenon DEF Queued, Stored, Gone
  <1>9. /\ stream'[p][1] = Tail(s)
        /\ \A q \in Pair, d \in Conn : q # p \/ d # 1 => stream'[q][d] = stream[q][d]
    BY <1>1, <1>2, ZenonT(30) DEF Types
  <1> HIDE DEF obj, a, msg, s
  <1>10. /\ store'[r][msg.key] = obj
         /\ \A m \in Node, k \in Key : m # r \/ k # msg.key => store'[m][k] = store[m][k]
         /\ \A m \in Node : m # r => store'[m] = store[m]
    BY <1>2, <1>6, <1>7, Zenon DEF Types
  <1>11. db_version'[w[1]] = db_version[w[1]]
    BY <1>2, <1>7, Zenon DEF Types
  <1>12. \A k \in Key : Holds(written, store[r][k], k, a)
    BY <1>1, Zenon DEF Pipeline, a
  <1>13. ASSUME NEW k \in Key PROVE Holds(written, store'[r][k], k, a + 1)
    <2>1. CASE k = msg.key
      BY <1>3, <1>4, <1>6, <1>10, <1>12, <2>1, HoldsNext, Zenon
    <2>2. CASE k # msg.key
      BY <1>3, <1>4, <1>7, <1>10, <1>12, <2>2, HoldsNext, Zenon
    <2> QED
      BY <2>1, <2>2, Zenon
  <1>14. Applied(w, p)' = a + 1
    <2>1. Applied(w, p)' = Gone(w)' - Len(stream'[p][1]) /\ Len(s) \in Nat
      BY <1>3, SMTT(30) DEF Applied
    <2> QED
      BY <1>3, <1>4, <1>8, <1>9, <2>1
  <1>15. ASSUME NEW q \in Pair, q[1] = w[1]
         PROVE  /\ Applied(w, q)' >= 0 /\ Run(written, stream'[q][1], Applied(w, q)')
                /\ \A k \in Key : Holds(written, store'[q[2]][k], k, Applied(w, q)')
    <2>1. CASE q = p
      <3>1. a + 1 >= 0
        BY <1>3, SMTT(30)
      <3>2. /\ Run(written, stream'[p][1], a + 1)
            /\ \A k \in Key : Holds(written, store'[r][k], k, a + 1)
        BY <1>4, <1>9, <1>13, Zenon
      <3> QED
        BY <1>14, <2>1, <3>1, <3>2, Zenon
    <2>2. CASE q # p
      <3>1. q[2] \in Node /\ q[2] # r
        BY <1>1, <1>15, <2>2 DEF Pair
      <3>2. store'[q[2]] = store[q[2]] /\ stream'[q][1] = stream[q][1]
        BY <1>1, <1>9, <1>10, <2>2, <3>1, Zenon
      <3>3. Applied(w, q)' = Applied(w, q)
        BY <1>8, <3>2, Zenon DEF Applied
      <3> QED
        BY <1>15, <3>2, <3>3, Zenon DEF Pipeline
    <2> QED
      BY <2>1, <2>2, Zenon
  <1>16. Sent(w)'
    <2>1. Gone(w)' >= 0 /\ Run(written', queue'[w[1]], Gone(w)')
      BY <1>2, <1>8, Zenon DEF Pipeline
    <2>2. /\ \A m \in Node \ {w[1]} : queue'[m] = <<>>
          /\ \A q \in Pair, d \in Conn : q[1] # w[1] \/ d # 1 => stream'[q][d] = <<>>
      BY <1>1, <1>2, <1>9 DEF Pipeline
    <2> QED
      BY <1>2, <1>15, <2>1, <2>2, Zenon DEF Sent
  <1>17. /\ \A u \in Worker \ {w} : worker'[u] = Idle
         /\ \A i \in 1 .. Len(written') : written'[i].version = i
         /\ db_version'[w[1]] = Len(written')
         /\ worker'[w] # Idle =>
              /\ Len(written') > 0 /\ worker'[w].val = Len(written')
              /\ worker'[w].key = written'[Len(written')].key
              /\ worker'[w].meta.version = Len(written')
         /\ \A k \in Key : Holds(written', store'[w[1]][k], k, Stored(w)')
    BY <1>2, <1>7, <1>8, <1>10, <1>11, Zenon DEF Pipeline
  <1>18. Pipeline(w)'
    BY <1>16, <1>17, Zenon DEF Pipeline, Sent
  <1>19. ASSUME NEW m \in Node, NEW k \in Key
         PROVE  \/ store'[m][k] = store[m][k] \/ store[m][k] = NoObject
                \/ store[m][k].meta.version < store'[m][k].meta.version
    <2>1. CASE m # r \/ k # msg.key
      BY <1>10, <2>1, Zenon
    <2>2. CASE m = r /\ k = msg.key /\ store[m][k] # NoObject
      <3>1. store[r][k].meta.version \in 1 .. a
        BY <1>12, <2>2, Zenon DEF Holds
      <3> QED
        BY <1>3, <1>6, <1>10, <2>2, <3>1, SMTT(30)
    <2> QED
      BY <2>1, <2>2, Zenon
  <1> QED
    BY <1>18, <1>19, Zenon

-----------------------------------------------------------------------------
LEMMA CalmInit == Init => Links /\ CalmInv
  <1> SUFFICES ASSUME Init PROVE Links /\ CalmInv
    BY Zenon
  <1>1. Links
    BY DEF Init, Links
  <1>2. Fresh /\ written = <<>>
    BY WorkerNode, Zenon DEF Init, Fresh, Conn
  <1> QED
    BY <1>1, <1>2, Zenon DEF CalmInv

LEMMA LinksStep == Links /\ [Next]_vars => Links'
  <1> SUFFICES ASSUME Links, [Next]_vars PROVE Links'
    BY Zenon
  <1>1. ASSUME NEW n \in Node, NEW key \in Key, Del(n, key) PROVE Links'
    BY <1>1 DEF Del, Links
  <1>2. ASSUME NEW p \in Pair, Disconnect(p) PROVE Links'
    BY <1>2, Zenon DEF Disconnect, Links
  <1>3. ASSUME NEW p \in Pair, Reconnect(p) PROVE Links'
    BY <1>3 DEF Reconnect, Links
  <1>4. CASE UNCHANGED <<conn, up, dels>>
    BY <1>4, Zenon DEF Links
  <1>5. \/ UNCHANGED <<conn, up, dels>>
        \/ \E n \in Node, key \in Key : Del(n, key)
        \/ \E p \in Pair : Disconnect(p) \/ Reconnect(p)
    BY Zenon DEF Next, Work, SetVersion, SetStore, SetReadMeta, SetEnqueue, Dispatch, Apply, vars
  <1> QED
    BY <1>1, <1>2, <1>3, <1>4, <1>5, Zenon

(* A step that ends in a calm state began in one: no deletion, no loss and *)
(* no second writer is ever forgotten.                                     *)
LEMMA CalmBack ==
    ASSUME Types, Links, [Next]_vars, Calm'
    PROVE  /\ Calm
           /\ \/ UNCHANGED vars
              \/ \E w \in Worker : Work(w) \/ \E key \in Key : SetVersion(w, key)
              \/ \E n \in Node : Dispatch(n)
              \/ \E p \in Pair, c \in Conn : Apply(p, c)
  <1>1. ASSUME NEW n \in Node, NEW key \in Key, Del(n, key) PROVE FALSE
    BY <1>1 DEF Del, Links, Calm
  <1>2. ASSUME NEW p \in Pair, Disconnect(p) PROVE FALSE
    BY <1>2, Zenon DEF Disconnect, Links, Calm
  <1>3. ASSUME NEW p \in Pair, Reconnect(p) PROVE FALSE
    <2>1. conn'[p] = conn[p] + 1 /\ conn[p] \in Nat \ {0} /\ conn'[p] = 1
      BY <1>3, Zenon DEF Reconnect, Links, Calm
    <2> QED
      BY <2>1
  <1>4. \/ UNCHANGED vars
        \/ \E w \in Worker : Work(w) \/ \E key \in Key : SetVersion(w, key)
        \/ \E n \in Node : Dispatch(n)
        \/ \E p \in Pair, c \in Conn : Apply(p, c)
    BY <1>1, <1>2, <1>3, Zenon DEF Next, Conn
  <1>5. UNCHANGED <<conn, up, dels>>
    BY <1>4, Zenon DEF Work, SetVersion, SetStore, SetReadMeta, SetEnqueue, Dispatch, Apply, vars
  <1>6. \/ UNCHANGED written
        \/ \E w \in Worker, key \in Key : SetVersion(w, key)
    BY <1>4, Zenon DEF Work, SetStore, SetReadMeta, SetEnqueue, Dispatch, Apply, vars
  <1>7. Len(written) \in Nat /\ Len(written') >= Len(written)
        /\ \A i \in 1 .. Len(written) : written'[i] = written[i]
    <2>1. CASE UNCHANGED written
      BY <2>1 DEF Types
    <2>2. ASSUME NEW w \in Worker, NEW key \in Key, SetVersion(w, key)
          PROVE  Len(written) \in Nat /\ Len(written') >= Len(written)
                 /\ \A i \in 1 .. Len(written) : written'[i] = written[i]
      <3>1. PICK x : x \in Write /\ written' = Append(written, x)
        <4>1. db_version[w[1]] + 1 \in Nat
          BY WorkerNode DEF Types
        <4> QED
          BY <2>2, <4>1, Zenon DEF SetVersion, Write
      <3>2. written \in Seq(Write)
        BY Zenon DEF Types, Write
      <3> QED
        BY <3>1, <3>2, SMTT(30)
    <2> QED
      BY <1>6, <2>1, <2>2, Zenon
  <1>8. ASSUME NEW i \in 1 .. Len(written), NEW j \in 1 .. Len(written)
        PROVE  written[i].by = written[j].by
    <2>1. Len(written') \in Nat /\ i \in 1 .. Len(written') /\ j \in 1 .. Len(written')
      <3>1. Len(written') \in Nat
        BY <1>6, <1>7 DEF SetVersion, Types
      <3> QED
        BY <1>7, <3>1
    <2>2. written'[i].by = written'[j].by
      BY <2>1, Zenon DEF Calm
    <2> QED
      BY <1>7, <2>2, Zenon
  <1> QED
    BY <1>4, <1>5, <1>8, Zenon DEF Calm

(* An object is only replaced by a newer one.                              *)
Newer ==
    \A n \in Node, k \in Key :
      \/ store'[n][k] = store[n][k]
      \/ store[n][k] = NoObject
      \/ store[n][k].meta.version < store'[n][k].meta.version

(* A calm step of the writer's pipeline.                                   *)
LEMMA PipeStep ==
    ASSUME Types, Types', Calm, NEW w \in Worker, Pipeline(w),
           \/ UNCHANGED vars
           \/ \E u \in Worker : Work(u)
           \/ \E key \in Key : SetVersion(w, key)
           \/ \E n \in Node : Dispatch(n)
           \/ \E p \in Pair, c \in Conn : Apply(p, c)
    PROVE  Pipeline(w)' /\ Newer
  <1>1. CASE UNCHANGED vars
    BY <1>1, Zenon DEF vars, Pipeline, Newer, Stored, Queued, Gone, Applied
  <1>2. ASSUME NEW u \in Worker, Work(u) PROVE Pipeline(w)' /\ Newer
    <2>1. worker[u].pc # "idle"
      BY <1>2, Zenon DEF Work, SetStore, SetReadMeta, SetEnqueue
    <2>2. u = w
      <3>1. worker[u] = Idle => worker[u].pc = "idle"
        BY DEF Idle
      <3> QED
        BY <2>1, <3>1, Zenon DEF Pipeline
    <2>3. Newer \/ store' = store
      BY <1>2, <2>2, PipeStore, Zenon DEF Work, SetReadMeta, SetEnqueue, Newer
    <2>4. Pipeline(w)'
      BY <1>2, <2>2, PipeStore, PipeRead, PipeEnqueue, Zenon DEF Work
    <2> QED
      BY <2>3, <2>4, Zenon DEF Newer
  <1>3. ASSUME NEW key \in Key, SetVersion(w, key) PROVE Pipeline(w)' /\ Newer
    <2>1. store' = store
      BY <1>3, Zenon DEF SetVersion
    <2> QED
      BY <1>3, <2>1, PipeVersion, Zenon DEF Newer
  <1>4. ASSUME NEW n \in Node, Dispatch(n) PROVE Pipeline(w)' /\ Newer
    <2>1. store' = store
      BY <1>4, Zenon DEF Dispatch
    <2> QED
      BY <1>4, <2>1, PipeDispatch, Zenon DEF Newer
  <1>5. ASSUME NEW p \in Pair, NEW c \in Conn, Apply(p, c) PROVE Pipeline(w)' /\ Newer
    BY <1>5, PipeApply, Zenon DEF Newer
  <1> QED
    BY <1>1, <1>2, <1>3, <1>4, <1>5, Zenon

LEMMA CalmStep ==
    ASSUME Types, Types', Links, CalmInv, [Next]_vars
    PROVE  CalmInv' /\ (Calm' => Newer)
  <1> SUFFICES ASSUME Calm'
               PROVE  /\ IF written' = <<>> THEN Fresh'
                         ELSE \E w \in Worker : written'[1].by = w /\ Pipeline(w)'
                      /\ Newer
    BY Zenon DEF CalmInv
  <1>1. /\ Calm
        /\ \/ UNCHANGED vars
           \/ \E w \in Worker : Work(w) \/ \E key \in Key : SetVersion(w, key)
           \/ \E n \in Node : Dispatch(n)
           \/ \E p \in Pair, c \in Conn : Apply(p, c)
    BY CalmBack, Zenon
  <1>2. written \in Seq(Write)
    BY Zenon DEF Types, Write
  <1>3. CASE UNCHANGED vars
    <2>1. UNCHANGED <<store, db_version, worker, queue, stream, written>>
      BY <1>3, Zenon DEF vars
    <2>2. CASE written = <<>>
      BY <1>1, <2>1, <2>2, Zenon DEF CalmInv, Fresh, Newer
    <2>3. CASE written # <<>>
      <3>1. PICK w \in Worker : written[1].by = w /\ Pipeline(w)
        BY <1>1, <2>3, Zenon DEF CalmInv
      <3> QED
        BY <1>1, <1>3, <2>1, <2>3, <3>1, PipeStep, Zenon
    <2> QED
      BY <2>2, <2>3, Zenon
  <1>4. ASSUME NEW w \in Worker, NEW key \in Key, SetVersion(w, key)
        PROVE  /\ written' # <<>> /\ written'[1].by = w
               /\ Pipeline(w)' /\ Newer
    <2> DEFINE rec == [key |-> key, by |-> w, version |-> db_version[w[1]] + 1]
    <2>1. written' = Append(written, rec) /\ rec \in Write /\ rec.by = w
      <3>1. db_version[w[1]] + 1 \in Nat
        BY WorkerNode DEF Types
      <3> QED
        BY <1>4, <3>1, Zenon DEF SetVersion, Write
    <2> HIDE DEF rec
    <2>2. /\ written' # <<>> /\ Len(written') \in 1 .. Len(written') /\ 1 \in 1 .. Len(written')
          /\ written'[Len(written')] = rec
          /\ written # <<>> => written'[1] = written[1]
      BY <1>2, <2>1
    <2>3. written'[1].by = written'[Len(written')].by
      BY <2>2, Zenon DEF Calm
    <2>4. written'[1].by = w
      BY <2>1, <2>2, <2>3, Zenon
    <2>5. Pipeline(w)
      <3>1. CASE written = <<>>
        BY <1>1, <3>1, FreshPipeline, Zenon DEF CalmInv
      <3>2. CASE written # <<>>
        BY <1>1, <2>2, <2>4, <3>2, Zenon DEF CalmInv
      <3> QED
        BY <3>1, <3>2, Zenon
    <2> QED
      BY <1>1, <1>4, <2>2, <2>4, <2>5, PipeStep, ZenonT(30)
  <1>5. ASSUME \/ \E w \in Worker : Work(w)
               \/ \E n \in Node : Dispatch(n)
               \/ \E p \in Pair, c \in Conn : Apply(p, c)
        PROVE  /\ written' # <<>> /\ Newer
               /\ \E w \in Worker : written'[1].by = w /\ Pipeline(w)'
    <2>1. written' = written
      BY <1>5, Zenon DEF Work, SetStore, SetReadMeta, SetEnqueue, Dispatch, Apply
    <2>2. written # <<>>
      <3> SUFFICES ASSUME written = <<>> PROVE FALSE
        BY Zenon
      <3>1. Fresh
        BY <1>1, Zenon DEF CalmInv
      <3>2. ASSUME NEW w \in Worker, Work(w) PROVE FALSE
        BY <3>1, <3>2 DEF Fresh, Work, SetStore, SetReadMeta, SetEnqueue, Idle
      <3> QED
        BY <1>5, <3>1, <3>2, Zenon DEF Fresh, Dispatch, Apply
    <2>3. PICK w \in Worker : written[1].by = w /\ Pipeline(w)
      BY <1>1, <2>2, Zenon DEF CalmInv
    <2>4. Pipeline(w)' /\ Newer
      BY <1>1, <1>5, <2>3, PipeStep, Zenon
    <2> QED
      BY <2>1, <2>2, <2>3, <2>4, Zenon
  <1>6. CASE \E w \in Worker, key \in Key : SetVersion(w, key)
    BY <1>4, <1>6, Zenon
  <1> QED
    BY <1>1, <1>3, <1>5, <1>6, Zenon

(* The invariant holds throughout.                                         *)
THEOREM CalmHolds == Spec => [](Types /\ Links /\ CalmInv)
  <1>1. Types /\ Links /\ CalmInv /\ Clock /\ [Next]_vars => Links' /\ CalmInv'
    BY ClockStep, LinksStep, CalmStep, Zenon
  <1> QED
    BY <1>1, ClockHolds, CalmInit, PTL DEF Spec

(* With one writer and no loss every object is replaced by a newer one, on *)
(* every node of a mesh of any size (kv_set_object).                       *)
THEOREM LastWriteStays == Spec => LastWriteWins
  <1> DEFINE Wins == Calm' =>
               \A n \in Node, k \in Key :
                 store[n][k] # NoObject /\ store'[n][k] # NoObject =>
                   ~meta_gt(store[n][k].meta, store'[n][k].meta)
  <1>1. ASSUME Types, Types', Links, CalmInv, [Next]_vars PROVE Wins
    <2> SUFFICES ASSUME Calm', NEW n \in Node, NEW k \in Key,
                        store[n][k] # NoObject, store'[n][k] # NoObject
                 PROVE  ~meta_gt(store[n][k].meta, store'[n][k].meta)
      BY Zenon
    <2>1. \/ store'[n][k] = store[n][k]
          \/ store[n][k].meta.version < store'[n][k].meta.version
      BY <1>1, CalmStep, Zenon DEF Newer
    <2>2. store[n][k] \in Object /\ store'[n][k] \in Object
      BY <1>1 DEF Types
    <2>3. store[n][k].meta \in kv_meta_t /\ store'[n][k].meta \in kv_meta_t
      BY <2>2, Zenon DEF Object
    <2> QED
      BY <2>1, <2>3 DEF meta_gt, kv_meta_t
  <1>2. Wins => [Wins]_vars
    BY Zenon
  <1> QED
    BY <1>1, <1>2, CalmHolds, PTL DEF Spec, LastWriteWins

(* What is under way on a calm mesh: the messages of the writes, each with *)
(* the version that write was given (the read-back in SET).                *)
THEOREM MessagesKeepVersions == Spec => []CarriesOwnVersion
  <1>1. ASSUME Types, CalmInv PROVE CarriesOwnVersion
    <2> SUFFICES ASSUME Calm, NEW n \in Node, NEW msg \in Outgoing(n)
                 PROVE  msg.meta.version = written[msg.val].version
      BY Zenon DEF CarriesOwnVersion
    <2>1. \/ \E i \in 1 .. Len(queue[n]) : msg = queue[n][i]
          \/ \E p \in Pair, c \in Conn : /\ p[1] = n
                                        /\ \E i \in 1 .. Len(stream[p][c]) : msg = stream[p][c][i]
      BY DEF Outgoing, Conn
    <2>2. written # <<>>
      <3> SUFFICES ASSUME written = <<>> PROVE FALSE
        BY Zenon
      <3>1. Fresh
        BY <1>1, Zenon DEF CalmInv
      <3>2. queue[n] = <<>> /\ \A p \in Pair, c \in Conn : stream[p][c] = <<>>
        BY <3>1, Zenon DEF Fresh
      <3> QED
        BY <2>1, <3>2
    <2>3. PICK w \in Worker : Pipeline(w)
      BY <1>1, <2>2, Zenon DEF CalmInv
    <2>4. /\ \A m \in Node : m # w[1] => queue[m] = <<>>
          /\ \A p \in Pair, c \in Conn : p[1] # w[1] \/ c # 1 => stream[p][c] = <<>>
      BY <2>3, Zenon DEF Pipeline
    <2>5. ASSUME NEW a \in Nat, NEW s \in Seq(Msg), a + Len(s) <= Len(written),
                 Run(written, s, a), NEW i \in 1 .. Len(s), msg = s[i]
          PROVE  msg.meta.version = written[msg.val].version
      <3>1. Len(s) \in Nat /\ Len(written) \in Nat
        BY <1>1, <2>5 DEF Types
      <3>2. a + i \in 1 .. Len(written) /\ msg.val = a + i /\ msg.meta.version = a + i
        BY <2>5, <3>1 DEF Run
      <3> QED
        BY <2>3, <3>2, Zenon DEF Pipeline
    <2>6. /\ queue[w[1]] \in Seq(Msg) /\ Len(written) \in Nat
          /\ Gone(w) \in Nat /\ Gone(w) + Len(queue[w[1]]) <= Len(written)
          /\ Run(written, queue[w[1]], Gone(w))
      BY <1>1, <2>3, Counts, ZenonT(30) DEF Pipeline
    <2>7. CASE \E i \in 1 .. Len(queue[n]) : msg = queue[n][i]
      <3>1. n = w[1]
        BY <2>4, <2>7, SMTT(30)
      <3> QED
        BY <2>5, <2>6, <2>7, <3>1, Zenon
    <2>8. ASSUME NEW p \in Pair, NEW c \in Conn, p[1] = n,
                 NEW i \in 1 .. Len(stream[p][c]), msg = stream[p][c][i]
          PROVE  msg.meta.version = written[msg.val].version
      <3>1. p[1] = w[1] /\ c = 1
        BY <2>4, <2>8
      <3>2. /\ stream[p][1] \in Seq(Msg) /\ Applied(w, p) \in Nat
            /\ Applied(w, p) + Len(stream[p][1]) = Gone(w)
            /\ Run(written, stream[p][1], Applied(w, p))
        BY <1>1, <2>3, <3>1, Counts, Zenon DEF Pipeline
      <3>3. Len(queue[w[1]]) \in Nat
        BY <2>6
      <3>4. Gone(w) <= Len(written)
        BY <2>6, <3>3
      <3> QED
        BY <2>5, <2>8, <3>1, <3>2, <3>4, Zenon
    <2> QED
      BY <2>1, <2>7, <2>8, Zenon
  <1> QED
    BY <1>1, CalmHolds, PTL

(* Once a calm mesh is at rest every node has stored every write, in order *)
(* (SET, repl_thread, handle_client): they hold the same.                  *)
THEOREM NodesAgree == Spec => []Agreement
  <1>1. ASSUME Types, CalmInv PROVE Agreement
    <2> SUFFICES ASSUME Calm, Quiescent, NEW m \in Node, NEW n \in Node, NEW k \in Key
                 PROVE  IF store[m][k] = NoObject THEN store[n][k] = NoObject
                        ELSE store[n][k] # NoObject /\ store[n][k].val = store[m][k].val
      BY Zenon DEF Agreement
    <2>1. CASE written = <<>>
      BY <1>1, <2>1, Zenon DEF CalmInv, Fresh
    <2>2. CASE written # <<>>
      <3>1. PICK w \in Worker : Pipeline(w)
        BY <1>1, <2>2, Zenon DEF CalmInv
      <3>2. /\ w[1] \in Node /\ Len(written) \in Nat /\ queue[w[1]] \in Seq(Msg)
            /\ Gone(w) + Len(queue[w[1]]) = Queued(w) /\ Gone(w) \in Nat /\ 1 \in Conn
        BY <1>1, <3>1, Counts, Zenon
      <3>3. worker[w] = Idle /\ Outgoing(w[1]) = {}
        BY <3>2, Zenon DEF Quiescent
      <3>4. Stored(w) = Len(written) /\ Queued(w) = Len(written)
        BY <3>3 DEF Stored, Queued, Idle
      <3>5. /\ ~\E i \in 1 .. Len(queue[w[1]]) : TRUE
            /\ \A p \in Pair : p[1] = w[1] => ~\E i \in 1 .. Len(stream[p][1]) : TRUE
        <4>1. \A i \in 1 .. Len(queue[w[1]]) : queue[w[1]][i] \in Outgoing(w[1])
          BY DEF Outgoing
        <4>2. ASSUME NEW p \in Pair, p[1] = w[1], NEW i \in 1 .. Len(stream[p][1])
              PROVE  stream[p][1][i] \in Outgoing(w[1])
          <5> DEFINE T == {stream[p][1][h] : h \in 1 .. Len(stream[p][1])}
                     U == {{stream[q][c][h] : h \in 1 .. Len(stream[q][c])} :
                             q \in {r \in Pair : r[1] = w[1]}, c \in 1 .. MaxConns}
          <5>1. T \in U
            BY <3>2, <4>2 DEF Conn
          <5>2. stream[p][1][i] \in T
            BY <4>2, Zenon
          <5>3. UNION U \subseteq Outgoing(w[1])
            BY DEF Outgoing
          <5> HIDE DEF T, U
          <5> QED
            BY <5>1, <5>2, <5>3, Zenon
        <4> QED
          BY <3>3, <4>1, <4>2, Zenon
      <3>6. Gone(w) = Len(written)
        <4>1. Len(queue[w[1]]) = 0
          BY <3>2, <3>5
        <4> QED
          BY <3>2, <3>4, <4>1
      <3>7. ASSUME NEW r \in Node PROVE Holds(written, store[r][k], k, Len(written))
        <4>1. CASE r = w[1]
          BY <3>1, <3>4, <4>1, ZenonT(30) DEF Pipeline
        <4>2. CASE r # w[1]
          <5>1. <<w[1], r>> \in Pair
            BY <3>2, <4>2, Zenon DEF Pair
          <5> DEFINE p == <<w[1], r>>
          <5>2. p \in Pair /\ p[1] = w[1] /\ p[2] = r
            BY <5>1, Zenon
          <5> HIDE DEF p
          <5>3. /\ stream[p][1] \in Seq(Msg) /\ Applied(w, p) \in Nat
                /\ Applied(w, p) + Len(stream[p][1]) = Gone(w)
            BY <1>1, <3>1, <5>2, Counts, Zenon
          <5>4. Len(stream[p][1]) = 0
            BY <3>5, <5>2, <5>3
          <5>5. Applied(w, p) = Len(written)
            BY <3>6, <5>3, <5>4
          <5> QED
            BY <3>1, <5>2, <5>5, Zenon DEF Pipeline
        <4> QED
          BY <4>1, <4>2, Zenon
      <3> QED
        BY <3>2, <3>7, HoldsSame
    <2> QED
      BY <2>1, <2>2, Zenon
  <1> QED
    BY <1>1, CalmHolds, PTL

-----------------------------------------------------------------------------
(***************************************************************************)
(* Proofs about PeerLink, for every set of descriptors and every delay.    *)
(*                                                                         *)
(* The ownership of descriptors rests on who may connect: main connects    *)
(* once, so as long as it has not finished, hb_thread finds its own out_fd *)
(* still closed; after that, hb_thread may find main's, once.              *)
(***************************************************************************)

Pc == {"test", "connect", "set", "send", "write", "fail", "sleep", "sweep",
       "rest", "done"}
HandlerPc == {"none", "accepted", "joined", "clear"}

LinkTypeOK ==
    /\ out_fd \in Fd \cup {-1} /\ in_fd \in Fd \cup {-1}
    /\ alive \in BOOLEAN /\ age \in Nat
    /\ fds \in [Fd -> {"free", "out", "broken", "in"}]
    /\ thread \in [Thread -> [pc : Pc, fd : Fd \cup {-1}]]
    /\ handler \in [Handler -> [pc : HandlerPc, fd : Fd \cup {-1}]]
    /\ peer_up \in BOOLEAN /\ quiet \in Nat /\ pending \in Nat \cup {-1}
    /\ lag \in Nat /\ faults \in Nat

(* Who is where, and with an open descriptor of which kind.                *)
HasFd(t) == thread[t].pc = "set" => thread[t].fd \in OutFds \ {out_fd}

Held ==
    /\ thread["main"].pc \in {"test", "connect", "set", "done"}
    /\ thread["repl"].pc \in {"rest", "write", "fail"}
    /\ thread["hb"].pc \notin {"rest", "done"}
    /\ \A t \in Thread : HasFd(t)
    /\ \A t \in Thread : thread[t].pc = "write" => thread[t].fd \in Fd
    /\ thread["main"].pc = "set" /\ thread["hb"].pc = "set" =>
         thread["main"].fd # thread["hb"].fd

HbConnects == thread["hb"].pc \in {"connect", "set"}

Handlers ==
    /\ \A h \in Handler : handler[h].pc \in {"accepted", "joined"} =>
         handler[h].fd \in Fd /\ fds[handler[h].fd] = "in"
    /\ \A g, h \in Handler :
         handler[g].pc \in {"accepted", "joined"} /\
         handler[h].pc \in {"accepted", "joined"} => g = h

Owned ==
    /\ OutFdOwned
    /\ Held
    /\ HbConnects /\ thread["main"].pc # "done" => out_fd = -1
    /\ HbConnects /\ out_fd # -1 => Lost = {}

(* The age of a peer that is heard of.                                     *)
Timely ==
    /\ JoinedHandlers = {} => pending = -1
    /\ Heard => /\ quiet <= Gap /\ pending <= MaxWait
                /\ age <= IF pending = -1 THEN quiet ELSE Gap + pending

-----------------------------------------------------------------------------
USE DEF Thread, Handler, Pc, HandlerPc, At, With

(* Where a thread is after connect_peer, before and after cluster_send.    *)
Connected(t) == IF t = "main" THEN At("done") ELSE At("send")
Sends(t) == IF t = "hb" THEN "send" ELSE "rest"
AfterSend(t) == IF t = "hb" THEN At("sweep") ELSE At("rest")

(* The steps, one by one.                                                  *)
LEMMA Steps ==
    ASSUME [LinkNext]_linkvars
    PROVE  \/ \E t \in {"main", "hb"} :
                Test(t, Connected(t)) \/ Connect(t, Connected(t)) \/ Set(t, Connected(t))
           \/ \E t \in {"hb", "repl"} :
                ReadOutFd(t, Sends(t), AfterSend(t)) \/ WriteMsg(t, AfterSend(t)) \/ SendFailed(t, AfterSend(t))
           \/ Sweep
           \/ \E h \in Handler :
                Accept(h) \/ register_incoming_fd(h) \/ Heartbeat(h) \/ Close(h) \/ Clear(h)
           \/ \E f \in Fd : Break(f)
           \/ Arrive \/ PeerCrash \/ PeerRestart \/ Tick
           \/ UNCHANGED linkvars
  <1>1. Connected("main") = At("done") /\ Connected("hb") = At("send")
    BY Zenon DEF Connected
  <1>2. /\ Sends("hb") = "send" /\ AfterSend("hb") = At("sweep")
        /\ Sends("repl") = "rest" /\ AfterSend("repl") = At("rest")
    BY Zenon DEF Sends, AfterSend
  <1> HIDE DEF At
  <1> QED
    BY <1>1, <1>2, Zenon DEF LinkNext, main_thread, hb_thread, repl_thread, connect_peer, cluster_send

LEMMA TypeInit == LinkInit => LinkTypeOK
  <1> SUFFICES ASSUME LinkInit PROVE LinkTypeOK
    BY Zenon
  <1>1. \A t \in Thread : thread[t] \in [pc : Pc, fd : Fd \cup {-1}]
    BY Zenon DEF LinkInit
  <1>2. thread = [t \in Thread |-> thread[t]]
    BY Zenon DEF LinkInit
  <1>3. thread \in [Thread -> [pc : Pc, fd : Fd \cup {-1}]]
    BY <1>1, <1>2, Zenon
  <1> QED
    BY <1>3, PeerLinkAssumption, Zenon DEF LinkInit, LinkTypeOK

LEMMA TypeStep == LinkTypeOK /\ [LinkNext]_linkvars => LinkTypeOK'
  <1> SUFFICES ASSUME LinkTypeOK, [LinkNext]_linkvars PROVE LinkTypeOK'
    BY Zenon
  <1> USE PeerLinkAssumption DEF LinkTypeOK, Goto, HandlerGoto, link, world
  <1>1. ASSUME NEW t \in {"main", "hb"},
               Test(t, Connected(t)) \/ Connect(t, Connected(t)) \/ Set(t, Connected(t))
        PROVE  LinkTypeOK'
    <2> DEFINE done == Connected(t)
    <2>0. done \in [pc : Pc, fd : {-1}]
      BY Zenon DEF Connected
    <2> HIDE DEF done
    <2>1. CASE Test(t, done)  BY <2>0, <2>1, Zenon DEF Test
    <2>2. CASE Connect(t, done)  BY <2>0, <2>2 DEF Connect, NewFds, FreeFds
    <2>3. CASE Set(t, done)  BY <2>0, <2>3, Zenon DEF Set
    <2> QED  BY ONLY <1>1, <2>1, <2>2, <2>3, Zenon DEF done
  <1>2. ASSUME NEW t \in {"hb", "repl"},
               ReadOutFd(t, Sends(t), AfterSend(t)) \/ WriteMsg(t, AfterSend(t)) \/ SendFailed(t, AfterSend(t))
        PROVE  LinkTypeOK'
    <2> DEFINE done == AfterSend(t)
    <2>0. done \in [pc : Pc, fd : {-1}]
      BY Zenon DEF AfterSend
    <2> HIDE DEF done
    <2>1. CASE ReadOutFd(t, Sends(t), done)  BY <2>0, <2>1, Zenon DEF ReadOutFd
    <2>2. CASE WriteMsg(t, done)  BY <2>0, <2>2, Zenon DEF WriteMsg
    <2>3. CASE SendFailed(t, done)  BY <2>0, <2>3, Zenon DEF SendFailed, Drop
    <2> QED  BY ONLY <1>2, <2>1, <2>2, <2>3, Zenon DEF done
  <1>3. CASE Sweep  BY <1>3, Zenon DEF Sweep, Drop
  <1>4. ASSUME NEW h \in Handler,
               Accept(h) \/ register_incoming_fd(h) \/ Heartbeat(h) \/ Close(h) \/ Clear(h)
        PROVE  LinkTypeOK'
    <2>1. CASE Accept(h)  BY <2>1 DEF Accept, NewFds, FreeFds
    <2>2. CASE register_incoming_fd(h)  BY <2>2, Zenon DEF register_incoming_fd
    <2>3. CASE Heartbeat(h)  BY <2>3, Zenon DEF Heartbeat
    <2>4. CASE Close(h)
      <3>1. fds' \in [Fd -> {"free", "out", "broken", "in"}]
        BY <2>4, Zenon DEF Close
      <3>2. handler' \in [Handler -> [pc : HandlerPc, fd : Fd \cup {-1}]]
        BY <2>4, Zenon DEF Close, HandlerPc
      <3> QED  BY <2>4, <3>1, <3>2, Zenon DEF Close
    <2>5. CASE Clear(h)  BY <2>5, Zenon DEF Clear
    <2> QED  BY <1>4, <2>1, <2>2, <2>3, <2>4, <2>5, Zenon
  <1>5. ASSUME NEW f \in Fd, Break(f) PROVE LinkTypeOK'
    BY <1>5 DEF Break, Cut
  <1>6. CASE Arrive  BY <1>6, Zenon DEF Arrive
  <1>7. CASE PeerCrash
    <2>1. fds' \in [Fd -> {"free", "out", "broken", "in"}]
      BY <1>7, Zenon DEF PeerCrash, Cut
    <2>2. peer_up' \in BOOLEAN /\ alive' \in BOOLEAN
      BY <1>7, Zenon DEF PeerCrash
    <2> QED
      BY <1>7, <2>1, <2>2 DEF PeerCrash
  <1>8. CASE PeerRestart  BY <1>8, Zenon DEF PeerRestart
  <1>9. CASE Tick  BY <1>9 DEF Tick
  <1>10. CASE UNCHANGED linkvars  BY <1>10, Zenon DEF linkvars
  <1> HIDE DEF LinkTypeOK, Thread, Handler, Pc, HandlerPc, At, With
  <1> QED
    BY Steps, <1>1, <1>2, <1>3, <1>4, <1>5, <1>6, <1>7, <1>8, <1>9, <1>10, Zenon

-----------------------------------------------------------------------------
(* The handlers of the peer's connections have open descriptors of their   *)
(* own.                                                                    *)
LEMMA HandlersStep == LinkTypeOK /\ Owned /\ Handlers /\ [LinkNext]_linkvars => Handlers'
  <1> SUFFICES ASSUME LinkTypeOK, Owned, Handlers, [LinkNext]_linkvars PROVE Handlers'
    BY Zenon
  <1> USE PeerLinkAssumption DEF LinkTypeOK, Handlers, Goto, HandlerGoto, link, world
  <1>1. ASSUME NEW t \in {"main", "hb"},
               Test(t, Connected(t)) \/ Connect(t, Connected(t)) \/ Set(t, Connected(t))
        PROVE  Handlers'
    <2> DEFINE done == Connected(t)
    <2> HIDE DEF done
    <2>1. CASE Test(t, done)  BY <2>1 DEF Test
    <2>2. CASE Connect(t, done)
      <3>1. handler' = handler
        BY <2>2, Zenon DEF Connect
      <3>2. \A f \in Fd : fds[f] = "in" => fds'[f] = "in"
        BY <2>2, Zenon DEF Connect, NewFds, FreeFds
      <3> QED
        BY <3>1, <3>2, Zenon
    <2>3. CASE Set(t, done)  BY <2>3 DEF Set
    <2> QED  BY <1>1, <2>1, <2>2, <2>3, Zenon DEF done
  <1>d. ASSUME Drop, UNCHANGED handler PROVE Handlers'
    BY <1>d DEF Drop, Owned, OutFdOwned, OutFds
  <1>2. ASSUME NEW t \in {"hb", "repl"},
               ReadOutFd(t, Sends(t), AfterSend(t)) \/ WriteMsg(t, AfterSend(t)) \/ SendFailed(t, AfterSend(t))
        PROVE  Handlers'
    BY <1>2, <1>d DEF ReadOutFd, WriteMsg, SendFailed
  <1>3. CASE Sweep
    BY <1>3, <1>d DEF Sweep
  <1>4. ASSUME NEW h \in Handler,
               Accept(h) \/ register_incoming_fd(h) \/ Heartbeat(h) \/ Close(h) \/ Clear(h)
        PROVE  Handlers'
    <2>1. CASE Accept(h)  BY <2>1 DEF Accept, NewFds, FreeFds
    <2>2. CASE register_incoming_fd(h)  BY <2>2 DEF register_incoming_fd
    <2>3. CASE Heartbeat(h)  BY <2>3, ZenonT(30) DEF Heartbeat
    <2>4. CASE Close(h)  BY <2>4 DEF Close
    <2>5. CASE Clear(h)  BY <2>5 DEF Clear
    <2> QED  BY <1>4, <2>1, <2>2, <2>3, <2>4, <2>5, Zenon
  <1>5. ASSUME NEW f \in Fd, Break(f) PROVE Handlers'
    BY <1>5, ZenonT(30) DEF Break, Cut
  <1>6. CASE Arrive  BY <1>6, Zenon DEF Arrive
  <1>7. CASE PeerCrash  BY <1>7, ZenonT(30) DEF PeerCrash, Cut
  <1>8. CASE PeerRestart  BY <1>8, Zenon DEF PeerRestart
  <1>9. CASE Tick  BY <1>9, ZenonT(30) DEF Tick
  <1>10. CASE UNCHANGED linkvars  BY <1>10, Zenon DEF linkvars
  <1> HIDE DEF Handlers, Thread, Handler, Pc, HandlerPc, At, With
  <1> QED
    BY Steps, <1>1, <1>2, <1>3, <1>4, <1>5, <1>6, <1>7, <1>8, <1>9, <1>10, Zenon

(* What is heard of a peer that sends in time is never old.                *)
LEMMA TimelyStep == LinkTypeOK /\ Handlers /\ Timely /\ [LinkNext]_linkvars => Timely'
  <1> SUFFICES ASSUME LinkTypeOK, Handlers, Timely, [LinkNext]_linkvars PROVE Timely'
    BY Zenon
  <1> USE PeerLinkAssumption
      DEF LinkTypeOK, Handlers, Timely, JoinedHandlers, Heard, Goto, HandlerGoto, link, world
  <1>1. ASSUME NEW t \in {"main", "hb"},
               Test(t, Connected(t)) \/ Connect(t, Connected(t)) \/ Set(t, Connected(t))
        PROVE  Timely'
    BY <1>1 DEF Test, Connect, Set
  <1>2. ASSUME NEW t \in {"hb", "repl"},
               ReadOutFd(t, Sends(t), AfterSend(t)) \/ WriteMsg(t, AfterSend(t)) \/ SendFailed(t, AfterSend(t))
        PROVE  Timely'
    BY <1>2 DEF ReadOutFd, WriteMsg, SendFailed, Drop
  <1>3. CASE Sweep
    BY <1>3, Zenon DEF Sweep, Drop
  <1>4. ASSUME NEW h \in Handler,
               Accept(h) \/ register_incoming_fd(h) \/ Heartbeat(h) \/ Close(h) \/ Clear(h)
        PROVE  Timely'
    <2>1. CASE Accept(h)  BY <2>1 DEF Accept
    <2>2. CASE register_incoming_fd(h)  BY <2>2 DEF register_incoming_fd
    <2>3. CASE Heartbeat(h)  BY <2>3 DEF Heartbeat
    <2>4. CASE Close(h)  BY <2>4, Zenon DEF Close
    <2>5. CASE Clear(h)  BY <2>5 DEF Clear
    <2> QED  BY <1>4, <2>1, <2>2, <2>3, <2>4, <2>5, Zenon
  <1>5. ASSUME NEW f \in Fd, Break(f) PROVE Timely'
    BY <1>5, ZenonT(30) DEF Break
  <1>6. CASE Arrive  BY <1>6 DEF Arrive
  <1>7. CASE PeerCrash  BY <1>7, Zenon DEF PeerCrash
  <1>8. CASE PeerRestart  BY <1>8, Zenon DEF PeerRestart
  <1>9. CASE Tick  BY <1>9 DEF Tick
  <1>10. CASE UNCHANGED linkvars  BY <1>10, ZenonT(30) DEF linkvars
  <1> HIDE DEF Timely, Thread, Handler, Pc, HandlerPc, At, With
  <1> QED
    BY Steps, <1>1, <1>2, <1>3, <1>4, <1>5, <1>6, <1>7, <1>8, <1>9, <1>10, Zenon

-----------------------------------------------------------------------------
(* The descriptors of outgoing connections have one owner each.            *)

(* A step that leaves the threads, out_fd and the outgoing connections     *)
(* alone.                                                                  *)
LEMMA OwnedUnmoved ==
    ASSUME LinkTypeOK, Owned, UNCHANGED <<out_fd, thread>>, OutFds' = OutFds,
           alive => alive'
    PROVE  Owned'
  <1>1. Lost' = Lost
    BY Zenon DEF Lost
  <1>2. Held'
    BY Zenon DEF Owned, Held, HasFd
  <1> QED
    BY <1>1, <1>2, Zenon DEF Owned, OutFdOwned, HbConnects

(* A thread moves on without a descriptor, and does not start to connect.  *)
LEMMA OwnedGoto ==
    ASSUME LinkTypeOK, Owned, NEW t \in Thread, NEW at \in [pc : Pc, fd : Fd \cup {-1}],
           thread[t].pc # "set", at.pc \notin {"set", "connect"},
           t = "main" => at.pc = "done" /\ thread[t].pc # "done",
           t = "repl" => at.pc \in {"rest", "write", "fail"},
           t = "hb" => at.pc \notin {"rest", "done"},
           at.pc = "write" => at.fd \in Fd,
           Goto(t, at), UNCHANGED <<out_fd, alive, fds>>
    PROVE  Owned'
  <1>1. Lost' = Lost /\ OutFds' = OutFds
    BY DEF Lost, OutFds, Goto, LinkTypeOK
  <1>2. Held'
    BY <1>1 DEF Owned, Held, HasFd, Goto, LinkTypeOK
  <1> QED
    BY <1>1, <1>2, Zenon DEF Owned, OutFdOwned, HbConnects, Goto, LinkTypeOK

(* The peer is dropped, and the thread that drops it goes on.              *)
LEMMA OwnedDrop ==
    ASSUME LinkTypeOK, Owned, Drop, NEW t \in {"hb", "repl"},
           NEW at \in [pc : Pc, fd : Fd \cup {-1}],
           thread[t].pc # "set", Goto(t, at),
           at.pc = IF t = "repl" THEN "rest" ELSE at.pc,
           t = "hb" => at.pc \in {"sleep", "sweep"}
    PROVE  Owned'
  <1> USE PeerLinkAssumption
  <1>1. out_fd' = -1 /\ OutFds' = OutFds \ {out_fd}
    BY DEF Drop, Owned, OutFdOwned, OutFds, LinkTypeOK
  <1>2. \A u \in Thread : thread'[u] = IF u = t THEN at ELSE thread[u]
    BY Zenon DEF Goto, LinkTypeOK
  <1>3. Lost' = Lost
    BY <1>1, <1>2 DEF Lost, OutFds
  <1>4. Held'
    <2>1. \A u \in Thread : HasFd(u)'
      BY <1>1, <1>2 DEF Owned, Held, HasFd, OutFds
    <2> QED
      BY <2>1, <1>2, ZenonT(30) DEF Owned, Held
  <1> QED
    BY <1>1, <1>2, <1>3, <1>4 DEF Owned, OutFdOwned, HbConnects

(* out_fd is found closed and the thread is about to connect.              *)
LEMMA OwnedTest ==
    ASSUME LinkTypeOK, Owned, NEW t \in {"main", "hb"}, Test(t, Connected(t))
    PROVE  Owned'
  <1> USE PeerLinkAssumption
  <1>1. CASE out_fd >= 0
    <2>1. Goto(t, Connected(t)) /\ UNCHANGED <<out_fd, alive, fds>> /\ thread[t].pc = "test"
      BY <1>1, Zenon DEF Test, link
    <2> QED
      BY <2>1, OwnedGoto, Zenon DEF Connected
  <1>2. CASE ~(out_fd >= 0)
    <2>1. \A u \in Thread : thread'[u] = IF u = t THEN At("connect") ELSE thread[u]
      BY <1>2, Zenon DEF Test, Goto, LinkTypeOK
    <2>2. UNCHANGED <<out_fd, alive, fds>> /\ thread[t].pc = "test" /\ out_fd = -1
      BY <1>2 DEF Test, link, LinkTypeOK
    <2>3. OutFds' = OutFds /\ Lost' = Lost
      BY <2>1, <2>2 DEF OutFds, Lost
    <2>4. Held'
      BY <2>1, <2>2, <2>3 DEF Owned, Held, HasFd
    <2> QED
      BY <2>1, <2>2, <2>3, <2>4, Zenon DEF Owned, OutFdOwned, HbConnects
  <1> QED
    BY <1>1, <1>2, Zenon

(* The new descriptor is in the thread's hand.                             *)
LEMMA OwnedConnect ==
    ASSUME LinkTypeOK, Owned, NEW t \in {"main", "hb"}, Connect(t, Connected(t))
    PROVE  Owned'
  <1> USE PeerLinkAssumption
  <1>0. UNCHANGED <<out_fd, alive>> /\ thread[t].pc = "connect"
    BY Zenon DEF Connect, link
  <1>1. ASSUME NEW f \in NewFds, Goto(t, With("set", f)), fds' = [fds EXCEPT ![f] = "out"]
        PROVE  Owned'
    <2>1. f \in Fd \ OutFds /\ OutFds' = OutFds \cup {f}
      BY <1>1, ZenonT(30) DEF NewFds, FreeFds, OutFds, LinkTypeOK
    <2>2. \A u \in Thread : thread'[u] = IF u = t THEN With("set", f) ELSE thread[u]
      BY <1>1, Zenon DEF Goto, LinkTypeOK
    <2>3. Lost' = Lost
      BY <1>0, <2>1, <2>2 DEF Lost, OutFds
    <2>4. f # out_fd
      BY <2>1 DEF Owned, OutFdOwned, LinkTypeOK
    <2>5. \A u \in Thread : HasFd(u)'
      BY <1>0, <2>1, <2>2, <2>4 DEF Owned, Held, HasFd
    <2>6. Held'
      BY <1>0, <2>1, <2>2, <2>5 DEF Owned, Held, HasFd
    <2> QED
      BY <1>0, <2>1, <2>2, <2>3, <2>6, Zenon DEF Owned, OutFdOwned, HbConnects
  <1>2. ASSUME Goto(t, Connected(t)), UNCHANGED fds PROVE Owned'
    BY <1>0, <1>2, OwnedGoto, Zenon DEF Connected
  <1> QED
    BY <1>1, <1>2, Zenon DEF Connect

(* out_fd is the thread's descriptor; the one before is lost, if there was *)
(* one.                                                                    *)
LEMMA OwnedSet ==
    ASSUME LinkTypeOK, Owned, NEW t \in {"main", "hb"}, Set(t, Connected(t))
    PROVE  Owned'
  <1> USE PeerLinkAssumption
  <1>1. /\ thread[t].pc = "set" /\ out_fd' = thread[t].fd /\ alive' = TRUE
        /\ OutFds' = OutFds
    BY Zenon DEF Set, OutFds
  <1>2. \A u \in Thread : thread'[u] = IF u = t THEN Connected(t) ELSE thread[u]
    BY Zenon DEF Set, Goto, LinkTypeOK, Connected
  <1>3. thread[t].fd \in OutFds \ {out_fd}
    BY <1>1, Zenon DEF Owned, Held, HasFd
  <1>4. \A f \in Lost' : f \in Lost \/ f = out_fd
    BY <1>1, <1>2, ZenonT(30) DEF Lost, Connected
  <1>5. out_fd = -1 => Lost' \subseteq Lost
    <2>1. \A f \in Lost' : f \in Fd
      BY Zenon DEF Lost, OutFds
    <2>2. -1 \notin Fd
      OBVIOUS
    <2> QED
      BY <1>4, <2>1, <2>2, Zenon
  <1>6. out_fd # -1 => Lost = {}
    BY <1>1, Zenon DEF Owned, OutFdOwned, HbConnects
  <1>7. Held'
    <2>1. \A u \in Thread : HasFd(u)'
      BY <1>1, <1>2 DEF Owned, Held, HasFd, Connected
    <2> QED
      BY <1>2, <2>1 DEF Owned, Held, Connected
  <1>8. \A f, g \in Lost' : f = g
    BY <1>4, <1>5, <1>6, Zenon DEF Owned, OutFdOwned
  <1>9. out_fd' >= 0 => out_fd' \in OutFds' /\ alive'
    BY <1>1, <1>3, Zenon
  <1>10. CASE t = "main"
    <2>1. thread'["main"].pc = "done" /\ thread'["hb"] = thread["hb"]
      BY <1>2, <1>10 DEF Connected
    <2>2. HbConnects => out_fd = -1 /\ Lost = {}
      BY <1>1, <1>10, Zenon DEF Owned, OutFdOwned
    <2>3. HbConnects' => Lost' = {}
      BY <2>1, <2>2, <1>5, Zenon DEF HbConnects
    <2> QED
      BY <1>7, <1>8, <1>9, <2>1, <2>3, Zenon DEF Owned, OutFdOwned
  <1>11. CASE t = "hb"
    <2>1. thread'["hb"].pc = "send" /\ thread'["main"] = thread["main"]
      BY <1>2, <1>11 DEF Connected
    <2>2. thread["main"].pc # "done" => out_fd = -1 /\ Lost = {}
      BY <1>1, <1>11, Zenon DEF Owned, OutFdOwned, HbConnects
    <2>3. thread'["main"].pc # "done" => Lost' = {}
      BY <2>1, <2>2, <1>5, Zenon
    <2> QED
      BY <1>7, <1>8, <1>9, <2>1, <2>3, Zenon DEF Owned, OutFdOwned, HbConnects
  <1> QED
    BY <1>10, <1>11, Zenon

LEMMA OwnedStep == LinkTypeOK /\ Owned /\ Handlers /\ [LinkNext]_linkvars => Owned'
  <1> SUFFICES ASSUME LinkTypeOK, Owned, Handlers, [LinkNext]_linkvars PROVE Owned'
    BY Zenon
  <1> USE PeerLinkAssumption
  <1>1. ASSUME NEW t \in {"main", "hb"},
               Test(t, Connected(t)) \/ Connect(t, Connected(t)) \/ Set(t, Connected(t))
        PROVE  Owned'
    BY <1>1, OwnedTest, OwnedConnect, OwnedSet, Zenon
  <1>2. ASSUME NEW t \in {"hb", "repl"},
               ReadOutFd(t, Sends(t), AfterSend(t)) \/ WriteMsg(t, AfterSend(t)) \/ SendFailed(t, AfterSend(t))
        PROVE  Owned'
    <2>1. CASE ReadOutFd(t, Sends(t), AfterSend(t))
      <3> DEFINE at == IF out_fd >= 0 /\ alive THEN With("write", out_fd) ELSE AfterSend(t)
      <3>1. /\ thread[t].pc # "set" /\ Goto(t, at)
            /\ UNCHANGED <<out_fd, alive, fds>>
        BY <2>1, Zenon DEF ReadOutFd, Sends, link
      <3>2. /\ at \in [pc : Pc, fd : Fd \cup {-1}]
            /\ at.pc \in {"write", "sweep", "rest"} /\ (at.pc = "rest" => t = "repl")
            /\ (at.pc = "sweep" => t = "hb") /\ (at.pc = "write" => at.fd \in Fd)
        BY DEF LinkTypeOK, AfterSend
      <3> HIDE DEF at
      <3> QED
        BY <3>1, <3>2, OwnedGoto
    <2>2. CASE WriteMsg(t, AfterSend(t))
      <3> DEFINE at == IF fds[thread[t].fd] \in {"out", "in"} THEN AfterSend(t) ELSE At("fail")
      <3>1. /\ thread[t].pc # "set" /\ Goto(t, at)
            /\ UNCHANGED <<out_fd, alive, fds>>
        BY <2>2, Zenon DEF WriteMsg, link
      <3>2. /\ at \in [pc : Pc, fd : Fd \cup {-1}]
            /\ at.pc \in {"fail", "sweep", "rest"} /\ (at.pc = "rest" => t = "repl")
            /\ (at.pc = "sweep" => t = "hb")
        BY Zenon DEF AfterSend
      <3> HIDE DEF at
      <3> QED
        BY <3>1, <3>2, OwnedGoto
    <2>3. CASE SendFailed(t, AfterSend(t))
      BY <2>3, OwnedDrop, Zenon DEF SendFailed, AfterSend
    <2> QED
      BY <1>2, <2>1, <2>2, <2>3, Zenon
  <1>3. CASE Sweep
    <2>1. thread["hb"].pc = "sweep" /\ Goto("hb", At("sleep"))
      BY <1>3, Zenon DEF Sweep
    <2>2. CASE Drop
      BY <2>1, <2>2, OwnedDrop, Zenon
    <2>3. CASE UNCHANGED <<link, fds>>
      BY <2>1, <2>3, OwnedGoto, Zenon DEF link
    <2> QED
      BY <1>3, <2>2, <2>3, Zenon DEF Sweep
  <1>4. ASSUME NEW h \in Handler,
               Accept(h) \/ register_incoming_fd(h) \/ Heartbeat(h) \/ Close(h) \/ Clear(h)
        PROVE  Owned'
    <2>1. UNCHANGED <<out_fd, thread>> /\ (alive => alive')
      BY <1>4 DEF Accept, register_incoming_fd, Heartbeat, Close, Clear, link, world
    <2>2. OutFds' = OutFds
      <3>1. CASE Accept(h)
        BY <3>1, Zenon DEF Accept, NewFds, FreeFds, OutFds, LinkTypeOK
      <3>2. CASE Close(h)
        BY <3>2, Zenon DEF Close, OutFds, LinkTypeOK, Handlers
      <3>3. CASE UNCHANGED fds
        BY <3>3, Zenon DEF OutFds
      <3> QED
        BY <1>4, <3>1, <3>2, <3>3, Zenon DEF register_incoming_fd, Heartbeat, Clear
    <2> QED
      BY <2>1, <2>2, OwnedUnmoved, Zenon
  <1>5. ASSUME NEW f \in Fd, Break(f) PROVE Owned'
    <2>1. UNCHANGED <<out_fd, thread, alive>> /\ OutFds' = OutFds
      BY <1>5, Zenon DEF Break, Cut, OutFds, link, LinkTypeOK
    <2> QED
      BY <2>1, OwnedUnmoved, Zenon
  <1>6. CASE PeerCrash
    <2>1. UNCHANGED <<out_fd, thread, alive>> /\ OutFds' = OutFds
      BY <1>6, Zenon DEF PeerCrash, Cut, OutFds, link, LinkTypeOK
    <2> QED
      BY <2>1, OwnedUnmoved, Zenon
  <1>7. CASE Arrive \/ PeerRestart \/ UNCHANGED linkvars
    <2>1. UNCHANGED <<out_fd, thread, alive, fds>>
      BY <1>7, Zenon DEF Arrive, PeerRestart, linkvars, link
    <2> QED
      BY <2>1, OwnedUnmoved, Zenon DEF OutFds
  <1>8. CASE Tick
    <2>1. CASE thread["hb"].pc = "sleep"
      BY <1>8, <2>1, OwnedGoto, Zenon DEF Tick
    <2>2. CASE thread["hb"].pc # "sleep"
      <3>1. UNCHANGED <<out_fd, thread, alive, fds>>
        BY <1>8, <2>2, Zenon DEF Tick
      <3> QED
        BY <3>1, OwnedUnmoved, Zenon DEF OutFds
    <2> QED
      BY <2>1, <2>2, Zenon
  <1> HIDE DEF Thread, Handler, Pc, HandlerPc, At, With
  <1> QED
    BY Steps, <1>1, <1>2, <1>3, <1>4, <1>5, <1>6, <1>7, <1>8, Zenon

-----------------------------------------------------------------------------
(* The inductive invariant.                                                *)
LinkInv == LinkTypeOK /\ Owned /\ Handlers /\ Timely

LEMMA InvInit == LinkInit => LinkInv
  <1> SUFFICES ASSUME LinkInit PROVE LinkInv
    BY Zenon
  <1>1. thread["main"].pc = "test" /\ thread["hb"].pc = "sleep" /\ thread["repl"].pc = "rest"
    BY Zenon DEF LinkInit
  <1>2. OutFds = {} /\ Lost = {}
    BY Zenon DEF LinkInit, OutFds, Lost
  <1>3. Owned
    BY <1>1, <1>2 DEF LinkInit, Owned, OutFdOwned, Held, HasFd, HbConnects
  <1>4. Handlers /\ Timely
    BY Zenon DEF LinkInit, Handlers, Timely, JoinedHandlers, Heard
  <1> QED
    BY <1>3, <1>4, TypeInit, Zenon DEF LinkInv

LEMMA InvStep == LinkInv /\ [LinkNext]_linkvars => LinkInv'
  BY TypeStep, OwnedStep, HandlersStep, TimelyStep, Zenon DEF LinkInv

(* The invariant holds throughout.                                         *)
THEOREM LinkInvHolds == LinkSpec => []LinkInv
  BY InvInit, InvStep, PTL DEF LinkSpec

(* out_fd is an open connection to a peer that is alive, and at most one   *)
(* descriptor is ever lost, the one that main and hb_thread connect both:  *)
(* for any number of descriptors (connect_peer, cluster_send, hb_thread).  *)
THEOREM OutFdIsOwned == LinkSpec => []OutFdOwned
  <1>1. LinkInv => OutFdOwned
    BY Zenon DEF LinkInv, Owned
  <1> QED
    BY <1>1, LinkInvHolds, PTL

(* The sweep takes no peer for dead that is heard of in time, whatever the *)
(* delays are whose sum CLUSTER_DEAD_MS covers, but for the case that it   *)
(* has heard of it after reading the clock (hb_thread, handle_client).     *)
THEOREM HeardIsNotSwept == LinkSpec => NoFalseDeath
  <1>1. ASSUME LinkInv, [LinkNext]_linkvars
        PROVE  [thread["hb"].pc = "sweep" /\ thread'["hb"].pc = "sleep" /\ alive /\ ~alive' =>
                  ~Heard \/ age < lag]_linkvars
    <2> SUFFICES ASSUME thread["hb"].pc = "sweep", thread'["hb"].pc = "sleep",
                        alive, ~alive', Heard
                 PROVE  age < lag
      BY Zenon
    <2>1. Sweep
      <3> USE DEF LinkInv, LinkTypeOK, Goto
      <3>1. ASSUME NEW t \in {"main", "hb"},
                   Test(t, Connected(t)) \/ Connect(t, Connected(t)) \/ Set(t, Connected(t))
            PROVE  FALSE
        BY <3>1, Zenon DEF Test, Connect, Set, link
      <3>2. ASSUME NEW t \in {"hb", "repl"},
                   ReadOutFd(t, Sends(t), AfterSend(t)) \/ WriteMsg(t, AfterSend(t)) \/ SendFailed(t, AfterSend(t))
            PROVE  FALSE
        <4>1. thread[t].pc \in {Sends(t), "write", "fail"}
          BY <3>2, Zenon DEF ReadOutFd, WriteMsg, SendFailed
        <4>2. t = "repl"
          BY <4>1, Zenon DEF Sends
        <4>3. \E at : Goto(t, at)
          BY <3>2, Zenon DEF ReadOutFd, WriteMsg, SendFailed
        <4>4. thread'["hb"] = thread["hb"]
          BY <1>1, <4>2, <4>3, Zenon
        <4> QED
          BY <4>4, Zenon
      <3>3. ASSUME NEW h \in Handler,
                   Accept(h) \/ register_incoming_fd(h) \/ Heartbeat(h) \/ Close(h) \/ Clear(h)
            PROVE  FALSE
        BY <3>3, Zenon DEF Accept, register_incoming_fd, Heartbeat, Close, Clear, link, world
      <3>4. ASSUME \/ \E f \in Fd : Break(f)
                   \/ Arrive \/ PeerCrash \/ PeerRestart \/ Tick \/ UNCHANGED linkvars
            PROVE  FALSE
        BY <3>4, Zenon DEF Break, Arrive, PeerCrash, PeerRestart, Tick, linkvars, link
      <3> HIDE DEF Thread, Handler, Pc, HandlerPc, At, With, LinkInv, LinkTypeOK, Goto
      <3> QED
        BY <1>1, Steps, <3>1, <3>2, <3>3, <3>4, Zenon
    <2>2. age - lag > DEAD \/ age < lag
      BY <2>1, Zenon DEF Sweep, link
    <2>3. age <= DEAD
      BY <1>1, PeerLinkAssumption DEF LinkInv, LinkTypeOK, Timely
    <2> QED
      BY <1>1, <2>2, <2>3, PeerLinkAssumption DEF LinkInv, LinkTypeOK
  <1> QED
    BY <1>1, LinkInvHolds, PTL DEF LinkSpec, NoFalseDeath
=============================================================================
