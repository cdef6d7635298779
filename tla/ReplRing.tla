------------------------------ MODULE ReplRing ------------------------------
(***************************************************************************)
(* The replication queue of src/cluster/cluster.c: client threads append   *)
(* messages to a ring of repl_cap slots, repl_thread takes them out and    *)
(* hands each to every peer, cluster_shutdown stops it.                    *)
(*                                                                         *)
(* repl_lock is held across actions only while the daemon is at "checked", *)
(* between its test of cs->stop and its test of the queue: the store to    *)
(* cs->stop and the broadcast do not take the lock.  Messages are numbered *)
(* in the order they are queued; writing to the peers is one step.         *)
(***************************************************************************)
EXTENDS Integers, Sequences

CONSTANTS
    repl_cap,
    MaxMsgs,       \* bound: messages queued in a run
    NoItem

ASSUME ReplRingAssumption ==
    /\ repl_cap \in Nat /\ repl_cap > 1
    /\ MaxMsgs \in Nat
    /\ NoItem \notin Nat

VARIABLES
    repl_buf, repl_head, repl_tail,
    daemon,        \* where repl_thread is
    item,          \* the message it has taken
    stop,          \* cs->stop
    main,          \* where cluster_shutdown is
    queued,        \* how many messages were queued so far
    sent,          \* the messages handed to the peers, in order
    freed          \* the messages whose memory was released

ringvars == <<repl_buf, repl_head, repl_tail, daemon, item, stop, main,
              queued, sent, freed>>

RingInit ==
    /\ repl_buf = [i \in 0 .. (repl_cap - 1) |-> NoItem]
    /\ repl_head = 0 /\ repl_tail = 0
    /\ daemon = "relock" /\ item = NoItem
    /\ stop = FALSE /\ main = "running"
    /\ queued = 0 /\ sent = <<>> /\ freed = {}

(* pthread_cond_signal and _broadcast: nothing happens unless the daemon   *)
(* is in pthread_cond_wait.                                                *)
Awakened == IF daemon = "waiting" THEN "relock" ELSE daemon

(* Mutant: the condition is not signalled.                                 *)
repl_enqueueSilent ==
    LET next == (repl_head + 1) % repl_cap
        full == next = repl_tail
    IN  /\ main = "running" /\ daemon # "checked" /\ queued < MaxMsgs
        /\ queued' = queued + 1
        /\ repl_buf' = [repl_buf EXCEPT ![repl_head % repl_cap] = queued']
        /\ repl_head' = next
        /\ repl_tail' = IF full THEN (repl_tail + 1) % repl_cap ELSE repl_tail
        /\ freed' = IF full THEN freed \cup {repl_buf[repl_tail % repl_cap]}
                            ELSE freed
        /\ UNCHANGED <<daemon, item, stop, main, sent>>

(* When the ring looks full the oldest message is dropped.                 *)
repl_enqueue ==
    LET next == (repl_head + 1) % repl_cap
        full == next = repl_tail
    IN  /\ main = "running" /\ daemon # "checked" /\ queued < MaxMsgs
        /\ queued' = queued + 1
        /\ repl_buf' = [repl_buf EXCEPT ![repl_head % repl_cap] = queued']
        /\ repl_head' = next
        /\ repl_tail' = IF full THEN (repl_tail + 1) % repl_cap ELSE repl_tail
        /\ freed' = IF full THEN freed \cup {repl_buf[repl_tail % repl_cap]}
                            ELSE freed
        /\ daemon' = Awakened
        /\ UNCHANGED <<item, stop, main, sent>>

-----------------------------------------------------------------------------
(* repl_thread: take repl_lock and test cs->stop.                          *)
CheckStop ==
    /\ daemon = "relock"
    /\ daemon' = IF stop THEN "done" ELSE "checked"
    /\ UNCHANGED <<repl_buf, repl_head, repl_tail, item, stop, main,
                   queued, sent, freed>>

(* pthread_cond_wait, which releases repl_lock.                            *)
Wait ==
    /\ daemon = "checked" /\ repl_head = repl_tail
    /\ daemon' = "waiting"
    /\ UNCHANGED <<repl_buf, repl_head, repl_tail, item, stop, main,
                   queued, sent, freed>>

(* Mutant: the slot after the tail is taken.                               *)
TakeNext ==
    /\ daemon = "checked" /\ repl_head # repl_tail
    /\ item' = repl_buf[(repl_tail + 1) % repl_cap]
    /\ repl_tail' = repl_tail + 1
    /\ daemon' = "sending"
    /\ UNCHANGED <<repl_buf, repl_head, stop, main, queued, sent, freed>>

(* The tail is advanced without a modulo, and repl_lock released.          *)
Take ==
    /\ daemon = "checked" /\ repl_head # repl_tail
    /\ item' = repl_buf[repl_tail % repl_cap]
    /\ repl_tail' = repl_tail + 1
    /\ daemon' = "sending"
    /\ UNCHANGED <<repl_buf, repl_head, stop, main, queued, sent, freed>>

(* cluster_send to every peer, then free(item).                            *)
Send ==
    /\ daemon = "sending"
    /\ sent' = Append(sent, item)
    /\ freed' = freed \cup {item}
    /\ item' = NoItem
    /\ daemon' = "relock"
    /\ UNCHANGED <<repl_buf, repl_head, repl_tail, stop, main, queued>>

(* pthread_cond_wait may return although nobody signalled.                 *)
SpuriousWakeup ==
    /\ daemon = "waiting"
    /\ daemon' = "relock"
    /\ UNCHANGED <<repl_buf, repl_head, repl_tail, item, stop, main,
                   queued, sent, freed>>

-----------------------------------------------------------------------------
(* cluster_shutdown.  main joins the workers first, so nothing is queued   *)
(* any more.                                                               *)
cluster_shutdown ==
    /\ main = "running"
    /\ stop' = TRUE /\ main' = "stopping"
    /\ UNCHANGED <<repl_buf, repl_head, repl_tail, daemon, item,
                   queued, sent, freed>>

(* Mutant: the condition is not broadcast.                                 *)
BroadcastNone ==
    /\ main = "stopping"
    /\ main' = "joining"
    /\ UNCHANGED <<repl_buf, repl_head, repl_tail, daemon, item, stop,
                   queued, sent, freed>>

Broadcast ==
    /\ main = "stopping"
    /\ daemon' = Awakened
    /\ main' = "joining"
    /\ UNCHANGED <<repl_buf, repl_head, repl_tail, item, stop,
                   queued, sent, freed>>

(* Mutant: the messages still in the ring are not released.                *)
JoinOnly ==
    /\ main = "joining" /\ daemon = "done"
    /\ main' = "joined"
    /\ UNCHANGED <<repl_buf, repl_head, repl_tail, daemon, item, stop,
                   queued, sent, freed>>

(* Mutant: the daemon is not waited for.                                   *)
JoinEarly ==
    /\ main = "joining"
    /\ freed' = freed \cup
         {repl_buf[i % repl_cap] : i \in repl_tail .. (repl_head - 1)}
    /\ main' = "joined"
    /\ UNCHANGED <<repl_buf, repl_head, repl_tail, daemon, item, stop,
                   queued, sent>>

(* pthread_join, and the loop that frees what was not sent.                *)
Join ==
    /\ main = "joining" /\ daemon = "done"
    /\ freed' = freed \cup
         {repl_buf[i % repl_cap] : i \in repl_tail .. (repl_head - 1)}
    /\ main' = "joined"
    /\ UNCHANGED <<repl_buf, repl_head, repl_tail, daemon, item, stop,
                   queued, sent>>

Joined == main = "joined" /\ UNCHANGED ringvars

(* repl_thread.                                                            *)
Daemon == CheckStop \/ Wait \/ Take \/ Send

RingNext ==
    \/ repl_enqueue
    \/ Daemon
    \/ SpuriousWakeup
    \/ cluster_shutdown \/ Broadcast \/ Join \/ Joined

RingFairness ==
    WF_ringvars(Daemon) /\ WF_ringvars(Broadcast) /\ WF_ringvars(Join)

RingSpec == RingInit /\ [][RingNext]_ringvars /\ RingFairness

(* The first lap: fewer messages than slots are queued.                    *)
FirstLap == queued < repl_cap

SpecFirstLap == RingInit /\ [][RingNext /\ FirstLap']_ringvars /\ RingFairness

-----------------------------------------------------------------------------
Message == 1 .. MaxMsgs

RingTypeOK ==
    /\ repl_buf \in [0 .. (repl_cap - 1) -> Message \cup {NoItem}]
    /\ repl_head \in 0 .. (repl_cap - 1) /\ repl_tail \in Nat
    /\ daemon \in {"relock", "checked", "waiting", "sending", "done"}
    /\ item \in Message \cup {NoItem}
    /\ stop \in BOOLEAN
    /\ main \in {"running", "stopping", "joining", "joined"}
    /\ queued \in 0 .. MaxMsgs
    /\ sent \in Seq(Message)
    /\ freed \subseteq Message

(* In the first lap the ring is a queue: what was sent, what the daemon    *)
(* has in hand and what lies between tail and head are together the        *)
(* messages in the order they were queued, each once (repl_enqueue,        *)
(* repl_thread).                                                           *)
QueueIsFifo ==
    LET hand == IF daemon = "sending" THEN <<item>> ELSE <<>>
        left == [i \in 1 .. (repl_head - repl_tail) |->
                   repl_buf[(repl_tail + i - 1) % repl_cap]]
    IN  sent \o hand \o left = [i \in 1 .. queued |-> i]

(* What is sent was queued and is sent for the first time: the daemon      *)
(* never hands released memory to the peers (repl_thread).                 *)
ItemIsLive == daemon = "sending" => item \in Message \ freed

(* A shutdown releases every message, sent or not (cluster_shutdown).      *)
NothingLeaks == main = "joined" => freed = 1 .. queued

(* Every queued message is sent unless a shutdown comes first: no wake-up  *)
(* is lost between repl_enqueue and repl_thread.                           *)
QueuedIsSent ==
    \A m \in Message :
      (queued >= m) ~> (stop \/ \E i \in 1 .. Len(sent) : sent[i] = m)

(* A shutdown ends, so main gets past pthread_join and saves the database, *)
(* from every state in which the daemon has not tested cs->stop before it  *)
(* was set and may yet wait after the broadcast; from there it need not    *)
(* (cluster_shutdown takes no lock).                                       *)
ShutdownEnds ==
    (stop /\ daemon # "checked" /\ (main = "joining" => daemon # "waiting"))
      ~> main = "joined"
=============================================================================
