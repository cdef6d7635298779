------------------------------- MODULE Server -------------------------------
(***************************************************************************)
(* The life of antzkv-server (src/server/server.c): the accept loop of     *)
(* main, the thread pool that serves the connections, and the shutdown     *)
(* that SIGINT or SIGTERM asks for.                                        *)
(*                                                                         *)
(* A critical section of g_tp.lock is one step.  What a worker does for a  *)
(* client (handle_client_unlocked) lasts until the client has left: its    *)
(* commands are the subject of other modules.                              *)
(***************************************************************************)
EXTENDS Integers, Sequences, FiniteSets

CONSTANTS
    Client,        \* clients, each of which connects at most once
    Worker         \* the THREAD_POOL_SIZE threads of the pool

ASSUME ServerAssumption ==
    /\ Client \cap {"test", "wait", "exit"} = {}
    /\ Worker # {} /\ IsFiniteSet(Worker)

VARIABLES
    g_running,
    main,          \* where main is
    jobs,          \* g_tp's list of connections, from head to tail
    stop,          \* g_tp.stop
    worker,        \* per worker: "test", "wait", "exit", or whom it serves
    conn,          \* per client: its connection as the server sees it
    left,          \* the clients that have closed their end or sent QUIT
    accepted,      \* the clients accepted so far, in order
    started        \* the clients whose service has begun, in order

vars == <<g_running, main, jobs, stop, worker, conn, left, accepted, started>>

(* main, up to its accept loop; tp_init starts the workers.                *)
Init ==
    /\ g_running = TRUE
    /\ main = "test"
    /\ jobs = <<>>
    /\ stop = FALSE
    /\ worker = [w \in Worker |-> "test"]
    /\ conn = [c \in Client |-> "none"]
    /\ left = {}
    /\ accepted = <<>> /\ started = <<>>

Waiting == {w \in Worker : worker[w] = "wait"}

-----------------------------------------------------------------------------
(* The environment: a client connects, a client leaves, a signal arrives.  *)
Connect(c) ==
    /\ conn[c] = "none" /\ main \in {"test", "accept"}
    /\ conn' = [conn EXCEPT ![c] = "backlog"]
    /\ UNCHANGED <<g_running, main, jobs, stop, worker, left, accepted, started>>

Leave(c) ==
    /\ conn[c] \in {"backlog", "open"} /\ c \notin left
    /\ left' = left \cup {c}
    /\ UNCHANGED <<g_running, main, jobs, stop, worker, conn, accepted, started>>

(* signal() installs the handler with SA_RESTART: a blocked accept() goes  *)
(* on blocking.                                                            *)
handle_sigint ==
    /\ g_running /\ main # "exit"
    /\ g_running' = FALSE
    /\ UNCHANGED <<main, jobs, stop, worker, conn, left, accepted, started>>

-----------------------------------------------------------------------------
(* main: while (g_running) ...                                             *)
TestRunning ==
    /\ main = "test"
    /\ main' = IF g_running THEN "accept" ELSE "stop"
    /\ UNCHANGED <<g_running, jobs, stop, worker, conn, left, accepted, started>>

(* accept() fails and the loop goes on.                                    *)
AcceptFails ==
    /\ main = "accept"
    /\ main' = "test"
    /\ UNCHANGED <<g_running, jobs, stop, worker, conn, left, accepted, started>>

(* pthread_cond_signal: one of those that wait, if any.                    *)
Signalled ==
    IF Waiting = {} THEN UNCHANGED worker
    ELSE \E w \in Waiting : worker' = [worker EXCEPT ![w] = "test"]

(* Mutant: only the first job of an empty list is signalled.               *)
SubmitSignalFirst(c) ==
    /\ main = "accept" /\ conn[c] = "backlog"
    /\ conn' = [conn EXCEPT ![c] = "open"]
    /\ jobs' = Append(jobs, c)
    /\ IF jobs = <<>> THEN Signalled ELSE UNCHANGED worker
    /\ accepted' = Append(accepted, c)
    /\ main' = "test"
    /\ UNCHANGED <<g_running, stop, left, started>>

(* Mutant: nobody is signalled.                                            *)
SubmitSilent(c) ==
    /\ main = "accept" /\ conn[c] = "backlog"
    /\ conn' = [conn EXCEPT ![c] = "open"]
    /\ jobs' = Append(jobs, c)
    /\ accepted' = Append(accepted, c)
    /\ main' = "test"
    /\ UNCHANGED <<g_running, stop, worker, left, started>>

(* accept() returns the connection of a client, and tp_submit queues it.   *)
tp_submit(c) ==
    /\ main = "accept" /\ conn[c] = "backlog"
    /\ conn' = [conn EXCEPT ![c] = "open"]
    /\ jobs' = Append(jobs, c)
    /\ Signalled
    /\ accepted' = Append(accepted, c)
    /\ main' = "test"
    /\ UNCHANGED <<g_running, stop, left, started>>

(* Mutant: the workers that wait are not told.                             *)
StopSilent ==
    /\ main = "stop"
    /\ stop' = TRUE
    /\ main' = "join"
    /\ UNCHANGED <<g_running, jobs, worker, conn, left, accepted, started>>

(* close(srv), and the first half of tp_shutdown, with its broadcast.      *)
tp_shutdown ==
    /\ main = "stop"
    /\ stop' = TRUE
    /\ worker' = [w \in Worker |-> IF w \in Waiting THEN "test" ELSE worker[w]]
    /\ main' = "join"
    /\ UNCHANGED <<g_running, jobs, conn, left, accepted, started>>

(* The joins of tp_shutdown.                                               *)
Join ==
    /\ main = "join"
    /\ \A w \in Worker : worker[w] = "exit"
    /\ main' = "close"
    /\ UNCHANGED <<g_running, jobs, stop, worker, conn, left, accepted, started>>

(* cluster_shutdown (see ReplRing), pubsub_destroy and kv_close, which     *)
(* saves the table.                                                        *)
Close ==
    /\ main = "close"
    /\ main' = "exit"
    /\ UNCHANGED <<g_running, jobs, stop, worker, conn, left, accepted, started>>

-----------------------------------------------------------------------------
(* tp_worker, its critical section: it waits, ...                          *)
Wait(w) ==
    /\ worker[w] = "test" /\ ~stop /\ jobs = <<>>
    /\ worker' = [worker EXCEPT ![w] = "wait"]
    /\ UNCHANGED <<g_running, main, jobs, stop, conn, left, accepted, started>>

(* Mutant: a worker that sees stop leaves the queue as it is.              *)
ExitAtOnce(w) ==
    /\ worker[w] = "test" /\ stop
    /\ worker' = [worker EXCEPT ![w] = "exit"]
    /\ UNCHANGED <<g_running, main, jobs, stop, conn, left, accepted, started>>

(* ... or ends, ...                                                        *)
Exit(w) ==
    /\ worker[w] = "test" /\ stop /\ jobs = <<>>
    /\ worker' = [worker EXCEPT ![w] = "exit"]
    /\ UNCHANGED <<g_running, main, jobs, stop, conn, left, accepted, started>>

(* Mutant: the head of the list is not advanced.                           *)
TakeStay(w) ==
    /\ worker[w] = "test" /\ jobs # <<>>
    /\ worker' = [worker EXCEPT ![w] = Head(jobs)]
    /\ started' = Append(started, Head(jobs))
    /\ UNCHANGED <<g_running, main, jobs, stop, conn, left, accepted>>

(* Mutant: the newest job is taken.                                        *)
TakeLast(w) ==
    /\ worker[w] = "test" /\ jobs # <<>>
    /\ worker' = [worker EXCEPT ![w] = jobs[Len(jobs)]]
    /\ jobs' = SubSeq(jobs, 1, Len(jobs) - 1)
    /\ started' = Append(started, jobs[Len(jobs)])
    /\ UNCHANGED <<g_running, main, stop, conn, left, accepted>>

(* ... or takes the first job.                                             *)
Take(w) ==
    /\ worker[w] = "test" /\ jobs # <<>>
    /\ worker' = [worker EXCEPT ![w] = Head(jobs)]
    /\ jobs' = Tail(jobs)
    /\ started' = Append(started, Head(jobs))
    /\ UNCHANGED <<g_running, main, stop, conn, left, accepted>>

(* handle_client_unlocked returns once the client has left: close(fd).     *)
handle_client_unlocked(w) ==
    /\ worker[w] \in left
    /\ conn' = [conn EXCEPT ![worker[w]] = "closed"]
    /\ worker' = [worker EXCEPT ![w] = "test"]
    /\ UNCHANGED <<g_running, main, jobs, stop, left, accepted, started>>

(* pthread_cond_wait may return without a signal.                          *)
SpuriousWakeup(w) ==
    /\ worker[w] = "wait"
    /\ worker' = [worker EXCEPT ![w] = "test"]
    /\ UNCHANGED <<g_running, main, jobs, stop, conn, left, accepted, started>>

tp_worker(w) == Wait(w) \/ Exit(w) \/ Take(w) \/ handle_client_unlocked(w)
Main == TestRunning \/ (\E c \in Client : tp_submit(c)) \/ tp_shutdown \/ Join \/ Close

Next ==
    \/ \E c \in Client : Connect(c) \/ Leave(c)
    \/ handle_sigint \/ AcceptFails
    \/ Main
    \/ \E w \in Worker : tp_worker(w) \/ SpuriousWakeup(w)

(* The operating system schedules every thread; clients and signals come,  *)
(* and accept() fails, as they please.                                     *)
Spec ==
    /\ Init /\ [][Next]_vars
    /\ WF_vars(Main)
    /\ \A w \in Worker : WF_vars(tp_worker(w))

-----------------------------------------------------------------------------
TypeOK ==
    /\ g_running \in BOOLEAN /\ stop \in BOOLEAN
    /\ main \in {"test", "accept", "stop", "join", "close", "exit"}
    /\ jobs \in Seq(Client) /\ accepted \in Seq(Client) /\ started \in Seq(Client)
    /\ worker \in [Worker -> Client \cup {"test", "wait", "exit"}]
    /\ conn \in [Client -> {"none", "backlog", "open", "closed"}]
    /\ left \subseteq Client

(* Clients are served in the order in which they were accepted, and none   *)
(* is forgotten or served twice (tp_submit, tp_worker).                    *)
ServedInOrder == accepted = started \o jobs

(* A connection is open exactly as long as it is queued or one worker      *)
(* serves it: no two workers share one, and none is dropped (tp_worker).   *)
OneOwner ==
    \A c \in Client :
      LET servers == {w \in Worker : worker[w] = c}
          queued  == {i \in 1 .. Len(jobs) : jobs[i] = c}
      IN  Cardinality(servers) + Cardinality(queued) =
            (IF conn[c] = "open" THEN 1 ELSE 0)

(* No client waits for a worker that sleeps: while a worker sleeps, there  *)
(* are as many awake ones about to look at the list as there are jobs      *)
(* (tp_submit signals once per job).                                       *)
NoSleepOnWork ==
    Waiting # {} => Len(jobs) <= Cardinality({w \in Worker : worker[w] = "test"})

(* When main goes on to save the table every connection it ever accepted   *)
(* has been served to its end, so no command can follow the save           *)
(* (tp_shutdown, tp_worker).                                               *)
DrainedBeforeSave ==
    main \in {"close", "exit"} =>
      \A i \in 1 .. Len(accepted) : conn[accepted[i]] = "closed"

(* No client stays for ever.                                               *)
ClientsLeave == \A c \in Client : conn[c] = "open" ~> c \in left

(* If no client stays for ever, every accepted connection is served and    *)
(* closed, shutdown or not (tp_submit, tp_worker).                         *)
AcceptedIsServed ==
    ClientsLeave => \A c \in Client : conn[c] = "open" ~> conn[c] = "closed"

(* If no client stays for ever, a shutdown that has begun ends             *)
(* (tp_shutdown).                                                          *)
ShutdownEnds == ClientsLeave => (main = "stop" ~> main = "exit")

(* If no client stays for ever, SIGINT leads to the save and the exit      *)
(* (handle_sigint, main).                                                  *)
SignalEnds == ClientsLeave => (~g_running ~> main = "exit")
=============================================================================
