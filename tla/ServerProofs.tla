---------------------------- MODULE ServerProofs ----------------------------
(***************************************************************************)
(* Proofs about src/server/server.c: the thread pool that serves the       *)
(* clients, and the session of one client.                                 *)
(***************************************************************************)
EXTENDS Server, Session, FiniteSetTheorems, WellFoundedInduction, TLAPS

-----------------------------------------------------------------------------
(***************************************************************************)
(* Proofs about Server, for any number of clients and of workers.  That a  *)
(* shutdown saves only when every accepted connection has been served is   *)
(* not inductive: PoolInv adds that a worker ends only once stop is set    *)
(* and the list is empty, which then stays so, and that a connection whose *)
(* service has begun is either closed or in the hands of a worker.  Owned  *)
(* says where every open connection is; that no job waits for a sleeping   *)
(* worker is inductive by itself.                                          *)
(***************************************************************************)

InHand(c) == conn[c] = "closed" \/ \E w \in Worker : worker[w] = c

PoolInv ==
    /\ TypeOK
    /\ ServedInOrder
    /\ stop <=> main \in {"join", "close", "exit"}
    /\ \A w \in Worker : worker[w] = "exit" => stop /\ jobs = <<>>
    /\ main \in {"close", "exit"} => \A w \in Worker : worker[w] = "exit"
    /\ \A i \in 1 .. Len(started) : InHand(started[i])

-----------------------------------------------------------------------------
(* Queueing a job at the end commutes with prefixing what was started.     *)
LEMMA AppendConcat ==
    ASSUME NEW s \in Seq(Client), NEW t \in Seq(Client), NEW x \in Client
    PROVE  Append(s \o t, x) = s \o Append(t, x)
  OBVIOUS

(* Moving the first job to the started ones keeps the concatenation.       *)
LEMMA MoveHead ==
    ASSUME NEW S, NEW s \in Seq(S), NEW t \in Seq(S), t # <<>>
    PROVE  /\ Head(t) \in S /\ Tail(t) \in Seq(S)
           /\ Append(s, Head(t)) \o Tail(t) = s \o t
  OBVIOUS

(* The initial states satisfy the invariant.                               *)
LEMMA PoolInit == Init => PoolInv
  <1> SUFFICES ASSUME Init PROVE PoolInv
    BY Zenon
  <1>1. TypeOK
    <2>1. g_running \in BOOLEAN /\ stop \in BOOLEAN
      BY Zenon DEF Init
    <2>2. worker \in [Worker -> Client \cup {"test", "wait", "exit"}]
      BY Zenon DEF Init
    <2>3. conn \in [Client -> {"none", "backlog", "open", "closed"}]
      BY Zenon DEF Init
    <2>4. /\ main \in {"test", "accept", "stop", "join", "close", "exit"}
          /\ jobs \in Seq(Client) /\ accepted \in Seq(Client)
          /\ started \in Seq(Client) /\ left \subseteq Client
      BY DEF Init
    <2> QED
      BY <2>1, <2>2, <2>3, <2>4, Zenon DEF TypeOK
  <1>2. ServedInOrder
    BY DEF Init, ServedInOrder
  <1>3. \A w \in Worker : worker[w] # "exit"
    BY Zenon DEF Init
  <1>4. Len(started) = 0
    BY Zenon DEF Init
  <1> QED
    BY <1>1, <1>2, <1>3, <1>4 DEF Init, PoolInv

-----------------------------------------------------------------------------
(* Steps that change no more than g_running, left, main before the         *)
(* shutdown, and connections that are not closed.                          *)
LEMMA QuietSteps ==
    ASSUME PoolInv,
           \/ \E c \in Client : Connect(c) \/ Leave(c)
           \/ handle_sigint \/ AcceptFails \/ TestRunning
    PROVE  PoolInv'
  <1>1. /\ UNCHANGED <<jobs, stop, worker, accepted, started>>
        /\ main' \in {"join", "close", "exit"} <=> main \in {"join", "close", "exit"}
        /\ main' \in {"close", "exit"} <=> main \in {"close", "exit"}
        /\ \A c \in Client : conn[c] = "closed" => conn'[c] = "closed"
    BY Zenon DEF PoolInv, TypeOK, Connect, Leave, handle_sigint, AcceptFails, TestRunning
  <1>2. TypeOK'
    <2>1. g_running' \in BOOLEAN /\ stop' \in BOOLEAN
      BY Zenon DEF PoolInv, TypeOK, Connect, Leave, handle_sigint, AcceptFails, TestRunning
    <2>2. /\ main' \in {"test", "accept", "stop", "join", "close", "exit"}
          /\ conn' \in [Client -> {"none", "backlog", "open", "closed"}]
          /\ left' \subseteq Client
      BY Zenon DEF PoolInv, TypeOK, Connect, Leave, handle_sigint, AcceptFails, TestRunning
    <2> QED
      BY <1>1, <2>1, <2>2, Zenon DEF PoolInv, TypeOK
  <1>3. ServedInOrder'
    BY <1>1, Zenon DEF PoolInv, ServedInOrder
  <1>4. \A i \in 1 .. Len(started') : InHand(started[i])'
    BY <1>1 DEF PoolInv, TypeOK, InHand
  <1> QED
    BY <1>1, <1>2, <1>3, <1>4, Zenon DEF PoolInv

(* tp_submit: stop is not set, so no worker has ended.                     *)
LEMMA SubmitStep ==
    ASSUME PoolInv, NEW c \in Client, tp_submit(c)
    PROVE  PoolInv'
  <1>1. worker' \in [Worker -> Client \cup {"test", "wait", "exit"}]
    BY Zenon DEF PoolInv, TypeOK, tp_submit, Signalled, Waiting
  <1>2. \A w \in Worker : worker[w] \notin {"wait"} => worker'[w] = worker[w]
    BY Zenon DEF PoolInv, TypeOK, tp_submit, Signalled, Waiting
  <1>3. \A w \in Worker : worker'[w] # "exit"
    BY Zenon DEF PoolInv, TypeOK, tp_submit, Signalled, Waiting
  <1>4. TypeOK'
    <2>1. g_running' \in BOOLEAN /\ stop' \in BOOLEAN
      BY Zenon DEF PoolInv, TypeOK, tp_submit
    <2> QED
      BY <1>1, <2>1 DEF PoolInv, TypeOK, tp_submit
  <1>5. ServedInOrder'
    <2>1. /\ accepted = started \o jobs
          /\ started \in Seq(Client) /\ jobs \in Seq(Client)
      BY Zenon DEF PoolInv, TypeOK, ServedInOrder
    <2>2. /\ accepted' = Append(accepted, c)
          /\ jobs' = Append(jobs, c) /\ started' = started
      BY Zenon DEF tp_submit
    <2>3. Append(started \o jobs, c) = started \o Append(jobs, c)
      BY <2>1, AppendConcat, Zenon
    <2> QED
      BY <2>1, <2>2, <2>3, Zenon DEF ServedInOrder
  <1>6. \A i \in 1 .. Len(started') : InHand(started[i])'
    <2>1. started' = started /\ started \in Seq(Client)
      BY Zenon DEF PoolInv, TypeOK, tp_submit
    <2>2. \A d \in Client : conn[d] = "closed" => conn'[d] = "closed"
      BY Zenon DEF PoolInv, TypeOK, tp_submit
    <2>3. \A w \in Worker : worker[w] \in Client => worker'[w] = worker[w]
      BY <1>2, ServerAssumption, Zenon
    <2> SUFFICES ASSUME NEW i \in 1 .. Len(started)
                 PROVE  conn'[started[i]] = "closed" \/
                        \E w \in Worker : worker'[w] = started[i]
      BY <2>1, Zenon DEF InHand
    <2>4. started[i] \in Client /\ InHand(started[i])
      BY <2>1 DEF PoolInv
    <2> QED
      BY <2>2, <2>3, <2>4, Zenon DEF InHand
  <1> QED
    BY <1>3, <1>4, <1>5, <1>6, Zenon DEF PoolInv, tp_submit

(* tp_shutdown wakes the workers, none of which has ended.                 *)
LEMMA ShutdownStep ==
    ASSUME PoolInv, tp_shutdown
    PROVE  PoolInv'
  <1>1. worker' \in [Worker -> Client \cup {"test", "wait", "exit"}]
    BY Zenon DEF PoolInv, TypeOK, tp_shutdown
  <1>2. \A w \in Worker :
          /\ worker[w] # "wait" => worker'[w] = worker[w]
          /\ worker'[w] # "exit"
    BY Zenon DEF PoolInv, TypeOK, tp_shutdown, Waiting
  <1>3. TypeOK'
    <2>1. g_running' \in BOOLEAN /\ stop' \in BOOLEAN
      BY Zenon DEF PoolInv, TypeOK, tp_shutdown
    <2> QED
      BY <1>1, <2>1, Zenon DEF PoolInv, TypeOK, tp_shutdown
  <1>4. ServedInOrder'
    BY Zenon DEF PoolInv, ServedInOrder, tp_shutdown
  <1>5. \A i \in 1 .. Len(started') : InHand(started[i])'
    BY <1>2, ServerAssumption DEF PoolInv, TypeOK, InHand, tp_shutdown
  <1>6. stop' /\ main' = "join"
    BY Zenon DEF tp_shutdown
  <1>7. stop' <=> main' \in {"join", "close", "exit"}
    BY <1>6, Zenon
  <1>8. main' \notin {"close", "exit"}
    BY <1>6, Zenon
  <1>9. \A w \in Worker : worker'[w] = "exit" => stop' /\ jobs' = <<>>
    BY <1>2, Zenon
  <1> QED
    BY <1>3, <1>4, <1>5, <1>7, <1>8, <1>9, Zenon DEF PoolInv

(* Join and Close: main is past the shutdown and everything else stays.    *)
LEMMA EndSteps ==
    ASSUME PoolInv, Join \/ Close
    PROVE  PoolInv'
  <1>1. UNCHANGED <<g_running, jobs, stop, worker, conn, left, accepted, started>>
    BY Zenon DEF Join, Close
  <1>2. /\ main \in {"join", "close"} /\ main' \in {"close", "exit"}
        /\ \A w \in Worker : worker[w] = "exit"
    BY Zenon DEF PoolInv, Join, Close
  <1>3. TypeOK' /\ ServedInOrder'
    BY <1>1, <1>2, Zenon DEF PoolInv, TypeOK, ServedInOrder
  <1>4. \A i \in 1 .. Len(started') : InHand(started[i])'
    BY <1>1, Zenon DEF PoolInv, InHand
  <1> QED
    BY <1>1, <1>2, <1>3, <1>4, Zenon DEF PoolInv

(* tp_worker, waiting, waking up and ending.                               *)
LEMMA IdleSteps ==
    ASSUME PoolInv, NEW w \in Worker, Wait(w) \/ Exit(w) \/ SpuriousWakeup(w)
    PROVE  PoolInv'
  <1>1. UNCHANGED <<g_running, main, jobs, stop, conn, left, accepted, started>>
    BY Zenon DEF Wait, Exit, SpuriousWakeup
  <1>2. /\ worker' \in [Worker -> Client \cup {"test", "wait", "exit"}]
        /\ worker[w] \in {"test", "wait"}
        /\ worker'[w] \in {"test", "wait", "exit"}
        /\ worker'[w] = "exit" => stop /\ jobs = <<>>
        /\ \A v \in Worker \ {w} : worker'[v] = worker[v]
    BY Zenon DEF PoolInv, TypeOK, Wait, Exit, SpuriousWakeup
  <1>3. TypeOK' /\ ServedInOrder'
    BY <1>1, <1>2, Zenon DEF PoolInv, TypeOK, ServedInOrder
  <1>4. \A i \in 1 .. Len(started') : InHand(started[i])'
    <2> SUFFICES ASSUME NEW i \in 1 .. Len(started)
                 PROVE  conn[started[i]] = "closed" \/
                        \E v \in Worker : worker'[v] = started[i]
      BY <1>1, Zenon DEF InHand
    <2>1. started[i] \in Client /\ InHand(started[i])
      BY DEF PoolInv, TypeOK
    <2> QED
      BY <1>2, <2>1, ServerAssumption, Zenon DEF InHand
  <1>5. \A v \in Worker : worker'[v] = "exit" => stop' /\ jobs' = <<>>
    BY <1>1, <1>2, Zenon DEF PoolInv
  <1>6. main' \in {"close", "exit"} => \A v \in Worker : worker'[v] = "exit"
    BY <1>1, <1>2, Zenon DEF PoolInv
  <1>7. stop' <=> main' \in {"join", "close", "exit"}
    BY <1>1, Zenon DEF PoolInv
  <1> QED
    BY <1>3, <1>4, <1>5, <1>6, <1>7, Zenon DEF PoolInv

(* tp_worker takes the first job: it is in its hands from then on.         *)
LEMMA TakeStep ==
    ASSUME PoolInv, NEW w \in Worker, Take(w)
    PROVE  PoolInv'
  <1>1. /\ jobs \in Seq(Client) /\ jobs # <<>> /\ started \in Seq(Client)
        /\ worker[w] = "test"
        /\ worker \in [Worker -> Client \cup {"test", "wait", "exit"}]
    BY Zenon DEF PoolInv, TypeOK, Take
  <1>2. /\ Head(jobs) \in Client /\ Tail(jobs) \in Seq(Client)
        /\ Append(started, Head(jobs)) \o Tail(jobs) = started \o jobs
    BY <1>1, MoveHead, ZenonT(30)
  <1>3. /\ UNCHANGED <<g_running, main, stop, conn, left, accepted>>
        /\ jobs' = Tail(jobs) /\ started' = Append(started, Head(jobs))
        /\ worker' = [worker EXCEPT ![w] = Head(jobs)]
    BY Zenon DEF Take
  <1>4. /\ worker' \in [Worker -> Client \cup {"test", "wait", "exit"}]
        /\ worker'[w] = Head(jobs)
        /\ \A v \in Worker \ {w} : worker'[v] = worker[v]
    BY <1>1, <1>2, <1>3, Zenon
  <1>5. started' \in Seq(Client)
    BY <1>1, <1>2, <1>3
  <1>6. TypeOK'
    BY <1>2, <1>3, <1>4, <1>5, Zenon DEF PoolInv, TypeOK
  <1>7. ServedInOrder'
    BY <1>2, <1>3, Zenon DEF PoolInv, ServedInOrder
  <1>8. \A i \in 1 .. Len(started') : InHand(started[i])'
    <2> SUFFICES ASSUME NEW i \in 1 .. Len(started')
                 PROVE  conn[started'[i]] = "closed" \/
                        \E v \in Worker : worker'[v] = started'[i]
      BY <1>3, Zenon DEF InHand
    <2>1. CASE i = Len(started) + 1
      <3>1. started'[i] = Head(jobs)
        BY <2>1, <1>1, <1>2, <1>3
      <3> QED
        BY <3>1, <1>4, Zenon
    <2>2. CASE i # Len(started) + 1
      <3>1. i \in 1 .. Len(started) /\ started'[i] = started[i]
        BY <2>2, <1>1, <1>2, <1>3
      <3>2. started[i] \in Client /\ InHand(started[i])
        BY <3>1, <1>1 DEF PoolInv
      <3> QED
        BY <3>1, <3>2, <1>1, <1>4, ServerAssumption, Zenon DEF InHand
    <2> QED
      BY <2>1, <2>2, Zenon
  <1>9. \A v \in Worker : worker[v] # "exit" /\ worker'[v] # "exit"
    BY <1>1, <1>2, <1>4, ServerAssumption, Zenon DEF PoolInv
  <1>10. main' \notin {"close", "exit"}
    BY <1>3, <1>9, Zenon DEF PoolInv
  <1>11. stop' <=> main' \in {"join", "close", "exit"}
    BY <1>3, Zenon DEF PoolInv
  <1> QED
    BY <1>6, <1>7, <1>8, <1>9, <1>10, <1>11, Zenon DEF PoolInv

(* handle_client_unlocked closes the connection before it lets go of it.   *)
LEMMA ServeStep ==
    ASSUME PoolInv, NEW w \in Worker, handle_client_unlocked(w)
    PROVE  PoolInv'
  <1>1. /\ UNCHANGED <<g_running, main, jobs, stop, left, accepted, started>>
        /\ worker[w] \in Client /\ started \in Seq(Client)
        /\ conn' = [conn EXCEPT ![worker[w]] = "closed"]
        /\ worker' = [worker EXCEPT ![w] = "test"]
    BY Zenon DEF PoolInv, TypeOK, handle_client_unlocked
  <1>2. TypeOK' /\ ServedInOrder'
    BY <1>1, Zenon DEF PoolInv, TypeOK, ServedInOrder
  <1>3. /\ worker'[w] = "test" /\ conn'[worker[w]] = "closed"
        /\ \A v \in Worker \ {w} : worker'[v] = worker[v]
        /\ \A c \in Client : conn[c] = "closed" => conn'[c] = "closed"
    BY <1>1, Zenon DEF PoolInv, TypeOK
  <1>4. \A i \in 1 .. Len(started') : InHand(started[i])'
    <2> SUFFICES ASSUME NEW i \in 1 .. Len(started)
                 PROVE  conn'[started[i]] = "closed" \/
                        \E v \in Worker : worker'[v] = started[i]
      BY <1>1 DEF InHand
    <2>1. started[i] \in Client /\ InHand(started[i])
      BY <1>1 DEF PoolInv
    <2> QED
      BY <1>3, <2>1, Zenon DEF InHand
  <1>5. \A v \in Worker : worker'[v] = "exit" => worker[v] = "exit"
    BY <1>3, Zenon
  <1>6. main' \notin {"close", "exit"}
    BY <1>1, ServerAssumption, Zenon DEF PoolInv
  <1>7. stop' <=> main' \in {"join", "close", "exit"}
    BY <1>1, Zenon DEF PoolInv
  <1>8. \A v \in Worker : worker'[v] = "exit" => stop' /\ jobs' = <<>>
    BY <1>1, <1>5, Zenon DEF PoolInv
  <1> QED
    BY <1>2, <1>4, <1>6, <1>7, <1>8, Zenon DEF PoolInv

-----------------------------------------------------------------------------
(* PoolInv holds in every reachable state, for any clients and workers     *)
(* (main, tp_submit, tp_worker, tp_shutdown).                              *)
THEOREM PoolHolds == Spec => []PoolInv
  <1>1. PoolInv /\ [Next]_vars => PoolInv'
    <2> SUFFICES ASSUME PoolInv, [Next]_vars PROVE PoolInv'
      BY Zenon
    <2>1. CASE \E c \in Client : Connect(c) \/ Leave(c)
      BY <2>1, QuietSteps, Zenon
    <2>2. CASE handle_sigint \/ AcceptFails \/ TestRunning
      BY <2>2, QuietSteps, Zenon
    <2>3. CASE \E c \in Client : tp_submit(c)
      BY <2>3, SubmitStep, Zenon
    <2>4. CASE tp_shutdown
      BY <2>4, ShutdownStep, Zenon
    <2>5. CASE Join \/ Close
      BY <2>5, EndSteps, Zenon
    <2>6. CASE \E w \in Worker : Wait(w) \/ Exit(w) \/ SpuriousWakeup(w)
      BY <2>6, IdleSteps, Zenon
    <2>7. CASE \E w \in Worker : Take(w)
      BY <2>7, TakeStep, Zenon
    <2>8. CASE \E w \in Worker : handle_client_unlocked(w)
      BY <2>8, ServeStep, Zenon
    <2>9. CASE UNCHANGED vars
      BY <2>9, Zenon DEF PoolInv, TypeOK, ServedInOrder, InHand, vars
    <2> QED
      BY <2>1, <2>2, <2>3, <2>4, <2>5, <2>6, <2>7, <2>8, <2>9, Zenon DEF Next, Main, tp_worker
  <1> QED
    BY PoolInit, <1>1, PTL DEF Spec

(* Every variable of the server keeps its type (main, tp_worker).          *)
THEOREM TypesHold == Spec => []TypeOK
  <1>1. PoolInv => TypeOK
    BY Zenon DEF PoolInv
  <1> QED
    BY PoolHolds, <1>1, PTL

(* Whatever the number of workers, connections are served once each and in *)
(* the order in which they were accepted (tp_submit, tp_worker).           *)
THEOREM InOrder == Spec => []ServedInOrder
  <1>1. PoolInv => ServedInOrder
    BY Zenon DEF PoolInv
  <1> QED
    BY PoolHolds, <1>1, PTL

(* Whatever the number of workers, the save at the end of main comes after *)
(* the last command of the last connection (tp_shutdown, tp_worker).       *)
THEOREM SaveIsLast == Spec => []DrainedBeforeSave
  <1>1. PoolInv => DrainedBeforeSave
    <2> SUFFICES ASSUME PoolInv, main \in {"close", "exit"},
                        NEW i \in 1 .. Len(accepted)
                 PROVE  conn[accepted[i]] = "closed"
      BY Zenon DEF DrainedBeforeSave
    <2>1. \A w \in Worker : worker[w] = "exit"
      BY Zenon DEF PoolInv
    <2>2. jobs = <<>>
      BY <2>1, ServerAssumption, Zenon DEF PoolInv
    <2>3. accepted = started /\ started \in Seq(Client)
      BY <2>2 DEF PoolInv, TypeOK, ServedInOrder
    <2>4. started[i] \in Client /\ InHand(started[i])
      BY <2>3 DEF PoolInv
    <2> QED
      BY <2>1, <2>3, <2>4, ServerAssumption, Zenon DEF InHand
  <1> QED
    BY PoolHolds, <1>1, PTL
-----------------------------------------------------------------------------
(* OneOwner without counting: what workers serve and what is queued is     *)
(* open, and all of that is distinct; what is open is one or the other.    *)
Owned ==
    /\ \A w \in Worker : worker[w] \in Client =>
         /\ conn[worker[w]] = "open"
         /\ \A i \in 1 .. Len(jobs) : jobs[i] # worker[w]
         /\ \A v \in Worker : worker[v] = worker[w] => v = w
    /\ \A i \in 1 .. Len(jobs) :
         /\ conn[jobs[i]] = "open"
         /\ \A j \in 1 .. Len(jobs) : jobs[i] = jobs[j] => i = j
    /\ \A c \in Client : conn[c] = "open" =>
         (\E w \in Worker : worker[w] = c) \/ (\E i \in 1 .. Len(jobs) : jobs[i] = c)

(* What is in a list after a job is added, and after the first is taken.   *)
LEMMA JobAdded ==
    ASSUME NEW c \in Client, NEW s \in Seq(Client)
    PROVE  /\ Len(Append(s, c)) = Len(s) + 1 /\ Len(s) \in Nat
           /\ \A i \in 1 .. Len(s) : Append(s, c)[i] = s[i] /\ s[i] \in Client
           /\ Append(s, c)[Len(s) + 1] = c
  OBVIOUS

LEMMA JobTaken ==
    ASSUME NEW s \in Seq(Client), s # <<>>
    PROVE  /\ Len(Tail(s)) = Len(s) - 1 /\ Len(s) \in Nat \ {0}
           /\ Head(s) = s[1] /\ Head(s) \in Client
           /\ \A i \in 1 .. Len(s) - 1 : Tail(s)[i] = s[i + 1]
           /\ \A i \in 1 .. Len(s) : s[i] \in Client
  OBVIOUS

(* A step that keeps the queue, and the open connections and who serves    *)
(* them.                                                                   *)
LEMMA OwnedStays ==
    ASSUME TypeOK, TypeOK', Owned, UNCHANGED jobs,
           \A c \in Client : conn'[c] = "open" <=> conn[c] = "open",
           \A w \in Worker, c \in Client : worker'[w] = c <=> worker[w] = c
    PROVE  Owned'
  <1>1. \A i \in 1 .. Len(jobs) : jobs[i] \in Client
    BY DEF TypeOK
  <1>2. ASSUME NEW w \in Worker, worker'[w] \in Client
        PROVE  /\ conn'[worker'[w]] = "open" /\ \A i \in 1 .. Len(jobs) : jobs[i] # worker'[w]
               /\ \A v \in Worker : worker'[v] = worker'[w] => v = w
    <2>1. worker[w] = worker'[w]
      BY <1>2, Zenon
    <2>2. \A v \in Worker : worker'[v] = worker'[w] => worker[v] = worker[w]
      BY <1>2, <2>1, Zenon
    <2> QED
      BY <1>2, <2>1, <2>2 DEF Owned
  <1>3. ASSUME NEW i \in 1 .. Len(jobs)
        PROVE  conn'[jobs[i]] = "open"
    BY <1>1, Zenon DEF Owned
  <1>4. ASSUME NEW c \in Client, conn'[c] = "open"
        PROVE  (\E w \in Worker : worker'[w] = c) \/ (\E i \in 1 .. Len(jobs) : jobs[i] = c)
    BY <1>4 DEF Owned
  <1> QED
    BY <1>2, <1>3, <1>4 DEF Owned

(* tp_submit: the client was in the backlog, so neither queued nor served. *)
LEMMA OwnedSubmit ==
    ASSUME PoolInv, PoolInv', Owned, NEW c \in Client, tp_submit(c)
    PROVE  Owned'
  <1>1. /\ jobs \in Seq(Client) /\ conn[c] = "backlog" /\ jobs' = Append(jobs, c)
        /\ conn' = [conn EXCEPT ![c] = "open"]
    BY Zenon DEF PoolInv, TypeOK, tp_submit
  <1>2. conn'[c] = "open" /\ \A d \in Client \ {c} : conn'[d] = conn[d]
    BY <1>1, Zenon DEF PoolInv, TypeOK
  <1>3. \A w \in Worker, d \in Client : worker'[w] = d <=> worker[w] = d
    BY ServerAssumption DEF PoolInv, TypeOK, tp_submit, Signalled, Waiting
  <1>4. /\ Len(jobs') = Len(jobs) + 1 /\ Len(jobs) \in Nat
        /\ \A i \in 1 .. Len(jobs) : jobs'[i] = jobs[i] /\ jobs[i] \in Client
        /\ jobs'[Len(jobs) + 1] = c
    BY <1>1, JobAdded, ZenonT(30)
  <1>5. /\ \A i \in 1 .. Len(jobs) : jobs[i] # c
        /\ \A w \in Worker : worker[w] # c
    BY <1>1, Zenon DEF Owned
  <1>6. \A i \in 1 .. Len(jobs') : i \in 1 .. Len(jobs) \/ i = Len(jobs) + 1
    BY <1>4
  <1>7. ASSUME NEW w \in Worker, worker'[w] \in Client
        PROVE  /\ conn'[worker'[w]] = "open" /\ \A i \in 1 .. Len(jobs') : jobs'[i] # worker'[w]
               /\ \A v \in Worker : worker'[v] = worker'[w] => v = w
    <2>1. worker[w] = worker'[w] /\ worker[w] # c
      BY <1>3, <1>5, <1>7, Zenon
    <2>2. \A v \in Worker : worker'[v] = worker'[w] => worker[v] = worker[w]
      BY <1>3, <1>7, <2>1, Zenon
    <2>3. \A i \in 1 .. Len(jobs') : jobs'[i] # worker'[w]
      BY <1>4, <1>6, <1>7, <2>1 DEF Owned
    <2> QED
      BY <1>2, <1>7, <2>1, <2>2, <2>3 DEF Owned
  <1>8. ASSUME NEW i \in 1 .. Len(jobs')
        PROVE  conn'[jobs'[i]] = "open" /\ \A j \in 1 .. Len(jobs') : jobs'[i] = jobs'[j] => i = j
    BY <1>2, <1>4, <1>5, <1>6 DEF Owned
  <1>9. ASSUME NEW d \in Client, conn'[d] = "open"
        PROVE  (\E w \in Worker : worker'[w] = d) \/ (\E i \in 1 .. Len(jobs') : jobs'[i] = d)
    <2>1. \A i \in 1 .. Len(jobs) : i \in 1 .. Len(jobs')
      BY <1>4
    <2>2. Len(jobs) + 1 \in 1 .. Len(jobs')
      BY <1>4
    <2> QED
      BY <1>2, <1>3, <1>4, <1>9, <2>1, <2>2 DEF Owned
  <1> QED
    BY <1>7, <1>8, <1>9, Zenon DEF Owned

(* tp_worker takes the first job.                                          *)
LEMMA OwnedTake ==
    ASSUME PoolInv, PoolInv', Owned, NEW w \in Worker, Take(w)
    PROVE  Owned'
  <1>1. /\ jobs \in Seq(Client) /\ jobs # <<>> /\ worker[w] = "test"
        /\ jobs' = Tail(jobs) /\ worker' = [worker EXCEPT ![w] = Head(jobs)]
        /\ conn' = conn
    BY Zenon DEF PoolInv, TypeOK, Take
  <1>2. /\ Len(jobs') = Len(jobs) - 1 /\ Len(jobs) \in Nat \ {0}
        /\ Head(jobs) = jobs[1] /\ Head(jobs) \in Client
        /\ \A i \in 1 .. Len(jobs) - 1 : jobs'[i] = jobs[i + 1]
        /\ \A i \in 1 .. Len(jobs) : jobs[i] \in Client
    BY <1>1, JobTaken, Zenon
  <1>3. /\ worker'[w] = jobs[1] /\ worker[w] \notin Client
        /\ \A v \in Worker \ {w} : worker'[v] = worker[v]
    BY <1>1, <1>2, ServerAssumption, ZenonT(30) DEF PoolInv, TypeOK
  <1>4. 1 \in 1 .. Len(jobs)
    BY <1>2
  <1>5. \A i \in 1 .. Len(jobs') : /\ i + 1 \in 1 .. Len(jobs) /\ i + 1 # 1
                                   /\ jobs'[i] = jobs[i + 1]
    BY <1>2
  <1>6. ASSUME NEW v \in Worker, worker'[v] \in Client
        PROVE  /\ conn[worker'[v]] = "open" /\ \A i \in 1 .. Len(jobs') : jobs'[i] # worker'[v]
               /\ \A u \in Worker : worker'[u] = worker'[v] => u = v
    <2>1. CASE v = w
      BY <1>2, <1>3, <1>4, <1>5, <2>1 DEF Owned
    <2>2. CASE v # w
      BY <1>2, <1>3, <1>4, <1>5, <1>6, <2>2 DEF Owned
    <2> QED
      BY <2>1, <2>2, Zenon
  <1>7. ASSUME NEW i \in 1 .. Len(jobs')
        PROVE  conn[jobs'[i]] = "open" /\ \A j \in 1 .. Len(jobs') : jobs'[i] = jobs'[j] => i = j
    <2>1. conn[jobs'[i]] = "open"
      BY <1>5 DEF Owned
    <2>2. ASSUME NEW j \in 1 .. Len(jobs'), jobs'[i] = jobs'[j] PROVE i = j
      <3>1. i + 1 = j + 1
        BY <1>5, <2>2 DEF Owned
      <3> QED
        BY <1>2, <3>1
    <2> QED
      BY <2>1, <2>2, Zenon
  <1>8. ASSUME NEW c \in Client, conn[c] = "open"
        PROVE  (\E v \in Worker : worker'[v] = c) \/ (\E i \in 1 .. Len(jobs') : jobs'[i] = c)
    <2>1. CASE \E v \in Worker : worker[v] = c
      BY <1>3, <2>1, Zenon
    <2>2. ASSUME NEW i \in 1 .. Len(jobs), jobs[i] = c
          PROVE  worker'[w] = c \/ \E j \in 1 .. Len(jobs') : jobs'[j] = c
      <3>1. i = 1 \/ (i - 1 \in 1 .. Len(jobs') /\ jobs'[i - 1] = jobs[i])
        BY <1>2
      <3> QED
        BY <1>3, <2>2, <3>1, Zenon
    <2> QED
      BY <1>8, <2>1, <2>2, Zenon DEF Owned
  <1> QED
    BY <1>1, <1>6, <1>7, <1>8, Zenon DEF Owned

(* handle_client_unlocked: the connection and the worker part.             *)
LEMMA OwnedServe ==
    ASSUME PoolInv, PoolInv', Owned, NEW w \in Worker, handle_client_unlocked(w)
    PROVE  Owned'
  <1> DEFINE c == worker[w]
  <1>1. /\ c \in Client /\ jobs' = jobs
        /\ conn' = [conn EXCEPT ![c] = "closed"] /\ worker' = [worker EXCEPT ![w] = "test"]
    BY Zenon DEF PoolInv, TypeOK, handle_client_unlocked
  <1>2. /\ conn'[c] = "closed" /\ \A d \in Client \ {c} : conn'[d] = conn[d]
        /\ worker'[w] \notin Client /\ \A v \in Worker \ {w} : worker'[v] = worker[v]
        /\ \A i \in 1 .. Len(jobs) : jobs[i] \in Client
    BY <1>1, ServerAssumption DEF PoolInv, TypeOK
  <1>3. /\ \A i \in 1 .. Len(jobs) : jobs[i] # c
        /\ \A v \in Worker : worker[v] = c => v = w
    BY <1>1, Zenon DEF Owned
  <1>4. ASSUME NEW v \in Worker, worker'[v] \in Client
        PROVE  /\ conn'[worker'[v]] = "open" /\ \A i \in 1 .. Len(jobs) : jobs[i] # worker'[v]
               /\ \A u \in Worker : worker'[u] = worker'[v] => u = v
    BY <1>2, <1>3, <1>4 DEF Owned
  <1>5. \A i \in 1 .. Len(jobs) : conn'[jobs[i]] = "open"
    BY <1>2, <1>3 DEF Owned
  <1>6. ASSUME NEW d \in Client, conn'[d] = "open"
        PROVE  (\E v \in Worker : worker'[v] = d) \/ (\E i \in 1 .. Len(jobs) : jobs[i] = d)
    <2>1. d # c /\ conn[d] = "open"
      BY <1>2, <1>6, Zenon
    <2> QED
      BY <1>2, <2>1 DEF Owned
  <1> QED
    BY <1>1, <1>4, <1>5, <1>6 DEF Owned

(* Every step keeps a connection in one place.                             *)
LEMMA OwnedStep ==
    ASSUME PoolInv, PoolInv', Owned, [Next]_vars
    PROVE  Owned'
  <1>0. TypeOK /\ TypeOK'
    BY Zenon DEF PoolInv
  <1>1. CASE \E c \in Client : tp_submit(c)
    BY <1>1, OwnedSubmit, Zenon
  <1>2. CASE \E w \in Worker : Take(w)
    BY <1>2, OwnedTake, Zenon
  <1>3. CASE \E w \in Worker : handle_client_unlocked(w)
    BY <1>3, OwnedServe, Zenon
  <1>4. CASE \/ \E c \in Client : Connect(c) \/ Leave(c)
             \/ handle_sigint \/ AcceptFails \/ TestRunning \/ tp_shutdown \/ Join \/ Close
             \/ \E w \in Worker : Wait(w) \/ Exit(w) \/ SpuriousWakeup(w)
             \/ UNCHANGED vars
    <2>1. UNCHANGED jobs
      BY <1>4, Zenon DEF Connect, Leave, handle_sigint, AcceptFails, TestRunning, tp_shutdown,
                  Join, Close, Wait, Exit, SpuriousWakeup, vars
    <2>2. \A c \in Client : conn'[c] = "open" <=> conn[c] = "open"
      BY <1>0, <1>4 DEF TypeOK, Connect, Leave, handle_sigint, AcceptFails, TestRunning,
                  tp_shutdown, Join, Close, Wait, Exit, SpuriousWakeup, vars
    <2>3. \A w \in Worker, c \in Client : worker'[w] = c <=> worker[w] = c
      BY <1>0, <1>4, ServerAssumption
         DEF TypeOK, Connect, Leave, handle_sigint, AcceptFails, TestRunning,
             tp_shutdown, Waiting, Join, Close, Wait, Exit, SpuriousWakeup, vars
    <2> QED
      BY <1>0, <2>1, <2>2, <2>3, OwnedStays, Zenon
  <1> QED
    BY <1>1, <1>2, <1>3, <1>4, Zenon DEF Next, Main, tp_worker

(* A set that has c at one place only, or nowhere, counted.                *)
LEMMA CountOne ==
    ASSUME NEW S, \A x, y \in S : x = y
    PROVE  Cardinality(S) = IF S = {} THEN 0 ELSE 1
  <1>1. CASE S = {}
    BY <1>1, FS_EmptySet, Zenon
  <1>2. CASE S # {}
    <2>1. PICK x : S = {x}
      BY <1>2
    <2> QED
      BY <1>2, <2>1, FS_Singleton, Zenon
  <1> QED
    BY <1>1, <1>2, Zenon

(* However many clients and workers there are, a connection is open as     *)
(* long as it is in the queue once or with one worker (tp_submit,          *)
(* tp_worker).                                                             *)
THEOREM OwnersAreSingle == Spec => []OneOwner
  <1>1. Init => Owned
    BY ServerAssumption DEF Init, Owned
  <1>2. ASSUME TypeOK, Owned PROVE OneOwner
    <2> SUFFICES ASSUME NEW c \in Client
                 PROVE  Cardinality({w \in Worker : worker[w] = c})
                          + Cardinality({i \in 1 .. Len(jobs) : jobs[i] = c})
                        = (IF conn[c] = "open" THEN 1 ELSE 0)
      BY Zenon DEF OneOwner
    <2> DEFINE servers == {w \in Worker : worker[w] = c}
               queued  == {i \in 1 .. Len(jobs) : jobs[i] = c}
    <2>1. /\ \A v, w \in servers : v = w
          /\ \A i, j \in queued : i = j
      BY <1>2 DEF Owned
    <2>2. servers = {} \/ queued = {}
      BY <1>2 DEF Owned
    <2>3. conn[c] = "open" <=> ~(servers = {} /\ queued = {})
      BY <1>2 DEF Owned
    <2> HIDE DEF servers, queued
    <2>4. /\ Cardinality(servers) = IF servers = {} THEN 0 ELSE 1
          /\ Cardinality(queued) = IF queued = {} THEN 0 ELSE 1
      BY <2>1, CountOne, Zenon
    <2>5. Cardinality(servers) + Cardinality(queued) = (IF conn[c] = "open" THEN 1 ELSE 0)
      BY <2>2, <2>3, <2>4
    <2> QED
      BY <2>5, Zenon DEF servers, queued
  <1>3. PoolInv => TypeOK
    BY Zenon DEF PoolInv
  <1>4. Owned /\ PoolInv /\ PoolInv' /\ [Next]_vars => Owned'
    BY OwnedStep, Zenon
  <1>5. Owned /\ PoolInv => OneOwner
    BY <1>2, <1>3, Zenon
  <1> QED
    BY <1>1, <1>4, <1>5, PoolHolds, PTL DEF Spec

-----------------------------------------------------------------------------
(* The workers that look at the list before they sleep.                    *)
Awake == {w \in Worker : worker[w] = "test"}

(* They can be counted, for the pool is finite.                            *)
LEMMA Counted ==
    /\ IsFiniteSet(Awake) /\ IsFiniteSet(Awake')
    /\ Cardinality(Awake) \in Nat /\ Cardinality(Awake') \in Nat
  <1>1. IsFiniteSet(Awake) /\ IsFiniteSet(Awake')
    BY ServerAssumption, FS_Subset, Zenon DEF Awake
  <1> QED
    BY <1>1, FS_CardinalityType, Zenon

(* A worker that begins, or ceases, to look at the list.                   *)
LEMMA OneMoreAwake ==
    ASSUME NEW w, w \notin Awake, Awake' = Awake \cup {w}
    PROVE  Cardinality(Awake') = Cardinality(Awake) + 1
  BY Counted, FS_AddElement, Zenon

LEMMA OneLessAwake ==
    ASSUME NEW w \in Awake, Awake' = Awake \ {w}
    PROVE  Cardinality(Awake') = Cardinality(Awake) - 1
  BY Counted, FS_RemoveElement, Zenon

(* While somebody sleeps, there are at most as many jobs as workers that   *)
(* look: a signal adds one of each, and a worker that takes a job takes one *)
(* of each away.                                                           *)
LEMMA SleepStep ==
    ASSUME TypeOK, NoSleepOnWork, [Next]_vars
    PROVE  NoSleepOnWork'
  <1> SUFFICES ASSUME Waiting' # {} PROVE Len(jobs') <= Cardinality(Awake')
    BY Zenon DEF NoSleepOnWork, Awake
  <1>1. Len(jobs) \in Nat /\ worker \in [Worker -> Client \cup {"test", "wait", "exit"}]
    BY DEF TypeOK
  <1>2. Waiting # {} => Len(jobs) <= Cardinality(Awake)
    BY Zenon DEF NoSleepOnWork, Awake
  <1>3. ASSUME NEW c \in Client, tp_submit(c) PROVE Len(jobs') <= Cardinality(Awake')
    <2>1. Len(jobs') = Len(jobs) + 1
      BY <1>3, JobAdded, Zenon DEF TypeOK, tp_submit
    <2>2. Waiting # {}
      BY <1>3, Zenon DEF tp_submit, Signalled, Waiting
    <2>3. PICK w \in Waiting : worker' = [worker EXCEPT ![w] = "test"]
      BY <1>3, <2>2, Zenon DEF tp_submit, Signalled
    <2>4. w \notin Awake /\ Awake' = Awake \cup {w}
      BY <1>1, <2>3, Zenon DEF Awake, Waiting
    <2>5. Cardinality(Awake') = Cardinality(Awake) + 1
      BY <2>4, OneMoreAwake, Zenon
    <2> QED
      BY <1>1, <1>2, <2>1, <2>2, <2>5, Counted
  <1>4. ASSUME NEW w \in Worker, Take(w) PROVE Len(jobs') <= Cardinality(Awake')
    <2>1. Len(jobs') = Len(jobs) - 1 /\ Head(jobs) \in Client
      BY <1>4, JobTaken, Zenon DEF TypeOK, Take
    <2>2. worker[w] = "test" /\ worker' = [worker EXCEPT ![w] = Head(jobs)]
      BY <1>4, Zenon DEF Take
    <2>3. w \in Awake /\ Awake' = Awake \ {w} /\ Waiting' = Waiting
      BY <1>1, <2>1, <2>2, ServerAssumption, Zenon DEF Awake, Waiting
    <2>4. Cardinality(Awake') = Cardinality(Awake) - 1
      BY <2>3, OneLessAwake, Zenon
    <2> QED
      BY <1>1, <1>2, <2>1, <2>3, <2>4, Counted
  <1>5. ASSUME NEW w \in Worker, handle_client_unlocked(w) \/ SpuriousWakeup(w)
        PROVE  Len(jobs') <= Cardinality(Awake')
    <2>1. /\ worker[w] # "test" /\ jobs' = jobs
          /\ worker' = [worker EXCEPT ![w] = "test"]
      BY <1>5, ServerAssumption, Zenon DEF TypeOK, handle_client_unlocked, SpuriousWakeup
    <2>2. w \notin Awake /\ Awake' = Awake \cup {w} /\ Waiting' \subseteq Waiting
      BY <1>1, <2>1, Zenon DEF Awake, Waiting
    <2>3. Cardinality(Awake') = Cardinality(Awake) + 1
      BY <2>2, OneMoreAwake, Zenon
    <2> QED
      BY <1>1, <1>2, <2>1, <2>2, <2>3, Counted
  <1>6. ASSUME NEW w \in Worker, Wait(w) \/ Exit(w) PROVE Len(jobs') <= Cardinality(Awake')
    <2>1. Len(jobs') = 0
      BY <1>6 DEF Wait, Exit
    <2> QED
      BY <2>1, Counted
  <1>7. CASE tp_shutdown
    BY <1>7, Zenon DEF tp_shutdown, Waiting
  <1>8. CASE \/ \E c \in Client : Connect(c) \/ Leave(c)
             \/ handle_sigint \/ AcceptFails \/ TestRunning \/ Join \/ Close
             \/ UNCHANGED vars
    <2>1. UNCHANGED <<jobs, worker>>
      BY <1>8, Zenon DEF Connect, Leave, handle_sigint, AcceptFails, TestRunning, Join, Close, vars
    <2> QED
      BY <1>2, <2>1, Zenon DEF Waiting, Awake
  <1> QED
    BY <1>3, <1>4, <1>5, <1>6, <1>7, <1>8, Zenon DEF Next, Main, tp_worker

(* However many clients and workers there are, no job waits for a worker   *)
(* that sleeps: one signal per job is enough (tp_submit, tp_worker).       *)
THEOREM WorkIsNoticed == Spec => []NoSleepOnWork
  <1>1. Init => NoSleepOnWork
    BY Zenon DEF Init, NoSleepOnWork, Waiting
  <1>2. TypeOK /\ NoSleepOnWork /\ [Next]_vars => NoSleepOnWork'
    BY SleepStep, Zenon
  <1> QED
    BY <1>1, <1>2, TypesHold, PTL DEF Spec

-----------------------------------------------------------------------------
(***************************************************************************)
(* Proofs about Session, for every set of commands, every size of the      *)
(* buffers and every way of cutting the stream into pieces: the server     *)
(* handles the lines that were sent, and the client takes each reply for   *)
(* the command it answers.                                                 *)
(***************************************************************************)

-----------------------------------------------------------------------------
(* The inductive invariant.                                                *)

Mark == [kind : Kinds \cup {"nl"}, of : Nat]
PartType == [t : {"line", "err", "big", "char", "array"}, n : Nat, of : Nat]

Types ==
    /\ sent \in Seq(Command) /\ wire \in Seq(Mark)
    /\ srv \in {"read", "lines", "closed"} /\ rx \in Seq(Mark)
    /\ subscribed \in BOOLEAN /\ listening \in BOOLEAN /\ msgs \in Nat
    /\ handled \in Seq([kind : Kinds, len : Nat])
    /\ replies \in Seq(PartType)

(* The stream from the server's buffer on: what is in rxbuf, then what is  *)
(* still under way.                                                        *)
Size(buf, way) == Len(buf) + Len(way)
Char(buf, way, k) == IF k <= Len(buf) THEN buf[k] ELSE way[k - Len(buf)]

(* Lines h + 1 to n of the commands q lie in the stream, one after the     *)
(* other and nothing else: line i from b[i] + 1 to b[i + 1].               *)
Frames(b, buf, way, h, q) ==
    /\ b[h + 1] = 0 /\ b[Len(q) + 1] = Size(buf, way)
    /\ \A i, j \in (h + 1) .. (Len(q) + 1) : i <= j => b[i] <= b[j]
    /\ \A i \in (h + 1) .. Len(q) :
         /\ b[i + 1] = b[i] + q[i].len + 1
         /\ \A k \in (b[i] + 1) .. (b[i + 1] - 1) :
              Char(buf, way, k) = [kind |-> q[i].kind, of |-> i]
         /\ Char(buf, way, b[i + 1]) = [kind |-> "nl", of |-> i]

Framed(buf, way, h, q) ==
    \E b \in [(h + 1) .. (Len(q) + 1) -> Nat] : Frames(b, buf, way, h, q)

(* As long as the server reads, the stream is the lines it has yet to      *)
(* handle.                                                                 *)
Stream == srv # "closed" => Framed(rx, wire, Len(handled), sent)

LinesInv == Types /\ LinesIntact /\ Stream

-----------------------------------------------------------------------------
(* The stream.                                                             *)

(* A nonempty set of naturals has a least element: a buffer with an end    *)
(* of line has a first one.                                                *)
LEMMA LeastNat ==
    ASSUME NEW T \in SUBSET Nat, T # {}
    PROVE  \E x \in T : \A y \in T : x <= y
<1> DEFINE R == {ss \in Nat \X Nat : ss[1] < ss[2]}
<1>1. IsWellFoundedOn(R, Nat)
  BY NatLessThanWellFounded, Zenon DEF OpToRel
<1> HIDE DEF R
<1>2. PICK x \in T : \A y \in T : ~(<<y, x>> \in R)
  BY <1>1, WFMin, Zenon
<1>3. ASSUME NEW y \in T PROVE x <= y
  <2>1. x \in Nat /\ y \in Nat
    BY Zenon
  <2>2. ASSUME y < x PROVE FALSE
    <3>1. <<y, x>> \in R
      BY <2>1, <2>2, Zenon DEF R
    <3> QED
      BY <1>2, <3>1, Zenon
  <2> QED
    BY <2>1, <2>2
<1> QED
  BY <1>2, <1>3, Zenon

(* e is the place of the first end of line.                                *)
FirstEnd(buf, e) ==
    /\ e \in 1 .. Len(buf) /\ buf[e].kind = "nl"
    /\ \A k \in 1 .. Len(buf) : buf[k].kind = "nl" => e <= k

(* The first end of line of the buffer is that of the first line.          *)
LEMMA FirstLine ==
    ASSUME NEW buf \in Seq(Mark), NEW way \in Seq(Mark),
           NEW h \in Nat, NEW q \in Seq(Command), h <= Len(q),
           NEW b \in [(h + 1) .. (Len(q) + 1) -> Nat], Frames(b, buf, way, h, q),
           NEW e, FirstEnd(buf, e)
    PROVE  /\ h < Len(q) /\ e = q[h + 1].len + 1
           /\ buf[1].kind = q[h + 1].kind /\ buf[1].of = h + 1
<1>1. Len(q) \in Nat /\ Len(buf) \in Nat /\ Len(way) \in Nat
  OBVIOUS
<1>0. /\ e \in 1 .. Len(buf) /\ buf[e].kind = "nl"
      /\ \A k \in 1 .. Len(buf) : buf[k].kind = "nl" => e <= k
  BY Zenon DEF FirstEnd
<1>2. h < Len(q)
  <2>1. CASE h = Len(q)
    BY <2>1, <1>0, <1>1 DEF Frames, Size
  <2>2. QED
    BY <2>1, <1>1
<1>3. q[h + 1] \in [kind : Kinds, len : Nat \ {0}]
  BY <1>1, <1>2, SessionAssumption
<1> DEFINE len == q[h + 1].len
<1>5. len \in Nat \ {0} /\ q[h + 1].kind \in Kinds
  BY <1>3, Zenon
<1>4. b[h + 1] = 0 /\ b[h + 2] = len + 1
  <2>1. h + 1 \in (h + 1) .. Len(q) /\ (h + 1) + 1 = h + 2
    BY <1>1, <1>2
  <2>2. b[h + 1] = 0 /\ b[(h + 1) + 1] = b[h + 1] + q[h + 1].len + 1
    BY <2>1, Zenon DEF Frames
  <2>3. QED
    BY <2>1, <2>2, <1>5
<1>6. /\ \A k \in 1 .. len : Char(buf, way, k) = [kind |-> q[h + 1].kind, of |-> h + 1]
      /\ Char(buf, way, len + 1) = [kind |-> "nl", of |-> h + 1]
  <2>1. h + 1 \in (h + 1) .. Len(q) /\ (h + 1) + 1 = h + 2
    BY <1>1, <1>2
  <2>2. /\ \A k \in (b[h + 1] + 1) .. (b[(h + 1) + 1] - 1) :
             Char(buf, way, k) = [kind |-> q[h + 1].kind, of |-> h + 1]
        /\ Char(buf, way, b[(h + 1) + 1]) = [kind |-> "nl", of |-> h + 1]
    BY <2>1, Zenon DEF Frames
  <2>3. b[(h + 1) + 1] = len + 1 /\ b[h + 1] + 1 = 1
    BY <2>1, <1>4
  <2>4. (len + 1) - 1 = len
    BY <1>5
  <2> HIDE DEF len
  <2>5. QED
    BY <2>2, <2>3, <2>4, Zenon
<1> HIDE DEF len
<1>7. ~(e <= len)
  <2>1. "nl" \notin Kinds
    BY Zenon DEF Kinds, Channels
  <2>2. SUFFICES ASSUME e <= len PROVE FALSE
    BY Zenon
  <2>3. Char(buf, way, e) = buf[e]
    BY <1>0, <1>1 DEF Char
  <2>4. QED
    BY <1>0, <1>5, <1>6, <2>1, <2>2, <2>3
<1>8. ~(e > len + 1)
  <2>1. SUFFICES ASSUME e > len + 1 PROVE FALSE
    BY Zenon
  <2>2. len + 1 \in 1 .. Len(buf)
    BY <1>0, <1>1, <1>5, <2>1
  <2>3. buf[len + 1].kind = "nl"
    BY <1>6, <2>2 DEF Char
  <2>4. QED
    BY <1>0, <2>1, <2>2, <2>3, <1>5
<1>9. e = len + 1
  BY <1>0, <1>5, <1>7, <1>8
<1>10. buf[1] = Char(buf, way, 1)
  BY <1>0, <1>1 DEF Char
<1>11. buf[1].kind = q[h + 1].kind /\ buf[1].of = h + 1
  <2>1. 1 \in 1 .. len
    BY <1>5
  <2>2. QED
    BY <1>6, <1>10, <2>1
<1>12. QED
  BY <1>2, <1>9, <1>11, Zenon DEF len

(* A line of l characters from x + 1 to y, moved by e places.              *)
LEMMA Shift ==
    ASSUME NEW x \in Nat, NEW y \in Nat, NEW l \in Nat, NEW e \in Nat,
           x >= e, y = x + l + 1
    PROVE  /\ y - e = (x - e) + l + 1 /\ x - e \in Nat
           /\ y - e \in Nat \ {0} /\ (y - e) + e = y
           /\ \A k \in ((x - e) + 1) .. ((y - e) - 1) :
                k \in Nat \ {0} /\ k + e \in (x + 1) .. (y - 1)
  OBVIOUS

(* The rest of the buffer after the first line holds the next lines.       *)
LEMMA FrameTail ==
    ASSUME NEW buf \in Seq(Mark), NEW way \in Seq(Mark),
           NEW h \in Nat, NEW q \in Seq(Command), h < Len(q),
           NEW b \in [(h + 1) .. (Len(q) + 1) -> Nat], Frames(b, buf, way, h, q),
           NEW e \in 1 .. Len(buf), b[h + 2] = e
    PROVE  Framed(SubSeq(buf, e + 1, Len(buf)), way, h + 1, q)
<1> DEFINE m   == Len(q)
           new == SubSeq(buf, e + 1, Len(buf))
           a   == [i \in (h + 2) .. (m + 1) |-> b[i] - e]
<1>1. m \in Nat /\ Len(buf) \in Nat /\ Len(way) \in Nat
  OBVIOUS
<1>2. new \in Seq(Mark) /\ Len(new) = Len(buf) - e
  BY <1>1
<1>3. \A k \in 1 .. Len(new) : new[k] = buf[k + e]
  BY <1>1, <1>2
<1>4. \A i \in (h + 2) .. (m + 1) : b[i] \in Nat /\ b[i] >= e
  <2>1. TAKE i \in (h + 2) .. (m + 1)
  <2>2. i \in (h + 1) .. (m + 1) /\ h + 2 \in (h + 1) .. (m + 1) /\ h + 2 <= i
    BY <1>1
  <2>3. b[h + 2] <= b[i]
    BY <2>2, Zenon DEF Frames
  <2>4. QED
    BY <2>2, <2>3, Zenon
<1>5. \A k \in Nat \ {0} : Char(new, way, k) = Char(buf, way, k + e)
  <2> HIDE DEF new
  <2>1. TAKE k \in Nat \ {0}
  <2>2. CASE k <= Len(new)
    <3>1. k \in 1 .. Len(new) /\ k + e <= Len(buf)
      BY <1>1, <1>2, <2>2
    <3>2. QED
      BY <1>3, <2>2, <3>1, Zenon DEF Char
  <2>3. CASE ~(k <= Len(new))
    <3>1. ~(k + e <= Len(buf)) /\ k - Len(new) = (k + e) - Len(buf)
      BY <1>1, <1>2, <2>3
    <3>2. QED
      BY <2>3, <3>1, Zenon DEF Char
  <2>4. QED
    BY <2>2, <2>3, Zenon
<1> HIDE DEF new
<1>6. a \in [((h + 1) + 1) .. (m + 1) -> Nat]
  BY <1>1, <1>4
<1>7. Frames(a, new, way, h + 1, q)
  <2>1. a[(h + 1) + 1] = 0
    BY <1>1
  <2>2. a[m + 1] = Size(new, way)
    <3>1. b[m + 1] = Size(buf, way)
      BY Zenon DEF Frames
    <3>2. a[m + 1] = b[m + 1] - e
      BY <1>1
    <3> HIDE DEF a, m
    <3>3. QED
      BY <1>1, <1>2, <3>1, <3>2 DEF Size
  <2>3. \A i, j \in ((h + 1) + 1) .. (m + 1) : i <= j => a[i] <= a[j]
    <3>1. TAKE i, j \in ((h + 1) + 1) .. (m + 1)
    <3>2. HAVE i <= j
    <3>3. i \in (h + 1) .. (m + 1) /\ j \in (h + 1) .. (m + 1)
      BY <1>1
    <3>4. b[i] <= b[j]
      BY <3>2, <3>3, Zenon DEF Frames
    <3>5. a[i] = b[i] - e /\ a[j] = b[j] - e /\ b[i] \in Nat /\ b[j] \in Nat
      BY <1>1, <1>4
    <3> HIDE DEF a
    <3>6. QED
      BY <3>4, <3>5
  <2>4. ASSUME NEW i \in ((h + 1) + 1) .. m
        PROVE  /\ a[i + 1] = a[i] + q[i].len + 1
               /\ \A k \in (a[i] + 1) .. (a[i + 1] - 1) :
                    Char(new, way, k) = [kind |-> q[i].kind, of |-> i]
               /\ Char(new, way, a[i + 1]) = [kind |-> "nl", of |-> i]
    <3>1. /\ i \in (h + 1) .. m
          /\ i \in (h + 2) .. (m + 1) /\ i + 1 \in (h + 2) .. (m + 1)
      BY <1>1
    <3>2. /\ b[i + 1] = b[i] + q[i].len + 1
          /\ \A k \in (b[i] + 1) .. (b[i + 1] - 1) :
               Char(buf, way, k) = [kind |-> q[i].kind, of |-> i]
          /\ Char(buf, way, b[i + 1]) = [kind |-> "nl", of |-> i]
      BY <3>1, Zenon DEF Frames
    <3>3. a[i] = b[i] - e /\ a[i + 1] = b[i + 1] - e
      BY <3>1, Zenon
    <3>4. b[i] \in Nat /\ b[i + 1] \in Nat /\ b[i] >= e /\ b[i + 1] >= e
      BY <3>1, <1>4, Zenon
    <3>5. q[i].len \in Nat \ {0} /\ e \in Nat /\ i \in Nat
      <4>1. i \in 1 .. Len(q)
        BY <3>1, <1>1
      <4>2. q[i] \in Command
        BY <4>1
      <4>3. q[i] \in [kind : Kinds, len : Nat \ {0}]
        BY <4>2, SessionAssumption, Zenon
      <4>4. QED
        BY <4>1, <4>3, <1>1
    <3> HIDE DEF a, m
    <3>6. /\ a[i + 1] = a[i] + q[i].len + 1 /\ a[i] \in Nat
          /\ a[i + 1] \in Nat \ {0} /\ a[i + 1] + e = b[i + 1]
          /\ \A k \in (a[i] + 1) .. (a[i + 1] - 1) :
               k \in Nat \ {0} /\ k + e \in (b[i] + 1) .. (b[i + 1] - 1)
      <4> DEFINE x == b[i]
                 y == b[i + 1]
                 l == q[i].len
      <4>1. x \in Nat /\ y \in Nat /\ l \in Nat /\ e \in Nat /\ x >= e /\ y = x + l + 1
        BY <3>2, <3>4, <3>5, Zenon
      <4> HIDE DEF x, y, l
      <4>2. /\ y - e = (x - e) + l + 1 /\ x - e \in Nat
            /\ y - e \in Nat \ {0} /\ (y - e) + e = y
            /\ \A k \in ((x - e) + 1) .. ((y - e) - 1) :
                 k \in Nat \ {0} /\ k + e \in (x + 1) .. (y - 1)
        BY <4>1, Shift
      <4>3. a[i] = x - e /\ a[i + 1] = y - e
        BY <3>3, Zenon DEF x, y
      <4>4. QED
        BY <4>2, <4>3, Zenon DEF x, y, l
    <3>7. ASSUME NEW k \in (a[i] + 1) .. (a[i + 1] - 1)
          PROVE  Char(new, way, k) = [kind |-> q[i].kind, of |-> i]
      <4>1. k \in Nat \ {0} /\ k + e \in (b[i] + 1) .. (b[i + 1] - 1)
        BY <3>6, <3>7, Zenon
      <4>2. QED
        BY <1>5, <3>2, <4>1, Zenon
    <3>8. Char(new, way, a[i + 1]) = [kind |-> "nl", of |-> i]
      <4>1. a[i + 1] \in Nat \ {0} /\ a[i + 1] + e = b[i + 1]
        BY <3>6, Zenon
      <4>2. QED
        BY <1>5, <3>2, <4>1, Zenon
    <3>9. QED
      BY <3>6, <3>7, <3>8, Zenon
  <2> HIDE DEF a
  <2>5. QED
    BY <2>1, <2>2, <2>3, <2>4, Zenon DEF Frames
<1> HIDE DEF a
<1>8. QED
  BY <1>6, <1>7, Zenon DEF Framed, new

(* The elements of two sequences put together.                             *)
LEMMA Joined ==
    ASSUME NEW S, NEW s \in Seq(S), NEW r \in Seq(S)
    PROVE  /\ s \o r \in Seq(S) /\ Len(s \o r) = Len(s) + Len(r)
           /\ \A k \in 1 .. Len(s) : (s \o r)[k] = s[k]
           /\ \A k \in (Len(s) + 1) .. (Len(s) + Len(r)) : (s \o r)[k] = r[k - Len(s)]
<1>1. Len(s) \in Nat /\ Len(r) \in Nat
  OBVIOUS
<1>2. s \o r \in Seq(S) /\ Len(s \o r) = Len(s) + Len(r)
  OBVIOUS
<1>3. \A k \in 1 .. Len(s) : (s \o r)[k] = s[k]
  BY <1>1
<1>4. \A k \in (Len(s) + 1) .. (Len(s) + Len(r)) : (s \o r)[k] = r[k - Len(s)]
  BY <1>1
<1>5. QED
  BY <1>2, <1>3, <1>4, Zenon

(* Where a line lies: inside the stream.                                   *)
LEMMA FrameBounds ==
    ASSUME NEW buf \in Seq(Mark), NEW way \in Seq(Mark),
           NEW h \in Nat, NEW q \in Seq(Command),
           NEW b \in [(h + 1) .. (Len(q) + 1) -> Nat], Frames(b, buf, way, h, q),
           NEW i \in (h + 1) .. Len(q)
    PROVE  /\ b[i] \in Nat /\ b[i + 1] \in Nat
           /\ q[i].len \in Nat \ {0} /\ q[i].kind \in Kinds
           /\ b[i + 1] \in 1 .. Size(buf, way)
<1>1. Len(q) \in Nat /\ Len(buf) \in Nat /\ Len(way) \in Nat
  OBVIOUS
<1>2. /\ i \in (h + 1) .. (Len(q) + 1) /\ i + 1 \in (h + 1) .. (Len(q) + 1)
      /\ Len(q) + 1 \in (h + 1) .. (Len(q) + 1) /\ i + 1 <= Len(q) + 1
  BY <1>1
<1>3. b[i] \in Nat /\ b[i + 1] \in Nat
  BY <1>2, Zenon
<1>4. b[i + 1] <= Size(buf, way)
  BY <1>2, Zenon DEF Frames
<1>5. q[i] \in [kind : Kinds, len : Nat \ {0}]
  <2>1. i \in 1 .. Len(q)
    BY <1>1
  <2>2. QED
    BY <2>1, SessionAssumption
<1> DEFINE x == b[i]
           y == b[i + 1]
           l == q[i].len
<1>6. y = x + l + 1 /\ x \in Nat /\ y \in Nat /\ l \in Nat /\ y <= Size(buf, way)
  BY <1>3, <1>4, <1>5, Zenon DEF Frames
<1>7. Size(buf, way) \in Nat
  BY <1>1 DEF Size
<1> HIDE DEF x, y, l
<1>8. y \in 1 .. Size(buf, way)
  BY <1>6, <1>7
<1>9. QED
  BY <1>3, <1>5, <1>8, Zenon DEF y

(* The lines depend on the stream, not on how much of it has been read.    *)
LEMMA FrameMove ==
    ASSUME NEW buf \in Seq(Mark), NEW way \in Seq(Mark),
           NEW buf2 \in Seq(Mark), NEW way2 \in Seq(Mark),
           NEW h \in Nat, NEW q \in Seq(Command),
           Framed(buf, way, h, q),
           Size(buf, way) = Size(buf2, way2),
           \A k \in 1 .. Size(buf, way) : Char(buf, way, k) = Char(buf2, way2, k)
    PROVE  Framed(buf2, way2, h, q)
<1>1. PICK b \in [(h + 1) .. (Len(q) + 1) -> Nat] : Frames(b, buf, way, h, q)
  BY Zenon DEF Framed
<1>2. ASSUME NEW i \in (h + 1) .. Len(q)
      PROVE  /\ b[i + 1] = b[i] + q[i].len + 1
             /\ \A k \in (b[i] + 1) .. (b[i + 1] - 1) :
                  Char(buf2, way2, k) = [kind |-> q[i].kind, of |-> i]
             /\ Char(buf2, way2, b[i + 1]) = [kind |-> "nl", of |-> i]
  <2>1. b[i] \in Nat /\ b[i + 1] \in Nat /\ b[i + 1] \in 1 .. Size(buf, way)
    BY <1>1, FrameBounds, Zenon
  <2>2. /\ b[i + 1] = b[i] + q[i].len + 1
        /\ \A k \in (b[i] + 1) .. (b[i + 1] - 1) :
             Char(buf, way, k) = [kind |-> q[i].kind, of |-> i]
        /\ Char(buf, way, b[i + 1]) = [kind |-> "nl", of |-> i]
    BY <1>1, Zenon DEF Frames
  <2>3. Size(buf, way) \in Nat
    BY DEF Size
  <2>4. \A k \in (b[i] + 1) .. (b[i + 1] - 1) : k \in 1 .. Size(buf, way)
    BY <2>1, <2>3
  <2>5. QED
    BY <2>1, <2>2, <2>4, Zenon
<1>3. Frames(b, buf2, way2, h, q)
  BY <1>1, <1>2, Zenon DEF Frames
<1>4. QED
  BY <1>1, <1>3, Zenon DEF Framed

(* A read moves the first n characters from the one part to the other.     *)
LEMMA FrameRead ==
    ASSUME NEW buf \in Seq(Mark), NEW way \in Seq(Mark),
           NEW h \in Nat, NEW q \in Seq(Command),
           Framed(buf, way, h, q), NEW n \in Nat, n <= Len(way)
    PROVE  Framed(buf \o SubSeq(way, 1, n), SubSeq(way, n + 1, Len(way)), h, q)
<1> DEFINE first == SubSeq(way, 1, n)
           rest  == SubSeq(way, n + 1, Len(way))
<1>1. Len(buf) \in Nat /\ Len(way) \in Nat
  OBVIOUS
<1>2. /\ first \in Seq(Mark) /\ Len(first) = n
      /\ \A k \in 1 .. n : first[k] = way[k]
  BY <1>1
<1>3. /\ rest \in Seq(Mark) /\ Len(rest) = Len(way) - n
      /\ \A k \in 1 .. (Len(way) - n) : rest[k] = way[k + n]
  BY <1>1
<1> HIDE DEF first, rest
<1> DEFINE new == buf \o first
<1>4. /\ new \in Seq(Mark) /\ Len(new) = Len(buf) + n
      /\ \A k \in 1 .. Len(buf) : new[k] = buf[k]
      /\ \A k \in (Len(buf) + 1) .. (Len(buf) + n) : new[k] = first[k - Len(buf)]
  <2>1. /\ new \in Seq(Mark) /\ Len(new) = Len(buf) + Len(first)
        /\ \A k \in 1 .. Len(buf) : new[k] = buf[k]
        /\ \A k \in (Len(buf) + 1) .. (Len(buf) + Len(first)) :
             new[k] = first[k - Len(buf)]
    <3>1. first \in Seq(Mark)
      BY <1>2, Zenon
    <3>2. QED
      BY <3>1, Joined, Zenon
  <2>2. QED
    BY <1>2, <2>1, Zenon
<1> HIDE DEF new
<1>5. Size(buf, way) = Size(new, rest)
  BY <1>1, <1>3, <1>4 DEF Size
<1>6. ASSUME NEW k \in 1 .. Size(buf, way)
      PROVE  Char(buf, way, k) = Char(new, rest, k)
  <2>1. Size(buf, way) = Len(buf) + Len(way) /\ k \in Nat
    BY <1>1 DEF Size
  <2>2. CASE k <= Len(buf)
    <3>1. k \in 1 .. Len(buf) /\ k <= Len(new)
      BY <1>1, <1>4, <2>1, <2>2
    <3>2. QED
      BY <1>4, <2>2, <3>1, Zenon DEF Char
  <2>3. CASE ~(k <= Len(buf)) /\ k <= Len(buf) + n
    <3>1. /\ k \in (Len(buf) + 1) .. (Len(buf) + n) /\ k <= Len(new)
          /\ k - Len(buf) \in 1 .. n
      BY <1>1, <1>4, <2>1, <2>3
    <3>2. QED
      BY <1>2, <1>4, <2>3, <3>1, Zenon DEF Char
  <2>4. CASE ~(k <= Len(buf) + n)
    <3>1. /\ ~(k <= Len(buf)) /\ ~(k <= Len(new))
          /\ k - Len(new) \in 1 .. (Len(way) - n)
          /\ (k - Len(new)) + n = k - Len(buf)
      BY <1>1, <1>4, <2>1, <2>4
    <3>2. QED
      BY <1>3, <3>1, Zenon DEF Char
  <2>5. QED
    BY <2>2, <2>3, <2>4, Zenon
<1>7. Framed(new, rest, h, q)
  BY <1>3, <1>4, <1>5, <1>6, FrameMove, Zenon
<1>8. QED
  BY <1>7, Zenon DEF new, first, rest

(* What a client sends: the characters of a command and an end of line.    *)
Line(cmd, i) == Times(cmd.len, [kind |-> cmd.kind, of |-> i]) \o <<[kind |-> "nl", of |-> i]>>

(* The parts of a line, and how send_cmd puts it behind what is sent.      *)
LEMMA LineParts ==
    ASSUME NEW cmd \in Command, NEW i \in Nat, NEW way \in Seq(Mark)
    PROVE  /\ cmd.len \in Nat \ {0} /\ cmd.kind \in Kinds
           /\ Line(cmd, i) \in Seq(Mark) /\ Len(Line(cmd, i)) = cmd.len + 1
           /\ \A k \in 1 .. cmd.len : Line(cmd, i)[k] = [kind |-> cmd.kind, of |-> i]
           /\ Line(cmd, i)[cmd.len + 1] = [kind |-> "nl", of |-> i]
           /\ way \o Times(cmd.len, [kind |-> cmd.kind, of |-> i])
                \o <<[kind |-> "nl", of |-> i]>> = way \o Line(cmd, i)
<1> DEFINE char == [kind |-> cmd.kind, of |-> i]
           nl   == [kind |-> "nl", of |-> i]
           len  == cmd.len
           text == Times(len, char)
<1>1. len \in Nat \ {0} /\ cmd.kind \in Kinds
  <2>1. cmd \in [kind : Kinds, len : Nat \ {0}]
    BY SessionAssumption, Zenon
  <2>2. QED
    BY <2>1, Zenon
<1>2. char \in Mark /\ nl \in Mark
  BY <1>1, Zenon DEF Mark
<1> HIDE DEF char, nl, len
<1>3. text \in Seq(Mark) /\ Len(text) = len /\ \A k \in 1 .. len : text[k] = char
  BY <1>1, <1>2 DEF Times
<1> HIDE DEF text
<1>4. <<nl>> \in Seq(Mark) /\ Len(<<nl>>) = 1 /\ <<nl>>[1] = nl
  BY <1>2
<1> DEFINE line == text \o <<nl>>
<1>5. /\ line \in Seq(Mark) /\ Len(line) = len + 1
      /\ \A k \in 1 .. len : line[k] = char
  BY <1>3, <1>4, Joined
<1>6. line[len + 1] = nl
  <2>1. \A k \in (len + 1) .. (len + 1) : line[k] = <<nl>>[k - len]
    BY <1>3, <1>4, Joined
  <2>2. len + 1 \in (len + 1) .. (len + 1) /\ (len + 1) - len = 1
    BY <1>1
  <2>3. QED
    BY <1>4, <2>1, <2>2, Zenon
<1>7. (way \o text) \o <<nl>> = way \o (text \o <<nl>>)
  BY <1>3, <1>4
<1> HIDE DEF line
<1>8. Line(cmd, i) = line
  BY Zenon DEF Line, line, text, char, nl, len
<1>9. QED
  BY <1>1, <1>5, <1>6, <1>7, <1>8, Zenon DEF line, text, char, nl, len

(* A command that is sent is the line after the others.                    *)
LEMMA FrameSend ==
    ASSUME NEW buf \in Seq(Mark), NEW way \in Seq(Mark),
           NEW h \in Nat, NEW q \in Seq(Command), h <= Len(q),
           Framed(buf, way, h, q), NEW cmd \in Command
    PROVE  Framed(buf, way \o Line(cmd, Len(q) + 1), h, Append(q, cmd))
<1> DEFINE m    == Len(q)
           line == Line(cmd, m + 1)
           new  == way \o line
           p    == Append(q, cmd)
           size == Size(buf, way)
           len  == cmd.len
           last == size + (len + 1)
<1>1. m \in Nat /\ Len(buf) \in Nat /\ Len(way) \in Nat /\ size \in Nat /\ m + 1 \in Nat
  BY DEF Size
<1>2. /\ len \in Nat \ {0} /\ cmd.kind \in Kinds
      /\ line \in Seq(Mark) /\ Len(line) = len + 1
      /\ \A k \in 1 .. len : line[k] = [kind |-> cmd.kind, of |-> m + 1]
      /\ line[len + 1] = [kind |-> "nl", of |-> m + 1]
  BY <1>1, LineParts, Zenon
<1> HIDE DEF line, len
<1>3. /\ new \in Seq(Mark) /\ Len(new) = Len(way) + Len(line)
      /\ \A k \in 1 .. Len(way) : new[k] = way[k]
      /\ \A k \in (Len(way) + 1) .. (Len(way) + Len(line)) : new[k] = line[k - Len(way)]
  BY <1>2, Joined, Zenon
<1>4. /\ p \in Seq(Command) /\ Len(p) = m + 1 /\ p[m + 1] = cmd
      /\ \A i \in 1 .. m : p[i] = q[i]
  BY <1>1
<1> HIDE DEF new, p, m
<1>5. PICK b \in [(h + 1) .. (Len(q) + 1) -> Nat] : Frames(b, buf, way, h, q)
  BY Zenon DEF Framed
<1> DEFINE a == [i \in (h + 1) .. ((m + 1) + 1) |-> IF i <= m + 1 THEN b[i] ELSE last]
<1>6. /\ b \in [(h + 1) .. (m + 1) -> Nat] /\ b[h + 1] = 0 /\ b[m + 1] = size
      /\ \A i, j \in (h + 1) .. (m + 1) : i <= j => b[i] <= b[j]
  BY <1>5, Zenon DEF Frames, m
<1> HIDE DEF size
<1>7. last \in Nat /\ size <= last
  BY <1>1, <1>2
<1>8. Size(buf, new) = last
  BY <1>1, <1>2, <1>3 DEF Size, size
<1>9. \A i \in (h + 1) .. (m + 1) : b[i] \in Nat /\ b[i] <= size /\ a[i] = b[i]
  <2>1. TAKE i \in (h + 1) .. (m + 1)
  <2>2. m + 1 \in (h + 1) .. (m + 1) /\ i <= m + 1 /\ i \in (h + 1) .. ((m + 1) + 1)
    BY <1>1
  <2>3. b[i] \in Nat /\ b[i] <= b[m + 1]
    BY <1>6, <2>2, Zenon
  <2>4. QED
    BY <1>6, <2>2, <2>3, Zenon
<1>10. a[(m + 1) + 1] = last
  <2>1. (m + 1) + 1 \in (h + 1) .. ((m + 1) + 1) /\ ~((m + 1) + 1 <= m + 1)
    BY <1>1 DEF m
  <2>2. QED
    BY <2>1, Zenon
<1>11. a \in [(h + 1) .. (Len(p) + 1) -> Nat]
  <2>1. ASSUME NEW i \in (h + 1) .. ((m + 1) + 1) PROVE (IF i <= m + 1 THEN b[i] ELSE last) \in Nat
    <3>1. CASE i <= m + 1
      <4>1. i \in (h + 1) .. (m + 1)
        BY <1>1, <3>1
      <4>2. QED
        BY <1>9, <3>1, <4>1, Zenon
    <3>2. CASE ~(i <= m + 1)
      BY <1>7, <3>2, Zenon
    <3>3. QED
      BY <3>1, <3>2, Zenon
  <2> HIDE DEF last
  <2>2. QED
    BY <1>4, <2>1, Zenon
<1> HIDE DEF a, last
<1>12. \A k \in 1 .. size : Char(buf, new, k) = Char(buf, way, k)
  <2>1. TAKE k \in 1 .. size
  <2>2. CASE k <= Len(buf)
    BY <2>2, Zenon DEF Char
  <2>3. CASE ~(k <= Len(buf))
    <3>1. k - Len(buf) \in 1 .. Len(way)
      BY <1>1, <2>3 DEF size, Size
    <3>2. QED
      BY <1>3, <2>3, <3>1, Zenon DEF Char
  <2>4. QED
    BY <2>2, <2>3, Zenon
<1>13. \A k \in 1 .. (len + 1) : Char(buf, new, size + k) = line[k]
  <2>1. TAKE k \in 1 .. (len + 1)
  <2>2. ~(size + k <= Len(buf)) /\ (size + k) - Len(buf) = Len(way) + k
    BY <1>1, <1>2 DEF size, Size
  <2>3. Len(way) + k \in (Len(way) + 1) .. (Len(way) + Len(line)) /\ (Len(way) + k) - Len(way) = k
    BY <1>1, <1>2
  <2>4. new[Len(way) + k] = line[k]
    BY <1>3, <2>3, Zenon
  <2>5. QED
    BY <2>2, <2>4, Zenon DEF Char
<1>14. Frames(a, buf, new, h, p)
  <2>1. a[h + 1] = 0
    <3>1. h + 1 \in (h + 1) .. (m + 1)
      BY <1>1 DEF m
    <3>2. QED
      BY <1>6, <1>9, <3>1, Zenon
  <2>2. a[Len(p) + 1] = Size(buf, new)
    BY <1>4, <1>8, <1>10, Zenon
  <2>3. ASSUME NEW i \in (h + 1) .. (Len(p) + 1), NEW j \in (h + 1) .. (Len(p) + 1), i <= j
        PROVE  a[i] <= a[j]
    <3>1. CASE j <= m + 1
      <4>1. i \in (h + 1) .. (m + 1) /\ j \in (h + 1) .. (m + 1)
        BY <1>1, <1>4, <2>3, <3>1
      <4>2. QED
        BY <1>6, <1>9, <2>3, <4>1, Zenon
    <3>2. CASE i <= m + 1 /\ ~(j <= m + 1)
      <4>1. i \in (h + 1) .. (m + 1) /\ j = (m + 1) + 1
        BY <1>1, <1>4, <2>3, <3>2
      <4>2. b[i] \in Nat /\ b[i] <= size /\ a[i] = b[i]
        BY <1>9, <4>1, Zenon
      <4>3. QED
        BY <1>1, <1>7, <1>10, <4>1, <4>2
    <3>3. CASE ~(i <= m + 1)
      <4>1. i = (m + 1) + 1 /\ j = (m + 1) + 1
        BY <1>1, <1>4, <2>3, <3>3
      <4>2. QED
        BY <1>7, <1>10, <4>1
    <3>4. QED
      BY <3>1, <3>2, <3>3, Zenon
  <2>4. ASSUME NEW i \in (h + 1) .. Len(p)
        PROVE  /\ a[i + 1] = a[i] + p[i].len + 1
               /\ \A k \in (a[i] + 1) .. (a[i + 1] - 1) :
                    Char(buf, new, k) = [kind |-> p[i].kind, of |-> i]
               /\ Char(buf, new, a[i + 1]) = [kind |-> "nl", of |-> i]
    <3>1. CASE i <= m
      <4>1. /\ i \in (h + 1) .. Len(q) /\ i \in (h + 1) .. (m + 1)
            /\ i + 1 \in (h + 1) .. (m + 1) /\ i \in 1 .. m
        BY <1>1, <1>4, <3>1 DEF m
      <4>2. a[i] = b[i] /\ a[i + 1] = b[i + 1] /\ p[i] = q[i]
        BY <1>4, <1>9, <4>1, Zenon
      <4>3. b[i] \in Nat /\ b[i + 1] \in Nat /\ b[i + 1] \in 1 .. size
        BY <1>5, <4>1, FrameBounds, Zenon DEF size
      <4>4. /\ b[i + 1] = b[i] + q[i].len + 1
            /\ \A k \in (b[i] + 1) .. (b[i + 1] - 1) :
                 Char(buf, way, k) = [kind |-> q[i].kind, of |-> i]
            /\ Char(buf, way, b[i + 1]) = [kind |-> "nl", of |-> i]
        BY <1>5, <4>1, Zenon DEF Frames
      <4>5. \A k \in (b[i] + 1) .. (b[i + 1] - 1) : k \in 1 .. size
        BY <4>3, <1>1, SMTT(30)
      <4>6. QED
        BY <1>12, <4>2, <4>3, <4>4, <4>5, Zenon
    <3>2. CASE i = m + 1
      <4>1. m + 1 \in (h + 1) .. (m + 1)
        BY <1>1 DEF m
      <4>2. a[i] = size /\ a[i + 1] = size + (len + 1) /\ p[i] = cmd
        BY <1>4, <1>6, <1>9, <1>10, <3>2, <4>1, Zenon DEF last
      <4>3. ASSUME NEW k \in (size + 1) .. ((size + (len + 1)) - 1)
            PROVE  Char(buf, new, k) = [kind |-> cmd.kind, of |-> m + 1]
        <5>1. k - size \in 1 .. len /\ k - size \in 1 .. (len + 1) /\ size + (k - size) = k
          BY <1>1, <1>2
        <5>2. QED
          BY <1>2, <1>13, <5>1, Zenon
      <4>4. Char(buf, new, size + (len + 1)) = [kind |-> "nl", of |-> m + 1]
        <5>1. len + 1 \in 1 .. (len + 1) /\ size + (len + 1) = size + (len + 1)
          BY <1>1, <1>2
        <5>2. QED
          BY <1>2, <1>13, <5>1, Zenon
      <4>5. size + (len + 1) = size + len + 1
        BY <1>1, <1>2
      <4>6. QED
        BY <3>2, <4>2, <4>3, <4>4, <4>5, Zenon DEF len
    <3>3. i <= m \/ i = m + 1
      BY <1>1, <1>4
    <3>4. QED
      BY <3>1, <3>2, <3>3, Zenon
  <2>5. QED
    BY <2>1, <2>2, <2>3, <2>4, Zenon DEF Frames
<1>15. Framed(buf, new, h, p)
  BY <1>11, <1>14, Zenon DEF Framed
<1>16. QED
  BY <1>15, Zenon DEF new, line, m, p

-----------------------------------------------------------------------------
(* The lines.                                                              *)

(* Nothing is sent yet.                                                    *)
LEMMA LinesInit == SessionInit => LinesInv
<1>1. SUFFICES ASSUME SessionInit PROVE LinesInv
  BY Zenon
<1>2. Types
  <2>1. /\ sent \in Seq(Command) /\ wire \in Seq(Mark) /\ rx \in Seq(Mark)
        /\ handled \in Seq([kind : Kinds, len : Nat]) /\ replies \in Seq(PartType)
        /\ srv \in {"read", "lines", "closed"} /\ msgs \in Nat
    BY <1>1 DEF SessionInit
  <2>2. subscribed \in BOOLEAN /\ listening \in BOOLEAN
    BY <1>1, Zenon DEF SessionInit
  <2>3. QED
    BY <2>1, <2>2, Zenon DEF Types
<1>3. LinesIntact
  BY <1>1 DEF SessionInit, LinesIntact
<1>4. Framed(<<>>, <<>>, 0, <<>>)
  <2> DEFINE b == [i \in (0 + 1) .. (Len(<<>>) + 1) |-> 0]
  <2>1. b \in [(0 + 1) .. (Len(<<>>) + 1) -> Nat]
    BY Zenon
  <2>2. Frames(b, <<>>, <<>>, 0, <<>>)
    BY DEF Frames, Size
  <2> HIDE DEF b
  <2>3. QED
    BY <2>1, <2>2, Zenon DEF Framed
<1>5. Stream
  BY <1>1, <1>4, Zenon DEF SessionInit, Stream
<1>6. QED
  BY <1>2, <1>3, <1>5, Zenon DEF LinesInv

(* What HandleLine finds: the first line that it has not handled yet.      *)
LEMMA Handled ==
    ASSUME LinesInv, HandleLine
    PROVE  LET h == Len(handled)
               i == h + 1
           IN  /\ h \in Nat /\ h < Len(sent) /\ sent[i] \in Command
               /\ rx[1].kind = sent[i].kind /\ rx[1].of = i
               /\ handled' = Append(handled,
                    [kind |-> sent[i].kind,
                     len |-> IF sent[i].len < LINE THEN sent[i].len ELSE LINE - 1])
               /\ rx' \in Seq(Mark) /\ Framed(rx', wire, i, sent)
<1> DEFINE h    == Len(handled)
           ends == {j \in 1 .. Len(rx) : rx[j].kind = "nl"}
           at   == CHOOSE j \in ends : \A k \in ends : j <= k
<1>1. /\ sent \in Seq(Command) /\ rx \in Seq(Mark) /\ wire \in Seq(Mark)
      /\ handled \in Seq([kind : Kinds, len : Nat]) /\ h \in Nat
      /\ Len(sent) \in Nat /\ Len(rx) \in Nat /\ h <= Len(sent)
  BY DEF LinesInv, Types, LinesIntact
<1>2. srv = "lines" /\ ends # {} /\ rx' = After(at)
  BY Zenon DEF HandleLine
<1>3. handled' = Append(handled, [kind |-> rx[1].kind,
                                  len |-> IF at - 1 < LINE THEN at - 1 ELSE LINE - 1])
  BY Zenon DEF HandleLine
<1>4. Framed(rx, wire, h, sent)
  BY <1>2, Zenon DEF LinesInv, Stream
<1>5. PICK b \in [(h + 1) .. (Len(sent) + 1) -> Nat] : Frames(b, rx, wire, h, sent)
  BY <1>4, Zenon DEF Framed
<1>6. at \in ends /\ \A k \in ends : at <= k
  <2>1. ends \in SUBSET Nat /\ ends # {}
    BY <1>1, <1>2
  <2>2. \E j \in ends : \A k \in ends : j <= k
    BY <2>1, LeastNat, Zenon
  <2>3. QED
    BY <2>2, Zenon
<1>7. /\ at \in 1 .. Len(rx) /\ rx[at].kind = "nl"
      /\ \A k \in 1 .. Len(rx) : rx[k].kind = "nl" => at <= k
  BY <1>6, Zenon
<1> HIDE DEF at, ends, h
<1>8. /\ h < Len(sent) /\ at = sent[h + 1].len + 1
      /\ rx[1].kind = sent[h + 1].kind /\ rx[1].of = h + 1
  <2>1. FirstEnd(rx, at)
    BY <1>7, Zenon DEF FirstEnd
  <2>2. QED
    BY <1>1, <1>5, <2>1, FirstLine, Zenon
<1>9. sent[h + 1] \in Command /\ sent[h + 1].len \in Nat
  <2>1. sent[h + 1] \in Command
    BY <1>1, <1>8
  <2>2. sent[h + 1] \in [kind : Kinds, len : Nat \ {0}]
    BY <2>1, SessionAssumption, Zenon
  <2>3. QED
    BY <2>1, <2>2, Zenon
<1>10. b[h + 2] = at
  <2>1. h + 1 \in (h + 1) .. Len(sent) /\ (h + 1) + 1 = h + 2
    BY <1>1, <1>8
  <2>2. b[h + 1] = 0 /\ b[(h + 1) + 1] = b[h + 1] + sent[h + 1].len + 1
    BY <1>5, <2>1, Zenon DEF Frames
  <2>3. QED
    BY <1>8, <1>9, <2>1, <2>2
<1>11. Framed(SubSeq(rx, at + 1, Len(rx)), wire, h + 1, sent)
  BY <1>1, <1>5, <1>7, <1>8, <1>10, FrameTail, Zenon
<1>12. rx' = SubSeq(rx, at + 1, Len(rx)) /\ rx' \in Seq(Mark)
  BY <1>1, <1>2, <1>7 DEF After
<1>13. at - 1 = sent[h + 1].len
  BY <1>8, <1>9
<1>14. QED
  BY <1>1, <1>3, <1>8, <1>9, <1>11, <1>12, <1>13, Zenon DEF h

(* What process_command and HandleLine send is a sequence of parts.        *)
LEMMA PartsType ==
    ASSUME NEW i \in Nat
    PROVE  /\ <<>> \in Seq(PartType) /\ <<Part("line", i)>> \in Seq(PartType)
           /\ \A n \in Nat : Times(n, Part("line", i)) \in Seq(PartType)
           /\ \A kind \in Kinds : process_command(kind, i) \in Seq(PartType)
<1>1. \A w \in {"line", "err", "big", "char", "array"} : Part(w, i) \in PartType
  BY Zenon DEF Part, PartType
<1>2. \A n \in Nat, part \in PartType : Times(n, part) \in Seq(PartType)
  BY DEF Times
<1>3. ELEMS + 1 \in Nat
  BY SessionAssumption
<1>4. [Part("array", i) EXCEPT !.n = ELEMS + 1] \in PartType
  BY <1>3, Zenon DEF Part, PartType
<1>5. \A w \in {"line", "err", "big", "char", "array"} : <<Part(w, i)>> \in Seq(PartType)
  BY <1>1
<1>6. <<Part("big", i)>> \o Times(2, Part("char", i)) \in Seq(PartType)
  <2>1. Times(2, Part("char", i)) \in Seq(PartType) /\ <<Part("big", i)>> \in Seq(PartType)
    BY <1>1, <1>2, <1>5, Zenon
  <2>2. QED
    BY <2>1
<1>7. <<[Part("array", i) EXCEPT !.n = ELEMS + 1]>> \o Times(ELEMS + 1, Part("line", i))
        \in Seq(PartType)
  <2> DEFINE head == [Part("array", i) EXCEPT !.n = ELEMS + 1]
             rest == Times(ELEMS + 1, Part("line", i))
  <2>1. head \in PartType /\ rest \in Seq(PartType)
    BY <1>1, <1>2, <1>3, <1>4, Zenon
  <2> HIDE DEF head, rest
  <2>2. <<head>> \in Seq(PartType)
    BY <2>1
  <2>3. <<head>> \o rest \in Seq(PartType)
    BY <2>1, <2>2
  <2>4. QED
    BY <2>3, Zenon DEF head, rest
<1>8. \A kind \in Kinds : process_command(kind, i) \in Seq(PartType)
  BY <1>5, <1>6, <1>7 DEF process_command
<1>9. QED
  BY <1>1, <1>2, <1>5, <1>8

(* An action that leaves the stream and the lines alone.                   *)
LEMMA LinesKept ==
    ASSUME LinesInv, Types', UNCHANGED <<sent, wire, rx, handled>>,
           srv = "closed" => srv' = "closed"
    PROVE  LinesInv'
<1>1. LinesIntact'
  BY Zenon DEF LinesInv, LinesIntact
<1>2. Stream'
  BY Zenon DEF LinesInv, Stream
<1>3. QED
  BY <1>1, <1>2, Zenon DEF LinesInv

(* read takes a piece of any size.                                         *)
LEMMA LinesRead ==
    ASSUME LinesInv, NEW n \in 1 .. RX, Read(n)
    PROVE  LinesInv'
<1>1. Types /\ n \in Nat /\ Len(wire) \in Nat
  BY SessionAssumption DEF LinesInv, Types
<1>2. /\ srv = "read" /\ n <= Len(wire) /\ srv' = "lines"
      /\ rx' = rx \o SubSeq(wire, 1, n)
      /\ wire' = SubSeq(wire, n + 1, Len(wire))
      /\ UNCHANGED <<sent, subscribed, listening, msgs, handled, replies>>
  BY Zenon DEF Read
<1>3. rx' \in Seq(Mark) /\ wire' \in Seq(Mark)
  <2>1. SubSeq(wire, 1, n) \in Seq(Mark) /\ SubSeq(wire, n + 1, Len(wire)) \in Seq(Mark)
    BY <1>1, <1>2, SMTT(30) DEF Types
  <2>2. QED
    BY <1>1, <1>2, <2>1 DEF Types
<1>4. Types'
  BY <1>1, <1>2, <1>3, Zenon DEF Types
<1>5. LinesIntact'
  BY <1>2, Zenon DEF LinesInv, LinesIntact
<1>6. Framed(rx, wire, Len(handled), sent)
  BY <1>2, Zenon DEF LinesInv, Stream
<1>7. Framed(rx', wire', Len(handled), sent)
  BY <1>1, <1>2, <1>6, FrameRead DEF Types
<1>8. Stream'
  BY <1>2, <1>7, Zenon DEF Stream
<1>9. QED
  BY <1>4, <1>5, <1>8, Zenon DEF LinesInv

(* A command is sent whole.                                                *)
LEMMA LinesSend ==
    ASSUME LinesInv, NEW cmd \in Command, send_cmd(cmd)
    PROVE  LinesInv'
<1> DEFINE i == Len(sent) + 1
<1>1. Types /\ i \in Nat /\ Len(sent) \in Nat /\ Len(handled) \in Nat
  BY DEF LinesInv, Types
<1>2. /\ sent' = Append(sent, cmd)
      /\ wire' = IF srv = "closed" THEN wire
                 ELSE wire \o Times(cmd.len, [kind |-> cmd.kind, of |-> i])
                           \o <<[kind |-> "nl", of |-> i]>>
      /\ UNCHANGED <<srv, rx, subscribed, listening, msgs, handled, replies>>
  BY Zenon DEF send_cmd, server
<1>3. /\ Line(cmd, i) \in Seq(Mark)
      /\ wire \o Times(cmd.len, [kind |-> cmd.kind, of |-> i])
              \o <<[kind |-> "nl", of |-> i]>> = wire \o Line(cmd, i)
  BY <1>1, LineParts, Zenon DEF Types
<1> HIDE DEF i
<1>4. wire' = IF srv = "closed" THEN wire ELSE wire \o Line(cmd, i)
  BY <1>2, <1>3, Zenon
<1>5. wire' \in Seq(Mark)
  BY <1>1, <1>3, <1>4 DEF Types
<1>6. sent' \in Seq(Command) /\ Len(sent') = Len(sent) + 1
  BY <1>1, <1>2 DEF Types
<1>7. Types'
  BY <1>1, <1>2, <1>5, <1>6, Zenon DEF Types
<1>8. LinesIntact'
  <2>1. LinesIntact
    BY Zenon DEF LinesInv
  <2>2. Len(handled') <= Len(sent')
    BY <1>1, <1>2, <1>6, <2>1 DEF LinesIntact
  <2>3. \A j \in 1 .. Len(handled) : sent'[j] = sent[j]
    <3>1. \A j \in 1 .. Len(handled) : j \in 1 .. Len(sent)
      BY <1>1, <2>1 DEF LinesIntact
    <3>2. QED
      BY <1>1, <1>2, <3>1 DEF Types
  <2>4. QED
    BY <1>2, <2>1, <2>2, <2>3, Zenon DEF LinesIntact
<1>9. Stream'
  <2>1. SUFFICES ASSUME srv # "closed" PROVE Framed(rx, wire', Len(handled), sent')
    BY <1>2, Zenon DEF Stream
  <2>2. Framed(rx, wire, Len(handled), sent) /\ Len(handled) <= Len(sent)
    BY <2>1, Zenon DEF LinesInv, Stream, LinesIntact
  <2>3. Framed(rx, wire \o Line(cmd, Len(sent) + 1), Len(handled), Append(sent, cmd))
    BY <1>1, <2>2, FrameSend, Zenon DEF Types
  <2>4. QED
    BY <1>2, <1>4, <2>1, <2>3, Zenon DEF i
<1>10. QED
  BY <1>7, <1>8, <1>9, Zenon DEF LinesInv

(* The three kinds of lines that HandleLine tells apart.                   *)
LEMMA HandleCases ==
    ASSUME HandleLine
    PROVE  LET kind == rx[1].kind
               i == rx[1].of
           IN  \/ /\ IsSub(kind) /\ Channels[kind] > 0
                  /\ replies' = replies \o Times(IF Channels[kind] < KEPT
                                                   THEN Channels[kind] ELSE KEPT,
                                                 Part("line", i))
                  /\ subscribed' = TRUE /\ listening' = TRUE /\ srv' = srv
               \/ /\ kind = "unsub"
                  /\ replies' = replies \o <<Part("line", i)>>
                  /\ listening' = FALSE /\ UNCHANGED <<subscribed, srv>>
               \/ /\ kind # "unsub" /\ (subscribed \/ kind # "quit")
                  /\ replies' = replies \o (IF subscribed THEN <<>>
                                            ELSE process_command(kind, i))
                  /\ UNCHANGED <<srv, subscribed, listening>>
               \/ /\ kind = "quit" /\ ~subscribed
                  /\ replies' = replies \o <<Part("line", i)>>
                  /\ srv' = "closed" /\ listening' = FALSE /\ UNCHANGED subscribed
<1> DEFINE kind == rx[1].kind
           i == rx[1].of
<1>1. CASE IsSub(kind) /\ Channels[kind] > 0
  BY <1>1, Zenon DEF HandleLine
<1>2. CASE ~(IsSub(kind) /\ Channels[kind] > 0) /\ kind = "unsub"
  BY <1>2, Zenon DEF HandleLine
<1>3. CASE ~(IsSub(kind) /\ Channels[kind] > 0) /\ kind # "unsub" /\ (subscribed \/ kind # "quit")
  BY <1>3, Zenon DEF HandleLine
<1>4. CASE ~(IsSub(kind) /\ Channels[kind] > 0) /\ kind # "unsub" /\ ~(subscribed \/ kind # "quit")
  BY <1>4, Zenon DEF HandleLine
<1>5. QED
  BY <1>1, <1>2, <1>3, <1>4, Zenon

(* A line is handled, in whichever way.                                    *)
LEMMA LinesHandle ==
    ASSUME LinesInv, HandleLine
    PROVE  LinesInv'
<1> DEFINE h == Len(handled)
           i == h + 1
           kind == sent[i].kind
           line == [kind |-> kind,
                    len |-> IF sent[i].len < LINE THEN sent[i].len ELSE LINE - 1]
<1>1. /\ h \in Nat /\ i \in Nat /\ h < Len(sent) /\ sent[i] \in Command
      /\ rx[1].kind = kind /\ rx[1].of = i
      /\ handled' = Append(handled, line)
      /\ rx' \in Seq(Mark) /\ Framed(rx', wire, i, sent)
  BY Handled
<1>2. Types /\ LinesIntact /\ UNCHANGED <<sent, wire, msgs>> /\ srv = "lines"
  BY Zenon DEF LinesInv, HandleLine
<1>3. kind \in Kinds /\ line \in [kind : Kinds, len : Nat]
  <2>1. sent[i] \in [kind : Kinds, len : Nat \ {0}]
    BY <1>1, SessionAssumption, Zenon
  <2>2. LINE \in Nat /\ 1 < LINE
    BY SessionAssumption, Zenon
  <2>3. QED
    BY <2>1, <2>2
<1> HIDE DEF line
<1>4. /\ handled' \in Seq([kind : Kinds, len : Nat]) /\ Len(handled') = i
      /\ handled'[i] = line /\ \A j \in 1 .. h : handled'[j] = handled[j]
  BY <1>1, <1>2, <1>3 DEF Types
<1>5. /\ replies' \in Seq(PartType)
      /\ subscribed' \in BOOLEAN /\ listening' \in BOOLEAN
      /\ srv' \in {"lines", "closed"}
  <2>1. /\ <<>> \in Seq(PartType) /\ <<Part("line", i)>> \in Seq(PartType)
        /\ process_command(kind, i) \in Seq(PartType)
        /\ \A n \in Nat : Times(n, Part("line", i)) \in Seq(PartType)
    BY <1>1, <1>3, PartsType, Zenon
  <2>2. IsSub(kind) => (IF Channels[kind] < KEPT THEN Channels[kind] ELSE KEPT) \in Nat
    BY SessionAssumption DEF IsSub, Channels
  <2>3. \A r \in Seq(PartType) : replies \o r \in Seq(PartType)
    BY <1>2 DEF Types
  <2>4. subscribed \in BOOLEAN /\ listening \in BOOLEAN
    BY <1>2, Zenon DEF Types
  <2> HIDE DEF kind, i
  <2>5. \/ /\ IsSub(kind) /\ Channels[kind] > 0
           /\ replies' = replies \o Times(IF Channels[kind] < KEPT
                                            THEN Channels[kind] ELSE KEPT,
                                          Part("line", i))
           /\ subscribed' = TRUE /\ listening' = TRUE /\ srv' = srv
        \/ /\ kind = "unsub"
           /\ replies' = replies \o <<Part("line", i)>>
           /\ listening' = FALSE /\ UNCHANGED <<subscribed, srv>>
        \/ /\ kind # "unsub" /\ (subscribed \/ kind # "quit")
           /\ replies' = replies \o (IF subscribed THEN <<>>
                                     ELSE process_command(kind, i))
           /\ UNCHANGED <<srv, subscribed, listening>>
        \/ /\ kind = "quit" /\ ~subscribed
           /\ replies' = replies \o <<Part("line", i)>>
           /\ srv' = "closed" /\ listening' = FALSE /\ UNCHANGED subscribed
    BY <1>1, HandleCases, Zenon
  <2>6. replies' \in Seq(PartType)
    BY <2>1, <2>2, <2>3, <2>5, Zenon
  <2>7. subscribed' \in BOOLEAN /\ listening' \in BOOLEAN
    BY <2>4, <2>5, Zenon
  <2>8. srv' \in {"lines", "closed"}
    BY <1>2, <2>5, Zenon
  <2>9. QED
    BY <2>6, <2>7, <2>8, Zenon
<1>6. Types'
  <2>1. srv' \in {"read", "lines", "closed"}
    BY <1>5, Zenon
  <2>2. QED
    BY <1>1, <1>2, <1>4, <1>5, <2>1, Zenon DEF Types
<1>7. LinesIntact'
  <2>1. Len(handled') <= Len(sent)
    BY <1>1, <1>2, <1>4 DEF Types
  <2>2. ASSUME NEW j \in 1 .. Len(handled')
        PROVE  /\ handled'[j].kind = sent[j].kind
               /\ handled'[j].len = IF sent[j].len < LINE THEN sent[j].len ELSE LINE - 1
    <3>1. CASE j = i
      BY <1>4, <3>1 DEF line
    <3>2. CASE j # i
      <4>1. j \in 1 .. h
        BY <1>1, <1>4, <3>2
      <4>2. QED
        BY <1>2, <1>4, <4>1, Zenon DEF LinesIntact
    <3>3. QED
      BY <3>1, <3>2, Zenon
  <2>3. QED
    BY <1>2, <2>1, <2>2, Zenon DEF LinesIntact
<1>8. Stream'
  BY <1>1, <1>2, <1>4, Zenon DEF Stream
<1>9. QED
  BY <1>6, <1>7, <1>8, Zenon DEF LinesInv

(* The client reads; the lines are not concerned.                          *)
LEMMA LinesReceive ==
    ASSUME LinesInv, recv_resp_raw
    PROVE  LinesInv'
<1>1. /\ UNCHANGED <<sent, wire, srv, rx, subscribed, listening, msgs, handled>>
      /\ \E n \in Nat : replies' = SubSeq(replies, n + 1, Len(replies))
  <2> DEFINE most == IF Head(replies).n < ELEMS THEN Head(replies).n ELSE ELEMS
             taken == CASE replies = <<>> -> 0
                        [] replies # <<>> /\ Head(replies).t = "array" -> 1 + most
                        [] OTHER -> 1
  <2>1. replies # <<>> => Head(replies) \in PartType
    BY DEF LinesInv, Types
  <2>2. replies # <<>> => most \in Nat
    BY <2>1, SessionAssumption, Zenon DEF PartType
  <2> HIDE DEF most
  <2>3. taken \in Nat
    BY <2>2
  <2>4. /\ replies' = SubSeq(replies, taken + 1, Len(replies))
        /\ UNCHANGED <<sent, wire, srv, rx, subscribed, listening, msgs, handled>>
    BY Zenon DEF recv_resp_raw, server, most
  <2> HIDE DEF taken
  <2>5. QED
    BY <2>3, <2>4, Zenon
<1>2. replies' \in Seq(PartType)
  BY <1>1 DEF LinesInv, Types
<1>3. Types'
  BY <1>1, <1>2, Zenon DEF LinesInv, Types
<1>4. QED
  BY <1>1, <1>3, LinesKept, Zenon

(* Every step keeps the lines.                                             *)
LEMMA LinesStep == LinesInv /\ [SessionNext]_sessionvars => LinesInv'
<1>1. SUFFICES ASSUME LinesInv, [SessionNext]_sessionvars PROVE LinesInv'
  BY Zenon
<1>2. Types
  BY <1>1, Zenon DEF LinesInv
<1>3. ASSUME NEW n \in 1 .. RX, Read(n) PROVE LinesInv'
  BY <1>1, <1>3, LinesRead, Zenon
<1>4. CASE ReadNothing
  <2>1. Types'
    BY <1>2, <1>4, Zenon DEF ReadNothing, Types
  <2>2. QED
    BY <1>1, <1>4, <2>1, LinesKept, Zenon DEF ReadNothing
<1>5. CASE HandleLine
  BY <1>1, <1>5, LinesHandle, Zenon
<1>6. CASE KeepRest
  <2>1. Types'
    BY <1>2, <1>6, Zenon DEF KeepRest, Types
  <2>2. QED
    BY <1>1, <1>6, <2>1, LinesKept, Zenon DEF KeepRest
<1>7. CASE Message
  <2>1. replies' \in Seq(PartType) /\ msgs' \in Nat
    BY <1>2, <1>7 DEF Message, Types, Part, PartType
  <2>2. UNCHANGED <<sent, wire, srv, rx, subscribed, listening, handled>>
    BY <1>7, Zenon DEF Message
  <2>3. Types'
    BY <1>2, <2>1, <2>2, Zenon DEF Types
  <2>4. QED
    BY <1>1, <2>2, <2>3, LinesKept, Zenon
<1>8. ASSUME UNCHANGED <<sent, wire, server, replies>> PROVE LinesInv'
  <2>1. Types'
    BY <1>2, <1>8, Zenon DEF Types, server
  <2>2. QED
    BY <1>1, <1>8, <2>1, LinesKept, Zenon DEF server
<1>9. ASSUME NEW cmd \in Command, repl_loop(cmd) PROVE LinesInv'
  BY <1>1, <1>8, <1>9, LinesSend, Zenon DEF repl_loop
<1>10. CASE EndOfInput
  BY <1>8, <1>10, Zenon DEF EndOfInput
<1>11. CASE RecvReply \/ RecvAck
  BY <1>1, <1>11, LinesReceive, Zenon DEF RecvReply, RecvAck
<1>12. CASE pubsub_read_loop
  BY <1>1, <1>8, <1>12, LinesReceive, LinesSend, Zenon DEF pubsub_read_loop
<1>13. CASE UNCHANGED sessionvars
  BY <1>8, <1>13, Zenon DEF sessionvars
<1>14. QED
  BY <1>1, <1>3, <1>4, <1>5, <1>6, <1>7, <1>9, <1>10, <1>11, <1>12, <1>13, Zenon DEF SessionNext

(* The invariant: the stream is the lines that have not been handled.      *)
THEOREM LinesHold == SessionSpec => []LinesInv
<1>1. QED
  BY LinesInit, LinesStep, PTL DEF SessionSpec

(* However the stream is cut into pieces, the server handles the lines     *)
(* that were sent, in their order, each once, and of a line that is too    *)
(* long what fits, never its rest (handle_client_unlocked).                *)
THEOREM LinesStayIntact == SessionSpec => []LinesIntact
<1>1. LinesInv => LinesIntact
  BY Zenon DEF LinesInv
<1>2. QED
  BY <1>1, LinesHold, PTL

-----------------------------------------------------------------------------
(* The replies.                                                            *)

(* Where the client is in a session of commands with one reply each: at    *)
(* the prompt nothing is under way; while it waits, either its last        *)
(* command is the one line the server has yet to handle, or its reply is   *)
(* the only one under way, or the server has closed the connection.        *)
InStep ==
    Simple =>
      /\ cli.pc \in {"prompt", "reply", "closed"} /\ ~subscribed /\ ~listening
      /\ cli.pc = "prompt" =>
           replies = <<>> /\ (srv = "closed" \/ Len(handled) = Len(sent))
      /\ cli.pc = "reply" =>
           \/ replies = <<>> /\ (srv = "closed" \/ Len(handled) + 1 = Len(sent))
           \/ /\ replies = <<Part("line", Len(sent))>>
              /\ srv = "closed" \/ Len(handled) = Len(sent)

(* Of a session of commands with one reply each, the client takes for the  *)
(* reply to a command the one to that command, whatever the server and the *)
(* connection did in between, or it finds the connection closed            *)
(* (repl_loop, recv_resp_raw).                                             *)
TakesOwnReply ==
    [][Simple /\ RecvReply => got' = Len(sent) \/ (got' = 0 /\ srv = "closed")]_sessionvars

(* The client starts at the prompt.                                        *)
LEMMA InStepInit == SessionInit => InStep
<1>1. SUFFICES ASSUME SessionInit PROVE InStep
  BY Zenon
<1>2. cli.pc = "prompt" /\ replies = <<>> /\ Len(handled) = Len(sent)
  BY <1>1, Zenon DEF SessionInit, At
<1>3. ~subscribed /\ ~listening
  BY <1>1, Zenon DEF SessionInit
<1>4. QED
  BY <1>2, <1>3, Zenon DEF InStep

(* A command sent later does not make the earlier ones simple.             *)
LEMMA SimpleBefore ==
    ASSUME Types, NEW cmd \in Command, sent' = Append(sent, cmd), Simple'
    PROVE  Simple /\ cmd.kind \in {"get", "unsub", "quit"}
<1>1. sent \in Seq(Command) /\ Len(sent) \in Nat
  BY DEF Types
<1>2. /\ Len(sent') = Len(sent) + 1 /\ sent'[Len(sent) + 1] = cmd
      /\ \A i \in 1 .. Len(sent) : sent'[i] = sent[i]
  BY <1>1
<1>3. \A i \in 1 .. (Len(sent) + 1) : sent'[i].kind \in {"get", "unsub", "quit"}
  BY <1>2, Zenon DEF Simple
<1>4. Len(sent) + 1 \in 1 .. (Len(sent) + 1)
      /\ \A i \in 1 .. Len(sent) : i \in 1 .. (Len(sent) + 1)
  BY <1>1
<1>5. QED
  BY <1>2, <1>3, <1>4, Zenon DEF Simple

(* What the client takes of the reply it waits for.                        *)
LEMMA TakeReply ==
    ASSUME InStep, Simple, RecvReply
    PROVE  /\ replies' = <<>>
           /\ got' = Len(sent) \/ (got' = 0 /\ srv = "closed")
           /\ srv = "closed" \/ Len(handled) = Len(sent)
<1>1. cli.pc = "reply" /\ recv_resp_raw
  BY Zenon DEF RecvReply
<1>2. CASE replies = <<>>
  <2>1. srv = "closed"
    BY <1>1, <1>2, Zenon DEF recv_resp_raw, CanRecv
  <2>2. replies' = SubSeq(<<>>, 0 + 1, Len(<<>>)) /\ got' = 0
    BY <1>1, <1>2, Zenon DEF recv_resp_raw
  <2>3. QED
    BY <2>1, <2>2
<1>3. CASE replies # <<>>
  <2>1. /\ replies = <<Part("line", Len(sent))>>
        /\ srv = "closed" \/ Len(handled) = Len(sent)
    BY <1>1, <1>3, Zenon DEF InStep
  <2>2. Head(replies).t = "line" /\ Head(replies).of = Len(sent) /\ Len(replies) = 1
    BY <2>1 DEF Part
  <2>3. replies' = SubSeq(replies, 1 + 1, 1) /\ got' = Len(sent)
    BY <1>1, <1>3, <2>2, Zenon DEF recv_resp_raw
  <2>4. replies' = <<>>
    BY <2>1, <2>3
  <2>5. QED
    BY <2>1, <2>3, <2>4, Zenon
<1>4. QED
  BY <1>2, <1>3, Zenon

(* The server answers the one line that is under way.                      *)
LEMMA InStepHandle ==
    ASSUME LinesInv, InStep, HandleLine
    PROVE  InStep'
<1>1. UNCHANGED <<sent, cli>> /\ srv = "lines"
  BY Zenon DEF HandleLine, client
<1>2. SUFFICES ASSUME Simple
               PROVE  /\ cli.pc \in {"prompt", "reply", "closed"}
                      /\ ~subscribed' /\ ~listening'
                      /\ cli.pc # "prompt"
                      /\ cli.pc = "reply" =>
                           /\ replies' = <<Part("line", Len(sent))>>
                           /\ Len(handled') = Len(sent)
  <2>1. Simple' => Simple
    BY <1>1, Zenon DEF Simple
  <2>2. QED
    BY <1>1, <1>2, <2>1, Zenon DEF InStep
<1> DEFINE h == Len(handled)
           kind == sent[h + 1].kind
<1>3. /\ h \in Nat /\ h < Len(sent) /\ Len(sent) \in Nat
      /\ rx[1].kind = kind /\ rx[1].of = h + 1 /\ Len(handled') = h + 1
  <2>1. /\ h \in Nat /\ h < Len(sent) /\ rx[1].kind = kind /\ rx[1].of = h + 1
        /\ \E x : handled' = Append(handled, x)
    BY Handled, Zenon
  <2>2. handled \in Seq([kind : Kinds, len : Nat]) /\ Len(sent) \in Nat
    BY DEF LinesInv, Types
  <2>3. QED
    BY <2>1, <2>2
<1>4. kind \in {"get", "unsub", "quit"}
  BY <1>2, <1>3 DEF Simple
<1> HIDE DEF h, kind
<1>5. /\ ~subscribed /\ ~listening
      /\ cli.pc \in {"prompt", "reply", "closed"} /\ cli.pc # "prompt"
      /\ cli.pc = "reply" => replies = <<>> /\ h + 1 = Len(sent)
  BY <1>1, <1>2, <1>3 DEF InStep, h
<1>6. kind = "get" => process_command(kind, h + 1) = <<Part("line", h + 1)>>
  BY Zenon DEF process_command
<1>7. ~IsSub(kind)
  BY <1>4, Zenon DEF IsSub, Channels
<1>8. /\ ~subscribed' /\ ~listening'
      /\ replies' = replies \o <<Part("line", h + 1)>>
  <2>1. \/ IsSub(kind)
        \/ /\ replies' = replies \o <<Part("line", h + 1)>>
           /\ listening' = FALSE /\ UNCHANGED subscribed
        \/ /\ kind # "unsub" /\ (subscribed \/ kind # "quit")
           /\ replies' = replies \o (IF subscribed THEN <<>>
                                     ELSE process_command(kind, h + 1))
           /\ UNCHANGED <<subscribed, listening>>
    BY <1>3, HandleCases, Zenon
  <2>2. CASE /\ kind # "unsub" /\ (subscribed \/ kind # "quit")
             /\ replies' = replies \o (IF subscribed THEN <<>>
                                       ELSE process_command(kind, h + 1))
             /\ UNCHANGED <<subscribed, listening>>
    <3>1. kind = "get"
      BY <1>4, <1>5, <2>2, Zenon
    <3>2. replies' = replies \o process_command(kind, h + 1)
      BY <1>5, <2>2, Zenon
    <3>3. subscribed' = subscribed /\ listening' = listening
      BY <2>2, Zenon
    <3>4. QED
      BY <1>5, <1>6, <3>1, <3>2, <3>3, Zenon
  <2>3. CASE /\ replies' = replies \o <<Part("line", h + 1)>>
             /\ listening' = FALSE /\ UNCHANGED subscribed
    <3>1. ~subscribed' /\ ~listening'
      BY <1>5, <2>3, Zenon
    <3>2. QED
      BY <2>3, <3>1, Zenon
  <2>4. QED
    BY <1>7, <2>1, <2>2, <2>3, Zenon
<1>9. cli.pc = "reply" => replies' = <<Part("line", Len(sent))>> /\ Len(handled') = Len(sent)
  BY <1>3, <1>5, <1>8
<1>10. QED
  BY <1>5, <1>8, <1>9, Zenon

(* Every step keeps the client and the server in step.                     *)
LEMMA InStepStep == LinesInv /\ InStep /\ [SessionNext]_sessionvars => InStep'
<1>1. SUFFICES ASSUME LinesInv, InStep, [SessionNext]_sessionvars PROVE InStep'
  BY Zenon
<1>2. Types /\ Len(sent) \in Nat
  BY <1>1 DEF LinesInv, Types
<1>3. ASSUME UNCHANGED <<sent, subscribed, listening, handled, replies, cli>>,
             srv = "closed" => srv' = "closed"
      PROVE  InStep'
  BY <1>1, <1>3, Zenon DEF InStep, Simple
<1>4. ASSUME NEW n \in 1 .. RX, Read(n) PROVE InStep'
  BY <1>3, <1>4, Zenon DEF Read, client
<1>5. CASE ReadNothing
  <2>1. UNCHANGED <<sent, subscribed, handled, replies, cli>> /\ srv' = "closed" /\ ~listening'
    BY <1>5, Zenon DEF ReadNothing, client
  <2>2. QED
    BY <1>1, <2>1, Zenon DEF InStep, Simple
<1>6. CASE HandleLine
  BY <1>1, <1>6, InStepHandle, Zenon
<1>7. CASE KeepRest
  BY <1>3, <1>7, Zenon DEF KeepRest, client
<1>8. CASE Message
  <2>1. listening /\ UNCHANGED sent
    BY <1>8, Zenon DEF Message
  <2>2. ~Simple
    BY <1>1, <2>1, Zenon DEF InStep
  <2>3. QED
    BY <2>1, <2>2, Zenon DEF InStep, Simple
<1>9. ASSUME cli'.pc = "closed",
             UNCHANGED <<sent, wire, server, replies, once, got>>
      PROVE  InStep'
  BY <1>1, <1>9, Zenon DEF InStep, Simple, server
<1>10. ASSUME NEW cmd \in Command, repl_loop(cmd) PROVE InStep'
  <2>1. cli.pc = "prompt"
    BY <1>10, Zenon DEF repl_loop
  <2>2. CASE /\ send_cmd(cmd)
             /\ cli' = IF IsSub(cmd.kind) /\ ~once
                         THEN [pc |-> "acks", left |-> ExpectedAcks(cmd.kind)]
                         ELSE At("reply")
    <3>1. SUFFICES ASSUME Simple' PROVE InStep'
      BY Zenon DEF InStep
    <3>2. /\ sent' = Append(sent, cmd)
          /\ UNCHANGED <<srv, subscribed, listening, handled, replies>>
      BY <2>2, Zenon DEF send_cmd, server
    <3>3. Simple /\ cmd.kind \in {"get", "unsub", "quit"}
      BY <1>2, <3>1, <3>2, SimpleBefore, Zenon
    <3>4. cli'.pc = "reply"
      BY <2>2, <3>3, Zenon DEF IsSub, Channels, At
    <3>5. /\ ~subscribed /\ ~listening /\ replies = <<>>
          /\ srv = "closed" \/ Len(handled) = Len(sent)
      BY <1>1, <2>1, <3>3, Zenon DEF InStep
    <3>6. Len(sent') = Len(sent) + 1
      BY <1>2, <3>2 DEF Types
    <3>7. QED
      BY <3>2, <3>4, <3>5, <3>6, Zenon DEF InStep
  <2>3. CASE srv = "closed" /\ ~once /\ cli' = At("closed")
               /\ UNCHANGED <<sent, wire, server, replies, once, got>>
    BY <1>9, <2>3, Zenon DEF At
  <2>4. QED
    BY <1>10, <2>2, <2>3, Zenon DEF repl_loop
<1>11. CASE EndOfInput
  BY <1>9, <1>11, Zenon DEF EndOfInput, At
<1>12. CASE RecvReply
  <2>1. UNCHANGED <<sent, srv, subscribed, listening, handled>>
    BY <1>12, Zenon DEF RecvReply, recv_resp_raw, server
  <2>2. SUFFICES ASSUME Simple PROVE InStep'
    BY <2>1, Zenon DEF InStep, Simple
  <2>3. replies' = <<>> /\ (srv = "closed" \/ Len(handled) = Len(sent))
    BY <1>1, <1>12, <2>2, TakeReply, Zenon
  <2>4. cli'.pc \in {"prompt", "closed"}
    BY <1>12, Zenon DEF RecvReply, At
  <2>5. ~subscribed /\ ~listening
    BY <1>1, <2>2, Zenon DEF InStep
  <2>6. QED
    BY <2>1, <2>3, <2>4, <2>5, Zenon DEF InStep
<1>13. CASE RecvAck
  <2>1. cli.pc = "acks" /\ UNCHANGED sent
    BY <1>13, Zenon DEF RecvAck, recv_resp_raw
  <2>2. QED
    BY <1>1, <2>1, Zenon DEF InStep, Simple
<1>14. CASE pubsub_read_loop
  <2>1. cli.pc = "pubsub"
    BY <1>14, Zenon DEF pubsub_read_loop
  <2>2. ~Simple
    BY <1>1, <2>1, Zenon DEF InStep
  <2>3. \/ UNCHANGED sent \/ \E cmd \in Command : sent' = Append(sent, cmd)
    BY <1>14, Zenon DEF pubsub_read_loop, recv_resp_raw, send_cmd
  <2>4. ~Simple'
    <3>1. CASE UNCHANGED sent
      BY <2>2, <3>1, Zenon DEF Simple
    <3>2. CASE \E cmd \in Command : sent' = Append(sent, cmd)
      BY <1>2, <2>2, <3>2, SimpleBefore, Zenon
    <3>3. QED
      BY <2>3, <3>1, <3>2, Zenon
  <2>5. QED
    BY <2>4, Zenon DEF InStep
<1>15. CASE UNCHANGED sessionvars
  BY <1>3, <1>15, Zenon DEF sessionvars, server, client
<1>16. QED
  BY <1>1, <1>4, <1>5, <1>6, <1>7, <1>8, <1>10, <1>11, <1>12, <1>13, <1>14, <1>15, Zenon DEF SessionNext

(* The invariant: where the client and the replies under way are in a      *)
(* session of commands with one reply each.                                *)
THEOREM InStepHolds == SessionSpec => []InStep
<1>1. QED
  BY LinesHold, InStepInit, InStepStep, PTL DEF SessionSpec

(* The client never shows the reply to an earlier command for the one it   *)
(* waits for, as long as every command has one reply that it takes whole.  *)
(* This is the safety half of AnsweredInStep.                              *)
THEOREM RepliesMatch == SessionSpec => TakesOwnReply
<1>1. InStep /\ [SessionNext]_sessionvars =>
        [Simple /\ RecvReply => got' = Len(sent) \/ (got' = 0 /\ srv = "closed")]_sessionvars
  BY TakeReply, Zenon
<1>2. QED
  BY <1>1, InStepHolds, PTL DEF SessionSpec, TakesOwnReply
=============================================================================
