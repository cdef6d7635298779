------------------------------ MODULE PeerLink ------------------------------
(***************************************************************************)
(* One node's link to one peer: connect_peer, cluster_send, hb_thread,     *)
(* handle_client and the other users of cluster_peer_t in                  *)
(* src/cluster/cluster.c.                                                  *)
(*                                                                         *)
(* A step is what a thread does under peer->lock, or one system call.  The *)
(* readers of peers_lock (cluster_init, hb_thread until it sweeps,         *)
(* repl_thread) exclude its writers (the handlers and the sweep).  Time    *)
(* goes in heartbeat intervals: age is msec_now() - last_seen.  The peer   *)
(* connects, joins and sends heartbeats, crashes and restarts; a           *)
(* connection may break.                                                   *)
(***************************************************************************)
EXTENDS Integers

CONSTANTS
    Fd,            \* bound: descriptors; the lowest free one is used
    DEAD,          \* CLUSTER_DEAD_MS in heartbeat intervals
    Gap,           \* the peer's heartbeats arrive at most that far apart
    MaxWait,       \* a heartbeat waits for peers_lock at most that long
    MaxLag,        \* and so does the sweep
    MaxFaults      \* bound: crashes of the peer and broken connections

(* The delays under which heartbeats keep a peer alive.                    *)
ASSUME PeerLinkAssumption ==
    /\ Fd \subseteq Nat
    /\ {DEAD, Gap, MaxWait, MaxLag, MaxFaults} \subseteq Nat
    /\ Gap + MaxWait <= DEAD

VARIABLES
    out_fd, in_fd, alive, age,      \* the cluster_peer_t
    fds,           \* per descriptor: free, out, broken (out, cut off) or in
    thread,        \* where main, hb and repl are, and the descriptor in hand
    handler,       \* the same of the handlers of the peer's connections
    peer_up,       \* the peer runs
    quiet,         \* how long ago a heartbeat arrived
    pending,       \* how long it has waited for peers_lock, or -1
    lag,           \* how long ago the sweep has read the clock
    faults

link == <<out_fd, in_fd, alive, age>>
world == <<peer_up, quiet, pending, lag, faults>>
linkvars == <<link, fds, thread, handler, world>>

At(pc) == [pc |-> pc, fd |-> -1]
With(pc, fd) == [pc |-> pc, fd |-> fd]
Goto(t, at) == thread' = [thread EXCEPT ![t] = at]
HandlerGoto(h, at) == handler' = [handler EXCEPT ![h] = at]

(* The descriptor that socket and accept give: the lowest free one.        *)
FreeFds == {f \in Fd : fds[f] = "free"}
NewFds == {f \in FreeFds : \A g \in FreeFds : f <= g}

Thread == {"main", "hb", "repl"}
Handler == {1, 2}
ReadLocked ==
    \E t \in Thread :
      thread[t].pc \in {"connect", "set", "send", "write", "fail"}

(* cluster_init, before it connects; the other threads run already.        *)
LinkInit ==
    /\ out_fd = -1 /\ in_fd = -1 /\ alive = FALSE /\ age = 0
    /\ fds = [f \in Fd |-> "free"]
    /\ thread = [t \in Thread |->
         At(CASE t = "main" -> "test" [] t = "hb" -> "sleep" [] t = "repl" -> "rest")]
    /\ handler = [h \in Handler |-> At("none")]
    /\ peer_up = TRUE /\ quiet = 0 /\ pending = -1 /\ lag = 0 /\ faults = 0

-----------------------------------------------------------------------------
(* connect_peer, called by main or hb, which is at done when it returns.   *)

(* The test under peer->lock.                                              *)
Test(t, done) ==
    /\ thread[t].pc = "test"
    /\ Goto(t, IF out_fd >= 0 THEN done ELSE At("connect"))
    /\ UNCHANGED <<link, fds, handler, world>>

(* socket and connect; a peer that is down refuses.                        *)
Connect(t, done) ==
    /\ thread[t].pc = "connect"
    /\ \/ \E f \in NewFds :
            /\ peer_up /\ Goto(t, With("set", f))
            /\ fds' = [fds EXCEPT ![f] = "out"]
       \/ (peer_up => FreeFds = {}) /\ Goto(t, done) /\ UNCHANGED fds
    /\ UNCHANGED <<link, handler, world>>

(* The assignments under peer->lock, and the JOIN message.                 *)
Set(t, done) ==
    /\ thread[t].pc = "set"
    /\ out_fd' = thread[t].fd /\ age' = 0 /\ alive' = TRUE
    /\ Goto(t, done)
    /\ UNCHANGED <<in_fd, fds, handler, world>>

connect_peer(t, done) == Test(t, done) \/ Connect(t, done) \/ Set(t, done)

(* cluster_send, called by hb or repl at pc: out_fd is read under          *)
(* peer->lock, the message written without it.                             *)
ReadOutFd(t, pc, done) ==
    /\ thread[t].pc = pc
    /\ Goto(t, IF out_fd >= 0 /\ alive THEN With("write", out_fd) ELSE done)
    /\ UNCHANGED <<link, fds, handler, world>>

(* By now the descriptor may be closed, or be another connection.          *)
WriteMsg(t, done) ==
    /\ thread[t].pc = "write"
    /\ Goto(t, IF fds[thread[t].fd] \in {"out", "in"} THEN done ELSE At("fail"))
    /\ UNCHANGED <<link, fds, handler, world>>

(* Mutant: the descriptor is closed and kept.                              *)
DropKept ==
    /\ alive' = FALSE
    /\ fds' = IF out_fd >= 0 THEN [fds EXCEPT ![out_fd] = "free"] ELSE fds
    /\ UNCHANGED <<out_fd, in_fd, age>>

(* Mutant: only alive is cleared.                                          *)
DropMarked == alive' = FALSE /\ UNCHANGED <<out_fd, in_fd, age, fds>>

(* The peer is marked dead and whatever out_fd is now is closed.           *)
Drop ==
    /\ alive' = FALSE
    /\ fds' = IF out_fd >= 0 THEN [fds EXCEPT ![out_fd] = "free"] ELSE fds
    /\ out_fd' = -1
    /\ UNCHANGED <<in_fd, age>>

SendFailed(t, done) ==
    /\ thread[t].pc = "fail"
    /\ Drop /\ Goto(t, done)
    /\ UNCHANGED <<handler, world>>

cluster_send(t, pc, done) ==
    ReadOutFd(t, pc, done) \/ WriteMsg(t, done) \/ SendFailed(t, done)

-----------------------------------------------------------------------------
(* The sweep of hb_thread under peers_lock.  The clock was read before the *)
(* lock was taken, and the difference is unsigned: a peer heard of since   *)
(* then counts as silent for ever.                                         *)
Sweep ==
    /\ thread["hb"].pc = "sweep" /\ ~ReadLocked
    /\ IF alive /\ (age - lag > DEAD \/ age < lag)
         THEN Drop ELSE UNCHANGED <<link, fds>>
    /\ Goto("hb", At("sleep"))
    /\ lag' = 0
    /\ UNCHANGED <<handler, peer_up, quiet, pending, faults>>

main_thread == connect_peer("main", At("done"))
hb_thread == connect_peer("hb", At("send")) \/ cluster_send("hb", "send", At("sweep"))
repl_thread == cluster_send("repl", "rest", At("rest"))

-----------------------------------------------------------------------------
(* handle_client, for the connections the peer makes.                      *)

(* bus_listener_thread accepts; the peer keeps one connection.             *)
Accept(h) ==
    /\ peer_up /\ handler[h].pc = "none"
    /\ \A g \in Handler \ {h} : handler[g].pc = "clear" \/ (handler[g].pc = "none" /\ h < g)
    /\ \E f \in NewFds :
         HandlerGoto(h, With("accepted", f)) /\ fds' = [fds EXCEPT ![f] = "in"]
    /\ UNCHANGED <<link, thread, world>>

(* JOIN.                                                                   *)
register_incoming_fd(h) ==
    /\ handler[h].pc = "accepted" /\ peer_up /\ ~ReadLocked
    /\ in_fd' = handler[h].fd /\ age' = 0 /\ alive' = TRUE
    /\ HandlerGoto(h, [handler[h] EXCEPT !.pc = "joined"])
    /\ quiet' = 0
    /\ UNCHANGED <<out_fd, fds, thread, peer_up, pending, lag, faults>>

(* Mutant: a heartbeat is matched by its descriptor only.                  *)
HeartbeatByFd(h) ==
    /\ handler[h].pc = "joined" /\ pending >= 0 /\ ~ReadLocked
    /\ age' = IF in_fd = handler[h].fd THEN 0 ELSE age
    /\ pending' = -1
    /\ UNCHANGED <<out_fd, in_fd, alive, fds, thread, handler, peer_up, quiet, lag, faults>>

(* HEARTBEAT, matched by in_fd or by the name the connection has joined    *)
(* under.                                                                  *)
Heartbeat(h) ==
    /\ handler[h].pc = "joined" /\ pending >= 0 /\ ~ReadLocked
    /\ age' = 0
    /\ in_fd' = IF in_fd < 0 THEN handler[h].fd ELSE in_fd
    /\ pending' = -1
    /\ UNCHANGED <<out_fd, alive, fds, thread, handler, peer_up, quiet, lag, faults>>

(* End of file, and close(fd): the number is free for another connection.  *)
Close(h) ==
    /\ handler[h].pc \in {"accepted", "joined"} /\ ~peer_up
    /\ fds' = [fds EXCEPT ![handler[h].fd] = "free"]
    /\ HandlerGoto(h, [handler[h] EXCEPT !.pc = "clear"])
    /\ pending' = -1
    /\ UNCHANGED <<link, thread, peer_up, quiet, lag, faults>>

(* in_fd is cleared if it has the number of the descriptor closed before.  *)
Clear(h) ==
    /\ handler[h].pc = "clear" /\ ~ReadLocked
    /\ in_fd' = IF in_fd = handler[h].fd THEN -1 ELSE in_fd
    /\ HandlerGoto(h, At("none"))
    /\ UNCHANGED <<out_fd, alive, age, fds, thread, world>>

-----------------------------------------------------------------------------
(* The peer and the network.  A write to a connection that is cut, or      *)
(* whose send buffer is full, falls short.                                 *)
JoinedHandlers == {h \in Handler : handler[h].pc = "joined"}
Heard == peer_up /\ JoinedHandlers # {}

Arrive ==
    /\ Heard /\ pending < 0
    /\ pending' = 0 /\ quiet' = 0
    /\ UNCHANGED <<link, fds, thread, handler, peer_up, lag, faults>>

Cut(f) == fds' = [g \in Fd |-> IF g \in f /\ fds[g] = "out" THEN "broken" ELSE fds[g]]

Break(f) ==
    /\ faults < MaxFaults /\ fds[f] = "out"
    /\ Cut({f}) /\ faults' = faults + 1
    /\ UNCHANGED <<link, thread, handler, peer_up, quiet, pending, lag>>

PeerCrash ==
    /\ peer_up /\ faults < MaxFaults
    /\ peer_up' = FALSE /\ Cut(Fd) /\ faults' = faults + 1
    /\ UNCHANGED <<link, thread, handler, quiet, pending, lag>>

(* The old connections are gone before the peer accepts again.             *)
PeerRestart ==
    /\ ~peer_up /\ \A h \in Handler : handler[h].pc \in {"none", "clear"}
    /\ peer_up' = TRUE
    /\ UNCHANGED <<link, fds, thread, handler, quiet, pending, lag, faults>>

(* A heartbeat interval passes: hb wakes up, or waits for peers_lock, or   *)
(* connects to another peer.                                               *)
Tick ==
    /\ thread["hb"].pc # "test"
    /\ Heard => quiet < Gap
    /\ pending < MaxWait
    /\ thread["hb"].pc = "sweep" => lag < MaxLag
    /\ age' = IF age > DEAD + MaxLag THEN age ELSE age + 1
    /\ quiet' = IF Heard THEN quiet + 1 ELSE 0
    /\ pending' = IF pending < 0 THEN -1 ELSE pending + 1
    /\ lag' = IF thread["hb"].pc = "sweep" THEN lag + 1 ELSE 0
    /\ IF thread["hb"].pc = "sleep" THEN Goto("hb", At("test")) ELSE UNCHANGED thread
    /\ UNCHANGED <<out_fd, in_fd, alive, fds, handler, peer_up, faults>>

LinkNext ==
    \/ main_thread \/ hb_thread \/ repl_thread \/ Sweep
    \/ \E h \in Handler :
         \/ Accept(h) \/ register_incoming_fd(h) \/ Heartbeat(h)
         \/ Close(h) \/ Clear(h)
    \/ \E f \in Fd : Break(f)
    \/ Arrive \/ PeerCrash \/ PeerRestart \/ Tick

(* Every thread goes on, also one that waits for a lock that is free again *)
(* and again; the peer connects and sends heartbeats while it is up.       *)
LinkFairness ==
    /\ WF_linkvars(main_thread)
    /\ WF_linkvars(hb_thread) /\ WF_linkvars(repl_thread)
    /\ SF_linkvars(Sweep) /\ WF_linkvars(Tick) /\ WF_linkvars(Arrive)
    /\ WF_linkvars(\E h \in Handler : Accept(h) \/ Close(h))
    /\ SF_linkvars(\E h \in Handler : register_incoming_fd(h) \/ Clear(h))
    /\ SF_linkvars(\E h \in Handler : Heartbeat(h))

LinkSpec == LinkInit /\ [][LinkNext]_linkvars /\ LinkFairness

-----------------------------------------------------------------------------
(* The open outgoing connections, and those of them that nobody has.       *)
OutFds == {f \in Fd : fds[f] \in {"out", "broken"}}
Lost ==
    {f \in OutFds : f # out_fd /\ \A t \in Thread :
                        thread[t].pc = "set" => f # thread[t].fd}

(* out_fd is an open connection to the peer, and then the peer is alive,   *)
(* without which nothing would be sent to it and nobody would connect      *)
(* again; no descriptor is lost but the one that main and hb_thread may    *)
(* both connect (connect_peer, cluster_send, the sweep).                   *)
OutFdOwned ==
    /\ out_fd >= 0 => out_fd \in OutFds /\ alive
    /\ \A f, g \in Lost : f = g
    /\ thread["main"].pc # "done" => Lost = {}

(* While the peer is up and joined and its heartbeats arrive in time, the  *)
(* sweep never takes it for dead, unless it has heard of the peer after it *)
(* had read the clock (hb_thread, handle_client).                          *)
NoFalseDeath ==
    [][thread["hb"].pc = "sweep" /\ thread'["hb"].pc = "sleep" /\ alive /\ ~alive' =>
         ~Heard \/ age < lag]_linkvars

(* While the peer is up the link heals: whatever broke, there is again an  *)
(* out_fd that works, and in_fd is again the peer's connection, also when  *)
(* a late handler has cleared it (connect_peer, hb_thread, handle_client). *)
LinkHeals ==
    /\ peer_up ~> (~peer_up \/ (out_fd >= 0 /\ fds[out_fd] = "out"))
    /\ Heard ~> (~Heard \/ \E h \in JoinedHandlers : in_fd = handler[h].fd)
=============================================================================
