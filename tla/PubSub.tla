------------------------------- MODULE PubSub -------------------------------
(***************************************************************************)
(* Pub/Sub: the manager of src/core/kvdb.c with the loop of                *)
(* src/server/server.c that serves one client (handle_client_unlocked).    *)
(*                                                                         *)
(* A channel's list holds, newest first, an entry per SUBSCRIBE: the       *)
(* socket and the write lock of the client.  The lock is a local variable  *)
(* of the loop, so an entry names the client whose lock it points to.  A   *)
(* critical section of the manager's lock is one step.  PUBLISH copies the *)
(* list and sends without that lock, so clients come and go meanwhile; a   *)
(* socket's number is then reused.  A lock whose owner is gone is memory   *)
(* that is no longer a lock: taking it may succeed or never return.        *)
(***************************************************************************)
EXTENDS Naturals, Sequences, FiniteSets

CONSTANTS
    Client,
    Channel,
    Fd,            \* socket numbers
    MAX_BATCH,     \* the most subscribers that one PUBLISH reaches
    MaxPubs,       \* bound: PUBLISH commands
    MaxSubs,       \* bound: entries of a channel
    NoFd, Nobody

ASSUME PubSubAssumption ==
    /\ Fd \subseteq Nat /\ MAX_BATCH \in Nat /\ MaxPubs \in Nat /\ MaxSubs \in Nat
    /\ NoFd \notin Fd /\ Nobody \notin Client

VARIABLES
    loop,          \* per client: where its loop is
    fd,            \* per client: its socket
    subscribed,    \* per client: whether it is in Pub/Sub mode
    subs,          \* per channel: its entries
    wlock,         \* per client: the client whose loop holds its write lock
    pub,           \* per client: the PUBLISH under way
    pubs,          \* the number of PUBLISH commands so far
    inbox          \* per client: the messages sent to it

vars == <<loop, fd, subscribed, subs, wlock, pub, pubs, inbox>>

None == [pc |-> "none"]
Elements(s) == {s[i] : i \in 1 .. Len(s)}

Init ==
    /\ loop = [c \in Client |-> "new"]
    /\ fd = [c \in Client |-> NoFd]
    /\ subscribed = [c \in Client |-> FALSE]
    /\ subs = [ch \in Channel |-> <<>>]
    /\ wlock = [c \in Client |-> Nobody]
    /\ pub = [c \in Client |-> None]
    /\ pubs = 0
    /\ inbox = [c \in Client |-> {}]

(* accept(): the smallest number that is free.                             *)
Accept(c) ==
    LET free == Fd \ {fd[d] : d \in Client}
    IN  /\ loop[c] = "new" /\ free # {}
        /\ fd' = [fd EXCEPT ![c] = CHOOSE n \in free : \A m \in free : n <= m]
        /\ loop' = [loop EXCEPT ![c] = "read"]
        /\ UNCHANGED <<subscribed, subs, wlock, pub, pubs, inbox>>

-----------------------------------------------------------------------------
(* SUBSCRIBE: an entry at the front, whether or not there is one already.  *)
pubsub_subscribe(c, ch) ==
    /\ loop[c] = "read" /\ Len(subs[ch]) < MaxSubs
    /\ subs' = [subs EXCEPT ![ch] = <<[fd |-> fd[c], wlock |-> c]>> \o @]
    /\ subscribed' = [subscribed EXCEPT ![c] = TRUE]
    /\ loop' = [loop EXCEPT ![c] = "reply"]
    /\ UNCHANGED <<fd, wlock, pub, pubs, inbox>>

(* The entries of a list without the first one for socket n.               *)
WithoutFirst(s, n) ==
    LET mine == {i \in 1 .. Len(s) : s[i].fd = n}
    IN  IF mine = {} THEN s
        ELSE LET i == CHOOSE i \in mine : \A j \in mine : i <= j
             IN  SubSeq(s, 1, i - 1) \o SubSeq(s, i + 1, Len(s))

(* The entries of a list without those for socket n: the k-th that is kept *)
(* is the one with k - 1 kept before it.                                   *)
Without(s, n) ==
    LET kept == {i \in 1 .. Len(s) : s[i].fd # n}
    IN  [k \in 1 .. Cardinality(kept) |->
           s[CHOOSE i \in kept : Cardinality({j \in kept : j <= i}) = k]]

(* Mutant: UNSUBSCRIBE ends Pub/Sub mode.                                  *)
UnsubscribeResume(c, ch) ==
    /\ loop[c] = "read"
    /\ subs' = [subs EXCEPT ![ch] = WithoutFirst(@, fd[c])]
    /\ subscribed' = [subscribed EXCEPT ![c] = FALSE]
    /\ loop' = [loop EXCEPT ![c] = "reply"]
    /\ UNCHANGED <<fd, wlock, pub, pubs, inbox>>

(* UNSUBSCRIBE channel: the newest entry goes; the client stays in Pub/Sub *)
(* mode.                                                                   *)
pubsub_unsubscribe(c, ch) ==
    /\ loop[c] = "read"
    /\ subs' = [subs EXCEPT ![ch] = WithoutFirst(@, fd[c])]
    /\ loop' = [loop EXCEPT ![c] = "reply"]
    /\ UNCHANGED <<fd, subscribed, wlock, pub, pubs, inbox>>

(* Mutant: one entry per channel goes.                                     *)
UnsubscribeFirst(n) == subs' = [ch \in Channel |-> WithoutFirst(subs[ch], n)]

pubsub_unsubscribe_all(n) == subs' = [ch \in Channel |-> Without(subs[ch], n)]

(* UNSUBSCRIBE without a channel.                                          *)
UnsubscribeAll(c) ==
    /\ loop[c] = "read"
    /\ pubsub_unsubscribe_all(fd[c])
    /\ loop' = [loop EXCEPT ![c] = "reply"]
    /\ UNCHANGED <<fd, subscribed, wlock, pub, pubs, inbox>>

(* The reply is sent under the client's own lock.                          *)
Reply(c) ==
    /\ loop[c] = "reply" /\ wlock[c] = Nobody
    /\ loop' = [loop EXCEPT ![c] = "read"]
    /\ UNCHANGED <<fd, subscribed, subs, wlock, pub, pubs, inbox>>

(* The client closes its end, or sends QUIT outside Pub/Sub mode: the loop *)
(* ends and its entries go, ...                                            *)
Leave(c) ==
    /\ loop[c] = "read"
    /\ pubsub_unsubscribe_all(fd[c])
    /\ loop' = [loop EXCEPT ![c] = "close"]
    /\ UNCHANGED <<fd, subscribed, wlock, pub, pubs, inbox>>

(* ... and the socket is closed; the loop's variables are gone.            *)
Close(c) ==
    /\ loop[c] = "close"
    /\ loop' = [loop EXCEPT ![c] = "gone"]
    /\ fd' = [fd EXCEPT ![c] = NoFd]
    /\ subscribed' = [subscribed EXCEPT ![c] = FALSE]
    /\ inbox' = [inbox EXCEPT ![c] = {}]
    /\ UNCHANGED <<subs, wlock, pub, pubs>>

-----------------------------------------------------------------------------
(* PUBLISH, which a client in Pub/Sub mode cannot issue: under its own     *)
(* lock it copies the first entries of the channel.                        *)
pubsub_publish(c, ch) ==
    LET n == IF Len(subs[ch]) < MAX_BATCH THEN Len(subs[ch]) ELSE MAX_BATCH
    IN  /\ loop[c] = "read" /\ ~subscribed[c] /\ pubs < MaxPubs
        /\ wlock[c] = Nobody
        /\ wlock' = [wlock EXCEPT ![c] = c]
        /\ pubs' = pubs + 1
        /\ pub' = [pub EXCEPT ![c] =
             [pc |-> "lock", n |-> pubs', i |-> 1,
              batch |-> SubSeq(subs[ch], 1, n)]]
        /\ loop' = [loop EXCEPT ![c] = "publish"]
        /\ UNCHANGED <<fd, subscribed, subs, inbox>>

Target(c) == pub[c].batch[pub[c].i]

(* The loop over the copy: it takes the entry's lock, ...                  *)
Lock(c) ==
    /\ pub[c].pc = "lock" /\ pub[c].i <= Len(pub[c].batch)
    /\ LET owner == Target(c).wlock
       IN  /\ wlock[owner] = Nobody
           /\ wlock' = [wlock EXCEPT ![owner] = c]
    /\ pub' = [pub EXCEPT ![c].pc = "send"]
    /\ UNCHANGED <<loop, fd, subscribed, subs, pubs, inbox>>

(* Mutant: the loop ends when a socket is closed.                          *)
SendBreak(c) ==
    LET at == {d \in Client : fd[d] = Target(c).fd}
    IN  /\ pub[c].pc = "send"
        /\ inbox' = [d \in Client |->
             IF d \in at THEN inbox[d] \cup {<<c, pub[c].n>>} ELSE inbox[d]]
        /\ wlock' = [wlock EXCEPT ![Target(c).wlock] = Nobody]
        /\ pub' = [pub EXCEPT ![c].pc = "lock",
                              ![c].i = IF at = {} THEN Len(pub[c].batch) + 1
                                                  ELSE @ + 1]
        /\ UNCHANGED <<loop, fd, subscribed, subs, pubs>>

(* ... sends to whoever has that socket by now, and releases the lock.     *)
Send(c) ==
    LET at == {d \in Client : fd[d] = Target(c).fd}
    IN  /\ pub[c].pc = "send"
        /\ inbox' = [d \in Client |->
             IF d \in at THEN inbox[d] \cup {<<c, pub[c].n>>} ELSE inbox[d]]
        /\ wlock' = [wlock EXCEPT ![Target(c).wlock] = Nobody]
        /\ pub' = [pub EXCEPT ![c].pc = "lock", ![c].i = @ + 1]
        /\ UNCHANGED <<loop, fd, subscribed, subs, pubs>>

(* The count is sent, and the publisher's own lock released.               *)
Published(c) ==
    /\ pub[c].pc = "lock" /\ pub[c].i > Len(pub[c].batch)
    /\ pub' = [pub EXCEPT ![c] = None]
    /\ wlock' = [wlock EXCEPT ![c] = Nobody]
    /\ loop' = [loop EXCEPT ![c] = "read"]
    /\ UNCHANGED <<fd, subscribed, subs, pubs, inbox>>

handle_client_unlocked(c) ==
    \/ \E ch \in Channel : \/ pubsub_subscribe(c, ch)
                           \/ pubsub_unsubscribe(c, ch)
                           \/ pubsub_publish(c, ch)
    \/ UnsubscribeAll(c) \/ Reply(c)
    \/ Lock(c) \/ Send(c) \/ Published(c)
    \/ Leave(c) \/ Close(c)

Next == \E c \in Client : Accept(c) \/ handle_client_unlocked(c)

Spec == Init /\ [][Next]_vars

-----------------------------------------------------------------------------
(* A channel lists connected clients only, under their own socket, so a    *)
(* PUBLISH never starts with a dead entry however often a client has       *)
(* subscribed before it left (pubsub_unsubscribe_all before close).        *)
SubscribersAreOpen ==
    \A ch \in Channel : \A e \in Elements(subs[ch]) :
      loop[e.wlock] \in {"read", "reply", "publish"} /\ fd[e.wlock] = e.fd

(* A publisher holds its own write lock while it takes those of the        *)
(* subscribers.  Whoever holds a lock that a publisher or a reply waits    *)
(* for is sending and waits for no lock, so publishers never wait in a     *)
(* circle (Pub/Sub mode in handle_client_unlocked, pubsub_publish).        *)
NoCircularWait ==
    \A c \in Client :
      LET Busy(owner) == wlock[owner] # Nobody => pub[wlock[owner]].pc = "send"
      IN  /\ loop[c] = "reply" => Busy(c)
          /\ pub[c].pc = "lock" /\ pub[c].i <= Len(pub[c].batch) =>
               Busy(Target(c).wlock)

(* When a PUBLISH ends, every client it copied from the channel and that   *)
(* is still connected has got the message, whatever became of the others   *)
(* (pubsub_publish).                                                       *)
ReachesSubscribers ==
    [][\A c \in Client : pub[c] # None /\ pub'[c] = None =>
         \A e \in Elements(pub[c].batch) :
           fd[e.wlock] = e.fd => <<c, pub[c].n>> \in inbox[e.wlock]]_vars
=============================================================================
