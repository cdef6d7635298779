---------------------------- MODULE PubSubProofs ----------------------------
(***************************************************************************)
(* Proofs about PubSub, for any number of clients, channels and sockets.   *)
(* The inductive invariant Inv says who has a socket, who is in Pub/Sub    *)
(* mode, what a list and a copy of it may name, and who holds which write  *)
(* lock.                                                                   *)
(***************************************************************************)
EXTENDS PubSub, FiniteSetTheorems, WellFoundedInduction, TLAPS

Entry == [fd : Fd, wlock : Client]
Pub == [pc : {"lock", "send"}, n : Nat, i : Nat \ {0}, batch : Seq(Entry)]
Open == {"read", "reply", "publish", "close"}

Types ==
    /\ loop \in [Client -> Open \cup {"new", "gone"}]
    /\ fd \in [Client -> Fd \cup {NoFd}]
    /\ subscribed \in [Client -> BOOLEAN]
    /\ subs \in [Channel -> Seq(Entry)]
    /\ wlock \in [Client -> Client \cup {Nobody}]
    /\ pub \in [Client -> {None} \cup Pub]
    /\ pubs \in Nat
    /\ inbox \in [Client -> SUBSET (Client \X Nat)]

(* A socket belongs to one client, and to none that is new or gone.  A     *)
(* client that publishes is not in Pub/Sub mode.                           *)
Sockets ==
    /\ \A c \in Client : fd[c] \in Fd <=> loop[c] \in Open
    /\ \A c, d \in Client : fd[c] = fd[d] /\ fd[c] \in Fd => c = d
    /\ \A c \in Client : loop[c] \in {"new", "gone", "publish"} => ~subscribed[c]
    /\ \A c \in Client : pub[c] # None <=> loop[c] = "publish"

(* A listed client is in Pub/Sub mode and has the socket it is listed by.  *)
Listed ==
    \A ch \in Channel : \A e \in Elements(subs[ch]) :
      /\ subscribed[e.wlock] /\ loop[e.wlock] \in {"read", "reply"}
      /\ fd[e.wlock] = e.fd

(* A copied client stays in Pub/Sub mode until it is gone; those before    *)
(* the one whose turn it is have got the message or lost the socket.       *)
Copied ==
    \A c \in Client : pub[c] # None =>
      /\ pub[c].pc = "send" => pub[c].i <= Len(pub[c].batch)
      /\ \A j \in 1 .. Len(pub[c].batch) :
           LET e == pub[c].batch[j]
           IN  /\ subscribed[e.wlock] \/ loop[e.wlock] = "gone"
               /\ j < pub[c].i /\ fd[e.wlock] = e.fd =>
                    <<c, pub[c].n>> \in inbox[e.wlock]

(* The client whose lock the publication p takes next, or holds.           *)
Owner(p) == p.batch[p.i].wlock

(* A publisher holds its own lock, and while it sends that of its target;  *)
(* nobody holds any other.                                                 *)
Locks ==
    /\ \A c \in Client : pub[c] # None => wlock[c] = c
    /\ \A c \in Client : pub[c].pc = "send" => wlock[Owner(pub[c])] = c
    /\ \A x, c \in Client : wlock[x] = c =>
         /\ pub[c] # None
         /\ x = c \/ (pub[c].pc = "send" /\ Owner(pub[c]) = x)

Inv == Types /\ Sockets /\ Listed /\ Copied /\ Locks

-----------------------------------------------------------------------------
(* Lists.                                                                  *)

(* A nonempty set of naturals has a least element: accept() finds a number *)
(* when one is free.                                                       *)
LEMMA LeastNat ==
    ASSUME NEW T \in SUBSET Nat, T # {}
    PROVE  \E x \in T : \A y \in T : x <= y
  <1> DEFINE R == {ss \in Nat \X Nat : ss[1] < ss[2]}
  <1>1. IsWellFoundedOn(R, Nat)
    BY NatLessThanWellFounded, Zenon DEF OpToRel
  <1> HIDE DEF R
  <1>2. PICK x \in T : \A y \in T : ~(<<y, x>> \in R)
    BY <1>1, WFMin, Zenon
  <1>3. ASSUME NEW y \in T PROVE x <= y
    <2>1. x \in Nat /\ y \in Nat
      BY Zenon
    <2>2. ASSUME y < x PROVE FALSE
      <3>1. <<y, x>> \in R
        BY <2>1, <2>2, Zenon DEF R
      <3> QED
        BY <1>2, <3>1, Zenon
    <2> QED
      BY <2>1, <2>2
  <1> QED
    BY <1>2, <1>3, Zenon

(* Of a finite set of positions one is the k-th, for every k up to their   *)
(* number.                                                                 *)
LEMMA KthExists ==
    ASSUME NEW len \in Nat, NEW kept \in SUBSET (1 .. len), NEW k \in 1 .. Cardinality(kept)
    PROVE  \E i \in kept : Cardinality({j \in kept : j <= i}) = k
  <1> DEFINE Upto(m) == {j \in kept : j <= m}
             T == {m \in Nat : Cardinality(Upto(m)) >= k}
  <1>1. IsFiniteSet(1 .. len)
    BY FS_Interval
  <1>2. IsFiniteSet(kept)
    BY <1>1, FS_Subset, Zenon
  <1>21. Cardinality(kept) \in Nat
    BY <1>2, FS_CardinalityType, Zenon
  <1>22. k \in Nat /\ k >= 1 /\ k <= Cardinality(kept)
    BY <1>21
  <1>23. \A j \in kept : j \in Nat /\ j >= 1 /\ j <= len
    OBVIOUS
  <1>3. \A m \in Nat : IsFiniteSet(Upto(m)) /\ Cardinality(Upto(m)) \in Nat
    BY <1>2, FS_Subset, FS_CardinalityType, Upto(0) \in SUBSET kept, Zenon
  <1>4. Upto(len) = kept /\ Upto(0) = {}
    <2>1. \A j \in kept : j <= len /\ ~(j <= 0)
      BY <1>23
    <2> QED
      BY <2>1, Zenon
  <1>5. len \in T
    BY <1>21, <1>22, <1>4, Zenon
  <1>6. PICK m \in T : \A y \in T : m <= y
    BY <1>5, LeastNat, Zenon
  <1>7. m \in Nat /\ Cardinality(Upto(m)) >= k
    BY Zenon
  <1> HIDE DEF Upto
  <1>8. m # 0
    BY <1>22, <1>4, <1>7, FS_EmptySet
  <1>9. m - 1 \in Nat /\ m - 1 \notin T
    <2>1. m - 1 \in Nat /\ ~(m <= m - 1)
      BY <1>7, <1>8
    <2> HIDE DEF T
    <2> QED
      BY <1>6, <2>1, Zenon
  <1>10. Cardinality(Upto(m - 1)) < k
    <2>1. ~(Cardinality(Upto(m - 1)) >= k)
      BY <1>9, Zenon
    <2> QED
      BY <1>22, <1>3, <1>9, <2>1
  <1>11. m \in kept
    <2> SUFFICES ASSUME m \notin kept PROVE FALSE
      BY Zenon
    <2>1. \A j \in kept : j <= m <=> j <= m - 1
      BY <1>23, <1>7
    <2>2. Upto(m) = Upto(m - 1)
      BY <2>1, Zenon DEF Upto
    <2>3. Cardinality(Upto(m)) < k
      BY <1>10, <2>2, Zenon
    <2> QED
      BY <1>22, <1>3, <1>7, <2>3
  <1>12. Upto(m) = Upto(m - 1) \cup {m} /\ m \notin Upto(m - 1)
    <2>1. \A j \in kept : j <= m <=> (j <= m - 1 \/ j = m)
      BY <1>23, <1>7
    <2>2. m <= m /\ ~(m <= m - 1)
      BY <1>7
    <2> QED
      BY <1>11, <2>1, <2>2, Zenon DEF Upto
  <1>13. Cardinality(Upto(m)) = Cardinality(Upto(m - 1)) + 1
    BY <1>3, <1>9, <1>12, FS_AddElement, Zenon
  <1>14. Cardinality(Upto(m)) = k
    <2>1. Cardinality(Upto(m)) \in Nat /\ Cardinality(Upto(m - 1)) \in Nat
      BY <1>3, <1>7, <1>9, Zenon
    <2> QED
      BY <1>22, <1>7, <1>10, <1>13, <2>1
  <1> QED
    BY <1>11, <1>14, Zenon DEF Upto

LEMMA WithoutElements ==
    ASSUME NEW s \in Seq(Entry), NEW n
    PROVE  /\ Without(s, n) \in Seq(Entry)
           /\ \A e \in Elements(Without(s, n)) : e \in Elements(s) /\ e.fd # n
  <1> DEFINE kept == {i \in 1 .. Len(s) : s[i].fd # n}
             At(k) == CHOOSE i \in kept : Cardinality({j \in kept : j <= i}) = k
             t == [k \in 1 .. Cardinality(kept) |-> s[At(k)]]
  <1>1. Without(s, n) = t
    BY Zenon DEF Without
  <1>2. IsFiniteSet(kept) /\ Cardinality(kept) \in Nat
    <2>1. IsFiniteSet(1 .. Len(s))
      BY FS_Interval
    <2> QED
      BY <2>1, FS_Subset, FS_CardinalityType, kept \in SUBSET (1 .. Len(s)), Zenon
  <1>3. \A k \in 1 .. Cardinality(kept) : At(k) \in kept
    BY KthExists, kept \in SUBSET (1 .. Len(s)), Len(s) \in Nat, Zenon
  <1>4. \A k \in 1 .. Cardinality(kept) :
          s[At(k)] \in Entry /\ s[At(k)] \in Elements(s) /\ s[At(k)].fd # n
    <2> SUFFICES ASSUME NEW k \in 1 .. Cardinality(kept)
                 PROVE  s[At(k)] \in Entry /\ s[At(k)] \in Elements(s) /\ s[At(k)].fd # n
      BY Zenon
    <2>1. At(k) \in kept
      BY <1>3, Zenon
    <2> HIDE DEF At
    <2> QED
      BY <2>1 DEF Elements
  <1> HIDE DEF kept, At
  <1>5. t \in Seq(Entry) /\ Len(t) = Cardinality(kept)
    BY <1>2, <1>4
  <1>6. \A e \in Elements(t) : \E k \in 1 .. Cardinality(kept) : e = s[At(k)]
    BY <1>5, Zenon DEF Elements
  <1> QED
    BY <1>1, <1>4, <1>5, <1>6

(* What is in a part of a list, and in two lists one after the other.      *)
LEMMA PartElements ==
    ASSUME NEW s \in Seq(Entry), NEW a \in Nat \ {0}, NEW b \in Nat, b <= Len(s)
    PROVE  SubSeq(s, a, b) \in Seq(Entry) /\ Elements(SubSeq(s, a, b)) \subseteq Elements(s)
  <1> DEFINE t == SubSeq(s, a, b)
  <1>1. Len(t) \in Nat /\ \A h \in 1 .. Len(t) : t[h] = s[a + h - 1] /\ a + h - 1 \in 1 .. Len(s)
    OBVIOUS
  <1>2. t \in Seq(Entry)
    OBVIOUS
  <1> HIDE DEF t
  <1>3. Elements(t) \subseteq Elements(s)
    BY <1>1, Zenon DEF Elements
  <1> QED
    BY <1>2, <1>3, Zenon DEF t

LEMMA JoinElements ==
    ASSUME NEW s \in Seq(Entry), NEW t \in Seq(Entry)
    PROVE  s \o t \in Seq(Entry) /\ Elements(s \o t) \subseteq Elements(s) \cup Elements(t)
  <1>1. s \o t \in Seq(Entry) /\ Len(s \o t) = Len(s) + Len(t)
    OBVIOUS
  <1>2. ASSUME NEW h \in 1 .. Len(s \o t)
        PROVE  (s \o t)[h] \in Elements(s) \cup Elements(t)
    <2>1. CASE h <= Len(s)
      BY <1>1, <2>1 DEF Elements
    <2>2. CASE h > Len(s)
      <3>1. (s \o t)[h] = t[h - Len(s)] /\ h - Len(s) \in 1 .. Len(t)
        BY <1>1, <2>2
      <3> QED
        BY <3>1, Zenon DEF Elements
    <2> QED
      BY <1>1, <2>1, <2>2
  <1> QED
    BY <1>1, <1>2, Zenon DEF Elements

LEMMA WithoutFirstElements ==
    ASSUME NEW s \in Seq(Entry), NEW n
    PROVE  /\ WithoutFirst(s, n) \in Seq(Entry)
           /\ Elements(WithoutFirst(s, n)) \subseteq Elements(s)
  <1> DEFINE mine == {i \in 1 .. Len(s) : s[i].fd = n}
             i == CHOOSE i \in mine : \A j \in mine : i <= j
  <1>1. CASE mine = {}
    BY <1>1, Zenon DEF WithoutFirst
  <1>2. CASE mine # {}
    <2>1. i \in 1 .. Len(s)
      BY <1>2, LeastNat, mine \in SUBSET Nat, Zenon
    <2>2. WithoutFirst(s, n) = SubSeq(s, 1, i - 1) \o SubSeq(s, i + 1, Len(s))
      BY <1>2, Zenon DEF WithoutFirst
    <2> HIDE DEF i
    <2>3. /\ SubSeq(s, 1, i - 1) \in Seq(Entry)
          /\ Elements(SubSeq(s, 1, i - 1)) \subseteq Elements(s)
      BY <2>1, PartElements
    <2>4. /\ SubSeq(s, i + 1, Len(s)) \in Seq(Entry)
          /\ Elements(SubSeq(s, i + 1, Len(s))) \subseteq Elements(s)
      BY <2>1, PartElements
    <2> DEFINE t == SubSeq(s, 1, i - 1)
               u == SubSeq(s, i + 1, Len(s))
    <2> HIDE DEF t, u
    <2>5. t \o u \in Seq(Entry) /\ Elements(t \o u) \subseteq Elements(t) \cup Elements(u)
      BY <2>3, <2>4, JoinElements, Zenon DEF t, u
    <2> QED
      BY <2>2, <2>3, <2>4, <2>5, Zenon DEF t, u
  <1> QED
    BY <1>1, <1>2, Zenon

LEMMA FrontElements ==
    ASSUME NEW s \in Seq(Entry), NEW e \in Entry
    PROVE  <<e>> \o s \in Seq(Entry) /\ Elements(<<e>> \o s) \subseteq {e} \cup Elements(s)
  <1>1. <<e>> \in Seq(Entry) /\ Elements(<<e>>) = {e}
    BY DEF Elements
  <1> QED
    BY <1>1, JoinElements, Zenon

-----------------------------------------------------------------------------
(* Steps.                                                                  *)

LEMMA InvInit == Init => Inv
  <1> SUFFICES ASSUME Init PROVE Inv
    BY Zenon
  <1>1. Types
    BY DEF Init, Types, Open
  <1>2. Sockets
    BY PubSubAssumption, Zenon DEF Init, Sockets, Open
  <1>3. Listed
    BY DEF Init, Listed, Elements
  <1>4. \A c \in Client : pub[c] = None /\ pub[c].pc = "none" /\ wlock[c] = Nobody
    BY Zenon DEF Init, None
  <1>5. Copied /\ Locks
    BY <1>4, PubSubAssumption, Zenon DEF Copied, Locks
  <1> QED
    BY <1>1, <1>2, <1>3, <1>5, Zenon DEF Inv

(* What a copy and a list name.                                            *)
LEMMA Names ==
    ASSUME Types
    PROVE  /\ \A ch \in Channel : \A e \in Elements(subs[ch]) : e \in Entry
           /\ \A c \in Client : pub[c] # None => pub[c] \in Pub
           /\ \A c \in Client : pub[c] # None =>
                \A j \in 1 .. Len(pub[c].batch) : pub[c].batch[j] \in Entry
           /\ \A e \in Entry : e.wlock \in Client /\ e.fd \in Fd
  <1>1. ASSUME NEW ch \in Channel, NEW e \in Elements(subs[ch]) PROVE e \in Entry
    <2>1. subs[ch] \in Seq(Entry)
      BY Zenon DEF Types
    <2> QED
      BY <2>1 DEF Elements
  <1>2. \A c \in Client : pub[c] # None => pub[c] \in Pub
    BY Zenon DEF Types
  <1>3. ASSUME NEW c \in Client, pub[c] # None, NEW j \in 1 .. Len(pub[c].batch)
        PROVE  pub[c].batch[j] \in Entry
    <2>1. pub[c].batch \in Seq(Entry)
      BY <1>2, <1>3, Zenon DEF Pub
    <2> QED
      BY <2>1
  <1>4. \A e \in Entry : e.wlock \in Client /\ e.fd \in Fd
    BY Zenon DEF Entry
  <1> QED
    BY <1>1, <1>2, <1>3, <1>4, Zenon

(* A step of one client that is not part of a PUBLISH.                     *)
LEMMA Quiet ==
    ASSUME Inv, Types', NEW c \in Client, UNCHANGED <<pub, wlock>>,
           \A d \in Client \ {c} : /\ loop'[d] = loop[d] /\ fd'[d] = fd[d]
                                   /\ subscribed'[d] = subscribed[d] /\ inbox'[d] = inbox[d],
           loop[c] # "publish", loop'[c] # "publish",
           loop'[c] \in {"new", "gone"} => ~subscribed'[c],
           fd'[c] \in Fd <=> loop'[c] \in Open,
           fd'[c] \in Fd => \A d \in Client \ {c} : fd[d] # fd'[c],
           subscribed[c] \/ loop[c] = "gone" =>
             /\ subscribed'[c] \/ loop'[c] = "gone"
             /\ (fd'[c] = fd[c] /\ inbox'[c] = inbox[c]) \/ fd'[c] \notin Fd,
           \A ch \in Channel : \A e \in Elements(subs'[ch]) :
             \/ e \in Elements(subs[ch]) /\ e.wlock # c
             \/ /\ e.wlock = c /\ e.fd = fd'[c]
                /\ subscribed'[c] /\ loop'[c] \in {"read", "reply"}
    PROVE  Inv'
  <1>1. Types /\ Sockets /\ Listed /\ Copied /\ Locks
    BY Zenon DEF Inv
  <1>2. Sockets'
    <2>1. \A d \in Client : fd'[d] \in Fd <=> loop'[d] \in Open
      BY <1>1, Zenon DEF Sockets
    <2>2. ASSUME NEW d \in Client, NEW e \in Client, fd'[d] = fd'[e], fd'[d] \in Fd, d # e
          PROVE  FALSE
      BY <1>1, <2>2 DEF Sockets
    <2>3. \A d \in Client : loop'[d] \in {"new", "gone", "publish"} => ~subscribed'[d]
      BY <1>1, ZenonT(30) DEF Sockets
    <2>4. \A d \in Client : pub'[d] # None <=> loop'[d] = "publish"
      BY <1>1, Zenon DEF Sockets
    <2> QED
      BY <2>1, <2>2, <2>3, <2>4, Zenon DEF Sockets
  <1>3. Listed'
    <2> SUFFICES ASSUME NEW ch \in Channel, NEW e \in Elements(subs'[ch])
                 PROVE  /\ subscribed'[e.wlock] /\ loop'[e.wlock] \in {"read", "reply"}
                        /\ fd'[e.wlock] = e.fd
      BY Zenon DEF Listed
    <2>1. CASE e \in Elements(subs[ch]) /\ e.wlock # c
      <3>1. e.wlock \in Client \ {c}
        BY <1>1, <2>1, Names, Zenon
      <3> QED
        BY <1>1, <2>1, <3>1 DEF Listed
    <2> QED
      BY <2>1
  <1>4. Copied'
    <2> SUFFICES ASSUME NEW d \in Client, pub[d] # None
                 PROVE  /\ pub[d].pc = "send" => pub[d].i <= Len(pub[d].batch)
                        /\ \A j \in 1 .. Len(pub[d].batch) :
                             LET e == pub[d].batch[j]
                             IN  /\ subscribed'[e.wlock] \/ loop'[e.wlock] = "gone"
                                 /\ j < pub[d].i /\ fd'[e.wlock] = e.fd =>
                                      <<d, pub[d].n>> \in inbox'[e.wlock]
      BY Zenon DEF Copied
    <2>1. pub[d].pc = "send" => pub[d].i <= Len(pub[d].batch)
      BY <1>1, Zenon DEF Copied
    <2>2. ASSUME NEW j \in 1 .. Len(pub[d].batch), NEW e, e = pub[d].batch[j]
          PROVE  /\ subscribed'[e.wlock] \/ loop'[e.wlock] = "gone"
                 /\ j < pub[d].i /\ fd'[e.wlock] = e.fd =>
                      <<d, pub[d].n>> \in inbox'[e.wlock]
      <3>1. e.wlock \in Client /\ e.fd \in Fd
        BY <1>1, <2>2, Names, Zenon
      <3>2. /\ subscribed[e.wlock] \/ loop[e.wlock] = "gone"
            /\ j < pub[d].i /\ fd[e.wlock] = e.fd => <<d, pub[d].n>> \in inbox[e.wlock]
        BY <1>1, <2>2, Zenon DEF Copied
      <3>3. CASE e.wlock = c
        BY <3>1, <3>2, <3>3, Zenon
      <3>4. CASE e.wlock # c
        BY <3>1, <3>2, <3>4, Zenon
      <3> QED
        BY <3>3, <3>4, Zenon
    <2> QED
      BY <2>1, <2>2, Zenon
  <1>5. Locks'
    BY <1>1, Zenon DEF Locks
  <1> QED
    BY <1>2, <1>3, <1>4, <1>5, Zenon DEF Inv

LEMMA AcceptStep == ASSUME Inv, NEW c \in Client, Accept(c) PROVE Inv'
  <1> DEFINE free == Fd \ {fd[d] : d \in Client}
             f == CHOOSE n \in free : \A m \in free : n <= m
  <1>1. /\ loop[c] = "new" /\ free # {} /\ fd' = [fd EXCEPT ![c] = f]
        /\ loop' = [loop EXCEPT ![c] = "read"]
        /\ UNCHANGED <<subscribed, subs, wlock, pub, pubs, inbox>>
    BY Zenon DEF Accept
  <1>2. f \in free
    <2>1. free \in SUBSET Nat
      BY PubSubAssumption, Zenon
    <2> QED
      BY <1>1, <2>1, LeastNat, Zenon
  <1>3. f \in Fd /\ \A d \in Client : fd[d] # f
    BY <1>2, Zenon
  <1> HIDE DEF f
  <1>4. Types /\ Sockets /\ Listed
    BY Zenon DEF Inv
  <1>5. Types'
    BY <1>1, <1>3, <1>4, Zenon DEF Types, Open
  <1>6. /\ loop'[c] = "read" /\ fd'[c] = f
        /\ \A d \in Client \ {c} : loop'[d] = loop[d] /\ fd'[d] = fd[d]
    BY <1>1, <1>4, Zenon DEF Types
  <1>7. ~subscribed[c]
    BY <1>1, <1>4, Zenon DEF Sockets
  <1>8. \A ch \in Channel : \A e \in Elements(subs'[ch]) :
          e \in Elements(subs[ch]) /\ e.wlock # c
    BY <1>1, <1>4, <1>7, Zenon DEF Listed
  <1> QED
    BY <1>1, <1>3, <1>5, <1>6, <1>7, <1>8, Quiet DEF Open

(* The loop is in "read" or "reply": what Quiet asks of the client.        *)
LEMMA Serving ==
    ASSUME Inv, NEW c \in Client, loop[c] \in {"read", "reply"}
    PROVE  /\ fd[c] \in Fd /\ \A d \in Client \ {c} : fd[d] # fd[c]
           /\ pub[c] = None
           /\ \A ch \in Channel : \A e \in Elements(subs[ch]) :
                /\ e.wlock = c => e.fd = fd[c] /\ subscribed[c]
                /\ e.wlock # c => e.fd # fd[c]
  <1>1. Types /\ Sockets /\ Listed
    BY Zenon DEF Inv
  <1>2. /\ fd[c] \in Fd /\ pub[c] = None
    BY <1>1, Zenon DEF Sockets, Open
  <1>3. \A d \in Client \ {c} : fd[d] # fd[c]
    BY <1>1, <1>2, Zenon DEF Sockets
  <1>4. ASSUME NEW ch \in Channel, NEW e \in Elements(subs[ch])
        PROVE  /\ e.wlock = c => e.fd = fd[c] /\ subscribed[c]
               /\ e.wlock # c => e.fd # fd[c]
    <2>1. e.wlock \in Client /\ subscribed[e.wlock] /\ fd[e.wlock] = e.fd
      BY <1>1, Names, Zenon DEF Listed
    <2> QED
      BY <1>3, <2>1, Zenon
  <1> QED
    BY <1>2, <1>3, <1>4, Zenon

LEMMA SubscribeStep ==
    ASSUME Inv, NEW c \in Client, NEW ch \in Channel, pubsub_subscribe(c, ch)
    PROVE  Inv'
  <1> DEFINE e0 == [fd |-> fd[c], wlock |-> c]
  <1>1. /\ loop[c] = "read" /\ subs' = [subs EXCEPT ![ch] = <<e0>> \o subs[ch]]
        /\ subscribed' = [subscribed EXCEPT ![c] = TRUE]
        /\ loop' = [loop EXCEPT ![c] = "reply"]
        /\ UNCHANGED <<fd, wlock, pub, pubs, inbox>>
    BY Zenon DEF pubsub_subscribe
  <1>2. Types
    BY Zenon DEF Inv
  <1>3. /\ fd[c] \in Fd /\ \A d \in Client \ {c} : fd[d] # fd[c]
    BY <1>1, Serving, Zenon
  <1>4. e0 \in Entry /\ e0.fd = fd[c] /\ e0.wlock = c
    BY <1>3, Zenon DEF Entry
  <1> HIDE DEF e0
  <1>5. subs[ch] \in Seq(Entry)
    BY <1>2, Zenon DEF Types
  <1>6. /\ <<e0>> \o subs[ch] \in Seq(Entry)
        /\ Elements(<<e0>> \o subs[ch]) \subseteq {e0} \cup Elements(subs[ch])
    BY <1>4, <1>5, FrontElements, Zenon
  <1> DEFINE t == <<e0>> \o subs[ch]
  <1> HIDE DEF t
  <1>7. subs' = [subs EXCEPT ![ch] = t]
    BY <1>1, Zenon DEF t
  <1>8. Types'
    BY <1>1, <1>2, <1>6, <1>7, Zenon DEF Types, Open, t
  <1>9. \A g \in Channel : subs'[g] = IF g = ch THEN t ELSE subs[g]
    BY <1>2, <1>7, Zenon DEF Types
  <1>10. /\ loop'[c] = "reply" /\ subscribed'[c]
         /\ \A d \in Client \ {c} : loop'[d] = loop[d] /\ subscribed'[d] = subscribed[d]
    BY <1>1, <1>2, Zenon DEF Types
  <1>11. ASSUME NEW g \in Channel, NEW e \in Elements(subs'[g])
         PROVE  \/ e \in Elements(subs[g]) /\ e.wlock # c
                \/ /\ e.wlock = c /\ e.fd = fd'[c]
                   /\ subscribed'[c] /\ loop'[c] \in {"read", "reply"}
    <2>1. e = e0 \/ e \in Elements(subs[g])
      BY <1>6, <1>9, Zenon DEF t
    <2>2. CASE e = e0
      BY <1>1, <1>4, <1>10, <2>2, Zenon
    <2>3. CASE e \in Elements(subs[g])
      BY <1>1, <1>10, <2>3, Serving, Zenon
    <2> QED
      BY <2>1, <2>2, <2>3, Zenon
  <1>12. /\ UNCHANGED <<pub, wlock>>
         /\ \A d \in Client \ {c} : /\ loop'[d] = loop[d] /\ fd'[d] = fd[d]
                                    /\ subscribed'[d] = subscribed[d] /\ inbox'[d] = inbox[d]
         /\ loop[c] # "publish" /\ loop'[c] # "publish"
         /\ ~(loop'[c] \in {"new", "gone"}) /\ fd'[c] \in Fd /\ loop'[c] \in Open
         /\ \A d \in Client \ {c} : fd[d] # fd'[c]
         /\ subscribed'[c] /\ fd'[c] = fd[c] /\ inbox'[c] = inbox[c]
    BY <1>1, <1>3, <1>10, Zenon DEF Open
  <1> QED
    BY <1>8, <1>11, <1>12, Quiet, Zenon

(* A step of the loop that leaves entries out of the lists at most.        *)
LEMMA FewerStep ==
    ASSUME Inv, NEW c \in Client, loop[c] \in {"read", "reply"},
           NEW l \in {"read", "reply"}, loop' = [loop EXCEPT ![c] = l],
           subs' \in [Channel -> Seq(Entry)],
           \A ch \in Channel : Elements(subs'[ch]) \subseteq Elements(subs[ch]),
           UNCHANGED <<fd, subscribed, wlock, pub, pubs, inbox>>
    PROVE  Inv'
  <1>1. Types
    BY Zenon DEF Inv
  <1>2. Types'
    BY <1>1, Zenon DEF Types, Open
  <1>3. loop'[c] = l /\ \A d \in Client \ {c} : loop'[d] = loop[d]
    BY <1>1, Zenon DEF Types
  <1>4. ASSUME NEW g \in Channel, NEW e \in Elements(subs'[g])
        PROVE  \/ e \in Elements(subs[g]) /\ e.wlock # c
               \/ e.wlock = c /\ e.fd = fd[c] /\ subscribed[c]
    <2>1. e \in Elements(subs[g])
      BY Zenon
    <2> QED
      BY <2>1, Serving
  <1>5. /\ fd[c] \in Fd /\ \A d \in Client \ {c} : fd[d] # fd[c]
    BY Serving, Zenon
  <1> QED
    BY <1>2, <1>3, <1>4, <1>5, Quiet DEF Open

LEMMA UnsubscribeStep ==
    ASSUME Inv, NEW c \in Client, NEW ch \in Channel, pubsub_unsubscribe(c, ch)
    PROVE  Inv'
  <1> DEFINE t == WithoutFirst(subs[ch], fd[c])
  <1>1. /\ loop[c] = "read" /\ subs' = [subs EXCEPT ![ch] = t]
        /\ loop' = [loop EXCEPT ![c] = "reply"]
        /\ UNCHANGED <<fd, subscribed, wlock, pub, pubs, inbox>>
    BY Zenon DEF pubsub_unsubscribe
  <1>2. subs \in [Channel -> Seq(Entry)]
    BY Zenon DEF Inv, Types
  <1>3. t \in Seq(Entry) /\ Elements(t) \subseteq Elements(subs[ch])
    BY <1>2, WithoutFirstElements, Zenon
  <1> HIDE DEF t
  <1>4. /\ subs' \in [Channel -> Seq(Entry)]
        /\ \A g \in Channel : Elements(subs'[g]) \subseteq Elements(subs[g])
    BY <1>1, <1>2, <1>3, Zenon
  <1> QED
    BY <1>1, <1>4, FewerStep, Zenon

(* pubsub_unsubscribe_all: no entry of the client is left.                 *)
LEMMA AllStep ==
    ASSUME Inv, NEW c \in Client, loop[c] = "read", pubsub_unsubscribe_all(fd[c])
    PROVE  /\ subs' \in [Channel -> Seq(Entry)]
           /\ \A ch \in Channel : /\ Elements(subs'[ch]) \subseteq Elements(subs[ch])
                                  /\ \A e \in Elements(subs'[ch]) : e.wlock # c
  <1>1. subs \in [Channel -> Seq(Entry)]
    BY Zenon DEF Inv, Types
  <1>2. subs' = [ch \in Channel |-> Without(subs[ch], fd[c])]
    BY Zenon DEF pubsub_unsubscribe_all
  <1>3. ASSUME NEW ch \in Channel
        PROVE  /\ Without(subs[ch], fd[c]) \in Seq(Entry)
               /\ \A e \in Elements(Without(subs[ch], fd[c])) :
                    e \in Elements(subs[ch]) /\ e.fd # fd[c]
    BY <1>1, WithoutElements, Zenon
  <1>4. ASSUME NEW ch \in Channel, NEW e \in Elements(subs'[ch])
        PROVE  e \in Elements(subs[ch]) /\ e.wlock # c
    <2>1. e \in Elements(subs[ch]) /\ e.fd # fd[c]
      BY <1>2, <1>3, Zenon
    <2> QED
      BY <2>1, Serving, Zenon
  <1> QED
    BY <1>2, <1>3, <1>4, Zenon

LEMMA UnsubscribeAllStep ==
    ASSUME Inv, NEW c \in Client, UnsubscribeAll(c)
    PROVE  Inv'
  BY AllStep, FewerStep, Zenon DEF UnsubscribeAll

LEMMA ReplyStep ==
    ASSUME Inv, NEW c \in Client, Reply(c)
    PROVE  Inv'
  <1>1. subs \in [Channel -> Seq(Entry)]
    BY Zenon DEF Inv, Types
  <1> QED
    BY <1>1, FewerStep, Zenon DEF Reply

LEMMA LeaveStep ==
    ASSUME Inv, NEW c \in Client, Leave(c)
    PROVE  Inv'
  <1>1. /\ loop[c] = "read" /\ pubsub_unsubscribe_all(fd[c])
        /\ loop' = [loop EXCEPT ![c] = "close"]
        /\ UNCHANGED <<fd, subscribed, wlock, pub, pubs, inbox>>
    BY Zenon DEF Leave
  <1>2. Types
    BY Zenon DEF Inv
  <1>3. /\ subs' \in [Channel -> Seq(Entry)]
        /\ \A ch \in Channel : /\ Elements(subs'[ch]) \subseteq Elements(subs[ch])
                               /\ \A e \in Elements(subs'[ch]) : e.wlock # c
    BY <1>1, AllStep, Zenon
  <1>4. Types'
    BY <1>1, <1>2, <1>3, Zenon DEF Types, Open
  <1>5. loop'[c] = "close" /\ \A d \in Client \ {c} : loop'[d] = loop[d]
    BY <1>1, <1>2, Zenon DEF Types
  <1>6. \A ch \in Channel : \A e \in Elements(subs'[ch]) : e \in Elements(subs[ch]) /\ e.wlock # c
    BY <1>3, Zenon
  <1>7. /\ fd[c] \in Fd /\ \A d \in Client \ {c} : fd[d] # fd[c]
    BY <1>1, Serving, Zenon
  <1> QED
    BY <1>1, <1>4, <1>5, <1>6, <1>7, Quiet DEF Open

LEMMA CloseStep ==
    ASSUME Inv, NEW c \in Client, Close(c)
    PROVE  Inv'
  <1>1. /\ loop[c] = "close" /\ loop' = [loop EXCEPT ![c] = "gone"]
        /\ fd' = [fd EXCEPT ![c] = NoFd] /\ subscribed' = [subscribed EXCEPT ![c] = FALSE]
        /\ inbox' = [inbox EXCEPT ![c] = {}] /\ UNCHANGED <<subs, wlock, pub, pubs>>
    BY Zenon DEF Close
  <1>2. Types /\ Listed
    BY Zenon DEF Inv
  <1>3. Types'
    BY <1>1, <1>2, Zenon DEF Types, Open
  <1>4. /\ loop'[c] = "gone" /\ fd'[c] = NoFd /\ ~subscribed'[c]
        /\ \A d \in Client \ {c} : /\ loop'[d] = loop[d] /\ fd'[d] = fd[d]
                                   /\ subscribed'[d] = subscribed[d] /\ inbox'[d] = inbox[d]
    BY <1>1, <1>2, Zenon DEF Types
  <1>5. \A ch \in Channel : \A e \in Elements(subs'[ch]) : e \in Elements(subs[ch]) /\ e.wlock # c
    BY <1>1, <1>2, Zenon DEF Listed
  <1>6. /\ UNCHANGED <<pub, wlock>> /\ loop[c] # "publish" /\ loop'[c] # "publish"
        /\ fd'[c] \notin Fd /\ ~(loop'[c] \in Open)
    BY <1>1, <1>4, PubSubAssumption, Zenon DEF Open
  <1> QED
    BY <1>3, <1>4, <1>5, <1>6, Quiet, Zenon

(* The entry whose turn it is.                                             *)
LEMMA Turn ==
    ASSUME Types, Copied, NEW c \in Client, pub[c] # None,
           pub[c].pc = "send" \/ pub[c].i <= Len(pub[c].batch)
    PROVE  /\ pub[c] \in Pub /\ pub[c].i \in 1 .. Len(pub[c].batch)
           /\ pub[c].batch[pub[c].i] \in Entry /\ Owner(pub[c]) \in Client
           /\ subscribed[Owner(pub[c])] \/ loop[Owner(pub[c])] = "gone"
  <1>1. pub[c] \in Pub /\ pub[c].i <= Len(pub[c].batch)
    BY Names, Zenon DEF Copied
  <1>2. pub[c].i \in Nat \ {0} /\ pub[c].batch \in Seq(Entry)
    BY <1>1, Zenon DEF Pub
  <1>3. pub[c].i \in 1 .. Len(pub[c].batch)
    BY <1>1, <1>2
  <1>4. pub[c].batch[pub[c].i] \in Entry
    BY <1>2, <1>3
  <1>5. Owner(pub[c]) \in Client
    BY <1>4, Names, Zenon DEF Owner
  <1>6. subscribed[Owner(pub[c])] \/ loop[Owner(pub[c])] = "gone"
    BY <1>3, Zenon DEF Copied, Owner
  <1> QED
    BY <1>1, <1>3, <1>4, <1>5, <1>6, Zenon

(* PUBLISH begins.                                                         *)
LEMMA PublishStep ==
    ASSUME Inv, NEW c \in Client, NEW ch \in Channel, pubsub_publish(c, ch)
    PROVE  Inv'
  <1> DEFINE n == IF Len(subs[ch]) < MAX_BATCH THEN Len(subs[ch]) ELSE MAX_BATCH
             t == SubSeq(subs[ch], 1, n)
             rec == [pc |-> "lock", n |-> pubs + 1, i |-> 1, batch |-> t]
  <1>1. /\ loop[c] = "read" /\ ~subscribed[c] /\ wlock[c] = Nobody
        /\ wlock' = [wlock EXCEPT ![c] = c] /\ pubs' = pubs + 1
        /\ pub' = [pub EXCEPT ![c] = rec] /\ loop' = [loop EXCEPT ![c] = "publish"]
        /\ UNCHANGED <<fd, subscribed, subs, inbox>>
    BY Zenon DEF pubsub_publish
  <1>2. Types /\ Sockets /\ Listed /\ Copied /\ Locks
    BY Zenon DEF Inv
  <1>3. subs[ch] \in Seq(Entry) /\ pubs \in Nat
    BY <1>2, Zenon DEF Types
  <1>4. n \in 0 .. Len(subs[ch])
    BY <1>3, PubSubAssumption
  <1>5. t \in Seq(Entry) /\ Elements(t) \subseteq Elements(subs[ch])
    BY <1>3, <1>4, PartElements
  <1> HIDE DEF n, t
  <1>6. rec \in Pub /\ rec # None /\ rec.pc = "lock" /\ rec.i = 1 /\ rec.batch = t
    BY <1>3, <1>5 DEF Pub, None
  <1> HIDE DEF rec
  <1>7. Types'
    BY <1>1, <1>2, <1>6 DEF Types, Open
  <1>8. /\ pub'[c] = rec /\ loop'[c] = "publish" /\ wlock'[c] = c
        /\ \A d \in Client \ {c} : /\ pub'[d] = pub[d] /\ loop'[d] = loop[d]
                                   /\ wlock'[d] = wlock[d]
    BY <1>1, <1>2, Zenon DEF Types
  <1>9. Sockets'
    BY <1>1, <1>2, <1>6, <1>8 DEF Sockets, Open
  <1>10. Listed'
    <2> SUFFICES ASSUME NEW g \in Channel, NEW e \in Elements(subs[g])
                 PROVE  /\ subscribed[e.wlock] /\ loop'[e.wlock] \in {"read", "reply"}
                        /\ fd[e.wlock] = e.fd
      BY <1>1, Zenon DEF Listed
    <2>1. e.wlock \in Client \ {c}
      BY <1>1, <1>2, Names, Zenon DEF Listed
    <2> QED
      BY <1>2, <1>8, <2>1, ZenonT(30) DEF Listed
  <1>11. ASSUME NEW d \in Client, pub'[d] # None
         PROVE  /\ pub'[d].pc = "send" => pub'[d].i <= Len(pub'[d].batch)
                /\ \A j \in 1 .. Len(pub'[d].batch) :
                     LET e == pub'[d].batch[j]
                     IN  /\ subscribed'[e.wlock] \/ loop'[e.wlock] = "gone"
                         /\ j < pub'[d].i /\ fd'[e.wlock] = e.fd =>
                              <<d, pub'[d].n>> \in inbox'[e.wlock]
    <2>1. CASE d = c
      <3>1. ASSUME NEW j \in 1 .. Len(t) PROVE subscribed[t[j].wlock] /\ ~(j < 1)
        <4>1. t[j] \in Elements(t)
          BY Zenon DEF Elements
        <4> QED
          BY <1>2, <1>5, <4>1 DEF Listed
      <3> QED
        BY <1>1, <1>6, <1>8, <2>1, <3>1
    <2>2. CASE d # c
      <3>1. pub'[d] = pub[d]
        BY <1>8, <2>2, Zenon
      <3>2. ASSUME NEW j \in 1 .. Len(pub[d].batch), NEW e, e = pub[d].batch[j]
            PROVE  /\ subscribed'[e.wlock] \/ loop'[e.wlock] = "gone"
                   /\ j < pub[d].i /\ fd'[e.wlock] = e.fd =>
                        <<d, pub[d].n>> \in inbox'[e.wlock]
        <4>1. /\ subscribed[e.wlock] \/ loop[e.wlock] = "gone"
              /\ j < pub[d].i /\ fd[e.wlock] = e.fd => <<d, pub[d].n>> \in inbox[e.wlock]
          BY <1>2, <1>11, <3>1, <3>2, Zenon DEF Copied
        <4>2. e.wlock \in Client
          BY <1>2, <1>11, <3>1, <3>2, Names, Zenon
        <4>3. e.wlock # c
          BY <1>1, <4>1, Zenon
        <4> QED
          BY <1>1, <1>8, <4>1, <4>2, <4>3, Zenon
      <3>3. pub[d].pc = "send" => pub[d].i <= Len(pub[d].batch)
        BY <1>2, <1>11, <3>1, Zenon DEF Copied
      <3> QED
        BY <3>1, <3>2, <3>3, Zenon
    <2> QED
      BY <2>1, <2>2, Zenon
  <1>12. Copied'
    BY <1>11, Zenon DEF Copied
  <1>13. Locks'
    <2>1. \A d \in Client : pub'[d] # None => wlock'[d] = d
      BY <1>2, <1>8, Zenon DEF Locks
    <2>2. ASSUME NEW d \in Client, pub'[d].pc = "send"
          PROVE  wlock'[Owner(pub'[d])] = d
      <3>1. d # c /\ pub'[d] = pub[d]
        BY <1>6, <1>8, <2>2, Zenon
      <3>2. wlock[Owner(pub[d])] = d /\ Owner(pub[d]) \in Client
        <4>1. pub[d] # None
          BY <2>2, <3>1 DEF None
        <4> QED
          BY <1>2, <2>2, <3>1, <4>1, Turn, Zenon DEF Locks
      <3>3. Owner(pub[d]) # c
        BY <1>1, <3>2, PubSubAssumption, Zenon
      <3> QED
        BY <1>8, <3>1, <3>2, <3>3, Zenon
    <2>3. ASSUME NEW x \in Client, NEW d \in Client, wlock'[x] = d
          PROVE  pub'[d] # None /\ (x = d \/ (pub'[d].pc = "send" /\ Owner(pub'[d]) = x))
      <3>1. CASE x = c
        BY <1>6, <1>8, <2>3, <3>1, Zenon
      <3>2. CASE x # c
        <4>1. wlock[x] = d
          BY <1>8, <2>3, <3>2, Zenon
        <4>2. pub[d] # None /\ (x = d \/ (pub[d].pc = "send" /\ Owner(pub[d]) = x))
          BY <1>2, <4>1, Zenon DEF Locks
        <4>3. d # c
          BY <1>1, <4>2, Serving, Zenon
        <4> QED
          BY <1>8, <4>2, <4>3, Zenon
      <3> QED
        BY <3>1, <3>2, Zenon
    <2> QED
      BY <2>1, <2>2, <2>3, Zenon DEF Locks
  <1> QED
    BY <1>7, <1>9, <1>10, <1>12, <1>13, Zenon DEF Inv

(* A publisher is no subscriber, so it is neither listed nor in a copy.    *)
LEMMA Publishing ==
    ASSUME Inv, NEW c \in Client, pub[c] # None
    PROVE  /\ pub[c] \in Pub /\ loop[c] = "publish" /\ ~subscribed[c]
           /\ \A ch \in Channel : \A e \in Elements(subs[ch]) : e.wlock # c
           /\ \A d \in Client : pub[d] # None =>
                \A j \in 1 .. Len(pub[d].batch) : pub[d].batch[j].wlock # c
  <1>1. Types /\ Sockets /\ Listed /\ Copied
    BY Zenon DEF Inv
  <1>2. pub[c] \in Pub /\ loop[c] = "publish" /\ ~subscribed[c]
    BY <1>1, Names, Zenon DEF Sockets
  <1>3. \A ch \in Channel : \A e \in Elements(subs[ch]) : e.wlock # c
    BY <1>1, <1>2, Zenon DEF Listed
  <1>4. ASSUME NEW d \in Client, pub[d] # None, NEW j \in 1 .. Len(pub[d].batch)
        PROVE  pub[d].batch[j].wlock # c
    <2>1. \/ subscribed[pub[d].batch[j].wlock]
          \/ loop[pub[d].batch[j].wlock] = "gone"
      BY <1>1, <1>4, Zenon DEF Copied
    <2> QED
      BY <1>2, <2>1, Zenon
  <1> QED
    BY <1>2, <1>3, <1>4, Zenon

(* The lock of the next entry is taken.                                    *)
LEMMA LockStep ==
    ASSUME Inv, NEW c \in Client, Lock(c)
    PROVE  Inv'
  <1> DEFINE o == Owner(pub[c])
             q == [pub[c] EXCEPT !.pc = "send"]
  <1>1. /\ pub[c].pc = "lock" /\ pub[c].i <= Len(pub[c].batch) /\ wlock[o] = Nobody
        /\ wlock' = [wlock EXCEPT ![o] = c] /\ pub' = [pub EXCEPT ![c] = q]
        /\ UNCHANGED <<loop, fd, subscribed, subs, pubs, inbox>>
    BY Zenon DEF Lock, Target, Owner
  <1>2. Types /\ Sockets /\ Listed /\ Copied /\ Locks
    BY Zenon DEF Inv
  <1>3. pub[c] # None
    BY <1>1 DEF None
  <1>4. pub[c] \in Pub /\ o \in Client
    BY <1>1, <1>2, <1>3, Turn, Zenon
  <1>5. /\ q \in Pub /\ q.pc = "send" /\ q.i = pub[c].i /\ q.batch = pub[c].batch
        /\ q.n = pub[c].n
    BY <1>4, Zenon DEF Pub
  <1>6. q # None /\ Owner(q) = o
    BY <1>5, Zenon DEF None, Owner
  <1> HIDE DEF q, o
  <1>7. Types'
    BY <1>1, <1>2, <1>4, <1>5, Zenon DEF Types
  <1>8. /\ pub'[c] = q /\ wlock'[o] = c
        /\ \A d \in Client \ {c} : pub'[d] = pub[d]
        /\ \A d \in Client \ {o} : wlock'[d] = wlock[d]
    BY <1>1, <1>2, <1>4, Zenon DEF Types
  <1>9. Sockets'
    BY <1>1, <1>2, <1>3, <1>6, <1>8, Zenon DEF Sockets
  <1>10. Listed'
    BY <1>1, <1>2, Zenon DEF Listed
  <1>11. ASSUME NEW d \in Client, pub'[d] # None
         PROVE  /\ pub[d] # None /\ pub'[d].i = pub[d].i /\ pub'[d].batch = pub[d].batch
                /\ pub'[d].n = pub[d].n
                /\ pub'[d].pc = "send" => pub'[d].i <= Len(pub'[d].batch)
    <2>1. CASE d = c
      BY <1>1, <1>3, <1>5, <1>8, <2>1, Zenon
    <2>2. CASE d # c
      BY <1>2, <1>8, <1>11, <2>2, ZenonT(30) DEF Copied
    <2> QED
      BY <2>1, <2>2, Zenon
  <1>12. Copied'
    BY <1>1, <1>2, <1>11 DEF Copied
  <1>13. Locks'
    <2>0. o # c
      BY <1>1, <1>2, <1>3, PubSubAssumption, Zenon DEF Locks
    <2>1. ASSUME NEW d \in Client, pub'[d] # None PROVE wlock'[d] = d
      <3>1. pub[d] # None /\ wlock[d] = d
        BY <1>2, <1>11, <2>1, Zenon DEF Locks
      <3>2. d # o
        BY <1>1, <3>1, PubSubAssumption, Zenon
      <3> QED
        BY <1>8, <3>1, <3>2, Zenon
    <2>2. ASSUME NEW d \in Client, pub'[d].pc = "send"
          PROVE  wlock'[Owner(pub'[d])] = d
      <3>1. CASE d = c
        BY <1>6, <1>8, <3>1, Zenon
      <3>2. CASE d # c
        <4>1. pub'[d] = pub[d] /\ pub[d] # None
          BY <1>8, <2>2, <3>2 DEF None
        <4>2. wlock[Owner(pub[d])] = d /\ Owner(pub[d]) \in Client
          BY <1>2, <2>2, <4>1, Turn, Zenon DEF Locks
        <4>3. Owner(pub[d]) # o
          BY <1>1, <4>2, PubSubAssumption, Zenon
        <4> QED
          BY <1>8, <4>1, <4>2, <4>3, Zenon
      <3> QED
        BY <3>1, <3>2, Zenon
    <2>3. ASSUME NEW x \in Client, NEW d \in Client, wlock'[x] = d
          PROVE  pub'[d] # None /\ (x = d \/ (pub'[d].pc = "send" /\ Owner(pub'[d]) = x))
      <3>1. CASE x = o
        BY <1>5, <1>6, <1>8, <2>3, <3>1, Zenon
      <3>2. CASE x # o
        <4>1. pub[d] # None /\ (x = d \/ (pub[d].pc = "send" /\ Owner(pub[d]) = x))
          BY <1>2, <1>8, <2>3, <3>2, Zenon DEF Locks
        <4>2. CASE d = c
          BY <1>1, <1>6, <1>8, <4>1, <4>2, Zenon
        <4>3. CASE d # c
          BY <1>8, <4>1, <4>3, Zenon
        <4> QED
          BY <4>2, <4>3, Zenon
      <3> QED
        BY <3>1, <3>2, Zenon
    <2> QED
      BY <2>1, <2>2, <2>3, Zenon DEF Locks
  <1> QED
    BY <1>7, <1>9, <1>10, <1>12, <1>13, Zenon DEF Inv

(* The message is sent to whoever has the socket.                          *)
LEMMA SendStep ==
    ASSUME Inv, NEW c \in Client, Send(c)
    PROVE  Inv'
  <1> DEFINE e0 == pub[c].batch[pub[c].i]
             o == Owner(pub[c])
             at == {d \in Client : fd[d] = e0.fd}
             q == [pub[c] EXCEPT !.pc = "lock", !.i = pub[c].i + 1]
             msg == <<c, pub[c].n>>
  <1>1. /\ pub[c].pc = "send" /\ wlock' = [wlock EXCEPT ![o] = Nobody]
        /\ pub' = [pub EXCEPT ![c] = q]
        /\ UNCHANGED <<loop, fd, subscribed, subs, pubs>>
    BY Zenon DEF Send, Target, Owner
  <1>2. inbox' = [d \in Client |-> IF d \in at THEN inbox[d] \cup {msg} ELSE inbox[d]]
    BY Zenon DEF Send, Target
  <1>3. Types /\ Sockets /\ Listed /\ Copied /\ Locks
    BY Zenon DEF Inv
  <1>4. pub[c] # None
    BY <1>1 DEF None
  <1>5. pub[c] \in Pub /\ o \in Client /\ pub[c].i \in 1 .. Len(pub[c].batch) /\ o = e0.wlock
    BY <1>1, <1>3, <1>4, Turn, Zenon DEF Owner
  <1>6. /\ q \in Pub /\ q.pc = "lock" /\ q.i = pub[c].i + 1 /\ q.batch = pub[c].batch
        /\ q.n = pub[c].n /\ pub[c].i \in Nat
    <2> DEFINE k == pub[c].i + 1
               r == [pub[c] EXCEPT !.pc = "lock"]
    <2>1. pub[c].i \in Nat /\ k \in Nat \ {0}
      BY <1>5 DEF Pub
    <2>2. /\ r \in Pub /\ r.pc = "lock" /\ r.batch = pub[c].batch /\ r.n = pub[c].n
      BY <1>5, Zenon DEF Pub
    <2>3. q = [r EXCEPT !.i = k]
      BY Zenon
    <2> HIDE DEF q, k, r
    <2>4. /\ q \in Pub /\ q.pc = "lock" /\ q.i = k /\ q.batch = r.batch /\ q.n = r.n
      BY <2>1, <2>2, <2>3, Zenon DEF Pub
    <2> QED
      BY <2>1, <2>2, <2>4, Zenon DEF k
  <1>7. q # None /\ msg \in Client \X Nat
    BY <1>5, <1>6, Zenon DEF None, Pub
  <1> HIDE DEF q, o, msg, e0
  <1>8. /\ inbox' \in [Client -> SUBSET (Client \X Nat)]
        /\ \A d \in Client : inbox[d] \subseteq inbox'[d] /\ (fd[d] = e0.fd => msg \in inbox'[d])
    BY <1>2, <1>3, <1>7, Zenon DEF Types
  <1>9. Types'
    BY <1>1, <1>3, <1>5, <1>6, <1>8, Zenon DEF Types
  <1>10. /\ pub'[c] = q /\ wlock'[o] = Nobody
         /\ \A d \in Client \ {c} : pub'[d] = pub[d]
         /\ \A d \in Client \ {o} : wlock'[d] = wlock[d]
    BY <1>1, <1>3, <1>5, Zenon DEF Types
  <1>11. Sockets'
    BY <1>1, <1>3, <1>4, <1>7, <1>10, Zenon DEF Sockets
  <1>12. Listed'
    BY <1>1, <1>3, Zenon DEF Listed
  <1>13. ASSUME NEW d \in Client, pub'[d] # None
         PROVE  /\ pub[d] # None /\ pub'[d].batch = pub[d].batch /\ pub'[d].n = pub[d].n
                /\ pub'[d].pc = "send" => pub'[d].i <= Len(pub'[d].batch)
                /\ d # c => pub'[d] = pub[d]
    <2>1. CASE d = c
      BY <1>4, <1>6, <1>10, <2>1, Zenon
    <2>2. CASE d # c
      BY <1>3, <1>10, <1>13, <2>2, Zenon DEF Copied
    <2> QED
      BY <2>1, <2>2, Zenon
  <1>14. ASSUME NEW d \in Client, pub'[d] # None, NEW j \in 1 .. Len(pub[d].batch),
                NEW e, e = pub[d].batch[j]
         PROVE  /\ subscribed[e.wlock] \/ loop[e.wlock] = "gone"
                /\ j < pub'[d].i /\ fd[e.wlock] = e.fd =>
                     <<d, pub[d].n>> \in inbox'[e.wlock]
    <2>1. /\ subscribed[e.wlock] \/ loop[e.wlock] = "gone"
          /\ j < pub[d].i /\ fd[e.wlock] = e.fd => <<d, pub[d].n>> \in inbox[e.wlock]
      BY <1>3, <1>13, <1>14, Zenon DEF Copied
    <2>2. e.wlock \in Client
      BY <1>3, <1>13, <1>14, Names, Zenon
    <2>3. CASE d # c \/ j < pub[c].i
      <3>1. j < pub'[d].i => j < pub[d].i
        BY <1>13, <1>14, <2>3, Zenon
      <3> QED
        BY <1>8, <2>1, <2>2, <3>1, Zenon
    <2>4. CASE d = c /\ j = pub[c].i
      BY <1>8, <1>14, <2>1, <2>2, <2>4, Zenon DEF e0, msg
    <2>5. CASE d = c /\ j > pub[c].i
      <3>1. ~(j < pub'[d].i)
        BY <1>6, <1>10, <2>5
      <3> QED
        BY <2>1, <3>1, Zenon
    <2> QED
      BY <1>6, <2>3, <2>4, <2>5, SMTT(30)
  <1>15. Copied'
    BY <1>1, <1>13, <1>14, SMTT(30) DEF Copied
  <1>16. Locks'
    <2>0. wlock[o] = c /\ o # c
      <3>1. wlock[o] = c
        BY <1>1, <1>3, Zenon DEF Locks, o
      <3>2. o # c
        BY <1>4, <1>5, Publishing, Zenon DEF e0
      <3> QED
        BY <3>1, <3>2, Zenon
    <2>1. ASSUME NEW d \in Client, pub'[d] # None PROVE wlock'[d] = d
      <3>1. pub[d] # None /\ wlock[d] = d
        BY <1>3, <1>13, <2>1, Zenon DEF Locks
      <3>2. d # o
        BY <2>0, <3>1, Zenon
      <3> QED
        BY <1>10, <3>1, <3>2, Zenon
    <2>2. ASSUME NEW d \in Client, pub'[d].pc = "send"
          PROVE  wlock'[Owner(pub'[d])] = d
      <3>1. d # c /\ pub'[d] = pub[d]
        BY <1>6, <1>10, <2>2, Zenon
      <3>2. pub[d] # None
        BY <2>2, <3>1 DEF None
      <3>3. wlock[Owner(pub[d])] = d /\ Owner(pub[d]) \in Client
        BY <1>3, <2>2, <3>1, <3>2, Turn, Zenon DEF Locks
      <3>4. Owner(pub[d]) # o
        BY <2>0, <3>1, <3>3, Zenon
      <3> QED
        BY <1>10, <3>1, <3>3, <3>4, Zenon
    <2>3. ASSUME NEW x \in Client, NEW d \in Client, wlock'[x] = d
          PROVE  pub'[d] # None /\ (x = d \/ (pub'[d].pc = "send" /\ Owner(pub'[d]) = x))
      <3>1. x # o /\ wlock[x] = d
        BY <1>10, <2>3, PubSubAssumption, Zenon
      <3>2. pub[d] # None /\ (x = d \/ (pub[d].pc = "send" /\ Owner(pub[d]) = x))
        BY <1>3, <3>1, Zenon DEF Locks
      <3>3. CASE d = c
        BY <1>7, <1>10, <3>1, <3>2, <3>3, Zenon DEF o
      <3>4. CASE d # c
        BY <1>10, <3>2, <3>4, Zenon
      <3> QED
        BY <3>3, <3>4, Zenon
    <2> QED
      BY <2>1, <2>2, <2>3, Zenon DEF Locks
  <1> QED
    BY <1>9, <1>11, <1>12, <1>15, <1>16, Zenon DEF Inv

(* PUBLISH ends.                                                           *)
LEMMA PublishedStep ==
    ASSUME Inv, NEW c \in Client, Published(c)
    PROVE  Inv'
  <1>1. /\ pub[c].pc = "lock" /\ pub' = [pub EXCEPT ![c] = None]
        /\ wlock' = [wlock EXCEPT ![c] = Nobody] /\ loop' = [loop EXCEPT ![c] = "read"]
        /\ UNCHANGED <<fd, subscribed, subs, pubs, inbox>>
    BY Zenon DEF Published
  <1>2. Types /\ Sockets /\ Listed /\ Copied /\ Locks
    BY Zenon DEF Inv
  <1>3. pub[c] # None
    BY <1>1 DEF None
  <1>4. Types'
    BY <1>1, <1>2, Zenon DEF Types, Open
  <1>5. /\ pub'[c] = None /\ loop'[c] = "read" /\ wlock'[c] = Nobody
        /\ \A d \in Client \ {c} : /\ pub'[d] = pub[d] /\ loop'[d] = loop[d]
                                   /\ wlock'[d] = wlock[d]
    BY <1>1, <1>2, Zenon DEF Types
  <1>6. Sockets'
    <2>1. loop[c] = "publish"
      BY <1>3, Publishing, Zenon
    <2> QED
      BY <1>1, <1>2, <1>5, <2>1 DEF Sockets, Open
  <1>7. Listed'
    <2> SUFFICES ASSUME NEW g \in Channel, NEW e \in Elements(subs[g])
                 PROVE  /\ subscribed[e.wlock] /\ loop'[e.wlock] \in {"read", "reply"}
                        /\ fd[e.wlock] = e.fd
      BY <1>1, Zenon DEF Listed
    <2>1. e.wlock \in Client \ {c}
      BY <1>2, <1>3, Names, Publishing, Zenon
    <2> QED
      BY <1>2, <1>5, <2>1, Zenon DEF Listed
  <1>8. ASSUME NEW d \in Client, pub'[d] # None
        PROVE  /\ pub'[d] = pub[d] /\ d # c
               /\ \A j \in 1 .. Len(pub[d].batch) :
                    loop'[pub[d].batch[j].wlock] = loop[pub[d].batch[j].wlock]
    <2>1. d # c /\ pub'[d] = pub[d]
      BY <1>5, <1>8, Zenon
    <2>2. ASSUME NEW j \in 1 .. Len(pub[d].batch)
          PROVE  pub[d].batch[j].wlock \in Client \ {c}
      BY <1>2, <1>3, <1>8, <2>1, Names, Publishing, Zenon
    <2> QED
      BY <1>5, <2>1, <2>2, Zenon
  <1>9. Copied'
    BY <1>1, <1>2, <1>8 DEF Copied
  <1>10. Locks'
    <2>1. \A d \in Client : pub'[d] # None => wlock'[d] = d
      BY <1>2, <1>5, <1>8, ZenonT(30) DEF Locks
    <2>2. ASSUME NEW d \in Client, pub'[d].pc = "send"
          PROVE  wlock'[Owner(pub'[d])] = d
      <3>1. d # c /\ pub'[d] = pub[d] /\ pub[d] # None
        BY <1>5, <2>2 DEF None
      <3>2. wlock[Owner(pub[d])] = d /\ Owner(pub[d]) \in Client
        BY <1>2, <2>2, <3>1, Turn, Zenon DEF Locks
      <3>3. wlock[c] = c
        BY <1>2, <1>3, Zenon DEF Locks
      <3> QED
        BY <1>5, <3>1, <3>2, <3>3, Zenon
    <2>3. ASSUME NEW x \in Client, NEW d \in Client, wlock'[x] = d
          PROVE  pub'[d] # None /\ (x = d \/ (pub'[d].pc = "send" /\ Owner(pub'[d]) = x))
      <3>1. x # c /\ wlock[x] = d
        BY <1>5, <2>3, PubSubAssumption, Zenon
      <3>2. pub[d] # None /\ (x = d \/ (pub[d].pc = "send" /\ Owner(pub[d]) = x))
        BY <1>2, <3>1, Zenon DEF Locks
      <3>3. d # c
        BY <1>1, <3>1, <3>2, Zenon
      <3> QED
        BY <1>5, <3>2, <3>3, Zenon
    <2> QED
      BY <2>1, <2>2, <2>3, Zenon DEF Locks
  <1> QED
    BY <1>4, <1>6, <1>7, <1>9, <1>10, Zenon DEF Inv

LEMMA InvStep == Inv /\ [Next]_vars => Inv'
  <1> SUFFICES ASSUME Inv, [Next]_vars PROVE Inv'
    BY Zenon
  <1>1. CASE UNCHANGED vars
    BY <1>1 DEF vars, Inv, Types, Sockets, Listed, Copied, Locks
  <1> QED
    BY <1>1, AcceptStep, SubscribeStep, UnsubscribeStep, UnsubscribeAllStep, ReplyStep,
       LeaveStep, CloseStep, PublishStep, LockStep, SendStep, PublishedStep, Zenon
       DEF Next, handle_client_unlocked

-----------------------------------------------------------------------------
(* The invariant holds throughout.                                         *)
THEOREM InvHolds == Spec => []Inv
  BY InvInit, InvStep, PTL DEF Spec

(* The lists name connected clients by their own sockets, for any number   *)
(* of clients and channels (pubsub_unsubscribe_all before close).          *)
THEOREM ListsAreOpen == Spec => []SubscribersAreOpen
  <1>1. Inv => SubscribersAreOpen
    BY Zenon DEF Inv, Listed, SubscribersAreOpen
  <1> QED
    BY <1>1, InvHolds, PTL

(* Who waits for a write lock waits for a client that is sending, for any  *)
(* number of publishers (handle_client_unlocked, pubsub_publish).          *)
THEOREM WaitsAreShort == Spec => []NoCircularWait
  <1>1. ASSUME Inv PROVE NoCircularWait
    <2>1. Types /\ Sockets /\ Copied /\ Locks
      BY <1>1, Zenon DEF Inv
    <2>2. ASSUME NEW o \in Client, pub[o] = None, wlock[o] # Nobody
          PROVE  pub[wlock[o]].pc = "send"
      <3>1. wlock[o] \in Client
        BY <2>1, <2>2, Zenon DEF Types
      <3>2. pub[wlock[o]] # None
        BY <2>1, <3>1, Zenon DEF Locks
      <3> QED
        BY <2>1, <2>2, <3>1, <3>2, Zenon DEF Locks
    <2>3. ASSUME NEW c \in Client, loop[c] = "reply" PROVE pub[c] = None
      BY <1>1, <2>3, Serving, Zenon
    <2>4. ASSUME NEW c \in Client, pub[c].pc = "lock", pub[c].i <= Len(pub[c].batch)
          PROVE  Target(c).wlock \in Client /\ pub[Target(c).wlock] = None
      <3>1. pub[c] # None
        BY <2>4 DEF None
      <3>2. pub[c].i \in 1 .. Len(pub[c].batch) /\ Owner(pub[c]) \in Client
        BY <2>1, <2>4, <3>1, Turn, Zenon
      <3>3. Target(c).wlock = Owner(pub[c]) /\ Owner(pub[c]) = pub[c].batch[pub[c].i].wlock
        BY Zenon DEF Target, Owner
      <3>4. ASSUME pub[Owner(pub[c])] # None PROVE FALSE
        BY <1>1, <3>1, <3>2, <3>3, <3>4, Publishing, Zenon
      <3> QED
        BY <3>2, <3>3, <3>4, Zenon
    <2> QED
      BY <2>2, <2>3, <2>4, Zenon DEF NoCircularWait
  <1> QED
    BY <1>1, InvHolds, PTL

(* A PUBLISH has reached every client it copied that still has its socket, *)
(* however the clients come and go meanwhile (pubsub_publish).             *)
THEOREM MessagesArrive == Spec => ReachesSubscribers
  <1> DEFINE Reached == \A c \in Client : pub[c] # None /\ pub'[c] = None =>
               \A e \in Elements(pub[c].batch) :
                 fd[e.wlock] = e.fd => <<c, pub[c].n>> \in inbox[e.wlock]
  <1>1. ASSUME Inv, [Next]_vars PROVE Reached
    <2> SUFFICES ASSUME NEW c \in Client, pub[c] # None, pub'[c] = None,
                        NEW e \in Elements(pub[c].batch), fd[e.wlock] = e.fd
                 PROVE  <<c, pub[c].n>> \in inbox[e.wlock]
      BY Zenon
    <2>1. Types /\ Copied
      BY <1>1, Zenon DEF Inv
    <2>2. ASSUME NEW d \in Client, NEW ch \in Channel, pubsub_publish(d, ch) PROVE FALSE
      <3>1. d # c
        <4>1. loop[c] = "publish" /\ loop[d] = "read"
          BY <1>1, <2>2, Publishing, Zenon DEF pubsub_publish
        <4> QED
          BY <4>1, Zenon
      <3>2. pub'[c] = pub[c]
        BY <2>1, <2>2, <3>1, Zenon DEF pubsub_publish, Types
      <3> QED
        BY <3>2, Zenon
    <2>3. ASSUME NEW d \in Client, Lock(d) \/ Send(d) PROVE FALSE
      <3>1. loop'[c] = "publish"
        BY <1>1, <2>3, Publishing, Zenon DEF Lock, Send
      <3>2. Sockets'
        BY <1>1, InvStep, Zenon DEF Inv
      <3> QED
        BY <3>1, <3>2, Zenon DEF Sockets
    <2>4. ASSUME NEW d \in Client, Published(d)
          PROVE  <<c, pub[c].n>> \in inbox[e.wlock]
      <3>1. d = c
        BY <2>1, <2>4, Zenon DEF Published, Types
      <3>2. pub[c].i > Len(pub[c].batch) /\ pub[c] \in Pub
        BY <2>1, <2>4, <3>1, Names, Zenon DEF Published
      <3>3. PICK j \in 1 .. Len(pub[c].batch) : e = pub[c].batch[j]
        BY Zenon DEF Elements
      <3>4. j < pub[c].i
        BY <3>2, <3>3 DEF Pub
      <3> QED
        BY <2>1, <3>3, <3>4, Zenon DEF Copied
    <2>5. \/ UNCHANGED pub
          \/ \E d \in Client, ch \in Channel : pubsub_publish(d, ch)
          \/ \E d \in Client : Lock(d) \/ Send(d) \/ Published(d)
      BY <1>1, Zenon DEF Next, handle_client_unlocked, Accept, pubsub_subscribe,
         pubsub_unsubscribe, UnsubscribeAll, Reply, Leave, Close, vars
    <2> QED
      BY <2>2, <2>3, <2>4, <2>5, Zenon
  <1>2. Reached => [Reached]_vars
    BY Zenon
  <1> QED
    BY <1>1, <1>2, InvHolds, PTL DEF Spec, ReachesSubscribers
=============================================================================
