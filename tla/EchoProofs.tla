----------------------------- MODULE EchoProofs -----------------------------
(***************************************************************************)
(* Proofs about the echo server, alone and with the client of the demo,    *)
(* for any number of connections, any buffer and any limit on fds.  What   *)
(* makes the safety properties inductive is that an event in the array of  *)
(* epoll_wait is never out of date about what its fd asks for: fds are in  *)
(* the epoll instance once, so no two events of one array are about one.   *)
(***************************************************************************)
EXTENDS EchoDemo, Induction, TLAPS

\* A connection the server has not accepted; what it will send back.
Waiting(c)  == peer[c] \in {"none", "queued"}
Buffered(c) == IF interest[c] = "out" THEN received[c] ELSE 0

Distinct(seq) == \A j, k \in DOMAIN seq : seq[j] = seq[k] => j = k

\* An fd that is appended to fds other than itself leaves them distinct.
LEMMA AppendDistinct ==
  ASSUME NEW T, NEW seq \in Seq(T), NEW e \in T, Distinct(seq), \A j \in DOMAIN seq : seq[j] # e
  PROVE  Distinct(Append(seq, e))
<1>1. /\ DOMAIN Append(seq, e) = DOMAIN seq \cup {Len(seq) + 1} /\ Len(seq) + 1 \notin DOMAIN seq
      /\ Append(seq, e)[Len(seq) + 1] = e /\ \A j \in DOMAIN seq : Append(seq, e)[j] = seq[j]
  OBVIOUS
<1> QED  BY <1>1 DEF Distinct

\* What epoll_wait picks from its list is in the list, and each fd once.
LEMMA InOrderIs ==
  ASSUME NEW fds, order \in Seq(Fds),
         Distinct(order)
  PROVE  LET seq == InOrder(fds) IN
           /\ seq \in Seq(Fds)
           /\ \A j \in DOMAIN seq : seq[j] \in fds /\ \E k \in DOMAIN order : order[k] = seq[j]
           /\ Distinct(seq)
<1> DEFINE n == Len(order)
           After(seq, k) == IF order[k] \in fds THEN Append(seq, order[k]) ELSE seq
           kept[k \in 0 .. n] == IF k = 0 THEN << >> ELSE After(kept[k - 1], k)
           next == [k \in 1 .. n |-> [seq \in Seq(Fds) |-> After(seq, k)]]
           X    == Seq(Fds)
           base == << >>
<1>N. n \in Nat
  OBVIOUS
<1>0. DOMAIN order = 1 .. n /\ \A k \in 1 .. n : order[k] \in Fds
  OBVIOUS
<1>1. next \in [1 .. n -> [X -> X]] /\ base \in X
  BY <1>0
<1>2. \A k \in 1 .. n, seq \in X : next[k][seq] = After(seq, k)
  BY <1>0
<1>3. kept = [k \in 0 .. n |-> IF k = 0 THEN base ELSE After(kept[k - 1], k)]
  <2> HIDE DEF n, next, After, X, base
  <2>1. PICK f \in [0 .. n -> X] : f[0] = base /\ \A k \in 1 .. n : f[k] = next[k][f[k - 1]]
    BY <1>N, <1>1, LoopExists
  <2>2. ASSUME NEW k \in 0 .. n
        PROVE  f[k] = IF k = 0 THEN base ELSE After(f[k - 1], k)
    BY <1>N, <1>2, <2>1
  <2>3. f = [k \in 0 .. n |-> IF k = 0 THEN base ELSE After(f[k - 1], k)]
    BY <2>2
  <2> QED  BY <2>3, Zenon DEF base
<1>4. InOrder(fds) = kept[n]
  BY Zenon DEF InOrder
<1> HIDE DEF kept, next, X
<1> DEFINE Good(m) ==
             /\ kept[m] \in Seq(Fds)
             /\ \A j \in DOMAIN kept[m] : kept[m][j] \in fds /\ \E k \in 1 .. m : order[k] = kept[m][j]
             /\ Distinct(kept[m])
           S == {m \in Nat : m <= n => Good(m)}
<1>5. 0 \in S
  BY <1>N, <1>0, <1>3 DEF Distinct
<1>6. ASSUME NEW m \in Nat, m \in S PROVE m + 1 \in S
  <2> SUFFICES ASSUME m + 1 <= n PROVE Good(m + 1)
    OBVIOUS
  <2>1. Good(m) /\ m + 1 \in 1 .. n
    BY <1>N, <1>0, <1>6
  <2>2. kept[m + 1] = IF order[m + 1] \in fds THEN Append(kept[m], order[m + 1]) ELSE kept[m]
    <3>1. m + 1 \in 0 .. n /\ m + 1 # 0 /\ (m + 1) - 1 = m
      BY <2>1
    <3> QED  BY <1>3, <3>1
  <2>3. CASE order[m + 1] \in fds
    <3>1. ASSUME NEW j \in DOMAIN kept[m], kept[m][j] = order[m + 1] PROVE FALSE
      <4>1. PICK k \in 1 .. m : order[k] = order[m + 1]
        BY <2>1, <3>1
      <4>2. k \in DOMAIN order /\ m + 1 \in DOMAIN order /\ k # m + 1
        BY <1>N, <1>0, <2>1
      <4> QED  BY <4>1, <4>2 DEF Distinct
    <3>2. /\ kept[m + 1] \in Seq(Fds) /\ DOMAIN kept[m + 1] = DOMAIN kept[m] \cup {Len(kept[m]) + 1}
          /\ kept[m + 1][Len(kept[m]) + 1] = order[m + 1]
          /\ \A j \in DOMAIN kept[m] : kept[m + 1][j] = kept[m][j]
      BY <1>N, <1>0, <2>1, <2>2, <2>3
    <3>3. Distinct(kept[m + 1])
      BY <1>N, <1>0, <2>1, <2>2, <2>3, <3>1, AppendDistinct
    <3> QED  BY <2>1, <2>3, <3>2, <3>3
  <2>4. CASE order[m + 1] \notin fds
    BY <2>1, <2>2, <2>4
  <2> QED  BY <2>3, <2>4
<1>7. Good(n)
  <2> HIDE DEF S
  <2>1. n \in S
    BY <1>N, <1>0, <1>5, <1>6, NatInductionOnSet
  <2> QED  BY <1>N, <1>0, <2>1 DEF S
<1> QED  BY <1>N, <1>0, <1>4, <1>7

-----------------------------------------------------------------------------
(* The inductive invariant.                                                 *)

\* Accepted fds, each in the epoll instance once.
EpollSound ==
  /\ \A k \in DOMAIN order : order[k] # Listen => ~ Waiting(order[k])
  /\ Distinct(order)

\* An event that is not handled yet asks for what its fd still asks for: no
\* other event is about that fd, and only its own handler changes it.
EventsSound ==
  /\ \A k \in DOMAIN events : events[k].fd # Listen =>
       /\ ~ Waiting(events[k].fd)
       /\ events[k].flags \subseteq {"hup", "err", interest[events[k].fd]}
  /\ \A j, k \in DOMAIN events : events[j].fd = events[k].fd => j = k

\* Bytes go from the client to the buffer and from there back, and a connection
\* asks for EPOLLOUT only with something in its buffer.
BytesSound ==
  \A c \in Conns :
    /\ Waiting(c) => interest[c] = "in"
    /\ interest[c] = "out" => received[c] > 0
    /\ echoed[c] + Buffered(c) <= taken[c] /\ taken[c] <= sent[c]

EchoInv == TypeOK /\ EpollSound /\ EventsSound /\ BytesSound /\ NothingLost

\* At the start nothing is accepted, reported or sent.
LEMMA InitInv == Init => EchoInv
<1> SUFFICES ASSUME Init PROVE EchoInv
  OBVIOUS
<1>1. /\ BufSize \in Nat \ {0} /\ MaxBytes \in Nat /\ Listen \notin Conns
      /\ 0 \in -1 .. BufSize /\ 1 \in -1 .. BufSize
  BY EchoAssumption
<1>2. TypeOK
  <2>1. order \in Seq(Fds) /\ events \in Seq([fd : Fds, flags : SUBSET Flags])
    BY DEF Init, Fds
  <2>2. received \in [Conns -> -1 .. BufSize]
    BY <1>1 DEF Init
  <2> QED  BY <1>1, <2>1, <2>2 DEF Init, TypeOK, Fds, PeerStates
<1>3. EpollSound /\ EventsSound
  BY DEF Init, EpollSound, EventsSound, Distinct
<1>4. BytesSound /\ NothingLost
  BY DEF Init, BytesSound, NothingLost, Buffered, Fds
<1> QED  BY <1>2, <1>3, <1>4 DEF EchoInv

\* More bytes from a client, within the bound, take nothing away.
LEMMA SendKeeps ==
  ASSUME EchoInv, NEW c \in Conns, NEW n \in Nat, sent[c] + n <= MaxBytes,
         sent' = [sent EXCEPT ![c] = @ + n],
         UNCHANGED <<server, handlers, interest, order, events, received, peer, taken, echoed,
                     fdLimit>>
  PROVE  EchoInv'
<1>1. \A d \in Conns : sent[d] \in Nat /\ sent[d] <= MaxBytes /\ taken[d] \in Nat /\ MaxBytes \in Nat
  BY EchoAssumption DEF EchoInv, TypeOK
<1>2. sent' \in [Conns -> 0 .. MaxBytes]
  BY <1>1 DEF EchoInv, TypeOK
<1>3. TypeOK'
  BY <1>2 DEF EchoInv, TypeOK
<1>4. \A d \in Conns : sent[d] <= sent'[d]
  BY <1>1 DEF EchoInv, TypeOK
<1>5. BytesSound'
  BY <1>1, <1>2, <1>4 DEF EchoInv, BytesSound, Buffered, Waiting
<1> QED  BY <1>3, <1>5 DEF EchoInv, EpollSound, EventsSound, NothingLost, Waiting

\* The fds of the epoll instance and of the events are the program's.
LEMMA FdType ==
  ASSUME TypeOK
  PROVE  /\ \A k \in DOMAIN order : order[k] \in Fds
         /\ \A k \in DOMAIN events : events[k] \in [fd : Fds, flags : SUBSET Flags]
         /\ \A k \in DOMAIN events : events[k].fd \in Fds
<1>1. \A k \in DOMAIN order : order[k] \in Fds
  BY DEF TypeOK
<1>2. \A k \in DOMAIN events : events[k] \in [fd : Fds, flags : SUBSET Flags]
  <2> DEFINE T == [fd : Fds, flags : SUBSET Flags]
  <2>1. events \in Seq(T)
    BY DEF TypeOK
  <2> HIDE DEF T
  <2>2. \A k \in DOMAIN events : events[k] \in T
    BY <2>1
  <2> QED  BY <2>2 DEF T
<1> QED  BY <1>1, <1>2

\* What a client does to its socket keeps it accepted if it was, and a reset is
\* for good.
LEMMA PeerKeeps ==
  ASSUME EchoInv, NEW c \in Conns, NEW from, NEW to \in PeerStates, Peer(c, from, to),
         UNCHANGED fdLimit, "reset" \notin from, to \in {"none", "queued"} => Waiting(c)
  PROVE  EchoInv'
<1>1. TypeOK'
  BY DEF Peer, EchoInv, TypeOK
<1>2. /\ \A d \in Conns : ~ Waiting(d) => ~ Waiting(d)'
      /\ \A d \in Conns : Waiting(d)' => Waiting(d)
  BY DEF Peer, EchoInv, TypeOK, Waiting
<1>3. EpollSound' /\ EventsSound'
  BY <1>2, FdType DEF Peer, EchoInv, Fds, EpollSound, EventsSound
<1>4. BytesSound'
  BY <1>2 DEF Peer, EchoInv, BytesSound, Buffered
<1>5. NothingLost'
  <2>1. \A d \in Conns : peer[d] = "reset" => peer'[d] = "reset"
    BY DEF Peer, EchoInv, TypeOK
  <2> QED  BY <2>1 DEF Peer, EchoInv, NothingLost
<1> QED  BY <1>1, <1>3, <1>4, <1>5 DEF EchoInv

\* Whatever one client does.
LEMMA ClientKeeps == ASSUME EchoInv, NEW c \in Conns, Client(c) PROVE EchoInv'
<1>1. CASE Connect(c)
  BY <1>1, PeerKeeps DEF Client, Connect, Waiting, PeerStates, Peer
<1>2. CASE Close(c) \/ Fail(c) \/ Abort(c)
  BY <1>2, PeerKeeps DEF Client, Close, Fail, Abort, PeerStates
<1>3. CASE Write(c)
  <2>1. PICK n \in 1 .. MaxBytes - sent[c] : sent' = [sent EXCEPT ![c] = @ + n]
    BY <1>3 DEF Write
  <2>2. n \in Nat /\ sent[c] + n <= MaxBytes
    BY <2>1, EchoAssumption DEF EchoInv, TypeOK
  <2> QED  BY <1>3, <2>1, <2>2, SendKeeps DEF Client, Write
<1> QED  BY <1>1, <1>2, <1>3 DEF Client

\* epoll_wait reports each fd once and what it asks for now.
LEMMA EpollWaitKeeps == ASSUME EchoInv, EpollWait, UNCHANGED fdLimit PROVE EchoInv'
<1> DEFINE ready == InOrder({f \in Fds : Ready(f) # {}})
           n     == IF Len(ready) < MaxEvents THEN Len(ready) ELSE MaxEvents
           reported == {ready[k] : k \in 1 .. n}
           rest  == InOrder(Fds \ reported)
<1>1. /\ order \in Seq(Fds) /\ Distinct(order) /\ events = << >>
      /\ interest \in [Fds -> {"in", "out"}]
  BY DEF EchoInv, TypeOK, EpollSound, EpollWait
<1>2. /\ ready \in Seq(Fds) /\ Distinct(ready)
      /\ \A j \in DOMAIN ready : \E k \in DOMAIN order : order[k] = ready[j]
  BY <1>1, InOrderIs
<1>3. /\ rest \in Seq(Fds) /\ Distinct(rest)
      /\ \A j \in DOMAIN rest : rest[j] \notin reported /\ \E k \in DOMAIN order : order[k] = rest[j]
  <2> DEFINE left == Fds \ reported
  <2> HIDE DEF reported, left
  <2>1. LET seq == InOrder(left) IN
          /\ seq \in Seq(Fds) /\ Distinct(seq)
          /\ \A j \in DOMAIN seq : seq[j] \in left /\ \E k \in DOMAIN order : order[k] = seq[j]
    BY <1>1, InOrderIs
  <2> QED  BY <2>1 DEF left
<1>4. /\ events' = [k \in 1 .. n |-> [fd |-> ready[k], flags |-> Ready(ready[k])]]
      /\ order' = rest \o SubSeq(ready, 1, n)
      /\ UNCHANGED <<server, handlers, interest, received, peer, sent, taken, echoed, fdLimit>>
  BY DEF EpollWait, clients
<1> HIDE DEF ready, rest
<1>5. n \in Nat /\ n <= Len(ready) /\ DOMAIN ready = 1 .. Len(ready) /\ Len(ready) \in Nat
  BY <1>2, EchoAssumption
<1> HIDE DEF n
<1>6. /\ DOMAIN events' = 1 .. n
      /\ \A k \in 1 .. n : events'[k].fd = ready[k] /\ events'[k].flags = Ready(ready[k])
      /\ \A k \in 1 .. n : k \in DOMAIN ready /\ ready[k] \in Fds
  BY <1>2, <1>4, <1>5
<1>7. \A f \in Fds : Ready(f) \subseteq {"hup", "err", interest[f]} /\ interest[f] \in {"in", "out"}
  BY <1>1 DEF Ready
<1>8. events' \in Seq([fd : Fds, flags : SUBSET Flags])
  <2> DEFINE T == [fd : Fds, flags : SUBSET Flags]
  <2>1. \A k \in 1 .. n : [fd |-> ready[k], flags |-> Ready(ready[k])] \in [fd : Fds, flags : SUBSET Flags]
    BY <1>6, <1>7 DEF Flags
  <2>2. events' \in [1 .. n -> T]
    BY <1>4, <2>1
  <2> HIDE DEF T
  <2>3. events' \in Seq(T)
    BY <1>5, <2>2
  <2> QED  BY <2>3 DEF T
<1>9. EventsSound'
  <2>1. \A k \in 1 .. n : ready[k] # Listen => ~ Waiting(ready[k])
    BY <1>2, <1>6 DEF EchoInv, EpollSound
  <2>2. \A j, k \in 1 .. n : ready[j] = ready[k] => j = k
    BY <1>2, <1>6 DEF Distinct
  <2> QED  BY <1>4, <1>6, <1>7, <2>1, <2>2 DEF EventsSound, Waiting
<1>10. order' \in Seq(Fds) /\ EpollSound'
  <2>1. /\ SubSeq(ready, 1, n) \in Seq(Fds) /\ Len(SubSeq(ready, 1, n)) = n
        /\ \A k \in 1 .. n : SubSeq(ready, 1, n)[k] = ready[k]
    BY <1>2, <1>5
  <2>2. /\ order' \in Seq(Fds) /\ Len(rest) \in Nat /\ DOMAIN rest = 1 .. Len(rest)
        /\ DOMAIN order' = 1 .. Len(rest) + n
        /\ \A k \in DOMAIN order' :
             order'[k] = IF k <= Len(rest) THEN rest[k] ELSE ready[k - Len(rest)]
    BY <1>3, <1>4, <1>5, <2>1
  <2>3. \A k \in DOMAIN order' :
          \/ k \in DOMAIN rest /\ order'[k] = rest[k]
          \/ k - Len(rest) \in 1 .. n /\ order'[k] = ready[k - Len(rest)]
    BY <1>5, <2>2
  <2>4. ASSUME NEW k \in DOMAIN order', order'[k] # Listen PROVE ~ Waiting(order'[k])
    BY <1>2, <1>3, <1>6, <2>3, <2>4 DEF EchoInv, EpollSound
  <2>5. Distinct(order')
    <3>1. \A j \in DOMAIN rest, k \in 1 .. n : rest[j] # ready[k]
      BY <1>3
    <3> QED  BY <1>2, <1>3, <1>5, <1>6, <2>2, <2>3, <3>1 DEF Distinct
  <2> QED  BY <1>4, <2>2, <2>4, <2>5 DEF EpollSound, Waiting
<1>11. TypeOK'
  BY <1>4, <1>8, <1>10 DEF EchoInv, TypeOK
<1>12. BytesSound' /\ NothingLost'
  BY <1>4 DEF EchoInv, BytesSound, NothingLost, Buffered, Waiting
<1> QED  BY <1>9, <1>10, <1>11, <1>12 DEF EchoInv

\* The events that are left stay sound if the handler changed its own fd only.
LEMMA TailSound ==
  ASSUME EchoInv, events # << >>, events' = Tail(events),
         interest' \in [Fds -> {"in", "out"}],
         \A d \in Conns : ~ Waiting(d) => ~ Waiting(d)',
         \A d \in Conns : d # Head(events).fd /\ ~ Waiting(d) => interest'[d] = interest[d]
  PROVE  EventsSound' /\ events' \in Seq([fd : Fds, flags : SUBSET Flags])
<1> DEFINE T == [fd : Fds, flags : SUBSET Flags]
<1>1. events \in Seq(T)
  BY DEF EchoInv, TypeOK
<1> HIDE DEF T
<1>2. /\ events' \in Seq(T) /\ Head(events) = events[1] /\ 1 \in DOMAIN events
      /\ \A k \in DOMAIN events' : k + 1 \in DOMAIN events /\ events'[k] = events[k + 1] /\ k + 1 # 1
      /\ \A k \in DOMAIN events' : k \in Nat
  BY <1>1
<1>3. ASSUME NEW k \in DOMAIN events', events'[k].fd # Listen
      PROVE  /\ peer'[events'[k].fd] \notin {"none", "queued"}
             /\ events'[k].flags \subseteq {"hup", "err", interest'[events'[k].fd]}
  <2>1. /\ k + 1 \in DOMAIN events /\ events'[k] = events[k + 1] /\ events[k + 1].fd # events[1].fd
        /\ events[k + 1].fd \in Fds
    BY <1>2, <1>3, FdType DEF EchoInv, EventsSound
  <2>2. events[k + 1].fd \in Conns /\ ~ Waiting(events[k + 1].fd)
    BY <1>3, <2>1 DEF Fds, EchoInv, EventsSound
  <2>4. peer'[events[k + 1].fd] \notin {"none", "queued"}
    BY <2>2 DEF Waiting
  <2>3. events[k + 1].flags \subseteq {"hup", "err", interest[events[k + 1].fd]}
    BY <1>3, <2>1 DEF EchoInv, EventsSound
  <2> QED  BY <1>2, <2>1, <2>2, <2>3, <2>4
<1>4. ASSUME NEW j \in DOMAIN events', NEW k \in DOMAIN events', events'[j].fd = events'[k].fd
      PROVE  j = k
  <2>1. j + 1 = k + 1
    BY <1>2, <1>4 DEF EchoInv, EventsSound
  <2> QED  BY <1>2, <2>1
<1>5. EventsSound'
  BY <1>3, <1>4 DEF EventsSound, Waiting
<1> QED  BY <1>2, <1>5 DEF T

\* accept takes a connection that is waiting and in no event and no epoll yet.
LEMMA AcceptKeeps ==
  ASSUME EchoInv, events # << >>, events' = Tail(events), Head(events).fd = Listen, Accept,
         UNCHANGED fdLimit
  PROVE  EchoInv'
<1>0. Listen \notin Conns /\ Listen \in Fds /\ Conns \subseteq Fds
  BY EchoAssumption DEF Fds
<1>1. CASE UNCHANGED <<server, handlers, interest, order, received, clients, taken, echoed>>
  <2>1. EventsSound' /\ events' \in Seq([fd : Fds, flags : SUBSET Flags])
    BY <1>1, TailSound DEF clients, Waiting, EchoInv, TypeOK
  <2> QED  BY <1>1, <2>1 DEF clients, EchoInv, TypeOK, EpollSound, BytesSound, NothingLost,
           Buffered, Waiting
<1>2. ASSUME NEW c \in Conns, peer[c] = "queued", peer' = [peer EXCEPT ![c] = "open"],
             AddSocketHandler(c, "in"), UNCHANGED <<server, received, sent, taken, echoed>>
      PROVE  EchoInv'
  <2>1. /\ handlers' = handlers \cup {c} /\ interest' = [interest EXCEPT ![c] = "in"]
        /\ order' = Append(order, c)
    BY <1>2 DEF AddSocketHandler
  <2>2. interest[c] = "in" /\ Waiting(c) /\ c \in Fds /\ c # Listen
    BY <1>0, <1>2 DEF EchoInv, BytesSound, Waiting
  <2>3. interest' = interest
    BY <2>1, <2>2 DEF EchoInv, TypeOK
  <2>4. \A d \in Conns : (~ Waiting(d) => ~ Waiting(d)') /\ (Waiting(d)' => Waiting(d))
    BY <1>2 DEF Waiting, EchoInv, TypeOK
  <2>5. EventsSound' /\ events' \in Seq([fd : Fds, flags : SUBSET Flags])
    BY <2>3, <2>4, TailSound DEF EchoInv, TypeOK
  <2>6. order' \in Seq(Fds) /\ EpollSound'
    <3>1. \A k \in DOMAIN order : order[k] # c
      BY <2>2 DEF EchoInv, EpollSound
    <3>2. order \in Seq(Fds) /\ Distinct(order)
      BY DEF EchoInv, TypeOK, EpollSound
    <3>3. /\ order' \in Seq(Fds) /\ DOMAIN order' = DOMAIN order \cup {Len(order) + 1}
          /\ order'[Len(order) + 1] = c /\ \A k \in DOMAIN order : order'[k] = order[k]
      BY <2>1, <2>2, <3>2
    <3>4. Distinct(order')
      BY <2>1, <2>2, <3>1, <3>2, AppendDistinct
    <3>5. peer'[c] = "open"
      BY <1>2 DEF EchoInv, TypeOK
    <3>6. ASSUME NEW k \in DOMAIN order', order'[k] # Listen
          PROVE  peer'[order'[k]] \notin {"none", "queued"}
      <4>1. CASE k \in DOMAIN order
        <5>1. order[k] \in Conns /\ ~ Waiting(order[k])
          BY <3>3, <3>6, <4>1, FdType DEF EchoInv, EpollSound, Fds
        <5>2. peer'[order[k]] \notin {"none", "queued"}
          BY <2>4, <5>1 DEF Waiting
        <5> QED  BY <3>3, <4>1, <5>2
      <4>2. CASE k = Len(order) + 1
        BY <3>3, <3>5, <4>2
      <4> QED  BY <3>3, <4>1, <4>2
    <3> QED  BY <3>3, <3>4, <3>6 DEF EpollSound, Waiting
  <2>7. TypeOK'
    <3>1. peer' \in [Conns -> PeerStates]
      BY <1>2 DEF EchoInv, TypeOK, PeerStates
    <3>2. handlers' \subseteq Fds
      BY <2>1, <2>2 DEF EchoInv, TypeOK
    <3> QED  BY <1>2, <2>3, <2>5, <2>6, <3>1, <3>2 DEF EchoInv, TypeOK
  <2>8. BytesSound'
    BY <1>2, <2>3, <2>4 DEF EchoInv, BytesSound, Buffered
  <2>9. NothingLost'
    <3>1. \A d \in Conns : peer[d] = "reset" => peer'[d] = "reset"
      BY <1>2 DEF EchoInv, TypeOK
    <3> QED  BY <1>2, <2>3, <3>1 DEF EchoInv, NothingLost
  <2> QED  BY <2>5, <2>6, <2>7, <2>8, <2>9 DEF EchoInv
<1> QED  BY <1>1, <1>2 DEF Accept

\* What a handler may do with its own connection: i, r, t and e are what it asks
\* for, holds, has taken and has sent back afterwards.
Handled(c, i, r, t, e) ==
  /\ UNCHANGED <<order, peer, sent, fdLimit>>
  /\ server' \in {"up", "dead"} /\ handlers' \subseteq handlers
  /\ interest' = [interest EXCEPT ![c] = i] /\ received' = [received EXCEPT ![c] = r]
  /\ taken' = [taken EXCEPT ![c] = t] /\ echoed' = [echoed EXCEPT ![c] = e]
  /\ i = "out" => r > 0
  /\ e + (IF i = "out" THEN r ELSE 0) <= t /\ t <= sent[c]
  /\ peer[c] # "reset" => t = e + (IF i = "out" THEN r ELSE 0)

\* Such a handler keeps the invariant.
LEMMA ConnectionKeeps ==
  ASSUME EchoInv, server = "up", events # << >>, events' = Tail(events), NEW c \in Conns,
         Head(events).fd = c, ~ Waiting(c),
         NEW i \in {"in", "out"}, NEW r \in -1 .. BufSize,
         NEW t \in 0 .. MaxBytes, NEW e \in 0 .. MaxBytes, Handled(c, i, r, t, e)
  PROVE  EchoInv'
<1>0. c \in Fds
  BY DEF Fds
<1>1. interest' \in [Fds -> {"in", "out"}]
  BY DEF Handled, EchoInv, TypeOK
<1>2. EventsSound' /\ events' \in Seq([fd : Fds, flags : SUBSET Flags])
  BY <1>1, TailSound DEF Handled, EchoInv, TypeOK, Waiting
<1>3. TypeOK'
  BY <1>1, <1>2 DEF Handled, EchoInv, TypeOK
<1>4. /\ interest'[c] = i /\ received'[c] = r /\ taken'[c] = t /\ echoed'[c] = e
      /\ \A d \in Conns : d # c =>
           /\ interest'[d] = interest[d] /\ received'[d] = received[d]
           /\ taken'[d] = taken[d] /\ echoed'[d] = echoed[d]
  BY <1>0 DEF Handled, EchoInv, TypeOK, Fds
<1>5. BytesSound'
  BY <1>4 DEF Handled, EchoInv, BytesSound, Buffered, Waiting
<1>6. NothingLost'
  <2>1. ASSUME NEW d \in Conns, peer'[d] # "reset"
        PROVE  taken'[d] = echoed'[d] + (IF interest'[d] = "out" THEN received'[d] ELSE 0)
    <3>1. CASE d = c
      BY <1>4, <2>1, <3>1 DEF Handled
    <3>2. CASE d # c
      BY <1>4, <2>1, <3>2 DEF Handled, EchoInv, NothingLost
    <3> QED  BY <3>1, <3>2
  <2> QED  BY <2>1 DEF NothingLost
<1>7. EpollSound'
  BY DEF Handled, EchoInv, EpollSound, Waiting
<1> QED  BY <1>2, <1>3, <1>5, <1>6, <1>7 DEF EchoInv

\* The handler of a connection: its buffer is empty when it reads, and full of
\* what is not sent back yet when it writes.
LEMMA EchoKeeps ==
  ASSUME EchoInv, server = "up", events # << >>, events' = Tail(events), NEW c \in Conns,
         Head(events).fd = c, Echo(c, Head(events).flags), UNCHANGED fdLimit
  PROVE  EchoInv'
<1>0. /\ Listen \notin Conns /\ c \in Fds /\ c # Listen
      /\ BufSize \in Nat \ {0} /\ MaxBytes \in Nat
  BY EchoAssumption DEF Fds
<1>1. ~ Waiting(c) /\ Head(events).flags \subseteq {"hup", "err", interest[c]}
  <2>1. 1 \in DOMAIN events /\ Head(events) = events[1]
    BY DEF EchoInv, TypeOK
  <2> QED  BY <1>0, <2>1 DEF EchoInv, EventsSound
<1>2. /\ interest[c] \in {"in", "out"} /\ received[c] \in -1 .. BufSize
      /\ sent[c] \in 0 .. MaxBytes /\ taken[c] \in 0 .. MaxBytes /\ echoed[c] \in 0 .. MaxBytes
      /\ interest = [interest EXCEPT ![c] = interest[c]]
      /\ received = [received EXCEPT ![c] = received[c]]
      /\ taken = [taken EXCEPT ![c] = taken[c]] /\ echoed = [echoed EXCEPT ![c] = echoed[c]]
      /\ handlers \subseteq Fds
  BY <1>0 DEF EchoInv, TypeOK
<1>3. /\ echoed[c] + (IF interest[c] = "out" THEN received[c] ELSE 0) <= taken[c]
      /\ taken[c] <= sent[c]
      /\ interest[c] = "out" => received[c] > 0
      /\ peer[c] # "reset" => taken[c] = echoed[c] + (IF interest[c] = "out" THEN received[c] ELSE 0)
  BY DEF EchoInv, BytesSound, NothingLost, Buffered
<1>4. CASE UNCHANGED <<server, interest, order, received, clients, taken, echoed>>
             /\ handlers' \subseteq handlers
  <2>1. server' \in {"up", "dead"}
    BY <1>4
  <2>2. Handled(c, interest[c], received[c], taken[c], echoed[c])
    BY <1>2, <1>3, <1>4, <2>1 DEF Handled, clients
  <2> QED  BY <1>1, <1>2, <2>2, ConnectionKeeps
<1>5. CASE Head(events).flags = {"out"} /\ EchoSend(c)
  <2>1. interest[c] = "out"
    BY <1>1, <1>5
  <2>2. /\ interest' = [interest EXCEPT ![c] = "in"] /\ UNCHANGED <<handlers, order, peer, sent, taken>>
        /\ received' = [received EXCEPT ![c] = 0]
    BY <1>5 DEF EchoSend, UpdateSocket, clients
  <2>3. CASE peer[c] = "reset" /\ server' \in {"up", "dead"} /\ UNCHANGED echoed
    <3>0. /\ echoed[c] + (IF "in" = "out" THEN 0 ELSE 0) <= taken[c] /\ taken[c] <= sent[c]
          /\ peer[c] # "reset" => taken[c] = echoed[c] + (IF "in" = "out" THEN 0 ELSE 0)
          /\ "in" = "out" => 0 > 0
      BY <1>2, <1>3, <2>1, <2>3
    <3>1. /\ interest' = [interest EXCEPT ![c] = "in"] /\ received' = [received EXCEPT ![c] = 0]
          /\ taken' = [taken EXCEPT ![c] = taken[c]] /\ echoed' = [echoed EXCEPT ![c] = echoed[c]]
          /\ UNCHANGED <<order, peer, sent, fdLimit>> /\ handlers' \subseteq handlers
      BY <1>2, <2>2, <2>3, Zenon
    <3>2. Handled(c, "in", 0, taken[c], echoed[c])
      BY <2>3, <3>0, <3>1, Zenon DEF Handled
    <3>3. /\ "in" \in {"in", "out"} /\ 0 \in -1 .. BufSize
          /\ taken[c] \in 0 .. MaxBytes /\ echoed[c] \in 0 .. MaxBytes
      BY <1>0, <1>2
    <3> QED  BY <1>1, <3>2, <3>3, ConnectionKeeps, Zenon
  <2>4. CASE echoed' = [echoed EXCEPT ![c] = @ + received[c]] /\ UNCHANGED server
    <3>1. echoed[c] + received[c] \in 0 .. MaxBytes
      BY <1>0, <1>2, <1>3, <2>1
    <3>0. /\ echoed[c] + received[c] + 0 <= taken[c]
          /\ peer[c] # "reset" => taken[c] = echoed[c] + received[c] + 0
      BY <1>2, <1>3, <2>1
    <3>2. Handled(c, "in", 0, taken[c], echoed[c] + received[c])
      BY <1>2, <1>3, <2>2, <2>4, <3>0 DEF Handled
    <3>3. "in" \in {"in", "out"} /\ 0 \in -1 .. BufSize /\ taken[c] \in 0 .. MaxBytes
      BY <1>0, <1>2
    <3> QED  BY <1>1, <3>1, <3>2, <3>3, ConnectionKeeps, Zenon
  <2> QED  BY <1>5, <2>3, <2>4 DEF EchoSend
<1>6. CASE Head(events).flags = {"in"} /\ EchoRecv(c)
  <2> DEFINE unread == sent[c] - taken[c]
             n == IF peer[c] = "reset" THEN -1 ELSE IF unread < BufSize THEN unread ELSE BufSize
  <2>1. interest[c] = "in"
    BY <1>1, <1>6
  <2>2. /\ n \in -1 .. BufSize
        /\ n # -1 => n <= sent[c] - taken[c]
        /\ n = -1 <=> peer[c] = "reset"
    BY <1>0, <1>2, <1>3
  <2>3. /\ received' = [received EXCEPT ![c] = n] /\ UNCHANGED <<order, peer, sent, echoed>>
        /\ server' \in {"up", "dead"}
    BY <1>6 DEF EchoRecv, UpdateSocket, RemoveSocket, clients
  <2>4. CASE n > 0
    <3>1. /\ interest' = [interest EXCEPT ![c] = "out"] /\ UNCHANGED handlers
          /\ taken' = [taken EXCEPT ![c] = taken[c] + n]
      BY <1>6, <2>4 DEF EchoRecv, UpdateSocket
    <3> HIDE DEF n
    <3>2. taken[c] + n \in 0 .. MaxBytes /\ taken[c] + n <= sent[c]
      BY <1>0, <1>2, <2>2, <2>4
    <3>3. Handled(c, "out", n, taken[c] + n, echoed[c])
      BY <1>2, <1>3, <2>1, <2>2, <2>3, <2>4, <3>1, <3>2 DEF Handled
    <3>4. n \in -1 .. BufSize /\ echoed[c] \in 0 .. MaxBytes
      BY <1>2, <2>2
    <3> QED  BY <1>1, <3>2, <3>3, <3>4, ConnectionKeeps
  <2>5. CASE ~ n > 0
    <3>1. UNCHANGED <<interest, taken>> /\ handlers' \subseteq handlers
      BY <1>6, <2>5 DEF EchoRecv, RemoveSocket
    <3> HIDE DEF n
    <3>2. Handled(c, "in", n, taken[c], echoed[c])
      BY <1>2, <1>3, <2>1, <2>2, <2>3, <3>1 DEF Handled
    <3>3. n \in -1 .. BufSize /\ taken[c] \in 0 .. MaxBytes /\ echoed[c] \in 0 .. MaxBytes
      BY <1>2, <2>2
    <3> QED  BY <1>1, <3>2, <3>3, ConnectionKeeps
  <2> QED  BY <2>4, <2>5
<1> QED  BY <1>4, <1>5, <1>6 DEF Echo, RemoveSocket

\* One event.
LEMMA HandleEventKeeps == ASSUME EchoInv, HandleEvent, UNCHANGED fdLimit PROVE EchoInv'
<1>1. server = "up" /\ events # << >> /\ events' = Tail(events)
  BY DEF HandleEvent
<1>2. Head(events).fd \in Fds
  BY <1>1, FdType DEF EchoInv, TypeOK
<1>3. CASE UNCHANGED <<server, handlers, interest, order, received, clients, taken, echoed>>
  <2>1. EventsSound' /\ events' \in Seq([fd : Fds, flags : SUBSET Flags])
    BY <1>1, <1>3, TailSound DEF clients, Waiting, EchoInv, TypeOK
  <2> QED  BY <1>3, <2>1 DEF clients, EchoInv, TypeOK, EpollSound, BytesSound, NothingLost,
           Buffered, Waiting
<1>4. CASE Head(events).fd = Listen /\ Accept
  BY <1>1, <1>4, AcceptKeeps
<1>5. CASE Head(events).fd # Listen /\ Echo(Head(events).fd, Head(events).flags)
  BY <1>1, <1>2, <1>5, EchoKeeps DEF Fds
<1> QED  BY <1>3, <1>4, <1>5 DEF HandleEvent

\* Every step of the server and of its clients keeps the invariant.
LEMMA NextKeeps == ASSUME EchoInv, [Next]_vars PROVE EchoInv'
<1>1. CASE UNCHANGED vars
  BY <1>1 DEF vars, EchoInv, TypeOK, EpollSound, EventsSound, BytesSound, NothingLost,
     Buffered, Waiting
<1>2. CASE \E c \in Conns : Client(c)
  BY <1>2, ClientKeeps
<1>3. CASE ServerStep
  BY <1>3, EpollWaitKeeps, HandleEventKeeps DEF ServerStep
<1> QED  BY <1>1, <1>2, <1>3 DEF Next

\* What the invariant is for.
LEMMA InvImplies == EchoInv => TypeOK /\ NothingLost /\ WritesWhenFull
BY DEF EchoInv, BytesSound, WritesWhenFull, TypeOK, Fds

-----------------------------------------------------------------------------
(* The client of the demo among the others.                                 *)

\* What the client has sent at each step of its main; nobody else sends for it.
DemoSound ==
  /\ client.pc \in {"connect", "sendInt"} => sent[Demo] = 0
  /\ client.pc = "send" => sent[Demo] <= IntBytes
  /\ client \in [pc : ClientSteps, is_connected : BOOLEAN, got : Nat]

DemoInv == EchoInv /\ DemoSound

\* Steps of the client that leave the connection alone.
LEMMA IdleClient == ASSUME EchoInv, UNCHANGED vars PROVE EchoInv' /\ sent' = sent
BY NextKeeps DEF vars

\* A step of the client's main.
LEMMA ClientStepKeeps == ASSUME DemoInv, ClientStep PROVE DemoInv'
<1>0. /\ Demo \in Conns /\ IntBytes \in Nat \ {0} /\ TextBytes \in Nat \ {0} /\ MaxBytes \in Nat
      /\ IntBytes + TextBytes <= MaxBytes
      /\ sent[Demo] \in 0 .. MaxBytes
      /\ sent \in [Conns -> 0 .. MaxBytes]
      /\ client \in [pc : ClientSteps, is_connected : BOOLEAN, got : Nat]
      /\ echoed[Demo] \in Nat
  BY DemoAssumption, EchoAssumption DEF DemoInv, EchoInv, TypeOK, DemoSound
<1>1. CASE ClientConnect
  <2>1. CASE Connect(Demo) /\ UNCHANGED fdLimit /\
             client' = [client EXCEPT !.pc = "sendInt", !.is_connected = TRUE]
    <3>1. EchoInv'
      BY <1>0, <2>1, ClientKeeps DEF Client, DemoInv
    <3>2. DemoSound'
      BY <1>0, <1>1, <2>1 DEF ClientConnect, Connect, Peer, DemoInv, DemoSound, ClientSteps
    <3> QED  BY <3>1, <3>2 DEF DemoInv
  <2>2. CASE Goto("sendInt") /\ UNCHANGED vars
    BY <1>0, <1>1, <2>2, IdleClient DEF ClientConnect, Goto, DemoInv, DemoSound, ClientSteps
  <2> QED  BY <1>1, <2>1, <2>2 DEF ClientConnect
<1>2. ASSUME NEW n \in Nat, Sends(n), sent[Demo] + n <= MaxBytes
      PROVE  EchoInv' /\ sent'[Demo] = sent[Demo] + n
  BY <1>0, <1>2, SendKeeps DEF Sends, DemoInv
<1>3. ASSUME SendFails PROVE DemoInv'
  BY <1>0, <1>3, IdleClient DEF SendFails, Goto, DemoInv, DemoSound, ClientSteps
<1>4. CASE client.pc = "sendInt" /\ Sends(IntBytes) /\ Goto("send")
  BY <1>0, <1>2, <1>4 DEF Goto, DemoInv, DemoSound, ClientSteps
<1>5. CASE client.pc = "send" /\ Sends(TextBytes) /\ Goto("recv")
  BY <1>0, <1>2, <1>5 DEF Goto, DemoInv, DemoSound, ClientSteps
<1>6. CASE ClientRecv
  <2>1. \A n \in 1 .. echoed[Demo] : n \in Nat
    BY <1>0
  <2>2. client' \in [pc : ClientSteps, is_connected : BOOLEAN, got : Nat] /\ client'.pc = "leave"
    BY <1>0, <1>6, <2>1 DEF ClientRecv, Goto, ClientSteps
  <2> QED  BY <1>6, <2>2, IdleClient DEF ClientRecv, DemoInv, DemoSound
<1>7. CASE ClientLeave
  <2>1. EchoInv'
    <3>1. CASE UNCHANGED vars
      BY <3>1, IdleClient DEF DemoInv
    <3>2. CASE (Peer(Demo, {"open"}, "fin") \/ Peer(Demo, {"open"}, "reset")) /\ UNCHANGED fdLimit
      BY <1>0, <3>2, PeerKeeps DEF DemoInv, PeerStates
    <3> QED  BY <1>7, <3>1, <3>2 DEF ClientLeave
  <2> QED  BY <1>0, <1>7, <2>1 DEF ClientLeave, Goto, DemoInv, DemoSound, ClientSteps
<1> QED  BY <1>1, <1>3, <1>4, <1>5, <1>6, <1>7
         DEF ClientStep, ClientSendInt, ClientSend

\* Every step of the demo: the client's own, and those of all others.
LEMMA DemoNextKeeps == ASSUME DemoInv, [DemoNext]_demoVars PROVE DemoInv'
<1>1. CASE UNCHANGED demoVars
  BY <1>1, IdleClient DEF demoVars, DemoInv, DemoSound
<1>2. CASE client.pc = "off" /\ Next /\ UNCHANGED client
  BY <1>2, NextKeeps DEF DemoInv, DemoSound
<1>3. CASE (Others \/ ServerStep) /\ UNCHANGED client
  <2>1. CASE \E c \in Conns \ {Demo} : Client(c)
    <3>1. PICK c \in Conns \ {Demo} : Client(c)
      BY <2>1
    <3>2. sent'[Demo] = sent[Demo]
      BY <3>1, DemoAssumption DEF Client, Connect, Close, Fail, Abort, Write, Peer, DemoInv, EchoInv, TypeOK
    <3> QED  BY <1>3, <3>1, <3>2, ClientKeeps DEF DemoInv, DemoSound
  <2>2. CASE (Fail(Demo) \/ Abort(Demo)) /\ UNCHANGED fdLimit
    BY <1>3, <2>2, DemoAssumption, ClientKeeps DEF Client, Fail, Abort, Peer, DemoInv, DemoSound
  <2>3. CASE ServerStep
    <3>1. sent' = sent
      BY <2>3 DEF ServerStep, EpollWait, HandleEvent, Accept, Echo, EchoSend, EchoRecv, clients
    <3> QED  BY <1>3, <2>3, <3>1, EpollWaitKeeps, HandleEventKeeps DEF ServerStep, DemoInv, DemoSound
  <2> QED  BY <1>3, <2>1, <2>2, <2>3 DEF Others
<1>4. CASE ClientStep
  BY <1>4, ClientStepKeeps
<1> QED  BY <1>1, <1>2, <1>3, <1>4 DEF DemoNext

\* The demo starts with a server that has no client.
LEMMA DemoInitInv == DemoInit => DemoInv
<1> SUFFICES ASSUME DemoInit PROVE DemoInv
  OBVIOUS
<1>1. client \in [pc : {"off", "connect"}, is_connected : {FALSE}, got : {0}]
  BY DEF DemoInit
<1>2. client \in [pc : ClientSteps, is_connected : BOOLEAN, got : Nat]
  <2>1. /\ {"off", "connect"} \subseteq ClientSteps /\ {FALSE} \subseteq BOOLEAN /\ {0} \subseteq Nat
    BY DEF ClientSteps
  <2> QED  BY <1>1, <2>1, Zenon
<1>3. sent[Demo] = 0 /\ client.pc # "send"
  BY <1>1, DemoAssumption DEF DemoInit, Init
<1> QED  BY <1>2, <1>3, InitInv DEF DemoInit, DemoInv, DemoSound

-----------------------------------------------------------------------------
(* The theorems, of the server alone and of the demo.                       *)

\* The inductive invariant of EchoHandler and SocketsListener.
THEOREM EchoInductive == Spec => []EchoInv
<1> QED  BY InitInv, NextKeeps, PTL DEF Spec

\* It is one of the demo too, with the client's own step counted.
THEOREM DemoInductive == DemoSpec => []DemoInv
<1> QED  BY DemoInitInv, DemoNextKeeps, PTL DEF DemoSpec

\* Every variable of SocketsListener and its handlers keeps its type, for any
\* number of clients; m_received never exceeds the buffer.
THEOREM EchoTypeCorrect == (Spec => []TypeOK) /\ (DemoSpec => []TypeOK)
<1>1. EchoInv => TypeOK
  BY InvImplies
<1>2. DemoInv => TypeOK
  BY InvImplies DEF DemoInv
<1> QED  BY <1>1, <1>2, EchoInductive, DemoInductive, PTL

\* EchoHandler::handle loses no byte it took with recv and sends none that is
\* not there, whatever is reported, closed or reset in between.
THEOREM NothingLostAlways == (Spec => []NothingLost) /\ (DemoSpec => []NothingLost)
<1>1. EchoInv => NothingLost
  BY InvImplies
<1>2. DemoInv => NothingLost
  BY InvImplies DEF DemoInv
<1> QED  BY <1>1, <1>2, EchoInductive, DemoInductive, PTL

\* A connection that waits for EPOLLOUT has something to send, so the server is
\* not woken for nothing.
THEOREM WritesWhenFullAlways == (Spec => []WritesWhenFull) /\ (DemoSpec => []WritesWhenFull)
<1>1. EchoInv => WritesWhenFull
  BY InvImplies
<1>2. DemoInv => WritesWhenFull
  BY InvImplies DEF DemoInv
<1> QED  BY <1>1, <1>2, EchoInductive, DemoInductive, PTL
=============================================================================
