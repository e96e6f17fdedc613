----------------------------- MODULE EchoServer -----------------------------
(***************************************************************************)
(* The demo server of TcpEchoServer.cpp: one thread, one epoll instance,   *)
(* level triggered.  run() takes up to MAX_EVENTS events and handles them  *)
(* in turn; what an event says was true when epoll_wait returned and may   *)
(* have changed when it is handled.  A connection stands for its fd, and   *)
(* bytes are counted, not named.                                           *)
(***************************************************************************)
EXTENDS Naturals, Integers, Sequences

CONSTANTS
  Listen,      \* the server socket
  Conns,       \* the connections clients may make
  BufSize,     \* sizeof(m_buffer), 1000
  MaxEvents,   \* MAX_EVENTS, 5
  MaxBytes,    \* bound: bytes each client sends
  FdLimits     \* the numbers of connections the process's limit on fds may allow

Fds == Conns \cup {Listen}

ASSUME EchoAssumption ==
  /\ Listen \notin Conns
  /\ {BufSize, MaxEvents} \subseteq Nat \ {0} /\ MaxBytes \in Nat
  /\ FdLimits \subseteq Nat

VARIABLES
  server,      \* "up", or "dead" of a signal
  handlers,    \* fds in m_socketHandlers
  interest,    \* per fd in the epoll instance: "in" or "out"
  order,       \* fds in the epoll instance, longest unreported first
  events,      \* what epoll_wait returned and is not handled yet
  received,    \* per connection: m_received
  peer,        \* per connection: what the client did to the socket
  sent,        \* bytes the client wrote
  taken,       \* bytes the server took with recv
  echoed,      \* bytes the server sent back
  fdLimit      \* connections the process has fds for, none of which it closes

vars ==
  <<server, handlers, interest, order, events, received, peer, sent, taken, echoed, fdLimit>>
clients == <<peer, sent>>

\* "queued" is connected and not accepted; "fin" has closed its side; "err" has
\* an error pending that is not a reset.
PeerStates == {"none", "queued", "open", "fin", "err", "reset"}

\* main: one server socket, polled for EPOLLIN.  m_received is not initialised.
Init ==
  /\ server = "up"
  /\ handlers = {Listen} /\ interest = [f \in Fds |-> "in"] /\ order = <<Listen>>
  /\ events = <<>>
  /\ received \in [Conns -> {0, 1}]
  /\ peer = [c \in Conns |-> "none"]
  /\ sent = [c \in Conns |-> 0]
  /\ taken = [c \in Conns |-> 0] /\ echoed = [c \in Conns |-> 0]
  /\ fdLimit \in FdLimits

-----------------------------------------------------------------------------
(* Clients and the network (external).                                      *)

Peer(c, from, to) ==
  /\ peer[c] \in from /\ peer' = [peer EXCEPT ![c] = to]
  /\ UNCHANGED <<server, handlers, interest, order, events, received, sent, taken, echoed>>

Accepted(c) == \E k \in DOMAIN order : order[k] = c

Connect(c) == Peer(c, {"none"}, "queued")
Close(c)   == Accepted(c) /\ Peer(c, {"open"}, "fin")
Fail(c)    == Accepted(c) /\ Peer(c, {"open"}, "err")
Abort(c)   == Accepted(c) /\ Peer(c, {"open", "fin"}, "reset")

\* A client writes as soon as it is connected, before the server accepts it.
Write(c) ==
  /\ peer[c] \in {"queued", "open"} /\ sent[c] < MaxBytes
  /\ \E n \in 1 .. MaxBytes - sent[c] : sent' = [sent EXCEPT ![c] = @ + n]
  /\ UNCHANGED <<server, handlers, interest, order, events, received, peer, taken, echoed>>

-----------------------------------------------------------------------------
(* epoll_wait (external).                                                   *)

\* The events a socket has: those asked for, and errors unasked.
Readable(f) ==
  IF f = Listen THEN \E c \in Conns : peer[c] = "queued"
  ELSE sent[f] > taken[f] \/ peer[f] = "fin"

Ready(f) ==
  IF f # Listen /\ peer[f] = "reset" THEN {"hup", "err", interest[f]}
  ELSE IF f # Listen /\ peer[f] = "err" THEN {"err", interest[f]}
  ELSE IF interest[f] = "in" /\ ~ Readable(f) THEN {} ELSE {interest[f]}

\* The fds of a set, in the order of the epoll instance.
InOrder(fds) ==
  LET kept[k \in 0 .. Len(order)] ==
        IF k = 0 THEN << >>
        ELSE IF order[k] \in fds THEN Append(kept[k - 1], order[k]) ELSE kept[k - 1]
  IN kept[Len(order)]

\* Up to MaxEvents ready fds, in order; those reported go to the back.
EpollWait ==
  /\ server = "up" /\ events = <<>>
  /\ LET ready    == InOrder({f \in Fds : Ready(f) # {}})
         n        == IF Len(ready) < MaxEvents THEN Len(ready) ELSE MaxEvents
         reported == {ready[k] : k \in 1 .. n}
     IN /\ n > 0
        /\ events' = [k \in 1 .. n |-> [fd |-> ready[k], flags |-> Ready(ready[k])]]
        /\ order' = InOrder(Fds \ reported) \o SubSeq(ready, 1, n)
  /\ UNCHANGED <<server, handlers, interest, received, clients, taken, echoed>>

-----------------------------------------------------------------------------
(* The handlers.                                                            *)

\* Faulty: asks for EPOLLOUT at once.
FaultyAddSocketHandler(fd, flag) ==
  /\ handlers' = handlers \cup {fd}
  /\ interest' = [interest EXCEPT ![fd] = "out"]
  /\ order' = Append(order, fd)

AddSocketHandler(fd, flag) ==
  /\ handlers' = handlers \cup {fd}
  /\ interest' = [interest EXCEPT ![fd] = flag]
  /\ order' = Append(order, fd)

\* The entry of the map goes; the fd stays open and in the epoll instance.
RemoveSocket(fd) == handlers' = handlers \ {fd} /\ UNCHANGED <<interest, order>>

\* Faulty: epoll_ctl fails.
FaultyUpdateSocket(fd, flag) == UNCHANGED <<interest, handlers, order>>

UpdateSocket(fd, flag) ==
  interest' = [interest EXCEPT ![fd] = flag] /\ UNCHANGED <<handlers, order>>

\* ServerHandler::handle; accept fails when no client is left in the queue, or
\* when the fds are used up: the client stays in the queue, the socket readable.
OutOfFds == Len(order) > fdLimit
Accept ==
  \/ /\ ~ OutOfFds
     /\ \E c \in Conns :
          /\ peer[c] = "queued" /\ peer' = [peer EXCEPT ![c] = "open"]
          /\ AddSocketHandler(c, "in")
     /\ UNCHANGED <<server, received, sent, taken, echoed>>
  \/ /\ OutOfFds \/ \A c \in Conns : peer[c] # "queued"
     /\ UNCHANGED <<server, handlers, interest, order, received, clients, taken, echoed>>

\* Faulty: goes on asking for EPOLLOUT.
FaultyEchoSend(c) ==
  /\ received' = [received EXCEPT ![c] = 0]
  /\ echoed' = [echoed EXCEPT ![c] = @ + received[c]]
  /\ UNCHANGED <<server, handlers, interest, order, clients, taken>>

\* EPOLLOUT: the socket has room for far more than m_buffer, so all of it goes.
\* On a socket that was reset by now, send fails, or raises SIGPIPE.
EchoSend(c) ==
  /\ received' = [received EXCEPT ![c] = 0]
  /\ UpdateSocket(c, "in")
  /\ IF received[c] > 0 /\ peer[c] = "reset"
     THEN server' \in {"up", "dead"} /\ UNCHANGED echoed
     ELSE /\ echoed' = [echoed EXCEPT ![c] = @ + received[c]]
          /\ UNCHANGED server
  /\ UNCHANGED <<clients, taken>>

\* Faulty: recv is given more room than the buffer has.
FaultyEchoRecv(c) ==
  LET unread == sent[c] - taken[c]
  IN /\ received' = [received EXCEPT ![c] = unread]
     /\ IF unread > 0
        THEN UpdateSocket(c, "out") /\ taken' = [taken EXCEPT ![c] = sent[c]]
        ELSE RemoveSocket(c) /\ UNCHANGED taken
     /\ UNCHANGED <<server, clients, echoed>>

\* EPOLLIN: recv takes what there is, up to the size of the buffer, nothing
\* after a close, and fails on a reset.  m_buffer[m_received] = 0 on a full
\* buffer writes past its end: nothing happens, or the heap check kills us.
EchoRecv(c) ==
  LET unread == sent[c] - taken[c]
      n      == IF peer[c] = "reset" THEN -1 ELSE IF unread < BufSize THEN unread ELSE BufSize
  IN /\ received' = [received EXCEPT ![c] = n]
     /\ IF n > 0
        THEN UpdateSocket(c, "out") /\ taken' = [taken EXCEPT ![c] = @ + n]
        ELSE RemoveSocket(c) /\ UNCHANGED taken
     /\ IF n = BufSize THEN server' \in {"up", "dead"} ELSE UNCHANGED server
     /\ UNCHANGED <<clients, echoed>>

\* EchoHandler::handle.  EPOLLOUT and EPOLLIN are never asked for together.
Echo(c, flags) ==
  \/ /\ "hup" \in flags /\ RemoveSocket(c)
     /\ UNCHANGED <<server, received, clients, taken, echoed>>
  \/ /\ "hup" \notin flags /\ "err" \in flags
     /\ UNCHANGED <<server, handlers, interest, order, received, clients, taken, echoed>>
  \/ flags = {"out"} /\ EchoSend(c)
  \/ flags = {"in"} /\ EchoRecv(c)

\* The body of the loop in run: an fd whose handler is gone is skipped.
HandleEvent ==
  /\ server = "up" /\ events # <<>>
  /\ events' = Tail(events)
  /\ LET e == Head(events)
     IN \/ /\ e.fd \notin handlers
           /\ UNCHANGED <<server, handlers, interest, order, received, clients, taken, echoed>>
        \/ e.fd \in handlers /\ e.fd = Listen /\ Accept
        \/ e.fd \in handlers /\ e.fd # Listen /\ Echo(e.fd, e.flags)

-----------------------------------------------------------------------------
Client(c) ==
  (Connect(c) \/ Close(c) \/ Fail(c) \/ Abort(c) \/ Write(c)) /\ UNCHANGED fdLimit

ServerStep == (EpollWait \/ HandleEvent) /\ UNCHANGED fdLimit

Next == (\E c \in Conns : Client(c)) \/ ServerStep

Spec == Init /\ [][Next]_vars

\* The server's thread keeps running.
FairSpec == Spec /\ WF_vars(ServerStep)

-----------------------------------------------------------------------------
Flags == {"in", "out", "hup", "err"}

TypeOK ==
  /\ server \in {"up", "dead"}
  /\ handlers \subseteq Fds /\ interest \in [Fds -> {"in", "out"}]
  /\ order \in Seq(Fds) /\ events \in Seq([fd : Fds, flags : SUBSET Flags])
  /\ received \in [Conns -> -1 .. BufSize]
  /\ peer \in [Conns -> PeerStates]
  /\ {sent, taken, echoed} \subseteq [Conns -> 0 .. MaxBytes]
  /\ fdLimit \in FdLimits

\* Every byte taken from a client that did not reset is in the buffer or was
\* sent back, and no byte of the uninitialised buffer is ever sent.
NothingLost ==
  \A c \in Conns : peer[c] # "reset" /\ server = "up" =>
    taken[c] = echoed[c] + (IF interest[c] = "out" THEN received[c] ELSE 0)

\* A connection waits to write only while its buffer holds something.
WritesWhenFull ==
  \A c \in handlers \ {Listen} : interest[c] = "out" => received[c] > 0

\* A client that was accepted and stays gets back all it sent, whatever other
\* clients do, although the fds of those that are gone stay in the epoll instance
\* and are reported for ever, and although one that finds no fd makes accept fail
\* time and again.
EchoesAll ==
  \A c \in Conns :
    [](peer[c] = "open" /\ sent[c] > echoed[c] =>
         <>(echoed[c] = sent[c] \/ peer[c] # "open" \/ server = "dead"))
=============================================================================
