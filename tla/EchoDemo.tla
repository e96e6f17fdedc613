------------------------------- MODULE EchoDemo -------------------------------
(***************************************************************************)
(* TcpClient.cpp against the echo server: main connects, sends the length  *)
(* and the text, receives once and leaves.  One connection is this client; *)
(* the others do what they like.  With the client off, all connections do, *)
(* as in EchoServer.                                                       *)
(***************************************************************************)
EXTENDS EchoServer

CONSTANTS
  Demo,        \* the connection of the client
  IntBytes,    \* sizeof(uint32_t)
  TextBytes    \* strlen(argv[3]); not empty

ASSUME DemoAssumption ==
  /\ Demo \in Conns
  /\ IntBytes \in Nat \ {0} /\ TextBytes \in Nat \ {0} /\ IntBytes + TextBytes <= MaxBytes

VARIABLE client   \* the step of main; is_connected_; the bytes that Recv returned

demoVars == <<vars, client>>

ClientSteps == {"off", "connect", "sendInt", "send", "recv", "leave", "done", "killed"}

DemoInit ==
  /\ Init
  /\ client \in [pc : {"off", "connect"}, is_connected : {FALSE}, got : {0}]

Goto(step) == client' = [client EXCEPT !.pc = step]

\* Connect: refused, or timed out, or in the queue of the server.
ClientConnect ==
  /\ client.pc = "connect"
  /\ \/ /\ server = "up" /\ Connect(Demo) /\ UNCHANGED fdLimit
        /\ client' = [client EXCEPT !.pc = "sendInt", !.is_connected = TRUE]
     \/ Goto("sendInt") /\ UNCHANGED vars

\* send: all of it, the socket being empty, or an error.  On a socket that is
\* not connected, or was reset, the error comes with SIGPIPE, or it is the
\* reset itself that is reported.
Sends(bytes) ==
  /\ client.is_connected /\ peer[Demo] \in {"queued", "open"} /\ server = "up"
  /\ sent' = [sent EXCEPT ![Demo] = @ + bytes]
  /\ UNCHANGED <<server, handlers, interest, order, events, received, peer, taken, echoed,
                 fdLimit>>
SendFails ==
  /\ ~ client.is_connected \/ peer[Demo] \in {"err", "reset"} \/ server = "dead"
  /\ Goto("recv") \/ Goto("killed")
  /\ UNCHANGED vars

\* SendInt < 0 || Send < 0; whatever came of it, main goes on to Recv.
ClientSendInt ==
  /\ client.pc = "sendInt"
  /\ (Sends(IntBytes) /\ Goto("send")) \/ SendFails
ClientSend ==
  /\ client.pc = "send"
  /\ (Sends(TextBytes) /\ Goto("recv")) \/ SendFails

\* Faulty: waits for all of it, and is not told of the end of the connection.
FaultyClientRecv ==
  /\ client.pc = "recv" /\ echoed[Demo] = IntBytes + TextBytes
  /\ client' = [client EXCEPT !.pc = "leave", !.got = echoed[Demo]]
  /\ UNCHANGED vars

\* Recv blocks until there is something and returns what has arrived, all of
\* the reply or a part; an error, or the end of the server, ends it too.
ClientRecv ==
  /\ client.pc = "recv"
  /\ \/ /\ echoed[Demo] > 0
        /\ \E n \in 1 .. echoed[Demo] : client' = [client EXCEPT !.pc = "leave", !.got = n]
     \/ /\ ~ client.is_connected \/ peer[Demo] \in {"err", "reset"} \/ server = "dead"
        /\ Goto("leave")
  /\ UNCHANGED vars

\* delete client shuts the socket down; what is left unread, or still comes,
\* turns that into a reset.
ClientLeave ==
  /\ client.pc = "leave" /\ Goto("done")
  /\ IF peer[Demo] = "open"
     THEN /\ \/ Peer(Demo, {"open"}, "fin")
             \/ client.got < sent[Demo] /\ Peer(Demo, {"open"}, "reset")
          /\ UNCHANGED fdLimit
     ELSE UNCHANGED vars

ClientStep == ClientConnect \/ ClientSendInt \/ ClientSend \/ ClientRecv \/ ClientLeave

\* The other connections, and the network of this one.
Others ==
  \/ \E c \in Conns \ {Demo} : Client(c)
  \/ /\ client.is_connected
     /\ (client.pc # "done" /\ Fail(Demo)) \/ Abort(Demo)
     /\ UNCHANGED fdLimit

DemoNext ==
  \/ client.pc = "off" /\ Next /\ UNCHANGED client
  \/ client.pc # "off" /\ (Others \/ ServerStep) /\ UNCHANGED client
  \/ ClientStep

\* The server's thread and the client's keep running.
DemoSpec ==
  /\ DemoInit /\ [][DemoNext]_demoVars
  /\ WF_demoVars(ServerStep /\ UNCHANGED client)
  /\ WF_demoVars(ClientStep)

-----------------------------------------------------------------------------
\* main of the client comes to its end, with a reply or without, whatever other
\* clients do to the server: it never waits for a reply that is not coming, save
\* in the queue of a server that has no fd left for it.
ClientEnds ==
  client.pc = "connect" ~>
    \/ client.pc \in {"done", "killed"}
    \/ client.pc = "recv" /\ peer[Demo] = "queued" /\ OutOfFds
=============================================================================
