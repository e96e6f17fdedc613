--------------------------- MODULE LonglinkStream ---------------------------
(***************************************************************************)
(* Framing on the long link: how packets of longlink_packer.cpp become a   *)
(* TCP byte stream, how the stream is cut into what longlink_unpack is     *)
(* given, and which handler of StnCallBack each unpacked packet goes to.   *)
(*                                                                         *)
(* The unit is a word of four bytes, so that the header is three words and *)
(* a heartbeat one.  The server sends back every packet it gets (the demo  *)
(* server is an echo server) and may push packets of its own: one FIFO     *)
(* byte stream stands for the way to the server and back.                  *)
(***************************************************************************)
EXTENDS Naturals, Sequences

CONSTANTS
  Magic,        \* magic_num, 0xdeadbeaf
  Beat,         \* the word of a heartbeat, htonl(4)
  NoopId,       \* Task::kNoopTaskID, 0xFFFFFFFF
  PushEnd,      \* PUSH_DATA_TASKID_END, 10000
  FirstId,      \* the first id of newMessageId, 10000
  MaxPackage,   \* words of the largest package accepted (1 MB in the code)
  Bodies,       \* message bodies, sequences of words
  MaxSends,     \* bound: packets that enter the stream
  MaxDrops,     \* bound: connections lost for reasons outside the stream
  Paced         \* TRUE: a heartbeat or a push is alone in the stream, and no
                \* header arrives in pieces; FALSE: the stream is cut anywhere

HeaderLen == 3   \* sizeof(ImMessage::MessageFormat)

ASSUME StreamAssumption ==
  /\ {Magic, Beat, NoopId, PushEnd, FirstId, MaxPackage, MaxSends, MaxDrops} \subseteq Nat
  /\ Magic > MaxPackage /\ Beat > MaxPackage
  /\ PushEnd <= FirstId /\ FirstId + MaxSends < NoopId
  /\ Bodies \subseteq Seq(Nat)
  /\ Paced \in BOOLEAN

VARIABLES
  messageId,  \* the id of the next message
  wire,       \* pieces in transit: words, and whether they begin a packet
  buf,        \* the words mars has read and not consumed
  waiting,    \* longlink_unpack asked for more than buf holds
  inFlight,   \* ghost: packets sent on this connection, not handled
  handled,    \* history: what the handlers of StnCallBack were given
  sends, drops

vars == <<messageId, wire, buf, waiting, inFlight, handled, sends, drops>>

Init ==
  /\ messageId = FirstId
  /\ wire = <<>> /\ buf = <<>> /\ waiting = TRUE
  /\ inFlight = <<>> /\ handled = <<>>
  /\ sends = 0 /\ drops = 0

-----------------------------------------------------------------------------
(* The sending side.                                                        *)

\* ImMessage(data, size): the header and the body.
ImMessage(id, body) == <<Magic, id, Len(body)>> \o body

\* longlink_pack: a heartbeat for the noop task, else the bytes of Req2Buf.
LonglinkPack(seq, body) == IF seq = NoopId THEN <<Beat>> ELSE ImMessage(seq, body)

Alone(kind) == kind \in {"noop", "push"}

MayEnter(kind) ==
  /\ sends < MaxSends
  /\ Paced => \A k \in DOMAIN inFlight : ~ Alone(kind) /\ ~ Alone(inFlight[k].kind)

Enter(packet, words) ==
  /\ MayEnter(packet.kind)
  /\ wire' = Append(wire, [words |-> words, first |-> TRUE])
  /\ inFlight' = Append(inFlight, packet)
  /\ sends' = sends + 1
  /\ UNCHANGED <<buf, waiting, handled, drops>>

\* Faulty: takes two ids, one before and one in the constructor.
FaultySendMessage(body) ==
  /\ Enter([kind |-> "response", id |-> messageId, data |-> body],
           LonglinkPack(messageId, body))
  /\ messageId' = messageId + 2

\* A message of sendMessage, on its way to the server and back.
SendMessage(body) ==
  /\ Enter([kind |-> "response", id |-> messageId, data |-> body],
           LonglinkPack(messageId, body))
  /\ messageId' = messageId + 1

\* mars packs its noop task every longlink_noop_interval.
SendNoop ==
  /\ Enter([kind |-> "noop", id |-> NoopId, data |-> <<>>], LonglinkPack(NoopId, <<>>))
  /\ UNCHANGED messageId

\* The server pushes: a packet with an id below PUSH_DATA_TASKID_END (external).
ServerPush(id, body) ==
  /\ Enter([kind |-> "push", id |-> id, data |-> body], ImMessage(id, body))
  /\ UNCHANGED messageId

-----------------------------------------------------------------------------
(* The receiving side.                                                      *)

\* A recv of the first k words in transit, of one piece at most; several recvs
\* may come before mars unpacks (external).
Receive(k) ==
  /\ wire # <<>>
  /\ LET piece == Head(wire)
         rest  == SubSeq(piece.words, k + 1, Len(piece.words))
     IN /\ k \in 1 .. Len(piece.words)
        /\ Paced /\ piece.first => k >= HeaderLen \/ rest = <<>>
        /\ buf' = buf \o SubSeq(piece.words, 1, k)
        /\ wire' = IF rest = <<>> THEN Tail(wire)
                   ELSE <<[words |-> rest, first |-> FALSE]>> \o Tail(wire)
  /\ waiting' = FALSE
  /\ UNCHANGED <<messageId, inFlight, handled, sends, drops>>

\* Faulty: a package that ends with the buffer is taken for an incomplete one.
FaultyIncomplete(packed) ==
  IF Len(packed) = 1 THEN {[ret |-> "ok", seq |-> NoopId, package |-> 1]}
  ELSE LET package == packed[3] + HeaderLen
       IN {[ret |-> IF package > MaxPackage THEN "false"
                    ELSE IF package >= Len(packed) THEN "continue" ELSE "ok",
            seq |-> packed[2], package |-> package]}

\* Faulty: the largest package is refused.
FaultyLimit(packed) ==
  IF Len(packed) = 1 THEN {[ret |-> "ok", seq |-> NoopId, package |-> 1]}
  ELSE LET package == packed[3] + HeaderLen
       IN {[ret |-> IF package >= MaxPackage THEN "false"
                    ELSE IF package > Len(packed) THEN "continue" ELSE "ok",
            seq |-> packed[2], package |-> package]}

\* __unpack_test.  It reads the header without asking whether there is one: of
\* a part of a header the length is whatever follows the buffer, and too long
\* in any case.
UnpackTest(packed) ==
  IF Len(packed) = 1 THEN {[ret |-> "ok", seq |-> NoopId, package |-> 1]}
  ELSE IF Len(packed) < HeaderLen
  THEN {[ret |-> r, seq |-> 0, package |-> 0] : r \in {"continue", "false"}}
  ELSE LET package == packed[3] + HeaderLen
       IN {[ret |-> IF package > MaxPackage THEN "false"
                    ELSE IF package > Len(packed) THEN "continue" ELSE "ok",
            seq |-> packed[2], package |-> package]}

\* longlink_noop_isresp, then longlink_ispush.
KindOf(seq) == IF seq = NoopId THEN "noop"
               ELSE IF 0 < seq /\ seq < PushEnd THEN "push" ELSE "response"

\* Faulty: the message is what follows the header, however long.
FaultyDataFor(kind, packed) ==
  CASE kind = "noop" -> <<>>
    [] kind = "push" -> packed
    [] OTHER         -> SubSeq(packed, HeaderLen + 1, Len(packed))

\* The body longlink_unpack writes is all of packed.  OnPush hands it on as it
\* is; Buf2Resp hands on getData, the words its own header counts.
DataFor(kind, packed) ==
  CASE kind = "noop" -> <<>>
    [] kind = "push" -> packed
    [] OTHER         -> SubSeq(packed, HeaderLen + 1, HeaderLen + packed[3])

\* What comes of a packet that arrives alone: OnPush hands on all of it, with
\* its header, the other handlers what was sent in it.
Heard(packet) ==
  IF packet.kind = "push" THEN [packet EXCEPT !.data = ImMessage(packet.id, packet.data)]
  ELSE packet

Disconnected ==
  /\ wire' = <<>> /\ buf' = <<>> /\ waiting' = TRUE /\ inFlight' = <<>>

\* longlink_unpack and the handler.  "false" makes mars close the connection.
LonglinkUnpack ==
  /\ ~ waiting /\ buf # <<>>
  /\ \E got \in UnpackTest(buf) :
       \/ /\ got.ret = "ok"
          /\ handled' = Append(handled, [kind |-> KindOf(got.seq), id |-> got.seq,
                                         data |-> DataFor(KindOf(got.seq), buf)])
          /\ inFlight' = IF inFlight = <<>> THEN <<>> ELSE Tail(inFlight)
          /\ buf' = SubSeq(buf, got.package + 1, Len(buf))
          /\ UNCHANGED <<wire, waiting>>
       \/ /\ got.ret = "continue" /\ waiting' = TRUE
          /\ UNCHANGED <<wire, buf, inFlight, handled>>
       \/ /\ got.ret = "false" /\ Disconnected
          /\ UNCHANGED handled
  /\ UNCHANGED <<messageId, sends, drops>>

\* The connection is lost (external).
Drop ==
  /\ drops < MaxDrops /\ drops' = drops + 1
  /\ Disconnected
  /\ UNCHANGED <<messageId, handled, sends>>

-----------------------------------------------------------------------------
Read == \E k \in 1 .. HeaderLen + MaxPackage : Receive(k)

\* Nothing is left to send or to read.
AllQuiet == sends = MaxSends /\ wire = <<>> /\ (waiting \/ buf = <<>>) /\ UNCHANGED vars

Next ==
  \/ \E body \in Bodies : SendMessage(body)
  \/ SendNoop
  \/ \E id \in 1 .. PushEnd - 1, body \in Bodies : ServerPush(id, body)
  \/ Read
  \/ LonglinkUnpack
  \/ Drop
  \/ AllQuiet

Spec == Init /\ [][Next]_vars

\* TCP delivers and mars reads and unpacks while there is something to read.
FairSpec == Spec /\ WF_vars(Read) /\ WF_vars(LonglinkUnpack)

-----------------------------------------------------------------------------
Kinds   == {"noop", "push", "response"}
Packets == [kind : Kinds, id : Nat, data : Seq(Nat)]

\* The words of a packet in the stream, its header included.
Words(packet) ==
  IF packet.kind = "noop" THEN <<Beat>> ELSE ImMessage(packet.id, packet.data)

TypeOK ==
  /\ messageId \in FirstId .. FirstId + MaxSends
  /\ wire \in Seq([words : Seq(Nat), first : BOOLEAN])
  /\ buf \in Seq(Nat) /\ waiting \in BOOLEAN
  /\ inFlight \in Seq(Packets) /\ handled \in Seq(Packets)
  /\ sends \in 0 .. MaxSends /\ drops \in 0 .. MaxDrops

\* The task id longlink_unpack reports ("_seq: task id") is that of the packet
\* which is next in the stream.
SeqIsTaskId ==
  [][LonglinkUnpack /\ handled' # handled =>
       inFlight # <<>> /\ handled'[Len(handled')].id = Head(inFlight).id]_vars

\* What longlink_unpack reports as the body ("_body: business receive buffer")
\* is the packet's own, for a push with its header, and nothing of the packet
\* after it.
BodyIsItsOwn ==
  [][LonglinkUnpack /\ handled' # handled /\ inFlight # <<>> =>
       LET got == handled'[Len(handled')]
       IN got.id = Head(inFlight).id => got.data = Heard(Head(inFlight)).data]_vars

\* A message is a "header followed with message body", of which data is the
\* "body start byte": the listener is given the body of a push.
PushIsBody ==
  [][LonglinkUnpack /\ handled' # handled =>
       LET got == handled'[Len(handled')]
       IN got.kind = "push" => got.data = Head(inFlight).data]_vars

\* Whatever the pieces, when all that was sent has arrived and was unpacked,
\* all of it was handled: no packet waits for bytes that never come.
NothingStuck == wire = <<>> /\ waiting => inFlight = <<>>

\* longlink_unpack refuses a packet, which costs the connection and all that is
\* on it, only when that packet, header and body, is larger than the limit.
OnlyTooLargeRefused ==
  [][LonglinkUnpack /\ handled' = handled /\ buf' = <<>> =>
       inFlight # <<>> /\ Len(Words(Head(inFlight))) > MaxPackage]_vars

AllHeard(packets) == [k \in DOMAIN packets |-> Heard(packets[k])]

Channel == INSTANCE FifoChannel WITH inFlight <- AllHeard(inFlight)

\* However TCP cuts and joins the packets, their handlers get them whole, a push
\* in its header, in the order of sending, each once, and in the end.
StreamIsFifo == Channel!FairSpec
=============================================================================
