--------------------------- MODULE LonglinkProofs ---------------------------
(***************************************************************************)
(* Theorems about LonglinkStream, for any bodies, limit and ids.  What mars *)
(* has read and what is in transit together are the packets in flight, one  *)
(* after the other: an offset for each packet says where in the stream it   *)
(* starts, and no cut between two pieces leaves a part of a header.         *)
(***************************************************************************)
EXTENDS LonglinkStream, SequenceTheorems, TLAPS

USE DEF HeaderLen

\* A packet that goes to the handler of its kind, by its id.
Sound(packet) ==
  /\ packet \in Packets
  /\ packet.kind = "noop" => packet.id = NoopId /\ packet.data = <<>>
  /\ packet.kind = "response" => packet.id \in FirstId .. NoopId - 1
  /\ packet.kind = "push" => packet.id \in 1 .. PushEnd - 1

-----------------------------------------------------------------------------
(* The stream, of packets in flight, pieces in transit and words read.      *)

\* Packet k starts behind the first starts[k] words.
Starts(packets, starts) ==
  /\ starts[1] = 0
  /\ \A k \in 1 .. Len(packets) : starts[k + 1] = starts[k] + Len(Words(packets[k]))
  /\ \A k, l \in 1 .. Len(packets) + 1 : k <= l => starts[k] <= starts[l]

\* What was read is what was sent.
Arrived(packets, read, starts) ==
  \A k \in 1 .. Len(packets) : \A i \in 1 .. Len(Words(packets[k])) :
    starts[k] + i <= Len(read) => read[starts[k] + i] = Words(packets[k])[i]

\* A piece is what follows the first got words of a packet; if the packet was
\* cut, its header has arrived.
PieceOf(piece, packet, got) ==
  /\ got < Len(Words(packet)) /\ (got = 0 \/ got >= HeaderLen)
  /\ piece.first <=> got = 0
  /\ Len(piece.words) = Len(Words(packet)) - got
  /\ \A i \in 1 .. Len(piece.words) : piece.words[i] = Words(packet)[got + i]

\* The pieces are those of the last packets; only the first can be cut.
Coming(packets, pieces, read, starts) ==
  /\ Len(pieces) <= Len(packets)
  /\ starts[Len(packets) - Len(pieces) + 1] <= Len(read)
  /\ pieces = <<>> => Len(read) = starts[Len(packets) + 1]
  /\ \A j \in 1 .. Len(pieces) :
       LET k == (Len(packets) - Len(pieces)) + j
       IN PieceOf(pieces[j], packets[k], IF j = 1 THEN Len(read) - starts[k] ELSE 0)

AllSound(packets) == \A k \in 1 .. Len(packets) : Sound(packets[k])

Stream(packets, pieces, read) ==
  \E starts \in [1 .. Len(packets) + 1 -> Nat] :
    /\ Starts(packets, starts)
    /\ Arrived(packets, read, starts)
    /\ Coming(packets, pieces, read, starts)

\* The inductive invariant of a connection that is Paced.
StreamInv ==
  /\ AllSound(inFlight)
  /\ Len(inFlight) > 1 => \A k \in 1 .. Len(inFlight) : ~ Alone(inFlight[k].kind)
  /\ waiting => inFlight = <<>> \/ wire # <<>>
  /\ Stream(inFlight, wire, buf)

-----------------------------------------------------------------------------
(* Packets and messages.                                                    *)

\* A part of a sequence.
LEMMA SliceIs ==
  ASSUME NEW S, NEW s \in Seq(S), NEW from \in Nat, NEW to \in Nat, from <= to, to <= Len(s)
  PROVE  /\ SubSeq(s, from + 1, to) \in Seq(S)
         /\ Len(SubSeq(s, from + 1, to)) = to - from
         /\ \A i \in 1 .. to - from : SubSeq(s, from + 1, to)[i] = s[from + i]
<1> DEFINE m == from + 1
           slice == SubSeq(s, m, to)
<1>1. \A i \in m .. to : i \in 1 .. Len(s)
  OBVIOUS
<1>2. \A i \in m .. to : s[i] \in S
  BY <1>1, ElementOfSeq
<1>3. m \in Int /\ to \in Int /\ slice = SubSeq(s, m, to)
  OBVIOUS
<1>4. /\ (m <= to => to - m + 1 = to - from) /\ (~ (m <= to) => 0 = to - from)
      /\ to - m + 1 = to - from
      /\ \A i \in 1 .. to - from : m + i - 1 = from + i
  OBVIOUS
<1> HIDE DEF m, slice
<1>5. /\ slice \in Seq(S) /\ Len(slice) = IF m <= to THEN to - m + 1 ELSE 0
      /\ \A i \in 1 .. to - m + 1 : slice[i] = s[m + i - 1]
  BY <1>2, <1>3, SubSeqProperties
<1>6. Len(slice) = to - from /\ \A i \in 1 .. to - from : slice[i] = s[from + i]
  BY <1>4, <1>5
<1> QED  BY <1>5, <1>6 DEF slice, m

\* A message is its header and its body.
LEMMA MessageIs ==
  ASSUME NEW id \in Nat, NEW body \in Seq(Nat)
  PROVE  /\ ImMessage(id, body) \in Seq(Nat)
         /\ Len(ImMessage(id, body)) = HeaderLen + Len(body)
         /\ ImMessage(id, body)[2] = id
         /\ ImMessage(id, body)[3] = Len(body)
         /\ \A i \in 1 .. Len(body) : ImMessage(id, body)[HeaderLen + i] = body[i]
<1> DEFINE header == <<Magic, id, Len(body)>>
<1>1. Magic \in Nat /\ Len(body) \in Nat
  BY StreamAssumption
<1>2. /\ header \in Seq(Nat) /\ Len(header) = 3
      /\ header[2] = id /\ header[3] = Len(body)
  BY <1>1
<1>3. ImMessage(id, body) = header \o body
  BY DEF ImMessage
<1> HIDE DEF header
<1>4. /\ header \o body \in Seq(Nat)
      /\ Len(header \o body) = 3 + Len(body)
      /\ \A i \in 1 .. 3 + Len(body) :
           (header \o body)[i] = IF i <= 3 THEN header[i] ELSE body[i - 3]
  <2>1. /\ header \o body \in Seq(Nat)
        /\ Len(header \o body) = Len(header) + Len(body)
        /\ \A i \in 1 .. Len(header) + Len(body) :
             (header \o body)[i] = IF i <= Len(header) THEN header[i] ELSE body[i - Len(header)]
    BY <1>2, ConcatProperties
  <2> QED  BY <1>2, <2>1
<1>5. /\ 2 \in 1 .. 3 + Len(body) /\ 3 \in 1 .. 3 + Len(body)
      /\ \A i \in 1 .. Len(body) : 3 + i \in 1 .. 3 + Len(body) /\ (3 + i) - 3 = i /\ ~ (3 + i <= 3)
  BY <1>1
<1> QED  BY <1>2, <1>3, <1>4, <1>5

\* The words of a sound packet.
LEMMA WordsAre ==
  ASSUME NEW packet, Sound(packet)
  PROVE  /\ Words(packet) \in Seq(Nat) /\ Len(Words(packet)) > 0
         /\ packet.kind = "noop" => Words(packet) = <<Beat>>
         /\ packet.kind # "noop" =>
              /\ Len(Words(packet)) >= HeaderLen
              /\ Words(packet)[2] = packet.id
              /\ Words(packet)[3] = Len(Words(packet)) - HeaderLen
         /\ packet.kind = "push" => Words(packet) = Heard(packet).data
         /\ packet.kind # "noop" =>
              /\ Len(Words(packet)) = HeaderLen + Len(packet.data)
              /\ \A i \in 1 .. Len(packet.data) : Words(packet)[HeaderLen + i] = packet.data[i]
<1>1. /\ packet.kind \in {"noop", "push", "response"} /\ packet.id \in Nat
      /\ packet.data \in Seq(Nat)
  BY DEF Sound, Packets, Kinds
<1>2. Beat \in Nat
  BY StreamAssumption
<1>3. CASE packet.kind = "noop"
  BY <1>2, <1>3 DEF Words
<1>4. packet.kind = "push" => Words(packet) = Heard(packet).data
  BY <1>1 DEF Words, Heard, Packets, Sound
<1>5. CASE packet.kind # "noop"
  <2>1. Words(packet) = ImMessage(packet.id, packet.data)
    BY <1>5 DEF Words
  <2>2. /\ Words(packet) \in Seq(Nat)
        /\ Len(Words(packet)) = HeaderLen + Len(packet.data)
        /\ Words(packet)[2] = packet.id
        /\ Words(packet)[3] = Len(packet.data)
        /\ \A i \in 1 .. Len(packet.data) : Words(packet)[HeaderLen + i] = packet.data[i]
    <3> DEFINE id == packet.id
    <3> DEFINE body == packet.data
    <3>1. id \in Nat /\ body \in Seq(Nat) /\ Words(packet) = ImMessage(id, body)
      BY <1>1, <2>1
    <3> HIDE DEF id, body
    <3>2. /\ Words(packet) \in Seq(Nat)
          /\ Len(Words(packet)) = HeaderLen + Len(body)
          /\ Words(packet)[2] = id
          /\ Words(packet)[3] = Len(body)
          /\ \A i \in 1 .. Len(body) : Words(packet)[HeaderLen + i] = body[i]
      <4>1. /\ ImMessage(id, body) \in Seq(Nat)
            /\ Len(ImMessage(id, body)) = HeaderLen + Len(body)
            /\ ImMessage(id, body)[2] = id
            /\ ImMessage(id, body)[3] = Len(body)
            /\ \A i \in 1 .. Len(body) : ImMessage(id, body)[HeaderLen + i] = body[i]
        BY <3>1, MessageIs
      <4> QED  BY <3>1, <4>1
    <3> QED  BY <3>2 DEF id, body
  <2>3. Len(packet.data) \in Nat
    BY <1>1
  <2> DEFINE size == Len(packet.data)
             W    == Words(packet)
  <2>4. /\ size \in Nat /\ W \in Seq(Nat) /\ Len(W) = HeaderLen + size
        /\ W[2] = packet.id /\ W[3] = size
    BY <2>2, <2>3
  <2> HIDE DEF size, W
  <2>5. /\ Len(W) > 0 /\ Len(W) >= HeaderLen /\ W[3] = Len(W) - HeaderLen
    BY <2>4
  <2>6. packet.kind # "noop" => Len(W) >= HeaderLen /\ W[2] = packet.id /\ W[3] = Len(W) - HeaderLen
    BY <2>4, <2>5
  <2> QED  BY <1>4, <1>5, <2>2, <2>5, <2>6, Zenon DEF W
<1> QED  BY <1>1, <1>3, <1>4, <1>5

\* The words sent for a packet are its bytes.
LEMMA SentAreWords ==
  ASSUME NEW id \in Nat, NEW body \in Seq(Nat)
  PROVE  /\ id < NoopId =>
              LonglinkPack(id, body) = Words([kind |-> "response", id |-> id, data |-> body])
         /\ LonglinkPack(NoopId, <<>>) = Words([kind |-> "noop", id |-> NoopId, data |-> <<>>])
         /\ ImMessage(id, body) = Words([kind |-> "push", id |-> id, data |-> body])
BY StreamAssumption DEF LonglinkPack, Words

\* What is heard of a packet is one, of the same kind and id.
LEMMA HeardIs ==
  ASSUME NEW packet \in Packets
  PROVE  /\ Heard(packet) \in Packets /\ Heard(packet).id = packet.id
         /\ Heard(packet)
              = [kind |-> packet.kind, id |-> packet.id, data |-> Heard(packet).data]
<1>1. /\ packet = [kind |-> packet.kind, id |-> packet.id, data |-> packet.data]
      /\ packet.kind \in Kinds /\ packet.id \in Nat /\ packet.data \in Seq(Nat)
  BY DEF Packets
<1>2. ImMessage(packet.id, packet.data) \in Seq(Nat)
  BY <1>1, MessageIs
<1>3. CASE packet.kind = "push"
  <2> DEFINE message == ImMessage(packet.id, packet.data)
  <2>1. Heard(packet) = [packet EXCEPT !.data = message]
    BY <1>3 DEF Heard
  <2> HIDE DEF message
  <2>2. Heard(packet) = [kind |-> packet.kind, id |-> packet.id, data |-> message]
    BY <1>1, <2>1
  <2>3. message \in Seq(Nat)
    BY <1>2 DEF message
  <2> QED  BY <1>1, <2>2, <2>3 DEF Packets
<1>4. CASE packet.kind # "push"
  BY <1>1, <1>4 DEF Heard
<1> QED  BY <1>3, <1>4

\* What is heard of packets, one for each.
LEMMA HeardSeqs ==
  ASSUME NEW packets \in Seq(Packets)
  PROVE  /\ AllHeard(packets) \in Seq(Packets) /\ Len(AllHeard(packets)) = Len(packets)
         /\ \A k \in 1 .. Len(packets) : AllHeard(packets)[k] = Heard(packets[k])
         /\ AllHeard(packets) = <<>> <=> packets = <<>>
<1> DEFINE n == Len(packets)
<1>1. n \in Nat /\ DOMAIN packets = 1 .. n
  OBVIOUS
<1>2. AllHeard(packets) = [k \in 1 .. n |-> Heard(packets[k])]
  BY <1>1 DEF AllHeard
<1>3. \A k \in 1 .. n : Heard(packets[k]) \in Packets
  BY ElementOfSeq, HeardIs
<1> HIDE DEF n
<1>4. /\ AllHeard(packets) \in Seq(Packets) /\ Len(AllHeard(packets)) = n
      /\ \A k \in 1 .. n : AllHeard(packets)[k] = Heard(packets[k])
  BY <1>1, <1>2, <1>3
<1>5. AllHeard(packets) = <<>> <=> packets = <<>>
  BY <1>4 DEF n
<1> QED  BY <1>4, <1>5 DEF n

\* Of a packet more, one more is heard.
LEMMA HeardAppend ==
  ASSUME NEW packets \in Seq(Packets), NEW packet \in Packets
  PROVE  AllHeard(Append(packets, packet)) = Append(AllHeard(packets), Heard(packet))
<1> DEFINE more  == Append(packets, packet)
           heard == AllHeard(packets)
           last  == Heard(packet)
           n     == Len(packets)
<1>1. /\ more \in Seq(Packets) /\ Len(more) = n + 1 /\ n \in Nat
      /\ more[n + 1] = packet /\ \A k \in 1 .. n : more[k] = packets[k]
  BY AppendProperties
<1>2. /\ heard \in Seq(Packets) /\ Len(heard) = n /\ last \in Packets
      /\ \A k \in 1 .. n : heard[k] = Heard(packets[k])
  BY HeardSeqs, HeardIs
<1>3. /\ AllHeard(more) \in Seq(Packets) /\ Len(AllHeard(more)) = Len(more)
      /\ \A k \in 1 .. Len(more) : AllHeard(more)[k] = Heard(more[k])
  BY <1>1, HeardSeqs
<1> DEFINE longer == Append(heard, last)
           all    == AllHeard(more)
<1> HIDE DEF more, heard, n
<1>4. /\ longer \in Seq(Packets) /\ Len(longer) = n + 1
      /\ longer[n + 1] = Heard(packet) /\ \A k \in 1 .. n : longer[k] = heard[k]
  BY <1>2, AppendProperties
<1> HIDE DEF longer, all, last
<1>5. all \in Seq(Packets) /\ Len(all) = n + 1
      /\ \A k \in 1 .. n + 1 : all[k] = Heard(more[k])
  BY <1>1, <1>3 DEF all
<1>6. \A k \in 1 .. Len(all) : all[k] = longer[k]
  <2> TAKE k \in 1 .. Len(all)
  <2>1. k \in 1 .. n \/ k = n + 1
    BY <1>1, <1>5
  <2> QED  BY <1>1, <1>2, <1>4, <1>5, <2>1
<1>7. all = longer
  BY <1>4, <1>5, <1>6, SeqEqual
<1> QED  BY <1>7 DEF all, longer, more, heard, last

\* What is heard first is of the first packet, and the rest of the rest.
LEMMA HeardTail ==
  ASSUME NEW packets \in Seq(Packets), packets # <<>>
  PROVE  /\ AllHeard(packets) # <<>> /\ Head(AllHeard(packets)) = Heard(Head(packets))
         /\ AllHeard(Tail(packets)) = Tail(AllHeard(packets))
<1> DEFINE rest  == Tail(packets)
           heard == AllHeard(packets)
           n     == Len(packets)
<1>1. /\ n \in Nat /\ n > 0 /\ rest \in Seq(Packets) /\ Len(rest) = n - 1
      /\ \A k \in 1 .. n - 1 : rest[k] = packets[k + 1]
      /\ Head(packets) = packets[1]
  BY HeadTailProperties
<1>2. /\ heard \in Seq(Packets) /\ Len(heard) = n /\ heard # <<>>
      /\ \A k \in 1 .. n : heard[k] = Heard(packets[k])
  BY HeardSeqs
<1>3. /\ AllHeard(rest) \in Seq(Packets) /\ Len(AllHeard(rest)) = Len(rest)
      /\ \A k \in 1 .. Len(rest) : AllHeard(rest)[k] = Heard(rest[k])
  BY <1>1, HeardSeqs
<1> DEFINE left == Tail(heard)
           all  == AllHeard(rest)
<1> HIDE DEF rest, heard, n
<1>4. /\ left \in Seq(Packets) /\ Len(left) = n - 1
      /\ \A k \in 1 .. n - 1 : left[k] = heard[k + 1]
      /\ Head(heard) = heard[1]
  BY <1>2, HeadTailProperties
<1> HIDE DEF left, all
<1>5. all \in Seq(Packets) /\ Len(all) = n - 1
      /\ \A k \in 1 .. n - 1 : all[k] = Heard(rest[k])
  BY <1>1, <1>3 DEF all
<1>6. \A k \in 1 .. Len(all) : all[k] = left[k]
  <2> TAKE k \in 1 .. Len(all)
  <2>1. k \in 1 .. n - 1 /\ k + 1 \in 1 .. n
    BY <1>1, <1>5
  <2> QED  BY <1>1, <1>2, <1>4, <1>5, <2>1
<1>7. all = left
  BY <1>4, <1>5, <1>6, SeqEqual
<1>8. Head(heard) = Heard(Head(packets))
  <2>1. 1 \in 1 .. n
    BY <1>1
  <2> QED  BY <1>1, <1>2, <1>4, <2>1
<1> QED  BY <1>2, <1>7, <1>8 DEF all, left, rest, heard

-----------------------------------------------------------------------------
(* What sending, reading and unpacking do to the stream.                    *)

Pieces == [words : Seq(Nat), first : BOOLEAN]

\* A connection starts with nothing on it.
LEMMA StreamEmpty == Stream(<<>>, <<>>, <<>>)
<1> DEFINE starts == [k \in 1 .. Len(<<>>) + 1 |-> 0]
<1>1. Len(<<>>) = 0
  OBVIOUS
<1>2. starts \in [1 .. Len(<<>>) + 1 -> Nat] /\ starts[1] = 0
  BY <1>1
<1>3. Starts(<<>>, starts)
  BY <1>1 DEF Starts
<1>4. Arrived(<<>>, <<>>, starts) /\ Coming(<<>>, <<>>, <<>>, starts)
  BY <1>1 DEF Arrived, Coming
<1> QED  BY <1>2, <1>3, <1>4 DEF Stream

\* A packet that is sent is the last of the stream, in one piece.
LEMMA StreamSend ==
  ASSUME NEW packets \in Seq(Packets), NEW pieces \in Seq(Pieces), NEW read \in Seq(Nat),
         NEW packet, Sound(packet), Stream(packets, pieces, read)
  PROVE  Stream(Append(packets, packet),
                Append(pieces, [words |-> Words(packet), first |-> TRUE]), read)
<1>1. PICK starts \in [1 .. Len(packets) + 1 -> Nat] :
        /\ Starts(packets, starts) /\ Arrived(packets, read, starts)
        /\ Coming(packets, pieces, read, starts)
  BY DEF Stream
<1> DEFINE n == Len(packets)
           m == Len(pieces)
           size == Len(Words(packet))
           piece == [words |-> Words(packet), first |-> TRUE]
           more == Append(packets, packet)
           cut  == Append(pieces, piece)
           next == [k \in 1 .. n + 2 |-> IF k <= n + 1 THEN starts[k] ELSE starts[n + 1] + size]
<1>2. /\ n \in Nat /\ m \in Nat /\ Len(read) \in Nat /\ size \in Nat /\ size > 0
      /\ Words(packet) \in Seq(Nat) /\ packet \in Packets /\ piece \in Pieces
  BY WordsAre DEF Sound, Pieces
<1>3. /\ Len(more) = n + 1 /\ more[n + 1] = packet /\ more \in Seq(Packets)
      /\ \A k \in 1 .. n : more[k] = packets[k]
  BY <1>2, AppendProperties
<1>4. /\ Len(cut) = m + 1 /\ cut[m + 1] = piece /\ cut # <<>>
      /\ \A j \in 1 .. m : cut[j] = pieces[j]
  BY <1>2, AppendProperties
<1>5. /\ next \in [1 .. (n + 1) + 1 -> Nat]
      /\ \A k \in 1 .. n + 1 : next[k] = starts[k]
      /\ next[n + 2] = starts[n + 1] + size
      /\ \A k \in 1 .. n + 1 : starts[k] \in Nat
      /\ n + 1 \in 1 .. n + 1 /\ \A k \in 1 .. n : k \in 1 .. n + 1 /\ k + 1 \in 1 .. n + 1
  <2>1. \A k \in 1 .. n + 1 : starts[k] \in Nat
    BY <1>1
  <2>2. /\ n + 1 \in 1 .. n + 1 /\ (n + 1) + 1 = n + 2 /\ n + 1 <= n + 1
        /\ \A k \in 1 .. n : k \in 1 .. n + 1 /\ k + 1 \in 1 .. n + 1
        /\ \A k \in 1 .. n + 1 : k \in 1 .. n + 2 /\ k <= n + 1
        /\ n + 2 \in 1 .. n + 2 /\ ~ (n + 2 <= n + 1)
    BY <1>2
  <2>3. \A k \in 1 .. n + 2 : k <= n + 1 => k \in 1 .. n + 1
    BY <1>2
  <2> HIDE DEF n
  <2>4. /\ \A k \in 1 .. n + 1 : next[k] = starts[k]
        /\ next[n + 2] = starts[n + 1] + size
    BY <2>2
  <2>5. \A k \in 1 .. n + 2 : (IF k <= n + 1 THEN starts[k] ELSE starts[n + 1] + size) \in Nat
    BY <1>2, <2>1, <2>2, <2>3
  <2> QED  BY <2>1, <2>2, <2>4, <2>5
<1>6. piece.words = Words(packet) /\ piece.first = TRUE
  OBVIOUS
<1> HIDE DEF n, m, size, piece, more, cut, next
<1>7. Starts(more, next)
  <2>1. next[1] = 0
    BY <1>1, <1>2, <1>5 DEF Starts
  <2>2. \A k \in 1 .. Len(more) : next[k + 1] = next[k] + Len(Words(more[k]))
    <3> SUFFICES ASSUME NEW k \in 1 .. n + 1 PROVE next[k + 1] = next[k] + Len(Words(more[k]))
      BY <1>3
    <3>1. CASE k = n + 1
      BY <1>2, <1>3, <1>5, <3>1 DEF size
    <3>2. CASE k \in 1 .. n
      <4>1. starts[k + 1] = starts[k] + Len(Words(packets[k]))
        BY <1>1, <3>2 DEF Starts, n
      <4> QED  BY <1>2, <1>3, <1>5, <3>2, <4>1
    <3> QED  BY <1>2, <3>1, <3>2
  <2>3. \A k, l \in 1 .. Len(more) + 1 : k <= l => next[k] <= next[l]
    <3>1. \A k, l \in 1 .. n + 1 : k <= l => starts[k] <= starts[l]
      BY <1>1 DEF Starts, n
    <3>2. \A k \in 1 .. n + 2 : k \in 1 .. n + 1 \/ k = n + 2
      BY <1>2
    <3>3. \A k \in 1 .. n + 1 : k <= n + 1
      BY <1>2
    <3>4. \A k \in 1 .. n + 1 : next[k] <= next[n + 2] /\ ~ (n + 2 <= k)
      <4> TAKE k \in 1 .. n + 1
      <4>1. starts[k] <= starts[n + 1] /\ starts[k] \in Nat /\ starts[n + 1] \in Nat
        BY <1>5, <3>1, <3>3
      <4>2. next[k] = starts[k] /\ next[n + 2] = starts[n + 1] + size
        BY <1>5
      <4>3. k \in Nat /\ k <= n + 1
        BY <1>2
      <4> QED  BY <1>2, <4>1, <4>2, <4>3
    <3>5. next[n + 2] <= next[n + 2]
      BY <1>2, <1>5
    <3> TAKE k, l \in 1 .. Len(more) + 1
    <3>6. k \in 1 .. n + 2 /\ l \in 1 .. n + 2
      BY <1>2, <1>3
    <3>7. CASE k = n + 2
      <4>1. k <= l => l = n + 2
        BY <1>2, <3>6, <3>7
      <4> QED  BY <3>5, <3>7, <4>1
    <3>8. CASE k \in 1 .. n + 1 /\ l = n + 2
      BY <3>4, <3>8
    <3>9. CASE k \in 1 .. n + 1 /\ l \in 1 .. n + 1
      BY <1>5, <3>1, <3>9
    <3> QED  BY <3>2, <3>6, <3>7, <3>8, <3>9
  <2> QED  BY <2>1, <2>2, <2>3 DEF Starts
<1>8. starts[n + 1] >= Len(read)
  <2>1. CASE m = 0
    BY <1>1, <1>2, <1>5, <2>1 DEF Coming, n, m
  <2>2. CASE m > 0
    <3>1. LET k == (n - m) + 1
          IN k \in 1 .. n /\ PieceOf(pieces[1], packets[k], Len(read) - starts[k])
      BY <1>1, <1>2, <2>2 DEF Coming, n, m
    <3>2. PICK k \in 1 .. n : Len(read) - starts[k] < Len(Words(packets[k]))
      BY <3>1 DEF PieceOf
    <3>3. /\ starts[k + 1] = starts[k] + Len(Words(packets[k]))
          /\ starts[k + 1] <= starts[n + 1]
      <4>1. k + 1 \in 1 .. n + 1 /\ n + 1 \in 1 .. n + 1 /\ k + 1 <= n + 1
        BY <1>2
      <4>2. \A i, l \in 1 .. n + 1 : i <= l => starts[i] <= starts[l]
        BY <1>1 DEF Starts, n
      <4>3. starts[k + 1] = starts[k] + Len(Words(packets[k]))
        BY <1>1 DEF Starts, n
      <4> QED  BY <4>1, <4>2, <4>3
    <3>4. starts[k] \in Nat /\ starts[k + 1] \in Nat /\ starts[n + 1] \in Nat
      BY <1>5
    <3> QED  BY <1>2, <3>2, <3>3, <3>4
  <2> QED  BY <1>2, <2>1, <2>2
<1>9. Arrived(more, read, next)
  <2> SUFFICES ASSUME NEW k \in 1 .. n + 1, NEW i \in 1 .. Len(Words(more[k])),
                      next[k] + i <= Len(read)
               PROVE  read[next[k] + i] = Words(more[k])[i]
    BY <1>3 DEF Arrived
  <2>0. k \in 1 .. n \/ k = n + 1
    BY <1>2
  <2>1. CASE k = n + 1
    <3>1. i \in Nat /\ i > 0
      OBVIOUS
    <3>2. next[k] = starts[n + 1] /\ starts[n + 1] \in Nat
      BY <1>5, <2>1
    <3>3. ~ (next[k] + i <= Len(read))
      BY <1>2, <1>8, <3>1, <3>2
    <3> QED  BY <3>3
  <2>2. CASE k \in 1 .. n
    <3>1. next[k] = starts[k] /\ more[k] = packets[k]
      BY <1>3, <1>5, <2>2
    <3>2. \A j \in 1 .. Len(Words(packets[k])) :
            starts[k] + j <= Len(read) => read[starts[k] + j] = Words(packets[k])[j]
      BY <1>1, <2>2 DEF Arrived, n
    <3> QED  BY <3>1, <3>2
  <2> QED  BY <2>0, <2>1, <2>2
<1>10. Coming(more, cut, read, next)
  <2>1. m <= n /\ (n + 1) - (m + 1) = n - m /\ n - m + 1 \in 1 .. n + 1
    BY <1>1, <1>2 DEF Coming, n, m
  <2>2. next[(n - m) + 1] = starts[(n - m) + 1] /\ starts[(n - m) + 1] <= Len(read)
    BY <1>1, <1>5, <2>1 DEF Coming, n, m
  <2>3. \A j \in 1 .. m + 1 :
          PieceOf(cut[j], more[(n - m) + j], IF j = 1 THEN Len(read) - next[(n - m) + j] ELSE 0)
    <3> TAKE j \in 1 .. m + 1
    <3>1. CASE j = m + 1
      <4>1. (n - m) + j = n + 1 /\ (j = 1 => m = 0)
        BY <1>2, <3>1
      <4>2. m = 0 => Len(read) = starts[n + 1]
        BY <1>1, <1>2 DEF Coming, n, m
      <4>3. m = 0 => Len(read) - next[n + 1] = 0
        BY <1>2, <1>5, <4>2
      <4>4. PieceOf(piece, packet, 0)
        BY <1>2, <1>6 DEF PieceOf, size
      <4> QED  BY <1>3, <1>4, <3>1, <4>1, <4>3, <4>4
    <3>2. CASE j \in 1 .. m
      <4>1. (n - m) + j \in 1 .. n
        BY <1>2, <2>1, <3>2
      <4>2. PieceOf(pieces[j], packets[(n - m) + j],
                    IF j = 1 THEN Len(read) - starts[(n - m) + j] ELSE 0)
        BY <1>1, <3>2 DEF Coming, n, m
      <4>3. cut[j] = pieces[j] /\ more[(n - m) + j] = packets[(n - m) + j]
        BY <1>3, <1>4, <3>2, <4>1
      <4>4. next[(n - m) + j] = starts[(n - m) + j]
        BY <1>5, <4>1
      <4> QED  BY <4>2, <4>3, <4>4
    <3> QED  BY <1>2, <3>1, <3>2
  <2> QED  BY <1>2, <1>3, <1>4, <2>1, <2>2, <2>3 DEF Coming
<1> QED  BY <1>3, <1>5, <1>7, <1>9, <1>10 DEF Stream, more, cut, piece

\* left is what is in transit after count words of the first piece were read;
\* a header is read whole.
Cut(pieces, count, left) ==
  /\ count \in 1 .. Len(pieces[1].words)
  /\ pieces[1].first => count >= HeaderLen \/ count = Len(pieces[1].words)
  /\ left \in Seq(Pieces)
  /\ count = Len(pieces[1].words) =>
       /\ Len(left) = Len(pieces) - 1
       /\ \A j \in 1 .. Len(left) : left[j] = pieces[j + 1]
  /\ count < Len(pieces[1].words) =>
       /\ Len(left) = Len(pieces)
       /\ \A j \in 2 .. Len(left) : left[j] = pieces[j]
       /\ left[1].first = FALSE /\ Len(left[1].words) = Len(pieces[1].words) - count
       /\ \A i \in 1 .. Len(left[1].words) : left[1].words[i] = pieces[1].words[count + i]

\* more is what was read after that.
Taken(pieces, count, read, more) ==
  /\ Len(more) = Len(read) + count
  /\ \A i \in 1 .. Len(read) : more[i] = read[i]
  /\ \A i \in 1 .. count : more[Len(read) + i] = pieces[1].words[i]

\* Reading the first words in transit: they are the next of their packet, and
\* what is left of their piece follows.
LEMMA StreamRead ==
  ASSUME NEW packets \in Seq(Packets), NEW pieces \in Seq(Pieces), NEW read \in Seq(Nat),
         AllSound(packets), Stream(packets, pieces, read), pieces # <<>>,
         NEW count, NEW left, NEW more \in Seq(Nat),
         Cut(pieces, count, left), Taken(pieces, count, read, more)
  PROVE  Stream(packets, left, more)
<1>1. PICK starts :
        /\ starts \in [1 .. Len(packets) + 1 -> Nat]
        /\ Starts(packets, starts) /\ Arrived(packets, read, starts)
        /\ Coming(packets, pieces, read, starts)
  BY DEF Stream
<1> DEFINE n == Len(packets)
           m == Len(pieces)
           q == (n - m) + 1
           W == Words(packets[q])
           words == pieces[1].words
           size == Len(W)
           rest == Len(words)
           had == Len(read)
           has == Len(more)
           at == starts[q]
           end == starts[q + 1]
           got == had - at
<1>2. /\ n \in Nat /\ m \in Nat /\ m > 0 /\ had \in Nat /\ has \in Nat
      /\ words \in Seq(Nat) /\ rest \in Nat
      /\ count \in Nat /\ count > 0 /\ count <= rest /\ has = had + count
  <2>1. 1 \in 1 .. m
    OBVIOUS
  <2>2. pieces[1] \in Pieces
    BY <2>1, ElementOfSeq
  <2>3. words \in Seq(Nat)
    BY <2>2 DEF Pieces
  <2>4. count \in 1 .. rest /\ has = had + count
    BY DEF Cut, Taken
  <2> QED  BY <2>1, <2>3, <2>4
<1>3. m <= n /\ q \in 1 .. n /\ q \in Nat
  BY <1>1, <1>2 DEF Coming
<1> HIDE DEF n, m, q, W, words, size, rest, had, has
<1>4. /\ \A k \in 1 .. n + 1 : starts[k] \in Nat
      /\ q \in 1 .. n + 1 /\ q + 1 \in 1 .. n + 1
      /\ at \in Nat /\ end \in Nat
  <2>1. \A k \in 1 .. n + 1 : starts[k] \in Nat
    BY <1>1 DEF n
  <2> QED  BY <1>2, <1>3, <2>1
<1>5. W \in Seq(Nat) /\ size \in Nat
  BY <1>3, WordsAre DEF W, n, size, AllSound
<1>6. at <= had /\ PieceOf(pieces[1], packets[q], got)
  <2>1. 1 \in 1 .. m /\ (n - m) + 1 = q
    BY <1>2 DEF q
  <2> QED  BY <1>1, <2>1 DEF Coming, n, m, had
<1>7. got < size /\ rest = size - got
  BY <1>6 DEF PieceOf, W, words, size, rest
<1>8. end = at + size
  BY <1>1, <1>3 DEF Starts, n, W, size
<1> HIDE DEF at, end
<1>9. got \in Nat /\ had = at + got /\ has = (at + got) + count
  BY <1>2, <1>4, <1>6
<1> HIDE DEF got
<1>10. \A i \in 1 .. rest : words[i] = W[got + i]
  BY <1>6 DEF PieceOf, words, W, rest
<1>11. \A k, l \in 1 .. n + 1 : k <= l => starts[k] <= starts[l]
  BY <1>1 DEF Starts, n
<1>12. Arrived(packets, more, starts)
  <2> SUFFICES ASSUME NEW k \in 1 .. n, NEW i \in 1 .. Len(Words(packets[k])),
                      starts[k] + i <= Len(more)
               PROVE  more[starts[k] + i] = Words(packets[k])[i]
    BY DEF Arrived, n
  <2> DEFINE from == starts[k]
             to   == starts[k + 1]
             long == Len(Words(packets[k]))
  <2>1. /\ k + 1 \in 1 .. n + 1 /\ k \in 1 .. n + 1 /\ k \in Nat
        /\ from \in Nat /\ to \in Nat
    BY <1>2, <1>4
  <2>2. long \in Nat /\ to = from + long
    <3>1. Words(packets[k]) \in Seq(Nat)
      BY WordsAre DEF AllSound, n
    <3> QED  BY <1>1, <3>1 DEF Starts, n
  <2>3. from + i <= has /\ i \in Nat /\ i > 0 /\ i <= long
    BY <2>2 DEF has
  <2>4. from + i <= had => read[from + i] = Words(packets[k])[i]
    BY <1>1 DEF Arrived, n, had
  <2> HIDE DEF from, to, long
  <2>5. CASE from + i <= had
    <3>1. from + i \in 1 .. had
      BY <1>2, <2>1, <2>3, <2>5
    <3>2. read[from + i] = Words(packets[k])[i]
      BY <2>4, <2>5
    <3> QED  BY <3>1, <3>2 DEF Taken, had, from
  <2>6. CASE from + i > had
    <3>1. ~ (k < q)
      <4>1. k < q => to <= at
        BY <1>2, <1>3, <1>4, <1>11, <2>1 DEF to, at
      <4> QED  BY <1>2, <1>4, <1>9, <2>1, <2>2, <2>3, <2>6, <4>1
    <3>2. ~ (k > q)
      <4>1. k > q => end <= from
        BY <1>2, <1>3, <1>4, <1>11, <2>1 DEF end, from
      <4>2. has <= end
        BY <1>2, <1>4, <1>5, <1>7, <1>8, <1>9
      <4> QED  BY <1>2, <1>4, <2>1, <2>3, <4>1, <4>2
    <3>3. k = q
      BY <1>3, <2>1, <3>1, <3>2
    <3>4. from = at
      BY <3>3 DEF from, at
    <3>5. /\ i - got \in 1 .. count /\ i - got \in 1 .. rest
          /\ from + i = had + (i - got) /\ got + (i - got) = i
      BY <1>2, <1>4, <1>9, <2>3, <2>6, <3>4
    <3>6. more[had + (i - got)] = words[i - got]
      BY <3>5 DEF words, Taken, had
    <3>7. words[i - got] = W[got + (i - got)]
      BY <1>10, <3>5
    <3>8. more[from + i] = W[i]
      BY <3>5, <3>6, <3>7
    <3> QED  BY <3>3, <3>8 DEF W, from
  <2> QED  BY <1>2, <2>1, <2>3, <2>5, <2>6
<1>13. \A j \in 2 .. m : PieceOf(pieces[j], packets[(n - m) + j], 0)
  <2> TAKE j \in 2 .. m
  <2>1. j \in 1 .. m /\ j # 1
    BY <1>2
  <2> QED  BY <1>1, <2>1 DEF Coming, n, m
<1>14. CASE count = rest
  <2>1. /\ Len(left) = m - 1 /\ \A j \in 1 .. m - 1 : left[j] = pieces[j + 1]
        /\ left \in Seq(Pieces)
    BY <1>14 DEF words, m, Cut, rest
  <2>2. has = end
    BY <1>2, <1>4, <1>5, <1>7, <1>8, <1>9, <1>14
  <2>3. (n - (m - 1)) + 1 = q + 1 /\ m - 1 <= n /\ m - 1 \in Nat
    BY <1>2, <1>3 DEF q
  <2>4. left = <<>> => q + 1 = n + 1
    <3>1. left = <<>> => m - 1 = 0
      BY <2>1
    <3> QED  BY <1>2, <3>1 DEF q
  <2>5. \A j \in 1 .. m - 1 :
          PieceOf(left[j], packets[(n - (m - 1)) + j],
                  IF j = 1 THEN Len(more) - starts[(n - (m - 1)) + j] ELSE 0)
    <3> TAKE j \in 1 .. m - 1
    <3>1. j + 1 \in 2 .. m /\ (n - (m - 1)) + j = (n - m) + (j + 1)
      BY <1>2
    <3>2. PieceOf(left[j], packets[(n - (m - 1)) + j], 0)
      BY <1>13, <2>1, <3>1
    <3>3. j = 1 => (n - (m - 1)) + j = q + 1
      BY <2>3
    <3>4. has - end = 0
      BY <1>4, <2>2
    <3>5. j = 1 => Len(more) - starts[(n - (m - 1)) + j] = 0
      BY <3>3, <3>4 DEF end, has
    <3> QED  BY <3>2, <3>5
  <2>6. end <= has
    BY <1>4, <2>2
  <2>7. Coming(packets, left, more, starts)
    <3>1. starts[(n - (m - 1)) + 1] <= Len(more)
      BY <2>3, <2>6 DEF end, has
    <3>2. left = <<>> => Len(more) = starts[n + 1]
      BY <2>2, <2>4 DEF end, has
    <3> QED  BY <2>1, <2>3, <2>5, <3>1, <3>2 DEF Coming, n
  <2> QED  BY <1>1, <1>12, <2>7 DEF Stream
<1>15. CASE count < rest
  <2>1. /\ Len(left) = m /\ \A j \in 2 .. m : left[j] = pieces[j]
        /\ left[1].first = FALSE /\ Len(left[1].words) = rest - count
        /\ \A i \in 1 .. Len(left[1].words) : left[1].words[i] = words[count + i]
    BY <1>15 DEF words, m, Cut, rest
  <2>2. left # <<>>
    BY <1>2, <2>1
  <2>3. has - at = got + count /\ at <= has
    BY <1>2, <1>4, <1>9
  <2>4. got + count >= HeaderLen
    <3>1. got = 0 => count >= HeaderLen \/ count = rest
      BY <1>6 DEF PieceOf, Cut, rest, words
    <3>2. got = 0 \/ got >= HeaderLen
      BY <1>6 DEF PieceOf
    <3> QED  BY <1>2, <1>9, <1>15, <3>1, <3>2
  <2>5. PieceOf(left[1], packets[q], got + count)
    <3>1. /\ got + count < size /\ got + count # 0
          /\ rest - count = size - (got + count)
      BY <1>2, <1>5, <1>7, <1>9, <1>15
    <3>2. \A i \in 1 .. rest - count : left[1].words[i] = W[(got + count) + i]
      <4> TAKE i \in 1 .. rest - count
      <4>1. count + i \in 1 .. rest /\ (got + count) + i = got + (count + i)
        BY <1>2, <1>9, <1>15
      <4> QED  BY <1>10, <2>1, <4>1
    <3> QED  BY <2>1, <2>4, <3>1, <3>2 DEF PieceOf, W, size
  <2>6. \A j \in 1 .. m :
          PieceOf(left[j], packets[(n - m) + j],
                  IF j = 1 THEN Len(more) - starts[(n - m) + j] ELSE 0)
    <3> TAKE j \in 1 .. m
    <3>1. CASE j = 1
      <4>1. (n - m) + j = q /\ Len(more) - starts[q] = got + count
        BY <2>3, <3>1 DEF q, has, at
      <4> QED  BY <2>5, <3>1, <4>1
    <3>2. CASE j \in 2 .. m
      <4>1. j # 1
        BY <1>2, <3>2
      <4> QED  BY <1>13, <2>1, <3>2, <4>1
    <3> QED  BY <1>2, <3>1, <3>2
  <2>7. Coming(packets, left, more, starts)
    <3>1. starts[(n - m) + 1] <= Len(more)
      BY <2>3 DEF q, has, at
    <3> QED  BY <1>3, <2>1, <2>2, <2>6, <3>1 DEF Coming, n
  <2> QED  BY <1>1, <1>12, <2>7 DEF Stream
<1> QED  BY <1>2, <1>14, <1>15

\* The packet mars unpacks next: what was read begins with its words, and is
\* at least its header.
LEMMA StreamNext ==
  ASSUME NEW packets \in Seq(Packets), NEW pieces \in Seq(Pieces), NEW read \in Seq(Nat),
         AllSound(packets), Stream(packets, pieces, read), read # <<>>
  PROVE  /\ packets # <<>>
         /\ Len(read) < Len(Words(packets[1])) => pieces # <<>> /\ Len(read) >= HeaderLen
         /\ \A i \in 1 .. Len(Words(packets[1])) :
              i <= Len(read) => read[i] = Words(packets[1])[i]
<1>1. PICK starts :
        /\ starts \in [1 .. Len(packets) + 1 -> Nat]
        /\ Starts(packets, starts) /\ Arrived(packets, read, starts)
        /\ Coming(packets, pieces, read, starts)
  BY DEF Stream
<1> DEFINE n == Len(packets)
           m == Len(pieces)
           q == (n - m) + 1
           W == Words(packets[1])
           size == Len(W)
           had == Len(read)
           at == starts[q]
<1>2. n \in Nat /\ m \in Nat /\ had \in Nat /\ had > 0 /\ m <= n
  BY <1>1 DEF Coming
<1>3. pieces = <<>> <=> m = 0
  OBVIOUS
<1> HIDE DEF n, m, q, W, size, had, at
<1>4. starts[1] = 0 /\ \A k \in 1 .. n + 1 : starts[k] \in Nat
  BY <1>1 DEF Starts, n
<1>5. at \in Nat
  BY <1>2, <1>4 DEF q, at
<1>6. m = 0 => had = at
  <2>1. m = 0 => q = n + 1
    BY <1>2 DEF q
  <2> QED  BY <1>1, <1>3, <2>1 DEF Coming, n, had, at
<1>7. n > 0
  <2>1. n = 0 => q = 1 /\ m = 0
    BY <1>2 DEF q
  <2> QED  BY <1>2, <1>4, <1>6, <2>1 DEF at
<1>8. size \in Nat /\ starts[2] = size /\ 1 \in 1 .. n /\ 2 \in 1 .. n + 1
  <2>1. 1 \in 1 .. n /\ 2 \in 1 .. n + 1 /\ 1 + 1 = 2
    BY <1>2, <1>7
  <2>2. W \in Seq(Nat)
    BY <2>1, WordsAre DEF W, AllSound, n
  <2>3. size \in Nat
    BY <2>2 DEF size
  <2>4. starts[1 + 1] = starts[1] + size
    BY <1>1, <2>1 DEF Starts, n, W, size
  <2> QED  BY <1>4, <2>1, <2>3, <2>4
<1>9. had < size => m > 0 /\ had >= HeaderLen
  <2>1. SUFFICES ASSUME had < size PROVE m > 0 /\ had >= HeaderLen
    OBVIOUS
  <2>2. ~ (2 <= q)
    <3>1. 2 <= q => q \in 1 .. n + 1
      BY <1>2 DEF q
    <3>2. 2 <= q => starts[2] <= at
      BY <1>1, <1>8, <3>1 DEF Starts, n, at
    <3>3. at <= had
      BY <1>1 DEF Coming, n, m, q, at, had
    <3> QED  BY <1>2, <1>5, <1>8, <2>1, <3>2, <3>3
  <2>3. q = 1 /\ m > 0
    BY <1>2, <1>7, <2>2 DEF q
  <2>4. PieceOf(pieces[1], packets[1], Len(read) - starts[1])
    <3>1. 1 \in 1 .. m /\ (n - m) + 1 = 1
      BY <1>2, <2>3 DEF q
    <3> QED  BY <1>1, <3>1 DEF Coming, n, m
  <2>5. had - 0 = 0 \/ had - 0 >= HeaderLen
    BY <1>4, <2>4 DEF PieceOf, had
  <2> QED  BY <1>2, <2>3, <2>5
<1>10. \A i \in 1 .. size : i <= had => read[i] = W[i]
  <2> TAKE i \in 1 .. size
  <2>1. starts[1] + i = i
    BY <1>4, <1>8
  <2> QED  BY <1>1, <1>8, <2>1 DEF Arrived, n, W, size, had
<1> QED  BY <1>3, <1>7, <1>9, <1>10 DEF n, W, size, had

\* rest is what follows the first size words read.
Behind(size, read, rest) ==
  /\ size <= Len(read) /\ Len(rest) = Len(read) - size
  /\ \A i \in 1 .. Len(rest) : rest[i] = read[size + i]

\* A packet that was unpacked is no longer in the stream; the others stay.
LEMMA StreamUnpack ==
  ASSUME NEW packets \in Seq(Packets), NEW pieces \in Seq(Pieces), NEW read \in Seq(Nat),
         AllSound(packets), Stream(packets, pieces, read), packets # <<>>,
         NEW rest \in Seq(Nat), Behind(Len(Words(packets[1])), read, rest)
  PROVE  Stream(Tail(packets), pieces, rest)
<1>1. PICK starts :
        /\ starts \in [1 .. Len(packets) + 1 -> Nat]
        /\ Starts(packets, starts) /\ Arrived(packets, read, starts)
        /\ Coming(packets, pieces, read, starts)
  BY DEF Stream
<1> DEFINE n == Len(packets)
           m == Len(pieces)
           q == (n - m) + 1
           size == Len(Words(packets[1]))
           had == Len(read)
           has == Len(rest)
           others == Tail(packets)
           next == [k \in 1 .. (n - 1) + 1 |-> starts[k + 1] - size]
<1>2. /\ n \in Nat /\ m \in Nat /\ n > 0 /\ m <= n /\ q \in 1 .. n + 1
      /\ had \in Nat /\ has \in Nat
  BY <1>1 DEF Coming
<1>3. /\ Len(others) = n - 1 /\ others \in Seq(Packets)
      /\ \A k \in 1 .. n - 1 : others[k] = packets[k + 1]
  BY HeadTailProperties
<1>4. next = [k \in 1 .. (n - 1) + 1 |-> starts[k + 1] - size]
  OBVIOUS
<1>5. pieces = <<>> <=> m = 0
  OBVIOUS
<1> HIDE DEF n, m, q, size, had, has, others, next
<1>6. starts[1] = 0 /\ \A k \in 1 .. n + 1 : starts[k] \in Nat
  BY <1>1 DEF Starts, n
<1>7. 1 \in 1 .. n /\ 2 \in 1 .. n + 1 /\ (n - 1) + 1 = n
  BY <1>2
<1>8. size \in Nat /\ starts[2] = size
  <2>1. Words(packets[1]) \in Seq(Nat)
    BY <1>7, WordsAre DEF AllSound, n
  <2>2. size \in Nat
    BY <2>1 DEF size
  <2>3. starts[1 + 1] = starts[1] + size
    BY <1>1, <1>7 DEF Starts, n, size
  <2> QED  BY <1>6, <2>2, <2>3
<1>9. size <= had /\ has = had - size /\ \A i \in 1 .. has : rest[i] = read[size + i]
  BY DEF Behind, size, had, has
<1>10. \A k \in 1 .. n : /\ next[k] = starts[k + 1] - size
                         /\ starts[k + 1] >= size /\ starts[k + 1] \in Nat
  <2> TAKE k \in 1 .. n
  <2>1. k + 1 \in 1 .. n + 1 /\ 2 <= k + 1 /\ k \in 1 .. (n - 1) + 1
    BY <1>2
  <2>2. starts[2] <= starts[k + 1]
    BY <1>1, <1>7, <2>1 DEF Starts, n
  <2>3. next[k] = starts[k + 1] - size
    BY <1>4, <2>1
  <2>4. starts[k + 1] \in Nat
    BY <1>6, <2>1
  <2> QED  BY <1>8, <2>2, <2>3, <2>4
<1>11. next \in [1 .. Len(others) + 1 -> Nat]
  <2>1. \A k \in 1 .. (n - 1) + 1 : starts[k + 1] - size \in Nat
    BY <1>7, <1>8, <1>10
  <2> QED  BY <1>3, <1>4, <2>1
<1>12. Starts(others, next)
  <2>1. next[1] = 0
    BY <1>7, <1>8, <1>10
  <2>2. \A k \in 1 .. n - 1 : next[k + 1] = next[k] + Len(Words(others[k]))
    <3> TAKE k \in 1 .. n - 1
    <3>1. k \in 1 .. n /\ k + 1 \in 1 .. n
      BY <1>2
    <3>2. starts[(k + 1) + 1] = starts[k + 1] + Len(Words(packets[k + 1]))
      BY <1>1, <3>1 DEF Starts, n
    <3>3. Words(packets[k + 1]) \in Seq(Nat)
      BY <3>1, WordsAre DEF AllSound, n
    <3>4. Len(Words(packets[k + 1])) \in Nat
      BY <3>3
    <3>5. next[k] = starts[k + 1] - size /\ next[k + 1] = starts[(k + 1) + 1] - size
      BY <1>10, <3>1
    <3>6. starts[k + 1] \in Nat /\ starts[(k + 1) + 1] \in Nat
      BY <1>10, <3>1
    <3> DEFINE from == starts[k + 1]
               to   == starts[(k + 1) + 1]
               long == Len(Words(packets[k + 1]))
    <3>7. to = from + long /\ next[k] = from - size /\ next[k + 1] = to - size
      BY <3>2, <3>5
    <3>8. from \in Nat /\ to \in Nat /\ long \in Nat /\ others[k] = packets[k + 1]
      BY <1>3, <3>4, <3>6
    <3> HIDE DEF from, to, long
    <3>9. next[k + 1] = next[k] + long
      BY <1>8, <3>7, <3>8
    <3> QED  BY <3>8, <3>9 DEF long
  <2>3. \A k, l \in 1 .. (n - 1) + 1 : k <= l => next[k] <= next[l]
    <3> TAKE k, l \in 1 .. (n - 1) + 1
    <3>1. /\ k \in 1 .. n /\ l \in 1 .. n /\ k + 1 \in 1 .. n + 1 /\ l + 1 \in 1 .. n + 1
          /\ k <= l => k + 1 <= l + 1
      BY <1>2
    <3>2. k <= l => starts[k + 1] <= starts[l + 1]
      BY <1>1, <3>1 DEF Starts, n
    <3>3. /\ next[k] = starts[k + 1] - size /\ next[l] = starts[l + 1] - size
          /\ starts[k + 1] \in Nat /\ starts[l + 1] \in Nat
      BY <1>10, <3>1
    <3> QED  BY <1>8, <3>2, <3>3
  <2> QED  BY <1>3, <2>1, <2>2, <2>3 DEF Starts
<1>13. Arrived(others, rest, next)
  <2> SUFFICES ASSUME NEW k \in 1 .. n - 1, NEW i \in 1 .. Len(Words(others[k])),
                      next[k] + i <= has
               PROVE  rest[next[k] + i] = Words(others[k])[i]
    BY <1>3 DEF Arrived, has
  <2>1. k \in 1 .. n /\ k + 1 \in 1 .. n /\ others[k] = packets[k + 1] /\ i \in Nat /\ i > 0
    BY <1>2, <1>3
  <2> DEFINE from == starts[k + 1]
  <2>2. next[k] = from - size /\ from >= size /\ from \in Nat
    BY <1>10, <2>1
  <2>3. from + i <= had => read[from + i] = Words(packets[k + 1])[i]
    BY <1>1, <2>1 DEF Arrived, n, had
  <2> HIDE DEF from
  <2>4. /\ next[k] + i \in 1 .. has /\ size + (next[k] + i) = from + i /\ from + i <= had
    BY <1>2, <1>8, <1>9, <2>1, <2>2
  <2> QED  BY <1>9, <2>1, <2>3, <2>4
<1>14. Coming(others, pieces, rest, next)
  <2>1. q # 1
    <3>1. SUFFICES ASSUME q = 1 PROVE FALSE
      OBVIOUS
    <3>2. m = n /\ 1 \in 1 .. m /\ (n - m) + 1 = 1
      BY <1>2, <3>1 DEF q
    <3>3. PieceOf(pieces[1], packets[1], Len(read) - starts[1])
      BY <1>1, <3>2 DEF Coming, n, m
    <3>4. had - 0 < size
      BY <1>6, <3>3 DEF PieceOf, had, size
    <3> QED  BY <1>2, <1>8, <1>9, <3>4
  <2>2. /\ m <= n - 1 /\ n - 1 \in Nat /\ q - 1 \in 1 .. n /\ (q - 1) + 1 = q
        /\ ((n - 1) - m) + 1 = q - 1
    BY <1>2, <2>1 DEF q
  <2>3. next[q - 1] = starts[q] - size /\ starts[q] \in Nat
    BY <1>10, <2>2
  <2>4. next[q - 1] <= has
    <3>1. starts[q] <= had
      BY <1>1 DEF Coming, n, m, q, had
    <3> QED  BY <1>2, <1>8, <1>9, <2>3, <3>1
  <2>5. pieces = <<>> => has = next[(n - 1) + 1]
    <3>1. pieces = <<>> => q = n + 1 /\ q - 1 = (n - 1) + 1
      BY <1>2, <1>5 DEF q
    <3>2. pieces = <<>> => had = starts[n + 1]
      BY <1>1 DEF Coming, n, had
    <3> QED  BY <1>9, <2>3, <3>1, <3>2
  <2>6. \A j \in 1 .. m :
          PieceOf(pieces[j], others[((n - 1) - m) + j],
                  IF j = 1 THEN has - next[((n - 1) - m) + j] ELSE 0)
    <3> TAKE j \in 1 .. m
    <3>1. /\ ((n - 1) - m) + j \in 1 .. n - 1 /\ (((n - 1) - m) + j) + 1 = (n - m) + j
          /\ j = 1 => ((n - 1) - m) + j = q - 1 /\ (n - m) + j = q
      BY <1>2, <2>2 DEF q
    <3>2. others[((n - 1) - m) + j] = packets[(n - m) + j]
      BY <1>3, <3>1
    <3>3. PieceOf(pieces[j], packets[(n - m) + j],
                  IF j = 1 THEN Len(read) - starts[(n - m) + j] ELSE 0)
      BY <1>1 DEF Coming, n, m
    <3>4. has - (starts[q] - size) = had - starts[q]
      BY <1>2, <1>8, <1>9, <2>3
    <3>5. j = 1 => has - next[((n - 1) - m) + j] = Len(read) - starts[(n - m) + j]
      BY <2>3, <3>1, <3>4 DEF had
    <3> QED  BY <3>2, <3>3, <3>5
  <2> QED  BY <1>3, <2>2, <2>4, <2>5, <2>6 DEF Coming, m, has
<1> QED  BY <1>11, <1>12, <1>13, <1>14 DEF Stream, others

-----------------------------------------------------------------------------
(* Types: for a connection that is Paced, and for one that is not.          *)

\* What __unpack_test finds in what was read.
LEMMA Tested ==
  ASSUME NEW packed \in Seq(Nat), packed # <<>>, NEW got \in UnpackTest(packed)
  PROVE  \/ /\ Len(packed) = 1
            /\ got.ret = "ok" /\ got.seq = NoopId /\ got.package = 1
         \/ Len(packed) = 2 /\ got.ret \in {"continue", "false"}
         \/ /\ Len(packed) >= HeaderLen
            /\ packed[2] \in Nat /\ packed[3] \in Nat
            /\ got.seq = packed[2] /\ got.package = packed[3] + HeaderLen
            /\ got.ret = "false" => got.package > MaxPackage
            /\ got.ret = "continue" => got.package > Len(packed)
            /\ got.ret = "ok" => got.package <= Len(packed)
<1>1. Len(packed) \in Nat /\ Len(packed) > 0
  OBVIOUS
<1>2. CASE Len(packed) = 1
  BY <1>2 DEF UnpackTest
<1>3. CASE Len(packed) = 2
  <2>1. UnpackTest(packed)
          = {[ret |-> r, seq |-> 0, package |-> 0] : r \in {"continue", "false"}}
    BY <1>3 DEF UnpackTest
  <2>2. got.ret \in {"continue", "false"}
    BY <2>1
  <2> QED  BY <1>3, <2>2
<1>4. CASE Len(packed) >= HeaderLen
  <2> DEFINE package == packed[3] + HeaderLen
             ret == IF package > MaxPackage THEN "false"
                    ELSE IF package > Len(packed) THEN "continue" ELSE "ok"
  <2>1. got = [ret |-> ret, seq |-> packed[2], package |-> package]
    BY <1>4 DEF UnpackTest
  <2>2. packed[2] \in Nat /\ packed[3] \in Nat /\ package \in Nat /\ MaxPackage \in Nat
    <3>1. 2 \in 1 .. Len(packed) /\ 3 \in 1 .. Len(packed)
      BY <1>1, <1>4
    <3>2. packed[2] \in Nat /\ packed[3] \in Nat
      BY <3>1, ElementOfSeq
    <3>3. MaxPackage \in Nat
      BY StreamAssumption
    <3> QED  BY <3>2, <3>3
  <2>3. /\ ret = "false" => package > MaxPackage
        /\ ret = "continue" => package > Len(packed)
        /\ ret = "ok" => package <= Len(packed)
    BY <1>1, <2>2
  <2> HIDE DEF package, ret
  <2>4. got.ret = ret /\ got.seq = packed[2] /\ got.package = package
    BY <2>1
  <2> QED  BY <1>4, <2>2, <2>3, <2>4 DEF package
<1>5. Len(packed) = 1 \/ Len(packed) = 2 \/ Len(packed) >= HeaderLen
  <2>1. \A len \in Nat : len > 0 => len = 1 \/ len = 2 \/ len >= HeaderLen
    OBVIOUS
  <2> QED  BY <1>1, <2>1
<1> QED  BY <1>2, <1>3, <1>4, <1>5

\* What the handlers are given is a packet.
LEMMA DataType ==
  ASSUME NEW packed \in Seq(Nat), NEW seq \in Nat,
         (Len(packed) >= HeaderLen /\ packed[3] + HeaderLen <= Len(packed)) \/ seq = NoopId
  PROVE  /\ KindOf(seq) \in Kinds
         /\ DataFor(KindOf(seq), packed) \in Seq(Nat)
<1>1. KindOf(seq) \in Kinds
  BY DEF KindOf, Kinds
<1>2. CASE KindOf(seq) = "noop"
  BY <1>1, <1>2 DEF DataFor
<1>3. CASE KindOf(seq) = "push"
  BY <1>1, <1>3 DEF DataFor
<1>4. CASE KindOf(seq) = "response"
  <2>1. Len(packed) \in Nat /\ packed[3] \in Nat /\ packed[3] + HeaderLen <= Len(packed)
    BY <1>4, 3 \in 1 .. Len(packed) DEF KindOf
  <2>2. \A i \in HeaderLen + 1 .. HeaderLen + packed[3] : packed[i] \in Nat
    BY <2>1
  <2>3. SubSeq(packed, HeaderLen + 1, HeaderLen + packed[3]) \in Seq(Nat)
    BY <2>1, <2>2, SubSeqProperties
  <2> QED  BY <1>1, <1>4, <2>3 DEF DataFor
<1> QED  BY <1>1, <1>2, <1>3, <1>4 DEF Kinds

\* What a reachable state of any connection has of types: an id for each send.
TypeInv == TypeOK /\ messageId <= FirstId + sends

\* A piece is taken for a packet of the type.
LEMMA EnterType ==
  ASSUME TypeOK, NEW packet \in Packets, NEW words \in Seq(Nat), Enter(packet, words)
  PROVE  /\ wire' \in Seq(Pieces) /\ inFlight' \in Seq(Packets)
         /\ sends' = sends + 1 /\ sends' \in 0 .. MaxSends /\ sends' \in Nat
         /\ UNCHANGED <<buf, waiting, handled, drops>>
<1>1. [words |-> words, first |-> TRUE] \in Pieces
  BY DEF Pieces
<1>2. wire \in Seq(Pieces) /\ inFlight \in Seq(Packets)
  BY DEF TypeOK, Pieces
<1>3. wire' \in Seq(Pieces) /\ inFlight' \in Seq(Packets)
  BY <1>1, <1>2, AppendProperties DEF Enter
<1>4. sends \in Nat /\ MaxSends \in Nat /\ sends < MaxSends /\ sends' = sends + 1
  BY StreamAssumption DEF TypeOK, Enter, MayEnter
<1> QED  BY <1>3, <1>4 DEF Enter

\* The packets of the three ways to send, and their words.
LEMMA SentTypes ==
  ASSUME NEW id \in Nat, NEW body \in Seq(Nat)
  PROVE  /\ [kind |-> "response", id |-> id, data |-> body] \in Packets
         /\ [kind |-> "noop", id |-> NoopId, data |-> <<>>] \in Packets
         /\ [kind |-> "push", id |-> id, data |-> body] \in Packets
         /\ LonglinkPack(id, body) \in Seq(Nat) /\ LonglinkPack(NoopId, <<>>) \in Seq(Nat)
         /\ ImMessage(id, body) \in Seq(Nat)
<1>1. ImMessage(id, body) \in Seq(Nat)
  BY MessageIs
<1>2. NoopId \in Nat /\ Beat \in Nat
  BY StreamAssumption
<1>3. {"noop", "push", "response"} \subseteq Kinds
  BY DEF Kinds
<1> QED  BY <1>1, <1>2, <1>3 DEF Packets, LonglinkPack

\* What is left in transit and what was read, after count words of a piece.
LEMMA ReadIs ==
  ASSUME wire \in Seq(Pieces), buf \in Seq(Nat), NEW count, Receive(count)
  PROVE  /\ wire # <<>> /\ buf' \in Seq(Nat) /\ wire' \in Seq(Pieces)
         /\ Paced => Cut(wire, count, wire') /\ Taken(wire, count, buf, buf')
<1> DEFINE piece == wire[1]
           words == piece.words
           len == Len(words)
           taken == SubSeq(words, 1, count)
           rest == SubSeq(words, count + 1, len)
           left == [words |-> rest, first |-> FALSE]
<1>1. wire # <<>> /\ Head(wire) = piece
  BY DEF Receive
<1>2. piece \in Pieces /\ words \in Seq(Nat) /\ len \in Nat
  <2>1. 1 \in 1 .. Len(wire)
    BY <1>1
  <2>2. wire[1] \in Pieces
    BY <2>1, ElementOfSeq
  <2> QED  BY <2>2 DEF Pieces
<1>3. /\ count \in 1 .. len
      /\ Paced /\ piece.first => count >= HeaderLen \/ rest = <<>>
      /\ buf' = buf \o taken
      /\ wire' = IF rest = <<>> THEN Tail(wire) ELSE <<left>> \o Tail(wire)
  BY <1>1 DEF Receive
<1> HIDE DEF words, len, taken, rest, left, piece
<1>4. count \in Nat /\ count > 0 /\ count <= len
  BY <1>2, <1>3
<1>5. /\ taken \in Seq(Nat) /\ Len(taken) = count
      /\ \A i \in 1 .. count : taken[i] = words[i]
  <2>1. count <= Len(words) /\ 0 <= count /\ 0 \in Nat
    BY <1>4 DEF len
  <2>2. /\ SubSeq(words, 0 + 1, count) \in Seq(Nat)
        /\ Len(SubSeq(words, 0 + 1, count)) = count - 0
        /\ \A i \in 1 .. count - 0 : SubSeq(words, 0 + 1, count)[i] = words[0 + i]
    BY <1>2, <1>4, <2>1, SliceIs
  <2>3. 0 + 1 = 1 /\ count - 0 = count /\ \A i \in 1 .. count : 0 + i = i
    BY <1>4
  <2> QED  BY <2>2, <2>3 DEF taken
<1>6. /\ rest \in Seq(Nat) /\ Len(rest) = len - count
      /\ \A i \in 1 .. Len(rest) : rest[i] = words[count + i]
  <2>1. len <= Len(words)
    BY <1>2 DEF len
  <2>2. /\ rest \in Seq(Nat) /\ Len(rest) = len - count
        /\ \A i \in 1 .. len - count : rest[i] = words[count + i]
    BY <1>2, <1>4, <2>1, SliceIs DEF rest
  <2> QED  BY <2>2
<1>7. rest = <<>> <=> count = len
  <2>1. Len(rest) = 0 <=> count = len
    BY <1>2, <1>4, <1>6
  <2> QED  BY <1>6, <2>1
<1>8. /\ buf' \in Seq(Nat) /\ Len(buf') = Len(buf) + count
      /\ \A i \in 1 .. Len(buf) + count :
           buf'[i] = IF i <= Len(buf) THEN buf[i] ELSE taken[i - Len(buf)]
  <2>1. /\ buf \o taken \in Seq(Nat)
        /\ Len(buf \o taken) = Len(buf) + Len(taken)
        /\ \A i \in 1 .. Len(buf) + Len(taken) :
             (buf \o taken)[i] = IF i <= Len(buf) THEN buf[i] ELSE taken[i - Len(buf)]
    BY <1>5, ConcatProperties
  <2> QED  BY <1>3, <1>5, <2>1
<1>9. Taken(wire, count, buf, buf')
  <2> DEFINE had == Len(buf)
  <2>1. had \in Nat
    OBVIOUS
  <2>2. /\ Len(buf') = had + count
        /\ \A i \in 1 .. had + count :
             buf'[i] = IF i <= had THEN buf[i] ELSE taken[i - had]
    BY <1>8
  <2> HIDE DEF had
  <2>3. \A i \in 1 .. had : i \in 1 .. had + count /\ i <= had
    BY <1>4, <2>1
  <2>4. \A i \in 1 .. count :
          had + i \in 1 .. had + count /\ ~ (had + i <= had) /\ (had + i) - had = i
    BY <1>4, <2>1
  <2>5. \A i \in 1 .. had : buf'[i] = buf[i]
    BY <2>2, <2>3
  <2>6. \A i \in 1 .. count : buf'[had + i] = words[i]
    BY <1>5, <2>2, <2>4
  <2> QED  BY <2>2, <2>5, <2>6 DEF Taken, had, words, piece
<1>10. /\ Tail(wire) \in Seq(Pieces) /\ Len(Tail(wire)) = Len(wire) - 1
       /\ \A j \in 1 .. Len(Tail(wire)) : Tail(wire)[j] = wire[j + 1]
  BY <1>1, HeadTailProperties
<1>11. left \in Pieces
  BY <1>6 DEF left, Pieces
<1>12. /\ <<left>> \o Tail(wire) \in Seq(Pieces)
       /\ Len(<<left>> \o Tail(wire)) = Len(wire)
       /\ (<<left>> \o Tail(wire))[1] = left
       /\ \A j \in 2 .. Len(wire) : (<<left>> \o Tail(wire))[j] = wire[j]
  <2> DEFINE n == Len(wire)
             tail == Tail(wire)
             head == <<left>>
  <2>1. n \in Nat /\ n > 0
    BY <1>1
  <2>2. head \in Seq(Pieces) /\ Len(head) = 1 /\ head[1] = left
    BY <1>11
  <2>3. tail \in Seq(Pieces) /\ Len(tail) = n - 1 /\ \A j \in 1 .. n - 1 : tail[j] = wire[j + 1]
    BY <1>10
  <2> HIDE DEF n, tail, head
  <2>4. /\ head \o tail \in Seq(Pieces)
        /\ Len(head \o tail) = Len(head) + Len(tail)
        /\ \A j \in 1 .. Len(head) + Len(tail) :
             (head \o tail)[j] = IF j <= Len(head) THEN head[j] ELSE tail[j - Len(head)]
    BY <2>2, <2>3, ConcatProperties
  <2>5. 1 + (n - 1) = n /\ 1 \in 1 .. n
        /\ \A j \in 2 .. n : /\ j \in 1 .. n /\ ~ (j <= 1)
                             /\ j - 1 \in 1 .. n - 1 /\ (j - 1) + 1 = j
    BY <2>1
  <2>6. Len(head \o tail) = n /\ (head \o tail)[1] = left
    BY <2>2, <2>3, <2>4, <2>5
  <2>7. \A j \in 2 .. n : (head \o tail)[j] = wire[j]
    BY <2>2, <2>3, <2>4, <2>5
  <2> QED  BY <2>4, <2>6, <2>7 DEF n, tail, head
<1>13. wire' \in Seq(Pieces)
  BY <1>3, <1>10, <1>12
<1>14. ASSUME Paced PROVE Cut(wire, count, wire')
  <2>1. CASE count = len
    <3>1. wire' = Tail(wire)
      BY <1>3, <1>7, <2>1
    <3>2. ~ (count < len)
      BY <1>2, <1>4, <2>1
    <3> QED  BY <1>3, <1>10, <2>1, <3>1, <3>2 DEF Cut, len, words, piece
  <2>2. CASE count < len
    <3>1. rest # <<>> /\ count # len
      BY <1>2, <1>4, <1>7, <2>2
    <3>2. wire' = <<left>> \o Tail(wire)
      BY <1>3, <3>1
    <3>3. wire'[1].first = FALSE /\ wire'[1].words = rest
      BY <1>12, <3>2 DEF left
    <3>4. piece.first => count >= HeaderLen
      BY <1>3, <1>14, <3>1
    <3>5. /\ Len(wire') = Len(wire) /\ \A j \in 2 .. Len(wire') : wire'[j] = wire[j]
      BY <1>12, <3>2
    <3> QED  BY <1>3, <1>6, <1>13, <3>1, <3>3, <3>4, <3>5 DEF Cut, len, words, piece
  <2> QED  BY <1>2, <1>4, <2>1, <2>2
<1> QED  BY <1>1, <1>8, <1>9, <1>13, <1>14

\* What longlink_unpack leaves, and what it hands on, is of the types.
LEMMA UnpackType ==
  ASSUME TypeOK, LonglinkUnpack
  PROVE  /\ wire' \in Seq(Pieces) /\ buf' \in Seq(Nat) /\ waiting' \in BOOLEAN
         /\ inFlight' \in Seq(Packets) /\ handled' \in Seq(Packets)
         /\ UNCHANGED <<messageId, sends, drops>>
<1>1. /\ wire \in Seq(Pieces) /\ buf \in Seq(Nat) /\ waiting \in BOOLEAN
      /\ inFlight \in Seq(Packets) /\ handled \in Seq(Packets)
  BY DEF TypeOK, Pieces
<1>2. PICK got \in UnpackTest(buf) :
        \/ /\ got.ret = "ok"
           /\ handled' = Append(handled, [kind |-> KindOf(got.seq), id |-> got.seq,
                                          data |-> DataFor(KindOf(got.seq), buf)])
           /\ inFlight' = IF inFlight = <<>> THEN <<>> ELSE Tail(inFlight)
           /\ buf' = SubSeq(buf, got.package + 1, Len(buf))
           /\ UNCHANGED <<wire, waiting>>
        \/ /\ got.ret = "continue" /\ waiting' = TRUE
           /\ UNCHANGED <<wire, buf, inFlight, handled>>
        \/ /\ got.ret = "false" /\ Disconnected
           /\ UNCHANGED handled
  BY DEF LonglinkUnpack
<1>3. UNCHANGED <<messageId, sends, drops>> /\ buf # <<>>
  BY DEF LonglinkUnpack
<1>4. CASE got.ret = "ok"
  <2>1. /\ handled' = Append(handled, [kind |-> KindOf(got.seq), id |-> got.seq,
                                       data |-> DataFor(KindOf(got.seq), buf)])
        /\ inFlight' = IF inFlight = <<>> THEN <<>> ELSE Tail(inFlight)
        /\ buf' = SubSeq(buf, got.package + 1, Len(buf))
        /\ UNCHANGED <<wire, waiting>>
    BY <1>2, <1>4
  <2>2. /\ got.seq \in Nat /\ got.package \in Nat
        /\ \/ Len(buf) >= HeaderLen /\ buf[3] + HeaderLen <= Len(buf)
           \/ got.seq = NoopId
    <3>1. NoopId \in Nat
      BY StreamAssumption
    <3>2. \/ /\ Len(buf) = 1
             /\ got.seq = NoopId /\ got.package = 1
          \/ /\ Len(buf) >= HeaderLen
             /\ buf[2] \in Nat /\ buf[3] \in Nat
             /\ got.seq = buf[2] /\ got.package = buf[3] + HeaderLen
             /\ got.package <= Len(buf)
      BY <1>1, <1>3, <1>4, Tested
    <3> QED  BY <3>1, <3>2
  <2>3. [kind |-> KindOf(got.seq), id |-> got.seq, data |-> DataFor(KindOf(got.seq), buf)]
          \in Packets
    BY <1>1, <2>2, DataType DEF Packets
  <2>4. handled' \in Seq(Packets)
    BY <1>1, <2>1, <2>3, AppendProperties
  <2>5. inFlight' \in Seq(Packets)
    <3>1. CASE inFlight = <<>>
      BY <1>1, <2>1, <3>1
    <3>2. CASE inFlight # <<>>
      BY <1>1, <2>1, <3>2, HeadTailProperties
    <3> QED  BY <3>1, <3>2
  <2>6. buf' \in Seq(Nat)
    <3> DEFINE len == Len(buf)
               from == got.package + 1
    <3>1. len \in Nat /\ from \in Nat /\ from > 0 /\ \A i \in 1 .. len : buf[i] \in Nat
      BY <1>1, <2>2, ElementOfSeq
    <3>2. buf' = SubSeq(buf, from, len)
      BY <2>1
    <3> HIDE DEF len, from
    <3>3. \A i \in from .. len : i \in 1 .. len
      BY <3>1
    <3>4. \A i \in from .. len : buf[i] \in Nat
      BY <3>1, <3>3
    <3>5. from \in Int /\ len \in Int
      BY <3>1
    <3> QED  BY <3>2, <3>4, <3>5, SubSeqProperties
  <2> QED  BY <1>1, <1>3, <2>1, <2>4, <2>5, <2>6
<1>5. CASE got.ret = "continue"
  BY <1>1, <1>2, <1>3, <1>5
<1>6. CASE got.ret = "false"
  BY <1>1, <1>2, <1>3, <1>6, EmptySeq DEF Disconnected
<1> QED  BY <1>2, <1>4, <1>5, <1>6

\* Every step keeps the types.
LEMMA TypeStep ==
  ASSUME TypeInv, [Next]_vars
  PROVE  TypeInv'
<1>1. /\ TypeOK /\ messageId <= FirstId + sends
      /\ messageId \in Nat /\ sends \in Nat /\ FirstId \in Nat /\ MaxSends \in Nat
      /\ messageId >= FirstId /\ sends <= MaxSends
  BY StreamAssumption DEF TypeInv, TypeOK
<1>2. /\ wire \in Seq(Pieces) /\ buf \in Seq(Nat) /\ waiting \in BOOLEAN
      /\ inFlight \in Seq(Packets) /\ handled \in Seq(Packets)
      /\ drops \in 0 .. MaxDrops
  BY <1>1 DEF TypeOK, Pieces
<1>3. ASSUME NEW packet \in Packets, NEW words \in Seq(Nat), Enter(packet, words),
             messageId' \in {messageId, messageId + 1}
      PROVE  TypeInv'
  <2>1. /\ wire' \in Seq(Pieces) /\ inFlight' \in Seq(Packets)
        /\ sends' = sends + 1 /\ sends' \in 0 .. MaxSends /\ sends' \in Nat
        /\ UNCHANGED <<buf, waiting, handled, drops>>
    BY <1>1, <1>3, EnterType
  <2>2. messageId' \in FirstId .. FirstId + MaxSends /\ messageId' <= FirstId + sends'
    BY <1>1, <1>3, <2>1
  <2> QED  BY <1>2, <2>1, <2>2 DEF TypeInv, TypeOK, Pieces
<1>4. ASSUME NEW body \in Bodies, SendMessage(body) PROVE TypeInv'
  <2>1. body \in Seq(Nat)
    BY StreamAssumption
  <2> QED  BY <1>1, <1>3, <1>4, <2>1, SentTypes DEF SendMessage
<1>5. CASE SendNoop
  <2>1. <<>> \in Seq(Nat) /\ 0 \in Nat
    OBVIOUS
  <2> QED  BY <1>3, <1>5, <2>1, SentTypes DEF SendNoop
<1>6. ASSUME NEW id \in 1 .. PushEnd - 1, NEW body \in Bodies, ServerPush(id, body)
      PROVE  TypeInv'
  <2>1. body \in Seq(Nat) /\ id \in Nat
    BY StreamAssumption
  <2> QED  BY <1>3, <1>6, <2>1, SentTypes DEF ServerPush
<1>7. CASE Read
  <2>1. PICK count : Receive(count)
    BY <1>7 DEF Read
  <2>2. buf' \in Seq(Nat) /\ wire' \in Seq(Pieces)
    BY <1>2, <2>1, ReadIs
  <2>3. waiting' = FALSE /\ UNCHANGED <<messageId, inFlight, handled, sends, drops>>
    BY <2>1 DEF Receive
  <2> QED  BY <1>1, <2>2, <2>3 DEF TypeInv, TypeOK, Pieces
<1>8. CASE LonglinkUnpack
  BY <1>1, <1>8, UnpackType DEF TypeInv, TypeOK, Pieces
<1>9. CASE Drop
  <2>1. /\ wire' \in Seq(Pieces) /\ buf' \in Seq(Nat) /\ waiting' \in BOOLEAN
        /\ inFlight' \in Seq(Packets) /\ UNCHANGED <<messageId, handled, sends>>
    BY <1>9, EmptySeq DEF Drop, Disconnected
  <2>2. drops' \in 0 .. MaxDrops
    BY <1>2, <1>9, StreamAssumption DEF Drop
  <2> QED  BY <1>1, <2>1, <2>2 DEF TypeInv, TypeOK, Pieces
<1>10. CASE UNCHANGED vars
  BY <1>10 DEF TypeInv, TypeOK, vars
<1> QED  BY <1>4, <1>5, <1>6, <1>7, <1>8, <1>9, <1>10 DEF Next, AllQuiet

\* The initial state is of its type.
LEMMA TypeInit == ASSUME Init PROVE TypeInv
<1>1. /\ FirstId \in Nat /\ MaxSends \in Nat /\ MaxDrops \in Nat
      /\ messageId = FirstId /\ sends = 0 /\ drops = 0
  BY StreamAssumption DEF Init
<1>2. /\ messageId \in FirstId .. FirstId + MaxSends /\ messageId <= FirstId + sends
      /\ sends \in 0 .. MaxSends /\ drops \in 0 .. MaxDrops
  BY <1>1
<1> QED  BY <1>2, EmptySeq DEF Init, TypeInv, TypeOK

\* Whatever is cut and joined, and whatever a part of a header is taken for,
\* the handlers are given packets with an id and a body that was read.
THEOREM StreamTypeCorrect == Spec => []TypeOK
<1>1. TypeInv /\ [Next]_vars => TypeInv'
  BY TypeStep
<1>2. Init => TypeInv
  BY TypeInit
<1>3. TypeInv => TypeOK
  BY DEF TypeInv
<1> QED  BY <1>1, <1>2, <1>3, PTL DEF Spec

-----------------------------------------------------------------------------
(* A connection that is Paced.                                              *)

\* An id that is given to a message is that of no heartbeat and of no push.
LEMMA IdSound == ASSUME TypeInv, sends < MaxSends PROVE messageId \in FirstId .. NoopId - 1
<1>1. /\ messageId \in Nat /\ sends \in Nat /\ FirstId \in Nat /\ MaxSends \in Nat /\ NoopId \in Nat
      /\ messageId >= FirstId /\ messageId <= FirstId + sends
  BY StreamAssumption DEF TypeInv, TypeOK
<1>2. FirstId + MaxSends < NoopId
  BY StreamAssumption
<1> QED  BY <1>1, <1>2

\* Sending keeps the stream.
LEMMA EnterKeeps ==
  ASSUME Paced, TypeOK, StreamInv, NEW packet, Sound(packet), Enter(packet, Words(packet))
  PROVE  StreamInv'
<1>1. /\ wire \in Seq(Pieces) /\ inFlight \in Seq(Packets) /\ buf \in Seq(Nat)
      /\ packet \in Packets
  BY DEF TypeOK, Pieces, Sound
<1>2. /\ AllSound(inFlight) /\ Stream(inFlight, wire, buf)
      /\ Len(inFlight) > 1 => \A k \in 1 .. Len(inFlight) : ~ Alone(inFlight[k].kind)
  BY DEF StreamInv
<1>3. /\ inFlight' = Append(inFlight, packet)
      /\ wire' = Append(wire, [words |-> Words(packet), first |-> TRUE])
      /\ buf' = buf /\ waiting' = waiting
  BY DEF Enter
<1>4. /\ Len(inFlight') = Len(inFlight) + 1 /\ inFlight'[Len(inFlight) + 1] = packet
      /\ \A k \in 1 .. Len(inFlight) : inFlight'[k] = inFlight[k]
  BY <1>1, <1>3, AppendProperties
<1>5. wire' # <<>>
  <2> DEFINE piece == [words |-> Words(packet), first |-> TRUE]
  <2>1. piece \in Pieces
    BY WordsAre DEF Pieces
  <2>2. wire' = Append(wire, piece)
    BY <1>3
  <2> HIDE DEF piece
  <2> QED  BY <1>1, <2>1, <2>2, AppendProperties
<1>6. \A k \in 1 .. Len(inFlight') : k \in 1 .. Len(inFlight) \/ k = Len(inFlight) + 1
  <2>1. Len(inFlight) \in Nat
    BY <1>1
  <2> QED  BY <1>4, <2>1
<1>7. AllSound(inFlight')
  BY <1>2, <1>4, <1>6 DEF AllSound
<1>8. Len(inFlight') > 1 => \A k \in 1 .. Len(inFlight') : ~ Alone(inFlight'[k].kind)
  <2>1. SUFFICES ASSUME Len(inFlight') > 1
                 PROVE  \A k \in 1 .. Len(inFlight') : ~ Alone(inFlight'[k].kind)
    OBVIOUS
  <2>2. Len(inFlight) \in Nat /\ Len(inFlight) + 1 > 1 /\ DOMAIN inFlight = 1 .. Len(inFlight)
    BY <1>1, <1>4, <2>1
  <2>3. 1 \in 1 .. Len(inFlight)
    BY <2>2
  <2>4. \A k \in 1 .. Len(inFlight) : ~ Alone(packet.kind) /\ ~ Alone(inFlight[k].kind)
    BY <2>2 DEF Enter, MayEnter
  <2> QED  BY <1>4, <1>6, <2>3, <2>4
<1>9. Stream(inFlight', wire', buf')
  BY <1>1, <1>2, <1>3, StreamSend
<1> QED  BY <1>5, <1>7, <1>8, <1>9 DEF StreamInv

\* Reading keeps the stream.
LEMMA ReadKeeps ==
  ASSUME Paced, TypeOK, StreamInv, NEW count, Receive(count)
  PROVE  StreamInv'
<1>1. /\ wire \in Seq(Pieces) /\ inFlight \in Seq(Packets) /\ buf \in Seq(Nat)
  BY DEF TypeOK, Pieces
<1>2. /\ AllSound(inFlight) /\ Stream(inFlight, wire, buf)
      /\ Len(inFlight) > 1 => \A k \in 1 .. Len(inFlight) : ~ Alone(inFlight[k].kind)
  BY DEF StreamInv
<1>3. /\ wire # <<>> /\ buf' \in Seq(Nat)
      /\ Cut(wire, count, wire') /\ Taken(wire, count, buf, buf')
  BY <1>1, ReadIs
<1>4. Stream(inFlight, wire', buf')
  BY <1>1, <1>2, <1>3, StreamRead
<1>5. inFlight' = inFlight /\ waiting' = FALSE
  BY DEF Receive
<1> QED  BY <1>2, <1>4, <1>5 DEF StreamInv

\* A packet that is whole goes to its handler, and is what was sent.
LEMMA WholePacket ==
  ASSUME NEW packet, Sound(packet), NEW read \in Seq(Nat), Len(read) >= Len(Words(packet)),
         \A i \in 1 .. Len(Words(packet)) : read[i] = Words(packet)[i],
         packet.kind # "noop"
  PROVE  /\ KindOf(packet.id) = packet.kind
         /\ packet.kind = "response" => DataFor("response", read) = packet.data
         /\ packet.kind = "push" /\ Len(read) = Len(Words(packet)) =>
              DataFor("push", read) = Heard(packet).data
<1> DEFINE W == Words(packet)
           data == packet.data
           heard == Heard(packet).data
           size == Len(W)
           len == Len(data)
<1>1. /\ packet.id \in Nat /\ data \in Seq(Nat) /\ packet.kind \in {"push", "response"}
  BY DEF Sound, Packets, Kinds
<1>2. /\ W \in Seq(Nat) /\ size >= HeaderLen /\ W[3] = size - HeaderLen
      /\ packet.kind = "push" => W = heard
      /\ packet.kind = "response" =>
           size = HeaderLen + len /\ \A i \in 1 .. len : W[HeaderLen + i] = data[i]
  BY WordsAre
<1>3. /\ size \in Nat /\ len \in Nat /\ Len(read) \in Nat /\ Len(read) >= size
      /\ \A i \in 1 .. size : read[i] = W[i]
  BY <1>1, <1>2
<1> HIDE DEF W, data, heard, size, len
<1>4. KindOf(packet.id) = packet.kind
  <2>1. NoopId \in Nat /\ PushEnd \in Nat /\ FirstId \in Nat /\ PushEnd <= FirstId
        /\ FirstId < NoopId
    BY StreamAssumption
  <2>2. CASE packet.kind = "push"
    <3>1. packet.id \in 1 .. PushEnd - 1
      BY <2>2 DEF Sound
    <3>2. packet.id # NoopId /\ 0 < packet.id /\ packet.id < PushEnd
      BY <1>1, <2>1, <3>1
    <3> QED  BY <2>2, <3>2 DEF KindOf
  <2>3. CASE packet.kind = "response"
    <3>1. packet.id \in FirstId .. NoopId - 1
      BY <2>3 DEF Sound
    <3>2. packet.id # NoopId /\ ~ (packet.id < PushEnd)
      BY <1>1, <2>1, <3>1
    <3> QED  BY <2>3, <3>2 DEF KindOf
  <2> QED  BY <1>1, <2>2, <2>3
<1>5. CASE packet.kind = "response"
  <2>1. read[3] = len
    <3>1. 3 \in 1 .. size /\ (HeaderLen + len) - HeaderLen = len
      BY <1>2, <1>3
    <3> QED  BY <1>2, <1>3, <1>5, <3>1
  <2>2. DataFor("response", read) = SubSeq(read, HeaderLen + 1, HeaderLen + len)
    BY <2>1 DEF DataFor
  <2> DEFINE got == SubSeq(read, HeaderLen + 1, HeaderLen + len)
  <2>3. /\ got \in Seq(Nat) /\ Len(got) = len
        /\ \A i \in 1 .. len : got[i] = read[HeaderLen + i]
    <3>1. HeaderLen \in Nat /\ HeaderLen + len \in Nat /\ HeaderLen <= HeaderLen + len
          /\ HeaderLen + len <= Len(read) /\ (HeaderLen + len) - HeaderLen = len
      BY <1>2, <1>3, <1>5
    <3> DEFINE to == HeaderLen + len
    <3> HIDE DEF to
    <3>2. /\ SubSeq(read, HeaderLen + 1, to) \in Seq(Nat)
          /\ Len(SubSeq(read, HeaderLen + 1, to)) = to - HeaderLen
          /\ \A i \in 1 .. to - HeaderLen :
               SubSeq(read, HeaderLen + 1, to)[i] = read[HeaderLen + i]
      BY <3>1, SliceIs DEF to
    <3> QED  BY <3>1, <3>2 DEF to
  <2> HIDE DEF got
  <2>4. \A i \in 1 .. len : got[i] = data[i]
    <3> TAKE i \in 1 .. len
    <3>1. HeaderLen + i \in 1 .. size
      BY <1>2, <1>3, <1>5
    <3> QED  BY <1>2, <1>3, <1>5, <2>3, <3>1
  <2>5. got = data
    <3>1. Len(got) = Len(data) /\ \A i \in 1 .. Len(got) : got[i] = data[i]
      BY <2>3, <2>4 DEF len
    <3> QED  BY <1>1, <2>3, <3>1, SeqEqual
  <2> QED  BY <1>4, <1>5, <2>2, <2>5 DEF got, data
<1>6. CASE packet.kind = "push"
  <2>1. SUFFICES ASSUME Len(read) = size PROVE read = heard
    BY <1>4, <1>6 DEF DataFor, heard, size, W
  <2>2. \A i \in 1 .. Len(read) : read[i] = W[i]
    BY <1>3, <2>1
  <2>3. read = W
    BY <1>2, <2>1, <2>2, SeqEqual DEF size
  <2> QED  BY <1>2, <1>6, <2>3
<1> QED  BY <1>1, <1>5, <1>6

\* A whole packet is the next, and its words are taken off what was read.
Handed ==
  /\ inFlight # <<>>
  /\ handled' = Append(handled, Heard(Head(inFlight)))
  /\ inFlight' = Tail(inFlight)
  /\ Behind(Len(Words(inFlight[1])), buf, buf')
  /\ UNCHANGED <<wire, waiting>>

\* The rest of the next packet is still in transit.
Awaited ==
  /\ inFlight # <<>> /\ wire # <<>> /\ buf # <<>>
  /\ waiting' = TRUE /\ UNCHANGED <<wire, buf, inFlight, handled>>

\* The next packet is too large.
Refused ==
  /\ inFlight # <<>> /\ Len(Words(inFlight[1])) > MaxPackage
  /\ Disconnected /\ UNCHANGED handled

\* longlink_unpack does one of these, and nothing else.
LEMMA UnpackIs ==
  ASSUME Paced, TypeOK, StreamInv, LonglinkUnpack
  PROVE  Handed \/ Awaited \/ Refused
<1> DEFINE packet == inFlight[1]
           W == Words(packet)
           size == Len(W)
           had == Len(buf)
<1>1. /\ wire \in Seq(Pieces) /\ inFlight \in Seq(Packets) /\ buf \in Seq(Nat) /\ buf # <<>>
      /\ handled \in Seq(Packets)
      /\ AllSound(inFlight) /\ Stream(inFlight, wire, buf)
      /\ Len(inFlight) > 1 => \A k \in 1 .. Len(inFlight) : ~ Alone(inFlight[k].kind)
  BY DEF TypeOK, Pieces, StreamInv, LonglinkUnpack
<1>2. PICK got \in UnpackTest(buf) :
        \/ /\ got.ret = "ok"
           /\ handled' = Append(handled, [kind |-> KindOf(got.seq), id |-> got.seq,
                                          data |-> DataFor(KindOf(got.seq), buf)])
           /\ inFlight' = IF inFlight = <<>> THEN <<>> ELSE Tail(inFlight)
           /\ buf' = SubSeq(buf, got.package + 1, Len(buf))
           /\ UNCHANGED <<wire, waiting>>
        \/ /\ got.ret = "continue" /\ waiting' = TRUE
           /\ UNCHANGED <<wire, buf, inFlight, handled>>
        \/ /\ got.ret = "false" /\ Disconnected
           /\ UNCHANGED handled
  BY DEF LonglinkUnpack
<1>3. /\ inFlight # <<>>
      /\ had < size => wire # <<>> /\ had >= HeaderLen
      /\ \A i \in 1 .. size : i <= had => buf[i] = W[i]
  BY <1>1, StreamNext
<1>4. 1 \in 1 .. Len(inFlight) /\ Head(inFlight) = packet
  BY <1>1, <1>3
<1>5. Sound(packet)
  BY <1>1, <1>4 DEF AllSound
<1>6. had \in Nat /\ had > 0 /\ packet.kind \in {"noop", "push", "response"} /\ packet \in Packets
  BY <1>1, <1>5 DEF Sound, Packets, Kinds
<1>7. /\ W \in Seq(Nat) /\ size > 0
      /\ packet.kind = "noop" => W = <<Beat>>
      /\ packet.kind # "noop" =>
           size >= HeaderLen /\ W[2] = packet.id /\ W[3] = size - HeaderLen
  BY <1>5, WordsAre
<1>8. size \in Nat
  BY <1>7
<1>9. packet.data \in Seq(Nat) /\ Len(packet.data) \in Nat
  BY <1>6 DEF Packets
<1>10. packet.kind \in {"noop", "push"} => inFlight = <<packet>>
  <2>1. SUFFICES ASSUME packet.kind \in {"noop", "push"} PROVE inFlight = <<packet>>
    OBVIOUS
  <2>2. Alone(packet.kind)
    BY <2>1 DEF Alone
  <2>3. Len(inFlight) = 1
    <3>1. ~ (Len(inFlight) > 1)
      BY <1>1, <1>4, <2>2
    <3>2. Len(inFlight) \in Nat /\ Len(inFlight) > 0
      BY <1>1, <1>3
    <3>3. \A len \in Nat : len > 0 /\ ~ (len > 1) => len = 1
      OBVIOUS
    <3> QED  BY <3>1, <3>2, <3>3
  <2> QED  BY <1>1, <1>6, <2>3
<1> HIDE DEF packet, W, size, had
<1>11. packet.kind \in {"noop", "push"} => had <= size
  <2>1. SUFFICES ASSUME inFlight = <<packet>> PROVE had <= size
    BY <1>10
  <2>2. PICK starts :
          /\ starts \in [1 .. Len(inFlight) + 1 -> Nat]
          /\ Starts(inFlight, starts) /\ Coming(inFlight, wire, buf, starts)
    BY <1>1 DEF Stream
  <2>3. Len(inFlight) = 1 /\ inFlight[1] = packet /\ Len(wire) \in Nat
    BY <1>1, <2>1
  <2>4. starts[1] = 0 /\ starts[1 + 1] = starts[1] + size
    BY <2>2, <2>3 DEF Starts, W, size
  <2>5. CASE wire = <<>>
    BY <1>8, <2>2, <2>3, <2>4, <2>5 DEF Coming, had
  <2>6. CASE wire # <<>>
    <3>1. Len(wire) = 1
      BY <1>1, <2>2, <2>3, <2>6 DEF Coming
    <3>2. PieceOf(wire[1], inFlight[(1 - 1) + 1], Len(buf) - starts[(1 - 1) + 1])
      BY <2>2, <2>3, <3>1 DEF Coming
    <3>3. had - 0 < size
      BY <2>3, <2>4, <3>2 DEF PieceOf, had, W, size
    <3> QED  BY <1>6, <1>8, <3>3
  <2> QED  BY <2>5, <2>6
<1>12. CASE packet.kind = "noop"
  <2>1. size = 1 /\ had = 1
    <3>1. size = 1
      BY <1>7, <1>12 DEF size
    <3> QED  BY <1>6, <1>11, <1>12, <3>1
  <2>2. got.ret = "ok" /\ got.seq = NoopId /\ got.package = 1
    <3>1. Len(buf) = 1 /\ ~ (1 = 2) /\ ~ (1 >= HeaderLen)
      BY <2>1 DEF had
    <3>2. \/ got.ret = "ok" /\ got.seq = NoopId /\ got.package = 1
          \/ Len(buf) = 2
          \/ Len(buf) >= HeaderLen
      BY <1>1, Tested
    <3> QED  BY <3>1, <3>2
  <2>3. KindOf(NoopId) = "noop" /\ DataFor("noop", buf) = <<>>
    BY DEF KindOf, DataFor
  <2>4. packet = [kind |-> "noop", id |-> NoopId, data |-> <<>>]
    BY <1>5, <1>12 DEF Sound, Packets
  <2>5. handled' = Append(handled, Heard(packet))
    BY <1>2, <2>2, <2>3, <2>4 DEF Heard
  <2>6. buf' = SubSeq(buf, size + 1, had)
    BY <1>2, <2>1, <2>2 DEF had
  <2>7. inFlight' = Tail(inFlight) /\ UNCHANGED <<wire, waiting>>
    BY <1>2, <1>3, <2>2
  <2>8. Behind(size, buf, buf')
    <3>1. /\ Len(SubSeq(buf, size + 1, had)) = had - size
          /\ \A i \in 1 .. had - size : SubSeq(buf, size + 1, had)[i] = buf[size + i]
      BY <1>1, <1>6, <1>8, <2>1, SliceIs DEF had
    <3> QED  BY <1>6, <2>1, <2>6, <3>1 DEF Behind, had
  <2> QED  BY <1>3, <1>4, <2>5, <2>7, <2>8 DEF Handed, packet, W, size
<1>13. CASE packet.kind # "noop"
  <2>1. had >= HeaderLen /\ size >= HeaderLen
    BY <1>3, <1>6, <1>7, <1>8, <1>13
  <2>2. buf[2] = packet.id /\ buf[3] = size - HeaderLen
    <3>1. 2 \in 1 .. size /\ 3 \in 1 .. size /\ 2 <= had /\ 3 <= had
      BY <1>6, <1>8, <2>1
    <3> QED  BY <1>3, <1>7, <1>13, <3>1
  <2>3. /\ got.seq = packet.id /\ got.package = size
        /\ got.ret = "false" => size > MaxPackage
        /\ got.ret = "continue" => size > had
        /\ got.ret = "ok" => size <= had
    <3>1. Len(buf) # 1 /\ Len(buf) # 2
      <4>1. had # 1 /\ had # 2
        BY <1>6, <2>1
      <4> QED  BY <4>1 DEF had
    <3>2. /\ got.seq = buf[2] /\ got.package = buf[3] + HeaderLen
          /\ got.ret = "false" => got.package > MaxPackage
          /\ got.ret = "continue" => got.package > Len(buf)
          /\ got.ret = "ok" => got.package <= Len(buf)
      BY <1>1, <3>1, Tested
    <3>3. (size - HeaderLen) + HeaderLen = size
      BY <1>8
    <3> QED  BY <2>2, <3>2, <3>3 DEF had
  <2>4. CASE got.ret = "ok"
    <3>1. /\ handled' = Append(handled, [kind |-> KindOf(packet.id), id |-> packet.id,
                                         data |-> DataFor(KindOf(packet.id), buf)])
          /\ inFlight' = Tail(inFlight) /\ UNCHANGED <<wire, waiting>>
          /\ buf' = SubSeq(buf, size + 1, had)
      BY <1>2, <1>3, <2>3, <2>4 DEF had
    <3>2. size <= had
      BY <2>3, <2>4
    <3>3. packet.kind = "push" => had = size
      BY <1>6, <1>8, <1>11, <3>2
    <3>4. \A i \in 1 .. size : buf[i] = W[i]
      BY <1>3, <1>6, <1>8, <3>2
    <3>5. /\ KindOf(packet.id) = packet.kind
          /\ packet.kind = "response" => DataFor("response", buf) = packet.data
          /\ packet.kind = "push" /\ Len(buf) = size => DataFor("push", buf) = Heard(packet).data
      <4>1. Len(buf) >= Len(Words(packet))
        BY <1>6, <1>8, <3>2 DEF had, size, W
      <4>2. \A i \in 1 .. Len(Words(packet)) : buf[i] = Words(packet)[i]
        BY <3>4 DEF W, size
      <4> QED  BY <1>1, <1>5, <1>13, <4>1, <4>2, WholePacket DEF size, W
    <3>6. DataFor(KindOf(packet.id), buf) = Heard(packet).data
      BY <1>6, <1>13, <3>3, <3>5 DEF had, Heard
    <3>7. Heard(packet) = [kind |-> packet.kind, id |-> packet.id, data |-> Heard(packet).data]
      BY <1>6, HeardIs
    <3>8. handled' = Append(handled, Heard(packet))
      BY <3>1, <3>5, <3>6, <3>7
    <3>9. Behind(size, buf, buf')
      <4>1. /\ Len(SubSeq(buf, size + 1, had)) = had - size
            /\ \A i \in 1 .. had - size : SubSeq(buf, size + 1, had)[i] = buf[size + i]
        <5>1. size \in Nat /\ had \in Nat /\ size <= had /\ had <= Len(buf)
          BY <1>6, <1>8, <3>2 DEF had
        <5> HIDE DEF had
        <5>2. buf \in Seq(Nat)
          BY <1>1
        <5> QED  BY ONLY <5>1, <5>2, SliceIs
      <4> QED  BY <3>1, <3>2, <4>1 DEF Behind, had
    <3> QED  BY <1>3, <1>4, <3>1, <3>8, <3>9 DEF Handed, packet, W, size
  <2>5. CASE got.ret = "continue"
    <3>1. had < size
      BY <1>6, <1>8, <2>3, <2>5
    <3> QED  BY <1>1, <1>2, <1>3, <2>5, <3>1 DEF Awaited
  <2>6. CASE got.ret = "false"
    <3>1. size > MaxPackage /\ MaxPackage \in Nat
      BY <2>3, <2>6, StreamAssumption
    <3> QED  BY <1>2, <1>3, <2>6, <3>1 DEF Refused, packet, size, W
  <2> QED  BY <1>2, <2>4, <2>5, <2>6
<1> QED  BY <1>12, <1>13

\* longlink_unpack keeps the stream.
LEMMA UnpackKeeps ==
  ASSUME Paced, TypeOK, StreamInv, LonglinkUnpack
  PROVE  StreamInv'
<1>1. /\ wire \in Seq(Pieces) /\ inFlight \in Seq(Packets) /\ buf \in Seq(Nat)
      /\ AllSound(inFlight) /\ Stream(inFlight, wire, buf)
      /\ Len(inFlight) > 1 => \A k \in 1 .. Len(inFlight) : ~ Alone(inFlight[k].kind)
      /\ waiting => inFlight = <<>> \/ wire # <<>>
  BY DEF TypeOK, Pieces, StreamInv
<1>2. CASE Handed
  <2>1. /\ inFlight # <<>> /\ inFlight' = Tail(inFlight) /\ UNCHANGED <<wire, waiting>>
        /\ Behind(Len(Words(inFlight[1])), buf, buf') /\ buf' \in Seq(Nat)
    BY <1>2, UnpackType DEF Handed
  <2>2. Stream(inFlight', wire', buf')
    BY <1>1, <2>1, StreamUnpack
  <2>3. /\ Len(inFlight') = Len(inFlight) - 1 /\ inFlight' \in Seq(Packets)
        /\ \A k \in 1 .. Len(inFlight') : inFlight'[k] = inFlight[k + 1]
    BY <1>1, <2>1, HeadTailProperties
  <2>4. /\ Len(inFlight') > 1 => Len(inFlight) > 1
        /\ \A k \in 1 .. Len(inFlight') : k + 1 \in 1 .. Len(inFlight)
    <3>1. Len(inFlight) \in Nat
      BY <1>1
    <3> QED  BY <2>3, <3>1
  <2>5. /\ AllSound(inFlight')
        /\ Len(inFlight') > 1 => \A k \in 1 .. Len(inFlight') : ~ Alone(inFlight'[k].kind)
    BY <1>1, <2>3, <2>4 DEF AllSound
  <2>6. ~ waiting
    BY DEF LonglinkUnpack
  <2> QED  BY <2>1, <2>2, <2>5, <2>6 DEF StreamInv
<1>3. CASE Awaited
  BY <1>1, <1>3 DEF Awaited, StreamInv
<1>4. CASE Refused
  <2>1. wire' = <<>> /\ buf' = <<>> /\ inFlight' = <<>>
    BY <1>4 DEF Refused, Disconnected
  <2> QED  BY <2>1, StreamEmpty DEF StreamInv, AllSound
<1> QED  BY <1>2, <1>3, <1>4, UnpackIs

\* Which packet a step sends, and that it is sound.
LEMMA SendIs ==
  ASSUME TypeInv,
         \/ \E body \in Bodies : SendMessage(body)
         \/ SendNoop
         \/ \E id \in 1 .. PushEnd - 1, body \in Bodies : ServerPush(id, body)
  PROVE  \E packet : Sound(packet) /\ Enter(packet, Words(packet))
<1>1. NoopId \in Nat /\ PushEnd \in Nat /\ FirstId \in Nat
  BY StreamAssumption
<1>2. ASSUME NEW body \in Bodies, SendMessage(body)
      PROVE  \E packet : Sound(packet) /\ Enter(packet, Words(packet))
  <2> DEFINE packet == [kind |-> "response", id |-> messageId, data |-> body]
  <2>1. body \in Seq(Nat)
    BY StreamAssumption
  <2>2. messageId \in FirstId .. NoopId - 1
    BY <1>2, IdSound DEF SendMessage, Enter, MayEnter
  <2>3. messageId \in Nat /\ messageId < NoopId
    BY <1>1, <2>2
  <2>4. packet \in Packets
    BY <2>1, <2>3, SentTypes
  <2>5. Sound(packet)
    BY <2>2, <2>4 DEF Sound
  <2>6. LonglinkPack(messageId, body) = Words(packet)
    BY <2>1, <2>3, SentAreWords
  <2>7. Enter(packet, Words(packet))
    BY <1>2, <2>6 DEF SendMessage
  <2> HIDE DEF packet
  <2> QED  BY <2>5, <2>7
<1>3. ASSUME SendNoop
      PROVE  \E packet : Sound(packet) /\ Enter(packet, Words(packet))
  <2> DEFINE packet == [kind |-> "noop", id |-> NoopId, data |-> <<>>]
  <2>1. <<>> \in Seq(Nat) /\ 0 \in Nat
    OBVIOUS
  <2>2. packet \in Packets /\ LonglinkPack(NoopId, <<>>) = Words(packet)
    BY <2>1, SentTypes, SentAreWords
  <2>3. Sound(packet)
    BY <2>2 DEF Sound
  <2>4. Enter(packet, Words(packet))
    BY <1>3, <2>2 DEF SendNoop
  <2> HIDE DEF packet
  <2> QED  BY <2>3, <2>4
<1>4. ASSUME NEW id \in 1 .. PushEnd - 1, NEW body \in Bodies, ServerPush(id, body)
      PROVE  \E packet : Sound(packet) /\ Enter(packet, Words(packet))
  <2> DEFINE message == ImMessage(id, body)
             packet == [kind |-> "push", id |-> id, data |-> body]
  <2>1. body \in Seq(Nat) /\ id \in Nat
    BY StreamAssumption
  <2>2. packet \in Packets /\ message = Words(packet)
    BY <2>1, SentTypes, SentAreWords
  <2>4. Sound(packet)
    BY <2>2 DEF Sound
  <2>5. Enter(packet, Words(packet))
    BY <1>4, <2>2 DEF ServerPush
  <2> HIDE DEF packet
  <2> QED  BY <2>4, <2>5
<1> QED  BY <1>2, <1>3, <1>4

\* The invariant of the stream is inductive.
LEMMA StreamStep ==
  ASSUME Paced, TypeInv, StreamInv, [Next]_vars
  PROVE  StreamInv'
<1>1. TypeOK
  BY DEF TypeInv
<1>2. CASE \/ \E body \in Bodies : SendMessage(body)
           \/ SendNoop
           \/ \E id \in 1 .. PushEnd - 1, body \in Bodies : ServerPush(id, body)
  BY <1>1, <1>2, SendIs, EnterKeeps
<1>3. CASE Read
  BY <1>1, <1>3, ReadKeeps DEF Read
<1>4. CASE LonglinkUnpack
  BY <1>1, <1>4, UnpackKeeps
<1>5. CASE Drop
  <2>1. wire' = <<>> /\ buf' = <<>> /\ inFlight' = <<>>
    BY <1>5 DEF Drop, Disconnected
  <2> QED  BY <2>1, StreamEmpty DEF StreamInv, AllSound
<1>6. CASE UNCHANGED vars
  BY <1>6 DEF StreamInv, vars
<1> QED  BY <1>2, <1>3, <1>4, <1>5, <1>6 DEF Next, AllQuiet

\* On a Paced connection what was read and what is in transit are the packets in
\* flight, and every cut leaves a header whole.
THEOREM StreamHolds == ASSUME Paced PROVE Spec => [](TypeInv /\ StreamInv)
<1>1. Init => TypeInv /\ StreamInv
  BY TypeInit, StreamEmpty DEF Init, StreamInv, AllSound
<1>2. TypeInv /\ StreamInv /\ [Next]_vars => TypeInv' /\ StreamInv'
  BY TypeStep, StreamStep
<1> QED  BY <1>1, <1>2, PTL DEF Spec

\* longlink_unpack never waits for the rest of a packet that has arrived: it
\* keeps waiting only while a part of the packet is in transit.
THEOREM NothingStuckAlways == ASSUME Paced PROVE Spec => []NothingStuck
<1>1. StreamInv => NothingStuck
  BY DEF StreamInv, NothingStuck
<1> QED  BY <1>1, StreamHolds, PTL

\* What longlink_unpack takes for a package that is too large is one: a header
\* is never read from the middle of a packet or from a part of a header.
THEOREM OnlyTooLargeRefusedAlways == ASSUME Paced PROVE Spec => OnlyTooLargeRefused
<1> DEFINE Right ==
      LonglinkUnpack /\ handled' = handled /\ buf' = <<>> =>
        inFlight # <<>> /\ Len(Words(Head(inFlight))) > MaxPackage
<1>1. TypeInv /\ StreamInv => [Right]_vars
  <2> SUFFICES ASSUME TypeInv, StreamInv, LonglinkUnpack, handled' = handled, buf' = <<>>
               PROVE  inFlight # <<>> /\ Len(Words(Head(inFlight))) > MaxPackage
    OBVIOUS
  <2>1. TypeOK /\ inFlight \in Seq(Packets) /\ handled \in Seq(Packets)
    BY DEF TypeInv, TypeOK
  <2>2. ~ Handed
    <3>1. inFlight # <<>> => Heard(Head(inFlight)) \in Packets
      BY <2>1, HeadTailProperties, HeardIs
    <3>2. inFlight # <<>> => Len(Append(handled, Heard(Head(inFlight)))) = Len(handled) + 1
      BY <2>1, <3>1, AppendProperties
    <3>3. Len(handled) \in Nat
      BY <2>1
    <3>4. inFlight # <<>> => Append(handled, Heard(Head(inFlight))) # handled
      BY <3>2, <3>3
    <3> QED  BY <3>4 DEF Handed
  <2>3. ~ Awaited
    BY DEF Awaited
  <2>4. Refused
    BY <2>1, <2>2, <2>3, UnpackIs
  <2> QED  BY <2>1, <2>4 DEF Refused
<1>2. OnlyTooLargeRefused <=> [][Right]_vars
  BY DEF OnlyTooLargeRefused
<1> HIDE DEF Right
<1> QED  BY <1>1, <1>2, StreamHolds, PTL DEF Spec

\* However TCP cuts and joins the packets, every step is one of a channel that
\* hands on what was sent, whole, once and in order, until it is disconnected.
THEOREM StreamImplementsFifo == ASSUME Paced PROVE Spec => Channel!Spec
<1>1. Init => Channel!Init
  BY EmptySeq, HeardSeqs DEF Init, Channel!Init
<1>2. TypeInv /\ StreamInv /\ [Next]_vars => [Channel!Next]_Channel!vars
  <2> SUFFICES ASSUME TypeInv, StreamInv, [Next]_vars PROVE [Channel!Next]_Channel!vars
    OBVIOUS
  <2>1. TypeOK /\ inFlight \in Seq(Packets)
    BY DEF TypeInv, TypeOK
  <2>2. CASE \/ \E body \in Bodies : SendMessage(body)
             \/ SendNoop
             \/ \E id \in 1 .. PushEnd - 1, body \in Bodies : ServerPush(id, body)
    <3>1. PICK packet : Sound(packet) /\ Enter(packet, Words(packet))
      BY <2>2, SendIs
    <3>2. packet \in Packets /\ inFlight' = Append(inFlight, packet) /\ handled' = handled
      BY <3>1 DEF Sound, Enter
    <3> DEFINE before == AllHeard(inFlight)
               after  == AllHeard(inFlight')
               heard  == Heard(packet)
    <3>3. /\ before \in Seq(Packets) /\ heard \in Packets
          /\ after = Append(before, heard)
      BY <2>1, <3>2, HeardSeqs, HeardAppend, HeardIs
    <3> HIDE DEF before, after, heard
    <3>4. after # <<>> /\ after[Len(after)] = heard
      BY <3>3, AppendProperties
    <3>5. /\ after # <<>>
          /\ after[Len(after)] \in Packets /\ after = Append(before, after[Len(after)])
          /\ UNCHANGED handled
      BY <3>2, <3>3, <3>4
    <3> QED  BY <3>5 DEF Channel!Next, Channel!Send, before, after
  <2>3. CASE Read
    BY <2>3 DEF Read, Receive, Channel!vars
  <2>4. CASE LonglinkUnpack
    <3>1. CASE Handed
      BY <2>1, <3>1, HeardTail DEF Handed, Channel!Next, Channel!Handle
    <3>2. CASE Awaited
      BY <3>2 DEF Awaited, Channel!vars
    <3>3. CASE Refused
      <4>1. inFlight # <<>> /\ inFlight' = <<>> /\ handled' = handled
        BY <3>3 DEF Refused, Disconnected
      <4>2. AllHeard(inFlight) # <<>> /\ AllHeard(inFlight') = <<>>
        BY <2>1, <4>1, EmptySeq, HeardSeqs
      <4> QED  BY <4>1, <4>2 DEF Channel!Next, Channel!Lose
    <3> QED  BY <2>1, <2>4, <3>1, <3>2, <3>3, UnpackIs
  <2>5. CASE Drop
    <3>1. inFlight' = <<>> /\ handled' = handled
      BY <2>5 DEF Drop, Disconnected
    <3>2. AllHeard(inFlight') = <<>>
      BY <3>1, EmptySeq, HeardSeqs
    <3>3. CASE inFlight = <<>>
      BY <3>1, <3>3 DEF Channel!vars
    <3>4. CASE inFlight # <<>>
      <4>1. AllHeard(inFlight) # <<>>
        BY <2>1, <3>4, HeardSeqs
      <4> QED  BY <3>1, <3>2, <4>1 DEF Channel!Next, Channel!Lose
    <3> QED  BY <3>3, <3>4
  <2>6. CASE UNCHANGED vars
    BY <2>6 DEF vars, Channel!vars
  <2> QED  BY <2>2, <2>3, <2>4, <2>5, <2>6 DEF Next, AllQuiet
<1> QED  BY <1>1, <1>2, StreamHolds, PTL DEF Spec, Channel!Spec

\* A handler is given the packet that is next in the stream, whole, a push in
\* its header.
LEMMA HandedIs ==
  ASSUME Paced, TypeInv, StreamInv, LonglinkUnpack, handled' # handled
  PROVE  /\ inFlight # <<>> /\ handled'[Len(handled')] = Heard(Head(inFlight))
         /\ Heard(Head(inFlight)).id = Head(inFlight).id
<1>1. TypeOK /\ inFlight \in Seq(Packets) /\ handled \in Seq(Packets)
  BY DEF TypeInv, TypeOK
<1>2. Handed
  BY <1>1, UnpackIs DEF Awaited, Refused
<1>3. /\ inFlight # <<>> /\ handled' = Append(handled, Heard(Head(inFlight)))
      /\ Head(inFlight) \in Packets
  BY <1>1, <1>2, HeadTailProperties DEF Handed
<1>4. Heard(Head(inFlight)) \in Packets /\ Heard(Head(inFlight)).id = Head(inFlight).id
  BY <1>3, HeardIs
<1> QED  BY <1>1, <1>3, <1>4, AppendProperties

\* The task id longlink_unpack reports is that of the packet next in the stream,
\* as longlink_packer.h says, if no header arrives in pieces.
THEOREM SeqIsTaskIdPaced == ASSUME Paced PROVE Spec => SeqIsTaskId
<1> DEFINE Right ==
      LonglinkUnpack /\ handled' # handled =>
        inFlight # <<>> /\ handled'[Len(handled')].id = Head(inFlight).id
<1>1. TypeInv /\ StreamInv => [Right]_vars
  BY HandedIs
<1>2. SeqIsTaskId <=> [][Right]_vars
  BY DEF SeqIsTaskId
<1> HIDE DEF Right
<1> QED  BY <1>1, <1>2, StreamHolds, PTL DEF Spec

\* The body longlink_unpack reports is the packet's own, as longlink_packer.h
\* says, if no push is in the stream together with another packet.
THEOREM BodyIsItsOwnPaced == ASSUME Paced PROVE Spec => BodyIsItsOwn
<1> DEFINE Right ==
      LonglinkUnpack /\ handled' # handled /\ inFlight # <<>> =>
        LET got == handled'[Len(handled')]
        IN got.id = Head(inFlight).id => got.data = Heard(Head(inFlight)).data
<1>1. TypeInv /\ StreamInv => [Right]_vars
  BY HandedIs
<1>2. BodyIsItsOwn <=> [][Right]_vars
  BY DEF BodyIsItsOwn
<1> HIDE DEF Right
<1> QED  BY <1>1, <1>2, StreamHolds, PTL DEF Spec
=============================================================================
