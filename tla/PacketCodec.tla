------------------------------ MODULE PacketCodec ------------------------------
(***************************************************************************)
(* PacketCodec (src/src/codec/packet_codec.cc): a connection's bytes       *)
(* arrive in chunks of any length and are cut into packets at line feeds.  *)
(* The reference is the cut of the whole stream, which knows no chunks.    *)
(***************************************************************************)
EXTENDS Integers, FiniteSets, Sequences, SequencesExt

CONSTANTS
  MaxPacket,  \* kMaxPacketSize
  MaxChunk,   \* bytes one recv returns at most
  MaxStream   \* bound: bytes a peer sends

CodecAssumption == MaxPacket \in Nat /\ MaxChunk \in Nat \ {0} /\ MaxStream \in Nat

Bytes == {"a", "r", "n"}  \* any byte, carriage return, line feed

VARIABLES
  buffer,   \* buffer_
  stream,   \* history: the bytes fed
  packets,  \* history: the packets handed out
  failed    \* feed returned false; the connection is closed

vars == <<buffer, stream, packets, failed>>

Init == buffer = <<>> /\ stream = <<>> /\ packets = <<>> /\ failed = FALSE

Fed(buf, out, ok) == [buffer |-> buf, packets |-> out, ok |-> ok]
TooLarge == Fed(<<>>, <<>>, FALSE)

\* Where the first line feed is, 0 for none; the code's pos is one less.
FindFeed(buf) == IF Contains(buf, "n") THEN SelectInSeq(buf, LAMBDA b : b = "n") ELSE 0

\* One carriage return before the line feed is not part of the packet.
Strip(p) == IF p # <<>> /\ Last(p) = "r" THEN Front(p) ELSE p

\* The remaining bytes are measured before the packets are cut off.
RECURSIVE Bug_Cut(_, _)
Bug_Cut(buf, out) ==
  LET i == FindFeed(buf) IN
  IF Len(buf) > MaxPacket THEN TooLarge
  ELSE IF i = 0 THEN Fed(buf, out, TRUE)
  ELSE Bug_Cut(SubSeq(buf, i + 1, Len(buf)), Append(out, Strip(SubSeq(buf, 1, i - 1))))

\* The loop of feed over the buffer; out holds the packets found.
RECURSIVE Cut(_, _)
Cut(buf, out) ==
  LET i == FindFeed(buf) IN
  IF i > 0
    THEN IF i - 1 > MaxPacket THEN TooLarge
         ELSE Cut(SubSeq(buf, i + 1, Len(buf)), Append(out, Strip(SubSeq(buf, 1, i - 1))))
    ELSE IF Len(buf) > MaxPacket THEN TooLarge ELSE Fed(buf, out, TRUE)

\* feed, called by onReadable with what one recv returned.
Feed(chunk) ==
  LET r == Cut(buffer \o chunk, <<>>) IN
  /\ ~failed /\ Len(stream) + Len(chunk) <= MaxStream
  /\ stream' = stream \o chunk
  /\ buffer' = r.buffer
  /\ packets' = packets \o r.packets
  /\ failed' = ~r.ok

Next == \E n \in 1..MaxChunk : \E chunk \in [1..n -> Bytes] : Feed(chunk)

Spec == Init /\ [][Next]_vars

-----------------------------------------------------------------------------
\* The reference: the lines of a byte string, what follows the last line
\* feed included.
Ends(s) == {0, Len(s) + 1} \cup {i \in 1..Len(s) : s[i] = "n"}
EndAt(s, k) == CHOOSE e \in Ends(s) : Cardinality({d \in Ends(s) : d < e}) = k
Lines(s) == [k \in 1..(Cardinality(Ends(s)) - 1) |-> SubSeq(s, EndAt(s, k - 1) + 1, EndAt(s, k) - 1)]
Plain(l) == IF l # <<>> /\ l[Len(l)] = "r" THEN SubSeq(l, 1, Len(l) - 1) ELSE l

\* feed hands out the lines of the stream, however it was split into
\* chunks, and keeps what follows the last line feed; of a stream it gives
\* up on, it has handed out the first lines only.
PacketsAreLines ==
  LET lines == Lines(stream) IN
  IF failed THEN Len(packets) < Len(lines) /\ \A i \in DOMAIN packets : packets[i] = Plain(lines[i])
  ELSE /\ packets = [i \in 1..(Len(lines) - 1) |-> Plain(lines[i])]
       /\ buffer = Last(lines)

\* feed gives up on a stream exactly when one of its lines is longer than
\* kMaxPacketSize: a chunk that ends several short packets is no reason.
FailsOnLongLine == failed <=> \E i \in DOMAIN Lines(stream) : Len(Lines(stream)[i]) > MaxPacket

\* feed computes the reference, or fails where it must.
FeedSplitsStream == PacketsAreLines /\ FailsOnLongLine
=============================================================================
