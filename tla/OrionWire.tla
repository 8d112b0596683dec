------------------------------- MODULE OrionWire -------------------------------
(***************************************************************************)
(* The framing of the Orion protocol, src/src/orion/wire.rs: a frame is    *)
(* two sync bytes, an id, a length, the payload and two checksum bytes.    *)
(* Frames and buffers are sequences of bytes; the sync bytes, the modulus  *)
(* of the checksum and the size of a byte are parameters.                  *)
(***************************************************************************)
EXTENDS Naturals, Sequences, SequencesExt

CONSTANTS
    Sync1, Sync2,    \* 0xD0, 0x0D
    Modulus,         \* 251
    ByteSpace        \* 256

Bytes == 0..ByteSpace - 1

ASSUME WireAssumption ==
    /\ ByteSpace \in Nat \ {0} /\ Sync1 \in Bytes /\ Sync2 \in Bytes /\ Sync1 # Sync2
    /\ Modulus \in Nat \ {0} /\ Modulus <= ByteSpace

\* Mutant: the second sum adds the byte, as the first does.
ChecksumPlain(bytes) ==
    LET a == ((bytes[1] + 1) + FoldSeq(LAMBDA x, y : x + y, 0, Tail(bytes))) % Modulus
    IN  <<a, a>>

\* One byte more in both sums.
AddByte(sum, byte) ==
    LET a == (sum[1] + byte) % Modulus
    IN  <<a, (sum[2] + a) % Modulus>>

\* The sums after each byte.
Sums(bytes) ==
    LET sums[i \in 1..Len(bytes)] == AddByte(IF i = 1 THEN <<1, 0>> ELSE sums[i - 1], bytes[i])
    IN  sums

(***************************************************************************)
(* The modified Fletcher-16 checksum: the second sum is that of all values *)
(* of the first, which makes it sensitive to the order of the bytes.       *)
(***************************************************************************)
Checksum(bytes) == IF bytes = <<>> THEN <<1, 1>> ELSE Sums(bytes)[Len(bytes)]

\* The length is cut to one byte.
Frame(id, payload) ==
    LET body == <<Sync1, Sync2, id, Len(payload) % ByteSpace>> \o payload
    IN  body \o Checksum(body)

-------------------------------------------------------------------------------
HasSync(buf, s) == s + 3 <= Len(buf) /\ buf[s] = Sync1 /\ buf[s + 1] = Sync2

\* Header, data and checksum of the candidate at s.
Total(buf, s) == 4 + buf[s + 3] + 2

\* Mutant: a frame that ends the buffer is taken for incomplete.
ArrivedAndMore(buf, s) == s - 1 + Total(buf, s) < Len(buf)

Arrived(buf, s) == s - 1 + Total(buf, s) <= Len(buf)

ValidAt(buf, s) ==
    /\ HasSync(buf, s) /\ Arrived(buf, s)
    /\ LET end == s - 1 + Total(buf, s)
       IN  <<buf[end - 1], buf[end]>> = Checksum(SubSeq(buf, s, end - 2))

IncompleteAt(buf, s) == HasSync(buf, s) /\ ~Arrived(buf, s)

NothingFound == [found |-> FALSE]
FrameAt(buf, s) ==
    [found |-> TRUE, id |-> buf[s + 2],
     data |-> SubSeq(buf, s + 4, s + 3 + buf[s + 3]),
     consumed |-> s - 1 + Total(buf, s)]

\* Mutant: a candidate that is not complete is passed over.
ParsePassing(buf) ==
    LET valid == {s \in 1..Len(buf) : ValidAt(buf, s)}
    IN  IF valid = {} THEN NothingFound
        ELSE FrameAt(buf, CHOOSE s \in valid : \A t \in valid : s <= t)

\* The scan ends at the first valid frame or at the first candidate, true or false, that
\* has not arrived completely.
Parse(buf) ==
    LET stops == {s \in 1..Len(buf) : ValidAt(buf, s) \/ IncompleteAt(buf, s)}
    IN  IF stops = {} THEN NothingFound
        ELSE LET s == CHOOSE s \in stops : \A t \in stops : s <= t
             IN  IF ValidAt(buf, s) THEN FrameAt(buf, s) ELSE NothingFound

(***************************************************************************)
(* All frames of a stream, parsed in one go: the frames found in the bytes *)
(* after position n.                                                       *)
(***************************************************************************)
AllFrames(stream) ==
    LET framesAfter[n \in 0..Len(stream)] ==
          LET frame == Parse(SubSeq(stream, n + 1, Len(stream)))
          IN  IF frame.found
              THEN <<<<frame.id, frame.data>>>> \o framesAfter[n + frame.consumed]
              ELSE <<>>
    IN  framesAfter[0]
===============================================================================
