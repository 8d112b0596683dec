------------------------------ MODULE OrionCodec ------------------------------
(***************************************************************************)
(* The packet codec that build.rs generates from OrionPublicProtocol.xml:  *)
(* for every <Packet>, an encode that appends the fields to a vector and a *)
(* decode that takes them off a slice or returns None.                     *)
(*                                                                         *)
(* The generator emits one block of code per <Data> element, and here one  *)
(* action stands for the execution of one such block.  An element keeps    *)
(* the attributes parse_field reads; what is generated for it is computed  *)
(* from them (BitWidth, Wire, Skipped ...).  A value is the sequence of    *)
(* the integers of one field: one of them, as many as the array is long,   *)
(* none for an absent Option and for an element that is no struct member.  *)
(* A float is an integer number of small units and its scale is in those   *)
(* units; one that is a float on the wire too is its bit pattern; an enum  *)
(* is its number.  A nested <Structure> is unrolled between two null       *)
(* elements without an encoded type: the same flush and reset are          *)
(* generated there.                                                        *)
(*                                                                         *)
(* Bound: numbers are at most four bytes on the wire, scaled ones at most  *)
(* two, so that TLC's own integers hold every intermediate value.          *)
(* Variable arrays are left out: no packet the program handles has one.    *)
(***************************************************************************)
EXTENDS Integers, Sequences, SequencesExt

CONSTANT Packets   \* records of the <Data> elements, fields, and their values

-----------------------------------------------------------------------------
(* What the generator makes of the attributes of an element.               *)

Bytes == [unsigned8 |-> 1, signed8 |-> 1, unsigned16 |-> 2, signed16 |-> 2,
          unsigned24 |-> 4, signed24 |-> 4, unsigned32 |-> 4, signed32 |-> 4,
          float32 |-> 4, none |-> 0]

MaxInt == [unsigned8 |-> 255, signed8 |-> 127,
           unsigned16 |-> 65535, signed16 |-> 32767]

Signed(type) == type \in {"signed8", "signed16", "signed24", "signed32"}

\* A type attribute is a tuple: <<"bitfield", width>>, or the name alone.
BitWidth(e) == IF e.mem[1] = "bitfield" THEN e.mem[2]
               ELSE IF e.enc[1] = "bitfield" THEN e.enc[2] ELSE 0

IsNull(e) == e.mem[1] \in {"null", "string", "fixedstring"}

IsPadding(e) == IsNull(e) \/ e.constant # <<>>

\* encodedType="null" only: parse_enc's answer for "float16" is not one.
Skipped(e) == e.enc[1] = "null"

Wire(e) == CASE e.enc[1] \in DOMAIN Bytes -> e.enc[1]
             [] e.enc[1] \notin DOMAIN Bytes /\ BitWidth(e) = 0 /\ ~IsNull(e)
                  -> e.mem[1]
             [] OTHER -> "none"

-----------------------------------------------------------------------------
(* The packets.                                                            *)

IntegerTypes == {"unsigned8", "signed8", "unsigned16", "signed16",
                 "unsigned24", "signed24", "unsigned32", "signed32"}
NullTypes == {"null", "string", "fixedstring"}
BitTypes == {"bitfield"} \X (Nat \ {0})

Scales ==
    [kind : {"none"}] \cup [kind : {"scaler"}, num : Nat \ {0}, den : Nat \ {0}]
      \cup [kind : {"max"}, max : Nat \ {0}]
      \cup {s \in [kind : {"minmax"}, min : Int, max : Int] : s.min < s.max}

\* "same" stands for an element without an encodedType.
DataElements ==
    [mem : {<<t>> : t \in IntegerTypes \cup NullTypes \cup {"float32"}} \cup BitTypes,
     enc : {<<t>> : t \in IntegerTypes \cup {"float32", "float16", "null", "same"}}
             \cup BitTypes,
     count : Nat \ {0}, scale : Scales,
     constant : Seq(Int), dependent : BOOLEAN]

\* Of the schema: no array and no Option of bit fields, one constant at most and
\* none for a number, and the bound on scaled numbers.
Encodable(e) ==
    /\ Len(e.constant) <= 1
    /\ BitWidth(e) > 0 => e.count = 1 /\ ~e.dependent
    /\ e.constant # <<>> => BitWidth(e) > 0 \/ IsNull(e)
    /\ e.scale.kind # "none" => Wire(e) \in DOMAIN MaxInt

IsValue(e, v) ==
    IF IsPadding(e) THEN v = <<>>
    ELSE Len(v) = e.count \/ (e.dependent /\ v = <<>>)

ASSUME PacketsAssumption ==
    \A p \in Packets :
       /\ p.fields \in Seq(DataElements) /\ p.values \in Seq(Seq(Int))
       /\ Len(p.fields) = Len(p.values)
       /\ \A i \in 1 .. Len(p.fields) :
            Encodable(p.fields[i]) /\ IsValue(p.fields[i], p.values[i])

-----------------------------------------------------------------------------
(* The state.                                                              *)

VARIABLES packet,    \* the packet being encoded and then decoded
          stage,     \* "encode", "sent", "decode", "decoded" or "failed"
          next,      \* the element whose block runs next
          out,       \* out: the bytes encoded so far
          acc,       \* bit_acc: the bits of the byte that is not complete
          pos,       \* bit_pos: how many bits bit_acc holds
          arrived,   \* how many of the bytes decode was given
          input,     \* buf: the bytes decode has not taken
          byte,      \* _bit_byte: the byte bit fields are taken from
          at,        \* _bit_pos: the first bit of it not taken; 8 or more: none
          decoded    \* the values decoded so far

encoding == <<out, acc, pos>>
decoding == <<arrived, input, byte, at, decoded>>
vars == <<packet, stage, next, encoding, decoding>>

-----------------------------------------------------------------------------
(* One number: the scale, the cast to the encoded type, big-endian bytes.  *)

Round(n, d) == IF n >= 0 THEN (2 * n + d) \div (2 * d)
                         ELSE -((d - 2 * n) \div (2 * d))

Clamp(n, lo, hi) == IF n < lo THEN lo ELSE IF n > hi THEN hi ELSE n

\* The wire integer is (value - offset) * num / den, clamped to lo .. hi.
Scaling(e) ==
    LET top == MaxInt[Wire(e)]
    IN CASE e.scale.kind = "scaler" ->
              [offset |-> 0, num |-> e.scale.num, den |-> e.scale.den,
               lo |-> -top, hi |-> top]
         [] e.scale.kind = "max" ->
              [offset |-> 0, num |-> top, den |-> e.scale.max,
               lo |-> IF Signed(Wire(e)) THEN -top ELSE 0, hi |-> top]
         [] e.scale.kind = "minmax" ->
              [offset |-> e.scale.min, num |-> top,
               den |-> e.scale.max - e.scale.min, lo |-> 0, hi |-> top]

\* A float cast to an unsigned integer saturates at 0.
Raw(e, v) ==
    IF e.scale.kind = "none" THEN v
    ELSE LET s == Scaling(e)
             n == Clamp(Round((v - s.offset) * s.num, s.den), s.lo, s.hi)
         IN IF Signed(Wire(e)) \/ n > 0 THEN n ELSE 0

EncodeElem(e, v) ==
    LET n == Bytes[Wire(e)]
    IN [k \in 1 .. n |-> (Raw(e, v) \div 256 ^ (n - k)) % 256]

DecodeElem(e, bytes) ==
    LET top == IF Signed(Wire(e)) /\ bytes[1] >= 128 THEN bytes[1] - 256
                                                     ELSE bytes[1]
        value[k \in 1 .. Len(bytes)] ==
            IF k = 1 THEN top ELSE 256 * value[k - 1] + bytes[k]
        raw == value[Len(bytes)]
    IN IF e.scale.kind = "none" THEN raw
       ELSE LET s == Scaling(e) IN Round(raw * s.den, s.num) + s.offset

-----------------------------------------------------------------------------
Element == packet.fields[next]
Value == packet.values[next]

Init == /\ packet \in Packets
        /\ stage = "encode" /\ next = 1
        /\ out = <<>> /\ acc = 0 /\ pos = 0
        /\ arrived = 0 /\ input = <<>>
        /\ byte = 0 /\ at = 8 /\ decoded = <<>>

\* Mutant: a value wider than its bit field is not masked.
MaskedNever(n, width) == n % 256

\* The low bits of n that a bit field of this width keeps; it is a u8.
Masked(n, width) == n % (2 ^ (IF width < 8 THEN width ELSE 8))

\* Mutant: bit_acc is not reset when its byte is pushed.
PutBitsKept(v, width) ==
    LET filled == (acc + v * 2 ^ pos) % 256
    IN /\ acc' = filled
       /\ IF pos + width >= 8
          THEN out' = Append(out, filled) /\ pos' = 0
          ELSE out' = out /\ pos' = pos + width

\* bit_acc |= v << bit_pos, a u8: the bits beyond the byte are dropped, also
\* when the byte is pushed.  bit_acc is below 2 ^ bit_pos, so that | is +.
PutBits(v, width) ==
    LET filled == (acc + v * 2 ^ pos) % 256
    IN IF pos + width >= 8
       THEN out' = Append(out, filled) /\ acc' = 0 /\ pos' = 0
       ELSE out' = out /\ acc' = filled /\ pos' = pos + width

\* need_flush and bit_pos > 0: the incomplete byte is pushed.
Flushed == IF pos > 0 THEN Append(out, acc) ELSE out

EncodeSkipped == /\ stage = "encode" /\ next <= Len(packet.fields)
                 /\ Skipped(Element)
                 /\ next' = next + 1
                 /\ UNCHANGED <<packet, stage, encoding, decoding>>

EncodeBits ==
    /\ stage = "encode" /\ next <= Len(packet.fields)
    /\ ~Skipped(Element) /\ BitWidth(Element) > 0
    /\ LET plain == IF ~IsPadding(Element) THEN Value[1]
                    ELSE IF Element.constant # <<>> THEN Element.constant[1]
                    ELSE 0
           width == BitWidth(Element)
       IN PutBits(Masked(plain, width), width)
    /\ next' = next + 1
    /\ UNCHANGED <<packet, stage, decoding>>

EncodeBytes ==
    /\ stage = "encode" /\ next <= Len(packet.fields)
    /\ ~Skipped(Element) /\ BitWidth(Element) = 0
    /\ out' = Flushed \o
         (IF IsNull(Element) THEN [k \in 1 .. Bytes[Wire(Element)] |-> 0]
          ELSE FlattenSeq([k \in DOMAIN Value |-> EncodeElem(Element, Value[k])]))
    /\ acc' = 0 /\ pos' = 0
    /\ next' = next + 1
    /\ UNCHANGED <<packet, stage, decoding>>

EncodeEnd == /\ stage = "encode" /\ next > Len(packet.fields)
             /\ stage' = "sent"
             /\ out' = Flushed /\ acc' = 0 /\ pos' = 0
             /\ UNCHANGED <<packet, next, decoding>>

\* decode is called on a payload, which may be shorter than the packet.
Deliver == /\ stage = "sent"
           /\ stage' = "decode" /\ next' = 1
           /\ \E n \in 0 .. Len(out) :
                arrived' = n /\ input' = SubSeq(out, 1, n)
           /\ byte' = 0 /\ at' = 8 /\ decoded' = <<>>
           /\ UNCHANGED <<packet, encoding>>

\* What decode leaves where the sequence of values has no member.
Default(e) == IF IsPadding(e) \/ e.dependent THEN <<>>
              ELSE [k \in 1 .. e.count |-> 0]

DecodeSkipped == /\ stage = "decode" /\ next <= Len(packet.fields)
                 /\ Skipped(Element)
                 /\ decoded' = Append(decoded, Default(Element))
                 /\ next' = next + 1
                 /\ UNCHANGED <<packet, stage, encoding, arrived, input, byte, at>>

\* if _bit_pos >= 8: the next byte is taken before the bits are.
DecodeBits ==
    /\ stage = "decode" /\ next <= Len(packet.fields)
    /\ ~Skipped(Element) /\ BitWidth(Element) > 0
    /\ at < 8 \/ input # <<>>
    /\ LET reload == at >= 8
           from == IF reload THEN input[1] ELSE byte
           bit == IF reload THEN 0 ELSE at
       IN /\ byte' = from
          /\ at' = bit + BitWidth(Element)
          /\ input' = IF reload THEN Tail(input) ELSE input
          /\ decoded' = Append(decoded,
               IF IsPadding(Element) THEN <<>>
               ELSE <<Masked(from \div 2 ^ bit, BitWidth(Element))>>)
    /\ next' = next + 1
    /\ UNCHANGED <<packet, stage, encoding, arrived>>

\* How many bytes the block takes: _depends_cond is false in every decode.
Wanted(e) == CASE IsNull(e) -> Bytes[Wire(e)]
               [] ~IsNull(e) /\ e.dependent -> 0
               [] OTHER -> e.count * Bytes[Wire(e)]

\* Mutant: the bit reader is not reset by a byte-aligned field.
DecodeBytesInBits ==
    /\ stage = "decode" /\ next <= Len(packet.fields)
    /\ ~Skipped(Element) /\ BitWidth(Element) = 0
    /\ Len(input) >= Wanted(Element)
    /\ at' = at
    /\ input' = SubSeq(input, Wanted(Element) + 1, Len(input))
    /\ decoded' = Append(decoded,
         IF IsNull(Element) \/ Element.dependent THEN <<>>
         ELSE LET size == Bytes[Wire(Element)]
              IN [k \in 1 .. Element.count |->
                    DecodeElem(Element,
                               SubSeq(input, size * (k - 1) + 1, size * k))])
    /\ next' = next + 1
    /\ UNCHANGED <<packet, stage, encoding, arrived, byte>>

DecodeBytes ==
    /\ stage = "decode" /\ next <= Len(packet.fields)
    /\ ~Skipped(Element) /\ BitWidth(Element) = 0
    /\ Len(input) >= Wanted(Element)
    /\ at' = 8
    /\ input' = SubSeq(input, Wanted(Element) + 1, Len(input))
    /\ decoded' = Append(decoded,
         IF IsNull(Element) \/ Element.dependent THEN <<>>
         ELSE LET size == Bytes[Wire(Element)]
              IN [k \in 1 .. Element.count |->
                    DecodeElem(Element,
                               SubSeq(input, size * (k - 1) + 1, size * k))])
    /\ next' = next + 1
    /\ UNCHANGED <<packet, stage, encoding, arrived, byte>>

\* return None: the bytes a block wants are not there.
DecodeFails ==
    /\ stage = "decode" /\ next <= Len(packet.fields)
    /\ ~Skipped(Element)
    /\ IF BitWidth(Element) > 0 THEN at >= 8 /\ input = <<>>
                                ELSE Len(input) < Wanted(Element)
    /\ stage' = "failed"
    /\ UNCHANGED <<packet, next, encoding, decoding>>

\* Some(Self { .. })
DecodeEnd == /\ stage = "decode" /\ next > Len(packet.fields)
             /\ stage' = "decoded"
             /\ UNCHANGED <<packet, next, encoding, decoding>>

Next == \/ EncodeSkipped \/ EncodeBits \/ EncodeBytes \/ EncodeEnd
        \/ Deliver
        \/ DecodeSkipped \/ DecodeBits \/ DecodeBytes
        \/ DecodeFails \/ DecodeEnd

Spec == Init /\ [][Next]_vars

-----------------------------------------------------------------------------
(* Properties.                                                             *)

\* Every variable is in its range, and the accumulator holds no bit at or
\* above bit_pos: the next field's bits are or-ed into zeros.
CodecTypeOK ==
    /\ packet \in Packets
    /\ stage \in {"encode", "sent", "decode", "decoded", "failed"}
    /\ next \in 1 .. Len(packet.fields) + 1
    /\ out \in Seq(0 .. 255) /\ input \in Seq(0 .. 255)
    /\ pos \in 0 .. 7 /\ acc \in 0 .. 2 ^ pos - 1
    /\ arrived \in 0 .. Len(out)
    /\ byte \in 0 .. 255 /\ at \in Nat
    /\ Len(decoded) <= Len(packet.fields)

Elements == DOMAIN packet.fields
OnWire(i) == ~Skipped(packet.fields[i])
IsBits(i) == OnWire(i) /\ BitWidth(packet.fields[i]) > 0

\* The bits between the last byte boundary and each element, counted from the
\* layout alone, and whether no bit field up to i lies across two bytes.
BitsBefore ==
    LET before[i \in Elements] ==
          IF i = 1 THEN 0
          ELSE IF ~OnWire(i - 1) THEN before[i - 1]
          ELSE IF IsBits(i - 1) THEN before[i - 1] + BitWidth(packet.fields[i - 1])
          ELSE 0
    IN before
OneGroup(k, i) == \A j \in k .. i : OnWire(j) => IsBits(j)
WithinBytes(i) ==
    \A k \in 1 .. i : IsBits(k) /\ OneGroup(k, i) =>
       (BitsBefore[k] % 8) + BitWidth(packet.fields[k]) <= 8

\* The value has a wire integer: its type's, or in the range the scale is
\* clamped to.
InRange(e, v) ==
    IF e.scale.kind = "none"
    THEN v \div 256 ^ (Bytes[Wire(e)] - 1)
           \in IF Signed(Wire(e)) THEN -128 .. 127 ELSE 0 .. 255
    ELSE LET s == Scaling(e)
             n == (v - s.offset) * s.num
         IN /\ n <= s.hi * s.den
            /\ n >= (IF Signed(Wire(e)) THEN s.lo ELSE 0) * s.den

\* Half of the scale's step, and the half unit decode's result is rounded by.
Close(e, got, v) ==
    IF e.scale.kind = "none" THEN got = v
    ELSE LET s == Scaling(e)
         IN 2 * (IF got > v THEN got - v ELSE v - got) * s.num
              <= s.den + s.num

Recovered(i) ==
    LET e == packet.fields[i]
        v == packet.values[i]
        got == decoded[i]
    IN IF IsBits(i)
       THEN WithinBytes(i) /\ v # <<>> /\ v[1] \in 0 .. 2 ^ BitWidth(e) - 1
              => got = v
       ELSE /\ Len(got) = Len(v)
            /\ \A k \in DOMAIN v : InRange(e, v[k]) => Close(e, got[k], v[k])

NoDependentValue ==
    \A i \in Elements : packet.fields[i].dependent => packet.values[i] = <<>>

\* What decode returns for the bytes of encode is the packet: a number to
\* within half a step of its scale, a bit field that lies within one byte
\* exactly, whatever fields, flushed bytes and padding come before it.  (The
\* Option fields aside: see DependentFieldsDecoded.)
RoundTrip ==
    stage = "decoded" /\ NoDependentValue =>
        \A i \in Elements : OnWire(i) => Recovered(i)

\* encode and decode agree, layout by layout, on where bytes begin and end:
\* decode succeeds only on the complete packet, takes all of it, and returns
\* None for every proper prefix (a payload cut short is never half a packet).
\* It holds for bit fields across two bytes too.
WholeOrNothing ==
    NoDependentValue =>
        /\ stage = "decoded" => arrived = Len(out) /\ input = <<>>
        /\ stage = "failed" => arrived < Len(out)

\* README.md:428 says of dependsOn "Option<T> - conditionally
\* encoded/decoded": a field encode wrote is a field decode returns.
DependentFieldsDecoded ==
    stage = "decoded" /\ arrived = Len(out) =>
        \A i \in Elements :
           packet.fields[i].dependent => Len(decoded[i]) = Len(packet.values[i])
=============================================================================
