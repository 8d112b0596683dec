--------------------------- MODULE OrionCodecProofs ---------------------------
(***************************************************************************)
(* The packet codec, for every list of elements the generator accepts and  *)
(* every value of them: the accumulators stay in their ranges, a packet is *)
(* decoded whole or not at all, and what is decoded is what was encoded.   *)
(***************************************************************************)
EXTENDS OrionCodec, TLAPS, SequenceTheorems, WellFoundedInduction

LEMMA LeastElement ==
    ASSUME NEW T \in SUBSET Nat, T # {}
    PROVE  \E m \in T : \A n \in T : m <= n
<1>1. PICK m \in T : \A n \in T : <<n, m>> \notin OpToRel(<, Nat)
  BY NatLessThanWellFounded, WFMin
<1>2. \A n \in T : ~(n < m)
  BY <1>1 DEF OpToRel
<1> QED
  BY <1>2

-------------------------------------------------------------------------------
(***************************************************************************)
(* Bytes one after the other.                                              *)
(***************************************************************************)
Joined(i, before, s) == IF i = 1 THEN s ELSE before \o s

IsFlattened(f, seqs, n) ==
    f = [i \in 1..n |-> Joined(i, f[i - 1], seqs[i])]

\* The first n sequences have a concatenation, whatever n.
LEMMA FlattenedExists ==
    ASSUME NEW seqs, NEW n \in Nat
    PROVE  \E f : IsFlattened(f, seqs, n)
<1> DEFINE T == {k \in Nat : ~\E f : IsFlattened(f, seqs, k)}
<1> SUFFICES ASSUME T # {} PROVE FALSE
  OBVIOUS
<1>1. PICK m \in T : \A k \in T : m <= k
  BY LeastElement
<1>2. m # 0
  <2> DEFINE f == [i \in 1..0 |-> 0]
  <2>1. IsFlattened(f, seqs, 0)
    BY DEF IsFlattened
  <2> QED
    BY <2>1
<1>3. m - 1 \in Nat /\ m - 1 \notin T
  BY <1>1, <1>2
<1>4. PICK f : IsFlattened(f, seqs, m - 1)
  BY <1>3
<1> DEFINE g == [i \in 1..m |-> Joined(i, f[i - 1], seqs[i])]
<1>5. \A i \in 1..m - 1 : g[i] = f[i]
  BY <1>3, <1>4 DEF IsFlattened
<1>6. ASSUME NEW i \in 1..m
      PROVE  Joined(i, f[i - 1], seqs[i]) = Joined(i, g[i - 1], seqs[i])
  <2>1. CASE i = 1
    BY <2>1 DEF Joined
  <2>2. CASE i # 1
    <3>1. i - 1 \in 1..m - 1
      BY <1>3, <2>2
    <3> QED
      BY <1>5, <3>1
  <2> QED
    BY <2>1, <2>2
<1>7. IsFlattened(g, seqs, m)
  BY <1>6 DEF IsFlattened
<1> QED
  BY <1>7

\* Each of them adds as many elements as it has.
LEMMA FlattenedShape ==
    ASSUME NEW S, NEW w \in Nat, NEW seqs \in Seq(Seq(S)), NEW f,
           \A i \in 1..Len(seqs) : Len(seqs[i]) = w,
           IsFlattened(f, seqs, Len(seqs)), NEW k \in 1..Len(seqs)
    PROVE  f[k] \in Seq(S) /\ Len(f[k]) = k * w
<1> DEFINE Shape(i) == f[i] \in Seq(S) /\ Len(f[i]) = i * w
           T == {i \in 1..Len(seqs) : ~Shape(i)}
<1> SUFFICES ASSUME T # {} PROVE FALSE
  OBVIOUS
<1>a. T \in SUBSET Nat
  OBVIOUS
<1>1. PICK m \in T : \A i \in T : m <= i
  BY <1>a, LeastElement
<1>2. m \in 1..Len(seqs) /\ seqs[m] \in Seq(S) /\ Len(seqs[m]) = w
  OBVIOUS
<1>3. f[m] = Joined(m, f[m - 1], seqs[m])
  BY <1>2 DEF IsFlattened
<1>4. m # 1
  BY <1>2, <1>3 DEF Joined
<1>5. m - 1 \in 1..Len(seqs) /\ m - 1 \notin T
  BY <1>1, <1>2, <1>4
<1>6. f[m - 1] \in Seq(S) /\ Len(f[m - 1]) = (m - 1) * w
  BY <1>5
<1>7. f[m] = f[m - 1] \o seqs[m]
  BY <1>3, <1>4 DEF Joined
<1>8. f[m] \in Seq(S) /\ Len(f[m]) = Len(f[m - 1]) + Len(seqs[m])
  <2>1. ASSUME NEW s \in Seq(S), NEW t \in Seq(S)
        PROVE  s \o t \in Seq(S) /\ Len(s \o t) = Len(s) + Len(t)
    BY ConcatProperties
  <2> QED
    BY <1>2, <1>6, <1>7, <2>1
<1>9. (m - 1) * w + w = m * w
  BY <1>2
<1> QED
  BY <1>2, <1>6, <1>8, <1>9

LEMMA FlattenShape ==
    ASSUME NEW S, NEW w \in Nat, NEW seqs \in Seq(Seq(S)),
           \A i \in 1..Len(seqs) : Len(seqs[i]) = w
    PROVE  FlattenSeq(seqs) \in Seq(S) /\ Len(FlattenSeq(seqs)) = Len(seqs) * w
<1>1. CASE seqs = <<>>
  BY <1>1 DEF FlattenSeq
<1>2. CASE Len(seqs) # 0
  <2> DEFINE f == CHOOSE g : IsFlattened(g, seqs, Len(seqs))
  <2>1. FlattenSeq(seqs) = f[Len(seqs)]
    BY <1>2 DEF FlattenSeq, IsFlattened, Joined
  <2>2. IsFlattened(f, seqs, Len(seqs))
    BY FlattenedExists
  <2> HIDE DEF f
  <2>3. Len(seqs) \in 1..Len(seqs)
    BY <1>2
  <2>4. f[Len(seqs)] \in Seq(S) /\ Len(f[Len(seqs)]) = Len(seqs) * w
    BY <2>2, <2>3, FlattenedShape
  <2> QED
    BY <2>1, <2>4
<1> QED
  BY <1>1, <1>2

-------------------------------------------------------------------------------
(***************************************************************************)
(* Elements.                                                               *)
(***************************************************************************)
LEMMA BitWidthType ==
    ASSUME NEW e \in DataElements
    PROVE  BitWidth(e) \in Nat
<1>1. ASSUME NEW t \in BitTypes PROVE t[2] \in Nat
  BY DEF BitTypes
<1>2. e.mem[1] = "bitfield" => e.mem \in BitTypes
  BY DEF DataElements, IntegerTypes, NullTypes
<1>3. e.enc[1] = "bitfield" => e.enc \in BitTypes
  BY DEF DataElements, IntegerTypes
<1> QED
  BY <1>1, <1>2, <1>3 DEF BitWidth

LEMMA WireType ==
    ASSUME NEW e \in DataElements
    PROVE  /\ Wire(e) \in DOMAIN Bytes
           /\ Bytes[Wire(e)] \in {0, 1, 2, 4}
<1>1. ASSUME NEW t \in BitTypes PROVE t[1] = "bitfield" /\ t[2] > 0 /\ t[2] \in Nat
  BY DEF BitTypes
<1>2. DOMAIN Bytes = IntegerTypes \cup {"float32", "none"}
  BY DEF Bytes, IntegerTypes
<1>3. BitWidth(e) = 0 /\ ~IsNull(e) => e.mem[1] \in DOMAIN Bytes
  <2>1. e.mem \in BitTypes => BitWidth(e) > 0
    BY <1>1 DEF BitWidth
  <2>2. e.mem \notin BitTypes =>
          e.mem[1] \in IntegerTypes \cup NullTypes \cup {"float32"}
    BY DEF DataElements
  <2> QED
    BY <1>2, <2>1, <2>2 DEF IsNull, NullTypes
<1>4. Wire(e) \in DOMAIN Bytes
  BY <1>2, <1>3 DEF Wire
<1>5. \A t \in DOMAIN Bytes : Bytes[t] \in {0, 1, 2, 4}
  BY DEF Bytes
<1> QED
  BY <1>4, <1>5

LEMMA CountType ==
    ASSUME NEW e \in DataElements
    PROVE  e.count \in Nat
BY DEF DataElements

\* A scaled number is rounded to an integer.
LEMMA RoundType ==
    ASSUME NEW n \in Int, NEW d \in Nat \ {0}
    PROVE  Round(n, d) \in Int
<1>1. 2 * d \in Nat \ {0} /\ 2 * n + d \in Int /\ d - 2 * n \in Int
  OBVIOUS
<1>2. ASSUME NEW a \in Int, NEW b \in Nat \ {0} PROVE a \div b \in Int
  OBVIOUS
<1> QED
  BY <1>1, <1>2 DEF Round

LEMMA ScalingType ==
    ASSUME NEW e \in DataElements, Encodable(e), e.scale.kind # "none"
    PROVE  /\ MaxInt[Wire(e)] \in Nat \ {0} /\ Wire(e) \in DOMAIN MaxInt
           /\ Scaling(e).offset \in Int
           /\ Scaling(e).num \in Nat \ {0} /\ Scaling(e).den \in Nat \ {0}
           /\ Scaling(e).lo \in {-MaxInt[Wire(e)], 0}
           /\ Scaling(e).hi = MaxInt[Wire(e)]
<1> DEFINE top == MaxInt[Wire(e)]
<1>1. top \in Nat \ {0} /\ Wire(e) \in DOMAIN MaxInt
  <2>1. Wire(e) \in DOMAIN MaxInt
    BY DEF Encodable
  <2>2. \A t \in DOMAIN MaxInt : MaxInt[t] \in Nat \ {0}
    BY DEF MaxInt
  <2> QED
    BY <2>1, <2>2
<1>2. e.scale \in Scales
  BY DEF DataElements
<1>3. CASE e.scale.kind = "scaler"
  <2>1. e.scale.num \in Nat \ {0} /\ e.scale.den \in Nat \ {0}
    BY <1>2, <1>3 DEF Scales
  <2> QED
    BY <1>1, <1>3, <2>1 DEF Scaling
<1>4. CASE e.scale.kind = "max"
  <2>1. e.scale.max \in Nat \ {0}
    BY <1>2, <1>4 DEF Scales
  <2> QED
    BY <1>1, <1>4, <2>1 DEF Scaling
<1>5. CASE e.scale.kind = "minmax"
  <2>1. e.scale.min \in Int /\ e.scale.max \in Int /\ e.scale.min < e.scale.max
    BY <1>2, <1>5 DEF Scales
  <2> QED
    BY <1>1, <1>5, <2>1 DEF Scaling
<1> QED
  BY <1>2, <1>3, <1>4, <1>5 DEF Scales

LEMMA RawType ==
    ASSUME NEW e \in DataElements, Encodable(e), NEW v \in Int
    PROVE  Raw(e, v) \in Int
<1>1. CASE e.scale.kind = "none"
  BY <1>1 DEF Raw
<1>2. CASE e.scale.kind # "none"
  <2> DEFINE s == Scaling(e)
  <2>1. s.offset \in Int /\ s.num \in Int /\ s.den \in Nat \ {0}
          /\ s.lo \in Int /\ s.hi \in Int
    BY <1>2, ScalingType
  <2>2. Raw(e, v) =
          LET n == Clamp(Round((v - s.offset) * s.num, s.den), s.lo, s.hi)
          IN IF Signed(Wire(e)) \/ n > 0 THEN n ELSE 0
    BY <1>2 DEF Raw
  <2> HIDE DEF s
  <2>3. (v - s.offset) * s.num \in Int
    BY <2>1
  <2>4. Round((v - s.offset) * s.num, s.den) \in Int
    BY <2>1, <2>3, RoundType
  <2>5. Clamp(Round((v - s.offset) * s.num, s.den), s.lo, s.hi) \in Int
    BY <2>1, <2>4 DEF Clamp
  <2> QED
    BY <2>2, <2>5
<1> QED
  BY <1>1, <1>2

\* The bytes of a number are bytes, as many as its type has.
LEMMA EncodeElemShape ==
    ASSUME NEW e \in DataElements, Encodable(e), NEW v \in Int
    PROVE  /\ EncodeElem(e, v) \in Seq(0..255)
           /\ Len(EncodeElem(e, v)) = Bytes[Wire(e)]
<1>1. PICK n \in {0, 1, 2, 4} : n = Bytes[Wire(e)]
  BY WireType
<1>2. PICK raw \in Int : raw = Raw(e, v)
  BY RawType
<1>3. ASSUME NEW k \in 1..n PROVE (raw \div 256 ^ (n - k)) % 256 \in 0..255
  <2>1. 256 ^ (n - k) \in Nat \ {0}
    <3>1. n - k \in 0..3
      OBVIOUS
    <3>2. PICK d \in 0..3 : d = n - k
      BY <3>1
    <3>3. 256 ^ d \in Nat \ {0}
      <4>1. CASE d = 0
        BY <4>1
      <4>2. CASE d = 1
        BY <4>2
      <4>3. CASE d = 2
        BY <4>3
      <4>4. CASE d = 3
        BY <4>4
      <4> QED
        BY <4>1, <4>2, <4>3, <4>4
    <3> QED
      BY <3>2, <3>3
  <2>2. ASSUME NEW b \in Nat \ {0} PROVE raw \div b \in Int
    OBVIOUS
  <2>3. raw \div 256 ^ (n - k) \in Int
    BY <2>1, <2>2
  <2>4. ASSUME NEW a \in Int PROVE a % 256 \in 0..255
    OBVIOUS
  <2> QED
    BY <2>3, <2>4
<1>4. EncodeElem(e, v) = [k \in 1..n |-> (raw \div 256 ^ (n - k)) % 256]
  BY <1>1, <1>2 DEF EncodeElem
<1>5. ASSUME NEW f, f = [k \in 1..n |-> (raw \div 256 ^ (n - k)) % 256]
      PROVE  f \in Seq(0..255) /\ Len(f) = n
  <2>1. f \in [1..n -> 0..255] /\ n \in Nat
    BY <1>3, <1>5
  <2> QED
    BY <2>1
<1> QED
  BY <1>1, <1>4, <1>5

-------------------------------------------------------------------------------
(***************************************************************************)
(* Bits.                                                                   *)
(***************************************************************************)
LEMMA Twice ==
    ASSUME NEW k \in 0..7
    PROVE  2 ^ (k + 1) = 2 * 2 ^ k
<1>1. \A i \in {0, 1, 2, 3, 4, 5, 6, 7} : k = i => 2 ^ (k + 1) = 2 * 2 ^ k
  <2>0. CASE k = 0
    BY <2>0
  <2>1. CASE k = 1
    BY <2>1
  <2>2. CASE k = 2
    BY <2>2
  <2>3. CASE k = 3
    BY <2>3
  <2>4. CASE k = 4
    BY <2>4
  <2>5. CASE k = 5
    BY <2>5
  <2>6. CASE k = 6
    BY <2>6
  <2>7. CASE k = 7
    BY <2>7
  <2> QED
    BY <2>0, <2>1, <2>2, <2>3, <2>4, <2>5, <2>6, <2>7
<1> QED
  BY <1>1

\* The powers of two up to 2 ^ 8 are the numbers one expects.
LEMMA PowerType ==
    ASSUME NEW k \in 0..8
    PROVE  2 ^ k \in 1..256
<1>1. CASE k = 0
  BY <1>1
<1>2. CASE k = 1
  BY <1>2
<1>3. CASE k = 2
  BY <1>3
<1>4. CASE k = 3
  BY <1>4
<1>5. CASE k = 4
  BY <1>5
<1>6. CASE k = 5
  BY <1>6
<1>7. CASE k = 6
  BY <1>7
<1>8. CASE k = 7
  BY <1>8
<1>9. CASE k = 8
  BY <1>9
<1> QED
  BY <1>1, <1>2, <1>3, <1>4, <1>5, <1>6, <1>7, <1>8, <1>9

LEMMA PowerZero ==
    ASSUME NEW k, k = 0
    PROVE  2 ^ k = 1
OBVIOUS

LEMMA PowersMultiply ==
    ASSUME NEW p \in 0..7, NEW w \in 1..7, p + w <= 8
    PROVE  2 ^ p * 2 ^ w = 2 ^ (p + w)
<1> DEFINE q == 2 ^ p
<1>0. q \in 1..256
  <2>1. p \in 0..8
    OBVIOUS
  <2> QED
    BY <2>1, PowerType
<1> HIDE DEF q
<1>a. \A k \in 1..7 : p + k <= 8 => 2 ^ (p + k) = 2 * 2 ^ (p + (k - 1))
  <2> TAKE k \in 1..7
  <2> HAVE p + k <= 8
  <2>1. p + (k - 1) \in 0..7 /\ (p + (k - 1)) + 1 = p + k
    OBVIOUS
  <2> QED
    BY <2>1, Twice
<1> DEFINE Times(k, c) == p + k <= 8 => 2 ^ (p + k) = c * q
<1>1. Times(1, 2)
  <2>1. 1 - 1 = 0 /\ p + 0 = p
    OBVIOUS
  <2> QED
    BY <1>a, <2>1 DEF q
<1>2. Times(2, 4)
  <2>1. 2 - 1 = 1
    OBVIOUS
  <2> QED
    BY <1>a, <1>0, <1>1, <2>1
<1>3. Times(3, 8)
  BY <1>a, <1>0, <1>2
<1>4. Times(4, 16)
  BY <1>a, <1>0, <1>3
<1>5. Times(5, 32)
  BY <1>a, <1>0, <1>4
<1>6. Times(6, 64)
  BY <1>a, <1>0, <1>5
<1>7. Times(7, 128)
  BY <1>a, <1>0, <1>6
<1>8. 2 ^ (p + w) = q * 2 ^ w
  <2>1. CASE w = 1
    BY <1>0, <1>1, <2>1
  <2>2. CASE w = 2
    BY <1>0, <1>2, <2>2
  <2>3. CASE w = 3
    BY <1>0, <1>3, <2>3
  <2>4. CASE w = 4
    BY <1>0, <1>4, <2>4
  <2>5. CASE w = 5
    BY <1>0, <1>5, <2>5
  <2>6. CASE w = 6
    BY <1>0, <1>6, <2>6
  <2>7. CASE w = 7
    BY <1>0, <1>7, <2>7
  <2> QED
    BY <2>1, <2>2, <2>3, <2>4, <2>5, <2>6, <2>7
<1> QED
  BY <1>8 DEF q

\* A masked number fits in the bits of its field, and in a byte.
LEMMA MaskedShape ==
    ASSUME NEW n \in Int, NEW w \in Nat \ {0}
    PROVE  /\ Masked(n, w) \in 0..255
           /\ w < 8 => Masked(n, w) \in 0..2 ^ w - 1
<1>1. PICK k \in 0..8 : k = IF w < 8 THEN w ELSE 8
  OBVIOUS
<1>2. PICK b \in 1..256 : b = 2 ^ k
  BY PowerType
<1>3. Masked(n, w) = n % b
  BY <1>1, <1>2 DEF Masked
<1>4. n % b \in 0..b - 1
  OBVIOUS
<1> QED
  BY <1>1, <1>2, <1>3, <1>4

\* Bits put above the ones an accumulator holds stay below the new bit_pos.
LEMMA FilledShape ==
    ASSUME NEW p \in 0..7, NEW a \in 0..2 ^ p - 1,
           NEW w \in Nat \ {0}, NEW n \in Int
    PROVE  LET filled == (a + (Masked(n, w) * 2 ^ p)) % 256
           IN  /\ filled \in 0..255
               /\ p + w < 8 => filled \in 0..2 ^ (p + w) - 1
<1>0. p \in 0..8
  OBVIOUS
<1>1. PICK b \in 1..256 : b = 2 ^ p
  BY <1>0, PowerType
<1>2. PICK m \in 0..255 : m = Masked(n, w)
  BY MaskedShape
<1>3. m * b \in Nat /\ a \in 0..b - 1
  BY <1>1
<1>4. (a + m * b) % 256 \in 0..255
  BY <1>3
<1>5. ASSUME p + w < 8 PROVE (a + (m * b)) % 256 \in 0..2 ^ (p + w) - 1
  <2>1. w \in 1..7 /\ w \in 0..8 /\ p + w \in 0..8 /\ p + w <= 8
    BY <1>5
  <2>2. PICK c \in 1..256 : c = 2 ^ w
    BY <2>1, PowerType
  <2>3. b * c = 2 ^ (p + w)
    <3>1. (2 ^ p) * (2 ^ w) = 2 ^ (p + w)
      BY <2>1, PowersMultiply
    <3> QED
      BY <1>1, <2>2, <3>1
  <2>4. m \in 0..c - 1
    BY <1>2, <2>1, <2>2, MaskedShape
  <2>5. m * b <= (c - 1) * b
    BY <2>2, <2>4
  <2>6. (c - 1) * b = b * c - b
    BY <2>2
  <2>7. b * c \in 1..256
    <3>1. 2 ^ (p + w) \in 1..256
      BY <2>1, PowerType
    <3> QED
      BY <2>3, <3>1
  <2>8. a + (m * b) \in 0..b * c - 1
    BY <1>3, <2>5, <2>6, <2>7
  <2>9. (a + (m * b)) % 256 = a + (m * b)
    BY <2>7, <2>8
  <2> QED
    BY <2>3, <2>8, <2>9
<1> QED
  BY <1>1, <1>2, <1>4, <1>5

-------------------------------------------------------------------------------
(***************************************************************************)
(* The inductive invariant.                                                *)
(***************************************************************************)
\* How far the elements before one reach: the complete bytes, and the bits of
\* the byte that is not complete.
Places == [bytes : Nat, bits : 0..7]
Start == [bytes |-> 0, bits |-> 0]
Ends(place) == place.bytes + (IF place.bits > 0 THEN 1 ELSE 0)

Advance(place, e) ==
    IF Skipped(e) THEN place
    ELSE IF BitWidth(e) = 0 THEN [bytes |-> Ends(place) + Wanted(e), bits |-> 0]
    ELSE IF place.bits + BitWidth(e) >= 8
         THEN [bytes |-> place.bytes + 1, bits |-> 0]
         ELSE [bytes |-> place.bytes, bits |-> place.bits + BitWidth(e)]

\* Where each element ends.
LayoutOf(fields) ==
    LET place[i \in 0..Len(fields)] ==
          IF i = 0 THEN Start ELSE Advance(place[i - 1], fields[i])
    IN  place
Layout == LayoutOf(packet.fields)

\* encode and decode are where the layout says.
Encodes ==
    /\ stage = "encode" => Layout[next - 1] = [bytes |-> Len(out), bits |-> pos]
    /\ stage # "encode" => Len(out) = Ends(Layout[Len(packet.fields)])

Decoding == stage \in {"decode", "decoded", "failed"}

Decodes ==
    Decoding =>
        /\ arrived = Ends(Layout[next - 1]) + Len(input)
        /\ IF Layout[next - 1].bits > 0 THEN at = Layout[next - 1].bits
                                        ELSE at >= 8

OneLayout == NoDependentValue => Encodes /\ Decodes

Taken == /\ stage = "decode" => Len(decoded) = next - 1
         /\ \E S : decoded \in Seq(S)

Outcome == /\ stage = "decoded" => next = Len(packet.fields) + 1
           /\ NoDependentValue => (stage = "failed" => arrived < Len(out))

CodecInv == CodecTypeOK /\ Taken /\ OneLayout /\ Outcome

\* What encode appends for an element on whole bytes.
BytesOf(e, v) ==
    IF IsNull(e) THEN [k \in 1..Bytes[Wire(e)] |-> 0]
    ELSE FlattenSeq([k \in DOMAIN v |-> EncodeElem(e, v[k])])

\* The elements encoded so far, and the bytes with the one that is not complete.
Encoded == 1..IF stage = "encode" THEN next - 1 ELSE Len(packet.fields)
Image == Append(out, acc)

\* A bit field that is a member of the packet, and whether it lies in one byte.
IsBitMember(i) == IsBits(i) /\ ~IsPadding(packet.fields[i])
Fits(i) == Layout[i - 1].bits + BitWidth(packet.fields[i]) <= 8
IsWhole(i) == OnWire(i) /\ BitWidth(packet.fields[i]) = 0

\* What was encoded is still there, at its place.
BitsAt(n, p, w) == (n \div 2 ^ p) % 2 ^ w
Raised(n, p) == n * 2 ^ p
Filled(a, n, p) == (a + Raised(n, p)) % 256

HoldsBits(i) ==
    BitsAt(Image[Layout[i - 1].bytes + 1], Layout[i - 1].bits,
           BitWidth(packet.fields[i]))
      = Masked(packet.values[i][1], BitWidth(packet.fields[i]))

HoldsBytes(i) ==
    \A k \in 1..Wanted(packet.fields[i]) :
       out[Ends(Layout[i - 1]) + k] = BytesOf(packet.fields[i], packet.values[i])[k]

BitsWritten == \A i \in Encoded : IsBitMember(i) /\ Fits(i) => HoldsBits(i)
BytesWritten == \A i \in Encoded : IsWhole(i) => HoldsBytes(i)

\* decode reads it from there.
Reading ==
    Decoding =>
        /\ \A k \in 1..Len(input) : input[k] = out[Ends(Layout[next - 1]) + k]
        /\ Layout[next - 1].bits > 0 => byte = out[Layout[next - 1].bytes + 1]

\* The numbers of a field, encoded and decoded.
ThereAndBack(e, v) ==
    IF IsNull(e) \/ e.dependent THEN <<>>
    ELSE [k \in 1..e.count |-> DecodeElem(e, EncodeElem(e, v[k]))]

GotBits ==
    Decoding =>
        \A i \in 1..next - 1 : IsBitMember(i) /\ Fits(i) =>
           decoded[i] = <<Masked(packet.values[i][1], BitWidth(packet.fields[i]))>>

GotBytes ==
    Decoding =>
        \A i \in 1..next - 1 : IsWhole(i) =>
           decoded[i] = ThereAndBack(packet.fields[i], packet.values[i])

Contents == BitsWritten /\ BytesWritten /\ Reading /\ GotBits /\ GotBytes

WholeInv == CodecInv /\ (NoDependentValue => Contents)

-------------------------------------------------------------------------------
(***************************************************************************)
(* The types.                                                              *)
(***************************************************************************)
LEMMA PacketShape ==
    ASSUME NEW p \in Packets, NEW i \in 1..Len(p.fields)
    PROVE  /\ p.fields[i] \in DataElements /\ p.values[i] \in Seq(Int)
           /\ Encodable(p.fields[i]) /\ IsValue(p.fields[i], p.values[i])
<1>1. p.fields \in Seq(DataElements) /\ p.values \in Seq(Seq(Int))
  BY PacketsAssumption
<1>2. i \in 1..Len(p.values)
  BY PacketsAssumption
<1> QED
  BY <1>1, <1>2, PacketsAssumption

LEMMA ElementShape ==
    ASSUME CodecTypeOK, next <= Len(packet.fields)
    PROVE  /\ next \in 1..Len(packet.fields) /\ Len(packet.fields) \in Nat
           /\ Element \in DataElements /\ Value \in Seq(Int)
           /\ Encodable(Element) /\ IsValue(Element, Value)
<1>1. packet \in Packets /\ packet.fields \in Seq(DataElements)
  BY PacketsAssumption DEF CodecTypeOK
<1>2. Len(packet.fields) \in Nat
  BY <1>1
<1>3. next \in 1..Len(packet.fields)
  BY <1>2 DEF CodecTypeOK
<1> QED
  BY <1>1, <1>2, <1>3, PacketShape DEF Element, Value

\* The bytes of each number of a field.
LEMMA PartsShape ==
    ASSUME NEW e \in DataElements, Encodable(e), NEW v \in Seq(Int)
    PROVE  LET parts == [k \in DOMAIN v |-> EncodeElem(e, v[k])]
           IN  /\ parts \in Seq(Seq(0..255)) /\ Len(parts) = Len(v)
               /\ \A k \in 1..Len(parts) : /\ parts[k] = EncodeElem(e, v[k])
                                           /\ Len(parts[k]) = Bytes[Wire(e)]
<1> DEFINE parts == [k \in DOMAIN v |-> EncodeElem(e, v[k])]
<1>1. DOMAIN v = 1..Len(v) /\ Len(v) \in Nat /\ \A k \in 1..Len(v) : v[k] \in Int
  OBVIOUS
<1>2. \A k \in 1..Len(v) : /\ EncodeElem(e, v[k]) \in Seq(0..255)
                           /\ Len(EncodeElem(e, v[k])) = Bytes[Wire(e)]
  BY <1>1, EncodeElemShape
<1>3. parts = [k \in 1..Len(v) |-> EncodeElem(e, v[k])]
  BY <1>1
<1>4. parts \in [1..Len(v) -> Seq(0..255)]
  BY <1>2, <1>3
<1>5. parts \in Seq(Seq(0..255)) /\ Len(parts) = Len(v)
  BY <1>1, <1>4
<1> QED
  BY <1>2, <1>3, <1>5

\* They are bytes, and as many as decode wants when the value is there.
LEMMA BytesOfShape ==
    ASSUME NEW e \in DataElements, Encodable(e), BitWidth(e) = 0,
           NEW v \in Seq(Int), IsValue(e, v)
    PROVE  /\ BytesOf(e, v) \in Seq(0..255)
           /\ (e.dependent => v = <<>>) => Len(BytesOf(e, v)) = Wanted(e)
<1>1. PICK w \in Nat : w = Bytes[Wire(e)]
  BY WireType
<1>2. CASE IsNull(e)
  <2>1. BytesOf(e, v) = [k \in 1..w |-> 0]
    BY <1>1, <1>2 DEF BytesOf
  <2>2. [k \in 1..w |-> 0] \in Seq(0..255) /\ Len([k \in 1..w |-> 0]) = w
    OBVIOUS
  <2> QED
    BY <1>1, <1>2, <2>1, <2>2 DEF Wanted
<1>3. CASE ~IsNull(e)
  <2> DEFINE parts == [k \in DOMAIN v |-> EncodeElem(e, v[k])]
  <2>1. /\ parts \in Seq(Seq(0..255)) /\ Len(parts) = Len(v)
        /\ \A k \in 1..Len(parts) : Len(parts[k]) = w
    BY <1>1, PartsShape
  <2>2. BytesOf(e, v) = FlattenSeq(parts)
    BY <1>3 DEF BytesOf
  <2> HIDE DEF parts
  <2>3. /\ FlattenSeq(parts) \in Seq(0..255)
        /\ Len(FlattenSeq(parts)) = Len(parts) * w
    <3>1. FlattenSeq(parts) \in Seq(0..255)
      BY <2>1, FlattenShape
    <3>a. ASSUME NEW S, NEW t \in Seq(Seq(S)), \A k \in 1..Len(t) : Len(t[k]) = w
          PROVE  Len(FlattenSeq(t)) = Len(t) * w
      BY <3>a, FlattenShape
    <3>2. Len(FlattenSeq(parts)) = Len(parts) * w
      BY <2>1, <3>a, Zenon
    <3> QED
      BY <3>1, <3>2
  <2>4. ~IsPadding(e)
    BY <1>3 DEF Encodable, IsPadding
  <2>5. CASE ~e.dependent
    <3>1. Len(v) = e.count
      BY <2>4, <2>5 DEF IsValue
    <3> QED
      BY <1>1, <1>3, <2>1, <2>2, <2>3, <2>5, <3>1 DEF Wanted
  <2>6. CASE e.dependent
    <3>1. v = <<>> => Len(parts) * w = 0
      BY <2>1
    <3> QED
      BY <1>3, <2>2, <2>3, <2>6, <3>1 DEF Wanted
  <2> QED
    BY <2>5, <2>6
<1> QED
  BY <1>2, <1>3

LEMMA WantedType ==
    ASSUME NEW e \in DataElements
    PROVE  Wanted(e) \in Nat
<1>1. Bytes[Wire(e)] \in Nat
  BY WireType
<1>2. e.count * Bytes[Wire(e)] \in Nat
  BY <1>1, CountType
<1> QED
  BY <1>1, <1>2 DEF Wanted

Types == CodecTypeOK /\ Taken

LEMMA TypesInit ==
    ASSUME Init
    PROVE  Types
<1>1. Len(packet.fields) \in Nat
  BY PacketsAssumption DEF Init
<1>2. 2 ^ 0 = 1
  OBVIOUS
<1>3. \A n \in Nat : 1 \in 1..n + 1
  OBVIOUS
<1>4. <<>> \in Seq(0..255) /\ <<>> \in Seq({}) /\ Len(<<>>) = 0
  OBVIOUS
<1>5. CodecTypeOK
  BY <1>1, <1>2, <1>3, <1>4 DEF Init, CodecTypeOK
<1>6. Taken
  BY <1>4 DEF Init, Taken
<1> QED
  BY <1>5, <1>6 DEF Types

\* The byte that is not complete is a byte.
LEMMA FlushedShape ==
    ASSUME CodecTypeOK
    PROVE  /\ Flushed \in Seq(0..255)
           /\ Len(Flushed) = Len(out) + (IF pos > 0 THEN 1 ELSE 0)
<1>1. pos \in 0..8 /\ acc \in 0..2 ^ pos - 1
  BY DEF CodecTypeOK
<1>2. 2 ^ pos \in 1..256
  BY <1>1, PowerType
<1>3. acc \in 0..255
  BY <1>1, <1>2
<1>4. out \in Seq(0..255)
  BY DEF CodecTypeOK
<1>5. Append(out, acc) \in Seq(0..255) /\ Len(Append(out, acc)) = Len(out) + 1
  BY <1>3, <1>4
<1> QED
  BY <1>4, <1>5 DEF Flushed

LEMMA TypesEncodeSkipped ==
    ASSUME Types, EncodeSkipped
    PROVE  Types'
<1>1. next' \in 1..Len(packet.fields) + 1
  BY ElementShape DEF EncodeSkipped, Types
<1> QED
  BY <1>1 DEF Types, CodecTypeOK, Taken, EncodeSkipped, encoding, decoding

LEMMA PutBitsShape ==
    ASSUME CodecTypeOK, NEW n \in Int, NEW w \in Nat \ {0}, PutBits(Masked(n, w), w)
    PROVE  /\ out' \in Seq(0..255) /\ pos' \in 0..7 /\ acc' \in 0..2 ^ pos' - 1
           /\ Len(out) <= Len(out')
<1> DEFINE filled == (acc + (Masked(n, w) * 2 ^ pos)) % 256
<1>1. /\ pos \in 0..7 /\ acc \in 0..2 ^ pos - 1 /\ out \in Seq(0..255)
  BY DEF CodecTypeOK
<1>2. filled \in 0..255 /\ (pos + w < 8 => filled \in 0..2 ^ (pos + w) - 1)
  BY <1>1, FilledShape
<1>3. IF pos + w >= 8 THEN out' = Append(out, filled) /\ acc' = 0 /\ pos' = 0
                      ELSE out' = out /\ acc' = filled /\ pos' = pos + w
  BY DEF PutBits
<1> HIDE DEF filled
<1>4. CASE pos + w >= 8
  <2>1. Append(out, filled) \in Seq(0..255) /\ Len(Append(out, filled)) = Len(out) + 1
    BY <1>1, <1>2
  <2>2. Len(out) \in Nat
    BY <1>1
  <2>3. 2 ^ pos' = 1
    BY <1>3, <1>4, PowerZero
  <2>4. out' = Append(out, filled) /\ acc' = 0 /\ pos' = 0
    BY <1>3, <1>4
  <2>5. pos' \in 0..7 /\ acc' \in 0..2 ^ pos' - 1
    BY <2>3, <2>4
  <2> QED
    BY <2>1, <2>2, <2>4, <2>5
<1>5. CASE pos + w < 8
  <2>1. pos + w \in 0..7 /\ ~(pos + w >= 8) /\ Len(out) \in Nat
    BY <1>1, <1>5
  <2> QED
    BY <1>1, <1>2, <1>3, <1>5, <2>1
<1> QED
  BY <1>1, <1>4, <1>5

\* The bits of an element are of its value, its constant, or zeros.
LEMMA PlainType ==
    ASSUME NEW e \in DataElements, Encodable(e), BitWidth(e) > 0,
           NEW v \in Seq(Int), IsValue(e, v)
    PROVE  /\ ~IsPadding(e) => v[1] \in Int
           /\ e.constant # <<>> => e.constant[1] \in Int
<1>1. e.constant \in Seq(Int)
  BY DEF DataElements
<1>2. e.constant # <<>> => e.constant[1] \in Int
  BY <1>1
<1>3. ASSUME ~IsPadding(e) PROVE v[1] \in Int
  <2>1. e.count = 1 /\ ~e.dependent
    BY DEF Encodable
  <2>2. Len(v) = 1
    BY <1>3, <2>1 DEF IsValue
  <2>3. 1 \in 1..Len(v)
    BY <2>2
  <2> QED
    BY <2>3, ElementOfSeq
<1> QED
  BY <1>2, <1>3

LEMMA TypesEncodeBits ==
    ASSUME Types, EncodeBits
    PROVE  Types'
<1>1. /\ next \in 1..Len(packet.fields) /\ Len(packet.fields) \in Nat
      /\ Element \in DataElements /\ Value \in Seq(Int)
      /\ Encodable(Element) /\ IsValue(Element, Value)
  BY ElementShape DEF EncodeBits, Types
<1>2. BitWidth(Element) \in Nat \ {0}
  BY <1>1, BitWidthType DEF EncodeBits
<1>3. PICK n \in Int : PutBits(Masked(n, BitWidth(Element)), BitWidth(Element))
  <2> DEFINE plain == IF ~IsPadding(Element) THEN Value[1]
                      ELSE IF Element.constant # <<>> THEN Element.constant[1]
                      ELSE 0
  <2>1. plain \in Int
    BY <1>1, <1>2, PlainType
  <2>2. PutBits(Masked(plain, BitWidth(Element)), BitWidth(Element))
    BY DEF EncodeBits
  <2> QED
    BY <2>1, <2>2
<1>4. /\ out' \in Seq(0..255) /\ pos' \in 0..7 /\ acc' \in 0..2 ^ pos' - 1
      /\ Len(out) <= Len(out')
  BY <1>2, <1>3, PutBitsShape DEF Types
<1>5. next' \in 1..Len(packet.fields) + 1
  BY <1>1 DEF EncodeBits
<1>6. arrived \in 0..Len(out')
  <2>1. arrived \in 0..Len(out) /\ Len(out) \in Nat /\ Len(out') \in Nat
    BY <1>4 DEF Types, CodecTypeOK
  <2> QED
    BY <1>4, <2>1
<1> QED
  BY <1>4, <1>5, <1>6 DEF Types, CodecTypeOK, Taken, EncodeBits, decoding

LEMMA TypesEncodeBytes ==
    ASSUME Types, EncodeBytes
    PROVE  Types'
<1>1. /\ next \in 1..Len(packet.fields) /\ Len(packet.fields) \in Nat
      /\ Element \in DataElements /\ Value \in Seq(Int)
      /\ Encodable(Element) /\ IsValue(Element, Value)
  BY ElementShape DEF EncodeBytes, Types
<1>2. BytesOf(Element, Value) \in Seq(0..255)
  BY <1>1, BytesOfShape DEF EncodeBytes
<1>3. out' = Flushed \o BytesOf(Element, Value)
  BY DEF EncodeBytes, BytesOf
<1>4. Flushed \in Seq(0..255) /\ Len(Flushed) >= Len(out)
  <2>1. Len(out) \in Nat
    BY DEF Types, CodecTypeOK
  <2> QED
    BY <2>1, FlushedShape DEF Types
<1>5. out' \in Seq(0..255) /\ Len(out') >= Len(out)
  <2>1. Flushed \o BytesOf(Element, Value) \in Seq(0..255)
    BY <1>2, <1>4
  <2>2. Len(Flushed \o BytesOf(Element, Value)) >= Len(Flushed)
    BY <1>2, <1>4
  <2>3. Len(out) \in Nat /\ Len(Flushed) \in Nat
    BY <1>4 DEF Types, CodecTypeOK
  <2> QED
    BY <1>3, <1>4, <2>1, <2>2, <2>3
<1>6. next' \in 1..Len(packet.fields) + 1
  BY <1>1 DEF EncodeBytes
<1>7. arrived \in 0..Len(out')
  <2>1. arrived \in 0..Len(out) /\ Len(out) \in Nat /\ Len(out') \in Nat
    BY <1>5 DEF Types, CodecTypeOK
  <2> QED
    BY <1>5, <2>1
<1>8. pos' \in 0..7 /\ acc' \in 0..2 ^ pos' - 1
  <2>1. 2 ^ pos' = 1
    BY PowerZero DEF EncodeBytes
  <2> QED
    BY <2>1 DEF EncodeBytes
<1> QED
  BY <1>5, <1>6, <1>7, <1>8 DEF Types, CodecTypeOK, Taken, EncodeBytes, decoding

LEMMA TypesEncodeEnd ==
    ASSUME Types, EncodeEnd
    PROVE  Types'
<1>1. out' \in Seq(0..255) /\ Len(out') >= Len(out)
  <2>1. Len(out) \in Nat
    BY DEF Types, CodecTypeOK
  <2> QED
    BY <2>1, FlushedShape DEF Types, EncodeEnd
<1>2. arrived \in 0..Len(out')
  <2>1. arrived \in 0..Len(out) /\ Len(out) \in Nat /\ Len(out') \in Nat
    BY <1>1 DEF Types, CodecTypeOK
  <2> QED
    BY <1>1, <2>1
<1>3. pos' \in 0..7 /\ acc' \in 0..2 ^ pos' - 1
  <2>1. 2 ^ pos' = 1
    BY PowerZero DEF EncodeEnd
  <2> QED
    BY <2>1 DEF EncodeEnd
<1> QED
  BY <1>1, <1>2, <1>3 DEF Types, CodecTypeOK, Taken, EncodeEnd, decoding

\* A slice that lies within a buffer.
LEMMA SliceShape ==
    ASSUME NEW S, NEW s \in Seq(S), NEW m \in 1..Len(s) + 1, NEW n \in m - 1..Len(s)
    PROVE  SubSeq(s, m, n) \in Seq(S) /\ Len(SubSeq(s, m, n)) = n - m + 1
<1>1. m \in Int /\ n \in Int /\ n >= m - 1
  OBVIOUS
<1>2. \A i \in m..n : s[i] \in S
  <2> TAKE i \in m..n
  <2>1. i \in 1..Len(s)
    OBVIOUS
  <2> QED
    BY <2>1, ElementOfSeq
<1>3. SubSeq(s, m, n) \in Seq(S)
  BY <1>1, <1>2, SubSeqProperties
<1>4. Len(SubSeq(s, m, n)) = IF m <= n THEN n - m + 1 ELSE 0
  BY <1>1, <1>2, SubSeqProperties
<1> QED
  BY <1>1, <1>3, <1>4

LEMMA TypesDeliver ==
    ASSUME Types, Deliver
    PROVE  Types'
<1>1. PICK n \in 0..Len(out) : arrived' = n /\ input' = SubSeq(out, 1, n)
  BY DEF Deliver
<1>2. out \in Seq(0..255) /\ out' = out
  BY DEF Types, CodecTypeOK, Deliver, encoding
<1>3. SubSeq(out, 1, n) \in Seq(0..255)
  <2>1. 1 \in 1..Len(out) + 1 /\ n \in 1 - 1..Len(out)
    BY <1>2
  <2> QED
    BY <1>2, <2>1, SliceShape
<1>4. Len(packet.fields) \in Nat
  BY PacketsAssumption DEF Types, CodecTypeOK
<1>5. next' \in 1..Len(packet.fields) + 1
  BY <1>4 DEF Deliver
<1>6. Len(decoded') = 0 /\ decoded' \in Seq({}) /\ next' = 1 /\ at' \in Nat
        /\ byte' \in 0..255
  BY DEF Deliver
<1>7. CodecTypeOK'
  BY <1>1, <1>2, <1>3, <1>4, <1>5, <1>6
     DEF Types, CodecTypeOK, Deliver, encoding
<1>8. Taken'
  BY <1>6 DEF Taken
<1> QED
  BY <1>7, <1>8 DEF Types

\* One more value is decoded, of whatever kind.
LEMMA TakenMore ==
    ASSUME Types, stage = "decode", NEW value, decoded' = Append(decoded, value),
           next' = next + 1, next <= Len(packet.fields), packet' = packet
    PROVE  Taken' /\ Len(decoded') <= Len(packet'.fields)
<1>1. PICK S : decoded \in Seq(S)
  BY DEF Types, Taken
<1>2. decoded \in Seq(S \cup {value})
  BY <1>1, SeqMonotonic
<1>3. decoded' \in Seq(S \cup {value}) /\ Len(decoded') = Len(decoded) + 1
  BY <1>2
<1>4. Len(decoded) = next - 1
  BY DEF Types, Taken
<1>5. next \in Int
  BY ElementShape DEF Types
<1>6. Len(decoded') = next /\ next = next' - 1
  BY <1>3, <1>4, <1>5
<1> QED
  BY <1>3, <1>6 DEF Taken

LEMMA TypesDecodeSkipped ==
    ASSUME Types, DecodeSkipped
    PROVE  Types'
<1>1. next' \in 1..Len(packet.fields) + 1
  BY ElementShape DEF DecodeSkipped, Types
<1>2. Taken' /\ Len(decoded') <= Len(packet'.fields)
  BY TakenMore DEF DecodeSkipped
<1> QED
  BY <1>1, <1>2 DEF Types, CodecTypeOK, DecodeSkipped, encoding

LEMMA TypesDecodeBits ==
    ASSUME Types, DecodeBits
    PROVE  Types'
<1>1. next' \in 1..Len(packet.fields) + 1
  BY ElementShape DEF DecodeBits, Types
<1>2. Taken' /\ Len(decoded') <= Len(packet'.fields)
  <2>1. PICK value : decoded' = Append(decoded, value)
    BY DEF DecodeBits
  <2> QED
    BY <2>1, TakenMore DEF DecodeBits
<1>3. input \in Seq(0..255) /\ byte \in 0..255 /\ at \in Nat
  BY DEF Types, CodecTypeOK
<1>4. at >= 8 => input[1] \in 0..255 /\ Tail(input) \in Seq(0..255)
  <2>1. at >= 8 => input # <<>>
    BY <1>3 DEF DecodeBits
  <2>2. input # <<>> => 1 \in 1..Len(input)
    BY <1>3
  <2> QED
    BY <1>3, <2>1, <2>2, ElementOfSeq, HeadTailProperties
<1>5. BitWidth(Element) \in Nat
  BY ElementShape, BitWidthType DEF Types, DecodeBits
<1>6. /\ byte' = IF at >= 8 THEN input[1] ELSE byte
      /\ at' = (IF at >= 8 THEN 0 ELSE at) + BitWidth(Element)
      /\ input' = IF at >= 8 THEN Tail(input) ELSE input
  BY DEF DecodeBits
<1>7. byte' \in 0..255 /\ at' \in Nat /\ input' \in Seq(0..255)
  BY <1>3, <1>4, <1>5, <1>6
<1> QED
  BY <1>1, <1>2, <1>7 DEF Types, CodecTypeOK, DecodeBits, encoding

LEMMA TypesDecodeBytes ==
    ASSUME Types, DecodeBytes
    PROVE  Types'
<1>1. next' \in 1..Len(packet.fields) + 1
  BY ElementShape DEF DecodeBytes, Types
<1>2. Taken' /\ Len(decoded') <= Len(packet'.fields)
  <2>1. PICK value : decoded' = Append(decoded, value)
    BY DEF DecodeBytes
  <2> QED
    BY <2>1, TakenMore DEF DecodeBytes
<1>3. input \in Seq(0..255)
  BY DEF Types, CodecTypeOK
<1>4. PICK w \in Nat : w = Wanted(Element)
  BY ElementShape, WantedType DEF Types, DecodeBytes
<1>5. SubSeq(input, w + 1, Len(input)) \in Seq(0..255)
  <2>1. Len(input) \in Nat /\ Len(input) >= w
    BY <1>3, <1>4 DEF DecodeBytes
  <2>2. w + 1 \in 1..Len(input) + 1 /\ Len(input) \in (w + 1) - 1..Len(input)
    BY <2>1
  <2> QED
    BY <1>3, <2>2, SliceShape
<1>6. input' \in Seq(0..255)
  BY <1>4, <1>5 DEF DecodeBytes
<1> QED
  BY <1>1, <1>2, <1>6 DEF Types, CodecTypeOK, DecodeBytes, encoding

LEMMA TypesNext ==
    ASSUME Types, [Next]_vars
    PROVE  Types'
<1>1. CASE EncodeSkipped
  BY <1>1, TypesEncodeSkipped
<1>2. CASE EncodeBits
  BY <1>2, TypesEncodeBits
<1>3. CASE EncodeBytes
  BY <1>3, TypesEncodeBytes
<1>4. CASE EncodeEnd
  BY <1>4, TypesEncodeEnd
<1>5. CASE Deliver
  BY <1>5, TypesDeliver
<1>6. CASE DecodeSkipped
  BY <1>6, TypesDecodeSkipped
<1>7. CASE DecodeBits
  BY <1>7, TypesDecodeBits
<1>8. CASE DecodeBytes
  BY <1>8, TypesDecodeBytes
<1>9. CASE DecodeFails
  BY <1>9 DEF DecodeFails, Types, CodecTypeOK, Taken, encoding, decoding
<1>10. CASE DecodeEnd
  BY <1>10 DEF DecodeEnd, Types, CodecTypeOK, Taken, encoding, decoding
<1>11. CASE UNCHANGED vars
  BY <1>11 DEF vars, Types, CodecTypeOK, Taken, encoding, decoding
<1> QED
  BY <1>1, <1>2, <1>3, <1>4, <1>5, <1>6, <1>7, <1>8, <1>9, <1>10, <1>11 DEF Next

\* Every byte is a byte, and the accumulator never holds a bit at or above
\* bit_pos (CodecTypeOK): the bits of the next field are or-ed into zeros,
\* whatever elements and values come before it.
THEOREM CodecTypeCorrect == Spec => []CodecTypeOK
<1>1. Init => Types
  BY TypesInit
<1>2. Types /\ [Next]_vars => Types'
  BY TypesNext
<1>3. Types => CodecTypeOK
  BY DEF Types
<1> QED
  BY <1>1, <1>2, <1>3, PTL DEF Spec

-------------------------------------------------------------------------------
(***************************************************************************)
(* The layout.                                                             *)
(***************************************************************************)
NotAfter(p, q) == p.bytes < q.bytes \/ (p.bytes = q.bytes /\ p.bits <= q.bits)

LEMMA EndsType ==
    ASSUME NEW place \in Places
    PROVE  /\ place.bytes \in Nat /\ place.bits \in 0..7 /\ Ends(place) \in Nat
           /\ place = [bytes |-> place.bytes, bits |-> place.bits]
BY DEF Places, Ends

LEMMA NotAfterEnds ==
    ASSUME NEW p \in Places, NEW q \in Places, NotAfter(p, q)
    PROVE  Ends(p) <= Ends(q)
<1>1. /\ p.bytes \in Nat /\ p.bits \in 0..7
      /\ q.bytes \in Nat /\ q.bits \in 0..7
  BY EndsType
<1> QED
  BY <1>1 DEF NotAfter, Ends

LEMMA NotAfterTransitive ==
    ASSUME NEW p \in Places, NEW q \in Places, NEW r \in Places,
           NotAfter(p, q), NotAfter(q, r)
    PROVE  NotAfter(p, r)
<1>1. /\ p.bytes \in Nat /\ p.bits \in 0..7 /\ q.bytes \in Nat /\ q.bits \in 0..7
      /\ r.bytes \in Nat /\ r.bits \in 0..7
  BY EndsType
<1> QED
  BY <1>1 DEF NotAfter

\* An element ends where it starts, or later.
LEMMA AdvanceShape ==
    ASSUME NEW place \in Places, NEW e \in DataElements
    PROVE  Advance(place, e) \in Places /\ NotAfter(place, Advance(place, e))
<1>1. /\ place.bytes \in Nat /\ place.bits \in 0..7 /\ Ends(place) \in Nat
  BY EndsType
<1>2. CASE Skipped(e)
  BY <1>1, <1>2 DEF Advance, NotAfter
<1>3. CASE ~Skipped(e) /\ BitWidth(e) = 0
  <2> DEFINE after == [bytes |-> Ends(place) + Wanted(e), bits |-> 0]
  <2>1. Wanted(e) \in Nat
    BY WantedType
  <2>2. after \in Places
    BY <1>1, <2>1 DEF Places
  <2>3. Advance(place, e) = after
    BY <1>3 DEF Advance
  <2>4. NotAfter(place, after)
    BY <1>1, <2>1 DEF NotAfter, Ends
  <2> QED
    BY <2>2, <2>3, <2>4
<1>4. CASE ~Skipped(e) /\ BitWidth(e) # 0
  <2>1. PICK w \in Nat \ {0} : w = BitWidth(e)
    BY <1>4, BitWidthType
  <2>2. CASE place.bits + w >= 8
    <3> DEFINE after == [bytes |-> place.bytes + 1, bits |-> 0]
    <3>1. after \in Places /\ NotAfter(place, after)
      BY <1>1 DEF Places, NotAfter
    <3>2. Advance(place, e) = after
      BY <1>4, <2>1, <2>2 DEF Advance
    <3> QED
      BY <3>1, <3>2
  <2>3. CASE place.bits + w < 8
    <3> DEFINE after == [bytes |-> place.bytes, bits |-> place.bits + w]
    <3>1. after \in Places /\ NotAfter(place, after)
      BY <1>1, <2>1, <2>3 DEF Places, NotAfter
    <3>2. Advance(place, e) = after
      BY <1>1, <1>4, <2>1, <2>3 DEF Advance
    <3> QED
      BY <3>1, <3>2
  <2> QED
    BY <1>1, <2>1, <2>2, <2>3
<1> QED
  BY <1>2, <1>3, <1>4

IsLayout(f, fields, n) ==
    f = [i \in 0..n |-> IF i = 0 THEN Start ELSE Advance(f[i - 1], fields[i])]

\* The first n elements have a layout, whatever n.
LEMMA LayoutExists ==
    ASSUME NEW fields, NEW n \in Nat
    PROVE  \E f : IsLayout(f, fields, n)
<1> DEFINE T == {k \in Nat : ~\E f : IsLayout(f, fields, k)}
<1> SUFFICES ASSUME T # {} PROVE FALSE
  OBVIOUS
<1>1. PICK m \in T : \A k \in T : m <= k
  BY LeastElement
<1>2. m # 0
  <2> DEFINE f == [i \in 0..0 |-> Start]
  <2>1. IsLayout(f, fields, 0)
    BY DEF IsLayout
  <2> QED
    BY <2>1
<1>3. m - 1 \in Nat /\ m - 1 \notin T
  BY <1>1, <1>2
<1>4. PICK f : IsLayout(f, fields, m - 1)
  BY <1>3
<1> DEFINE g == [i \in 0..m |-> IF i = 0 THEN Start ELSE Advance(f[i - 1], fields[i])]
<1>5. \A i \in 0..m - 1 : g[i] = f[i]
  BY <1>3, <1>4 DEF IsLayout
<1>6. ASSUME NEW i \in 0..m
      PROVE  (IF i = 0 THEN Start ELSE Advance(f[i - 1], fields[i]))
               = (IF i = 0 THEN Start ELSE Advance(g[i - 1], fields[i]))
  <2>1. CASE i = 0
    BY <2>1
  <2>2. CASE i # 0
    <3>1. i - 1 \in 0..m - 1
      BY <1>3, <2>2
    <3> QED
      BY <1>5, <2>2, <3>1
  <2> QED
    BY <2>1, <2>2
<1>7. IsLayout(g, fields, m)
  BY <1>6 DEF IsLayout
<1> QED
  BY <1>7

LEMMA LayoutUnfold ==
    ASSUME NEW fields, Len(fields) \in Nat
    PROVE  /\ LayoutOf(fields)[0] = Start
           /\ \A i \in 1..Len(fields) :
                LayoutOf(fields)[i] = Advance(LayoutOf(fields)[i - 1], fields[i])
<1> DEFINE f == CHOOSE g : IsLayout(g, fields, Len(fields))
<1>1. LayoutOf(fields) = f
  BY DEF LayoutOf, IsLayout
<1>2. IsLayout(f, fields, Len(fields))
  BY LayoutExists
<1> HIDE DEF f
<1>3. f[0] = Start
  BY <1>2 DEF IsLayout
<1>4. \A i \in 1..Len(fields) : f[i] = Advance(f[i - 1], fields[i])
  BY <1>2 DEF IsLayout
<1> QED
  BY <1>1, <1>3, <1>4

LEMMA LayoutType ==
    ASSUME NEW fields \in Seq(DataElements), NEW i \in 0..Len(fields)
    PROVE  LayoutOf(fields)[i] \in Places
<1> DEFINE T == {k \in 0..Len(fields) : LayoutOf(fields)[k] \notin Places}
<1> SUFFICES ASSUME T # {} PROVE FALSE
  OBVIOUS
<1>a. T \in SUBSET Nat /\ Len(fields) \in Nat
  OBVIOUS
<1>1. PICK m \in T : \A k \in T : m <= k
  BY <1>a, LeastElement
<1>2. m # 0
  BY <1>a, LayoutUnfold DEF Start, Places
<1>3. m - 1 \in 0..Len(fields) /\ m - 1 \notin T /\ m \in 1..Len(fields)
  BY <1>1, <1>2
<1>4. fields[m] \in DataElements
  BY <1>3, ElementOfSeq
<1>5. LayoutOf(fields)[m] = Advance(LayoutOf(fields)[m - 1], fields[m])
  BY <1>a, <1>3, LayoutUnfold
<1>6. LayoutOf(fields)[m - 1] \in Places
  BY <1>3
<1> QED
  BY <1>4, <1>5, <1>6, AdvanceShape

\* What comes later in the packet lies further on in its bytes.
LEMMA LayoutOrder ==
    ASSUME NEW fields \in Seq(DataElements),
           NEW i \in 0..Len(fields), NEW j \in i..Len(fields)
    PROVE  NotAfter(LayoutOf(fields)[i], LayoutOf(fields)[j])
<1> DEFINE T == {k \in i..Len(fields) :
                   ~NotAfter(LayoutOf(fields)[i], LayoutOf(fields)[k])}
<1> SUFFICES ASSUME T # {} PROVE FALSE
  OBVIOUS
<1>a. T \in SUBSET Nat /\ Len(fields) \in Nat
  OBVIOUS
<1>1. PICK m \in T : \A k \in T : m <= k
  BY <1>a, LeastElement
<1>2. LayoutOf(fields)[i] \in Places
  BY LayoutType
<1>3. m # i
  BY <1>2, EndsType DEF NotAfter
<1>4. m - 1 \in i..Len(fields) /\ m - 1 \notin T /\ m \in 1..Len(fields)
  BY <1>1, <1>3
<1>5. fields[m] \in DataElements
  BY <1>4, ElementOfSeq
<1>6. LayoutOf(fields)[m] = Advance(LayoutOf(fields)[m - 1], fields[m])
  BY <1>a, <1>4, LayoutUnfold
<1>7. LayoutOf(fields)[m - 1] \in Places /\ LayoutOf(fields)[m] \in Places
  <2>1. m - 1 \in 0..Len(fields) /\ m \in 0..Len(fields)
    BY <1>4
  <2> QED
    BY <2>1, LayoutType
<1>8. NotAfter(LayoutOf(fields)[m - 1], LayoutOf(fields)[m])
  BY <1>5, <1>6, <1>7, AdvanceShape
<1>9. NotAfter(LayoutOf(fields)[i], LayoutOf(fields)[m - 1])
  BY <1>4
<1>10. NotAfter(LayoutOf(fields)[i], LayoutOf(fields)[m])
  BY <1>2, <1>7, <1>8, <1>9, NotAfterTransitive
<1> QED
  BY <1>10

LEMMA PlacesHere ==
    ASSUME CodecTypeOK
    PROVE  /\ packet.fields \in Seq(DataElements) /\ Len(packet.fields) \in Nat
           /\ Layout[0] = Start
           /\ \A i \in 0..Len(packet.fields) : Layout[i] \in Places
           /\ \A i \in 1..Len(packet.fields) :
                Layout[i] = Advance(Layout[i - 1], packet.fields[i])
           /\ \A i \in 0..Len(packet.fields) : \A j \in i..Len(packet.fields) :
                NotAfter(Layout[i], Layout[j])
<1>1. packet.fields \in Seq(DataElements)
  BY PacketsAssumption DEF CodecTypeOK
<1>2. Len(packet.fields) \in Nat
  BY <1>1
<1> QED
  BY <1>1, <1>2, LayoutUnfold, LayoutType, LayoutOrder DEF Layout

LEMMA LayoutInit ==
    ASSUME Init
    PROVE  OneLayout
<1>1. next - 1 = 0 /\ Len(out) = 0 /\ pos = 0 /\ stage = "encode"
  BY DEF Init
<1>2. Layout[0] = Start
  BY PlacesHere, TypesInit DEF Types
<1>3. Encodes
  BY <1>1, <1>2 DEF Encodes, Start
<1>4. Decodes
  BY <1>1 DEF Decodes, Decoding
<1> QED
  BY <1>3, <1>4 DEF OneLayout

\* A step of encode that goes where the element ends keeps to the layout.
LEMMA LayoutGrows ==
    ASSUME Types, Encodes, stage = "encode", next <= Len(packet.fields),
           stage' = stage, packet' = packet, next' = next + 1,
           [bytes |-> Len(out'), bits |-> pos'] =
              Advance([bytes |-> Len(out), bits |-> pos], Element)
    PROVE  OneLayout'
<1>1. next \in 1..Len(packet.fields)
  BY ElementShape DEF Types
<1>2. Layout[next - 1] = [bytes |-> Len(out), bits |-> pos]
  BY DEF Encodes
<1>3. Layout[next] = [bytes |-> Len(out'), bits |-> pos']
  BY <1>1, <1>2, PlacesHere DEF Types, Element
<1>4. next' - 1 = next /\ Layout' = Layout
  BY <1>1 DEF Layout
<1>5. Encodes'
  BY <1>3, <1>4 DEF Encodes
<1>6. Decodes'
  BY DEF Decodes, Decoding
<1> QED
  BY <1>5, <1>6 DEF OneLayout

LEMMA LayoutEncodeSkipped ==
    ASSUME Types, OneLayout, NoDependentValue, EncodeSkipped
    PROVE  OneLayout'
<1>1. Encodes
  BY DEF OneLayout
<1>2. [bytes |-> Len(out'), bits |-> pos'] =
         Advance([bytes |-> Len(out), bits |-> pos], Element)
  BY DEF Advance, EncodeSkipped, encoding
<1> QED
  BY <1>1, <1>2, LayoutGrows DEF EncodeSkipped

LEMMA LayoutEncodeBits ==
    ASSUME Types, OneLayout, NoDependentValue, EncodeBits
    PROVE  OneLayout'
<1>1. Encodes
  BY DEF OneLayout
<1>2. PICK w \in Nat \ {0} : w = BitWidth(Element)
  BY ElementShape, BitWidthType DEF Types, EncodeBits
<1>3. PICK filled :
        IF pos + w >= 8 THEN out' = Append(out, filled) /\ pos' = 0
                        ELSE out' = out /\ pos' = pos + w
  BY <1>2 DEF EncodeBits, PutBits
<1>4. Len(Append(out, filled)) = Len(out) + 1
  <2>1. out \in Seq((0..255) \cup {filled})
    BY SeqMonotonic DEF Types, CodecTypeOK
  <2> QED
    BY <2>1
<1> DEFINE place == [bytes |-> Len(out), bits |-> pos]
<1>5. Advance(place, Element) = IF place.bits + w >= 8
                                THEN [bytes |-> place.bytes + 1, bits |-> 0]
                                ELSE [bytes |-> place.bytes, bits |-> place.bits + w]
  <2>1. ~Skipped(Element) /\ BitWidth(Element) # 0
    BY <1>2 DEF EncodeBits
  <2> QED
    BY <1>2, <2>1 DEF Advance
<1>6. [bytes |-> Len(out'), bits |-> pos'] = Advance(place, Element)
  BY <1>3, <1>4, <1>5
<1> QED
  BY <1>1, <1>6, LayoutGrows DEF EncodeBits

LEMMA LayoutEncodeBytes ==
    ASSUME Types, OneLayout, NoDependentValue, EncodeBytes
    PROVE  OneLayout'
<1>1. Encodes
  BY DEF OneLayout
<1>2. /\ next \in 1..Len(packet.fields)
      /\ Element \in DataElements /\ Value \in Seq(Int)
      /\ Encodable(Element) /\ IsValue(Element, Value)
  BY ElementShape DEF EncodeBytes, Types
<1>3. Element.dependent => Value = <<>>
  <2>1. DOMAIN packet.fields = 1..Len(packet.fields)
    BY PacketsAssumption DEF Types, CodecTypeOK
  <2> QED
    BY <1>2, <2>1 DEF NoDependentValue, Elements, Element, Value
<1>4. BytesOf(Element, Value) \in Seq(0..255)
  BY <1>2, BytesOfShape DEF EncodeBytes
<1>5. Len(BytesOf(Element, Value)) = Wanted(Element)
  BY <1>2, <1>3, BytesOfShape DEF EncodeBytes
<1>6. out' = Flushed \o BytesOf(Element, Value)
  BY DEF EncodeBytes, BytesOf
<1>7. /\ Flushed \in Seq(0..255)
      /\ Len(Flushed) = Len(out) + (IF pos > 0 THEN 1 ELSE 0)
  BY FlushedShape DEF Types
<1>8. Len(out') = Len(out) + (IF pos > 0 THEN 1 ELSE 0) + Wanted(Element)
  <2>1. ASSUME NEW s \in Seq(0..255), NEW t \in Seq(0..255)
        PROVE  Len(s \o t) = Len(s) + Len(t)
    OBVIOUS
  <2>2. Len(out') = Len(Flushed) + Len(BytesOf(Element, Value))
    BY <1>4, <1>6, <1>7, <2>1
  <2> QED
    BY <1>5, <1>7, <2>2
<1> DEFINE place == [bytes |-> Len(out), bits |-> pos]
<1>9. Advance(place, Element) = [bytes |-> Len(out'), bits |-> 0]
  <2>1. Advance(place, Element) = [bytes |-> Ends(place) + Wanted(Element), bits |-> 0]
    BY DEF Advance, EncodeBytes
  <2>2. Ends(place) = Len(out) + (IF pos > 0 THEN 1 ELSE 0)
    BY DEF Ends
  <2> QED
    BY <1>8, <2>1, <2>2
<1>10. [bytes |-> Len(out'), bits |-> pos'] = Advance(place, Element)
  BY <1>9 DEF EncodeBytes
<1> QED
  BY <1>1, <1>10, LayoutGrows DEF EncodeBytes

LEMMA LayoutEncodeEnd ==
    ASSUME Types, OneLayout, NoDependentValue, EncodeEnd
    PROVE  OneLayout'
<1>1. Encodes /\ Len(packet.fields) \in Nat
  BY PlacesHere DEF OneLayout, Types
<1>2. next - 1 = Len(packet.fields)
  BY <1>1 DEF Types, CodecTypeOK, EncodeEnd
<1>3. Layout[Len(packet.fields)] = [bytes |-> Len(out), bits |-> pos]
  BY <1>1, <1>2 DEF Encodes, EncodeEnd
<1>4. Len(out') = Ends(Layout[Len(packet.fields)])
  BY <1>3, FlushedShape DEF Ends, Types, EncodeEnd
<1>5. Encodes'
  BY <1>4 DEF Encodes, Layout, EncodeEnd
<1>6. Decodes'
  BY DEF Decodes, Decoding, EncodeEnd
<1> QED
  BY <1>5, <1>6 DEF OneLayout

LEMMA LayoutDeliver ==
    ASSUME Types, OneLayout, NoDependentValue, Deliver
    PROVE  OneLayout'
<1>1. Encodes
  BY DEF OneLayout
<1>2. PICK n \in 0..Len(out) : arrived' = n /\ input' = SubSeq(out, 1, n)
  BY DEF Deliver
<1>3. Len(input') = n
  <2>1. 1 \in 1..Len(out) + 1 /\ n \in 1 - 1..Len(out)
    BY DEF Types, CodecTypeOK
  <2>2. out \in Seq(0..255)
    BY DEF Types, CodecTypeOK
  <2>3. Len(SubSeq(out, 1, n)) = n - 1 + 1
    BY <2>1, <2>2, SliceShape
  <2> QED
    BY <1>2, <2>3
<1>4. Encodes'
  BY <1>1 DEF Encodes, Layout, Deliver, encoding
<1>5. Decodes'
  <2>1. Layout[0] = Start /\ Layout' = Layout
    BY PlacesHere DEF Types, Layout, Deliver
  <2>2. Ends(Layout[0]) = 0 /\ Layout[0].bits = 0
    BY <2>1 DEF Start, Ends
  <2>3. next' - 1 = 0 /\ at' = 8
    BY DEF Deliver
  <2>4. arrived' = Ends(Layout[0]) + Len(input')
    BY <1>2, <1>3, <2>2
  <2>5. arrived' = Ends(Layout'[next' - 1]) + Len(input') /\ Layout'[next' - 1].bits = 0
    BY <2>1, <2>2, <2>3, <2>4
  <2>6. ~(Layout'[next' - 1].bits > 0) /\ at' >= 8
    BY <2>3, <2>5
  <2> QED
    BY <2>5, <2>6 DEF Decodes
<1> QED
  BY <1>4, <1>5 DEF OneLayout

\* Where the element decode is about to read begins and ends.
LEMMA ElementPlaces ==
    ASSUME Types, Encodes, stage = "decode", next <= Len(packet.fields)
    PROVE  /\ Layout[next - 1] \in Places /\ Layout[next] \in Places
           /\ Layout[next] = Advance(Layout[next - 1], Element)
           /\ Ends(Layout[next]) <= Len(out)
<1>1. next \in 1..Len(packet.fields) /\ Len(packet.fields) \in Nat
  BY ElementShape DEF Types
<1>2. Len(out) = Ends(Layout[Len(packet.fields)])
  BY DEF Encodes
<1>3. /\ next - 1 \in 0..Len(packet.fields) /\ next \in 0..Len(packet.fields)
      /\ Len(packet.fields) \in next..Len(packet.fields)
      /\ Len(packet.fields) \in 0..Len(packet.fields)
  BY <1>1
<1>4. /\ Layout[next] \in Places /\ Layout[Len(packet.fields)] \in Places
      /\ NotAfter(Layout[next], Layout[Len(packet.fields)])
  BY <1>3, PlacesHere DEF Types
<1>5. Ends(Layout[next]) <= Len(out)
  BY <1>2, <1>4, NotAfterEnds
<1> QED
  BY <1>1, <1>3, <1>5, PlacesHere DEF Types, Element

\* A step of decode that goes where the element ends keeps to the layout.
LEMMA LayoutRead ==
    ASSUME Types, Encodes, stage = "decode",
           stage' = stage, packet' = packet, next' = next + 1, out' = out,
           next <= Len(packet.fields),
           arrived' = Ends(Layout[next]) + Len(input'),
           IF Layout[next].bits > 0 THEN at' = Layout[next].bits ELSE at' >= 8
    PROVE  OneLayout'
<1>1. next' - 1 = next /\ Layout' = Layout
  BY ElementShape DEF Types, Layout
<1>2. Encodes'
  BY <1>1 DEF Encodes
<1>3. Decodes'
  BY <1>1 DEF Decodes
<1> QED
  BY <1>2, <1>3 DEF OneLayout

LEMMA LayoutDecodeSkipped ==
    ASSUME Types, OneLayout, NoDependentValue, DecodeSkipped
    PROVE  OneLayout'
<1>1. Encodes /\ Decodes
  BY DEF OneLayout
<1>2. Layout[next] = Layout[next - 1]
  BY <1>1, ElementPlaces DEF Advance, DecodeSkipped
<1>3. arrived' = Ends(Layout[next]) + Len(input')
  BY <1>1, <1>2 DEF Decodes, Decoding, DecodeSkipped
<1>4. IF Layout[next].bits > 0 THEN at' = Layout[next].bits ELSE at' >= 8
  BY <1>1, <1>2 DEF Decodes, Decoding, DecodeSkipped
<1> QED
  BY <1>1, <1>3, <1>4, LayoutRead DEF DecodeSkipped, encoding

LEMMA LayoutDecodeBits ==
    ASSUME Types, OneLayout, NoDependentValue, DecodeBits
    PROVE  OneLayout'
<1>1. Encodes /\ Decodes
  BY DEF OneLayout
<1>2. PICK w \in Nat \ {0} : w = BitWidth(Element)
  BY ElementShape, BitWidthType DEF Types, DecodeBits
<1>3. PICK place \in Places : place = Layout[next - 1]
  BY <1>1, ElementPlaces DEF DecodeBits
<1>4. Layout[next] = IF place.bits + w >= 8
                THEN [bytes |-> place.bytes + 1, bits |-> 0]
                ELSE [bytes |-> place.bytes, bits |-> place.bits + w]
  <2>1. ~Skipped(Element) /\ BitWidth(Element) # 0
    BY <1>2 DEF DecodeBits
  <2>2. Layout[next] = Advance(place, Element)
    BY <1>1, <1>3, ElementPlaces DEF DecodeBits
  <2> QED
    BY <1>2, <2>1, <2>2 DEF Advance
<1>5. /\ place.bytes \in Nat /\ place.bits \in 0..7
      /\ arrived = Ends(place) + Len(input)
      /\ IF place.bits > 0 THEN at = place.bits ELSE at >= 8
  BY <1>1, <1>3, EndsType DEF Decodes, Decoding, DecodeBits
<1>6. input \in Seq(0..255) /\ at \in Nat
  BY DEF Types, CodecTypeOK
<1>7. Ends(Layout[next]) = place.bytes + 1
  BY <1>2, <1>4, <1>5 DEF Ends
<1>8. CASE at >= 8
  <2>1. place.bits = 0 /\ Ends(place) = place.bytes
    BY <1>5, <1>8 DEF Ends
  <2>2. Len(input') = Len(input) - 1
    <3>1. input # <<>> /\ input' = Tail(input)
      BY <1>6, <1>8 DEF DecodeBits
    <3> QED
      BY <1>6, <3>1, HeadTailProperties
  <2>3. at' = w
    BY <1>2, <1>8 DEF DecodeBits
  <2>4. arrived' = Ends(Layout[next]) + Len(input')
    <3>1. Len(input) \in Nat /\ arrived' = arrived
      BY <1>6 DEF DecodeBits
    <3> QED
      BY <1>5, <1>7, <2>1, <2>2, <3>1
  <2>5. IF Layout[next].bits > 0 THEN at' = Layout[next].bits ELSE at' >= 8
    BY <1>2, <1>4, <1>5, <2>1, <2>3
  <2> QED
    BY <1>1, <2>4, <2>5, LayoutRead DEF DecodeBits, encoding
<1>9. CASE at < 8
  <2>1. place.bits > 0 /\ at = place.bits /\ Ends(place) = place.bytes + 1
    BY <1>5, <1>9, <1>6 DEF Ends
  <2>2. input' = input /\ arrived' = arrived /\ at' = at + w
    BY <1>2, <1>6, <1>9 DEF DecodeBits
  <2>3. arrived' = Ends(Layout[next]) + Len(input')
    BY <1>5, <1>7, <2>1, <2>2
  <2>4. IF Layout[next].bits > 0 THEN at' = Layout[next].bits ELSE at' >= 8
    BY <1>2, <1>4, <1>5, <2>1, <2>2
  <2> QED
    BY <1>1, <2>3, <2>4, LayoutRead DEF DecodeBits, encoding
<1> QED
  BY <1>6, <1>8, <1>9

LEMMA LayoutDecodeBytes ==
    ASSUME Types, OneLayout, NoDependentValue, DecodeBytes
    PROVE  OneLayout'
<1>1. Encodes /\ Decodes
  BY DEF OneLayout
<1>2. PICK w \in Nat : w = Wanted(Element)
  BY ElementShape, WantedType DEF Types, DecodeBytes
<1>3. Layout[next] = [bytes |-> Ends(Layout[next - 1]) + w, bits |-> 0]
  <2>1. Layout[next] = Advance(Layout[next - 1], Element)
    BY <1>1, ElementPlaces DEF DecodeBytes
  <2> QED
    BY <1>2, <2>1 DEF Advance, DecodeBytes
<1>4. Ends(Layout[next - 1]) \in Nat
  BY <1>1, ElementPlaces, EndsType DEF DecodeBytes
<1>5. Ends(Layout[next]) = Ends(Layout[next - 1]) + w
  BY <1>2, <1>3, <1>4 DEF Ends
<1>6. Len(input') = Len(input) - w
  <2>1. input \in Seq(0..255)
    BY DEF Types, CodecTypeOK
  <2>2. Len(input) \in Nat /\ Len(input) >= w
    BY <1>2, <2>1 DEF DecodeBytes
  <2>3. w + 1 \in 1..Len(input) + 1 /\ Len(input) \in (w + 1) - 1..Len(input)
    BY <2>2
  <2>4. Len(SubSeq(input, w + 1, Len(input))) = Len(input) - (w + 1) + 1
    BY <2>1, <2>3, SliceShape
  <2>5. input' = SubSeq(input, w + 1, Len(input))
    BY <1>2 DEF DecodeBytes
  <2> QED
    BY <2>2, <2>4, <2>5
<1>7. arrived' = Ends(Layout[next]) + Len(input')
  <2>1. Len(input) \in Nat /\ arrived' = arrived
    BY DEF Types, CodecTypeOK, DecodeBytes
  <2>2. arrived = Ends(Layout[next - 1]) + Len(input)
    BY <1>1 DEF Decodes, Decoding, DecodeBytes
  <2> QED
    BY <1>4, <1>5, <1>6, <2>1, <2>2
<1>8. IF Layout[next].bits > 0 THEN at' = Layout[next].bits ELSE at' >= 8
  BY <1>3 DEF DecodeBytes
<1> QED
  BY <1>1, <1>7, <1>8, LayoutRead DEF DecodeBytes, encoding

LEMMA FailsShort ==
    ASSUME Types, OneLayout, NoDependentValue, DecodeFails
    PROVE  arrived < Len(out)
<1>1. Encodes /\ Decodes
  BY DEF OneLayout
<1>2. PICK place \in Places : place = Layout[next - 1]
  BY <1>1, ElementPlaces DEF DecodeFails
<1>3. /\ place.bytes \in Nat /\ place.bits \in 0..7 /\ Ends(place) \in Nat
      /\ arrived = Ends(place) + Len(input)
      /\ IF place.bits > 0 THEN at = place.bits ELSE at >= 8
  BY <1>1, <1>2, EndsType DEF Decodes, Decoding, DecodeFails
<1>4. Layout[next] = Advance(place, Element) /\ Ends(Layout[next]) <= Len(out)
  BY <1>1, <1>2, ElementPlaces DEF DecodeFails
<1>5. Len(input) \in Nat /\ Len(out) \in Nat /\ ~Skipped(Element)
  BY DEF Types, CodecTypeOK, DecodeFails
<1>6. CASE BitWidth(Element) > 0
  <2>1. PICK w \in Nat \ {0} : w = BitWidth(Element)
    BY <1>6, ElementShape, BitWidthType DEF Types, DecodeFails
  <2>2. at >= 8 /\ Len(input) = 0
    BY <1>6 DEF DecodeFails
  <2>3. place.bits = 0 /\ Ends(place) = place.bytes
    BY <1>3, <2>2 DEF Ends
  <2>4. Layout[next] = IF place.bits + w >= 8
                  THEN [bytes |-> place.bytes + 1, bits |-> 0]
                  ELSE [bytes |-> place.bytes, bits |-> place.bits + w]
    BY <1>4, <1>5, <2>1 DEF Advance
  <2>5. Ends(Layout[next]) = place.bytes + 1
    BY <1>3, <2>1, <2>4 DEF Ends
  <2> QED
    BY <1>3, <1>4, <1>5, <2>2, <2>3, <2>5
<1>7. CASE BitWidth(Element) = 0
  <2>1. PICK w \in Nat : w = Wanted(Element)
    BY ElementShape, WantedType DEF Types, DecodeFails
  <2>2. Len(input) < w
    BY <1>7, <2>1 DEF DecodeFails
  <2>3. Layout[next] = [bytes |-> Ends(place) + w, bits |-> 0]
    BY <1>4, <1>5, <1>7, <2>1 DEF Advance
  <2>4. Ends(Layout[next]) = Ends(place) + w
    BY <1>3, <2>1, <2>3 DEF Ends
  <2> QED
    BY <1>3, <1>4, <1>5, <2>2, <2>4
<1> QED
  BY <1>6, <1>7, ElementShape, BitWidthType DEF Types, DecodeFails

LEMMA LayoutNext ==
    ASSUME Types, OneLayout, [Next]_vars
    PROVE  OneLayout'
<1>1. packet' = packet
  BY DEF Next, vars, EncodeSkipped, EncodeBits, EncodeBytes, EncodeEnd, Deliver,
         DecodeSkipped, DecodeBits, DecodeBytes, DecodeFails, DecodeEnd
<1>2. CASE ~NoDependentValue
  <2>1. ~NoDependentValue'
    BY <1>1, <1>2 DEF NoDependentValue, Elements
  <2> QED
    BY <2>1 DEF OneLayout
<1>3. CASE NoDependentValue
  <2>1. CASE EncodeSkipped
    BY <1>3, <2>1, LayoutEncodeSkipped
  <2>2. CASE EncodeBits
    BY <1>3, <2>2, LayoutEncodeBits
  <2>3. CASE EncodeBytes
    BY <1>3, <2>3, LayoutEncodeBytes
  <2>4. CASE EncodeEnd
    BY <1>3, <2>4, LayoutEncodeEnd
  <2>5. CASE Deliver
    BY <1>3, <2>5, LayoutDeliver
  <2>6. CASE DecodeSkipped
    BY <1>3, <2>6, LayoutDecodeSkipped
  <2>7. CASE DecodeBits
    BY <1>3, <2>7, LayoutDecodeBits
  <2>8. CASE DecodeBytes
    BY <1>3, <2>8, LayoutDecodeBytes
  <2>9. CASE DecodeFails \/ DecodeEnd
    <3>1. Encodes /\ Decodes
      BY <1>3 DEF OneLayout
    <3>2. /\ stage = "decode" /\ stage' \in {"decoded", "failed"}
          /\ UNCHANGED <<packet, next, out, pos, arrived, input, at>>
      BY <2>9 DEF DecodeFails, DecodeEnd, encoding, decoding
    <3>3. Encodes'
      BY <3>1, <3>2 DEF Encodes, Layout
    <3>4. Decodes'
      BY <3>1, <3>2 DEF Layout, Decodes, Decoding
    <3> QED
      BY <3>3, <3>4 DEF OneLayout
  <2>10. CASE UNCHANGED vars
    <3>1. Encodes /\ Decodes
      BY <1>3 DEF OneLayout
    <3>2. UNCHANGED <<packet, stage, next, out, pos, arrived, input, at>>
      BY <2>10 DEF vars, encoding, decoding
    <3>3. Encodes'
      BY <3>1, <3>2 DEF Encodes, Layout
    <3>4. Decodes'
      BY <3>1, <3>2 DEF Layout, Decodes, Decoding
    <3> QED
      BY <3>3, <3>4 DEF OneLayout
  <2> QED
    BY <2>1, <2>2, <2>3, <2>4, <2>5, <2>6, <2>7, <2>8, <2>9, <2>10 DEF Next
<1> QED
  BY <1>2, <1>3

LEMMA OutcomeNext ==
    ASSUME Types, OneLayout, Outcome, [Next]_vars
    PROVE  Outcome'
<1>1. CASE DecodeEnd
  <2>1. next = Len(packet.fields) + 1
    <3>1. Len(packet.fields) \in Nat
      BY PacketsAssumption DEF Types, CodecTypeOK
    <3> QED
      BY <1>1, <3>1 DEF Types, CodecTypeOK, DecodeEnd
  <2> QED
    BY <1>1, <2>1 DEF Outcome, DecodeEnd
<1>2. CASE DecodeFails
  <2>1. /\ UNCHANGED <<packet, arrived, out>> /\ stage' = "failed"
    BY <1>2 DEF DecodeFails, encoding, decoding
  <2>2. NoDependentValue' => NoDependentValue
    BY <2>1 DEF NoDependentValue, Elements
  <2>3. NoDependentValue => arrived < Len(out)
    BY <1>2, FailsShort
  <2> QED
    BY <2>1, <2>2, <2>3 DEF Outcome
<1>3. CASE UNCHANGED vars
  BY <1>3 DEF Outcome, NoDependentValue, Elements, vars, encoding, decoding
<1>4. CASE stage' \notin {"decoded", "failed"}
  BY <1>4 DEF Outcome
<1> QED
  BY <1>1, <1>2, <1>3, <1>4
     DEF Next, EncodeSkipped, EncodeBits, EncodeBytes, EncodeEnd, Deliver,
         DecodeSkipped, DecodeBits, DecodeBytes

LEMMA WholeFollows ==
    ASSUME CodecInv
    PROVE  WholeOrNothing
<1> SUFFICES ASSUME NoDependentValue
             PROVE  /\ stage = "decoded" => arrived = Len(out) /\ input = <<>>
                    /\ stage = "failed" => arrived < Len(out)
  BY DEF WholeOrNothing
<1>1. stage = "failed" => arrived < Len(out)
  BY DEF CodecInv, Outcome
<1>2. ASSUME stage = "decoded" PROVE arrived = Len(out) /\ input = <<>>
  <2>1. Encodes /\ Decodes
    BY DEF CodecInv, OneLayout
  <2>2. next - 1 = Len(packet.fields)
    <3>1. Len(packet.fields) \in Nat
      BY PacketsAssumption DEF CodecInv, CodecTypeOK
    <3> QED
      BY <1>2, <3>1 DEF CodecInv, Outcome
  <2>3. arrived = Len(out) + Len(input)
    BY <1>2, <2>1, <2>2 DEF Encodes, Decodes, Decoding
  <2>4. input \in Seq(0..255) /\ arrived <= Len(out) /\ Len(out) \in Nat
    BY DEF CodecInv, CodecTypeOK
  <2>5. Len(input) = 0
    BY <2>3, <2>4
  <2> QED
    BY <2>3, <2>4, <2>5
<1> QED
  BY <1>1, <1>2

\* encode and decode agree on where bytes begin and end (WholeOrNothing):
\* decode succeeds only on the complete packet and takes all of it, and returns
\* None for every proper prefix, whatever the elements and their values.
THEOREM PacketsAreWhole == Spec => []WholeOrNothing
<1>1. Init => CodecInv
  BY TypesInit, LayoutInit DEF CodecInv, Types, Outcome, Init
<1>2. CodecInv /\ [Next]_vars => CodecInv'
  BY TypesNext, LayoutNext, OutcomeNext DEF CodecInv, Types
<1>3. CodecInv => WholeOrNothing
  BY WholeFollows
<1> QED
  BY <1>1, <1>2, <1>3, PTL DEF Spec

-------------------------------------------------------------------------------
(***************************************************************************)
(* A number, encoded and decoded.                                          *)
(***************************************************************************)
\* A quotient is rounded to the integer next to it.
LEMMA RoundClose ==
    ASSUME NEW n \in Int, NEW d \in Nat \ {0}
    PROVE  /\ 2 * (Round(n, d) * d) <= 2 * n + d
           /\ 2 * n - d <= 2 * (Round(n, d) * d)
<1>1. ASSUME NEW a \in Int, NEW b \in Nat \ {0}
      PROVE  /\ a \div b \in Int
             /\ (a \div b) * b <= a /\ a < (a \div b) * b + b
  OBVIOUS
<1>2. CASE n >= 0
  <2>0. PICK b \in Nat \ {0} : b = 2 * d
    OBVIOUS
  <2>1. PICK q \in Int : q = (2 * n + d) \div b
    BY <1>1
  <2>2. q * b <= 2 * n + d /\ 2 * n + d < q * b + b
    BY <1>1, <2>1
  <2>3. q * b = 2 * (q * d) /\ q * d \in Int
    BY <2>0
  <2>4. Round(n, d) = q
    BY <1>2, <2>0, <2>1 DEF Round
  <2> QED
    BY <2>0, <2>2, <2>3, <2>4
<1>3. CASE ~(n >= 0)
  <2>0. PICK b \in Nat \ {0} : b = 2 * d
    OBVIOUS
  <2>1. PICK q \in Int : q = (d - 2 * n) \div b
    BY <1>1
  <2>2. q * b <= d - 2 * n /\ d - 2 * n < q * b + b
    BY <1>1, <2>1
  <2>3. (-q) * d = -(q * d) /\ q * b = 2 * (q * d) /\ q * d \in Int
    BY <2>0
  <2>4. Round(n, d) = -q
    BY <1>3, <2>0, <2>1 DEF Round
  <2> QED
    BY <2>0, <2>2, <2>3, <2>4
<1> QED
  BY <1>2, <1>3

\* One that lies between two integers stays between them.
LEMMA RoundBetween ==
    ASSUME NEW n \in Int, NEW d \in Nat \ {0}, NEW lo \in Int, NEW hi \in Int,
           lo * d <= n, n <= hi * d
    PROVE  lo <= Round(n, d) /\ Round(n, d) <= hi
<1>1. PICK r \in Int : r = Round(n, d)
  BY RoundType
<1>2. 2 * (r * d) <= 2 * n + d /\ 2 * n - d <= 2 * (r * d)
  BY <1>1, RoundClose
<1>3. ASSUME r >= hi + 1 PROVE FALSE
  <2>1. (hi + 1) * d <= r * d
    BY <1>3
  <2>2. (hi + 1) * d = hi * d + d /\ hi * d \in Int /\ r * d \in Int
    OBVIOUS
  <2> QED
    BY <1>2, <2>1, <2>2
<1>4. ASSUME r <= lo - 1 PROVE FALSE
  <2>1. r * d <= (lo - 1) * d
    BY <1>4
  <2>2. (lo - 1) * d = lo * d - d /\ lo * d \in Int /\ r * d \in Int
    OBVIOUS
  <2> QED
    BY <1>2, <2>1, <2>2
<1> QED
  BY <1>1, <1>3, <1>4

\* The error of a number: half a step of the wire's, half a unit of decode's.
LEMMA RoundedTwice ==
    ASSUME NEW v \in Int, NEW num \in Nat \ {0}, NEW den \in Nat \ {0}
    PROVE  LET raw == Round(v * num, den)
               got == Round(raw * den, num)
           IN  /\ 2 * ((got - v) * num) <= den + num
               /\ 2 * ((v - got) * num) <= den + num
<1>1. v * num \in Int
  OBVIOUS
<1>2. PICK raw \in Int : raw = Round(v * num, den)
  BY <1>1, RoundType
<1>3. raw * den \in Int
  OBVIOUS
<1>4. PICK got \in Int : got = Round(raw * den, num)
  BY <1>3, RoundType
<1>5. 2 * (raw * den) <= 2 * (v * num) + den /\ 2 * (v * num) - den <= 2 * (raw * den)
  BY <1>1, <1>2, RoundClose
<1>6. 2 * (got * num) <= 2 * (raw * den) + num /\ 2 * (raw * den) - num <= 2 * (got * num)
  BY <1>3, <1>4, RoundClose
<1>7. (got - v) * num = got * num - v * num /\ (v - got) * num = v * num - got * num
        /\ got * num \in Int
  OBVIOUS
<1>8. 2 * ((got - v) * num) <= den + num /\ 2 * ((v - got) * num) <= den + num
  BY <1>1, <1>3, <1>5, <1>6, <1>7
<1> QED
  BY <1>2, <1>4, <1>8

\* The integers of a byte: what is above the last byte of a wire integer.
Leading(signed) == IF signed THEN -128..127 ELSE 0..255

Tops(bytes, signed) == IF signed /\ bytes[1] >= 128 THEN bytes[1] - 256 ELSE bytes[1]

IsHorner(f, bytes, top, n) ==
    f = [k \in 1..n |-> IF k = 1 THEN top ELSE 256 * f[k - 1] + bytes[k]]

LEMMA HornerExists ==
    ASSUME NEW bytes, NEW top, NEW n \in Nat
    PROVE  \E f : IsHorner(f, bytes, top, n)
<1> DEFINE T == {k \in Nat : ~\E f : IsHorner(f, bytes, top, k)}
           H(f, k) == IF k = 1 THEN top ELSE 256 * f[k - 1] + bytes[k]
<1> SUFFICES ASSUME T # {} PROVE FALSE
  OBVIOUS
<1>1. PICK m \in T : \A k \in T : m <= k
  BY LeastElement
<1>2. m # 0
  <2> DEFINE f == [k \in 1..0 |-> 0]
  <2>1. IsHorner(f, bytes, top, 0)
    BY DEF IsHorner
  <2> QED
    BY <2>1
<1>3. m - 1 \in Nat /\ m - 1 \notin T
  BY <1>1, <1>2
<1>4. PICK f : IsHorner(f, bytes, top, m - 1)
  BY <1>3
<1> DEFINE g == [k \in 1..m |-> H(f, k)]
<1>5. \A k \in 1..m - 1 : g[k] = f[k]
  BY <1>3, <1>4 DEF IsHorner
<1>6. ASSUME NEW k \in 1..m PROVE H(f, k) = H(g, k)
  <2>1. CASE k = 1
    BY <2>1
  <2>2. CASE k # 1
    <3>1. k - 1 \in 1..m - 1
      BY <1>3, <2>2
    <3>2. g[k - 1] = f[k - 1]
      BY <1>5, <3>1
    <3> QED
      BY <3>2
  <2> QED
    BY <2>1, <2>2
<1>7. g = [k \in 1..m |-> H(g, k)]
  <2> HIDE DEF H
  <2> QED
    BY <1>6
<1>8. IsHorner(g, bytes, top, m)
  <2> HIDE DEF g
  <2> QED
    BY <1>7 DEF IsHorner
<1> QED
  BY <1>8

\* A byte more is a power more.
LEMMA PowersOf256 ==
    ASSUME NEW d \in 0..3
    PROVE  /\ d = 0 => 256 ^ d = 1
           /\ d = 1 => 256 ^ d = 256
           /\ d = 2 => 256 ^ d = 65536
           /\ d = 3 => 256 ^ d = 16777216
<1>1. CASE d = 0
  BY <1>1
<1>2. CASE d = 1
  BY <1>2
<1>3. CASE d = 2
  BY <1>3
<1>4. CASE d = 3
  BY <1>4
<1> QED
  BY <1>1, <1>2, <1>3, <1>4

Shift(raw, d) == raw \div 256 ^ d

LEMMA ShiftByte ==
    ASSUME NEW raw \in Int, NEW d \in 0..2
    PROVE  /\ Shift(raw, d) \in Int
           /\ Shift(raw, d + 1) = Shift(raw, d) \div 256
<1>1. CASE d = 0
  <2>1. 256 ^ d = 1 /\ 256 ^ (d + 1) = 256
    BY <1>1, PowersOf256
  <2> QED
    BY <2>1 DEF Shift
<1>2. CASE d = 1
  <2>1. 256 ^ d = 256 /\ 256 ^ (d + 1) = 65536
    BY <1>2, PowersOf256
  <2>2. raw \div 65536 = (raw \div 256) \div 256
    OBVIOUS
  <2> QED
    BY <2>1, <2>2 DEF Shift
<1>3. CASE d = 2
  <2>1. 256 ^ d = 65536 /\ 256 ^ (d + 1) = 16777216
    BY <1>3, PowersOf256
  <2>2. raw \div 16777216 = (raw \div 65536) \div 256
    OBVIOUS
  <2> QED
    BY <2>1, <2>2 DEF Shift
<1> QED
  BY <1>1, <1>2, <1>3

LEMMA ShiftNone ==
    ASSUME NEW raw \in Int, NEW d, d = 0
    PROVE  Shift(raw, d) = raw
<1>1. 256 ^ d = 1
  OBVIOUS
<1> QED
  BY <1>1 DEF Shift

\* The bytes of an integer, read one after the other, are the integer.
LEMMA HornerValue ==
    ASSUME NEW n \in {1, 2, 4}, NEW raw \in Int, NEW signed \in BOOLEAN,
           Shift(raw, n - 1) \in Leading(signed), NEW bytes,
           \A k \in 1..n : bytes[k] = Shift(raw, n - k) % 256,
           NEW f, IsHorner(f, bytes, Tops(bytes, signed), n)
    PROVE  f[n] = raw
<1> DEFINE Q(k) == Shift(raw, n - k)
<1>a. \A k \in 1..n : bytes[k] = Q(k) % 256
  OBVIOUS
<1>b. Q(1) \in Leading(signed)
  OBVIOUS
<1>c. ASSUME NEW k \in 2..n PROVE Q(k) \in Int /\ Q(k - 1) = Q(k) \div 256
  <2>1. n - k \in 0..2 /\ (n - k) + 1 = n - (k - 1)
    OBVIOUS
  <2> QED
    BY <2>1, ShiftByte
<1>d. Q(n) = raw
  <2>1. n - n = 0
    OBVIOUS
  <2> QED
    BY <2>1, ShiftNone
<1> HIDE DEF Q
<1>2. f[1] = Q(1)
  <2>1. PICK q \in Leading(signed) : q = Q(1)
    BY <1>b
  <2>2. 1 \in 1..n
    OBVIOUS
  <2>3. bytes[1] = q % 256
    BY <1>a, <2>1, <2>2, Zenon
  <2>4. Tops(bytes, signed) = q
    <3>1. CASE signed
      <4>1. q \in -128..127
        BY <3>1 DEF Leading
      <4>2. Tops(bytes, signed) = IF (q % 256) >= 128 THEN (q % 256) - 256 ELSE q % 256
        BY <2>3, <3>1 DEF Tops
      <4> QED
        BY <4>1, <4>2
    <3>2. CASE ~signed
      <4>1. q \in 0..255
        BY <3>2 DEF Leading
      <4>2. Tops(bytes, signed) = q % 256
        BY <2>3, <3>2 DEF Tops
      <4> QED
        BY <4>1, <4>2
    <3> QED
      BY <3>1, <3>2
  <2>5. f[1] = Tops(bytes, signed)
    BY <2>2 DEF IsHorner
  <2> QED
    BY <2>1, <2>4, <2>5
<1>3. ASSUME NEW k \in 2..n, f[k - 1] = Q(k - 1)
      PROVE  f[k] = Q(k)
  <2>1. PICK q \in Int : q = Q(k)
    BY <1>c
  <2>2. f[k - 1] = q \div 256
    BY <1>3, <1>c, <2>1
  <2>3. k \in 1..n /\ k # 1
    OBVIOUS
  <2>4. f[k] = 256 * f[k - 1] + bytes[k]
    BY <2>3 DEF IsHorner
  <2>5. bytes[k] = q % 256
    BY <1>a, <2>1, <2>3, Zenon
  <2>6. 256 * (q \div 256) + (q % 256) = q
    OBVIOUS
  <2> QED
    BY <2>1, <2>2, <2>4, <2>5, <2>6
<1>4. f[n] = Q(n)
  <2>1. CASE n = 1
    BY <1>2, <2>1
  <2>2. CASE n = 2
    <3>1. 2 - 1 = 1 /\ 2 \in 2..n
      BY <2>2
    <3> QED
      BY <1>2, <1>3, <2>2, <3>1
  <2>3. CASE n = 4
    <3>1. f[2] = Q(2)
      <4>1. 2 - 1 = 1 /\ 2 \in 2..n
        BY <2>3
      <4> QED
        BY <1>2, <1>3, <4>1
    <3>2. f[3] = Q(3)
      <4>1. 3 - 1 = 2 /\ 3 \in 2..n
        BY <2>3
      <4> QED
        BY <1>3, <3>1, <4>1
    <3>3. 4 - 1 = 3 /\ 4 \in 2..n
      BY <2>3
    <3> QED
      BY <1>3, <2>3, <3>2, <3>3
  <2> QED
    BY <2>1, <2>2, <2>3
<1> QED
  BY <1>4, <1>d

LEMMA NumberSize ==
    ASSUME NEW e \in DataElements, BitWidth(e) = 0, ~IsNull(e), ~Skipped(e)
    PROVE  Bytes[Wire(e)] \in {1, 2, 4}
<1>1. ASSUME NEW t \in BitTypes PROVE t[1] = "bitfield" /\ t[2] > 0 /\ t[2] \in Nat
  BY DEF BitTypes
<1>2. DOMAIN Bytes = IntegerTypes \cup {"float32", "none"}
  BY DEF Bytes, IntegerTypes
<1>3. \A t \in IntegerTypes \cup {"float32"} : Bytes[t] \in {1, 2, 4}
  BY DEF Bytes, IntegerTypes
<1>4. e.mem[1] \in IntegerTypes \cup {"float32"}
  <2>1. e.mem \notin BitTypes
    BY <1>1 DEF BitWidth
  <2>2. e.mem[1] \in IntegerTypes \cup NullTypes \cup {"float32"}
    BY <2>1 DEF DataElements
  <2> QED
    BY <2>2 DEF IsNull, NullTypes
<1>5. e.enc[1] # "none"
  BY <1>1 DEF DataElements, IntegerTypes
<1>6. Wire(e) \in IntegerTypes \cup {"float32"}
  BY <1>2, <1>4, <1>5 DEF Wire
<1> QED
  BY <1>3, <1>6

\* decode reads back the wire integer of a number.
LEMMA NumberRead ==
    ASSUME NEW e \in DataElements, Encodable(e), NEW v \in Int,
           Bytes[Wire(e)] \in {1, 2, 4},
           Shift(Raw(e, v), Bytes[Wire(e)] - 1) \in Leading(Signed(Wire(e)))
    PROVE  DecodeElem(e, EncodeElem(e, v)) =
             IF e.scale.kind = "none" THEN Raw(e, v)
             ELSE Round(Raw(e, v) * Scaling(e).den, Scaling(e).num) + Scaling(e).offset
<1> DEFINE bytes == EncodeElem(e, v)
           signed == Signed(Wire(e))
           top == Tops(bytes, signed)
<1>1. PICK n \in {1, 2, 4} : n = Bytes[Wire(e)]
  OBVIOUS
<1>2. PICK raw \in Int : raw = Raw(e, v)
  BY RawType
<1>3. signed \in BOOLEAN
  BY DEF Signed
<1>4. \A k \in 1..n : bytes[k] = Shift(raw, n - k) % 256
  BY <1>1, <1>2 DEF EncodeElem, Shift
<1>5. Len(bytes) = n
  BY <1>1, EncodeElemShape
<1> DEFINE f == CHOOSE g : IsHorner(g, bytes, top, Len(bytes))
           got == f[Len(bytes)]
<1>6. DecodeElem(e, bytes) =
        IF e.scale.kind = "none" THEN got
        ELSE Round(got * Scaling(e).den, Scaling(e).num) + Scaling(e).offset
  <2> HIDE DEF bytes
  <2> QED
    BY DEF DecodeElem, IsHorner, Tops
<1>7. IsHorner(f, bytes, top, n)
  <2> HIDE DEF bytes, top
  <2> QED
    BY <1>5, HornerExists
<1> HIDE DEF f, bytes, signed
<1>8. f[n] = raw
  <2>1. Shift(raw, n - 1) \in Leading(signed)
    BY <1>1, <1>2 DEF signed
  <2> QED
    BY <1>3, <1>4, <1>7, <2>1, HornerValue
<1> QED
  BY <1>2, <1>5, <1>6, <1>8 DEF bytes

\* A scaled number in the range of its scale is neither clamped nor cast away.
LEMMA RawScaled ==
    ASSUME NEW e \in DataElements, Encodable(e), e.scale.kind # "none",
           NEW v \in Int, InRange(e, v)
    PROVE  /\ Raw(e, v) = Round((v - Scaling(e).offset) * Scaling(e).num,
                                Scaling(e).den)
           /\ Raw(e, v) <= MaxInt[Wire(e)]
           /\ Raw(e, v) >= IF Signed(Wire(e)) THEN -MaxInt[Wire(e)] ELSE 0
<1> DEFINE s == Scaling(e)
           signed == Signed(Wire(e))
<1>1. PICK top \in Nat \ {0} : top = MaxInt[Wire(e)]
  BY ScalingType
<1>2. s.offset \in Int /\ s.num \in Int /\ s.lo \in {-top, 0} /\ s.hi = top
  BY <1>1, ScalingType
<1>3. PICK den \in Nat \ {0} : den = s.den
  BY ScalingType
<1>4. PICK n \in Int : n = (v - s.offset) * s.num
  BY <1>2
<1>5. n <= top * den /\ n >= (IF signed THEN s.lo ELSE 0) * den
  BY <1>2, <1>3, <1>4 DEF InRange
<1>6. Raw(e, v) = LET c == Clamp(Round(n, den), s.lo, s.hi)
                  IN IF signed \/ c > 0 THEN c ELSE 0
  BY <1>3, <1>4 DEF Raw
<1> HIDE DEF s, signed
<1>7. PICK least \in Int : least = IF signed THEN s.lo ELSE 0
  BY <1>2
<1>8. PICK r \in Int : r = Round(n, den)
  BY RoundType
<1>9. least <= r /\ r <= top
  <2>1. least * den <= n /\ n <= top * den
    BY <1>5, <1>7
  <2> QED
    BY <1>8, <2>1, RoundBetween
<1>10. Clamp(r, s.lo, s.hi) = r
  BY <1>2, <1>7, <1>9 DEF Clamp
<1>11. Raw(e, v) = r
  BY <1>6, <1>7, <1>8, <1>9, <1>10
<1> QED
  BY <1>1, <1>2, <1>3, <1>4, <1>7, <1>8, <1>9, <1>11 DEF s, signed

\* Its bytes are enough for it.
LEMMA RawFits ==
    ASSUME NEW e \in DataElements, Encodable(e), NEW v \in Int, InRange(e, v)
    PROVE  Shift(Raw(e, v), Bytes[Wire(e)] - 1) \in Leading(Signed(Wire(e)))
<1>1. CASE e.scale.kind = "none"
  BY <1>1 DEF InRange, Raw, Shift, Leading
<1>2. CASE e.scale.kind # "none"
  <2> DEFINE signed == Signed(Wire(e))
             top == MaxInt[Wire(e)]
  <2>1. PICK raw \in Int : raw = Raw(e, v)
    BY RawType
  <2>2. raw <= top /\ raw >= IF signed THEN -top ELSE 0
    BY <1>2, <2>1, RawScaled
  <2>3. Wire(e) \in DOMAIN MaxInt
    BY <1>2, ScalingType
  <2>4. CASE Wire(e) \in {"unsigned8", "signed8"}
    <3>1. /\ Bytes[Wire(e)] - 1 = 0
          /\ signed => top = 127
          /\ ~signed => top = 255
      BY <2>4 DEF Bytes, MaxInt, Signed
    <3>2. Shift(raw, Bytes[Wire(e)] - 1) = raw
      BY <3>1, ShiftNone
    <3>3. raw \in Leading(signed)
      BY <2>2, <3>1 DEF Leading
    <3> QED
      BY <2>1, <3>2, <3>3
  <2>5. CASE Wire(e) \in {"unsigned16", "signed16"}
    <3>1. /\ Bytes[Wire(e)] - 1 = 0 + 1
          /\ signed => top = 32767
          /\ ~signed => top = 65535
      BY <2>5 DEF Bytes, MaxInt, Signed
    <3>2. Shift(raw, 0) = raw
      BY ShiftNone
    <3>3. Shift(raw, 0 + 1) = raw \div 256
      <4>1. Shift(raw, 0 + 1) = Shift(raw, 0) \div 256
        BY ShiftByte
      <4> QED
        BY <3>2, <4>1
    <3>4. raw \div 256 \in Leading(signed)
      BY <2>2, <3>1 DEF Leading
    <3> QED
      BY <2>1, <3>1, <3>3, <3>4
  <2> QED
    BY <2>3, <2>4, <2>5 DEF MaxInt
<1> QED
  BY <1>1, <1>2

\* What decode makes of the bytes of a number is the number, or next to it.
LEMMA NumberRecovered ==
    ASSUME NEW e \in DataElements, Encodable(e), BitWidth(e) = 0, ~IsNull(e),
           ~Skipped(e), NEW v \in Int, InRange(e, v)
    PROVE  Close(e, DecodeElem(e, EncodeElem(e, v)), v)
<1>1. DecodeElem(e, EncodeElem(e, v)) =
        IF e.scale.kind = "none" THEN Raw(e, v)
        ELSE Round(Raw(e, v) * Scaling(e).den, Scaling(e).num) + Scaling(e).offset
  BY NumberSize, RawFits, NumberRead
<1>2. CASE e.scale.kind = "none"
  BY <1>1, <1>2 DEF Close, Raw
<1>3. CASE e.scale.kind # "none"
  <2> DEFINE s == Scaling(e)
  <2>1. PICK num \in Nat \ {0}, den \in Nat \ {0}, offset \in Int :
           num = s.num /\ den = s.den /\ offset = s.offset
    BY <1>3, ScalingType
  <2>2. PICK x \in Int : x = v - offset
    BY <2>1
  <2>3. Raw(e, v) = Round(x * num, den)
    BY <1>3, <2>1, <2>2, RawScaled
  <2>4. x * num \in Int
    OBVIOUS
  <2>5. PICK raw \in Int : raw = Raw(e, v)
    BY RawType
  <2>6. raw * den \in Int
    OBVIOUS
  <2>7. PICK got \in Int : got = Round(raw * den, num)
    BY <2>6, RoundType
  <2>8. 2 * ((got - x) * num) <= den + num /\ 2 * ((x - got) * num) <= den + num
    BY <2>3, <2>5, <2>7, RoundedTwice
  <2>9. DecodeElem(e, EncodeElem(e, v)) = got + offset
    BY <1>1, <1>3, <2>1, <2>5, <2>7
  <2>10. Close(e, got + offset, v) <=>
           2 * (IF got + offset > v THEN got + offset - v ELSE v - (got + offset)) * num
             <= den + num
    BY <1>3, <2>1 DEF Close
  <2>11. (got + offset) - v = got - x /\ v - (got + offset) = x - got
    BY <2>2
  <2>12. \A y \in Int : 2 * y * num = 2 * (y * num)
    OBVIOUS
  <2>13. CASE got + offset > v
    BY <2>8, <2>9, <2>10, <2>11, <2>12, <2>13
  <2>14. CASE ~(got + offset > v)
    BY <2>8, <2>9, <2>10, <2>11, <2>12, <2>14
  <2> QED
    BY <2>13, <2>14
<1> QED
  BY <1>2, <1>3

-------------------------------------------------------------------------------
(***************************************************************************)
(* What the bytes of a field are.                                          *)
(***************************************************************************)
LEMMA ConcatAt ==
    ASSUME NEW S, NEW s \in Seq(S), NEW t \in Seq(S)
    PROVE  /\ s \o t \in Seq(S) /\ Len(s \o t) = Len(s) + Len(t)
           /\ \A i \in 1..Len(s) : (s \o t)[i] = s[i]
           /\ \A i \in 1..Len(t) : (s \o t)[Len(s) + i] = t[i]
<1>1. s \o t \in Seq(S) /\ Len(s \o t) = Len(s) + Len(t)
  BY ConcatProperties
<1>2. \A i \in 1..Len(s) + Len(t) :
        (s \o t)[i] = IF i <= Len(s) THEN s[i] ELSE t[i - Len(s)]
  BY ConcatProperties
<1>3. Len(s) \in Nat /\ Len(t) \in Nat
  OBVIOUS
<1>4. \A i \in 1..Len(s) : (s \o t)[i] = s[i]
  BY <1>2, <1>3
<1>5. \A i \in 1..Len(t) : (s \o t)[Len(s) + i] = t[i]
  <2> TAKE i \in 1..Len(t)
  <2>1. Len(s) + i \in 1..Len(s) + Len(t) /\ ~(Len(s) + i <= Len(s))
          /\ (Len(s) + i) - Len(s) = i
    BY <1>3
  <2> QED
    BY <1>2, <2>1
<1> QED
  BY <1>1, <1>4, <1>5

\* Where the j-th element of the i-th piece is, when all have w elements.
Spot(w, i, j) == ((i - 1) * w) + j

\* The elements of the k-th sequence are where the ones before it end.
LEMMA FlattenedAt ==
    ASSUME NEW S, NEW w \in Nat, NEW seqs \in Seq(Seq(S)), NEW f,
           \A i \in 1..Len(seqs) : Len(seqs[i]) = w,
           IsFlattened(f, seqs, Len(seqs)), NEW k \in 1..Len(seqs)
    PROVE  \A i \in 1..k : \A j \in 1..w : f[k][Spot(w, i, j)] = seqs[i][j]
<1> DEFINE Holds(n) ==
             \A i \in 1..n : \A j \in 1..w : f[n][Spot(w, i, j)] = seqs[i][j]
           T == {n \in 1..Len(seqs) : ~Holds(n)}
<1> SUFFICES ASSUME T # {} PROVE FALSE
  OBVIOUS
<1>a. T \in SUBSET Nat
  OBVIOUS
<1>1. PICK m \in T : \A i \in T : m <= i
  BY <1>a, LeastElement
<1>2. m \in 1..Len(seqs) /\ ~Holds(m)
  OBVIOUS
<1> HIDE DEF T
<1>3. PICK i \in 1..m, j \in 1..w : f[m][((i - 1) * w) + j] # seqs[i][j]
  BY <1>2 DEF Spot
<1>4. f[m] = Joined(m, f[m - 1], seqs[m])
  BY <1>2 DEF IsFlattened
<1>5. m # 1
  <2>1. CASE m = 1
    <3>1. i = 1 /\ (i - 1) * w + j = j
      BY <1>3, <2>1
    <3>2. f[m] = seqs[m]
      BY <1>4, <2>1 DEF Joined
    <3> QED
      BY <1>3, <2>1, <3>1, <3>2
  <2> QED
    BY <2>1
<1>6. m - 1 \in 1..Len(seqs) /\ Holds(m - 1)
  <2>1. m - 1 \in 1..Len(seqs) /\ m - 1 \notin T
    BY <1>1, <1>2, <1>5
  <2> QED
    BY <2>1 DEF T
<1> HIDE DEF Holds
<1>7. f[m - 1] \in Seq(S) /\ Len(f[m - 1]) = (m - 1) * w
  BY <1>6, FlattenedShape
<1>8. f[m] = f[m - 1] \o seqs[m]
  BY <1>4, <1>5 DEF Joined
<1>9. /\ \A x \in 1..(m - 1) * w : f[m][x] = f[m - 1][x]
      /\ \A x \in 1..w : f[m][((m - 1) * w) + x] = seqs[m][x]
  <2>1. seqs[m] \in Seq(S) /\ Len(seqs[m]) = w
    BY <1>2
  <2>2. ASSUME NEW s \in Seq(S), NEW t \in Seq(S)
        PROVE  /\ \A x \in 1..Len(s) : (s \o t)[x] = s[x]
               /\ \A x \in 1..Len(t) : (s \o t)[Len(s) + x] = t[x]
    BY ConcatAt
  <2>3. /\ \A x \in 1..Len(f[m - 1]) : (f[m - 1] \o seqs[m])[x] = f[m - 1][x]
        /\ \A x \in 1..Len(seqs[m]) :
             (f[m - 1] \o seqs[m])[Len(f[m - 1]) + x] = seqs[m][x]
    BY <1>7, <2>1, <2>2, Zenon
  <2> QED
    BY <1>7, <1>8, <2>1, <2>3, Zenon
<1>10. CASE i = m
  BY <1>3, <1>9, <1>10
<1>11. CASE i # m
  <2>1. i \in 1..m - 1
    BY <1>2, <1>3, <1>11
  <2>2. (i - 1) * w + j \in 1..(m - 1) * w
    <3>1. i <= m - 1 /\ i \in Nat /\ m \in Nat /\ j \in 1..w
      BY <1>2, <2>1
    <3>2. i * w <= (m - 1) * w
      BY <3>1
    <3>3. (i - 1) * w = i * w - w
      BY <3>1
    <3>4. PICK a \in Nat : a = (i - 1) * w
      BY <2>1, <3>1
    <3>5. PICK b \in Int : b = (m - 1) * w
      BY <3>1
    <3>6. PICK c \in Int : c = i * w
      BY <3>1
    <3>7. c <= b /\ a = c - w /\ a \in Nat /\ b \in Int /\ c \in Int
      BY <3>2, <3>3, <3>4, <3>5, <3>6
    <3>8. a + j \in 1..b
      BY <3>1, <3>7
    <3> QED
      BY <3>4, <3>5, <3>8
  <2>3. f[m - 1][((i - 1) * w) + j] = seqs[i][j]
    BY <1>3, <1>6, <2>1 DEF Holds, Spot
  <2> QED
    BY <1>3, <1>9, <2>2, <2>3
<1> QED
  BY <1>10, <1>11

LEMMA FlattenAt ==
    ASSUME NEW S, NEW w \in Nat, NEW seqs \in Seq(Seq(S)),
           \A i \in 1..Len(seqs) : Len(seqs[i]) = w
    PROVE  \A i \in 1..Len(seqs) : \A j \in 1..w :
              FlattenSeq(seqs)[Spot(w, i, j)] = seqs[i][j]
<1> TAKE i \in 1..Len(seqs)
<1> TAKE j \in 1..w
<1> DEFINE f == CHOOSE g : IsFlattened(g, seqs, Len(seqs))
<1>1. Len(seqs) # 0 /\ Len(seqs) \in 1..Len(seqs) /\ Len(seqs) \in Nat
  OBVIOUS
<1>2. FlattenSeq(seqs) = f[Len(seqs)]
  BY <1>1 DEF FlattenSeq, IsFlattened, Joined
<1>3. IsFlattened(f, seqs, Len(seqs))
  BY <1>1, FlattenedExists
<1> HIDE DEF f
<1>4. f[Len(seqs)][Spot(w, i, j)] = seqs[i][j]
  BY <1>1, <1>3, FlattenedAt
<1> QED
  BY <1>2, <1>4

LEMMA PieceAt ==
    ASSUME NEW w \in Nat, NEW pieces \in Seq(Seq(0..255)),
           \A i \in 1..Len(pieces) : Len(pieces[i]) = w,
           NEW k \in 1..Len(pieces), NEW j \in 1..w
    PROVE  FlattenSeq(pieces)[Spot(w, k, j)] = pieces[k][j]
BY FlattenAt

\* A slice whose elements are those of a sequence is that sequence.
LEMMA SliceEquals ==
    ASSUME NEW S, NEW s \in Seq(S), NEW t \in Seq(S), NEW m \in Nat,
           m + Len(t) <= Len(s), \A j \in 1..Len(t) : s[m + j] = t[j]
    PROVE  SubSeq(s, m + 1, m + Len(t)) = t
<1> DEFINE slice == SubSeq(s, m + 1, m + Len(t))
<1>1. Len(t) \in Nat /\ Len(s) \in Nat
  OBVIOUS
<1>2. \A i \in m + 1..m + Len(t) : s[i] \in S
  <2> TAKE i \in m + 1..m + Len(t)
  <2>1. i \in 1..Len(s)
    BY <1>1
  <2> QED
    BY <2>1, ElementOfSeq
<1>3. /\ slice \in Seq(S)
      /\ Len(slice) = IF m + 1 <= m + Len(t) THEN (m + Len(t)) - (m + 1) + 1 ELSE 0
      /\ \A i \in 1..(m + Len(t)) - (m + 1) + 1 : slice[i] = s[(m + 1) + i - 1]
  <2>1. m + 1 \in Int /\ m + Len(t) \in Int
    BY <1>1
  <2> QED
    BY <1>2, <2>1, SubSeqProperties
<1> HIDE DEF slice
<1>4. Len(slice) = Len(t)
  BY <1>1, <1>3
<1>5. \A i \in 1..Len(slice) : slice[i] = t[i]
  <2> TAKE i \in 1..Len(slice)
  <2>1. i \in 1..(m + Len(t)) - (m + 1) + 1 /\ (m + 1) + i - 1 = m + i /\ i \in 1..Len(t)
    BY <1>1, <1>4
  <2> QED
    BY <1>3, <2>1
<1>6. slice = t
  BY <1>3, <1>4, <1>5, SeqEqual
<1> QED
  BY <1>6 DEF slice

LEMMA BytesOfAt ==
    ASSUME NEW e \in DataElements, Encodable(e), ~IsNull(e), NEW v \in Seq(Int),
           NEW k \in 1..Len(v), NEW j \in 1..Bytes[Wire(e)]
    PROVE  BytesOf(e, v)[Spot(Bytes[Wire(e)], k, j)] = EncodeElem(e, v[k])[j]
<1> DEFINE parts == [i \in DOMAIN v |-> EncodeElem(e, v[i])]
<1>1. PICK w \in Nat : w = Bytes[Wire(e)]
  BY WireType
<1>2. /\ parts \in Seq(Seq(0..255)) /\ Len(parts) = Len(v)
      /\ \A i \in 1..Len(parts) : parts[i] = EncodeElem(e, v[i]) /\ Len(parts[i]) = w
  BY <1>1, PartsShape
<1>3. BytesOf(e, v) = FlattenSeq(parts)
  BY DEF BytesOf
<1> HIDE DEF parts
<1>4. FlattenSeq(parts)[Spot(w, k, j)] = parts[k][j]
  <2>1. k \in 1..Len(parts) /\ j \in 1..w
    BY <1>1, <1>2
  <2>2. \A i \in 1..Len(parts) : Len(parts[i]) = w
    BY <1>2
  <2> QED
    BY <1>1, <1>2, <2>1, <2>2, PieceAt
<1> QED
  BY <1>1, <1>2, <1>3, <1>4

\* The pieces of a field lie one after the other within its bytes.
LEMMA SpotWithin ==
    ASSUME NEW w \in Nat, NEW n \in Nat, NEW k \in 1..n
    PROVE  /\ w * (k - 1) \in Nat /\ w * k = w * (k - 1) + w
           /\ w * k <= n * w
           /\ \A j \in 1..w : Spot(w, k, j) = w * (k - 1) + j
<1>1. w * (k - 1) \in Nat /\ w * k = w * (k - 1) + w
  OBVIOUS
<1>2. w * k <= n * w
  OBVIOUS
<1>3. (k - 1) * w = w * (k - 1)
  OBVIOUS
<1> QED
  BY <1>1, <1>2, <1>3 DEF Spot

\* Taken off the bytes of the field, the numbers are read one by one.
LEMMA NumbersRead ==
    ASSUME NEW e \in DataElements, Encodable(e), ~IsNull(e), ~e.dependent,
           NEW v \in Seq(Int), Len(v) = e.count, NEW s \in Seq(0..255),
           Wanted(e) <= Len(s), \A x \in 1..Wanted(e) : s[x] = BytesOf(e, v)[x]
    PROVE  LET size == Bytes[Wire(e)]
           IN [k \in 1..e.count |-> DecodeElem(e, SubSeq(s, size * (k - 1) + 1, size * k))]
                = ThereAndBack(e, v)
<1>1. PICK w \in Nat : w = Bytes[Wire(e)]
  BY WireType
<1>2. PICK n \in Nat : n = e.count
  BY CountType
<1>3. Wanted(e) = n * w /\ Len(s) \in Nat
  BY <1>1, <1>2 DEF Wanted
<1>4. ASSUME NEW k \in 1..n
      PROVE  SubSeq(s, w * (k - 1) + 1, w * k) = EncodeElem(e, v[k])
  <2>1. PICK m \in Nat : m = w * (k - 1)
    BY SpotWithin
  <2>2. w * k = m + w /\ m + w <= n * w /\ \A j \in 1..w : Spot(w, k, j) = m + j
    <3>1. w * k = w * (k - 1) + w /\ w * k <= n * w
      BY SpotWithin
    <3>2. \A j \in 1..w : Spot(w, k, j) = w * (k - 1) + j
      BY SpotWithin
    <3> QED
      BY <2>1, <3>1, <3>2
  <2>3. PICK t \in Seq(0..255) : t = EncodeElem(e, v[k]) /\ Len(t) = w
    <3>1. v[k] \in Int
      BY <1>2, ElementOfSeq
    <3> QED
      BY <1>1, <3>1, EncodeElemShape
  <2>4. PICK b \in Nat : b = n * w
    OBVIOUS
  <2>5. m + Len(t) <= Len(s)
    BY <1>3, <2>2, <2>3, <2>4
  <2>6. ASSUME NEW j \in 1..Len(t) PROVE s[m + j] = t[j]
    <3>1. j \in 1..w
      BY <2>3
    <3>2. m + j \in 1..b
      BY <2>2, <2>4, <3>1
    <3>3. s[m + j] = BytesOf(e, v)[m + j]
      BY <1>3, <2>4, <3>2
    <3>4. BytesOf(e, v)[Spot(w, k, j)] = t[j]
      BY <1>1, <1>2, <2>3, <3>1, BytesOfAt
    <3> QED
      BY <2>2, <3>1, <3>3, <3>4
  <2>7. SubSeq(s, m + 1, m + Len(t)) = t
    BY <2>5, <2>6, SliceEquals
  <2> QED
    BY <2>1, <2>2, <2>3, <2>7
<1>5. [k \in 1..n |-> DecodeElem(e, SubSeq(s, w * (k - 1) + 1, w * k))]
        = [k \in 1..n |-> DecodeElem(e, EncodeElem(e, v[k]))]
  BY <1>4
<1> QED
  BY <1>1, <1>2, <1>5 DEF ThereAndBack

-------------------------------------------------------------------------------
(***************************************************************************)
(* What the bits of a field are.                                           *)
(***************************************************************************)
PowersOf2 == {1, 2, 4, 8, 16, 32, 64, 128, 256}

LEMMA PowerEight ==
    ASSUME NEW k, k = 8
    PROVE  2 ^ k = 256
OBVIOUS

LEMMA PowersListed ==
    ASSUME NEW k \in 0..8
    PROVE  2 ^ k \in PowersOf2
<1>1. CASE k = 0
  BY <1>1 DEF PowersOf2
<1>2. CASE k = 1
  BY <1>2 DEF PowersOf2
<1>3. CASE k = 2
  BY <1>3 DEF PowersOf2
<1>4. CASE k = 3
  BY <1>4 DEF PowersOf2
<1>5. CASE k = 4
  BY <1>5 DEF PowersOf2
<1>6. CASE k = 5
  BY <1>6 DEF PowersOf2
<1>7. CASE k = 6
  BY <1>7 DEF PowersOf2
<1>8. CASE k = 7
  BY <1>8 DEF PowersOf2
<1>9. CASE k = 8
  BY <1>9 DEF PowersOf2
<1> QED
  BY <1>1, <1>2, <1>3, <1>4, <1>5, <1>6, <1>7, <1>8, <1>9

\* Multiples of a power of two, added, move a quotient by it and no remainder.
LEMMA DivAdds ==
    ASSUME NEW b \in PowersOf2, NEW x \in Int, NEW k \in Int
    PROVE  (x + (k * b)) \div b = (x \div b) + k
<1>1. CASE b = 1
  BY <1>1
<1>2. CASE b = 2
  BY <1>2
<1>3. CASE b = 4
  BY <1>3
<1>4. CASE b = 8
  BY <1>4
<1>5. CASE b = 16
  BY <1>5
<1>6. CASE b = 32
  BY <1>6
<1>7. CASE b = 64
  BY <1>7
<1>8. CASE b = 128
  BY <1>8
<1>9. CASE b = 256
  BY <1>9
<1> QED
  BY <1>1, <1>2, <1>3, <1>4, <1>5, <1>6, <1>7, <1>8, <1>9 DEF PowersOf2

LEMMA ModAdds ==
    ASSUME NEW b \in PowersOf2, NEW x \in Int, NEW k \in Int
    PROVE  (x + (k * b)) % b = x % b
<1>1. CASE b = 1
  BY <1>1
<1>2. CASE b = 2
  BY <1>2
<1>3. CASE b = 4
  BY <1>3
<1>4. CASE b = 8
  BY <1>4
<1>5. CASE b = 16
  BY <1>5
<1>6. CASE b = 32
  BY <1>6
<1>7. CASE b = 64
  BY <1>7
<1>8. CASE b = 128
  BY <1>8
<1>9. CASE b = 256
  BY <1>9
<1> QED
  BY <1>1, <1>2, <1>3, <1>4, <1>5, <1>6, <1>7, <1>8, <1>9 DEF PowersOf2

\* Up to a byte, a higher power of two is a multiple of a lower one.
LEMMA PowersDivide ==
    ASSUME NEW s \in 0..7, NEW q \in s..8
    PROVE  \E k \in Nat \ {0} : 2 ^ q = k * 2 ^ s
<1>1. CASE q = s
  <2>1. 2 ^ s \in 1..256
    <3>1. s \in 0..8
      OBVIOUS
    <3> QED
      BY <3>1, PowerType
  <2>2. 2 ^ q = 1 * 2 ^ s
    BY <1>1, <2>1
  <2> QED
    BY <2>2
<1>2. CASE q # s /\ q - s = 8
  <2>1. s = 0 /\ q = 8
    BY <1>2
  <2>2. 2 ^ s = 1 /\ 2 ^ q = 256
    BY <2>1
  <2>3. 2 ^ q = 256 * 2 ^ s
    BY <2>2
  <2> QED
    BY <2>3
<1>3. CASE q # s /\ q - s # 8
  <2>1. PICK r \in 1..7 : r = q - s
    <3>1. q - s \in 1..7
      BY <1>3
    <3> QED
      BY <3>1
  <2>2. s + r = q /\ s + r <= 8 /\ r \in 0..8 /\ s \in 0..8
    BY <2>1
  <2>3. 2 ^ s * 2 ^ r = 2 ^ q
    BY <2>1, <2>2, PowersMultiply
  <2>4. PICK b \in 1..256 : b = 2 ^ s
    BY <2>2, PowerType
  <2>5. PICK k \in 1..256 : k = 2 ^ r
    BY <2>2, PowerType
  <2>6. 2 ^ q = k * 2 ^ s /\ k \in Nat \ {0}
    BY <2>3, <2>4, <2>5
  <2> QED
    BY <2>6
<1> QED
  BY <1>1, <1>2, <1>3

\* The bits put at bit_pos are there.
LEMMA OwnBits ==
    ASSUME NEW p \in 0..7, NEW a \in 0..2 ^ p - 1, NEW w \in Nat \ {0}, p + w <= 8,
           NEW n \in Int
    PROVE  BitsAt(Filled(a, Masked(n, w), p), p, w) = Masked(n, w)
<1>1. p \in 0..8 /\ w \in 0..8
  OBVIOUS
<1>2. PICK b \in PowersOf2 : b = 2 ^ p
  BY <1>1, PowersListed
<1>3. PICK c \in PowersOf2 : c = 2 ^ w
  BY <1>1, PowersListed
<1>4. PICK m \in 0..255 : m = Masked(n, w)
  BY MaskedShape
<1>5. m \in 0..c - 1
  <2>1. CASE w < 8
    BY <1>3, <1>4, <2>1, MaskedShape
  <2>2. CASE w = 8
    <3>1. c = 256
      BY <1>3, <2>2, PowerEight
    <3> QED
      BY <1>4, <3>1
  <2> QED
    BY <1>1, <2>1, <2>2
<1>6. b * c <= 256
  <2>1. CASE w < 8
    <3>1. w \in 1..7 /\ p + w \in 0..8
      BY <2>1
    <3>2. 2 ^ p * 2 ^ w = 2 ^ (p + w)
      BY <3>1, PowersMultiply
    <3>3. 2 ^ (p + w) \in 1..256
      BY <3>1, PowerType
    <3> QED
      BY <1>2, <1>3, <3>2, <3>3
  <2>2. CASE w = 8
    <3>1. p = 0 /\ c = 256
      BY <1>3, <2>2, PowerEight
    <3>2. b = 1
      BY <1>2, <3>1, PowerZero
    <3> QED
      BY <3>1, <3>2
  <2> QED
    BY <1>1, <2>1, <2>2
<1>7. a \in 0..b - 1 /\ b \in 1..256 /\ c \in 1..256
  BY <1>2, <1>3 DEF PowersOf2
<1>8. a + (m * b) \in 0..255
  <2>1. m * b <= (c - 1) * b
    BY <1>5, <1>7
  <2>2. (c - 1) * b = (b * c) - b /\ m * b \in Nat
    BY <1>5, <1>7
  <2> QED
    BY <1>6, <1>7, <2>1, <2>2
<1>9. (a + (m * b)) % 256 = a + (m * b)
  BY <1>8
<1>10. (a + (m * b)) \div b = (a \div b) + m
  BY <1>2, <1>4, <1>7, DivAdds
<1>11. a \div b = 0
  BY <1>7
<1>12. m % c = m
  BY <1>5, <1>7
<1>13. ((((a + (m * b)) % 256) \div b) % c) = m
  BY <1>4, <1>9, <1>10, <1>11, <1>12
<1> QED
  BY <1>2, <1>3, <1>4, <1>13 DEF BitsAt, Raised, Filled

\* Bits put above a field's leave them as they are.
LEMMA KeptBits ==
    ASSUME NEW p \in 0..7, NEW w \in Nat \ {0}, NEW q \in p + w..7,
           NEW x \in Int, NEW k \in Int
    PROVE  BitsAt(x + Raised(k, q), p, w) = BitsAt(x, p, w)
<1>1. p \in 0..8 /\ w \in 0..8 /\ w \in 1..7 /\ p + w \in 0..7 /\ q \in p + w..8 /\ p + w <= 8
  OBVIOUS
<1>2. PICK b \in PowersOf2 : b = 2 ^ p
  BY <1>1, PowersListed
<1>3. PICK c \in PowersOf2 : c = 2 ^ w
  BY <1>1, PowersListed
<1>4. PICK d \in Nat \ {0} : 2 ^ q = d * 2 ^ (p + w)
  BY <1>1, PowersDivide
<1>5. 2 ^ (p + w) = b * c
  BY <1>1, <1>2, <1>3, PowersMultiply
<1>6. b \in Int /\ c \in Int
  BY DEF PowersOf2
<1>7. k * 2 ^ q = ((k * d) * c) * b
  <2>1. 2 ^ q = d * (b * c)
    BY <1>4, <1>5
  <2>2. k * (d * (b * c)) = ((k * d) * c) * b
    BY <1>4, <1>6
  <2> QED
    BY <2>1, <2>2
<1>8. PICK j \in Int : j = k * d
  BY <1>4
<1>9. PICK h \in Int : h = j * c
  BY <1>6
<1>10. (x + (h * b)) \div b = (x \div b) + h
  BY <1>9, DivAdds
<1>11. PICK y \in Int : y = x \div b
  BY DEF PowersOf2
<1>12. (y + (j * c)) % c = y % c
  BY <1>8, <1>11, ModAdds
<1> QED
  BY <1>2, <1>3, <1>7, <1>8, <1>9, <1>10, <1>11, <1>12 DEF BitsAt, Raised

-------------------------------------------------------------------------------
(***************************************************************************)
(* The contents.                                                           *)
(***************************************************************************)
\* The element i of the packet.
LEMMA ElementAt ==
    ASSUME CodecTypeOK, NEW i \in 1..Len(packet.fields)
    PROVE  /\ packet.fields[i] \in DataElements /\ packet.values[i] \in Seq(Int)
           /\ Encodable(packet.fields[i]) /\ IsValue(packet.fields[i], packet.values[i])
           /\ BitWidth(packet.fields[i]) \in Nat /\ Wanted(packet.fields[i]) \in Nat
           /\ Layout[i - 1] \in Places /\ Layout[i] \in Places
           /\ Layout[i] = Advance(Layout[i - 1], packet.fields[i])
<1>1. packet \in Packets
  BY DEF CodecTypeOK
<1>2. /\ packet.fields[i] \in DataElements /\ packet.values[i] \in Seq(Int)
      /\ Encodable(packet.fields[i]) /\ IsValue(packet.fields[i], packet.values[i])
  BY <1>1, PacketShape
<1>3. i - 1 \in 0..Len(packet.fields) /\ i \in 0..Len(packet.fields)
  BY PacketsAssumption DEF CodecTypeOK
<1> QED
  BY <1>2, <1>3, PlacesHere, BitWidthType, WantedType

LEMMA SamePacket ==
    ASSUME packet' = packet
    PROVE  /\ Layout' = Layout
           /\ \A i : (IsBitMember(i)' <=> IsBitMember(i)) /\ (Fits(i)' <=> Fits(i))
                       /\ (IsWhole(i)' <=> IsWhole(i))
BY DEF Layout, IsBitMember, IsBits, OnWire, Fits, IsWhole

\* A bit field in one byte ends before what comes after it.
LEMMA BitsEnd ==
    ASSUME CodecTypeOK, NEW i \in 1..Len(packet.fields), IsBits(i), Fits(i),
           NEW j \in i..Len(packet.fields)
    PROVE  \/ Layout[i - 1].bytes < Layout[j].bytes
           \/ /\ Layout[i - 1].bytes = Layout[j].bytes
              /\ Layout[i - 1].bits + BitWidth(packet.fields[i]) <= Layout[j].bits
<1>1. PICK p \in Places, r \in Places : p = Layout[i - 1] /\ r = Layout[i]
  BY ElementAt
<1>2. PICK w \in Nat \ {0} : w = BitWidth(packet.fields[i])
  BY ElementAt DEF IsBits
<1>3. PICK q \in Places : q = Layout[j]
  BY PlacesHere
<1>4. NotAfter(r, q)
  <2>1. i \in 0..Len(packet.fields)
    OBVIOUS
  <2> QED
    BY <1>1, <1>3, <2>1, PlacesHere
<1>5. r = IF p.bits + w >= 8 THEN [bytes |-> p.bytes + 1, bits |-> 0]
                             ELSE [bytes |-> p.bytes, bits |-> p.bits + w]
  <2>1. ~Skipped(packet.fields[i]) /\ BitWidth(packet.fields[i]) # 0
    BY <1>2 DEF IsBits, OnWire
  <2> QED
    BY <1>1, <1>2, <2>1, ElementAt DEF Advance
<1>6. p.bytes \in Nat /\ p.bits \in 0..7 /\ q.bytes \in Nat /\ q.bits \in 0..7
  BY <1>1, <1>3, EndsType
<1>7. p.bytes < q.bytes \/ (p.bytes = q.bytes /\ p.bits + w <= q.bits)
  BY <1>2, <1>4, <1>5, <1>6 DEF NotAfter
<1> QED
  BY <1>1, <1>2, <1>3, <1>7

LEMMA ImageShape ==
    ASSUME CodecTypeOK
    PROVE  /\ acc \in 0..255 /\ Len(out) \in Nat /\ out \in Seq(0..255)
           /\ \A x \in 1..Len(out) : Image[x] = out[x]
           /\ Image[Len(out) + 1] = acc
<1>1. pos \in 0..8 /\ acc \in 0..2 ^ pos - 1
  BY DEF CodecTypeOK
<1>2. 2 ^ pos \in 1..256
  BY <1>1, PowerType
<1>3. acc \in 0..255
  BY <1>1, <1>2
<1>4. out \in Seq(0..255)
  BY DEF CodecTypeOK
<1> QED
  BY <1>3, <1>4, AppendProperties DEF Image

\* A step of encode that leaves the complete bytes alone, and the bits of the
\* byte that is not, keeps every bit field.
LEMMA BitsKept ==
    ASSUME Types, Encodes, stage = "encode", packet' = packet,
           NEW i \in 1..next - 1, IsBitMember(i), Fits(i), HoldsBits(i),
           \A x \in 1..Len(out) : Image'[x] = out[x],
           pos > 0 => \E k \in Int : Image'[Len(out) + 1] = acc + Raised(k, pos)
    PROVE  HoldsBits(i)'
<1>1. i \in 1..Len(packet.fields) /\ next - 1 \in i..Len(packet.fields)
  BY PacketsAssumption DEF Types, CodecTypeOK
<1>2. PICK p \in Places : p = Layout[i - 1]
  BY <1>1, ElementAt DEF Types
<1>3. PICK w \in Nat \ {0} : w = BitWidth(packet.fields[i])
  BY <1>1, ElementAt DEF Types, IsBitMember, IsBits
<1>4. Layout[next - 1] = [bytes |-> Len(out), bits |-> pos]
  BY DEF Encodes
<1>5. p.bytes < Len(out) \/ (p.bytes = Len(out) /\ p.bits + w <= pos)
  BY <1>1, <1>2, <1>3, <1>4, BitsEnd DEF Types, IsBitMember
<1>6. /\ acc \in 0..255 /\ Len(out) \in Nat
      /\ \A x \in 1..Len(out) : Image[x] = out[x]
      /\ Image[Len(out) + 1] = acc
  BY ImageShape DEF Types
<1>7. p.bytes \in Nat /\ p.bits \in 0..7 /\ pos \in 0..7
  BY <1>2, EndsType DEF Types, CodecTypeOK
<1>8. BitsAt(Image'[p.bytes + 1], p.bits, w) = BitsAt(Image[p.bytes + 1], p.bits, w)
  <2>1. CASE p.bytes < Len(out)
    <3>1. p.bytes + 1 \in 1..Len(out)
      BY <1>6, <1>7, <2>1
    <3> QED
      BY <1>6, <3>1
  <2>2. CASE p.bytes = Len(out) /\ p.bits + w <= pos
    <3>1. pos > 0 /\ pos \in p.bits + w..7
      BY <1>7, <2>2
    <3>2. PICK k \in Int : Image'[Len(out) + 1] = acc + Raised(k, pos)
      BY <3>1
    <3>3. BitsAt(acc + Raised(k, pos), p.bits, w) = BitsAt(acc, p.bits, w)
      <4>1. ASSUME NEW a \in 0..7, NEW q \in a + w..7, NEW x \in Int
            PROVE  BitsAt(x + Raised(k, q), a, w) = BitsAt(x, a, w)
        BY <1>3, <3>2, KeptBits
      <4>2. acc \in Int
        BY <1>6
      <4> QED
        BY <1>7, <3>1, <4>1, <4>2
    <3> QED
      BY <1>6, <2>2, <3>2, <3>3
  <2> QED
    BY <1>5, <2>1, <2>2
<1> QED
  BY <1>2, <1>3, <1>8, SamePacket DEF HoldsBits

\* And every whole field.
LEMMA BytesKept ==
    ASSUME Types, Encodes, stage = "encode", packet' = packet,
           NEW i \in 1..next - 1, IsWhole(i), HoldsBytes(i),
           \A x \in 1..Len(out) : out'[x] = out[x]
    PROVE  HoldsBytes(i)'
<1>1. i \in 1..Len(packet.fields) /\ next - 1 \in i..Len(packet.fields)
        /\ i \in 0..Len(packet.fields) /\ next - 1 \in 0..Len(packet.fields)
  BY PacketsAssumption DEF Types, CodecTypeOK
<1>2. PICK p \in Places : p = Layout[i - 1]
  BY <1>1, ElementAt DEF Types
<1>3. PICK w \in Nat : w = Wanted(packet.fields[i])
  BY <1>1, ElementAt DEF Types
<1>4. Layout[next - 1] = [bytes |-> Len(out), bits |-> pos]
  BY DEF Encodes
<1>5. Layout[i] = [bytes |-> Ends(p) + w, bits |-> 0]
  BY <1>1, <1>2, <1>3, ElementAt DEF Types, IsWhole, OnWire, Advance
<1>6. NotAfter(Layout[i], Layout[next - 1])
  BY <1>1, PlacesHere DEF Types
<1>7. Ends(p) \in Nat /\ Len(out) \in Nat
  BY <1>2, EndsType DEF Types, CodecTypeOK
<1>8. Ends(p) + w <= Len(out)
  BY <1>4, <1>5, <1>6, <1>7 DEF NotAfter
<1>9. \A k \in 1..w : Ends(p) + k \in 1..Len(out)
  BY <1>7, <1>8
<1> QED
  BY <1>2, <1>3, <1>9, SamePacket DEF HoldsBytes

LEMMA RaisedNothing ==
    ASSUME NEW p \in 0..7
    PROVE  Raised(0, p) = 0
<1>1. p \in 0..8
  OBVIOUS
<1>2. PICK b \in 1..256 : b = 2 ^ p
  BY <1>1, PowerType
<1> QED
  BY <1>2 DEF Raised

\* What falls out of the byte is a multiple of any power of two in it.
LEMMA DroppedBits ==
    ASSUME NEW p \in 0..7, NEW a \in Int, NEW n \in Int
    PROVE  \E k \in Int : Filled(a, n, p) = a + Raised(k, p)
<1>1. 8 \in p..8 /\ p \in 0..8
  OBVIOUS
<1>2. PICK d \in Nat \ {0} : 2 ^ 8 = d * 2 ^ p
  BY <1>1, PowersDivide
<1>3. PICK b \in 1..256 : b = 2 ^ p
  BY <1>1, PowerType
<1>4. 256 = d * b
  BY <1>2, <1>3, PowerEight
<1>5. PICK y \in Int : y = a + (n * b)
  BY <1>3
<1>6. PICK t \in Int : y % 256 = y - (256 * t)
  <2>1. y \div 256 \in Int /\ y % 256 = y - (256 * (y \div 256))
    BY <1>5
  <2> QED
    BY <2>1
<1>7. 256 * t = (t * d) * b
  BY <1>3, <1>4, <1>6
<1>8. PICK k \in Int : k = n - (t * d)
  BY <1>2, <1>6
<1>9. k * b = (n * b) - ((t * d) * b)
  BY <1>2, <1>3, <1>6, <1>8
<1>10. n * b \in Int /\ (t * d) * b \in Int
  BY <1>2, <1>3, <1>6
<1>11. (a + (n * b)) % 256 = a + (k * b)
  BY <1>5, <1>6, <1>7, <1>9, <1>10
<1>12. Filled(a, n, p) = a + Raised(k, p)
  BY <1>3, <1>11 DEF Raised, Filled
<1> QED
  BY <1>8, <1>12

LEMMA ContentsEncode ==
    ASSUME Types, Encodes, Contents, stage = "encode", next <= Len(packet.fields),
           stage' = stage, packet' = packet, next' = next + 1,
           \A x \in 1..Len(out) : Image'[x] = out[x] /\ out'[x] = out[x],
           pos > 0 => \E k \in Int : Image'[Len(out) + 1] = acc + Raised(k, pos),
           NEW m, m = next,
           IsBitMember(m) /\ Fits(m) => HoldsBits(m)',
           IsWhole(m) => HoldsBytes(m)'
    PROVE  Contents'
<1>1. next \in 1..Len(packet.fields)
  BY ElementShape DEF Types
<1>2. Encoded = 1..next - 1 /\ Encoded' = 1..next
  BY <1>1 DEF Encoded
<1>3. \A i \in 1..next : i # m => i \in 1..next - 1
  BY <1>1
<1>4. BitsWritten'
  <2>1. ASSUME NEW i \in 1..next, IsBitMember(i), Fits(i) PROVE HoldsBits(i)'
    <3>1. CASE i = m
      BY <2>1, <3>1
    <3>2. CASE i # m
      <4>1. i \in 1..next - 1
        BY <1>3, <3>2
      <4>2. HoldsBits(i)
        BY <1>2, <2>1, <4>1 DEF Contents, BitsWritten
      <4> QED
        BY <2>1, <4>1, <4>2, BitsKept
    <3> QED
      BY <3>1, <3>2
  <2> QED
    BY <1>2, <2>1, SamePacket DEF BitsWritten
<1>5. BytesWritten'
  <2>1. ASSUME NEW i \in 1..next, IsWhole(i) PROVE HoldsBytes(i)'
    <3>1. CASE i = m
      BY <2>1, <3>1
    <3>2. CASE i # m
      <4>1. i \in 1..next - 1
        BY <1>3, <3>2
      <4>2. HoldsBytes(i)
        BY <1>2, <2>1, <4>1 DEF Contents, BytesWritten
      <4> QED
        BY <2>1, <4>1, <4>2, BytesKept
    <3> QED
      BY <3>1, <3>2
  <2> QED
    BY <1>2, <2>1, SamePacket DEF BytesWritten
<1>6. ~Decoding'
  BY DEF Decoding
<1> QED
  BY <1>4, <1>5, <1>6 DEF Contents, Reading, GotBits, GotBytes

LEMMA ContentsEncodeSkipped ==
    ASSUME Types, Encodes, Contents, EncodeSkipped
    PROVE  Contents'
<1>1. Image' = Image /\ out' = out
  BY DEF Image, EncodeSkipped, encoding
<1>2. \A x \in 1..Len(out) : Image'[x] = out[x] /\ out'[x] = out[x]
  BY <1>1, ImageShape DEF Types
<1>3. pos > 0 => \E k \in Int : Image'[Len(out) + 1] = acc + Raised(k, pos)
  <2>0. Image[Len(out) + 1] = acc /\ acc \in 0..255
    BY ImageShape DEF Types
  <2>1. Image'[Len(out) + 1] = acc /\ acc \in Int
    BY <1>1, <2>0
  <2>2. Raised(0, pos) = 0
    BY RaisedNothing DEF Types, CodecTypeOK
  <2> QED
    BY <2>1, <2>2
<1>4. PICK m : m = next
  OBVIOUS
<1>5. ~IsBitMember(m) /\ ~IsWhole(m)
  BY <1>4 DEF EncodeSkipped, Element, IsBitMember, IsBits, IsWhole, OnWire
<1> QED
  BY <1>2, <1>3, <1>4, <1>5, ContentsEncode DEF EncodeSkipped

LEMMA ContentsEncodeBits ==
    ASSUME Types, Encodes, Contents, EncodeBits
    PROVE  Contents'
<1>1. /\ next \in 1..Len(packet.fields)
      /\ Element \in DataElements /\ Value \in Seq(Int)
      /\ Encodable(Element) /\ IsValue(Element, Value)
  BY ElementShape DEF EncodeBits, Types
<1>2. PICK w \in Nat \ {0} : w = BitWidth(Element)
  BY <1>1, BitWidthType DEF EncodeBits
<1>3. PICK n \in Int : /\ PutBits(Masked(n, w), w)
                       /\ ~IsPadding(Element) => n = Value[1]
  <2> DEFINE plain == IF ~IsPadding(Element) THEN Value[1]
                      ELSE IF Element.constant # <<>> THEN Element.constant[1]
                      ELSE 0
  <2>1. plain \in Int
    BY <1>1, <1>2, PlainType
  <2>2. PutBits(Masked(plain, w), w)
    BY <1>2 DEF EncodeBits
  <2> QED
    BY <2>1, <2>2
<1>4. PICK filled : filled = Filled(acc, Masked(n, w), pos)
  OBVIOUS
<1>5. IF pos + w >= 8 THEN out' = Append(out, filled) /\ acc' = 0
                      ELSE out' = out /\ acc' = filled
  BY <1>3, <1>4 DEF PutBits, Raised, Filled
<1>6. pos \in 0..7 /\ acc \in 0..2 ^ pos - 1 /\ acc \in 0..255 /\ out \in Seq(0..255)
        /\ Len(out) \in Nat
  BY ImageShape DEF Types, CodecTypeOK
<1>7. filled \in 0..255
  BY <1>3, <1>4, <1>6, FilledShape DEF Raised, Filled
<1>8. /\ \A x \in 1..Len(out) : Image'[x] = out[x] /\ out'[x] = out[x]
      /\ Image'[Len(out) + 1] = filled
  <2>0. /\ Append(out, filled) \in Seq(0..255) /\ Len(Append(out, filled)) = Len(out) + 1
        /\ \A x \in 1..Len(out) : Append(out, filled)[x] = out[x]
        /\ Append(out, filled)[Len(out) + 1] = filled
    BY <1>6, <1>7, AppendProperties
  <2>1. CASE pos + w >= 8
    <3>1. PICK longer \in Seq(0..255) : longer = Append(out, filled)
      BY <2>0
    <3>2. \A x \in 1..Len(longer) : Append(longer, 0)[x] = longer[x]
      BY <3>1, AppendProperties
    <3>3. Image' = Append(longer, 0) /\ out' = longer
      BY <1>5, <2>1, <3>1 DEF Image
    <3>4. \A x \in 1..Len(out) + 1 : x \in 1..Len(longer)
      BY <2>0, <3>1
    <3> QED
      BY <1>6, <2>0, <3>1, <3>2, <3>3, <3>4
  <2>2. CASE ~(pos + w >= 8)
    BY <1>5, <2>0, <2>2 DEF Image
  <2> QED
    BY <2>1, <2>2
<1>9. \E k \in Int : Image'[Len(out) + 1] = acc + Raised(k, pos)
  <2>1. PICK v \in 0..255 : v = Masked(n, w)
    BY <1>2, <1>3, MaskedShape
  <2>2. PICK a \in Int : a = acc
    BY <1>6
  <2>3. v \in Int
    BY <2>1
  <2>4. \E k \in Int : Filled(a, v, pos) = a + Raised(k, pos)
    BY <1>6, <2>2, <2>3, DroppedBits
  <2> QED
    BY <1>4, <1>8, <2>1, <2>2, <2>4
<1>10. PICK m : m = next
  OBVIOUS
<1>11. ASSUME IsBitMember(m), Fits(m) PROVE HoldsBits(m)'
  <2>1. Layout[m - 1] = [bytes |-> Len(out), bits |-> pos]
    BY <1>10 DEF Encodes, EncodeBits
  <2>2. packet.fields[m] = Element /\ packet.values[m] = Value
    BY <1>10 DEF Element, Value
  <2>3. pos + w <= 8
    BY <1>2, <1>11, <2>1, <2>2 DEF Fits
  <2>4. BitsAt(filled, pos, w) = Masked(n, w)
    BY <1>2, <1>3, <1>4, <1>6, <2>3, OwnBits
  <2>5. n = Value[1]
    BY <1>3, <1>11, <2>2 DEF IsBitMember
  <2>6. Layout' = Layout /\ packet' = packet
    BY SamePacket DEF EncodeBits
  <2> QED
    BY <1>2, <1>8, <2>1, <2>2, <2>4, <2>5, <2>6 DEF HoldsBits
<1>12. ~IsWhole(m)
  BY <1>2, <1>10 DEF IsWhole, Element
<1> QED
  BY <1>8, <1>9, <1>10, <1>11, <1>12, ContentsEncode DEF EncodeBits

LEMMA ContentsEncodeBytes ==
    ASSUME Types, Encodes, Contents, EncodeBytes, NoDependentValue
    PROVE  Contents'
<1>1. /\ next \in 1..Len(packet.fields)
      /\ Element \in DataElements /\ Value \in Seq(Int)
      /\ Encodable(Element) /\ IsValue(Element, Value)
  BY ElementShape DEF EncodeBytes, Types
<1>2. PICK b \in Seq(0..255) : b = BytesOf(Element, Value)
  BY <1>1, BytesOfShape DEF EncodeBytes
<1>3. Len(b) = Wanted(Element)
  <2>1. Element.dependent => Value = <<>>
    <3>1. DOMAIN packet.fields = 1..Len(packet.fields)
      BY PacketsAssumption DEF Types, CodecTypeOK
    <3> QED
      BY <1>1, <3>1 DEF NoDependentValue, Elements, Element, Value
  <2> QED
    BY <1>1, <1>2, <2>1, BytesOfShape DEF EncodeBytes
<1>4. PICK f \in Seq(0..255) : f = Flushed
  BY FlushedShape DEF Types
<1>5. Len(f) = Len(out) + (IF pos > 0 THEN 1 ELSE 0)
  BY <1>4, FlushedShape DEF Types
<1>6. out' = f \o b /\ acc' = 0
  BY <1>2, <1>4 DEF EncodeBytes, BytesOf
<1>7. acc \in 0..255 /\ pos \in 0..7 /\ out \in Seq(0..255) /\ Len(out) \in Nat
  BY ImageShape DEF Types, CodecTypeOK
<1>8. /\ \A x \in 1..Len(out) : f[x] = out[x]
      /\ pos > 0 => f[Len(out) + 1] = acc
  BY <1>4, <1>7, AppendProperties DEF Flushed
<1>9. PICK o \in Seq(0..255) : o = f \o b
  BY <1>2, <1>4, ConcatAt
<1>10. /\ Len(o) = Len(f) + Len(b) /\ \A x \in 1..Len(f) : o[x] = f[x]
       /\ \A x \in 1..Len(b) : o[Len(f) + x] = b[x]
  BY <1>2, <1>4, <1>9, ConcatAt
<1>11. Image' = Append(o, 0) /\ out' = o
  BY <1>6, <1>9 DEF Image
<1>12. \A x \in 1..Len(o) : Append(o, 0)[x] = o[x]
  BY <1>9, AppendProperties
<1>13. /\ \A x \in 1..Len(out) : x \in 1..Len(f) /\ x \in 1..Len(o)
       /\ pos > 0 => Len(out) + 1 \in 1..Len(f) /\ Len(out) + 1 \in 1..Len(o)
  <2>1. Len(b) \in Nat /\ Len(f) \in Nat
    BY <1>2, <1>4
  <2> QED
    BY <1>5, <1>7, <1>10, <2>1
<1>14. \A x \in 1..Len(out) : Image'[x] = out[x] /\ out'[x] = out[x]
  BY <1>8, <1>10, <1>11, <1>12, <1>13
<1>15. pos > 0 => \E k \in Int : Image'[Len(out) + 1] = acc + Raised(k, pos)
  <2>1. Raised(0, pos) = 0 /\ acc \in Int
    BY <1>7, RaisedNothing
  <2>2. pos > 0 => Image'[Len(out) + 1] = acc
    BY <1>8, <1>10, <1>11, <1>12, <1>13
  <2> QED
    BY <2>1, <2>2
<1>16. PICK m : m = next
  OBVIOUS
<1>17. HoldsBytes(m)'
  <2>1. Layout[m - 1] = [bytes |-> Len(out), bits |-> pos]
    BY <1>16 DEF Encodes, EncodeBytes
  <2>2. Ends(Layout[m - 1]) = Len(f)
    BY <1>5, <2>1 DEF Ends
  <2>3. packet.fields[m] = Element /\ packet.values[m] = Value
    BY <1>16 DEF Element, Value
  <2>4. Layout' = Layout /\ packet' = packet
    BY SamePacket DEF EncodeBytes
  <2> QED
    BY <1>2, <1>3, <1>10, <1>11, <2>2, <2>3, <2>4 DEF HoldsBytes
<1>18. ~IsBitMember(m)
  BY <1>16 DEF IsBitMember, IsBits, EncodeBytes, Element
<1> QED
  BY <1>14, <1>15, <1>16, <1>17, <1>18, ContentsEncode DEF EncodeBytes

LEMMA ContentsEncodeEnd ==
    ASSUME Types, Encodes, Contents, EncodeEnd
    PROVE  Contents'
<1>1. Len(packet.fields) \in Nat /\ next - 1 = Len(packet.fields)
  <2>1. Len(packet.fields) \in Nat
    BY PlacesHere DEF Types
  <2> QED
    BY <2>1 DEF Types, CodecTypeOK, EncodeEnd
<1>2. Encoded = 1..next - 1 /\ Encoded' = 1..next - 1
  BY <1>1 DEF Encoded, EncodeEnd
<1>3. acc \in 0..255 /\ pos \in 0..7 /\ out \in Seq(0..255) /\ Len(out) \in Nat
  BY ImageShape DEF Types, CodecTypeOK
<1>4. PICK f \in Seq(0..255) : f = Flushed
  BY FlushedShape DEF Types
<1>5. Len(f) = Len(out) + (IF pos > 0 THEN 1 ELSE 0)
  BY <1>4, FlushedShape DEF Types
<1>6. /\ \A x \in 1..Len(out) : f[x] = out[x]
      /\ pos > 0 => f[Len(out) + 1] = acc
  BY <1>3, <1>4, AppendProperties DEF Flushed
<1>7. Image' = Append(f, 0) /\ out' = f
  BY <1>4 DEF Image, EncodeEnd
<1>8. \A x \in 1..Len(f) : Append(f, 0)[x] = f[x]
  BY <1>4, AppendProperties
<1>9. /\ \A x \in 1..Len(out) : x \in 1..Len(f)
      /\ pos > 0 => Len(out) + 1 \in 1..Len(f)
  BY <1>3, <1>5
<1>10. \A x \in 1..Len(out) : Image'[x] = out[x] /\ out'[x] = out[x]
  BY <1>6, <1>7, <1>8, <1>9
<1>11. pos > 0 => \E k \in Int : Image'[Len(out) + 1] = acc + Raised(k, pos)
  <2>1. Raised(0, pos) = 0 /\ acc \in Int
    BY <1>3, RaisedNothing
  <2>2. pos > 0 => Image'[Len(out) + 1] = acc
    BY <1>6, <1>7, <1>8, <1>9
  <2> QED
    BY <2>1, <2>2
<1>12. BitsWritten'
  <2>1. ASSUME NEW i \in 1..next - 1, IsBitMember(i), Fits(i) PROVE HoldsBits(i)'
    <3>1. HoldsBits(i)
      BY <1>2, <2>1 DEF Contents, BitsWritten
    <3> QED
      BY <1>10, <1>11, <2>1, <3>1, BitsKept DEF EncodeEnd
  <2> QED
    BY <1>2, <2>1, SamePacket DEF BitsWritten, EncodeEnd
<1>13. BytesWritten'
  <2>1. ASSUME NEW i \in 1..next - 1, IsWhole(i) PROVE HoldsBytes(i)'
    <3>1. HoldsBytes(i)
      BY <1>2, <2>1 DEF Contents, BytesWritten
    <3> QED
      BY <1>10, <2>1, <3>1, BytesKept DEF EncodeEnd
  <2> QED
    BY <1>2, <2>1, SamePacket DEF BytesWritten, EncodeEnd
<1>14. ~Decoding'
  BY DEF Decoding, EncodeEnd
<1> QED
  BY <1>12, <1>13, <1>14 DEF Contents, Reading, GotBits, GotBytes

\* A step after encode leaves what was encoded alone.
LEMMA WrittenStays ==
    ASSUME Contents, stage # "encode", stage' # "encode",
           UNCHANGED <<packet, out, acc>>
    PROVE  BitsWritten' /\ BytesWritten'
<1>1. Encoded' = Encoded /\ Image' = Image
  BY DEF Encoded, Image
<1>2. \A i : (HoldsBits(i)' <=> HoldsBits(i)) /\ (HoldsBytes(i)' <=> HoldsBytes(i))
  BY <1>1, SamePacket DEF HoldsBits, HoldsBytes
<1> QED
  BY <1>1, <1>2, SamePacket DEF Contents, BitsWritten, BytesWritten

LEMMA ContentsDeliver ==
    ASSUME Types, Encodes, Contents, Deliver
    PROVE  Contents'
<1>1. PICK n \in 0..Len(out) : input' = SubSeq(out, 1, n)
  BY DEF Deliver
<1>2. out \in Seq(0..255) /\ out' = out /\ Layout' = Layout
  BY SamePacket DEF Types, CodecTypeOK, Deliver, encoding
<1>3. Layout[0] = Start /\ next' - 1 = 0
  BY PlacesHere DEF Types, Deliver
<1>4. Ends(Layout[0]) = 0 /\ Layout[0].bits = 0
  BY <1>3 DEF Start, Ends
<1>5. Len(input') = n /\ \A k \in 1..n : input'[k] = out[k]
  <2>0. \A i \in 1..n : i \in 1..Len(out)
    BY <1>1, <1>2
  <2>1. \A i \in 1..n : out[i] \in 0..255
    BY <1>2, <2>0, ElementOfSeq
  <2>2. /\ Len(SubSeq(out, 1, n)) = IF 1 <= n THEN n - 1 + 1 ELSE 0
        /\ \A i \in 1..n - 1 + 1 : SubSeq(out, 1, n)[i] = out[1 + i - 1]
    BY <2>1, SubSeqProperties
  <2> QED
    BY <1>1, <2>2
<1>6. \A k \in 1..n : 0 + k = k
  OBVIOUS
<1>7. Reading'
  BY <1>2, <1>3, <1>4, <1>5, <1>6 DEF Reading
<1>8. GotBits' /\ GotBytes'
  BY <1>3 DEF GotBits, GotBytes
<1>9. BitsWritten' /\ BytesWritten'
  BY WrittenStays DEF Deliver, encoding
<1> QED
  BY <1>7, <1>8, <1>9 DEF Contents

\* A step of decode that takes the value of its element, and keeps its place.
LEMMA ContentsDecode ==
    ASSUME Types, Contents, stage = "decode", next <= Len(packet.fields),
           stage' = stage, packet' = packet, UNCHANGED <<out, acc>>,
           next' = next + 1, NEW value, decoded' = Append(decoded, value),
           \A k \in 1..Len(input') : input'[k] = out[Ends(Layout[next]) + k],
           Layout[next].bits > 0 => byte' = out[Layout[next].bytes + 1],
           IsBitMember(next) /\ Fits(next) =>
              value = <<Masked(Value[1], BitWidth(Element))>>,
           IsWhole(next) => value = ThereAndBack(Element, Value)
    PROVE  Contents'
<1>1. next \in 1..Len(packet.fields) /\ next' - 1 = next
  BY ElementShape DEF Types
<1>2. Layout' = Layout
  BY SamePacket
<1>3. Reading'
  BY <1>1, <1>2 DEF Reading
<1>4. /\ \A i \in 1..next - 1 : decoded'[i] = decoded[i]
      /\ decoded'[next] = value
  <2>1. Len(decoded) = next - 1
    BY DEF Types, Taken
  <2>2. PICK S : decoded \in Seq(S)
    BY DEF Types, Taken
  <2>3. decoded \in Seq(S \cup {value}) /\ value \in S \cup {value}
    BY <2>2, SeqMonotonic
  <2>4. /\ \A i \in 1..Len(decoded) : Append(decoded, value)[i] = decoded[i]
        /\ Append(decoded, value)[Len(decoded) + 1] = value
    BY <2>3, AppendProperties
  <2>5. next - 1 + 1 = next
    BY <1>1
  <2> QED
    BY <2>1, <2>4, <2>5
<1>5. Decoding /\ \A i \in 1..next : i # next => i \in 1..next - 1
  BY <1>1 DEF Decoding
<1>6. GotBits'
  <2>1. ASSUME NEW i \in 1..next, IsBitMember(i), Fits(i)
        PROVE  decoded'[i] = <<Masked(packet.values[i][1], BitWidth(packet.fields[i]))>>
    <3>1. CASE i = next
      BY <1>4, <2>1, <3>1 DEF Element, Value
    <3>2. CASE i # next
      BY <1>4, <1>5, <2>1, <3>2 DEF Contents, GotBits
    <3> QED
      BY <3>1, <3>2
  <2> QED
    BY <1>1, <2>1, SamePacket DEF GotBits
<1>7. GotBytes'
  <2>1. ASSUME NEW i \in 1..next, IsWhole(i)
        PROVE  decoded'[i] = ThereAndBack(packet.fields[i], packet.values[i])
    <3>1. CASE i = next
      BY <1>4, <2>1, <3>1 DEF Element, Value
    <3>2. CASE i # next
      BY <1>4, <1>5, <2>1, <3>2 DEF Contents, GotBytes
    <3> QED
      BY <3>1, <3>2
  <2> QED
    BY <1>1, <2>1, SamePacket DEF GotBytes
<1>8. BitsWritten' /\ BytesWritten'
  BY WrittenStays
<1> QED
  BY <1>3, <1>6, <1>7, <1>8 DEF Contents

LEMMA ContentsDecodeSkipped ==
    ASSUME Types, Encodes, Contents, DecodeSkipped
    PROVE  Contents'
<1>1. Layout[next] = Layout[next - 1]
  BY ElementPlaces DEF Advance, DecodeSkipped
<1>2. PICK value : decoded' = Append(decoded, value)
  BY DEF DecodeSkipped
<1>3. \A k \in 1..Len(input') : input'[k] = out[Ends(Layout[next]) + k]
  BY <1>1 DEF Contents, Reading, Decoding, DecodeSkipped
<1>4. Layout[next].bits > 0 => byte' = out[Layout[next].bytes + 1]
  BY <1>1 DEF Contents, Reading, Decoding, DecodeSkipped
<1>5. ~IsBitMember(next) /\ ~IsWhole(next)
  BY DEF DecodeSkipped, Element, IsBitMember, IsBits, IsWhole, OnWire
<1> QED
  BY <1>2, <1>3, <1>4, <1>5, ContentsDecode DEF DecodeSkipped, encoding

LEMMA ContentsDecodeBytes ==
    ASSUME Types, Encodes, Contents, DecodeBytes
    PROVE  Contents'
<1>1. /\ next \in 1..Len(packet.fields)
      /\ Element \in DataElements /\ Value \in Seq(Int)
      /\ Encodable(Element) /\ IsValue(Element, Value)
  BY ElementShape DEF DecodeBytes, Types
<1>2. PICK w \in Nat : w = Wanted(Element)
  BY <1>1, WantedType
<1>3. PICK place \in Places : place = Layout[next - 1]
  BY ElementPlaces DEF DecodeBytes
<1>4. PICK start \in Nat : start = Ends(place)
  BY <1>3, EndsType
<1>5. Layout[next] = [bytes |-> start + w, bits |-> 0]
  <2>1. Layout[next] = Advance(place, Element)
    BY <1>3, ElementPlaces DEF DecodeBytes
  <2> QED
    BY <1>2, <1>4, <2>1 DEF Advance, DecodeBytes
<1>6. Ends(Layout[next]) = start + w /\ Layout[next].bits = 0
  BY <1>2, <1>4, <1>5 DEF Ends
<1>7. input \in Seq(0..255) /\ Len(input) \in Nat /\ Len(input) >= w
  BY <1>2 DEF Types, CodecTypeOK, DecodeBytes
<1>8. \A k \in 1..Len(input) : input[k] = out[start + k]
  BY <1>3, <1>4 DEF Contents, Reading, Decoding, DecodeBytes
<1>9. \A k \in 1..Len(input') : input'[k] = out[Ends(Layout[next]) + k]
  <2>1. input' = SubSeq(input, w + 1, Len(input))
    BY <1>2 DEF DecodeBytes
  <2>2. \A k \in w + 1..Len(input) : k \in 1..Len(input)
    BY <1>2, <1>7
  <2>3. \A k \in w + 1..Len(input) : input[k] \in 0..255
    BY <1>7, <2>2, ElementOfSeq
  <2>4. /\ Len(input') = IF w + 1 <= Len(input) THEN Len(input) - (w + 1) + 1 ELSE 0
        /\ \A k \in 1..Len(input) - (w + 1) + 1 : input'[k] = input[w + 1 + k - 1]
    BY <1>2, <1>7, <2>1, <2>3, SubSeqProperties
  <2>5. ASSUME NEW k \in 1..Len(input') PROVE input'[k] = out[start + w + k]
    <3>1. /\ k \in 1..Len(input) - (w + 1) + 1 /\ w + k \in 1..Len(input)
          /\ w + 1 + k - 1 = w + k /\ start + (w + k) = start + w + k
      BY <1>2, <1>4, <1>7, <2>4, <2>5
    <3> QED
      BY <1>8, <2>4, <3>1
  <2> QED
    BY <1>6, <2>5
<1>10. PICK value : /\ decoded' = Append(decoded, value)
                    /\ value = IF IsNull(Element) \/ Element.dependent THEN <<>>
                               ELSE LET size == Bytes[Wire(Element)]
                                    IN [k \in 1..Element.count |->
                                          DecodeElem(Element,
                                            SubSeq(input, size * (k - 1) + 1, size * k))]
  BY DEF DecodeBytes
<1>11. value = ThereAndBack(Element, Value)
  <2>1. CASE IsNull(Element) \/ Element.dependent
    BY <1>10, <2>1 DEF ThereAndBack
  <2>2. CASE ~IsNull(Element) /\ ~Element.dependent
    <3>1. Len(Value) = Element.count
      <4>1. ~IsPadding(Element)
        BY <1>1, <2>2 DEF Encodable, IsPadding, DecodeBytes
      <4> QED
        BY <1>1, <2>2, <4>1 DEF IsValue
    <3>2. HoldsBytes(next)
      <4>1. next \in Encoded
        BY <1>1 DEF Encoded, DecodeBytes
      <4>2. IsWhole(next)
        BY DEF IsWhole, OnWire, DecodeBytes, Element
      <4> QED
        BY <4>1, <4>2 DEF Contents, BytesWritten
    <3>3. \A k \in 1..w : out[start + k] = BytesOf(Element, Value)[k]
      BY <1>2, <1>3, <1>4, <3>2 DEF HoldsBytes, Element, Value
    <3>4. \A k \in 1..w : k \in 1..Len(input)
      BY <1>2, <1>7
    <3>5. \A k \in 1..Wanted(Element) : input[k] = BytesOf(Element, Value)[k]
      BY <1>2, <1>8, <3>3, <3>4
    <3>6. Wanted(Element) <= Len(input)
      BY <1>2, <1>7
    <3>7. LET size == Bytes[Wire(Element)]
          IN [k \in 1..Element.count |->
                DecodeElem(Element, SubSeq(input, size * (k - 1) + 1, size * k))]
               = ThereAndBack(Element, Value)
      BY <1>1, <1>7, <2>2, <3>1, <3>5, <3>6, NumbersRead
    <3> QED
      BY <1>10, <2>2, <3>7
  <2> QED
    BY <2>1, <2>2
<1>12. ~IsBitMember(next)
  BY DEF IsBitMember, IsBits, DecodeBytes, Element
<1>13. ~(Layout[next].bits > 0)
  BY <1>6
<1>14. /\ stage = "decode" /\ next <= Len(packet.fields) /\ stage' = stage
       /\ next' = next + 1 /\ UNCHANGED <<packet, out, acc>>
  BY DEF DecodeBytes, encoding
<1>15. decoded' = Append(decoded, value)
  BY <1>10
<1> QED
  BY <1>9, <1>11, <1>12, <1>13, <1>14, <1>15, ContentsDecode

\* The bits a field keeps of its byte are its own.
LEMMA TakenBits ==
    ASSUME NEW n \in Int, NEW p \in 0..7, NEW w \in 1..8
    PROVE  Masked(n \div 2 ^ p, w) = BitsAt(n, p, w)
<1>1. (IF w < 8 THEN w ELSE 8) = w
  OBVIOUS
<1> QED
  BY <1>1 DEF Masked, BitsAt

LEMMA ContentsDecodeBits ==
    ASSUME Types, Encodes, Decodes, Contents, DecodeBits
    PROVE  Contents'
<1>1. /\ next \in 1..Len(packet.fields)
      /\ Element \in DataElements /\ Value \in Seq(Int)
      /\ Encodable(Element) /\ IsValue(Element, Value)
  BY ElementShape DEF DecodeBits, Types
<1>2. PICK w \in Nat \ {0} : w = BitWidth(Element)
  BY <1>1, BitWidthType DEF DecodeBits
<1>3. PICK place \in Places : place = Layout[next - 1]
  BY ElementPlaces DEF DecodeBits
<1>4. Layout[next] = IF place.bits + w >= 8
                THEN [bytes |-> place.bytes + 1, bits |-> 0]
                ELSE [bytes |-> place.bytes, bits |-> place.bits + w]
  <2>1. ~Skipped(Element) /\ BitWidth(Element) # 0
    BY <1>2 DEF DecodeBits
  <2>2. Layout[next] = Advance(place, Element)
    BY <1>3, ElementPlaces DEF DecodeBits
  <2> QED
    BY <1>2, <2>1, <2>2 DEF Advance
<1>5. /\ place.bytes \in Nat /\ place.bits \in 0..7
      /\ IF place.bits > 0 THEN at = place.bits ELSE at >= 8
  BY <1>3, EndsType DEF Decodes, Decoding, DecodeBits
<1>6. /\ input \in Seq(0..255) /\ at \in Nat /\ Len(input) \in Nat
      /\ at >= 8 => input # <<>>
  BY DEF Types, CodecTypeOK, DecodeBits
<1>7. Ends(Layout[next]) = place.bytes + 1
  BY <1>2, <1>4, <1>5 DEF Ends
<1>8. place.bytes + 1 \in 1..Len(out)
  <2>1. Len(out) \in Nat
    BY DEF Types, CodecTypeOK
  <2> QED
    BY <1>5, <1>7, <2>1, ElementPlaces DEF DecodeBits
<1>9. PICK from : from = out[place.bytes + 1]
  OBVIOUS
<1>10. from \in 0..255 /\ Image[place.bytes + 1] = from
  BY <1>8, <1>9, ImageShape, ElementOfSeq DEF Types
<1>11. /\ \A k \in 1..Len(input) : input[k] = out[Ends(place) + k]
       /\ place.bits > 0 => byte = from
  BY <1>3, <1>9 DEF Contents, Reading, Decoding, DecodeBits
<1>12. /\ (IF at >= 8 THEN input[1] ELSE byte) = from
       /\ (IF at >= 8 THEN 0 ELSE at) = place.bits
       /\ \A k \in 1..Len(input') : input'[k] = out[place.bytes + 1 + k]
  <2>1. CASE at >= 8
    <3>1. place.bits = 0 /\ Ends(place) = place.bytes
      BY <1>5, <2>1 DEF Ends
    <3>2. 1 \in 1..Len(input)
      BY <1>6, <2>1
    <3>3. input[1] = from
      BY <1>9, <1>11, <3>1, <3>2
    <3>4. input' = Tail(input)
      BY <2>1 DEF DecodeBits
    <3>5. Len(input') = Len(input) - 1 /\ \A k \in 1..Len(input') : input'[k] = input[k + 1]
      BY <1>6, <2>1, <3>4, HeadTailProperties
    <3>6. ASSUME NEW k \in 1..Len(input') PROVE input'[k] = out[place.bytes + 1 + k]
      <4>0. PICK n \in Nat, b \in Nat : n = Len(input) /\ b = place.bytes
        BY <1>5, <1>6
      <4>a. Len(input') = n - 1
        BY <3>5, <4>0
      <4>b. k \in 1..n - 1
        BY <3>6, <4>a
      <4>1. k + 1 \in 1..n /\ b + (k + 1) = b + 1 + k
        BY <4>0, <4>b
      <4>2. input'[k] = input[k + 1]
        BY <3>5, <3>6
      <4>3. input[k + 1] = out[place.bytes + (k + 1)]
        BY <1>11, <3>1, <4>0, <4>1
      <4> QED
        BY <4>0, <4>1, <4>2, <4>3
    <3> QED
      BY <2>1, <3>1, <3>3, <3>6
  <2>2. CASE ~(at >= 8)
    <3>1. place.bits > 0 /\ at = place.bits /\ Ends(place) = place.bytes + 1
      BY <1>5, <1>6, <2>2 DEF Ends
    <3>2. input' = input
      BY <2>2 DEF DecodeBits
    <3> QED
      BY <1>11, <2>2, <3>1, <3>2
  <2> QED
    BY <2>1, <2>2
<1>13. /\ byte' = from
       /\ decoded' = Append(decoded, IF IsPadding(Element) THEN <<>>
                                     ELSE <<Masked(from \div 2 ^ place.bits, w)>>)
  BY <1>2, <1>12 DEF DecodeBits
<1>14. PICK value :
         value = IF IsPadding(Element) THEN <<>>
                 ELSE <<Masked(from \div 2 ^ place.bits, w)>>
  OBVIOUS
<1>15. ASSUME IsBitMember(next), Fits(next)
       PROVE  value = <<Masked(Value[1], BitWidth(Element))>>
  <2>1. HoldsBits(next)
    <3>1. next \in Encoded
      BY <1>1 DEF Encoded, DecodeBits
    <3> QED
      BY <1>15, <3>1 DEF Contents, BitsWritten
  <2>2. BitsAt(from, place.bits, w) = Masked(Value[1], w)
    BY <1>2, <1>3, <1>10, <2>1 DEF HoldsBits, Element, Value
  <2>3. place.bits + w <= 8
    BY <1>2, <1>3, <1>15 DEF Fits, Element
  <2>4. w \in 1..8 /\ from \in Int
    BY <1>5, <1>10, <2>3
  <2>5. Masked(from \div 2 ^ place.bits, w) = BitsAt(from, place.bits, w)
    BY <1>5, <2>4, TakenBits
  <2>6. ~IsPadding(Element)
    BY <1>15 DEF IsBitMember, Element
  <2> QED
    BY <1>2, <1>14, <2>2, <2>5, <2>6
<1>16. ~IsWhole(next)
  BY <1>2 DEF IsWhole, Element
<1>17. \A k \in 1..Len(input') : input'[k] = out[Ends(Layout[next]) + k]
  BY <1>7, <1>12
<1>18. Layout[next].bits > 0 => byte' = out[Layout[next].bytes + 1]
  <2>1. ASSUME Layout[next].bits > 0 PROVE Layout[next].bytes = place.bytes
    BY <1>4, <2>1
  <2> QED
    BY <1>9, <1>13, <2>1
<1>19. /\ stage = "decode" /\ next <= Len(packet.fields) /\ stage' = stage
       /\ next' = next + 1 /\ UNCHANGED <<packet, out, acc>>
  BY DEF DecodeBits, encoding
<1>20. decoded' = Append(decoded, value)
  BY <1>13, <1>14
<1> QED
  BY <1>15, <1>16, <1>17, <1>18, <1>19, <1>20, ContentsDecode

LEMMA ContentsNext ==
    ASSUME Types, OneLayout, NoDependentValue, Contents, [Next]_vars
    PROVE  Contents'
<1>1. Encodes
  BY DEF OneLayout
<1>2. Decodes
  BY DEF OneLayout
<1>3. CASE EncodeSkipped
  BY <1>1, <1>3, ContentsEncodeSkipped
<1>4. CASE EncodeBits
  BY <1>1, <1>4, ContentsEncodeBits
<1>5. CASE EncodeBytes
  BY <1>1, <1>5, ContentsEncodeBytes
<1>6. CASE EncodeEnd
  BY <1>1, <1>6, ContentsEncodeEnd
<1>7. CASE Deliver
  BY <1>1, <1>7, ContentsDeliver
<1>8. CASE DecodeSkipped
  BY <1>1, <1>8, ContentsDecodeSkipped
<1>9. CASE DecodeBits
  BY <1>1, <1>2, <1>9, ContentsDecodeBits
<1>10. CASE DecodeBytes
  BY <1>1, <1>10, ContentsDecodeBytes
<1>11. CASE DecodeFails \/ DecodeEnd
  <2>1. /\ stage = "decode" /\ stage' \in {"decoded", "failed"}
        /\ UNCHANGED <<packet, next, out, acc, input, byte, decoded>>
    BY <1>11 DEF DecodeFails, DecodeEnd, encoding, decoding
  <2>2. Layout' = Layout /\ Decoding
    BY <2>1, SamePacket DEF Decoding
  <2>3. Reading'
    BY <2>1, <2>2 DEF Contents, Reading
  <2>4. GotBits' /\ GotBytes'
    BY <2>1, <2>2, SamePacket DEF Contents, GotBits, GotBytes
  <2>5. BitsWritten' /\ BytesWritten'
    BY <2>1, WrittenStays
  <2> QED
    BY <2>3, <2>4, <2>5 DEF Contents
<1>12. CASE UNCHANGED vars
  <2>1. UNCHANGED <<packet, stage, next, out, acc, input, byte, decoded>>
    BY <1>12 DEF vars, encoding, decoding
  <2>2. Layout' = Layout /\ Encoded' = Encoded /\ Image' = Image /\ (Decoding' <=> Decoding)
    BY <2>1, SamePacket DEF Encoded, Image, Decoding
  <2>3. \A i : (HoldsBits(i)' <=> HoldsBits(i)) /\ (HoldsBytes(i)' <=> HoldsBytes(i))
    BY <2>1, <2>2 DEF HoldsBits, HoldsBytes
  <2>4. BitsWritten' /\ BytesWritten'
    BY <2>1, <2>2, <2>3, SamePacket DEF Contents, BitsWritten, BytesWritten
  <2>5. Reading'
    BY <2>1, <2>2 DEF Contents, Reading
  <2>6. GotBits' /\ GotBytes'
    BY <2>1, <2>2, SamePacket DEF Contents, GotBits, GotBytes
  <2> QED
    BY <2>4, <2>5, <2>6 DEF Contents
<1> QED
  BY <1>3, <1>4, <1>5, <1>6, <1>7, <1>8, <1>9, <1>10, <1>11, <1>12 DEF Next

-------------------------------------------------------------------------------
(***************************************************************************)
(* The round trip.                                                         *)
(***************************************************************************)
IsCount(f, fields, n) ==
    f = [i \in 1..n |->
           IF i = 1 THEN 0
           ELSE IF Skipped(fields[i - 1]) THEN f[i - 1]
           ELSE IF BitWidth(fields[i - 1]) > 0
                THEN f[i - 1] + BitWidth(fields[i - 1])
           ELSE 0]

\* The bits before the first n elements can be counted, whatever n.
LEMMA CountExists ==
    ASSUME NEW fields, NEW n \in Nat
    PROVE  \E f : IsCount(f, fields, n)
<1> DEFINE T == {k \in Nat : ~\E f : IsCount(f, fields, k)}
<1> SUFFICES ASSUME T # {} PROVE FALSE
  OBVIOUS
<1>1. PICK m \in T : \A k \in T : m <= k
  BY LeastElement
<1> DEFINE Count(f, i) == IF i = 1 THEN 0
                          ELSE IF Skipped(fields[i - 1]) THEN f[i - 1]
                          ELSE IF BitWidth(fields[i - 1]) > 0
                               THEN f[i - 1] + BitWidth(fields[i - 1])
                          ELSE 0
<1>2. m # 0
  <2> DEFINE f == [i \in 1..0 |-> 0]
  <2>1. IsCount(f, fields, 0)
    BY DEF IsCount
  <2> QED
    BY <2>1
<1>3. m - 1 \in Nat /\ m - 1 \notin T
  BY <1>1, <1>2
<1>4. PICK f : IsCount(f, fields, m - 1)
  BY <1>3
<1> DEFINE g == [i \in 1..m |-> Count(f, i)]
<1>5. \A i \in 1..m - 1 : g[i] = f[i]
  BY <1>3, <1>4 DEF IsCount
<1>6. ASSUME NEW i \in 1..m PROVE Count(f, i) = Count(g, i)
  <2>1. CASE i = 1
    BY <2>1
  <2>2. CASE i # 1
    <3>1. i - 1 \in 1..m - 1
      BY <1>3, <2>2
    <3>2. g[i - 1] = f[i - 1]
      BY <1>5, <3>1
    <3> HIDE DEF g
    <3> QED
      BY <2>2, <3>2
  <2> QED
    BY <2>1, <2>2
<1>7. IsCount(g, fields, m)
  BY <1>6 DEF IsCount
<1> QED
  BY <1>7

LEMMA BitsCounted ==
    ASSUME CodecTypeOK, NEW i \in 1..Len(packet.fields)
    PROVE  BitsBefore[i] = IF i = 1 THEN 0
                           ELSE IF ~OnWire(i - 1) THEN BitsBefore[i - 1]
                           ELSE IF IsBits(i - 1)
                                THEN BitsBefore[i - 1] + BitWidth(packet.fields[i - 1])
                           ELSE 0
<1> DEFINE fields == packet.fields
           f == CHOOSE g : IsCount(g, fields, Len(fields))
<1>1. Elements = 1..Len(fields) /\ Len(fields) \in Nat
  BY PacketsAssumption DEF CodecTypeOK, Elements
<1>2. \A g, j : (IF j = 1 THEN 0
                 ELSE IF ~OnWire(j - 1) THEN g[j - 1]
                 ELSE IF IsBits(j - 1) THEN g[j - 1] + BitWidth(fields[j - 1])
                 ELSE 0)
              = (IF j = 1 THEN 0
                 ELSE IF Skipped(fields[j - 1]) THEN g[j - 1]
                 ELSE IF BitWidth(fields[j - 1]) > 0
                      THEN g[j - 1] + BitWidth(fields[j - 1])
                 ELSE 0)
  BY DEF OnWire, IsBits
<1>3. BitsBefore = f
  BY <1>1, <1>2 DEF BitsBefore, IsCount
<1>4. IsCount(f, fields, Len(fields))
  BY <1>1, CountExists
<1> HIDE DEF f
<1>5. f[i] = IF i = 1 THEN 0
             ELSE IF Skipped(fields[i - 1]) THEN f[i - 1]
             ELSE IF BitWidth(fields[i - 1]) > 0
                  THEN f[i - 1] + BitWidth(fields[i - 1])
             ELSE 0
  BY <1>4 DEF IsCount
<1> QED
  BY <1>2, <1>3, <1>5

LEMMA BitsWrap ==
    ASSUME NEW n \in Nat, NEW w \in Nat \ {0}, (n % 8) + w <= 8
    PROVE  (n + w) % 8 = IF (n % 8) + w >= 8 THEN 0 ELSE (n % 8) + w
OBVIOUS

\* In a group of bit fields within their bytes, the bits before a field are the
\* bits its byte already holds.
LEMMA GroupBits ==
    ASSUME CodecTypeOK, NEW i \in 1..Len(packet.fields), WithinBytes(i)
    PROVE  \A k \in 1..i : OneGroup(k, i) =>
              BitsBefore[k] \in Nat /\ Layout[k - 1].bits = BitsBefore[k] % 8
<1> DEFINE Agrees(k) == BitsBefore[k] \in Nat /\ Layout[k - 1].bits = BitsBefore[k] % 8
           T == {k \in 1..i : OneGroup(k, i) /\ ~Agrees(k)}
<1> SUFFICES ASSUME T # {} PROVE FALSE
  OBVIOUS
<1>1. T \in SUBSET Nat
  OBVIOUS
<1>2. PICK m \in T : \A k \in T : m <= k
  BY <1>1, LeastElement
<1>3. m \in 1..i /\ m \in 1..Len(packet.fields) /\ OneGroup(m, i) /\ ~Agrees(m)
  BY <1>2
<1>4. m # 1
  <2>1. Layout[0] = Start /\ BitsBefore[1] = 0
    BY <1>3, PlacesHere, BitsCounted
  <2> QED
    BY <1>3, <2>1 DEF Start
<1>5. PICK l \in 1..i : l = m - 1 /\ l + 1 = m /\ l \in 1..Len(packet.fields)
  BY <1>3, <1>4
<1>6. PICK w \in Nat : w = BitWidth(packet.fields[l])
  BY <1>5, ElementAt
<1>7. PICK p \in Places : p = Layout[l - 1]
  BY <1>5, ElementAt
<1>8. Layout[m - 1] = Advance(p, packet.fields[l])
  BY <1>5, <1>7, ElementAt
<1>9. BitsBefore[m] = IF ~OnWire(l) THEN BitsBefore[l]
                      ELSE IF IsBits(l) THEN BitsBefore[l] + w ELSE 0
  BY <1>3, <1>4, <1>5, <1>6, BitsCounted
<1>10. CASE OnWire(l) /\ ~IsBits(l)
  <2>1. Layout[m - 1].bits = 0
    BY <1>6, <1>8, <1>10 DEF Advance, OnWire, IsBits
  <2> QED
    BY <1>3, <1>9, <1>10, <2>1
<1>11. CASE OnWire(l) => IsBits(l)
  <2>1. OneGroup(l, i)
    <3>1. \A j \in l..i : j = l \/ j \in m..i
      BY <1>3, <1>5
    <3> QED
      BY <1>3, <1>11, <3>1 DEF OneGroup
  <2>2. l \notin T
    BY <1>2, <1>3, <1>5
  <2>3. PICK n \in Nat : n = BitsBefore[l] /\ p.bits = n % 8
    BY <1>5, <1>7, <2>1, <2>2
  <2>4. CASE ~OnWire(l)
    <3>1. Layout[m - 1] = p
      BY <1>8, <2>4 DEF Advance, OnWire
    <3> QED
      BY <1>3, <1>9, <2>3, <2>4, <3>1
  <2>5. CASE IsBits(l)
    <3>1. w \in Nat \ {0} /\ ~Skipped(packet.fields[l]) /\ BitWidth(packet.fields[l]) # 0
      BY <1>6, <2>5 DEF IsBits, OnWire
    <3>2. (n % 8) + w <= 8
      BY <1>5, <1>6, <2>1, <2>3, <2>5 DEF WithinBytes
    <3>3. (n + w) % 8 = IF (n % 8) + w >= 8 THEN 0 ELSE (n % 8) + w
      BY <3>1, <3>2, BitsWrap
    <3>4. Layout[m - 1] = IF p.bits + w >= 8
                          THEN [bytes |-> p.bytes + 1, bits |-> 0]
                          ELSE [bytes |-> p.bytes, bits |-> p.bits + w]
      BY <1>6, <1>8, <3>1 DEF Advance
    <3>5. Layout[m - 1].bits = (n + w) % 8
      BY <2>3, <3>3, <3>4
    <3>6. BitsBefore[m] = n + w
      BY <1>9, <2>3, <2>5 DEF IsBits
    <3> QED
      BY <1>3, <3>5, <3>6
  <2> QED
    BY <1>11, <2>4, <2>5
<1> QED
  BY <1>10, <1>11

LEMMA WithinFits ==
    ASSUME CodecTypeOK, NEW i \in 1..Len(packet.fields), IsBits(i), WithinBytes(i)
    PROVE  Fits(i)
<1>1. i \in 1..i
  OBVIOUS
<1>2. OneGroup(i, i)
  <2>1. \A j \in i..i : j = i
    OBVIOUS
  <2> QED
    BY <2>1 DEF OneGroup
<1>3. Layout[i - 1].bits = BitsBefore[i] % 8
  BY <1>1, <1>2, GroupBits
<1>4. (BitsBefore[i] % 8) + BitWidth(packet.fields[i]) <= 8
  BY <1>1, <1>2 DEF WithinBytes
<1> QED
  BY <1>3, <1>4 DEF Fits

\* The invariant says of every element that decode gave back what it was given.
LEMMA RoundTripFollows ==
    ASSUME WholeInv
    PROVE  RoundTrip
<1> SUFFICES ASSUME stage = "decoded", NoDependentValue, NEW i \in Elements, OnWire(i)
             PROVE  Recovered(i)
  BY DEF RoundTrip
<1>1. CodecTypeOK /\ Contents /\ Decoding
  BY DEF WholeInv, CodecInv, Decoding
<1>2. Len(packet.fields) \in Nat /\ i \in 1..Len(packet.fields)
  BY <1>1, PacketsAssumption DEF CodecTypeOK, Elements
<1>3. i \in 1..next - 1
  <2>1. next = Len(packet.fields) + 1
    BY DEF WholeInv, CodecInv, Outcome
  <2> QED
    BY <1>2, <2>1
<1>4. PICK e \in DataElements, v \in Seq(Int) :
         /\ e = packet.fields[i] /\ v = packet.values[i]
         /\ Encodable(e) /\ IsValue(e, v) /\ BitWidth(e) \in Nat
  BY <1>1, <1>2, ElementAt
<1>5. CASE IsBits(i)
  <2> SUFFICES ASSUME WithinBytes(i), v # <<>>, v[1] \in 0..2 ^ BitWidth(e) - 1
               PROVE  decoded[i] = v
    BY <1>4, <1>5 DEF Recovered
  <2>1. ~IsPadding(e)
    BY <1>4 DEF IsValue
  <2>2. Fits(i)
    BY <1>1, <1>2, <1>5, WithinFits
  <2>3. PICK w \in 1..8 : w = BitWidth(e)
    <3>1. Layout[i - 1].bits \in 0..7
      BY <1>1, <1>2, ElementAt, EndsType
    <3>2. BitWidth(e) > 0 /\ Layout[i - 1].bits + BitWidth(e) <= 8
      BY <1>4, <1>5, <2>2 DEF Fits, IsBits
    <3>3. \A p \in 0..7, w \in Nat : w > 0 /\ p + w <= 8 => w \in 1..8
      OBVIOUS
    <3> QED
      BY <1>4, <3>1, <3>2, <3>3
  <2>4. decoded[i] = <<Masked(v[1], w)>>
    BY <1>1, <1>3, <1>4, <1>5, <2>1, <2>2, <2>3 DEF Contents, GotBits, IsBitMember
  <2>5. Masked(v[1], w) = v[1]
    <3>1. PICK b \in 1..256 : b = 2 ^ w
      <4>1. w \in 0..8
        BY <2>3
      <4> QED
        BY <4>1, PowerType
    <3>2. v[1] \in 0..2 ^ w - 1
      BY <2>3, Zenon
    <3>3. v[1] \in 0..b - 1
      BY <3>1, <3>2, Zenon
    <3>4. (IF w < 8 THEN w ELSE 8) = w
      BY <2>3
    <3>5. Masked(v[1], w) = v[1] % b
      <4>1. Masked(v[1], w) = v[1] % (2 ^ (IF w < 8 THEN w ELSE 8))
        BY DEF Masked
      <4>2. Masked(v[1], w) = v[1] % (2 ^ w)
        BY <3>4, <4>1, Zenon
      <4> QED
        BY <3>1, <4>2, Zenon
    <3>6. ASSUME NEW n \in Int, NEW m \in 1..256, n \in 0..m - 1 PROVE n % m = n
      BY <3>6
    <3>7. v[1] \in Int /\ b \in 1..256
      BY <3>1, <3>3
    <3>8. v[1] % b = v[1]
      BY <3>3, <3>6, <3>7
    <3> QED
      BY <3>5, <3>8
  <2>6. v = <<v[1]>>
    <3>1. Len(v) = 1
      BY <1>4, <1>5, <2>1 DEF IsValue, Encodable, IsBits
    <3> QED
      BY <3>1
  <2> QED
    BY <2>4, <2>5, <2>6
<1>6. CASE ~IsBits(i)
  <2>1. BitWidth(e) = 0 /\ ~Skipped(e)
    BY <1>4, <1>6 DEF IsBits, OnWire
  <2>2. decoded[i] = ThereAndBack(e, v)
    BY <1>1, <1>3, <1>4, <2>1 DEF Contents, GotBytes, IsWhole, OnWire
  <2> SUFFICES /\ Len(ThereAndBack(e, v)) = Len(v)
               /\ \A k \in DOMAIN v : InRange(e, v[k]) => Close(e, ThereAndBack(e, v)[k], v[k])
    BY <1>4, <1>6, <2>2 DEF Recovered
  <2>3. CASE IsNull(e) \/ e.dependent
    <3>1. v = <<>>
      BY <1>4, <2>3 DEF IsValue, IsPadding, NoDependentValue
    <3> QED
      BY <2>3, <3>1 DEF ThereAndBack
  <2>4. CASE ~IsNull(e) /\ ~e.dependent
    <3>1. ~IsPadding(e)
      BY <1>4, <2>1, <2>4 DEF Encodable, IsPadding
    <3>2. Len(v) = e.count /\ DOMAIN v = 1..e.count /\ e.count \in Nat
      BY <1>4, <2>4, <3>1, CountType DEF IsValue
    <3>3. ThereAndBack(e, v) = [k \in 1..e.count |-> DecodeElem(e, EncodeElem(e, v[k]))]
      BY <2>4 DEF ThereAndBack
    <3>4. ASSUME NEW k \in 1..e.count, InRange(e, v[k])
          PROVE  Close(e, DecodeElem(e, EncodeElem(e, v[k])), v[k])
      <4>1. v[k] \in Int
        BY <1>4, <3>2, <3>4, ElementOfSeq
      <4> QED
        BY <1>4, <2>1, <2>4, <3>4, <4>1, NumberRecovered
    <3> QED
      BY <3>2, <3>3, <3>4
  <2> QED
    BY <2>3, <2>4
<1> QED
  BY <1>5, <1>6

LEMMA WholeInit ==
    ASSUME Init
    PROVE  WholeInv
<1>1. CodecInv
  BY TypesInit, LayoutInit DEF CodecInv, Types, Outcome, Init
<1>2. Encoded = {} /\ ~Decoding
  BY DEF Init, Encoded, Decoding
<1> QED
  BY <1>1, <1>2 DEF WholeInv, Contents, BitsWritten, BytesWritten, Reading, GotBits,
                    GotBytes

\* What decode returns for the bytes of encode is the packet (RoundTrip): a
\* number to within half a step of its scale, a bit field that lies within one
\* byte exactly, whatever fields, flushed bytes and padding come before it.
\* Every element lies where the layout says, what encode wrote there is still
\* there when decode reads it, and a number survives its own two conversions.
THEOREM PacketsComeBack == Spec => []RoundTrip
<1>1. Init => WholeInv
  BY WholeInit
<1>2. WholeInv /\ [Next]_vars => WholeInv'
  <2> SUFFICES ASSUME WholeInv, [Next]_vars PROVE WholeInv'
    OBVIOUS
  <2>1. CodecInv'
    BY TypesNext, LayoutNext, OutcomeNext DEF WholeInv, CodecInv, Types
  <2>2. packet' = packet
    BY DEF Next, vars, EncodeSkipped, EncodeBits, EncodeBytes, EncodeEnd, Deliver,
           DecodeSkipped, DecodeBits, DecodeBytes, DecodeFails, DecodeEnd
  <2>3. NoDependentValue' => NoDependentValue
    BY <2>2 DEF NoDependentValue, Elements
  <2>4. NoDependentValue => Contents'
    BY ContentsNext DEF WholeInv, CodecInv, Types
  <2> QED
    BY <2>1, <2>3, <2>4 DEF WholeInv
<1>3. WholeInv => RoundTrip
  BY RoundTripFollows
<1> QED
  BY <1>1, <1>2, <1>3, PTL DEF Spec

===============================================================================
