-------------------------- MODULE OrionReceiverProofs --------------------------
(***************************************************************************)
(* The framing and the receive path, for all bytes, frames and noise and   *)
(* however the stream is cut.                                              *)
(***************************************************************************)
EXTENDS OrionReceiver, TLAPS, SequenceTheorems, WellFoundedInduction

LEMMA LeastElement ==
    ASSUME NEW T \in SUBSET Nat, T # {}
    PROVE  \E m \in T : \A n \in T : m <= n
<1>1. PICK m \in T : \A n \in T : <<n, m>> \notin OpToRel(<, Nat)
  BY NatLessThanWellFounded, WFMin
<1>2. \A n \in T : ~(n < m)
  BY <1>1 DEF OpToRel
<1> QED
  BY <1>2

-------------------------------------------------------------------------------
(***************************************************************************)
(* The checksum.                                                           *)
(***************************************************************************)
IsSums(f, bytes, n) ==
    f = [i \in 1..n |-> AddByte(IF i = 1 THEN <<1, 0>> ELSE f[i - 1], bytes[i])]

\* The sums of the first bytes exist, whatever their number.
LEMMA SumsExist ==
    ASSUME NEW bytes, NEW n \in Nat
    PROVE  \E f : IsSums(f, bytes, n)
<1> DEFINE T == {k \in Nat : ~\E f : IsSums(f, bytes, k)}
<1> SUFFICES ASSUME T # {} PROVE FALSE
  OBVIOUS
<1>1. PICK m \in T : \A k \in T : m <= k
  BY LeastElement
<1>2. m # 0
  <2> DEFINE f == [i \in 1..0 |-> 0]
  <2>1. IsSums(f, bytes, 0)
    BY DEF IsSums
  <2> QED
    BY <2>1
<1>3. m - 1 \in Nat /\ m - 1 \notin T
  BY <1>1, <1>2
<1>4. PICK f : IsSums(f, bytes, m - 1)
  BY <1>3
<1> DEFINE g == [i \in 1..m |-> AddByte(IF i = 1 THEN <<1, 0>> ELSE f[i - 1], bytes[i])]
<1>5. \A i \in 1..m - 1 : g[i] = f[i]
  BY <1>3, <1>4 DEF IsSums
<1>6. ASSUME NEW i \in 1..m, i # 1 PROVE g[i - 1] = f[i - 1]
  <2>1. i - 1 \in 1..m - 1
    BY <1>3, <1>6
  <2> QED
    BY <1>5, <2>1
<1>7. IsSums(g, bytes, m)
  BY <1>6 DEF IsSums
<1> QED
  BY <1>7

LEMMA SumsUnfold ==
    ASSUME NEW bytes, Len(bytes) \in Nat, NEW i \in 1..Len(bytes)
    PROVE  Sums(bytes)[i] = AddByte(IF i = 1 THEN <<1, 0>> ELSE Sums(bytes)[i - 1], bytes[i])
<1>1. Sums(bytes) = CHOOSE f : IsSums(f, bytes, Len(bytes))
  BY DEF Sums, IsSums
<1>2. IsSums(Sums(bytes), bytes, Len(bytes))
  BY <1>1, SumsExist
<1> QED
  BY <1>2 DEF IsSums

-------------------------------------------------------------------------------
(***************************************************************************)
(* Residues.                                                               *)
(***************************************************************************)
LEMMA SameResidue ==
    ASSUME NEW p \in Nat \ {0}, NEW q \in Int, NEW t \in Int,
           NEW r \in 0..p - 1, NEW s \in 0..p - 1, p * q + r = p * t + s
    PROVE  r = s
<1>1. p * (t - q) = r - s
  OBVIOUS
<1>2. CASE t - q >= 1
  <2>1. p * (t - q) >= p
    BY <1>2
  <2> QED
    BY <2>1, <1>1
<1>3. CASE t - q <= -1
  <2>1. p * (t - q) <= -p
    BY <1>3
  <2> QED
    BY <2>1, <1>1
<1>4. CASE t = q
  BY <1>4
<1> QED
  BY <1>2, <1>3, <1>4

LEMMA Division ==
    ASSUME NEW p \in Nat \ {0}, NEW x \in Nat
    PROVE  x % p \in 0..p - 1 /\ \E q \in Int : x = p * q + (x % p)
<1> DEFINE q == x \div p
           r == x % p
<1>1. q \in Int /\ r \in 0..p - 1 /\ x = p * q + r
  OBVIOUS
<1> HIDE DEF q, r
<1>2. r \in 0..p - 1 /\ \E a \in Int : x = p * a + r
  BY <1>1
<1> QED
  BY <1>2 DEF r

LEMMA SumResidue ==
    ASSUME NEW p \in Nat \ {0}, NEW u \in Nat, NEW v \in Nat
    PROVE  ((u % p) + v) % p = (u + v) % p
<1> DEFINE r == u % p
           s == (r + v) % p
           z == (u + v) % p
<1>1. r \in 0..p - 1 /\ \E q \in Int : u = p * q + r
  BY Division
<1>2. r + v \in Nat /\ u + v \in Nat
  BY <1>1
<1>3. s \in 0..p - 1 /\ \E t \in Int : r + v = p * t + s
  BY <1>2, Division
<1>4. z \in 0..p - 1 /\ \E w \in Int : u + v = p * w + z
  BY <1>2, Division
<1> HIDE DEF r, s, z
<1>5. PICK q \in Int, t \in Int, w \in Int :
         u = p * q + r /\ r + v = p * t + s /\ u + v = p * w + z
  BY <1>1, <1>3, <1>4
<1>6. p * (q + t) + s = p * w + z /\ q + t \in Int
  BY <1>5, <1>1, <1>3, <1>4
<1>7. s = z
  BY <1>6, <1>3, <1>4, SameResidue
<1> QED
  BY <1>7 DEF r, s, z

\* The same number added: residues that differ go on to differ.
LEMMA ResiduesDiffer ==
    ASSUME NEW p \in Nat \ {0}, NEW c \in Nat, NEW x \in Nat, NEW y \in Nat,
           x % p # y % p
    PROVE  (c + x) % p # (c + y) % p
<1> SUFFICES ASSUME (c + x) % p = (c + y) % p PROVE FALSE
  OBVIOUS
<1> DEFINE e == x % p
           f == y % p
           r == (c + x) % p
<1>1. e \in 0..p - 1 /\ \E a \in Int : x = p * a + e
  BY Division
<1>2. f \in 0..p - 1 /\ \E b \in Int : y = p * b + f
  BY Division
<1>3. c + x \in Nat /\ c + y \in Nat
  OBVIOUS
<1>4. r \in 0..p - 1 /\ \E q \in Int : c + x = p * q + r
  BY <1>3, Division
<1>5. \E t \in Int : c + y = p * t + r
  BY <1>3, Division
<1>6. e # f
  OBVIOUS
<1> HIDE DEF e, f, r
<1>7. PICK a \in Int, b \in Int, q \in Int, t \in Int :
         /\ x = p * a + e /\ y = p * b + f
         /\ c + x = p * q + r /\ c + y = p * t + r
  BY <1>1, <1>2, <1>4, <1>5
<1>8. p * (a - q) + e = p * (b - t) + f /\ a - q \in Int /\ b - t \in Int
  BY <1>7, <1>1, <1>2, <1>4
<1>9. e = f
  BY <1>8, <1>1, <1>2, SameResidue
<1> QED
  BY <1>6, <1>9

LEMMA SmallResidue ==
    ASSUME NEW p \in Nat \ {0}, NEW x \in 0..p - 1
    PROVE  x % p = x
OBVIOUS

-------------------------------------------------------------------------------
(***************************************************************************)
(* Two neighbouring bytes that change places.                              *)
(***************************************************************************)
Pairs == (0..Modulus - 1) \X (0..Modulus - 1)

LEMMA AddByteType ==
    ASSUME NEW sum \in Nat \X Nat, NEW byte \in Nat
    PROVE  /\ AddByte(sum, byte) \in Pairs
           /\ AddByte(sum, byte)[1] = (sum[1] + byte) % Modulus
           /\ AddByte(sum, byte)[2] = (sum[2] + AddByte(sum, byte)[1]) % Modulus
<1> DEFINE a == (sum[1] + byte) % Modulus
           b == (sum[2] + a) % Modulus
<1>1. AddByte(sum, byte) = <<a, b>>
  BY DEF AddByte
<1>2. sum[1] \in Nat /\ sum[2] \in Nat /\ sum[1] + byte \in Nat
  OBVIOUS
<1>3. a \in 0..Modulus - 1
  BY <1>2, Division, WireAssumption
<1> HIDE DEF a
<1>4. sum[2] + a \in Nat
  BY <1>2, <1>3
<1>5. b \in 0..Modulus - 1
  BY <1>4, Division, WireAssumption
<1> HIDE DEF b
<1>6. <<a, b>> \in Pairs /\ <<a, b>>[1] = a /\ <<a, b>>[2] = b
  BY <1>3, <1>5 DEF Pairs
<1> QED
  BY <1>1, <1>6 DEF a, b

LEMMA PairsAreNaturals ==
    ASSUME NEW sum \in Pairs
    PROVE  sum \in Nat \X Nat /\ sum[1] \in 0..Modulus - 1 /\ sum[2] \in 0..Modulus - 1
<1>1. 0..Modulus - 1 \subseteq Nat
  BY WireAssumption
<1> QED
  BY <1>1 DEF Pairs

LEMMA SwappedPair ==
    ASSUME NEW sum \in Nat \X Nat, NEW x \in Nat, NEW y \in Nat,
           x % Modulus # y % Modulus
    PROVE  LET p == AddByte(AddByte(sum, x), y)
               q == AddByte(AddByte(sum, y), x)
           IN  p[1] = q[1] /\ p[2] # q[2]
<1> DEFINE p1 == AddByte(sum, x)
           q1 == AddByte(sum, y)
           p == AddByte(p1, y)
           q == AddByte(q1, x)
           a == sum[1]
           b == sum[2]
<1>1. a \in Nat /\ b \in Nat /\ a + x \in Nat /\ a + y \in Nat /\ Modulus \in Nat \ {0}
  BY WireAssumption
<1>2. /\ p1 \in Pairs /\ p1[1] = (a + x) % Modulus /\ p1[2] = (b + p1[1]) % Modulus
      /\ q1 \in Pairs /\ q1[1] = (a + y) % Modulus /\ q1[2] = (b + q1[1]) % Modulus
  BY AddByteType
<1>3. /\ p1 \in Nat \X Nat /\ p1[1] \in 0..Modulus - 1 /\ p1[2] \in 0..Modulus - 1
      /\ q1 \in Nat \X Nat /\ q1[1] \in 0..Modulus - 1 /\ q1[2] \in 0..Modulus - 1
  BY <1>2, PairsAreNaturals
<1>4. /\ p \in Pairs /\ p[1] = (p1[1] + y) % Modulus /\ p[2] = (p1[2] + p[1]) % Modulus
      /\ q \in Pairs /\ q[1] = (q1[1] + x) % Modulus /\ q[2] = (q1[2] + q[1]) % Modulus
  BY <1>3, AddByteType
<1>5. p[1] \in 0..Modulus - 1
  BY <1>4, PairsAreNaturals
<1> HIDE DEF p1, q1, p, q, a, b
<1>6. p[1] = q[1]
  <2>1. p[1] = ((a + x) + y) % Modulus
    <3>1. (((a + x) % Modulus) + y) % Modulus = ((a + x) + y) % Modulus
      BY <1>1, SumResidue
    <3> QED
      BY <3>1, <1>2, <1>4, Zenon
  <2>2. q[1] = ((a + y) + x) % Modulus
    <3>1. (((a + y) % Modulus) + x) % Modulus = ((a + y) + x) % Modulus
      BY <1>1, SumResidue
    <3> QED
      BY <3>1, <1>2, <1>4, Zenon
  <2>3. (a + x) + y = (a + y) + x
    BY <1>1
  <2> QED
    BY <2>1, <2>2, <2>3
<1>7. p1[1] # q1[1]
  BY <1>1, <1>2, ResiduesDiffer
<1>8. p1[2] # q1[2]
  <2>1. p1[1] % Modulus = p1[1] /\ q1[1] % Modulus = q1[1]
    BY <1>1, <1>3, SmallResidue
  <2>2. p1[1] \in Nat /\ q1[1] \in Nat
    BY <1>3
  <2>3. (b + p1[1]) % Modulus # (b + q1[1]) % Modulus
    BY <1>1, <1>7, <2>1, <2>2, ResiduesDiffer
  <2> QED
    BY <2>3, <1>2
<1>9. p[2] # q[2]
  <2>1. p1[2] % Modulus = p1[2] /\ q1[2] % Modulus = q1[2]
    BY <1>1, <1>3, SmallResidue
  <2>2. p1[2] \in Nat /\ q1[2] \in Nat /\ p[1] \in Nat
    BY <1>3, <1>5
  <2>3. (p[1] + p1[2]) % Modulus # (p[1] + q1[2]) % Modulus
    BY <1>1, <1>8, <2>1, <2>2, ResiduesDiffer
  <2>4. p[1] + p1[2] = p1[2] + p[1] /\ p[1] + q1[2] = q1[2] + q[1]
    BY <2>2, <1>6
  <2> QED
    BY <2>3, <2>4, <1>4
<1> QED
  BY <1>6, <1>9 DEF p, q, p1, q1

LEMMA SecondSumsDiffer ==
    ASSUME NEW p \in Pairs, NEW q \in Pairs, NEW x \in Nat, p[1] = q[1], p[2] # q[2]
    PROVE  AddByte(p, x)[1] = AddByte(q, x)[1] /\ AddByte(p, x)[2] # AddByte(q, x)[2]
<1> DEFINE u == AddByte(p, x)
           v == AddByte(q, x)
<1>1. /\ p \in Nat \X Nat /\ q \in Nat \X Nat /\ Modulus \in Nat \ {0}
      /\ p[2] \in 0..Modulus - 1 /\ q[2] \in 0..Modulus - 1
  BY PairsAreNaturals, WireAssumption
<1>2. /\ u \in Pairs /\ u[1] = (p[1] + x) % Modulus /\ u[2] = (p[2] + u[1]) % Modulus
      /\ v \in Pairs /\ v[1] = (q[1] + x) % Modulus /\ v[2] = (q[2] + v[1]) % Modulus
  BY <1>1, AddByteType
<1>3. u[1] \in 0..Modulus - 1
  BY <1>2, PairsAreNaturals
<1> HIDE DEF u, v
<1>4. u[1] = v[1]
  BY <1>2
<1>5. p[2] % Modulus = p[2] /\ q[2] % Modulus = q[2]
  BY <1>1, SmallResidue
<1>6. u[1] \in Nat /\ p[2] \in Nat /\ q[2] \in Nat
  BY <1>1, <1>3
<1>7. (u[1] + p[2]) % Modulus # (u[1] + q[2]) % Modulus
  BY <1>1, <1>5, <1>6, ResiduesDiffer
<1>8. u[1] + p[2] = p[2] + u[1] /\ u[1] + q[2] = q[2] + v[1]
  BY <1>4, <1>6
<1> QED
  BY <1>2, <1>4, <1>7, <1>8 DEF u, v

LEMMA ByteFacts ==
    ASSUME NEW bytes \in Seq(Bytes)
    PROVE  Len(bytes) \in Nat /\ \A i \in 1..Len(bytes) : bytes[i] \in Bytes /\ bytes[i] \in Nat
<1>1. Bytes \subseteq Nat
  BY WireAssumption DEF Bytes
<1>2. Len(bytes) \in Nat /\ \A i \in 1..Len(bytes) : bytes[i] \in Bytes
  OBVIOUS
<1> QED
  BY <1>1, <1>2

LEMMA SumsType ==
    ASSUME NEW bytes \in Seq(Bytes), NEW k \in 1..Len(bytes)
    PROVE  Sums(bytes)[k] \in Pairs
<1> DEFINE T == {i \in 1..Len(bytes) : Sums(bytes)[i] \notin Pairs}
<1> SUFFICES ASSUME T # {} PROVE FALSE
  OBVIOUS
<1>1. Len(bytes) \in Nat /\ \A i \in 1..Len(bytes) : bytes[i] \in Nat
  BY ByteFacts
<1>2. PICK m \in T : \A n \in T : m <= n
  <2>1. T \in SUBSET Nat
    BY <1>1
  <2> QED
    BY <2>1, LeastElement
<1>3. m \in 1..Len(bytes) /\ m \in Nat /\ bytes[m] \in Nat
  BY <1>1, <1>2
<1>4. Sums(bytes)[m] = AddByte(IF m = 1 THEN <<1, 0>> ELSE Sums(bytes)[m - 1], bytes[m])
  BY <1>1, <1>3, SumsUnfold
<1>5. m # 1 => Sums(bytes)[m - 1] \in Pairs
  <2>1. m # 1 => m - 1 \in 1..Len(bytes) /\ m - 1 < m
    BY <1>1, <1>3
  <2>2. m # 1 => m - 1 \notin T
    BY <2>1, <1>2, <1>3
  <2> QED
    BY <2>1, <2>2
<1>6. (IF m = 1 THEN <<1, 0>> ELSE Sums(bytes)[m - 1]) \in Nat \X Nat
  BY <1>5, PairsAreNaturals
<1> DEFINE before == IF m = 1 THEN <<1, 0>> ELSE Sums(bytes)[m - 1]
<1> HIDE DEF before
<1>7. before \in Nat \X Nat /\ Sums(bytes)[m] = AddByte(before, bytes[m])
  BY <1>4, <1>6 DEF before
<1>8. AddByte(before, bytes[m]) \in Pairs
  BY <1>3, <1>7, AddByteType
<1> QED
  BY <1>2, <1>7, <1>8

\* The sums after a byte depend on nothing that follows it.
LEMMA SumsPrefix ==
    ASSUME NEW s \in Seq(Bytes), NEW t \in Seq(Bytes), NEW k \in 1..Len(s), k <= Len(t),
           \A i \in 1..k : s[i] = t[i]
    PROVE  Sums(s)[k] = Sums(t)[k]
<1> DEFINE T == {i \in 1..k : Sums(s)[i] # Sums(t)[i]}
<1> SUFFICES ASSUME T # {} PROVE FALSE
  BY ByteFacts
<1>1. Len(s) \in Nat /\ Len(t) \in Nat /\ k \in Nat
  BY ByteFacts
<1>2. PICK m \in T : \A n \in T : m <= n
  <2>1. T \in SUBSET Nat
    BY <1>1
  <2> QED
    BY <2>1, LeastElement
<1>3. m \in 1..k /\ m \in 1..Len(s) /\ m \in 1..Len(t) /\ m \in Nat
  BY <1>1, <1>2
<1>4. s[m] = t[m]
  BY <1>3
<1>5. /\ Sums(s)[m] = AddByte(IF m = 1 THEN <<1, 0>> ELSE Sums(s)[m - 1], s[m])
      /\ Sums(t)[m] = AddByte(IF m = 1 THEN <<1, 0>> ELSE Sums(t)[m - 1], t[m])
  BY <1>1, <1>3, SumsUnfold
<1>6. m # 1 => Sums(s)[m - 1] = Sums(t)[m - 1]
  <2>1. m # 1 => m - 1 \in 1..k /\ m - 1 < m
    BY <1>1, <1>3
  <2>2. m # 1 => m - 1 \notin T
    BY <2>1, <1>2, <1>3
  <2> QED
    BY <2>1, <2>2
<1> QED
  BY <1>2, <1>4, <1>5, <1>6

\* From the second of two bytes that change places on, the second sums differ.
LEMMA SwappedSums ==
    ASSUME NEW s \in Seq(Bytes), NEW t \in Seq(Bytes), Len(s) = Len(t),
           NEW i \in 2..Len(s) - 1,
           t[i] = s[i + 1], t[i + 1] = s[i],
           \A j \in 1..Len(s) : j # i /\ j # i + 1 => t[j] = s[j],
           s[i] % Modulus # s[i + 1] % Modulus,
           NEW k \in i + 1..Len(s)
    PROVE  Sums(s)[k][1] = Sums(t)[k][1] /\ Sums(s)[k][2] # Sums(t)[k][2]
<1> DEFINE Differ(j) == Sums(s)[j][1] = Sums(t)[j][1] /\ Sums(s)[j][2] # Sums(t)[j][2]
           T == {j \in i + 1..Len(s) : ~Differ(j)}
<1> SUFFICES ASSUME T # {} PROVE FALSE
  OBVIOUS
<1>1. Len(s) \in Nat /\ i \in Nat /\ i - 1 \in Nat /\ k \in Nat
  BY ByteFacts
<1>2. PICK m \in T : \A n \in T : m <= n
  <2>1. T \in SUBSET Nat
    BY <1>1
  <2> QED
    BY <2>1, LeastElement
<1>3. m \in i + 1..Len(s) /\ m \in 1..Len(s) /\ m - 1 \in 1..Len(s) /\ m # 1 /\ ~Differ(m)
  BY <1>1, <1>2
<1>4. /\ Sums(s)[m] = AddByte(Sums(s)[m - 1], s[m])
      /\ Sums(t)[m] = AddByte(Sums(t)[m - 1], t[m])
  BY <1>1, <1>3, SumsUnfold
<1>5. CASE m = i + 1
  <2>1. i \in 1..Len(s) /\ i - 1 \in 1..Len(s) /\ i # 1 /\ i + 1 \in 1..Len(s)
    BY <1>1
  <2>2. /\ Sums(s)[i] = AddByte(Sums(s)[i - 1], s[i])
        /\ Sums(t)[i] = AddByte(Sums(t)[i - 1], t[i])
    BY <1>1, <2>1, SumsUnfold
  <2>3. \A j \in 1..i - 1 : s[j] = t[j]
    BY <1>1, <2>1
  <2>4. Sums(s)[i - 1] = Sums(t)[i - 1]
    BY <1>1, <2>1, <2>3, SumsPrefix
  <2>5. Sums(s)[i - 1] \in Nat \X Nat
    BY <2>1, SumsType, PairsAreNaturals
  <2>6. s[i] \in Nat /\ s[i + 1] \in Nat
    BY <2>1, ByteFacts
  <2> DEFINE p == AddByte(AddByte(Sums(s)[i - 1], s[i]), s[i + 1])
             q == AddByte(AddByte(Sums(s)[i - 1], s[i + 1]), s[i])
  <2>7. p[1] = q[1] /\ p[2] # q[2]
    BY <2>5, <2>6, SwappedPair
  <2>8. m - 1 = i
    BY <1>5, <1>1
  <2>9. Sums(s)[m] = p /\ Sums(t)[m] = q
    BY <1>4, <1>5, <2>2, <2>4, <2>8
  <2> QED
    BY <1>3, <2>7, <2>9
<1>6. CASE m # i + 1
  <2>1. m - 1 \in i + 1..Len(s) /\ m - 1 < m /\ m # i
    BY <1>1, <1>3, <1>6
  <2>2. m - 1 \notin T
    BY <2>1, <1>1, <1>2, <1>3
  <2>3. Differ(m - 1)
    BY <2>1, <2>2
  <2>4. s[m] = t[m] /\ s[m] \in Nat
    BY <1>3, <1>6, <2>1, ByteFacts
  <2>5. Sums(s)[m - 1] \in Pairs /\ Sums(t)[m - 1] \in Pairs
    BY <1>3, SumsType
  <2> DEFINE p == Sums(s)[m - 1]
             q == Sums(t)[m - 1]
  <2>6. p \in Pairs /\ q \in Pairs /\ p[1] = q[1] /\ p[2] # q[2]
    BY <2>3, <2>5
  <2> HIDE DEF p, q
  <2>7. /\ AddByte(p, s[m])[1] = AddByte(q, s[m])[1]
        /\ AddByte(p, s[m])[2] # AddByte(q, s[m])[2]
    BY <2>4, <2>6, SecondSumsDiffer
  <2>8. Sums(s)[m] = AddByte(p, s[m]) /\ Sums(t)[m] = AddByte(q, s[m])
    BY <1>4, <2>4 DEF p, q
  <2> QED
    BY <2>7, <2>8, <1>3
<1> QED
  BY <1>5, <1>6

-------------------------------------------------------------------------------
(***************************************************************************)
(* Frames.                                                                 *)
(***************************************************************************)
LEMMA Piece ==
    ASSUME NEW S, NEW s \in Seq(S), NEW m \in 1..Len(s) + 1, NEW n \in 0..Len(s)
    PROVE  /\ SubSeq(s, m, n) \in Seq(S)
           /\ Len(SubSeq(s, m, n)) = IF m <= n THEN n - m + 1 ELSE 0
           /\ \A i \in 1..n - m + 1 : SubSeq(s, m, n)[i] = s[m + i - 1]
<1>1. Len(s) \in Nat /\ \A i \in m..n : s[i] \in S
  OBVIOUS
<1> QED
  BY <1>1, SubSeqProperties

LEMMA ChecksumType ==
    ASSUME NEW bytes \in Seq(Bytes), Len(bytes) # 0
    PROVE  /\ Checksum(bytes) = Sums(bytes)[Len(bytes)]
           /\ Checksum(bytes) \in Seq(Bytes) /\ Len(Checksum(bytes)) = 2
           /\ Checksum(bytes) = <<Checksum(bytes)[1], Checksum(bytes)[2]>>
<1>1. Len(bytes) \in 1..Len(bytes) /\ bytes # <<>>
  BY ByteFacts
<1>2. Checksum(bytes) = Sums(bytes)[Len(bytes)]
  BY <1>1 DEF Checksum
<1>3. Sums(bytes)[Len(bytes)] \in Pairs
  BY <1>1, SumsType
<1>4. PICK a \in 0..Modulus - 1, b \in 0..Modulus - 1 : Sums(bytes)[Len(bytes)] = <<a, b>>
  BY <1>3 DEF Pairs
<1>5. a \in Bytes /\ b \in Bytes
  BY WireAssumption DEF Bytes
<1> QED
  BY <1>2, <1>4, <1>5

IsPayload(payload) == payload \in Seq(Bytes) /\ Len(payload) < ByteSpace

Body(id, payload) == <<Sync1, Sync2, id, Len(payload)>> \o payload

LEMMA BodyShape ==
    ASSUME NEW id \in Bytes, NEW payload, IsPayload(payload)
    PROVE  /\ Body(id, payload) \in Seq(Bytes)
           /\ Len(Body(id, payload)) = Len(payload) + 4
           /\ Body(id, payload)[1] = Sync1 /\ Body(id, payload)[2] = Sync2
           /\ Body(id, payload)[3] = id /\ Body(id, payload)[4] = Len(payload)
           /\ \A i \in 1..Len(payload) : Body(id, payload)[i + 4] = payload[i]
           /\ Frame(id, payload) = Body(id, payload) \o Checksum(Body(id, payload))
<1>1. payload \in Seq(Bytes) /\ Len(payload) \in Nat /\ Len(payload) \in 0..ByteSpace - 1
  BY WireAssumption DEF IsPayload
<1> DEFINE head == <<Sync1, Sync2, id, Len(payload)>>
<1>2. head \in Seq(Bytes) /\ Len(head) = 4
  BY <1>1, WireAssumption DEF Bytes
<1>3. head[1] = Sync1 /\ head[2] = Sync2 /\ head[3] = id /\ head[4] = Len(payload)
  OBVIOUS
<1> HIDE DEF head
<1>4. /\ head \o payload \in Seq(Bytes) /\ Len(head \o payload) = 4 + Len(payload)
      /\ \A i \in 1..4 + Len(payload) :
            (head \o payload)[i] = IF i <= 4 THEN head[i] ELSE payload[i - 4]
  <2>1. /\ head \o payload \in Seq(Bytes)
        /\ Len(head \o payload) = Len(head) + Len(payload)
        /\ \A i \in 1..Len(head) + Len(payload) :
              (head \o payload)[i] = IF i <= Len(head) THEN head[i] ELSE payload[i - Len(head)]
    BY <1>1, <1>2, ConcatProperties
  <2> QED
    BY <1>2, <2>1
<1>5. \A i \in 1..Len(payload) : i + 4 \in 1..4 + Len(payload) /\ ~(i + 4 <= 4) /\ (i + 4) - 4 = i
  BY <1>1
<1>6. \A i \in 1..Len(payload) : (head \o payload)[i + 4] = payload[i]
  BY <1>4, <1>5
<1>7. \A i \in 1..4 : (head \o payload)[i] = head[i]
  BY <1>1, <1>4
<1>8. Body(id, payload) = head \o payload
  BY DEF Body, head
<1>9. Len(payload) % ByteSpace = Len(payload)
  BY <1>1, SmallResidue, WireAssumption
<1>10. Frame(id, payload) = Body(id, payload) \o Checksum(Body(id, payload))
  BY <1>9 DEF Frame, Body
<1> QED
  BY <1>1, <1>3, <1>4, <1>6, <1>7, <1>8, <1>10

LEMMA FrameShape ==
    ASSUME NEW id \in Bytes, NEW payload, IsPayload(payload)
    PROVE  LET f == Frame(id, payload)
               n == Len(payload) + 6
           IN  /\ f \in Seq(Bytes) /\ Len(f) = n
               /\ f[1] = Sync1 /\ f[2] = Sync2 /\ f[3] = id /\ f[4] = Len(payload)
               /\ \A i \in 1..Len(payload) : f[i + 4] = payload[i]
               /\ SubSeq(f, 1, n - 2) = Body(id, payload)
               /\ <<f[n - 1], f[n]>> = Checksum(SubSeq(f, 1, n - 2))
<1> DEFINE f == Frame(id, payload)
           body == Body(id, payload)
           ck == Checksum(body)
           n == Len(payload) + 6
<1>1. Len(payload) \in Nat /\ n \in Nat
  BY DEF IsPayload
<1>2. /\ body \in Seq(Bytes) /\ Len(body) = n - 2 /\ f = body \o ck
      /\ body[1] = Sync1 /\ body[2] = Sync2 /\ body[3] = id /\ body[4] = Len(payload)
      /\ \A i \in 1..Len(payload) : body[i + 4] = payload[i]
  <2>1. Len(payload) + 4 = n - 2
    BY <1>1
  <2>2. body \in Seq(Bytes) /\ Len(body) = Len(payload) + 4
    BY BodyShape
  <2>3. body[1] = Sync1 /\ body[2] = Sync2 /\ body[3] = id /\ body[4] = Len(payload)
    BY BodyShape
  <2>4. \A i \in 1..Len(payload) : body[i + 4] = payload[i]
    BY BodyShape
  <2>5. f = body \o ck
    BY BodyShape
  <2> HIDE DEF n, f, body, ck
  <2> QED
    BY <2>1, <2>2, <2>3, <2>4, <2>5
<1>3. ck \in Seq(Bytes) /\ Len(ck) = 2 /\ ck = <<ck[1], ck[2]>>
  BY <1>1, <1>2, ChecksumType
<1> HIDE DEF f, body, ck
<1>4. /\ f \in Seq(Bytes) /\ Len(f) = n
      /\ \A i \in 1..n : f[i] = IF i <= n - 2 THEN body[i] ELSE ck[i - (n - 2)]
  <2>1. /\ body \o ck \in Seq(Bytes)
        /\ Len(body \o ck) = Len(body) + Len(ck)
        /\ \A i \in 1..Len(body) + Len(ck) :
              (body \o ck)[i] = IF i <= Len(body) THEN body[i] ELSE ck[i - Len(body)]
    <3>1. body \in Seq(Bytes) /\ ck \in Seq(Bytes)
      BY <1>2, <1>3
    <3> QED
      BY <3>1, ConcatProperties
  <2>2. (n - 2) + 2 = n
    BY <1>1
  <2> HIDE DEF n
  <2> QED
    BY <1>2, <1>3, <2>1, <2>2
<1>5. \A i \in 1..n - 2 : f[i] = body[i]
  BY <1>1, <1>4
<1>6. /\ n - 1 \in 1..n /\ ~(n - 1 <= n - 2) /\ (n - 1) - (n - 2) = 1
      /\ n \in 1..n /\ ~(n <= n - 2) /\ n - (n - 2) = 2
  BY <1>1
<1>7. f[n - 1] = ck[1] /\ f[n] = ck[2]
  BY <1>4, <1>6
<1>8. SubSeq(f, 1, n - 2) = body
  <2>1. 1 \in 1..Len(f) + 1 /\ n - 2 \in 0..Len(f) /\ 1 <= n - 2 /\ (n - 2) - 1 + 1 = n - 2
    BY <1>1, <1>4
  <2>2. /\ SubSeq(f, 1, n - 2) \in Seq(Bytes) /\ Len(SubSeq(f, 1, n - 2)) = n - 2
        /\ \A i \in 1..n - 2 : SubSeq(f, 1, n - 2)[i] = f[1 + i - 1]
    BY <1>4, <2>1, Piece
  <2>3. \A i \in 1..n - 2 : SubSeq(f, 1, n - 2)[i] = body[i]
    BY <1>1, <1>5, <2>2
  <2> QED
    BY <1>2, <2>2, <2>3, SeqEqual
<1>9. <<f[n - 1], f[n]>> = Checksum(SubSeq(f, 1, n - 2))
  BY <1>3, <1>7, <1>8 DEF ck
<1>10. /\ 1 \in 1..n - 2 /\ 2 \in 1..n - 2 /\ 3 \in 1..n - 2 /\ 4 \in 1..n - 2
       /\ \A i \in 1..Len(payload) : i + 4 \in 1..n - 2
  BY <1>1
<1>11. \A i \in 1..Len(payload) : f[i + 4] = payload[i]
  BY <1>2, <1>5, <1>10
<1>12. f[1] = Sync1 /\ f[2] = Sync2 /\ f[3] = id /\ f[4] = Len(payload)
  BY <1>2, <1>5, <1>10
<1> QED
  BY <1>4, <1>8, <1>9, <1>11, <1>12 DEF f, body

LEMMA SwappedShape ==
    ASSUME NEW f \in Seq(Bytes), NEW i \in 1..Len(f) - 1
    PROVE  /\ Swapped(f, i) \in Seq(Bytes) /\ Len(Swapped(f, i)) = Len(f)
           /\ Swapped(f, i)[i] = f[i + 1] /\ Swapped(f, i)[i + 1] = f[i]
           /\ \A j \in 1..Len(f) : j # i /\ j # i + 1 => Swapped(f, i)[j] = f[j]
<1>1. Len(f) \in Nat /\ i \in 1..Len(f) /\ i + 1 \in 1..Len(f) /\ i # i + 1
  BY ByteFacts
<1>2. f[i] \in Bytes /\ f[i + 1] \in Bytes
  BY <1>1, ByteFacts
<1> DEFINE g == [f EXCEPT ![i] = f[i + 1]]
           h == [g EXCEPT ![i + 1] = f[i]]
<1>3. /\ g \in Seq(Bytes) /\ Len(g) = Len(f)
      /\ \A j \in 1..Len(f) : g[j] = IF j = i THEN f[i + 1] ELSE f[j]
  BY <1>1, <1>2, ExceptSeq
<1>4. Swapped(f, i) = h
  BY DEF Swapped
<1> HIDE DEF g
<1>5. /\ h \in Seq(Bytes) /\ Len(h) = Len(f)
      /\ \A j \in 1..Len(f) : h[j] = IF j = i + 1 THEN f[i] ELSE g[j]
  BY <1>1, <1>2, <1>3, ExceptSeq
<1> HIDE DEF h
<1>6. h[i] = f[i + 1] /\ h[i + 1] = f[i]
  BY <1>1, <1>3, <1>5
<1>7. \A j \in 1..Len(f) : j # i /\ j # i + 1 => h[j] = f[j]
  BY <1>3, <1>5
<1> QED
  BY <1>4, <1>5, <1>6, <1>7

LEMMA SwapIsNoticed ==
    ASSUME NEW id \in Bytes, NEW payload, IsPayload(payload),
           NEW i \in 5..Len(Frame(id, payload)) - 3,
           Frame(id, payload)[i] % Modulus # Frame(id, payload)[i + 1] % Modulus
    PROVE  ~ValidAt(Swapped(Frame(id, payload), i), 1)
<1> DEFINE f == Frame(id, payload)
           w == Swapped(f, i)
           n == Len(payload) + 6
           s == SubSeq(f, 1, n - 2)
           t == SubSeq(w, 1, n - 2)
<1> SUFFICES ASSUME ValidAt(w, 1) PROVE FALSE
  OBVIOUS
<1>1. Len(payload) \in Nat /\ n \in Nat
  BY DEF IsPayload
<1>2. f \in Seq(Bytes) /\ Len(f) = n /\ f[4] = Len(payload)
  BY FrameShape
<1>3. <<f[n - 1], f[n]>> = Checksum(s)
  BY FrameShape
<1>4. f[i] % Modulus # f[i + 1] % Modulus /\ i \in 5..n - 3
  BY <1>2
<1> HIDE DEF f
<1>5. /\ 1 \in 1..n + 1 /\ n - 2 \in 0..n /\ 1 <= n - 2 /\ (n - 2) - 1 + 1 = n - 2
      /\ i \in 1..n - 1 /\ i \in 2..(n - 2) - 1 /\ i \in 1..n - 2 /\ i + 1 \in 1..n - 2
      /\ n - 2 \in i + 1..n - 2 /\ n - 2 # 0
      /\ 4 \in 1..n /\ 4 # i /\ 4 # i + 1 /\ n \in 1..n /\ n # i /\ n # i + 1
      /\ n - 1 \in 1..n /\ n - 1 # i /\ n - 1 # i + 1
  BY <1>1, <1>4
<1>6. /\ w \in Seq(Bytes) /\ Len(w) = n /\ w[i] = f[i + 1] /\ w[i + 1] = f[i]
      /\ \A j \in 1..n : j # i /\ j # i + 1 => w[j] = f[j]
  BY <1>2, <1>5, SwappedShape
<1>7. w[4] = Len(payload) /\ w[n - 1] = f[n - 1] /\ w[n] = f[n]
  BY <1>2, <1>5, <1>6
<1> HIDE DEF w
<1>8. 1 - 1 + Total(w, 1) = n
  <2>1. Total(w, 1) = 4 + w[4] + 2
    BY DEF Total
  <2> QED
    BY <1>1, <1>7, <2>1
<1>9. <<w[n - 1], w[n]>> = Checksum(t)
  BY <1>8 DEF ValidAt
<1>10. Checksum(s) = Checksum(t)
  BY <1>3, <1>7, <1>9
<1>11. s \in Seq(Bytes) /\ Len(s) = n - 2 /\ \A j \in 1..n - 2 : s[j] = f[1 + j - 1]
  BY <1>2, <1>5, Piece
<1>12. t \in Seq(Bytes) /\ Len(t) = n - 2 /\ \A j \in 1..n - 2 : t[j] = w[1 + j - 1]
  BY <1>6, <1>5, Piece
<1> HIDE DEF s, t
<1>13. \A j \in 1..n - 2 : s[j] = f[j] /\ t[j] = w[j] /\ j \in 1..n
  BY <1>1, <1>11, <1>12
<1>14. /\ t[i] = s[i + 1] /\ t[i + 1] = s[i]
       /\ \A j \in 1..n - 2 : j # i /\ j # i + 1 => t[j] = s[j]
       /\ s[i] % Modulus # s[i + 1] % Modulus
  BY <1>4, <1>5, <1>6, <1>13
<1>15. Sums(s)[n - 2] = Sums(t)[n - 2]
  <2>1. Len(s) # 0 /\ Len(t) # 0
    BY <1>5, <1>11, <1>12
  <2>2. Checksum(s) = Sums(s)[Len(s)] /\ Checksum(t) = Sums(t)[Len(t)]
    BY <1>11, <1>12, <2>1, ChecksumType
  <2> QED
    BY <1>10, <1>11, <1>12, <2>2
<1>16. Sums(s)[n - 2][2] # Sums(t)[n - 2][2]
  <2>1. s \in Seq(Bytes) /\ t \in Seq(Bytes) /\ Len(s) = n - 2 /\ Len(s) = Len(t)
    BY <1>11, <1>12
  <2>2. /\ i \in 2..Len(s) - 1 /\ n - 2 \in i + 1..Len(s)
        /\ \A j \in 1..Len(s) : j # i /\ j # i + 1 => t[j] = s[j]
    BY <1>5, <1>14, <2>1
  <2> QED
    BY <1>14, <2>1, <2>2, SwappedSums
<1> QED
  BY <1>15, <1>16

-------------------------------------------------------------------------------
(***************************************************************************)
(* Parsing a buffer.                                                       *)
(***************************************************************************)
Stops(buf) == {s \in 1..Len(buf) : ValidAt(buf, s) \/ IncompleteAt(buf, s)}

FirstStop(buf, s) == s \in Stops(buf) /\ \A t \in Stops(buf) : s <= t

LEMMA ParseFirst ==
    ASSUME NEW buf \in Seq(Bytes), NEW s, FirstStop(buf, s)
    PROVE  Parse(buf) = IF ValidAt(buf, s) THEN FrameAt(buf, s) ELSE NothingFound
<1> DEFINE first == CHOOSE r \in Stops(buf) : \A t \in Stops(buf) : r <= t
<1>1. Stops(buf) # {} /\ Stops(buf) \in SUBSET Nat
  BY ByteFacts DEF FirstStop, Stops
<1>2. first \in Stops(buf) /\ \A t \in Stops(buf) : first <= t
  BY DEF FirstStop
<1>3. first = s
  BY <1>1, <1>2 DEF FirstStop
<1>4. Parse(buf) = IF Stops(buf) = {} THEN NothingFound
                   ELSE IF ValidAt(buf, first) THEN FrameAt(buf, first) ELSE NothingFound
  BY Zenon DEF Parse, Stops
<1> QED
  BY <1>1, <1>3, <1>4

LEMMA ParseNone ==
    ASSUME NEW buf \in Seq(Bytes), Stops(buf) = {}
    PROVE  Parse(buf) = NothingFound
BY DEF Parse, Stops

LEMMA SomeFirstStop ==
    ASSUME NEW buf \in Seq(Bytes), Stops(buf) # {}
    PROVE  \E s : FirstStop(buf, s)
<1>1. Stops(buf) \in SUBSET Nat
  BY ByteFacts DEF Stops
<1> QED
  BY <1>1, LeastElement DEF FirstStop

LEMMA ParseFound ==
    ASSUME NEW buf \in Seq(Bytes)
    PROVE  /\ Parse(buf).found \in BOOLEAN
           /\ ~Parse(buf).found => Parse(buf) = NothingFound
           /\ Parse(buf).found =>
                 \E s : FirstStop(buf, s) /\ ValidAt(buf, s) /\ Parse(buf) = FrameAt(buf, s)
<1>1. NothingFound.found = FALSE /\ \A s : FrameAt(buf, s).found = TRUE
  BY DEF NothingFound, FrameAt
<1>2. CASE Stops(buf) = {}
  BY <1>1, <1>2, ParseNone
<1>3. CASE Stops(buf) # {}
  <2>1. PICK s : FirstStop(buf, s)
    BY <1>3, SomeFirstStop
  <2>2. Parse(buf) = IF ValidAt(buf, s) THEN FrameAt(buf, s) ELSE NothingFound
    BY <2>1, ParseFirst
  <2> QED
    BY <1>1, <2>1, <2>2
<1> QED
  BY <1>2, <1>3

LEMMA HeaderFacts ==
    ASSUME NEW buf \in Seq(Bytes), NEW s \in 1..Len(buf), s + 3 <= Len(buf)
    PROVE  /\ Len(buf) \in Nat /\ s \in Nat /\ s + 3 \in 1..Len(buf) /\ buf[s + 3] \in Nat
           /\ buf[s + 2] \in Bytes
           /\ Total(buf, s) = buf[s + 3] + 6 /\ Total(buf, s) \in Nat
<1>1. Len(buf) \in Nat /\ s \in Nat /\ s + 3 \in 1..Len(buf) /\ s + 2 \in 1..Len(buf)
  BY ByteFacts
<1>2. buf[s + 3] \in Nat /\ buf[s + 2] \in Bytes
  BY <1>1, ByteFacts
<1>3. Total(buf, s) = buf[s + 3] + 6
  BY <1>2 DEF Total
<1> QED
  BY <1>1, <1>2, <1>3

LEMMA FrameAtType ==
    ASSUME NEW buf \in Seq(Bytes), NEW s \in 1..Len(buf), ValidAt(buf, s)
    PROVE  LET frame == FrameAt(buf, s)
           IN  /\ frame.id \in Bytes /\ frame.data \in Seq(Bytes)
               /\ frame.consumed \in s + 5..Len(buf)
               /\ frame.consumed = s - 1 + Total(buf, s)
<1>1. s + 3 <= Len(buf) /\ s - 1 + Total(buf, s) <= Len(buf)
  BY DEF ValidAt, HasSync, Arrived
<1>2. /\ Len(buf) \in Nat /\ s \in Nat /\ buf[s + 3] \in Nat /\ buf[s + 2] \in Bytes
      /\ Total(buf, s) = buf[s + 3] + 6
  BY <1>1, HeaderFacts
<1> DEFINE n == buf[s + 3]
<1> HIDE DEF n
<1>3. s + 4 \in 1..Len(buf) + 1 /\ s + 3 + n \in 0..Len(buf) /\ s - 1 + Total(buf, s) \in s + 5..Len(buf)
  BY <1>1, <1>2 DEF n
<1>4. SubSeq(buf, s + 4, s + 3 + n) \in Seq(Bytes)
  BY <1>3, Piece
<1>5. /\ FrameAt(buf, s).id = buf[s + 2]
      /\ FrameAt(buf, s).data = SubSeq(buf, s + 4, s + 3 + n)
      /\ FrameAt(buf, s).consumed = s - 1 + Total(buf, s)
  BY DEF FrameAt, n
<1> QED
  BY <1>2, <1>3, <1>4, <1>5

\* What follows a candidate that has arrived changes nothing about it.
LEMMA ArrivedStays ==
    ASSUME NEW b \in Seq(Bytes), NEW c \in Seq(Bytes), NEW s \in 1..Len(b), s + 3 <= Len(b)
    PROVE  /\ b \o c \in Seq(Bytes) /\ s \in 1..Len(b \o c) /\ s + 3 <= Len(b \o c)
           /\ HasSync(b \o c, s) <=> HasSync(b, s)
           /\ Total(b \o c, s) = Total(b, s)
           /\ Arrived(b, s) => /\ Arrived(b \o c, s)
                               /\ ValidAt(b \o c, s) <=> ValidAt(b, s)
                               /\ FrameAt(b \o c, s) = FrameAt(b, s)
<1> DEFINE g == b \o c
<1>1. Len(b) \in Nat /\ Len(c) \in Nat /\ s \in Nat
  BY ByteFacts
<1>2. /\ g \in Seq(Bytes) /\ Len(g) = Len(b) + Len(c)
      /\ \A i \in 1..Len(b) : g[i] = b[i]
  <2>1. /\ g \in Seq(Bytes) /\ Len(g) = Len(b) + Len(c)
        /\ \A i \in 1..Len(b) + Len(c) : g[i] = IF i <= Len(b) THEN b[i] ELSE c[i - Len(b)]
    BY ConcatProperties
  <2> QED
    BY <1>1, <2>1
<1>3. \A m, n \in 1..Len(b) : SubSeq(g, m, n) = SubSeq(b, m, n)
  BY SubSeqOfConcat1
<1> HIDE DEF g
<1>4. s \in 1..Len(g) /\ s + 3 <= Len(g) /\ Len(g) >= Len(b)
  BY <1>1, <1>2
<1>5. g[s] = b[s] /\ g[s + 1] = b[s + 1] /\ g[s + 2] = b[s + 2] /\ g[s + 3] = b[s + 3]
  BY <1>1, <1>2
<1>6. HasSync(g, s) <=> HasSync(b, s)
  BY <1>4, <1>5 DEF HasSync
<1>7. Total(g, s) = Total(b, s)
  BY <1>5 DEF Total
<1>8. ASSUME Arrived(b, s)
      PROVE  Arrived(g, s) /\ (ValidAt(g, s) <=> ValidAt(b, s)) /\ FrameAt(g, s) = FrameAt(b, s)
  <2> DEFINE n == b[s + 3]
             end == s - 1 + Total(b, s)
  <2>1. n \in Nat /\ Total(b, s) = n + 6
    BY HeaderFacts
  <2>2. end <= Len(b)
    BY <1>8 DEF Arrived
  <2>3. Arrived(g, s)
    BY <1>1, <1>4, <1>7, <2>1, <2>2 DEF Arrived
  <2> HIDE DEF n
  <2>4. /\ end - 2 \in 1..Len(b) /\ end - 1 \in 1..Len(b) /\ end \in 1..Len(b)
        /\ s + 4 \in 1..Len(b) /\ s + 3 + n \in 1..Len(b)
    BY <1>1, <2>1, <2>2
  <2> HIDE DEF end
  <2>5. SubSeq(g, s, end - 2) = SubSeq(b, s, end - 2) /\ g[end - 1] = b[end - 1] /\ g[end] = b[end]
    BY <1>2, <1>3, <2>4
  <2>6. SubSeq(g, s + 4, s + 3 + n) = SubSeq(b, s + 4, s + 3 + n)
    BY <1>3, <2>4
  <2>7. ValidAt(g, s) <=> ValidAt(b, s)
    BY <1>6, <1>7, <1>8, <2>3, <2>5 DEF ValidAt, end
  <2>8. FrameAt(g, s) = FrameAt(b, s)
    BY <1>5, <1>7, <2>6 DEF FrameAt, n
  <2> QED
    BY <2>3, <2>7, <2>8
<1> QED
  BY <1>2, <1>4, <1>6, <1>7, <1>8 DEF g

\* A frame that has been found stays the one that is found.
LEMMA ParseStays ==
    ASSUME NEW b \in Seq(Bytes), NEW c \in Seq(Bytes), Parse(b).found
    PROVE  Parse(b \o c) = Parse(b)
<1>1. PICK s : FirstStop(b, s) /\ ValidAt(b, s) /\ Parse(b) = FrameAt(b, s)
  BY ParseFound
<1>2. s \in 1..Len(b) /\ s + 3 <= Len(b) /\ Arrived(b, s) /\ Len(b) \in Nat
  BY <1>1, ByteFacts DEF FirstStop, Stops, ValidAt, HasSync
<1>3. b \o c \in Seq(Bytes) /\ s \in 1..Len(b \o c) /\ ValidAt(b \o c, s) /\ FrameAt(b \o c, s) = FrameAt(b, s)
  BY <1>1, <1>2, ArrivedStays
<1>4. ASSUME NEW t \in Stops(b \o c), ~(s <= t)
      PROVE  FALSE
  <2>1. t \in 1..Len(b \o c) /\ (ValidAt(b \o c, t) \/ IncompleteAt(b \o c, t))
    BY DEF Stops
  <2>2. t \in 1..Len(b) /\ t + 3 <= Len(b)
    BY <1>2, <1>3, <1>4, <2>1, ByteFacts
  <2>3. t \notin Stops(b)
    BY <1>1, <1>4 DEF FirstStop
  <2>4. ~ValidAt(b, t) /\ ~IncompleteAt(b, t)
    BY <2>2, <2>3 DEF Stops
  <2>5. HasSync(b \o c, t) => HasSync(b, t)
    BY <2>2, ArrivedStays
  <2>6. HasSync(b \o c, t) => Arrived(b, t)
    BY <2>4, <2>5 DEF IncompleteAt
  <2>7. Arrived(b, t) => Arrived(b \o c, t) /\ (ValidAt(b \o c, t) <=> ValidAt(b, t))
    BY <2>2, ArrivedStays
  <2> QED
    BY <2>1, <2>4, <2>6, <2>7 DEF ValidAt, IncompleteAt
<1>5. FirstStop(b \o c, s)
  BY <1>3, <1>4 DEF FirstStop, Stops
<1> QED
  BY <1>1, <1>3, <1>5, ParseFirst

LEMMA ParseAdvances ==
    ASSUME NEW buf \in Seq(Bytes), Parse(buf).found
    PROVE  /\ Parse(buf).consumed \in 1..Len(buf)
           /\ Parse(buf).id \in Bytes /\ Parse(buf).data \in Seq(Bytes)
<1>1. PICK s : FirstStop(buf, s) /\ ValidAt(buf, s) /\ Parse(buf) = FrameAt(buf, s)
  BY ParseFound
<1>2. s \in 1..Len(buf) /\ Len(buf) \in Nat
  BY <1>1, ByteFacts DEF FirstStop, Stops
<1>3. /\ FrameAt(buf, s).consumed \in s + 5..Len(buf)
      /\ FrameAt(buf, s).id \in Bytes /\ FrameAt(buf, s).data \in Seq(Bytes)
  BY <1>1, <1>2, FrameAtType
<1>4. s + 5..Len(buf) \subseteq 1..Len(buf)
  BY <1>2
<1> QED
  BY <1>1, <1>3, <1>4

-------------------------------------------------------------------------------
(***************************************************************************)
(* All frames of a stream.                                                 *)
(***************************************************************************)
Rest(s, n) == SubSeq(s, n + 1, Len(s))

LEMMA RestShape ==
    ASSUME NEW s \in Seq(Bytes), NEW n \in 0..Len(s)
    PROVE  /\ Rest(s, n) \in Seq(Bytes) /\ Len(Rest(s, n)) = Len(s) - n
           /\ \A i \in 1..Len(s) - n : Rest(s, n)[i] = s[n + i]
<1>1. Len(s) \in Nat /\ n \in Nat /\ n + 1 \in 1..Len(s) + 1 /\ Len(s) \in 0..Len(s)
  BY ByteFacts
<1>2. Len(s) - (n + 1) + 1 = Len(s) - n
  BY <1>1
<1> DEFINE r == SubSeq(s, n + 1, Len(s))
<1>3. /\ r \in Seq(Bytes) /\ Len(r) = IF n + 1 <= Len(s) THEN Len(s) - (n + 1) + 1 ELSE 0
      /\ \A i \in 1..Len(s) - (n + 1) + 1 : r[i] = s[(n + 1) + i - 1]
  BY <1>1, Piece
<1> HIDE DEF r
<1>4. \A i \in 1..Len(s) - n : (n + 1) + i - 1 = n + i
  BY <1>1
<1>5. \A i \in 1..Len(s) - n : r[i] = s[n + i]
  BY <1>2, <1>3, <1>4
<1>6. Len(r) = Len(s) - n
  BY <1>1, <1>3
<1> QED
  BY <1>3, <1>5, <1>6 DEF Rest, r

LEMMA RestOfRest ==
    ASSUME NEW s \in Seq(Bytes), NEW n \in 0..Len(s), NEW k \in 0..Len(s) - n
    PROVE  Rest(Rest(s, n), k) = Rest(s, n + k)
<1> DEFINE u == Rest(s, n)
           v == Rest(u, k)
           w == Rest(s, n + k)
<1>1. Len(s) \in Nat /\ n + k \in 0..Len(s) /\ Len(s) - n \in Nat
  BY ByteFacts
<1>2. /\ u \in Seq(Bytes) /\ Len(u) = Len(s) - n
      /\ \A i \in 1..Len(s) - n : u[i] = s[n + i]
  BY RestShape
<1> HIDE DEF u
<1>3. /\ v \in Seq(Bytes) /\ Len(v) = Len(u) - k
      /\ \A i \in 1..Len(u) - k : v[i] = u[k + i]
  BY <1>2, RestShape
<1>4. /\ w \in Seq(Bytes) /\ Len(w) = Len(s) - (n + k)
      /\ \A i \in 1..Len(s) - (n + k) : w[i] = s[(n + k) + i]
  BY <1>1, RestShape
<1> HIDE DEF v, w
<1>5. Len(v) = Len(w)
  BY <1>1, <1>2, <1>3, <1>4
<1>6. ASSUME NEW i \in 1..Len(v) PROVE v[i] = w[i]
  <2>1. /\ i \in 1..Len(u) - k /\ k + i \in 1..Len(s) - n /\ i \in 1..Len(s) - (n + k)
        /\ n + (k + i) = (n + k) + i
    BY <1>1, <1>2, <1>3, <1>6
  <2> QED
    BY <2>1, <1>2, <1>3, <1>4
<1>7. v = w
  BY <1>3, <1>4, <1>5, <1>6, SeqEqual
<1> QED
  BY <1>7 DEF v, w, u

Found == Bytes \X Seq(Bytes)

FramesFrom(f, s, n) ==
    LET frame == Parse(Rest(s, n))
    IN  IF frame.found THEN <<<<frame.id, frame.data>>>> \o f[n + frame.consumed] ELSE <<>>

\* The frames after each of the last positions of a stream.
AreFrames(f, s, k) == f = [n \in k..Len(s) |-> FramesFrom(f, s, n)]

LEMMA NextPosition ==
    ASSUME NEW s \in Seq(Bytes), NEW n \in 0..Len(s), Parse(Rest(s, n)).found
    PROVE  /\ Parse(Rest(s, n)).consumed \in 1..Len(s) - n
           /\ n + Parse(Rest(s, n)).consumed \in n + 1..Len(s)
<1>1. Rest(s, n) \in Seq(Bytes) /\ Len(Rest(s, n)) = Len(s) - n /\ Len(s) \in Nat
  BY RestShape, ByteFacts
<1>2. Parse(Rest(s, n)).consumed \in 1..Len(s) - n
  BY <1>1, ParseAdvances
<1> QED
  BY <1>1, <1>2

LEMMA FramesExist ==
    ASSUME NEW s \in Seq(Bytes), NEW j \in 0..Len(s) + 1
    PROVE  \E f : AreFrames(f, s, Len(s) + 1 - j)
<1> DEFINE T == {i \in 0..Len(s) + 1 : ~\E f : AreFrames(f, s, Len(s) + 1 - i)}
<1> SUFFICES ASSUME T # {} PROVE FALSE
  OBVIOUS
<1>1. Len(s) \in Nat
  BY ByteFacts
<1>2. PICK m \in T : \A i \in T : m <= i
  <2>1. T \in SUBSET Nat
    BY <1>1
  <2> QED
    BY <2>1, LeastElement
<1>3. m # 0
  <2> DEFINE f == [n \in Len(s) + 1..Len(s) |-> 0]
  <2>1. Len(s) + 1 - 0 = Len(s) + 1 /\ Len(s) + 1..Len(s) = {}
    BY <1>1
  <2>2. AreFrames(f, s, Len(s) + 1 - 0)
    BY <2>1 DEF AreFrames
  <2> QED
    BY <2>2, <1>2
<1>4. m \in Nat /\ m - 1 \in 0..Len(s) + 1 /\ m - 1 \notin T
  BY <1>1, <1>2, <1>3
<1> DEFINE k == Len(s) + 1 - m
<1>5. k \in 0..Len(s) /\ Len(s) + 1 - (m - 1) = k + 1
  BY <1>1, <1>2, <1>3
<1>6. PICK f : AreFrames(f, s, k + 1)
  BY <1>4, <1>5
<1> DEFINE g == [n \in k..Len(s) |-> FramesFrom(f, s, n)]
<1> HIDE DEF k
<1>7. \A n \in k + 1..Len(s) : g[n] = f[n]
  BY <1>1, <1>5, <1>6 DEF AreFrames
<1>8. ASSUME NEW n \in k..Len(s) PROVE FramesFrom(g, s, n) = FramesFrom(f, s, n)
  <2>1. n \in 0..Len(s) /\ n + 1..Len(s) \subseteq k + 1..Len(s)
    BY <1>1, <1>5
  <2>2. Parse(Rest(s, n)).found => n + Parse(Rest(s, n)).consumed \in k + 1..Len(s)
    BY <2>1, NextPosition
  <2> HIDE DEF g
  <2> QED
    BY <2>2, <1>7 DEF FramesFrom
<1>9. AreFrames(g, s, k)
  BY <1>8, Zenon DEF AreFrames
<1> QED
  BY <1>2, <1>9 DEF k

LEMMA FramesFunction ==
    ASSUME NEW s \in Seq(Bytes)
    PROVE  \E f : AllFrames(s) = f[0] /\ \A n \in 0..Len(s) : f[n] = FramesFrom(f, s, n)
<1> DEFINE f == CHOOSE f : f = [n \in 0..Len(s) |-> FramesFrom(f, s, n)]
<1>1. AllFrames(s) = f[0]
  BY Zenon DEF AllFrames, FramesFrom, Rest
<1>2. Len(s) \in Nat /\ Len(s) + 1 \in 0..Len(s) + 1 /\ Len(s) + 1 - (Len(s) + 1) = 0
  BY ByteFacts
<1>3. \E g : AreFrames(g, s, Len(s) + 1 - (Len(s) + 1))
  BY <1>2, FramesExist
<1>4. \E g : AreFrames(g, s, 0)
  BY <1>2, <1>3
<1>5. f = [n \in 0..Len(s) |-> FramesFrom(f, s, n)]
  BY <1>4, Zenon DEF AreFrames
<1> HIDE DEF f
<1>6. \A n \in 0..Len(s) : f[n] = FramesFrom(f, s, n)
  BY <1>5
<1> QED
  BY <1>1, <1>6

\* The frames after a position are all frames of the rest of the stream.
LEMMA FramesOfRest ==
    ASSUME NEW s \in Seq(Bytes), NEW f, \A i \in 0..Len(s) : f[i] = FramesFrom(f, s, i),
           NEW n \in 0..Len(s)
    PROVE  f[n] = AllFrames(Rest(s, n))
<1> DEFINE u == Rest(s, n)
<1>1. /\ u \in Seq(Bytes) /\ Len(u) = Len(s) - n /\ Len(s) \in Nat /\ Len(u) \in Nat
  BY RestShape, ByteFacts
<1>2. \A k \in 0..Len(s) - n : Rest(u, k) = Rest(s, n + k)
  BY RestOfRest
<1> HIDE DEF u
<1>3. PICK g : AllFrames(u) = g[0] /\ \A i \in 0..Len(u) : g[i] = FramesFrom(g, u, i)
  BY <1>1, FramesFunction
<1> DEFINE T == {j \in 0..Len(u) : f[n + (Len(u) - j)] # g[Len(u) - j]}
<1>4. T = {}
  <2> SUFFICES ASSUME T # {} PROVE FALSE
    OBVIOUS
  <2>1. PICK m \in T : \A i \in T : m <= i
    <3>1. T \in SUBSET Nat
      BY <1>1
    <3> QED
      BY <3>1, LeastElement
  <2> DEFINE k == Len(u) - m
  <2>2. m \in 0..Len(u) /\ k \in 0..Len(u) /\ n + k \in 0..Len(s) /\ k \in 0..Len(s) - n
    BY <1>1, <2>1
  <2>3. f[n + k] # g[k]
    BY <2>1
  <2> HIDE DEF k
  <2>4. Rest(u, k) = Rest(s, n + k)
    BY <1>2, <2>2
  <2>5. f[n + k] = FramesFrom(f, s, n + k) /\ g[k] = FramesFrom(g, u, k)
    BY <1>3, <2>2
  <2> DEFINE frame == Parse(Rest(u, k))
  <2>6. CASE frame.found
    <3>1. frame.consumed \in 1..Len(u) - k
      BY <1>1, <2>2, <2>6, NextPosition
    <3> DEFINE c == frame.consumed
    <3> HIDE DEF c
    <3>2. /\ c \in 1..m /\ m - c \in 0..Len(u) /\ m - c < m
          /\ Len(u) - (m - c) = k + c /\ n + (k + c) = (n + k) + c
      BY <3>1, <1>1, <2>2 DEF k, c
    <3>3. m - c \notin T
      <4> HIDE DEF T
      <4>1. m - c \in Int /\ m \in Int /\ ~(m <= m - c)
        BY <3>2, <2>2, <1>1
      <4> QED
        BY <4>1, <2>1
    <3>4. f[(n + k) + c] = g[k + c]
      BY <3>2, <3>3
    <3>5. f[n + k] = <<<<frame.id, frame.data>>>> \o f[(n + k) + c]
      BY <2>4, <2>5, <2>6 DEF FramesFrom, c
    <3>6. g[k] = <<<<frame.id, frame.data>>>> \o g[k + c]
      BY <2>5, <2>6 DEF FramesFrom, c
    <3> QED
      BY <2>3, <3>4, <3>5, <3>6
  <2>7. CASE ~frame.found
    BY <2>3, <2>4, <2>5, <2>7 DEF FramesFrom
  <2> QED
    BY <2>6, <2>7
<1>5. Len(u) \in 0..Len(u) /\ Len(u) - Len(u) = 0 /\ n + 0 = n
  BY <1>1
<1>6. f[n + (Len(u) - Len(u))] = g[Len(u) - Len(u)]
  BY <1>4, <1>5
<1> QED
  BY <1>3, <1>5, <1>6 DEF u

LEMMA RestOfAll ==
    ASSUME NEW s \in Seq(Bytes)
    PROVE  Rest(s, 0) = s
<1>1. Len(s) \in Nat /\ 0 \in 0..Len(s)
  BY ByteFacts
<1>2. /\ Rest(s, 0) \in Seq(Bytes) /\ Len(Rest(s, 0)) = Len(s)
      /\ \A i \in 1..Len(s) : Rest(s, 0)[i] = s[i]
  BY <1>1, RestShape
<1> QED
  BY <1>2, SeqEqual

\* One frame at a time.
LEMMA AllFramesUnfold ==
    ASSUME NEW s \in Seq(Bytes)
    PROVE  AllFrames(s) = IF Parse(s).found
                          THEN <<<<Parse(s).id, Parse(s).data>>>> \o AllFrames(Rest(s, Parse(s).consumed))
                          ELSE <<>>
<1>1. PICK f : AllFrames(s) = f[0] /\ \A n \in 0..Len(s) : f[n] = FramesFrom(f, s, n)
  BY FramesFunction
<1>2. Len(s) \in Nat /\ 0 \in 0..Len(s)
  BY ByteFacts
<1>3. AllFrames(s) = FramesFrom(f, s, 0) /\ Rest(s, 0) = s
  BY <1>1, <1>2, RestOfAll
<1>4. CASE Parse(s).found
  <2> DEFINE c == Parse(s).consumed
  <2>1. c \in 1..Len(s)
    BY <1>4, ParseAdvances
  <2> HIDE DEF c
  <2>2. c \in 0..Len(s) /\ 0 + c = c
    BY <1>2, <2>1
  <2>3. f[0 + c] = AllFrames(Rest(s, c))
    BY <1>1, <2>2, FramesOfRest
  <2> QED
    BY <1>3, <1>4, <2>3 DEF FramesFrom, c
<1>5. CASE ~Parse(s).found
  BY <1>3, <1>5 DEF FramesFrom
<1> QED
  BY <1>4, <1>5

LEMMA AllFramesType ==
    ASSUME NEW s \in Seq(Bytes)
    PROVE  AllFrames(s) \in Seq(Found)
<1> DEFINE T == {n \in Nat : \E t \in Seq(Bytes) : Len(t) = n /\ AllFrames(t) \notin Seq(Found)}
<1> SUFFICES ASSUME T # {} PROVE FALSE
  <2>1. Len(s) \in Nat
    BY ByteFacts
  <2> QED
    BY <2>1
<1>1. PICK m \in T : \A i \in T : m <= i
  BY LeastElement
<1>2. PICK t \in Seq(Bytes) : Len(t) = m /\ AllFrames(t) \notin Seq(Found)
  BY <1>1
<1>3. Parse(t).found
  <2>1. <<>> \in Seq(Found)
    OBVIOUS
  <2> QED
    BY <1>2, <2>1, AllFramesUnfold
<1>4. /\ Parse(t).consumed \in 1..Len(t) /\ <<Parse(t).id, Parse(t).data>> \in Found
      /\ Len(t) \in Nat
  BY <1>2, <1>3, ParseAdvances, ByteFacts DEF Found
<1> DEFINE c == Parse(t).consumed
<1>5. c \in 0..Len(t) /\ Len(t) - c \in Nat /\ Len(t) - c < m
  BY <1>2, <1>4
<1>6. Rest(t, c) \in Seq(Bytes) /\ Len(Rest(t, c)) = Len(t) - c
  BY <1>5, RestShape
<1>7. Len(t) - c \notin T
  BY <1>1, <1>2, <1>5
<1>8. AllFrames(Rest(t, c)) \in Seq(Found)
  BY <1>5, <1>6, <1>7
<1>9. <<<<Parse(t).id, Parse(t).data>>>> \in Seq(Found)
  BY <1>4
<1>10. <<<<Parse(t).id, Parse(t).data>>>> \o AllFrames(Rest(t, c)) \in Seq(Found)
  BY <1>8, <1>9, ConcatProperties
<1> QED
  BY <1>2, <1>3, <1>10, AllFramesUnfold

-------------------------------------------------------------------------------
(***************************************************************************)
(* Noise before a stream and frames at its start.                          *)
(***************************************************************************)
LEMMA Joined ==
    ASSUME NEW a \in Seq(Bytes), NEW d \in Seq(Bytes)
    PROVE  /\ a \o d \in Seq(Bytes) /\ Len(a \o d) = Len(a) + Len(d)
           /\ Len(a) \in Nat /\ Len(d) \in Nat
           /\ \A i \in 1..Len(a) : (a \o d)[i] = a[i]
           /\ \A i \in 1..Len(d) : (a \o d)[Len(a) + i] = d[i]
<1> DEFINE g == a \o d
<1>1. Len(a) \in Nat /\ Len(d) \in Nat
  BY ByteFacts
<1>2. /\ g \in Seq(Bytes) /\ Len(g) = Len(a) + Len(d)
      /\ \A i \in 1..Len(a) + Len(d) : g[i] = IF i <= Len(a) THEN a[i] ELSE d[i - Len(a)]
  BY ConcatProperties
<1> HIDE DEF g
<1>3. \A i \in 1..Len(a) : g[i] = a[i]
  BY <1>1, <1>2
<1>4. \A i \in 1..Len(d) : /\ Len(a) + i \in 1..Len(a) + Len(d) /\ ~(Len(a) + i <= Len(a))
                           /\ (Len(a) + i) - Len(a) = i
  BY <1>1
<1>5. \A i \in 1..Len(d) : g[Len(a) + i] = d[i]
  BY <1>2, <1>4
<1> QED
  BY <1>1, <1>2, <1>3, <1>5 DEF g

LEMMA RestAfter ==
    ASSUME NEW a \in Seq(Bytes), NEW d \in Seq(Bytes), NEW c \in 0..Len(d)
    PROVE  Rest(a \o d, Len(a) + c) = Rest(d, c)
<1> DEFINE g == a \o d
           u == Rest(g, Len(a) + c)
           v == Rest(d, c)
<1>1. /\ g \in Seq(Bytes) /\ Len(g) = Len(a) + Len(d) /\ Len(a) \in Nat /\ Len(d) \in Nat
      /\ \A i \in 1..Len(d) : g[Len(a) + i] = d[i]
  BY Joined
<1> HIDE DEF g
<1>2. Len(a) + c \in 0..Len(g)
  BY <1>1
<1>3. /\ u \in Seq(Bytes) /\ Len(u) = Len(g) - (Len(a) + c)
      /\ \A i \in 1..Len(g) - (Len(a) + c) : u[i] = g[(Len(a) + c) + i]
  BY <1>1, <1>2, RestShape
<1>4. /\ v \in Seq(Bytes) /\ Len(v) = Len(d) - c
      /\ \A i \in 1..Len(d) - c : v[i] = d[c + i]
  BY RestShape
<1> HIDE DEF u, v
<1>5. Len(u) = Len(v) /\ Len(g) - (Len(a) + c) = Len(d) - c
  BY <1>1, <1>3, <1>4
<1>6. \A i \in 1..Len(d) - c : c + i \in 1..Len(d) /\ (Len(a) + c) + i = Len(a) + (c + i)
  BY <1>1
<1>7. ASSUME NEW i \in 1..Len(u) PROVE u[i] = v[i]
  <2>1. i \in 1..Len(d) - c /\ i \in 1..Len(g) - (Len(a) + c)
    BY <1>3, <1>5
  <2>2. u[i] = g[(Len(a) + c) + i] /\ v[i] = d[c + i]
    BY <1>3, <1>4, <2>1
  <2>3. g[(Len(a) + c) + i] = d[c + i]
    BY <1>1, <1>6, <2>1
  <2> QED
    BY <2>2, <2>3
<1>8. u = v
  BY <1>3, <1>4, <1>5, <1>7, SeqEqual
<1> QED
  BY <1>8 DEF u, v, g

LEMMA RestBefore ==
    ASSUME NEW a \in Seq(Bytes), NEW d \in Seq(Bytes), NEW c \in 0..Len(a)
    PROVE  Rest(a \o d, c) = Rest(a, c) \o d
<1> DEFINE g == a \o d
           u == Rest(g, c)
           v == Rest(a, c)
           w == v \o d
<1>1. /\ g \in Seq(Bytes) /\ Len(g) = Len(a) + Len(d) /\ Len(a) \in Nat /\ Len(d) \in Nat
      /\ \A i \in 1..Len(a) : g[i] = a[i]
      /\ \A i \in 1..Len(d) : g[Len(a) + i] = d[i]
  BY Joined
<1> HIDE DEF g
<1>2. c \in 0..Len(g) /\ Len(g) - c \in Nat
  BY <1>1
<1>3. /\ u \in Seq(Bytes) /\ Len(u) = Len(g) - c
      /\ \A i \in 1..Len(g) - c : u[i] = g[c + i]
  BY <1>1, <1>2, RestShape
<1>4. /\ v \in Seq(Bytes) /\ Len(v) = Len(a) - c
      /\ \A i \in 1..Len(a) - c : v[i] = a[c + i]
  BY RestShape
<1> HIDE DEF u, v
<1>5. /\ w \in Seq(Bytes) /\ Len(w) = Len(v) + Len(d)
      /\ \A i \in 1..Len(v) : w[i] = v[i]
      /\ \A i \in 1..Len(d) : w[Len(v) + i] = d[i]
  BY <1>4, Joined
<1> HIDE DEF w
<1>6. Len(u) = Len(w)
  BY <1>1, <1>3, <1>4, <1>5
<1>7. ASSUME NEW i \in 1..Len(u) PROVE u[i] = w[i]
  <2>1. i \in 1..Len(g) - c /\ u[i] = g[c + i]
    BY <1>3
  <2>2. CASE i <= Len(v)
    <3>1. i \in 1..Len(v) /\ i \in 1..Len(a) - c /\ c + i \in 1..Len(a)
      BY <1>1, <1>4, <2>1, <2>2
    <3> QED
      BY <3>1, <2>1, <1>1, <1>4, <1>5
  <2>3. CASE ~(i <= Len(v))
    <3> DEFINE j == i - Len(v)
    <3>1. j \in 1..Len(d) /\ Len(v) + j = i /\ Len(a) + j = c + i
      BY <1>1, <1>3, <1>4, <2>3
    <3> HIDE DEF j
    <3>2. w[Len(v) + j] = d[j] /\ g[Len(a) + j] = d[j]
      BY <3>1, <1>1, <1>5
    <3> QED
      BY <3>1, <3>2, <2>1
  <2> QED
    BY <2>2, <2>3
<1>8. u = w
  BY <1>3, <1>5, <1>6, <1>7, SeqEqual
<1> QED
  BY <1>8 DEF u, v, w, g

LEMMA Shifted ==
    ASSUME NEW a \in Seq(Bytes), NEW d \in Seq(Bytes), NEW t \in 1..Len(d), t + 3 <= Len(d)
    PROVE  LET g == a \o d
               k == Len(a) + t
           IN  /\ k \in 1..Len(g) /\ k + 3 <= Len(g)
               /\ HasSync(g, k) <=> HasSync(d, t)
               /\ Arrived(g, k) <=> Arrived(d, t)
               /\ ValidAt(g, k) <=> ValidAt(d, t)
               /\ FrameAt(g, k).id = FrameAt(d, t).id
               /\ FrameAt(g, k).consumed = Len(a) + FrameAt(d, t).consumed
               /\ Arrived(d, t) => FrameAt(g, k).data = FrameAt(d, t).data
<1> DEFINE g == a \o d
           k == Len(a) + t
           n == d[t + 3]
<1>1. /\ g \in Seq(Bytes) /\ Len(g) = Len(a) + Len(d) /\ Len(a) \in Nat /\ Len(d) \in Nat
      /\ \A i \in 1..Len(d) : g[Len(a) + i] = d[i]
  BY Joined
<1>2. \A i, j \in Len(a) + 1..Len(a) + Len(d) : SubSeq(g, i, j) = SubSeq(d, i - Len(a), j - Len(a))
  BY SubSeqOfConcat2
<1> HIDE DEF g
<1>3. k \in 1..Len(g) /\ k + 3 <= Len(g) /\ t \in Nat
  BY <1>1
<1>4. n \in Nat /\ Total(d, t) = n + 6
  BY HeaderFacts
<1>5. g[k] = d[t] /\ g[k + 1] = d[t + 1] /\ g[k + 2] = d[t + 2] /\ g[k + 3] = n
  <2>1. /\ t \in 1..Len(d) /\ t + 1 \in 1..Len(d) /\ t + 2 \in 1..Len(d) /\ t + 3 \in 1..Len(d)
        /\ k + 1 = Len(a) + (t + 1) /\ k + 2 = Len(a) + (t + 2) /\ k + 3 = Len(a) + (t + 3)
    BY <1>1
  <2> QED
    BY <2>1, <1>1
<1> HIDE DEF n
<1>6. Total(g, k) = n + 6
  BY <1>3, <1>4, <1>5 DEF Total
<1>7. HasSync(g, k) <=> HasSync(d, t)
  BY <1>3, <1>5 DEF HasSync
<1>8. k - 1 + Total(g, k) = Len(a) + (t - 1 + Total(d, t))
  BY <1>1, <1>3, <1>4, <1>6
<1>9. t - 1 + Total(d, t) \in Nat
  BY <1>3, <1>4
<1>10. Arrived(g, k) <=> Arrived(d, t)
  BY <1>1, <1>8, <1>9 DEF Arrived
<1>11. FrameAt(g, k).id = FrameAt(d, t).id
  BY <1>5 DEF FrameAt
<1>12. FrameAt(g, k).consumed = Len(a) + FrameAt(d, t).consumed
  BY <1>8 DEF FrameAt
<1>13. ASSUME Arrived(d, t)
       PROVE  (ValidAt(g, k) <=> ValidAt(d, t)) /\ FrameAt(g, k).data = FrameAt(d, t).data
  <2> DEFINE e == t - 1 + Total(d, t)
  <2>1. e \in Nat /\ e <= Len(d) /\ e = t + 5 + n
    BY <1>3, <1>4, <1>13 DEF Arrived
  <2>2. k - 1 + Total(g, k) = Len(a) + e
    BY <1>8
  <2> HIDE DEF e
  <2>3. /\ e - 1 \in 1..Len(d) /\ e \in 1..Len(d) /\ (Len(a) + e) - 1 = Len(a) + (e - 1)
        /\ k \in Len(a) + 1..Len(a) + Len(d) /\ (Len(a) + e) - 2 \in Len(a) + 1..Len(a) + Len(d)
        /\ k - Len(a) = t /\ ((Len(a) + e) - 2) - Len(a) = e - 2
        /\ k + 4 \in Len(a) + 1..Len(a) + Len(d) /\ k + 3 + n \in Len(a) + 1..Len(a) + Len(d)
        /\ (k + 4) - Len(a) = t + 4 /\ (k + 3 + n) - Len(a) = t + 3 + n
    BY <1>1, <1>3, <1>4, <2>1
  <2> HIDE DEF k
  <2>4. g[(Len(a) + e) - 1] = d[e - 1] /\ g[Len(a) + e] = d[e]
    BY <1>1, <2>3
  <2>5. SubSeq(g, k, (Len(a) + e) - 2) = SubSeq(d, t, e - 2)
    BY <1>2, <2>3
  <2>6. SubSeq(g, k + 4, k + 3 + n) = SubSeq(d, t + 4, t + 3 + n)
    BY <1>2, <2>3
  <2>7. ValidAt(g, k) <=> ValidAt(d, t)
    BY <1>7, <1>10, <1>13, <2>2, <2>4, <2>5 DEF ValidAt, e
  <2>8. FrameAt(g, k).data = FrameAt(d, t).data
    BY <1>5, <2>6 DEF FrameAt, n
  <2> QED
    BY <2>7, <2>8
<1>14. ValidAt(g, k) <=> ValidAt(d, t)
  BY <1>10, <1>13 DEF ValidAt
<1> QED
  BY <1>3, <1>7, <1>10, <1>11, <1>12, <1>13, <1>14 DEF g

\* No sync pair can begin in noise without a Sync2, unless a Sync2 follows it.
NoSync2First(d) == d # <<>> => d[1] # Sync2

LEMMA NoSyncInNoise ==
    ASSUME NEW a \in Seq(Bytes), \A i \in 1..Len(a) : a[i] # Sync2,
           NEW d \in Seq(Bytes), NoSync2First(d), NEW s \in 1..Len(a)
    PROVE  ~HasSync(a \o d, s)
<1> SUFFICES ASSUME HasSync(a \o d, s) PROVE FALSE
  OBVIOUS
<1> DEFINE g == a \o d
<1>1. /\ Len(g) = Len(a) + Len(d) /\ Len(a) \in Nat /\ Len(d) \in Nat
      /\ \A i \in 1..Len(a) : g[i] = a[i]
      /\ \A i \in 1..Len(d) : g[Len(a) + i] = d[i]
  BY Joined
<1>2. s + 3 <= Len(g) /\ g[s + 1] = Sync2
  BY DEF HasSync
<1> HIDE DEF g
<1>3. CASE s + 1 <= Len(a)
  <2>1. s + 1 \in 1..Len(a)
    BY <1>1, <1>3
  <2> QED
    BY <2>1, <1>1, <1>2
<1>4. CASE ~(s + 1 <= Len(a))
  <2>1. s = Len(a) /\ 1 \in 1..Len(d)
    BY <1>1, <1>2, <1>4
  <2>2. d # <<>>
    BY <2>1
  <2> QED
    BY <2>1, <2>2, <1>1, <1>2 DEF NoSync2First
<1> QED
  BY <1>3, <1>4

LEMMA NoiseSkipped ==
    ASSUME NEW a \in Seq(Bytes), \A i \in 1..Len(a) : a[i] # Sync2,
           NEW d \in Seq(Bytes), NoSync2First(d)
    PROVE  AllFrames(a \o d) = AllFrames(d)
<1> DEFINE g == a \o d
<1>1. /\ g \in Seq(Bytes) /\ Len(g) = Len(a) + Len(d) /\ Len(a) \in Nat /\ Len(d) \in Nat
  BY Joined
<1>2. \A s \in 1..Len(a) : ~HasSync(g, s)
  BY NoSyncInNoise
<1>3. \A t \in 1..Len(d) : t + 3 <= Len(d) =>
         /\ HasSync(g, Len(a) + t) <=> HasSync(d, t)
         /\ Arrived(g, Len(a) + t) <=> Arrived(d, t)
         /\ ValidAt(g, Len(a) + t) <=> ValidAt(d, t)
  BY Shifted
<1>4. ASSUME NEW t \in 1..Len(d), ValidAt(d, t)
      PROVE  /\ FrameAt(g, Len(a) + t).id = FrameAt(d, t).id
             /\ FrameAt(g, Len(a) + t).data = FrameAt(d, t).data
             /\ FrameAt(g, Len(a) + t).consumed = Len(a) + FrameAt(d, t).consumed
  <2>1. t + 3 <= Len(d) /\ Arrived(d, t)
    BY <1>4 DEF ValidAt, HasSync
  <2> QED
    BY <2>1, Shifted
<1>5. \A c \in 0..Len(d) : Rest(g, Len(a) + c) = Rest(d, c)
  BY RestAfter
<1> HIDE DEF g
<1>6. ASSUME NEW s \in Stops(g)
      PROVE  \E t \in Stops(d) : s = Len(a) + t
  <2>1. s \in 1..Len(g) /\ HasSync(g, s) /\ (ValidAt(g, s) \/ IncompleteAt(g, s))
    BY DEF Stops, ValidAt, IncompleteAt
  <2>2. s + 3 <= Len(g) /\ ~(s <= Len(a))
    BY <2>1, <1>1, <1>2 DEF HasSync
  <2> DEFINE t == s - Len(a)
  <2>3. t \in 1..Len(d) /\ t + 3 <= Len(d) /\ s = Len(a) + t
    BY <2>1, <2>2, <1>1
  <2> HIDE DEF t
  <2>4. /\ HasSync(g, s) <=> HasSync(d, t)
        /\ Arrived(g, s) <=> Arrived(d, t)
        /\ ValidAt(g, s) <=> ValidAt(d, t)
    BY <1>3, <2>3
  <2>5. t \in Stops(d)
    BY <2>1, <2>3, <2>4 DEF Stops, IncompleteAt
  <2> QED
    BY <2>3, <2>5
<1>7. ASSUME NEW t \in Stops(d)
      PROVE  Len(a) + t \in Stops(g)
  <2>1. /\ t \in 1..Len(d) /\ HasSync(d, t) /\ (ValidAt(d, t) \/ IncompleteAt(d, t))
        /\ t + 3 <= Len(d)
    BY DEF Stops, ValidAt, IncompleteAt, HasSync
  <2>2. Len(a) + t \in 1..Len(g)
    BY <1>1, <2>1
  <2> QED
    BY <1>3, <2>1, <2>2 DEF Stops, IncompleteAt
<1>8. CASE Stops(d) = {}
  <2>1. Stops(g) = {}
    BY <1>6, <1>8
  <2>2. ~Parse(g).found /\ ~Parse(d).found
    BY <2>1, <1>1, <1>8, ParseNone DEF NothingFound
  <2> QED
    BY <2>2, <1>1, AllFramesUnfold DEF g
<1>9. CASE Stops(d) # {}
  <2>1. PICK t : FirstStop(d, t)
    BY <1>9, SomeFirstStop
  <2>2. t \in Stops(d) /\ t \in 1..Len(d)
    BY <2>1 DEF FirstStop, Stops
  <2>3. FirstStop(g, Len(a) + t)
    <3>1. ASSUME NEW s \in Stops(g) PROVE Len(a) + t <= s
      <4>1. PICK r \in Stops(d) : s = Len(a) + r
        BY <1>6
      <4>2. t <= r /\ r \in 1..Len(d)
        BY <2>1 DEF FirstStop, Stops
      <4> QED
        BY <4>1, <4>2, <2>2, <1>1
    <3> QED
      BY <3>1, <2>2, <1>7 DEF FirstStop
  <2>4. Parse(d) = IF ValidAt(d, t) THEN FrameAt(d, t) ELSE NothingFound
    BY <2>1, ParseFirst
  <2>5. Parse(g) = IF ValidAt(g, Len(a) + t) THEN FrameAt(g, Len(a) + t) ELSE NothingFound
    BY <2>3, <1>1, ParseFirst
  <2>6. t + 3 <= Len(d)
    BY <2>2 DEF Stops, ValidAt, IncompleteAt, HasSync
  <2>7. ValidAt(g, Len(a) + t) <=> ValidAt(d, t)
    BY <1>3, <2>2, <2>6
  <2>8. CASE ValidAt(d, t)
    <3>1. Parse(d) = FrameAt(d, t) /\ Parse(g) = FrameAt(g, Len(a) + t)
      BY <2>4, <2>5, <2>7, <2>8
    <3>2. Parse(d).found /\ Parse(g).found
      BY <3>1 DEF FrameAt
    <3>3. /\ Parse(g).id = Parse(d).id /\ Parse(g).data = Parse(d).data
          /\ Parse(g).consumed = Len(a) + Parse(d).consumed
      BY <1>4, <2>2, <2>8, <3>1
    <3>4. Parse(d).consumed \in 0..Len(d)
      <4>1. Parse(d).consumed \in 1..Len(d)
        BY <3>2, ParseAdvances
      <4> QED
        BY <4>1, <1>1
    <3>5. Rest(g, Parse(g).consumed) = Rest(d, Parse(d).consumed)
      BY <1>5, <3>3, <3>4
    <3>6. AllFrames(g) = <<<<Parse(g).id, Parse(g).data>>>> \o AllFrames(Rest(g, Parse(g).consumed))
      BY <1>1, <3>2, AllFramesUnfold
    <3>7. AllFrames(d) = <<<<Parse(d).id, Parse(d).data>>>> \o AllFrames(Rest(d, Parse(d).consumed))
      BY <3>2, AllFramesUnfold
    <3> QED
      BY <3>3, <3>5, <3>6, <3>7 DEF g
  <2>9. CASE ~ValidAt(d, t)
    <3>1. ~Parse(d).found /\ ~Parse(g).found
      BY <2>4, <2>5, <2>7, <2>9 DEF NothingFound
    <3> QED
      BY <3>1, <1>1, AllFramesUnfold DEF g
  <2> QED
    BY <2>8, <2>9
<1> QED
  BY <1>8, <1>9

LEMMA FrameParsed ==
    ASSUME NEW id \in Bytes, NEW payload, IsPayload(payload), NEW d \in Seq(Bytes)
    PROVE  AllFrames(Frame(id, payload) \o d) = <<<<id, payload>>>> \o AllFrames(d)
<1> DEFINE f == Frame(id, payload)
           n == Len(payload) + 6
           g == f \o d
<1>1. Len(payload) \in Nat /\ n \in Nat /\ payload \in Seq(Bytes)
  BY DEF IsPayload
<1>2. f \in Seq(Bytes) /\ Len(f) = n
  BY FrameShape
<1>3. f[1] = Sync1 /\ f[2] = Sync2 /\ f[3] = id /\ f[4] = Len(payload)
  BY FrameShape
<1>4. <<f[n - 1], f[n]>> = Checksum(SubSeq(f, 1, n - 2))
  BY FrameShape
<1>5. \A i \in 1..Len(payload) : f[i + 4] = payload[i]
  BY FrameShape
<1> HIDE DEF f
<1>6. Total(f, 1) = n /\ 1 - 1 + n = n /\ 1 \in 1..Len(f)
  <2>1. Total(f, 1) = 4 + f[4] + 2
    BY DEF Total
  <2> QED
    BY <2>1, <1>1, <1>2, <1>3
<1>7. HasSync(f, 1) /\ Arrived(f, 1)
  BY <1>1, <1>2, <1>3, <1>6 DEF HasSync, Arrived
<1> HIDE DEF n
<1>8. ValidAt(f, 1)
  BY <1>4, <1>6, <1>7 DEF ValidAt
<1>9. FirstStop(f, 1)
  BY <1>6, <1>8, <1>2 DEF FirstStop, Stops
<1>10. Parse(f) = FrameAt(f, 1)
  BY <1>2, <1>8, <1>9, ParseFirst
<1>11. SubSeq(f, 5, 4 + Len(payload)) = payload
  <2> DEFINE data == SubSeq(f, 5, 4 + Len(payload))
  <2>1. /\ 5 \in 1..Len(f) + 1 /\ 4 + Len(payload) \in 0..Len(f)
        /\ (4 + Len(payload)) - 5 + 1 = Len(payload)
    BY <1>1, <1>2 DEF n
  <2>2. /\ data \in Seq(Bytes)
        /\ Len(data) = IF 5 <= 4 + Len(payload) THEN (4 + Len(payload)) - 5 + 1 ELSE 0
        /\ \A i \in 1..(4 + Len(payload)) - 5 + 1 : data[i] = f[5 + i - 1]
    BY <1>2, <2>1, Piece
  <2> HIDE DEF data
  <2>3. Len(data) = Len(payload)
    BY <1>1, <2>1, <2>2
  <2>4. \A i \in 1..Len(payload) : 5 + i - 1 = i + 4
    BY <1>1
  <2>5. \A i \in 1..Len(data) : data[i] = payload[i]
    BY <1>5, <2>1, <2>2, <2>3, <2>4
  <2>6. data = payload
    BY <1>1, <2>2, <2>3, <2>5, SeqEqual
  <2> QED
    BY <2>6 DEF data
<1>12. Parse(f).found /\ Parse(f).id = id /\ Parse(f).data = payload /\ Parse(f).consumed = n
  <2>1. 1 + 2 = 3 /\ 1 + 3 = 4 /\ 1 + 4 = 5
    OBVIOUS
  <2>2. f[1 + 2] = id /\ SubSeq(f, 1 + 4, (1 + 3) + f[1 + 3]) = payload
    BY <2>1, <1>3, <1>11
  <2> QED
    BY <2>2, <1>6, <1>10 DEF FrameAt
<1>13. Parse(g) = Parse(f)
  BY <1>2, <1>12, ParseStays
<1>14. Rest(g, n) = d
  <2>1. Len(d) \in Nat /\ 0 \in 0..Len(d) /\ Len(f) + 0 = n
    BY <1>1, <1>2, ByteFacts DEF n
  <2>2. Rest(g, Len(f) + 0) = Rest(d, 0)
    BY <1>2, <2>1, RestAfter
  <2> QED
    BY <2>1, <2>2, RestOfAll
<1>15. g \in Seq(Bytes)
  BY <1>2, Joined
<1> HIDE DEF g
<1>16. AllFrames(g) = <<<<Parse(g).id, Parse(g).data>>>> \o AllFrames(Rest(g, Parse(g).consumed))
  BY <1>12, <1>13, <1>15, AllFramesUnfold
<1> QED
  BY <1>12, <1>13, <1>14, <1>16 DEF g, f

-------------------------------------------------------------------------------
(***************************************************************************)
(* The inductive invariant of the receive path.  AsOneStream says more     *)
(* than that the frames so far are right: whatever follows, parsing the    *)
(* whole stream in one go gives the frames handed on, then those of what   *)
(* the buffer still holds.  AllSent says the same of the sender: all bytes *)
(* sent, and anything after them that does not begin with a Sync2, hold    *)
(* the frames sent and then those of what comes after.                     *)
(***************************************************************************)
ReceiverTypes ==
    /\ flight \in Seq(Bytes) /\ rxBuf \in Seq(Bytes) /\ received \in Seq(Bytes)
    /\ frames \in Seq(Found) /\ sentFrames \in Seq(Ids \X Payloads)
    /\ parsing \in BOOLEAN /\ clean \in BOOLEAN

AsOneStream ==
    \A c \in Seq(Bytes) : AllFrames(received \o c) = frames \o AllFrames(rxBuf \o c)

Drained == ~parsing => ~Parse(rxBuf).found

AllSent ==
    clean => \A d \in Seq(Bytes) :
                NoSync2First(d) => AllFrames((received \o flight) \o d) = sentFrames \o AllFrames(d)

ReceiverInv == ReceiverTypes /\ AsOneStream /\ Drained /\ AllSent

LEMMA SentTypes ==
    /\ \A frame \in Ids \X Payloads :
          frame[1] \in Bytes /\ IsPayload(frame[2]) /\ frame[2] \in Seq(Bytes)
    /\ Ids \X Payloads \subseteq Found
BY SenderAssumption DEF IsPayload, Found

LEMMA NothingInNothing ==
    ~Parse(<<>>).found /\ AllFrames(<<>>) = <<>> /\ <<>> \in Seq(Bytes)
<1>1. <<>> \in Seq(Bytes) /\ Len(<<>>) = 0
  OBVIOUS
<1>2. Stops(<<>>) = {}
  BY <1>1 DEF Stops
<1>3. ~Parse(<<>>).found
  <2>1. Parse(<<>>) = NothingFound
    BY <1>1, <1>2, ParseNone
  <2> QED
    BY <2>1 DEF NothingFound
<1> QED
  BY <1>1, <1>3, AllFramesUnfold

LEMMA ReceiverInit == Init => ReceiverInv
<1> SUFFICES ASSUME Init PROVE ReceiverInv
  OBVIOUS
<1>1. /\ flight = <<>> /\ rxBuf = <<>> /\ received = <<>>
      /\ frames = <<>> /\ sentFrames = <<>> /\ parsing = FALSE /\ clean = TRUE
  BY DEF Init
<1>2. ReceiverTypes
  <2>1. \A S : <<>> \in Seq(S)
    OBVIOUS
  <2> QED
    BY <1>1, <2>1, Zenon DEF ReceiverTypes
<1>3. \A c \in Seq(Bytes) : <<>> \o c = c /\ <<>> \o AllFrames(c) = AllFrames(c)
  BY ConcatEmptySeq, AllFramesType
<1>4. AsOneStream
  BY <1>1, <1>3 DEF AsOneStream
<1>5. Drained
  BY <1>1, NothingInNothing DEF Drained
<1>6. <<>> \o <<>> = <<>>
  BY <1>3, NothingInNothing
<1>7. AllSent
  BY <1>1, <1>3, <1>6 DEF AllSent
<1> QED
  BY <1>2, <1>4, <1>5, <1>7 DEF ReceiverInv

\* One run of bytes more on its way: what it adds decides what AllSent says after it.
LEMMA SendPreserves ==
    ASSUME ReceiverInv, NEW bytes \in Seq(Bytes), Send(bytes),
           sentFrames' \in Seq(Ids \X Payloads), clean' \in BOOLEAN, clean' => clean,
           clean' => \A d \in Seq(Bytes) : NoSync2First(d) =>
              /\ NoSync2First(bytes \o d)
              /\ sentFrames \o AllFrames(bytes \o d) = sentFrames' \o AllFrames(d)
    PROVE  ReceiverInv'
<1>1. /\ flight' = flight \o bytes
      /\ rxBuf' = rxBuf /\ parsing' = parsing /\ frames' = frames /\ received' = received
  BY DEF Send
<1>2. ReceiverTypes
  BY DEF ReceiverInv
<1>3. flight \in Seq(Bytes) /\ received \in Seq(Bytes) /\ flight \o bytes \in Seq(Bytes)
  BY <1>2, ConcatProperties DEF ReceiverTypes
<1>4. ReceiverTypes'
  BY <1>1, <1>2, <1>3 DEF ReceiverTypes
<1>5. AsOneStream' /\ Drained'
  BY <1>1 DEF ReceiverInv, AsOneStream, Drained
<1>6. ASSUME clean', NEW d \in Seq(Bytes), NoSync2First(d)
      PROVE  AllFrames((received \o (flight \o bytes)) \o d) = sentFrames' \o AllFrames(d)
  <2> DEFINE e == bytes \o d
             all == received \o flight
  <2>1. e \in Seq(Bytes) /\ all \in Seq(Bytes)
    BY <1>3, ConcatProperties
  <2>2. (received \o flight) \o bytes = received \o (flight \o bytes)
    BY <1>3, ConcatAssociative
  <2> HIDE DEF all
  <2>3. (all \o bytes) \o d = all \o (bytes \o d)
    BY <2>1, ConcatAssociative
  <2>4. (received \o (flight \o bytes)) \o d = all \o e
    BY <2>2, <2>3 DEF all
  <2>5. NoSync2First(e)
    BY <1>6
  <2>6. AllFrames(all \o e) = sentFrames \o AllFrames(e)
    BY <1>6, <2>1, <2>5 DEF ReceiverInv, AllSent, all
  <2> QED
    BY <1>6, <2>4, <2>6
<1>7. AllSent'
  BY <1>1, <1>6 DEF AllSent
<1> QED
  BY <1>4, <1>5, <1>7 DEF ReceiverInv

LEMMA SendFramePreserves ==
    ASSUME ReceiverInv, SendFrame
    PROVE  ReceiverInv'
<1>1. PICK id \in Ids, payload \in Payloads :
         /\ Send(Frame(id, payload)) /\ sentFrames' = Append(sentFrames, <<id, payload>>)
         /\ clean' = clean
  BY DEF SendFrame
<1> DEFINE f == Frame(id, payload)
           frame == <<id, payload>>
<1>2. id \in Bytes /\ IsPayload(payload) /\ frame \in Ids \X Payloads
  BY SenderAssumption DEF IsPayload
<1>3. f \in Seq(Bytes) /\ Len(f) = Len(payload) + 6
  BY <1>2, FrameShape
<1>4. f[1] = Sync1
  BY <1>2, FrameShape
<1>5. Len(f) >= 1 /\ Len(payload) \in Nat
  BY <1>2, <1>3 DEF IsPayload
<1>6. sentFrames \in Seq(Ids \X Payloads) /\ clean \in BOOLEAN
  BY DEF ReceiverInv, ReceiverTypes
<1>7. sentFrames' = sentFrames \o <<frame>> /\ sentFrames' \in Seq(Ids \X Payloads)
  BY <1>1, <1>2, <1>6, AppendIsConcat, AppendProperties
<1>8. sentFrames \in Seq(Found) /\ <<frame>> \in Seq(Found)
  BY <1>2, <1>6, SentTypes, SeqMonotonic
<1>9. Send(f)
  BY <1>1
<1> HIDE DEF f
<1>10. ASSUME NEW d \in Seq(Bytes)
       PROVE  /\ NoSync2First(f \o d)
              /\ sentFrames \o AllFrames(f \o d) = sentFrames' \o AllFrames(d)
  <2>1. (f \o d)[1] = f[1]
    BY <1>3, <1>5, Joined
  <2>2. NoSync2First(f \o d)
    BY <2>1, <1>4, WireAssumption DEF NoSync2First
  <2>3. AllFrames(f \o d) = <<frame>> \o AllFrames(d)
    BY <1>2, FrameParsed DEF f
  <2>4. AllFrames(d) \in Seq(Found)
    BY AllFramesType
  <2> HIDE DEF frame
  <2>5. (sentFrames \o <<frame>>) \o AllFrames(d) = sentFrames \o (<<frame>> \o AllFrames(d))
    BY <1>8, <2>4, ConcatAssociative
  <2> QED
    BY <2>2, <2>3, <2>5, <1>7
<1>11. clean' \in BOOLEAN /\ (clean' => clean)
  BY <1>1, <1>6
<1> QED
  BY <1>3, <1>7, <1>9, <1>10, <1>11, SendPreserves

LEMMA SendNoisePreserves ==
    ASSUME ReceiverInv, SendNoise
    PROVE  ReceiverInv'
<1>1. sentFrames' = sentFrames /\ sentFrames \in Seq(Ids \X Payloads) /\ clean \in BOOLEAN
  BY DEF SendNoise, ReceiverInv, ReceiverTypes
<1>2. ASSUME NEW noise \in CleanNoise, Send(noise), clean' = clean
      PROVE  ReceiverInv'
  <2>1. noise \in Seq(Bytes \ {Sync2}) /\ noise \in Seq(Bytes)
    BY SenderAssumption, SeqMonotonic
  <2>2. \A i \in 1..Len(noise) : noise[i] # Sync2
    BY <2>1
  <2>3. ASSUME NEW d \in Seq(Bytes), NoSync2First(d)
        PROVE  NoSync2First(noise \o d) /\ AllFrames(noise \o d) = AllFrames(d)
    <3>1. AllFrames(noise \o d) = AllFrames(d)
      BY <2>1, <2>2, <2>3, NoiseSkipped
    <3>2. CASE Len(noise) = 0
      <4>1. noise = <<>>
        BY <3>2, <2>1
      <4>2. noise \o d = d
        BY <4>1, ConcatEmptySeq
      <4> QED
        BY <3>1, <4>2, <2>3
    <3>3. CASE Len(noise) # 0
      <4>1. 1 \in 1..Len(noise)
        BY <3>3, <2>1, ByteFacts
      <4>2. (noise \o d)[1] = noise[1]
        BY <4>1, <2>1, Joined
      <4> QED
        BY <4>1, <4>2, <2>2, <3>1 DEF NoSync2First
    <3> QED
      BY <3>2, <3>3
  <2> QED
    BY <1>1, <1>2, <2>1, <2>3, SendPreserves
<1>3. ASSUME NEW noise \in FalseSyncs, Send(noise), clean' = FALSE
      PROVE  ReceiverInv'
  <2>1. noise \in Seq(Bytes)
    BY SenderAssumption
  <2> QED
    BY <1>1, <1>3, <2>1, SendPreserves
<1> QED
  BY <1>2, <1>3 DEF SendNoise

LEMMA BytesAssociate ==
    ASSUME NEW s \in Seq(Bytes), NEW t \in Seq(Bytes), NEW u \in Seq(Bytes)
    PROVE  (s \o t) \o u = s \o (t \o u)
BY ConcatAssociative

LEMMA ReadPreserves ==
    ASSUME ReceiverInv, Read
    PROVE  ReceiverInv'
<1>1. PICK n \in 1..Len(flight) :
         /\ rxBuf' = rxBuf \o SubSeq(flight, 1, n)
         /\ received' = received \o SubSeq(flight, 1, n)
         /\ flight' = SubSeq(flight, n + 1, Len(flight))
  BY DEF Read
<1>2. /\ parsing' = TRUE /\ frames' = frames /\ sentFrames' = sentFrames /\ clean' = clean
  BY DEF Read
<1>3. ReceiverTypes
  BY DEF ReceiverInv
<1>4. flight \in Seq(Bytes) /\ rxBuf \in Seq(Bytes) /\ received \in Seq(Bytes)
  BY <1>3 DEF ReceiverTypes
<1>5. PICK p \in Seq(Bytes), q \in Seq(Bytes) :
         /\ p \o q = flight
         /\ rxBuf' = rxBuf \o p /\ received' = received \o p /\ flight' = q
  <2> DEFINE r == SubSeq(flight, 1, n)
             t == SubSeq(flight, n + 1, Len(flight))
  <2>1. /\ Len(flight) \in Nat /\ 1 \in 1..Len(flight) + 1 /\ n \in 0..Len(flight)
        /\ n + 1 \in 1..Len(flight) + 1 /\ Len(flight) \in 0..Len(flight)
        /\ n \in 1 - 1..Len(flight) /\ Len(flight) \in n..Len(flight)
    BY <1>4, ByteFacts
  <2>2. r \in Seq(Bytes) /\ t \in Seq(Bytes)
    BY <1>4, <2>1, Piece
  <2>3. r \o t = SubSeq(flight, 1, Len(flight))
    BY <1>4, <2>1, ConcatAdjacentSubSeq
  <2>4. SubSeq(flight, 1, Len(flight)) = flight
    BY <1>4, SubSeqFull
  <2> QED
    BY <1>1, <2>2, <2>3, <2>4, Zenon
<1>6. rxBuf' \in Seq(Bytes) /\ received' \in Seq(Bytes) /\ flight' \in Seq(Bytes)
  BY <1>4, <1>5, ConcatProperties
<1>7. ReceiverTypes'
  BY <1>2, <1>3, <1>6 DEF ReceiverTypes
<1>8. ASSUME NEW c \in Seq(Bytes)
      PROVE  AllFrames(received' \o c) = frames \o AllFrames(rxBuf' \o c)
  <2>1. p \o c \in Seq(Bytes)
    BY <1>5, ConcatProperties
  <2>2. (received \o p) \o c = received \o (p \o c)
    BY <1>4, BytesAssociate
  <2>3. (rxBuf \o p) \o c = rxBuf \o (p \o c)
    BY <1>4, BytesAssociate
  <2>4. AllFrames(received \o (p \o c)) = frames \o AllFrames(rxBuf \o (p \o c))
    BY <2>1 DEF ReceiverInv, AsOneStream
  <2> QED
    BY <1>5, <2>2, <2>3, <2>4
<1>9. AsOneStream'
  BY <1>2, <1>8 DEF AsOneStream
<1>10. Drained'
  BY <1>2 DEF Drained
<1>11. received' \o flight' = received \o flight
  <2>1. (received \o p) \o q = received \o (p \o q)
    BY <1>4, BytesAssociate
  <2> QED
    BY <2>1, <1>5
<1>12. AllSent'
  BY <1>2, <1>11 DEF ReceiverInv, AllSent
<1> QED
  BY <1>7, <1>9, <1>10, <1>12 DEF ReceiverInv

LEMMA TakeFramePreserves ==
    ASSUME ReceiverInv, TakeFrame
    PROVE  ReceiverInv'
<1> DEFINE k == Parse(rxBuf).consumed
           frame == <<Parse(rxBuf).id, Parse(rxBuf).data>>
<1>1. /\ Parse(rxBuf).found /\ parsing /\ parsing' = parsing
      /\ frames' = Append(frames, frame) /\ rxBuf' = Rest(rxBuf, k)
      /\ flight' = flight /\ sentFrames' = sentFrames /\ received' = received /\ clean' = clean
  BY DEF TakeFrame, Rest
<1>2. ReceiverTypes
  BY DEF ReceiverInv
<1>3. rxBuf \in Seq(Bytes) /\ received \in Seq(Bytes) /\ frames \in Seq(Found) /\ Len(rxBuf) \in Nat
  BY <1>2, ByteFacts DEF ReceiverTypes
<1>4. k \in 1..Len(rxBuf) /\ frame \in Found
  BY <1>1, <1>3, ParseAdvances DEF Found
<1> HIDE DEF k, frame
<1>5. k \in 0..Len(rxBuf) /\ <<frame>> \in Seq(Found)
  BY <1>3, <1>4
<1>6. rxBuf' \in Seq(Bytes)
  BY <1>1, <1>3, <1>5, RestShape
<1>7. frames' \in Seq(Found) /\ frames' = frames \o <<frame>>
  BY <1>1, <1>3, <1>4, AppendProperties, AppendIsConcat
<1>8. ReceiverTypes'
  BY <1>1, <1>2, <1>6, <1>7 DEF ReceiverTypes
<1>9. ASSUME NEW c \in Seq(Bytes)
      PROVE  AllFrames(received \o c) = frames' \o AllFrames(rxBuf' \o c)
  <2> DEFINE g == rxBuf \o c
  <2>1. g \in Seq(Bytes) /\ rxBuf' \o c \in Seq(Bytes)
    BY <1>3, <1>6, ConcatProperties
  <2>2. Parse(g) = Parse(rxBuf)
    BY <1>1, <1>3, ParseStays
  <2>3. Rest(g, k) = rxBuf' \o c
    BY <1>1, <1>3, <1>5, RestBefore
  <2>4. AllFrames(received \o c) = frames \o AllFrames(g)
    BY DEF ReceiverInv, AsOneStream
  <2> HIDE DEF g
  <2>5. AllFrames(g) = <<frame>> \o AllFrames(Rest(g, k))
    BY <1>1, <2>1, <2>2, AllFramesUnfold DEF k, frame
  <2>6. AllFrames(rxBuf' \o c) \in Seq(Found)
    BY <2>1, AllFramesType
  <2>7. (frames \o <<frame>>) \o AllFrames(rxBuf' \o c) = frames \o (<<frame>> \o AllFrames(rxBuf' \o c))
    BY <1>3, <1>5, <2>6, ConcatAssociative
  <2> QED
    BY <1>7, <2>3, <2>4, <2>5, <2>7
<1>10. AsOneStream'
  BY <1>1, <1>9 DEF AsOneStream
<1>11. Drained' /\ AllSent'
  BY <1>1 DEF ReceiverInv, Drained, AllSent
<1> QED
  BY <1>8, <1>10, <1>11 DEF ReceiverInv

LEMMA ReceiverStep == ReceiverInv /\ [Next]_vars => ReceiverInv'
<1> SUFFICES ASSUME ReceiverInv, [Next]_vars PROVE ReceiverInv'
  OBVIOUS
<1>1. CASE SendFrame
  BY <1>1, SendFramePreserves
<1>2. CASE SendNoise
  BY <1>2, SendNoisePreserves
<1>3. CASE Read
  BY <1>3, ReadPreserves
<1>4. CASE TakeFrame
  BY <1>4, TakeFramePreserves
<1>5. CASE NoMoreFrames
  BY <1>5 DEF NoMoreFrames, ReceiverInv, ReceiverTypes, AsOneStream, Drained, AllSent
<1>6. CASE UNCHANGED vars
  BY <1>6 DEF vars, ReceiverInv, ReceiverTypes, AsOneStream, Drained, AllSent
<1> QED
  BY <1>1, <1>2, <1>3, <1>4, <1>5, <1>6 DEF Next

LEMMA ReceiverInvariant == Spec => []ReceiverInv
BY ReceiverInit, ReceiverStep, PTL DEF Spec

-------------------------------------------------------------------------------
(***************************************************************************)
(* How TCP cuts the stream makes no difference, for any bytes sent: when   *)
(* the parse loop has ended, the frames handed on are those of all bytes   *)
(* read so far parsed in one go (server.rs:84-101, wire.rs:42-63).         *)
(***************************************************************************)
LEMMA InvGivesChunking == ReceiverInv => ChunkingIrrelevant
<1> SUFFICES ASSUME ReceiverInv, ~parsing PROVE frames = AllFrames(received)
  BY DEF ChunkingIrrelevant
<1>1. rxBuf \in Seq(Bytes) /\ received \in Seq(Bytes) /\ frames \in Seq(Found)
  BY DEF ReceiverInv, ReceiverTypes
<1>2. rxBuf \o <<>> = rxBuf /\ received \o <<>> = received /\ frames \o <<>> = frames
  BY <1>1, ConcatEmptySeq
<1>3. ~Parse(rxBuf).found
  BY DEF ReceiverInv, Drained
<1>4. AllFrames(rxBuf) = <<>>
  BY <1>1, <1>3, AllFramesUnfold
<1>5. AllFrames(received \o <<>>) = frames \o AllFrames(rxBuf \o <<>>)
  BY NothingInNothing DEF ReceiverInv, AsOneStream
<1> QED
  BY <1>2, <1>4, <1>5

THEOREM ChunksDoNotMatter == Spec => []ChunkingIrrelevant
BY ReceiverInvariant, InvGivesChunking, PTL

(***************************************************************************)
(* Between noise without sync bytes every frame sent gets through, once,   *)
(* in order, and nothing else does, whatever the payloads hold             *)
(* (wire.rs:42-63).                                                        *)
(***************************************************************************)
LEMMA InvGivesDelivery == ReceiverInv => FramesDelivered
<1> SUFFICES ASSUME ReceiverInv, clean, ~parsing, flight = <<>> PROVE frames = sentFrames
  BY DEF FramesDelivered
<1>1. received \in Seq(Bytes) /\ sentFrames \in Seq(Ids \X Payloads)
  BY DEF ReceiverInv, ReceiverTypes
<1>2. received \o <<>> = received /\ sentFrames \o <<>> = sentFrames
  BY <1>1, ConcatEmptySeq
<1>3. NoSync2First(<<>>)
  BY DEF NoSync2First
<1>4. AllFrames((received \o flight) \o <<>>) = sentFrames \o AllFrames(<<>>)
  BY <1>3, NothingInNothing DEF ReceiverInv, AllSent
<1>5. AllFrames(received) = sentFrames
  BY <1>2, <1>4, NothingInNothing
<1>6. frames = AllFrames(received)
  BY InvGivesChunking DEF ChunkingIrrelevant
<1> QED
  BY <1>5, <1>6

THEOREM EveryFrameDelivered == Spec => []FramesDelivered
BY ReceiverInvariant, InvGivesDelivery, PTL

(***************************************************************************)
(* No frame ever sent survives the exchange of two of its neighbouring     *)
(* bytes, unless they are equal modulo the modulus: the weighted second    *)
(* sum of the checksum differs from there to the end (wire.rs:16-21).      *)
(***************************************************************************)
LEMMA InvGivesSwaps == ReceiverInv => SwapsNoticed
<1> SUFFICES ASSUME ReceiverInv, NEW k \in 1..Len(sentFrames),
                    NEW i \in 5..Len(Frame(sentFrames[k][1], sentFrames[k][2])) - 3,
                    Frame(sentFrames[k][1], sentFrames[k][2])[i] % Modulus
                       # Frame(sentFrames[k][1], sentFrames[k][2])[i + 1] % Modulus
             PROVE  ~ValidAt(Swapped(Frame(sentFrames[k][1], sentFrames[k][2]), i), 1)
  BY DEF SwapsNoticed
<1>1. sentFrames[k] \in Ids \X Payloads
  BY DEF ReceiverInv, ReceiverTypes
<1>2. sentFrames[k][1] \in Bytes /\ IsPayload(sentFrames[k][2])
  BY <1>1, SentTypes
<1> QED
  BY <1>2, SwapIsNoticed

THEOREM SwapsAreNoticed == Spec => []SwapsNoticed
BY ReceiverInvariant, InvGivesSwaps, PTL
===============================================================================
