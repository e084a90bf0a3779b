------------------------- MODULE TraceStreamProofs -------------------------
(***************************************************************************)
(* Packetizer and encoder, for every size of packets and bytes: what COBS  *)
(* and the checksum do, what the encoder keeps true of its banks, and that *)
(* the two are a queue of bytes.                                           *)
(***************************************************************************)
EXTENDS TraceStream, SequenceTheorems, FiniteSetTheorems, WellFoundedInduction, TLAPS

(***************************************************************************)
(* Induction, and powers of two                                            *)
(***************************************************************************)
\* A set of numbers has a least one.
LEMMA LeastOne ==
  \A T \in SUBSET Nat : T # {} => \E x \in T : \A y \in T : x <= y
<1> DEFINE R == OpToRel(<, Nat)
<1>1. IsWellFoundedOn(R, Nat)
  BY NatLessThanWellFounded
<1> SUFFICES ASSUME NEW T \in SUBSET Nat, T # {} PROVE \E x \in T : \A y \in T : x <= y
  OBVIOUS
<1>2. \E x \in T : \A y \in T : ~ (<<y, x>> \in R)
  <2> HIDE DEF R
  <2> QED
    BY <1>1, WFMin
<1>3. \A x, y \in Nat : ~(<<y, x>> \in R) => x <= y
  BY DEF OpToRel
<1> QED
  BY <1>2, <1>3

\* What holds of m and goes on from each number below n to the next, holds of n.
LEMMA UpTo ==
  ASSUME NEW T \in SUBSET Nat, NEW m \in Nat, NEW n \in Nat, m <= n, m \in T,
         \A k \in Nat : m <= k /\ k < n /\ k \in T => k + 1 \in T
  PROVE  n \in T
<1> SUFFICES ASSUME n \notin T PROVE FALSE
  OBVIOUS
<1> DEFINE missing == {k \in Nat : m <= k /\ k <= n /\ k \notin T}
<1>1. missing \in SUBSET Nat /\ missing # {}
  BY n \in missing
<1>2. PICK x \in missing : \A y \in missing : x <= y
  BY <1>1, LeastOne
<1>3. x \in Nat /\ m <= x /\ x <= n /\ x \notin T /\ x # m
  BY <1>2
<1>4. x - 1 \in Nat /\ m <= x - 1 /\ x - 1 < n /\ ~(x <= x - 1)
  BY <1>3
<1>5. x - 1 \in T
  BY <1>2, <1>4
<1>6. (x - 1) + 1 \in T
  BY <1>4, <1>5
<1> QED
  BY <1>3, <1>6

\* A power of two is the number of the subsets of a set, which each new element doubles.
LEMMA PowerType == \A n \in Nat : 2 ^ n \in Nat \ {0}
<1> SUFFICES ASSUME NEW n \in Nat PROVE 2 ^ n \in Nat \ {0}
  OBVIOUS
<1>1. IsFiniteSet(1 .. n) /\ Cardinality(1 .. n) = n
  BY FS_Interval
<1>2. IsFiniteSet(SUBSET (1 .. n)) /\ Cardinality(SUBSET (1 .. n)) = 2 ^ n
  BY <1>1, FS_SUBSET
<1>3. Cardinality(SUBSET (1 .. n)) # 0
  BY <1>2, FS_EmptySet
<1> QED
  BY <1>2, <1>3, FS_CardinalityType

LEMMA PowerDoubles == \A n \in Nat : 2 ^ (n + 1) = 2 * 2 ^ n
<1> SUFFICES ASSUME NEW n \in Nat PROVE 2 ^ (n + 1) = 2 * 2 ^ n
  OBVIOUS
<1> DEFINE S == 1 .. n
           Powers == SUBSET S
           W == {s \cup {n + 1} : s \in Powers}
<1>1. /\ IsFiniteSet(S) /\ Cardinality(S) = n
      /\ IsFiniteSet(1 .. n + 1) /\ Cardinality(1 .. n + 1) = n + 1
  BY FS_Interval
<1>2. /\ IsFiniteSet(Powers) /\ Cardinality(Powers) = 2 ^ n
      /\ Cardinality(SUBSET (1 .. n + 1)) = 2 ^ (n + 1)
  BY <1>1, FS_SUBSET
<1>3. n + 1 \notin S /\ 1 .. n + 1 = S \cup {n + 1}
  OBVIOUS
<1>4. IsFiniteSet(W) /\ Cardinality(W) = Cardinality(Powers)
  <2> DEFINE f == [s \in Powers |-> s \cup {n + 1}]
  <2>1. f \in Bijection(Powers, W)
    <3>1. f \in [Powers -> W]
      OBVIOUS
    <3>2. \A a, b \in Powers : f[a] = f[b] => a = b
      BY <1>3
    <3>3. \A w \in W : \E a \in Powers : f[a] = w
      OBVIOUS
    <3> QED
      BY <3>1, <3>2, <3>3 DEF Bijection, Injection, Surjection, IsInjective
  <2> QED
    BY <1>2, <2>1, FS_Bijection DEF ExistsBijection
<1>5. Powers \cap W = {} /\ SUBSET (1 .. n + 1) = Powers \cup W
  <2>1. Powers \cap W = {}
    BY <1>3
  <2>2. ASSUME NEW t \in SUBSET (1 .. n + 1) PROVE t \in Powers \cup W
    <3>1. CASE n + 1 \in t
      <4>1. t \ {n + 1} \in Powers /\ t = (t \ {n + 1}) \cup {n + 1}
        BY <1>3, <3>1
      <4> QED
        BY <4>1
    <3>2. CASE n + 1 \notin t
      BY <1>3, <3>2
    <3> QED
      BY <3>1, <3>2
  <2>3. ASSUME NEW t \in Powers \cup W PROVE t \in SUBSET (1 .. n + 1)
    BY <1>3
  <2> QED
    BY <2>1, <2>2, <2>3
<1>6. Cardinality(Powers \cup W) = Cardinality(Powers) + Cardinality(W) - Cardinality(Powers \cap W)
  BY <1>2, <1>4, FS_Union
<1>7. Cardinality(Powers \cap W) = 0
  BY <1>5, FS_EmptySet
<1> HIDE DEF Powers, W
<1>8. 2 ^ (n + 1) = 2 ^ n + 2 ^ n - 0
  BY <1>2, <1>4, <1>5, <1>6, <1>7
<1>9. \A a \in Nat : a + a - 0 = 2 * a
  OBVIOUS
<1> QED
  BY <1>8, <1>9, PowerType

-----------------------------------------------------------------------------
(***************************************************************************)
(* Quotients and remainders                                                *)
(***************************************************************************)
\* Division by d has one result.
LEMMA Divides ==
  ASSUME NEW d \in Nat \ {0}, NEW q \in Nat, NEW r \in 0 .. d - 1
  PROVE  /\ (d * q + r) \div d = q /\ (d * q + r) % d = r
         /\ d * q + r \in Nat
<1> DEFINE v == d * q + r
<1>1. d * q \in Nat /\ v \in Nat
  OBVIOUS
<1> HIDE DEF v
<1> DEFINE q2 == v \div d
           r2 == v % d
<1>2. q2 \in Nat /\ r2 \in 0 .. d - 1 /\ v = d * q2 + r2
  BY <1>1
<1> HIDE DEF q2, r2
<1>3. v = d * q + r
  BY DEF v
<1>4. \A a, b \in Nat : a < b => d * a + d <= d * b
  <2> SUFFICES ASSUME NEW a \in Nat, NEW b \in Nat, a < b PROVE d * a + d <= d * b
    OBVIOUS
  <2>1. d * (a + 1) <= d * b
    OBVIOUS
  <2>2. d * (a + 1) = d * a + d
    OBVIOUS
  <2> QED
    BY <2>1, <2>2
<1>5. d * q \in Nat /\ d * q2 \in Nat
  BY <1>2
<1>6. ~(q < q2)
  BY <1>2, <1>3, <1>4, <1>5
<1>7. ~(q2 < q)
  BY <1>2, <1>3, <1>4, <1>5
<1>8. q2 = q
  BY <1>2, <1>6, <1>7
<1> QED
  BY <1>1, <1>2, <1>3, <1>5, <1>8 DEF q2, r2, v

LEMMA Division ==
  ASSUME NEW d \in Nat \ {0}, NEW v \in Nat
  PROVE  /\ v \div d \in Nat /\ v % d \in 0 .. d - 1 /\ v = d * (v \div d) + (v % d)
  OBVIOUS

\* The function on 0 .. n that begins with a and goes on as G says.
IsRecursive(h, n, a, G) ==
  /\ h = [k \in 0 .. n |-> h[k]]
  /\ h[0] = a /\ \A k \in 1 .. n : h[k] = G[<<k, h[k - 1]>>]

LEMMA RecursiveFunction ==
  ASSUME NEW S, NEW a \in S, NEW G \in [Nat \X S -> S], NEW n \in Nat
  PROVE  \E h : IsRecursive(h, n, a, G) /\ \A k \in 0 .. n : h[k] \in S
<1> DEFINE Is(h, m) == IsRecursive(h, m, a, G) /\ \A k \in 0 .. m : h[k] \in S
           T == {m \in Nat : \E h : Is(h, m)}
<1>1. 0 \in T
  <2> DEFINE h == [k \in 0 .. 0 |-> a]
  <2>1. Is(h, 0)
    BY DEF IsRecursive
  <2> QED
    BY <2>1
<1>2. ASSUME NEW m \in Nat, m \in T PROVE m + 1 \in T
  <2>1. PICK g : Is(g, m)
    BY <1>2
  <2> DEFINE h == [k \in 0 .. m + 1 |-> IF k = m + 1 THEN G[<<k, g[m]>>] ELSE g[k]]
  <2>2. \A k \in 0 .. m : h[k] = g[k]
    OBVIOUS
  <2>3. h[m + 1] = G[<<m + 1, g[m]>>]
    OBVIOUS
  <2>4. h = [k \in 0 .. m + 1 |-> h[k]]
    OBVIOUS
  <2> HIDE DEF h
  <2>5. h[0] = a /\ m \in 0 .. m /\ g[m] \in S
    BY <2>1, <2>2 DEF IsRecursive
  <2>6. ASSUME NEW k \in 1 .. m + 1 PROVE h[k] = G[<<k, h[k - 1]>>]
    <3>1. CASE k = m + 1
      BY <2>2, <2>3, <2>5, <3>1
    <3>2. CASE k # m + 1
      <4>1. k \in 0 .. m /\ k \in 1 .. m /\ k - 1 \in 0 .. m
        BY <3>2
      <4> QED
        BY <2>1, <2>2, <4>1 DEF IsRecursive
    <3> QED
      BY <3>1, <3>2
  <2>7. ASSUME NEW k \in 0 .. m + 1 PROVE h[k] \in S
    <3>1. CASE k = m + 1
      <4>1. <<m + 1, g[m]>> \in Nat \X S
        BY <2>5
      <4> QED
        BY <2>3, <3>1, <4>1
    <3>2. CASE k # m + 1
      <4>1. k \in 0 .. m
        BY <3>2
      <4> QED
        BY <2>1, <2>2, <4>1
    <3> QED
      BY <3>1, <3>2
  <2>8. Is(h, m + 1)
    BY <2>4, <2>5, <2>6, <2>7 DEF IsRecursive
  <2> HIDE DEF Is
  <2> QED
    BY <2>8
<1>3. T \in SUBSET Nat /\ 0 \in Nat /\ 0 <= n
  OBVIOUS
<1> HIDE DEF T
<1>4. n \in T
  BY <1>1, <1>2, <1>3, UpTo
<1> QED
  BY <1>4 DEF T

-----------------------------------------------------------------------------
(***************************************************************************)
(* Bytes and sequences of them                                             *)
(***************************************************************************)
LEMMA BytesAre ==
  /\ Bytes \in Nat /\ Bytes > 2 /\ Byte = 0 .. Bytes - 1 /\ 0 \in Byte
  /\ GroupMax \in Nat \ {0} /\ GroupMax + 1 \in Byte
  /\ Channel \subseteq Byte
<1>1. ByteBits - 1 \in Nat \ {0} /\ ByteBits - 2 \in Nat
  BY EncoderAssumption
<1>2. 2 ^ (ByteBits - 2) \in Nat \ {0}
  BY <1>1, PowerType
<1>3. 2 ^ ((ByteBits - 2) + 1) = 2 * 2 ^ (ByteBits - 2)
  BY <1>1, PowerDoubles
<1>4. 2 ^ (ByteBits - 1) = 2 * 2 ^ (ByteBits - 2)
  <2>1. (ByteBits - 2) + 1 = ByteBits - 1
    BY EncoderAssumption
  <2> QED
    BY <1>3, <2>1
<1>5. 2 ^ ((ByteBits - 1) + 1) = 2 * 2 ^ (ByteBits - 1)
  BY <1>1, PowerDoubles
<1>6. Bytes = 4 * 2 ^ (ByteBits - 2)
  BY <1>1, <1>2, <1>4, <1>5, EncoderAssumption DEF Bytes
<1>7. Bytes \in Nat /\ Bytes > 2
  BY <1>2, <1>6
<1>8. Bytes \div 2 <= Bytes
  BY <1>7
<1> QED
  BY <1>7, <1>8 DEF Byte, GroupMax, Channel

LEMMA MinusType == \A a, b \in Byte : Minus(a, b) \in Byte
BY BytesAre DEF Minus

LEMMA Remainders == \A x \in Byte : x % Bytes = x /\ (x + Bytes) % Bytes = x
<1> SUFFICES ASSUME NEW x \in Byte PROVE x % Bytes = x /\ (x + Bytes) % Bytes = x
  OBVIOUS
<1>1. Bytes \in Nat \ {0} /\ x \in 0 .. Bytes - 1
  BY BytesAre
<1>2. (Bytes * 0 + x) % Bytes = x /\ (Bytes * 1 + x) % Bytes = x
  BY <1>1, Divides
<1>3. Bytes * 0 + x = x /\ Bytes * 1 + x = x + Bytes
  BY <1>1
<1> QED
  BY <1>2, <1>3

LEMMA MinusIs ==
  ASSUME NEW a \in Byte, NEW b \in Byte
  PROVE  Minus(a, b) = IF b <= a THEN a - b ELSE (a + Bytes) - b
<1>0. Bytes \in Nat /\ a \in 0 .. Bytes - 1 /\ b \in 0 .. Bytes - 1
  BY BytesAre
<1> DEFINE x == a + Bytes - b
<1>3. x = (a + Bytes) - b
  BY <1>0
<1>4. Minus(a, b) = x % Bytes
  BY DEF Minus
<1> HIDE DEF x
<1>1. CASE b <= a
  <2>1. a - b \in Byte /\ (a + Bytes) - b = (a - b) + Bytes
    BY <1>0, <1>1, BytesAre
  <2>2. ((a - b) + Bytes) % Bytes = a - b
    BY <2>1, Remainders
  <2> QED
    BY <1>1, <1>3, <1>4, <2>1, <2>2
<1>2. CASE ~(b <= a)
  <2>1. (a + Bytes) - b \in Byte
    BY <1>0, <1>2, BytesAre
  <2>2. ((a + Bytes) - b) % Bytes = (a + Bytes) - b
    BY <2>1, Remainders
  <2> QED
    BY <1>2, <1>3, <1>4, <2>2
<1> QED
  BY <1>1, <1>2

LEMMA PlusIs ==
  ASSUME NEW a \in Byte, NEW b \in Byte
  PROVE  /\ (a + b) % Bytes = IF a + b < Bytes THEN a + b ELSE (a + b) - Bytes
         /\ (a + b) % Bytes \in Byte
<1>0. Bytes \in Nat /\ a \in 0 .. Bytes - 1 /\ b \in 0 .. Bytes - 1
  BY BytesAre
<1>1. CASE a + b < Bytes
  <2>1. a + b \in Byte
    BY <1>0, <1>1, BytesAre
  <2> QED
    BY <1>1, <2>1, Remainders
<1>2. CASE ~(a + b < Bytes)
  <2>1. (a + b) - Bytes \in Byte /\ ((a + b) - Bytes) + Bytes = a + b
    BY <1>0, <1>2, BytesAre
  <2> QED
    BY <1>2, <2>1, Remainders
<1> QED
  BY <1>1, <1>2

\* The running checksum is the complement of the sum.
LEMMA MinusSum ==
  ASSUME NEW a \in Byte, NEW b \in Byte
  PROVE  /\ Minus(Minus(0, a), b) = Minus(0, (a + b) % Bytes)
         /\ (a + Minus(0, a)) % Bytes = 0
<1>0. Bytes \in Nat /\ Bytes > 2 /\ 0 \in Byte /\ a \in 0 .. Bytes - 1 /\ b \in 0 .. Bytes - 1
  BY BytesAre
<1> DEFINE m == Minus(0, a)
           s == (a + b) % Bytes
<1>1. m \in Byte /\ m = IF a <= 0 THEN 0 - a ELSE (0 + Bytes) - a
  BY <1>0, MinusIs, MinusType
<1>2. s \in Byte /\ s = IF a + b < Bytes THEN a + b ELSE (a + b) - Bytes
  BY <1>0, PlusIs
<1>3. (a + m) % Bytes = IF a + m < Bytes THEN a + m ELSE (a + m) - Bytes
  BY <1>1, PlusIs
<1>4. Minus(m, b) = IF b <= m THEN m - b ELSE (m + Bytes) - b
  BY <1>1, MinusIs
<1>5. Minus(0, s) = IF s <= 0 THEN 0 - s ELSE (0 + Bytes) - s
  BY <1>0, <1>2, MinusIs
<1> HIDE DEF m, s
<1>6. (a + m) % Bytes = 0
  BY <1>0, <1>1, <1>3, BytesAre
<1>7. Minus(m, b) = Minus(0, s)
  BY <1>0, <1>1, <1>2, <1>4, <1>5, BytesAre
<1> QED
  BY <1>6, <1>7 DEF m, s

-----------------------------------------------------------------------------
(***************************************************************************)
(* The sum of bytes                                                        *)
(***************************************************************************)
LEMMA SumIs ==
  ASSUME NEW s \in Seq(Byte)
  PROVE  \E h : /\ h[0] = 0 /\ \A k \in 1 .. Len(s) : h[k] = (h[k - 1] + s[k]) % Bytes
                /\ \A k \in 0 .. Len(s) : h[k] \in Byte
                /\ SumOf(s) = h[Len(s)]
<1> DEFINE n == Len(s)
           Onward(k, r) == IF k \in 1 .. n THEN (r + s[k]) % Bytes ELSE r
           G == [x \in Nat \X Byte |-> Onward(x[1], x[2])]
           Is(h) == h = [k \in 0 .. n |-> IF k = 0 THEN 0 ELSE (h[k - 1] + s[k]) % Bytes]
<1>1. n \in Nat /\ \A k \in 1 .. n : s[k] \in Byte
  BY LenProperties, ElementOfSeq
<1>2. 0 \in Byte
  BY BytesAre
<1>3. G \in [Nat \X Byte -> Byte]
  <2>1. \A k \in Nat, r \in Byte : Onward(k, r) \in Byte
    BY <1>1, PlusIs
  <2> HIDE DEF Onward
  <2> QED
    BY <2>1
<1>4. \A k \in Nat, r \in Byte : G[<<k, r>>] = Onward(k, r)
  OBVIOUS
<1> HIDE DEF G
<1>5. PICK h : IsRecursive(h, n, 0, G) /\ \A k \in 0 .. n : h[k] \in Byte
  BY <1>1, <1>2, <1>3, RecursiveFunction
<1>6. \A k \in 1 .. n : k \in Nat /\ k - 1 \in 0 .. n
  BY <1>1
<1> HIDE DEF n
<1>7. \A k \in 1 .. n : h[k] = (h[k - 1] + s[k]) % Bytes
  <2> SUFFICES ASSUME NEW k \in 1 .. n PROVE h[k] = (h[k - 1] + s[k]) % Bytes
    OBVIOUS
  <2>1. h[k] = G[<<k, h[k - 1]>>] /\ h[k - 1] \in Byte /\ k \in Nat
    BY <1>5, <1>6 DEF IsRecursive
  <2>2. G[<<k, h[k - 1]>>] = Onward(k, h[k - 1])
    BY <1>4, <2>1
  <2> QED
    BY <2>1, <2>2
<1>8. Is(h)
  <2>1. \A k \in 0 .. n : k # 0 => k \in 1 .. n
    BY <1>1
  <2>2. h[0] = 0 /\ h = [k \in 0 .. n |-> h[k]]
    BY <1>5 DEF IsRecursive
  <2>3. \A k \in 0 .. n : h[k] = IF k = 0 THEN 0 ELSE (h[k - 1] + s[k]) % Bytes
    BY <1>7, <2>1, <2>2
  <2> QED
    BY <2>2, <2>3
<1> DEFINE g == CHOOSE g : Is(g)
<1>9. SumOf(s) = g[n]
  BY DEF SumOf, n
<1>10. Is(g)
  <2> HIDE DEF Is
  <2> QED
    BY <1>8
<1>11. \A f : Is(f) => f[0] = 0 /\ \A k \in 1 .. n : f[k] = (f[k - 1] + s[k]) % Bytes
  <2> SUFFICES ASSUME NEW f, Is(f)
               PROVE  f[0] = 0 /\ \A k \in 1 .. n : f[k] = (f[k - 1] + s[k]) % Bytes
    OBVIOUS
  <2>1. 0 \in 0 .. n /\ \A k \in 1 .. n : k \in 0 .. n /\ k # 0
    BY <1>1
  <2>2. \A k \in 0 .. n : f[k] = IF k = 0 THEN 0 ELSE (f[k - 1] + s[k]) % Bytes
    OBVIOUS
  <2> QED
    BY <2>1, <2>2
<1> HIDE DEF g, Is
<1>12. g[0] = 0 /\ \A k \in 1 .. n : g[k] = (g[k - 1] + s[k]) % Bytes
  BY <1>10, <1>11
<1>13. \A k \in 0 .. n : g[k] \in Byte
  <2> SUFFICES ASSUME NEW k \in 0 .. n PROVE g[k] \in Byte
    OBVIOUS
  <2> DEFINE T == {j \in Nat : g[j] \in Byte}
  <2>1. 0 \in T /\ T \in SUBSET Nat /\ k \in Nat /\ 0 <= k /\ 0 \in Nat
    BY <1>1, <1>2, <1>12
  <2>2. ASSUME NEW j \in Nat, j < k, j \in T PROVE j + 1 \in T
    <3>1. j + 1 \in 1 .. n /\ (j + 1) - 1 = j
      BY <1>1, <2>2
    <3>2. g[j + 1] = (g[j] + s[j + 1]) % Bytes
      BY <1>12, <3>1
    <3> QED
      BY <1>1, <2>2, <3>1, <3>2, PlusIs
  <2> HIDE DEF T
  <2>3. k \in T
    BY <2>1, <2>2, UpTo
  <2> QED
    BY <2>3 DEF T
<1> QED
  BY <1>9, <1>12, <1>13 DEF n

LEMMA SumAppend ==
  ASSUME NEW s \in Seq(Byte), NEW b \in Byte
  PROVE  SumOf(s) \in Byte /\ SumOf(Append(s, b)) = (SumOf(s) + b) % Bytes
<1> DEFINE t == Append(s, b)
           n == Len(s)
<1>1. /\ t \in Seq(Byte) /\ Len(t) = n + 1 /\ n \in Nat
      /\ \A k \in 1 .. n : t[k] = s[k]
      /\ t[n + 1] = b
  BY AppendProperties, LenProperties
<1> HIDE DEF t
<1>2. PICK h : /\ h[0] = 0 /\ \A k \in 1 .. Len(s) : h[k] = (h[k - 1] + s[k]) % Bytes
               /\ \A k \in 0 .. Len(s) : h[k] \in Byte
               /\ SumOf(s) = h[Len(s)]
  BY SumIs
<1>3. PICK g : /\ g[0] = 0 /\ \A k \in 1 .. Len(t) : g[k] = (g[k - 1] + t[k]) % Bytes
               /\ \A k \in 0 .. Len(t) : g[k] \in Byte
               /\ SumOf(t) = g[Len(t)]
  BY <1>1, SumIs
<1> HIDE DEF n
<1> DEFINE T == {j \in Nat : g[j] = h[j]}
<1>4. 0 \in T /\ T \in SUBSET Nat /\ 0 \in Nat /\ 0 <= n /\ n \in Nat
  BY <1>1, <1>2, <1>3
<1>5. ASSUME NEW j \in Nat, j < n, j \in T PROVE j + 1 \in T
  <2>1. j + 1 \in 1 .. n /\ j + 1 \in 1 .. n + 1 /\ (j + 1) - 1 = j
    BY <1>1, <1>5
  <2>2. g[j + 1] = (g[j] + t[j + 1]) % Bytes
    BY <1>1, <1>3, <2>1
  <2>3. h[j + 1] = (h[j] + s[j + 1]) % Bytes
    BY <1>2, <2>1 DEF n
  <2>4. t[j + 1] = s[j + 1] /\ g[j] = h[j]
    BY <1>1, <1>5, <2>1
  <2>5. g[j + 1] = h[j + 1]
    BY <2>2, <2>3, <2>4
  <2> QED
    BY <2>5
<1> HIDE DEF T
<1>6. n \in T
  BY <1>4, <1>5, UpTo
<1>7. g[n] = h[n] /\ n + 1 \in 1 .. n + 1 /\ (n + 1) - 1 = n /\ n \in 0 .. n
  BY <1>1, <1>6 DEF T
<1>8. SumOf(t) = (g[n] + b) % Bytes
  BY <1>1, <1>3, <1>7
<1>9. SumOf(s) = h[n] /\ h[n] \in Byte
  BY <1>2, <1>7 DEF n
<1> QED
  BY <1>7, <1>8, <1>9 DEF t

LEMMA SumOfOne == SumOf(<<>>) = 0 /\ \A c \in Byte : SumOf(<<c>>) = c
<1>1. <<>> \in Seq(Byte) /\ Len(<<>>) = 0
  OBVIOUS
<1>2. SumOf(<<>>) = 0
  BY <1>1, SumIs
<1>3. ASSUME NEW c \in Byte PROVE SumOf(<<c>>) = c
  <2>1. SumOf(Append(<<>>, c)) = (0 + c) % Bytes
    BY <1>1, <1>2, SumAppend
  <2>2. Append(<<>>, c) = <<c>> /\ 0 + c = c
    BY BytesAre
  <2> QED
    BY <2>1, <2>2, Remainders
<1> QED
  BY <1>2, <1>3
-----------------------------------------------------------------------------
(***************************************************************************)
(* COBS                                                                    *)
(***************************************************************************)
NonZero == 1 .. Bytes - 1
OpenGroup == {s \in Seq(NonZero) : Len(s) < GroupMax}
EncodeState == [out : Seq(NonZero), open : OpenGroup]

\* A code and the bytes of its group.
Coded(out, n, bytes) == (out \o <<n + 1>>) \o bytes

LEMMA NonZeroAre ==
  /\ NonZero \subseteq Byte /\ \A b \in Byte : b # 0 => b \in NonZero
  /\ \A n \in 0 .. GroupMax : n + 1 \in NonZero
  /\ 0 \notin NonZero /\ Bytes - 1 = GroupMax + 1 /\ GroupMax - 1 \in Nat
  /\ <<>> \in OpenGroup
<1>1. /\ NonZero \subseteq Byte /\ \A b \in Byte : b # 0 => b \in NonZero
      /\ 0 \notin NonZero
  BY BytesAre DEF NonZero
<1>2. /\ \A n \in 0 .. GroupMax : n + 1 \in NonZero
      /\ Bytes - 1 = GroupMax + 1 /\ GroupMax - 1 \in Nat
  BY BytesAre DEF NonZero, GroupMax
<1>3. <<>> \in OpenGroup
  BY BytesAre DEF OpenGroup
<1> QED
  BY <1>1, <1>2, <1>3

LEMMA CodedType ==
  ASSUME NEW out \in Seq(NonZero), NEW n \in 0 .. GroupMax, NEW bytes \in Seq(NonZero)
  PROVE  /\ Coded(out, n, bytes) \in Seq(NonZero)
         /\ Coded(out, n, bytes) = out \o (<<n + 1>> \o bytes)
         /\ <<n + 1>> \o bytes \in Seq(NonZero)
         /\ Len(Coded(out, n, bytes)) = Len(out) + 1 + Len(bytes)
<1>1. <<n + 1>> \in Seq(NonZero) /\ Len(<<n + 1>>) = 1
  BY NonZeroAre
<1>2. <<n + 1>> \o bytes \in Seq(NonZero) /\ Len(<<n + 1>> \o bytes) = 1 + Len(bytes)
  BY <1>1, ConcatProperties
<1>3. /\ out \o (<<n + 1>> \o bytes) \in Seq(NonZero)
      /\ Len(out \o (<<n + 1>> \o bytes)) = Len(out) + (1 + Len(bytes))
  BY <1>2, ConcatProperties
<1>4. Coded(out, n, bytes) = out \o (<<n + 1>> \o bytes)
  BY <1>1, ConcatAssociative DEF Coded
<1>5. Len(out) \in Nat /\ Len(bytes) \in Nat
  BY LenProperties
<1> QED
  BY <1>2, <1>3, <1>4, <1>5

\* A zero ends the open group, and so does the last byte a group can have.
LEMMA EncodeByteIs ==
  ASSUME NEW a \in EncodeState, NEW b \in Byte
  PROVE  /\ EncodeByte(a, b) \in EncodeState
         /\ b = 0 => EncodeByte(a, b) =
              [out |-> Coded(a.out, Len(a.open), a.open), open |-> <<>>]
         /\ b # 0 /\ Len(a.open) = GroupMax - 1 => EncodeByte(a, b) =
              [out |-> Coded(a.out, GroupMax, Append(a.open, b)), open |-> <<>>]
         /\ b # 0 /\ Len(a.open) # GroupMax - 1 => EncodeByte(a, b) =
              [out |-> a.out, open |-> Append(a.open, b)]
         /\ \E x \in Seq(NonZero) : EncodeByte(a, b).out = a.out \o x
<1>1. a.out \in Seq(NonZero) /\ a.open \in Seq(NonZero) /\ Len(a.open) < GroupMax
  BY DEF EncodeState, OpenGroup
<1>2. Len(a.open) \in Nat /\ GroupMax \in Nat \ {0}
  BY <1>1, BytesAre, LenProperties
<1>3. CASE b = 0
  <2>1. Len(a.open) \in 0 .. GroupMax
    BY <1>1, <1>2
  <2> DEFINE x == <<Len(a.open) + 1>> \o a.open
             c == Coded(a.out, Len(a.open), a.open)
  <2>2. c \in Seq(NonZero) /\ x \in Seq(NonZero) /\ c = a.out \o x
    BY <1>1, <2>1, CodedType
  <2>3. EncodeByte(a, b) = [out |-> c, open |-> <<>>]
    BY <1>3 DEF EncodeByte, Coded
  <2> HIDE DEF c, x
  <2>4. [out |-> c, open |-> <<>>] \in EncodeState
    BY <2>2, NonZeroAre DEF EncodeState
  <2>5. EncodeByte(a, b).out = a.out \o x
    BY <2>2, <2>3
  <2> QED
    BY <1>3, <2>2, <2>3, <2>4, <2>5 DEF c
<1>4. CASE b # 0 /\ Len(a.open) = GroupMax - 1
  <2>0. b \in NonZero /\ Append(a.open, b) \in Seq(NonZero)
    BY <1>1, <1>4, NonZeroAre, AppendProperties
  <2>1. GroupMax \in 0 .. GroupMax
    BY <1>2
  <2> DEFINE y == Append(a.open, b)
             x == <<GroupMax + 1>> \o y
             c == Coded(a.out, GroupMax, y)
  <2>2. c \in Seq(NonZero) /\ x \in Seq(NonZero) /\ c = a.out \o x
    BY <1>1, <2>0, <2>1, CodedType
  <2>3. EncodeByte(a, b) = [out |-> c, open |-> <<>>]
    BY <1>4, NonZeroAre DEF EncodeByte, Coded
  <2> HIDE DEF c, x
  <2>4. [out |-> c, open |-> <<>>] \in EncodeState
    BY <2>2, NonZeroAre DEF EncodeState
  <2>5. EncodeByte(a, b).out = a.out \o x
    BY <2>2, <2>3
  <2> QED
    BY <1>4, <2>2, <2>3, <2>4, <2>5 DEF c
<1>5. CASE b # 0 /\ Len(a.open) # GroupMax - 1
  <2>0. /\ b \in NonZero /\ Append(a.open, b) \in Seq(NonZero)
        /\ Len(Append(a.open, b)) = Len(a.open) + 1
    BY <1>1, <1>5, NonZeroAre, AppendProperties
  <2>1. Append(a.open, b) \in OpenGroup
    BY <1>1, <1>2, <1>5, <2>0 DEF OpenGroup
  <2>2. EncodeByte(a, b) = [out |-> a.out, open |-> Append(a.open, b)]
    BY <1>5 DEF EncodeByte, EncodeState
  <2>3. a.out = a.out \o <<>> /\ <<>> \in Seq(NonZero)
    BY <1>1, ConcatEmptySeq
  <2>4. EncodeByte(a, b).out = a.out \o <<>>
    BY <2>2, <2>3
  <2>5. [out |-> a.out, open |-> Append(a.open, b)] \in EncodeState
    BY <1>1, <2>1 DEF EncodeState
  <2>6. EncodeByte(a, b) \in EncodeState
    BY <2>2, <2>5
  <2>7. \E x \in Seq(NonZero) : EncodeByte(a, b).out = a.out \o x
    BY <2>3, <2>4
  <2> QED
    BY <1>5, <2>2, <2>6, <2>7
<1> QED
  BY <1>3, <1>4, <1>5
LEMMA EncodingIs ==
  ASSUME NEW s \in Seq(Byte)
  PROVE  LET e == Encoding(s)
         IN /\ e[0] = [out |-> <<>>, open |-> <<>>]
            /\ \A k \in 1 .. Len(s) : e[k] = EncodeByte(e[k - 1], s[k])
            /\ \A k \in 0 .. Len(s) : e[k] \in EncodeState
<1> DEFINE n == Len(s)
           a == [out |-> <<>>, open |-> <<>>]
           Onward(k, r) == IF k \in 1 .. n THEN EncodeByte(r, s[k]) ELSE r
           G == [x \in Nat \X EncodeState |-> Onward(x[1], x[2])]
           Is(h) == h = [k \in 0 .. n |-> IF k = 0 THEN a ELSE EncodeByte(h[k - 1], s[k])]
<1>1. n \in Nat /\ \A k \in 1 .. n : s[k] \in Byte
  BY LenProperties, ElementOfSeq
<1>2. a \in EncodeState
  <2>1. <<>> \in Seq(NonZero)
    OBVIOUS
  <2> QED
    BY <2>1, NonZeroAre DEF EncodeState
<1>3. G \in [Nat \X EncodeState -> EncodeState]
  <2>1. \A k \in Nat, r \in EncodeState : Onward(k, r) \in EncodeState
    BY <1>1, EncodeByteIs
  <2> HIDE DEF Onward
  <2> QED
    BY <2>1
<1>4. \A k \in Nat, r \in EncodeState : G[<<k, r>>] = Onward(k, r)
  OBVIOUS
<1> HIDE DEF G, a
<1>5. PICK h : IsRecursive(h, n, a, G) /\ \A k \in 0 .. n : h[k] \in EncodeState
  BY <1>1, <1>2, <1>3, RecursiveFunction
<1>6. \A k \in 1 .. n : k \in Nat /\ k - 1 \in 0 .. n
  BY <1>1
<1> HIDE DEF n
<1>7. \A k \in 1 .. n : h[k] = EncodeByte(h[k - 1], s[k])
  <2> SUFFICES ASSUME NEW k \in 1 .. n PROVE h[k] = EncodeByte(h[k - 1], s[k])
    OBVIOUS
  <2>1. h[k] = G[<<k, h[k - 1]>>] /\ h[k - 1] \in EncodeState /\ k \in Nat
    BY <1>5, <1>6 DEF IsRecursive
  <2>2. G[<<k, h[k - 1]>>] = Onward(k, h[k - 1])
    BY <1>4, <2>1
  <2> QED
    BY <2>1, <2>2
<1>8. Is(h)
  <2>1. \A k \in 0 .. n : k # 0 => k \in 1 .. n
    BY <1>1
  <2>2. h[0] = a /\ h = [k \in 0 .. n |-> h[k]]
    BY <1>5 DEF IsRecursive
  <2>3. \A k \in 0 .. n : h[k] = IF k = 0 THEN a ELSE EncodeByte(h[k - 1], s[k])
    BY <1>7, <2>1, <2>2
  <2> QED
    BY <2>2, <2>3
<1> DEFINE g == CHOOSE g : Is(g)
<1>9. Encoding(s) = g
  BY DEF Encoding, n, a
<1>10. Is(g)
  <2> HIDE DEF Is
  <2> QED
    BY <1>8
<1>11. \A f : Is(f) => f[0] = a /\ \A k \in 1 .. n : f[k] = EncodeByte(f[k - 1], s[k])
  <2> SUFFICES ASSUME NEW f, Is(f)
               PROVE  f[0] = a /\ \A k \in 1 .. n : f[k] = EncodeByte(f[k - 1], s[k])
    OBVIOUS
  <2>1. 0 \in 0 .. n /\ \A k \in 1 .. n : k \in 0 .. n /\ k # 0
    BY <1>1
  <2>2. \A k \in 0 .. n : f[k] = IF k = 0 THEN a ELSE EncodeByte(f[k - 1], s[k])
    OBVIOUS
  <2> QED
    BY <2>1, <2>2
<1> HIDE DEF g, Is
<1>12. g[0] = a /\ \A k \in 1 .. n : g[k] = EncodeByte(g[k - 1], s[k])
  BY <1>10, <1>11
<1>13. \A k \in 0 .. n : g[k] \in EncodeState
  <2> SUFFICES ASSUME NEW k \in 0 .. n PROVE g[k] \in EncodeState
    OBVIOUS
  <2> DEFINE T == {j \in Nat : g[j] \in EncodeState}
  <2>1. 0 \in T /\ T \in SUBSET Nat /\ k \in Nat /\ 0 <= k /\ 0 \in Nat
    BY <1>1, <1>2, <1>12
  <2>2. ASSUME NEW j \in Nat, j < k, j \in T PROVE j + 1 \in T
    <3>1. j + 1 \in 1 .. n /\ (j + 1) - 1 = j
      BY <1>1, <2>2
    <3>2. g[j + 1] = EncodeByte(g[j], s[j + 1])
      BY <1>12, <3>1
    <3> QED
      <4>1. g[j] \in EncodeState /\ s[j + 1] \in Byte
        BY <1>1, <2>2, <3>1
      <4>2. g[j + 1] \in EncodeState
        BY <3>2, <4>1, EncodeByteIs
      <4> QED
        BY <2>2, <4>2
  <2> HIDE DEF T
  <2>3. k \in T
    BY <2>1, <2>2, UpTo
  <2> QED
    BY <2>3 DEF T
<1> QED
  BY <1>9, <1>12, <1>13 DEF n, a

DecodeState == [out : Seq(Byte), left : Nat, zero : BOOLEAN]

LEMMA DecodeByteType ==
  ASSUME NEW a \in DecodeState, NEW b \in NonZero
  PROVE  DecodeByte(a, b) \in DecodeState
<1>1. a.out \in Seq(Byte) /\ a.left \in Nat /\ b \in Byte /\ b - 1 \in Nat /\ 0 \in Byte
  BY BytesAre, NonZeroAre DEF DecodeState, NonZero
<1>2. Append(a.out, 0) \in Seq(Byte) /\ Append(a.out, b) \in Seq(Byte)
  BY <1>1, AppendProperties
<1>3. CASE a.left = 0
  BY <1>1, <1>2, <1>3 DEF DecodeByte, DecodeState
<1>4. CASE a.left # 0
  <2>1. a.left - 1 \in Nat
    BY <1>1, <1>4
  <2> QED
    BY <1>2, <1>4, <2>1 DEF DecodeByte, DecodeState
<1> QED
  BY <1>3, <1>4

LEMMA DecodingIs ==
  ASSUME NEW s \in Seq(NonZero)
  PROVE  \E h : /\ h[0] = [out |-> <<>>, left |-> 0, zero |-> FALSE]
                /\ \A k \in 1 .. Len(s) : h[k] = DecodeByte(h[k - 1], s[k])
                /\ \A k \in 0 .. Len(s) : h[k] \in DecodeState
                /\ cobs_decode(s) = h[Len(s)].out
<1> DEFINE n == Len(s)
           a == [out |-> <<>>, left |-> 0, zero |-> FALSE]
           Onward(k, r) == IF k \in 1 .. n THEN DecodeByte(r, s[k]) ELSE r
           G == [x \in Nat \X DecodeState |-> Onward(x[1], x[2])]
           Is(h) == h = [k \in 0 .. n |-> IF k = 0 THEN a ELSE DecodeByte(h[k - 1], s[k])]
<1>1. n \in Nat /\ \A k \in 1 .. n : s[k] \in NonZero
  BY LenProperties, ElementOfSeq
<1>2. a \in DecodeState
  <2>1. <<>> \in Seq(Byte)
    OBVIOUS
  <2> QED
    BY <2>1 DEF DecodeState
<1>3. G \in [Nat \X DecodeState -> DecodeState]
  <2>1. \A k \in Nat, r \in DecodeState : Onward(k, r) \in DecodeState
    BY <1>1, DecodeByteType
  <2> HIDE DEF Onward
  <2> QED
    BY <2>1
<1>4. \A k \in Nat, r \in DecodeState : G[<<k, r>>] = Onward(k, r)
  OBVIOUS
<1> HIDE DEF G, a
<1>5. PICK h : IsRecursive(h, n, a, G) /\ \A k \in 0 .. n : h[k] \in DecodeState
  BY <1>1, <1>2, <1>3, RecursiveFunction
<1>6. \A k \in 1 .. n : k \in Nat /\ k - 1 \in 0 .. n
  BY <1>1
<1> HIDE DEF n
<1>7. \A k \in 1 .. n : h[k] = DecodeByte(h[k - 1], s[k])
  <2> SUFFICES ASSUME NEW k \in 1 .. n PROVE h[k] = DecodeByte(h[k - 1], s[k])
    OBVIOUS
  <2>1. h[k] = G[<<k, h[k - 1]>>] /\ h[k - 1] \in DecodeState /\ k \in Nat
    BY <1>5, <1>6 DEF IsRecursive
  <2>2. G[<<k, h[k - 1]>>] = Onward(k, h[k - 1])
    BY <1>4, <2>1
  <2> QED
    BY <2>1, <2>2
<1>8. Is(h)
  <2>1. \A k \in 0 .. n : k # 0 => k \in 1 .. n
    BY <1>1
  <2>2. h[0] = a /\ h = [k \in 0 .. n |-> h[k]]
    BY <1>5 DEF IsRecursive
  <2>3. \A k \in 0 .. n : h[k] = IF k = 0 THEN a ELSE DecodeByte(h[k - 1], s[k])
    BY <1>7, <2>1, <2>2
  <2> QED
    BY <2>2, <2>3
<1> DEFINE g == CHOOSE g : Is(g)
<1>9. cobs_decode(s) = g[n].out
  BY DEF cobs_decode, n, a
<1>10. Is(g)
  <2> HIDE DEF Is
  <2> QED
    BY <1>8
<1>11. \A f : Is(f) => f[0] = a /\ \A k \in 1 .. n : f[k] = DecodeByte(f[k - 1], s[k])
  <2> SUFFICES ASSUME NEW f, Is(f)
               PROVE  f[0] = a /\ \A k \in 1 .. n : f[k] = DecodeByte(f[k - 1], s[k])
    OBVIOUS
  <2>1. 0 \in 0 .. n /\ \A k \in 1 .. n : k \in 0 .. n /\ k # 0
    BY <1>1
  <2>2. \A k \in 0 .. n : f[k] = IF k = 0 THEN a ELSE DecodeByte(f[k - 1], s[k])
    OBVIOUS
  <2> QED
    BY <2>1, <2>2
<1> HIDE DEF g, Is
<1>12. g[0] = a /\ \A k \in 1 .. n : g[k] = DecodeByte(g[k - 1], s[k])
  BY <1>10, <1>11
<1>13. \A k \in 0 .. n : g[k] \in DecodeState
  <2> SUFFICES ASSUME NEW k \in 0 .. n PROVE g[k] \in DecodeState
    OBVIOUS
  <2> DEFINE T == {j \in Nat : g[j] \in DecodeState}
  <2>1. 0 \in T /\ T \in SUBSET Nat /\ k \in Nat /\ 0 <= k /\ 0 \in Nat
    BY <1>1, <1>2, <1>12
  <2>2. ASSUME NEW j \in Nat, j < k, j \in T PROVE j + 1 \in T
    <3>1. j + 1 \in 1 .. n /\ (j + 1) - 1 = j
      BY <1>1, <2>2
    <3>2. g[j + 1] = DecodeByte(g[j], s[j + 1])
      BY <1>12, <3>1
    <3> QED
      BY <1>1, <2>2, <3>1, <3>2, DecodeByteType
  <2> HIDE DEF T
  <2>3. k \in T
    BY <2>1, <2>2, UpTo
  <2> QED
    BY <2>3 DEF T
<1> QED
  BY <1>9, <1>12, <1>13 DEF n, a
\* A part of a sequence, from after k on.
LEMMA Window ==
  ASSUME NEW S, NEW s, NEW k \in Nat, NEW j \in Nat, \A i \in k + 1 .. k + j : s[i] \in S
  PROVE  /\ SubSeq(s, k + 1, k + j) \in Seq(S) /\ Len(SubSeq(s, k + 1, k + j)) = j
         /\ \A i \in 1 .. j : SubSeq(s, k + 1, k + j)[i] = s[k + i]
         /\ j = 0 => SubSeq(s, k + 1, k + j) = <<>>
<1> DEFINE m == k + 1
           n == k + j
           t == SubSeq(s, m, n)
<1>1. m \in Int /\ n \in Int /\ \A i \in m .. n : s[i] \in S
  OBVIOUS
<1>2. /\ t \in Seq(S) /\ Len(t) = IF m <= n THEN n - m + 1 ELSE 0
      /\ \A i \in 1 .. n - m + 1 : t[i] = s[m + i - 1]
  <2> HIDE DEF m, n
  <2> QED
    BY <1>1, SubSeqProperties
<1> HIDE DEF t
<1>3. Len(t) = j
  BY <1>2
<1>4. ASSUME NEW i \in 1 .. j PROVE t[i] = s[k + i]
  <2>1. i \in 1 .. n - m + 1 /\ m + i - 1 = k + i
    OBVIOUS
  <2> QED
    BY <1>2, <2>1
<1>5. j = 0 => t = <<>>
  BY <1>2, <1>3
<1> QED
  BY <1>2, <1>3, <1>4, <1>5 DEF t

LEMMA WindowGrows ==
  ASSUME NEW S, NEW s, NEW k \in Nat, NEW j \in Nat, \A i \in k + 1 .. k + j + 1 : s[i] \in S
  PROVE  SubSeq(s, k + 1, k + j + 1) = Append(SubSeq(s, k + 1, k + j), s[k + j + 1])
<1> DEFINE t == SubSeq(s, k + 1, k + j)
           u == SubSeq(s, k + 1, k + (j + 1))
           v == s[k + j + 1]
<1>1. /\ \A i \in k + 1 .. k + j : s[i] \in S
      /\ \A i \in k + 1 .. k + (j + 1) : s[i] \in S
      /\ v \in S /\ k + (j + 1) = k + j + 1 /\ j + 1 \in Nat
  OBVIOUS
<1>2. t \in Seq(S) /\ Len(t) = j /\ \A i \in 1 .. j : t[i] = s[k + i]
  BY <1>1, Window
<1>3. u \in Seq(S) /\ Len(u) = j + 1 /\ \A i \in 1 .. j + 1 : u[i] = s[k + i]
  BY <1>1, Window
<1> HIDE DEF t, u
<1>4. /\ Append(t, v) \in Seq(S) /\ Len(Append(t, v)) = j + 1
      /\ \A i \in 1 .. j : Append(t, v)[i] = t[i]
      /\ Append(t, v)[j + 1] = v
  <2> HIDE DEF v
  <2> QED
    BY <1>1, <1>2, AppendProperties
<1>5. ASSUME NEW i \in 1 .. Len(u) PROVE u[i] = Append(t, v)[i]
  <2>1. CASE i = j + 1
    <3>1. k + (j + 1) = k + j + 1 /\ j + 1 \in 1 .. j + 1
      OBVIOUS
    <3> QED
      BY <1>3, <1>4, <2>1, <3>1
  <2>2. CASE i # j + 1
    <3>1. i \in 1 .. j /\ i \in 1 .. j + 1
      BY <1>3, <2>2
    <3> QED
      BY <1>2, <1>3, <1>4, <3>1
  <2> QED
    BY <2>1, <2>2
<1>6. u = Append(t, v)
  <2> HIDE DEF v
  <2> QED
    BY <1>3, <1>4, <1>5, SeqEqual
<1> QED
  BY <1>1, <1>6 DEF t, u

\* Concatenation is associative, on bytes and on bytes that are not 0.
LEMMA NonZeroAssociate == \A s, t, u \in Seq(NonZero) : (s \o t) \o u = s \o (t \o u)
BY ConcatAssociative

LEMMA BytesAssociate == \A s, t, u \in Seq(Byte) : (s \o t) \o u = s \o (t \o u)
BY ConcatAssociative

\* What is written stays at the beginning of what is going to be.
LEMMA OutGrows ==
  ASSUME NEW s \in Seq(Byte), NEW k \in 0 .. Len(s)
  PROVE  /\ cobs_encode(s) \in Seq(NonZero)
         /\ \E x \in Seq(NonZero) : cobs_encode(s) = Encoding(s)[k].out \o x
<1> DEFINE e == Encoding(s)
           w == cobs_encode(s)
           n == Len(s)
<1>0. n \in Nat /\ \A i \in 1 .. n : s[i] \in Byte
  BY LenProperties, ElementOfSeq
<1>1. /\ \A i \in 1 .. n : e[i] = EncodeByte(e[i - 1], s[i])
      /\ \A i \in 0 .. n : e[i] \in EncodeState
  BY EncodingIs
<1> HIDE DEF e
<1>2. \A i \in 0 .. n : e[i].out \in Seq(NonZero)
  BY <1>1 DEF EncodeState
<1>3. /\ e[n].open \in Seq(NonZero) /\ Len(e[n].open) \in 0 .. GroupMax
  <2>1. e[n].open \in Seq(NonZero) /\ Len(e[n].open) < GroupMax
    BY <1>0, <1>1 DEF EncodeState, OpenGroup
  <2>2. Len(e[n].open) \in Nat
    BY <2>1, LenProperties
  <2> QED
    BY <2>1, <2>2, BytesAre
<1>4. w = Coded(e[n].out, Len(e[n].open), e[n].open)
  BY DEF cobs_encode, e, Coded
<1>5. w \in Seq(NonZero) /\ \E x \in Seq(NonZero) : w = e[n].out \o x
  <2> DEFINE o == e[n].out
             p == e[n].open
             x == <<Len(p) + 1>> \o p
  <2>1. n \in 0 .. n
    BY <1>0
  <2>2. o \in Seq(NonZero) /\ p \in Seq(NonZero) /\ Len(p) \in 0 .. GroupMax
    BY <1>2, <1>3, <2>1
  <2> HIDE DEF o, p
  <2>3. Coded(o, Len(p), p) \in Seq(NonZero) /\ Coded(o, Len(p), p) = o \o x /\ x \in Seq(NonZero)
    BY <2>2, CodedType
  <2>4. w = Coded(o, Len(p), p)
    BY <1>4 DEF o, p
  <2> HIDE DEF w, x
  <2>5. w \in Seq(NonZero) /\ \E y \in Seq(NonZero) : w = o \o y
    BY <2>3, <2>4
  <2> QED
    BY <2>5 DEF o
<1> HIDE DEF w
<1> DEFINE T == {j \in Nat : j <= n /\ \E x \in Seq(NonZero) : w = e[n - j].out \o x}
<1>6. 0 \in T
  <2>1. n - 0 = n /\ 0 <= n
    BY <1>0
  <2> QED
    BY <1>5, <2>1
<1>7. ASSUME NEW j \in Nat, j < n - k, j \in T PROVE j + 1 \in T
  <2>1. PICK x \in Seq(NonZero) : w = e[n - j].out \o x
    BY <1>7
  <2> DEFINE i == n - j
  <2>2. i \in 1 .. n /\ i - 1 \in 0 .. n /\ i - 1 = n - (j + 1) /\ j + 1 <= n
    BY <1>0, <1>7
  <2> HIDE DEF i
  <2>3. e[i] = EncodeByte(e[i - 1], s[i]) /\ e[i - 1] \in EncodeState /\ s[i] \in Byte
    BY <1>0, <1>1, <2>2
  <2>4. PICK y \in Seq(NonZero) : e[i].out = e[i - 1].out \o y
    BY <2>3, EncodeByteIs
  <2>5. w = (e[i - 1].out \o y) \o x
    BY <2>1, <2>4 DEF i
  <2>6. y \o x \in Seq(NonZero) /\ (e[i - 1].out \o y) \o x = e[i - 1].out \o (y \o x)
    <3>1. e[i - 1].out \in Seq(NonZero)
      BY <1>2, <2>2
    <3> QED
      <4> DEFINE o == e[i - 1].out
      <4>1. o \in Seq(NonZero)
        BY <3>1
      <4> HIDE DEF o
      <4>2. y \o x \in Seq(NonZero)
        BY ConcatProperties
      <4>3. (o \o y) \o x = o \o (y \o x)
        BY <4>1, NonZeroAssociate, Zenon
      <4> QED
        BY <4>2, <4>3 DEF o
  <2>7. w = e[n - (j + 1)].out \o (y \o x)
    BY <2>2, <2>5, <2>6
  <2>8. \E z \in Seq(NonZero) : w = e[n - (j + 1)].out \o z
    BY <2>6, <2>7
  <2>9. j + 1 \in Nat /\ j + 1 <= n
    BY <2>2
  <2> HIDE DEF T
  <2>10. j + 1 \in {m \in Nat : m <= n /\ \E z \in Seq(NonZero) : w = e[n - m].out \o z}
    BY <2>8, <2>9
  <2> QED
    BY <2>10 DEF T
<1>8. T \in SUBSET Nat /\ 0 \in Nat /\ n - k \in Nat /\ 0 <= n - k /\ n - (n - k) = k
  BY <1>0
<1> HIDE DEF T
<1>9. n - k \in T
  BY <1>6, <1>7, <1>8, UpTo
<1>10. \E x \in Seq(NonZero) : w = e[k].out \o x
  BY <1>8, <1>9 DEF T
<1> QED
  BY <1>5, <1>10 DEF w, e
\* A group from its first byte on: it stays open up to its end, and what ends it
\* writes it out.
LEMMA GroupRuns ==
  ASSUME NEW s \in Seq(Byte), NEW k \in Nat, NEW g \in 0 .. GroupMax, k + g <= Len(s),
         Encoding(s)[k].open = <<>>, \A i \in k + 1 .. k + g : s[i] # 0
  PROVE  LET e == Encoding(s)
             written == Coded(e[k].out, g, SubSeq(s, k + 1, k + g))
         IN /\ g = GroupMax => e[k + g] = [out |-> written, open |-> <<>>]
            /\ g # GroupMax /\ k + g < Len(s) /\ s[k + g + 1] = 0 =>
                 e[k + g + 1] = [out |-> written, open |-> <<>>]
            /\ g # GroupMax /\ k + g = Len(s) => cobs_encode(s) = written
<1> DEFINE e == Encoding(s)
           n == Len(s)
           Part(j) == SubSeq(s, k + 1, k + j)
           Run(j) == [out |-> e[k].out, open |-> Part(j)]
           written == Coded(e[k].out, g, Part(g))
<1>0. n \in Nat /\ (\A i \in 1 .. n : s[i] \in Byte) /\ GroupMax \in Nat \ {0} /\ g \in Nat
  BY LenProperties, ElementOfSeq, BytesAre
<1>1. /\ \A i \in 1 .. n : e[i] = EncodeByte(e[i - 1], s[i])
      /\ \A i \in 0 .. n : e[i] \in EncodeState
  BY EncodingIs
<1>2. e[k].open = <<>>
  OBVIOUS
<1>3. \A i \in k + 1 .. k + g : s[i] \in NonZero
  <2> SUFFICES ASSUME NEW i \in k + 1 .. k + g PROVE s[i] \in NonZero
    OBVIOUS
  <2>1. i \in 1 .. n /\ s[i] # 0
    BY <1>0
  <2> QED
    BY <1>0, <2>1, NonZeroAre
<1> HIDE DEF e
<1>4. ASSUME NEW j \in Nat, j <= g PROVE Part(j) \in Seq(NonZero) /\ Len(Part(j)) = j
  <2>1. \A i \in k + 1 .. k + j : s[i] \in NonZero
    BY <1>3, <1>4
  <2> QED
    BY <2>1, Window
<1>5. ASSUME NEW j \in Nat, j < g PROVE Part(j + 1) = Append(Part(j), s[k + j + 1])
  <2>1. \A i \in k + 1 .. k + j + 1 : s[i] \in NonZero
    BY <1>3, <1>5
  <2>2. SubSeq(s, k + 1, k + j + 1) = Append(SubSeq(s, k + 1, k + j), s[k + j + 1])
    BY <2>1, WindowGrows
  <2>3. k + (j + 1) = k + j + 1
    OBVIOUS
  <2> QED
    BY <2>2, <2>3
<1>6. k \in 0 .. n /\ e[k] \in EncodeState /\ k + 0 = k
  BY <1>0, <1>1
<1>7. e[k] = Run(0)
  <2>1. \A i \in k + 1 .. k + 0 : s[i] \in NonZero
    OBVIOUS
  <2>2. SubSeq(s, k + 1, k + 0) = <<>>
    BY <2>1, Window
  <2> QED
    BY <1>2, <1>6, <2>2 DEF EncodeState
<1> HIDE DEF Part
\* One byte of the group.
<1>8. ASSUME NEW j \in Nat, j < g, e[k + j] = Run(j)
      PROVE  /\ j + 1 < GroupMax => e[k + (j + 1)] = Run(j + 1)
             /\ j + 1 = GroupMax =>
                  e[k + (j + 1)] = [out |-> Coded(e[k].out, GroupMax, Part(j + 1)), open |-> <<>>]
  <2> DEFINE b == s[k + j + 1]
             a == e[k + j]
  <2>1. k + j + 1 \in 1 .. n /\ k + j + 1 \in k + 1 .. k + g /\ (k + j + 1) - 1 = k + j
        /\ k + j \in 0 .. n /\ k + (j + 1) = k + j + 1
    BY <1>0, <1>8
  <2>2. b \in Byte /\ b # 0 /\ a \in EncodeState /\ e[k + (j + 1)] = EncodeByte(a, b)
    BY <1>0, <1>1, <2>1
  <2>3. a.open = Part(j) /\ a.out = e[k].out /\ Len(a.open) = j
    BY <1>4, <1>8
  <2>4. Part(j + 1) = Append(a.open, b)
    BY <1>5, <1>8, <2>3
  <2> HIDE DEF a, b
  <2>5. Len(a.open) = GroupMax - 1 => EncodeByte(a, b) =
              [out |-> Coded(a.out, GroupMax, Append(a.open, b)), open |-> <<>>]
    BY <2>2, EncodeByteIs
  <2>6. Len(a.open) # GroupMax - 1 => EncodeByte(a, b) =
              [out |-> a.out, open |-> Append(a.open, b)]
    BY <2>2, EncodeByteIs
  <2>7. ASSUME j + 1 < GroupMax PROVE e[k + (j + 1)] = Run(j + 1)
    <3>1. Len(a.open) # GroupMax - 1
      BY <1>0, <2>3, <2>7
    <3> QED
      BY <2>2, <2>3, <2>4, <2>6, <3>1
  <2>8. ASSUME j + 1 = GroupMax
        PROVE  e[k + (j + 1)] = [out |-> Coded(e[k].out, GroupMax, Part(j + 1)), open |-> <<>>]
    <3>1. Len(a.open) = GroupMax - 1
      BY <1>0, <2>3, <2>8
    <3> QED
      BY <2>2, <2>3, <2>4, <2>5, <3>1
  <2> QED
    BY <2>7, <2>8
<1> DEFINE T == {j \in Nat : e[k + j] = Run(j)}
<1>9. ASSUME NEW m \in Nat, m <= g, m < GroupMax PROVE e[k + m] = Run(m)
  <2>1. 0 \in T /\ T \in SUBSET Nat /\ 0 \in Nat /\ 0 <= m
    BY <1>6, <1>7, <1>9
  <2>2. ASSUME NEW j \in Nat, j < m, j \in T PROVE j + 1 \in T
    <3>1. j < g /\ j + 1 < GroupMax /\ j + 1 \in Nat /\ e[k + j] = Run(j)
      BY <1>0, <1>9, <2>2
    <3>2. e[k + (j + 1)] = Run(j + 1)
      BY <1>8, <3>1
    <3> QED
      BY <3>1, <3>2
  <2> HIDE DEF T
  <2>3. m \in T
    BY <1>9, <2>1, <2>2, UpTo
  <2> QED
    BY <2>3 DEF T
<1>10. ASSUME g = GroupMax PROVE e[k + g] = [out |-> written, open |-> <<>>]
  <2> DEFINE j == g - 1
  <2>1. j \in Nat /\ j < g /\ j <= g /\ j < GroupMax /\ j + 1 = g
    BY <1>0, <1>10
  <2> HIDE DEF j
  <2>2. e[k + j] = Run(j)
    BY <1>9, <2>1
  <2>3. e[k + (j + 1)] = [out |-> Coded(e[k].out, GroupMax, Part(j + 1)), open |-> <<>>]
    BY <1>8, <1>10, <2>1, <2>2
  <2> QED
    BY <1>10, <2>1, <2>3
<1>11. ASSUME g # GroupMax PROVE e[k + g] = Run(g) /\ Len(e[k + g].open) = g
  BY <1>0, <1>4, <1>9, <1>11
<1>12. ASSUME g # GroupMax, k + g < n, s[k + g + 1] = 0
       PROVE  e[k + g + 1] = [out |-> written, open |-> <<>>]
  <2> DEFINE a == e[k + g]
  <2>1. k + g + 1 \in 1 .. n /\ (k + g + 1) - 1 = k + g /\ k + g \in 0 .. n /\ 0 \in Byte
    <3>1. 0 \in Byte
      BY BytesAre
    <3>2. k \in Nat /\ g \in Nat /\ n \in Nat
      BY <1>0
    <3>3. k + g + 1 \in 1 .. n /\ (k + g + 1) - 1 = k + g /\ k + g \in 0 .. n
      BY <1>12, <3>2
    <3> QED
      BY <3>1, <3>3
  <2>2. a \in EncodeState /\ e[k + g + 1] = EncodeByte(a, 0)
    BY <1>1, <1>12, <2>1
  <2>3. a = Run(g) /\ Len(a.open) = g
    BY <1>11, <1>12
  <2>4. EncodeByte(a, 0) = [out |-> Coded(a.out, Len(a.open), a.open), open |-> <<>>]
    BY <2>1, <2>2, EncodeByteIs
  <2> QED
    BY <2>2, <2>3, <2>4
<1>13. ASSUME g # GroupMax, k + g = n PROVE cobs_encode(s) = written
  <2>1. e[n] = Run(g) /\ Len(e[n].open) = g
    BY <1>11, <1>13
  <2>2. cobs_encode(s) = Coded(e[n].out, Len(e[n].open), e[n].open)
    BY DEF cobs_encode, e, Coded
  <2> QED
    BY <2>1, <2>2
<1> QED
  BY <1>10, <1>12, <1>13 DEF e, Part
(***************************************************************************)
(* Packets cut into groups                                                 *)
(***************************************************************************)
\* st says where the first n groups of p begin whose lengths g has, and where
\* the rest of p does.  A group has no zero; one follows, unless the group is a
\* longest one.
Starts(st, p, g, n) ==
  /\ st \in [1 .. n + 1 -> 0 .. Len(p)] /\ st[1] = 0
  /\ \A i \in 1 .. n :
       /\ g[i] \in 0 .. GroupMax
       /\ st[i + 1] = st[i] + g[i] + (IF g[i] = GroupMax THEN 0 ELSE 1)
       /\ \A k \in st[i] + 1 .. st[i] + g[i] : p[k] # 0
       /\ g[i] # GroupMax => p[st[i + 1]] = 0

\* What follows the groups is an open one.
Rest(st, p, n, len) ==
  /\ len \in 0 .. GroupMax - 1 /\ st[n + 1] + len = Len(p)
  /\ \A k \in st[n + 1] + 1 .. Len(p) : p[k] # 0

Grouped(p, g, n, len) ==
  \E st \in [1 .. n + 1 -> 0 .. Len(p)] : Starts(st, p, g, n) /\ Rest(st, p, n, len)

\* All of p, with the last group.
Cut(st, p, g) ==
  /\ Len(g) > 0
  /\ Starts(st, p, g, Len(g) - 1) /\ Rest(st, p, Len(g) - 1, g[Len(g)])

GroupOf(st, p, g, i) == SubSeq(p, st[i] + 1, st[i] + g[i])

LEMMA StartsAre ==
  ASSUME NEW p \in Seq(Byte), NEW g, NEW n \in Nat, NEW st, Starts(st, p, g, n),
         NEW i \in 1 .. n
  PROVE  /\ i + 1 \in 1 .. n + 1 /\ i \in 1 .. n + 1
         /\ st[i] \in Nat /\ st[i + 1] \in Nat /\ g[i] \in 0 .. GroupMax /\ g[i] \in Nat
         /\ st[i] + g[i] <= Len(p)
         /\ g[i] = GroupMax => st[i + 1] = st[i] + g[i]
         /\ g[i] # GroupMax =>
              st[i + 1] = st[i] + g[i] + 1 /\ st[i] + g[i] < Len(p) /\ p[st[i] + g[i] + 1] = 0
         /\ \A k \in st[i] + 1 .. st[i] + g[i] : p[k] # 0
<1>1. i + 1 \in 1 .. n + 1 /\ i \in 1 .. n + 1 /\ Len(p) \in Nat /\ GroupMax \in Nat
  BY LenProperties, BytesAre
<1>2. st[i] \in 0 .. Len(p) /\ st[i + 1] \in 0 .. Len(p)
  BY <1>1 DEF Starts
<1>3. /\ g[i] \in 0 .. GroupMax
      /\ st[i + 1] = st[i] + g[i] + (IF g[i] = GroupMax THEN 0 ELSE 1)
      /\ \A k \in st[i] + 1 .. st[i] + g[i] : p[k] # 0
      /\ g[i] # GroupMax => p[st[i + 1]] = 0
  BY DEF Starts
<1> QED
  BY <1>1, <1>2, <1>3

LEMMA StateParts == \A x, c : x = [out |-> c, open |-> <<>>] => x.out = c /\ x.open = <<>>
  OBVIOUS

\* Where a group begins, the encoder has none open, and has written the groups
\* before.
LEMMA StartsEncode ==
  ASSUME NEW p \in Seq(Byte), NEW g, NEW n \in Nat, NEW st, Starts(st, p, g, n)
  PROVE  /\ Encoding(p)[0].out = <<>> /\ st[1] = 0
         /\ \A i \in 1 .. n + 1 : Encoding(p)[st[i]].open = <<>> /\ st[i] \in 0 .. Len(p)
         /\ \A i \in 1 .. n : Encoding(p)[st[i + 1]].out =
              Coded(Encoding(p)[st[i]].out, g[i], GroupOf(st, p, g, i))
<1> DEFINE e == Encoding(p)
<1>0. Len(p) \in Nat /\ \A i \in 1 .. n + 1 : st[i] \in 0 .. Len(p)
  BY LenProperties DEF Starts
<1>1. e[0] = [out |-> <<>>, open |-> <<>>] /\ st[1] = 0
  BY EncodingIs DEF Starts
<1>2. ASSUME NEW i \in 1 .. n, e[st[i]].open = <<>>
      PROVE  e[st[i + 1]] = [out |-> Coded(e[st[i]].out, g[i], GroupOf(st, p, g, i)), open |-> <<>>]
  <2> DEFINE k == st[i]
             q == g[i]
  <2>1. /\ k \in Nat /\ q \in 0 .. GroupMax /\ k + q <= Len(p)
        /\ q = GroupMax => st[i + 1] = k + q
        /\ q # GroupMax => st[i + 1] = k + q + 1 /\ k + q < Len(p) /\ p[k + q + 1] = 0
        /\ \A j \in k + 1 .. k + q : p[j] # 0
    BY StartsAre
  <2>2. Encoding(p)[k].open = <<>>
    BY <1>2
  <2> DEFINE written == Coded(e[k].out, q, SubSeq(p, k + 1, k + q))
  <2>3. written = Coded(e[st[i]].out, g[i], GroupOf(st, p, g, i))
    BY DEF GroupOf
  <2> HIDE DEF k, q
  <2>4. /\ q = GroupMax => e[k + q] = [out |-> written, open |-> <<>>]
        /\ q # GroupMax /\ k + q < Len(p) /\ p[k + q + 1] = 0 =>
             e[k + q + 1] = [out |-> written, open |-> <<>>]
    BY <2>1, <2>2, GroupRuns
  <2> HIDE DEF e, written
  <2>5. e[st[i + 1]] = [out |-> written, open |-> <<>>]
    BY <2>1, <2>4
  <2> QED
    BY <2>3, <2>5
<1> HIDE DEF e
<1> DEFINE T == {i \in Nat : e[st[i]].open = <<>>}
<1>3. ASSUME NEW m \in 1 .. n + 1 PROVE e[st[m]].open = <<>>
  <2>1. 1 \in T /\ T \in SUBSET Nat /\ 1 \in Nat /\ 1 <= m /\ m \in Nat
    BY <1>1
  <2>2. ASSUME NEW j \in Nat, 1 <= j, j < m, j \in T PROVE j + 1 \in T
    <3>1. j \in 1 .. n /\ e[st[j]].open = <<>> /\ j + 1 \in Nat
      BY <2>2
    <3>2. e[st[j + 1]] =
            [out |-> Coded(e[st[j]].out, g[j], GroupOf(st, p, g, j)), open |-> <<>>]
      BY <1>2, <3>1
    <3>3. e[st[j + 1]].open = <<>>
      BY <3>2, StateParts, Zenon
    <3> QED
      BY <3>1, <3>3
  <2> HIDE DEF T
  <2>3. m \in T
    BY <2>1, <2>2, UpTo
  <2> QED
    BY <2>3 DEF T
<1>4. ASSUME NEW i \in 1 .. n
      PROVE  e[st[i + 1]].out = Coded(e[st[i]].out, g[i], GroupOf(st, p, g, i))
  <2>1. i \in 1 .. n + 1
    OBVIOUS
  <2>2. e[st[i + 1]] = [out |-> Coded(e[st[i]].out, g[i], GroupOf(st, p, g, i)), open |-> <<>>]
    BY <1>2, <1>3, <2>1
  <2> QED
    BY <2>2
<1> QED
  BY <1>0, <1>1, <1>3, <1>4 DEF e

\* The same to the end of a cut packet.
LEMMA CutEncodes ==
  ASSUME NEW p \in Seq(Byte), NEW g \in Seq(0 .. GroupMax), NEW st, Cut(st, p, g)
  PROVE  /\ Len(g) \in Nat \ {0}
         /\ \A i \in 1 .. Len(g) :
              /\ st[i] \in Nat /\ g[i] \in 0 .. GroupMax /\ st[i] + g[i] <= Len(p)
              /\ Encoding(p)[st[i]].out \in Seq(NonZero)
              /\ GroupOf(st, p, g, i) \in Seq(NonZero) /\ Len(GroupOf(st, p, g, i)) = g[i]
              /\ \A j \in 1 .. g[i] : GroupOf(st, p, g, i)[j] = p[st[i] + j]
         /\ cobs_encode(p) = Coded(Encoding(p)[st[Len(g)]].out, g[Len(g)], GroupOf(st, p, g, Len(g)))
         /\ st[Len(g)] + g[Len(g)] = Len(p) /\ g[Len(g)] < GroupMax
<1> DEFINE n == Len(g)
           e == Encoding(p)
<1>0. n \in Nat \ {0} /\ n - 1 \in Nat /\ (n - 1) + 1 = n /\ Len(p) \in Nat /\ GroupMax \in Nat
      /\ \A i \in 1 .. Len(p) : p[i] \in Byte
  BY LenProperties, ElementOfSeq, BytesAre DEF Cut
<1>1. Starts(st, p, g, n - 1) /\ Rest(st, p, n - 1, g[n])
  BY DEF Cut
<1> HIDE DEF n
<1>2. /\ \A i \in 1 .. n : e[st[i]].open = <<>> /\ st[i] \in 0 .. Len(p)
  BY <1>0, <1>1, StartsEncode
<1>3. g[n] \in 0 .. GroupMax - 1 /\ st[n] + g[n] = Len(p) /\ \A k \in st[n] + 1 .. Len(p) : p[k] # 0
  BY <1>0, <1>1 DEF Rest
<1>4. ASSUME NEW i \in 1 .. n
      PROVE  /\ st[i] \in Nat /\ g[i] \in 0 .. GroupMax /\ g[i] \in Nat /\ st[i] + g[i] <= Len(p)
             /\ \A k \in st[i] + 1 .. st[i] + g[i] : p[k] # 0
  <2>1. CASE i = n
    <3>1. st[n] \in 0 .. Len(p)
      BY <1>0, <1>2
    <3>2. st[n] \in Nat /\ g[n] \in 0 .. GroupMax /\ g[n] \in Nat /\ st[n] + g[n] <= Len(p)
      BY <1>0, <1>3, <3>1
    <3>3. \A k \in st[n] + 1 .. st[n] + g[n] : p[k] # 0
      BY <1>3
    <3> QED
      BY <2>1, <3>2, <3>3
  <2>2. CASE i # n
    <3>1. i \in 1 .. n - 1
      BY <1>0, <2>2
    <3> QED
      BY <1>0, <1>1, <3>1, StartsAre
  <2> QED
    BY <2>1, <2>2
<1>5. ASSUME NEW i \in 1 .. n
      PROVE  /\ GroupOf(st, p, g, i) \in Seq(NonZero) /\ Len(GroupOf(st, p, g, i)) = g[i]
             /\ \A j \in 1 .. g[i] : GroupOf(st, p, g, i)[j] = p[st[i] + j]
  <2> DEFINE k == st[i]
             q == g[i]
  <2>1. k \in Nat /\ q \in Nat /\ \A j \in k + 1 .. k + q : p[j] \in NonZero
    <3>1. k \in Nat /\ q \in Nat /\ k + q <= Len(p) /\ \A j \in k + 1 .. k + q : p[j] # 0
      BY <1>4
    <3>2. \A j \in k + 1 .. k + q : j \in 1 .. Len(p)
      BY <1>0, <3>1
    <3> QED
      BY <1>0, <3>1, <3>2, NonZeroAre
  <2> HIDE DEF k, q
  <2>2. /\ SubSeq(p, k + 1, k + q) \in Seq(NonZero) /\ Len(SubSeq(p, k + 1, k + q)) = q
        /\ \A j \in 1 .. q : SubSeq(p, k + 1, k + q)[j] = p[k + j]
    BY <2>1, Window
  <2> QED
    BY <2>2 DEF k, q, GroupOf
<1>6. ASSUME NEW i \in 1 .. n PROVE e[st[i]].out \in Seq(NonZero)
  <2>1. e[st[i]] \in EncodeState
    BY <1>2, EncodingIs
  <2> QED
    BY <2>1 DEF EncodeState
<1>7. cobs_encode(p) = Coded(e[st[n]].out, g[n], GroupOf(st, p, g, n))
  <2> DEFINE k == st[n]
             q == g[n]
  <2>1. /\ k \in Nat /\ q \in 0 .. GroupMax /\ k + q <= Len(p) /\ k + q = Len(p) /\ q # GroupMax
        /\ Encoding(p)[k].open = <<>> /\ \A j \in k + 1 .. k + q : p[j] # 0
    BY <1>0, <1>2, <1>3
  <2> HIDE DEF k, q
  <2>2. cobs_encode(p) = Coded(Encoding(p)[k].out, q, SubSeq(p, k + 1, k + q))
    BY <2>1, GroupRuns
  <2> QED
    BY <2>2 DEF k, q, GroupOf
<1> QED
  BY <1>0, <1>3, <1>4, <1>5, <1>6, <1>7 DEF n
(***************************************************************************)
(* Decoding                                                                *)
(***************************************************************************)
Joined(w, a, b) == w = a \o b

\* Where the code and the bytes of a group are in what contains it.
LEMMA CodedAt ==
  ASSUME NEW out \in Seq(NonZero), NEW n \in 0 .. GroupMax, NEW bytes \in Seq(NonZero),
         NEW x \in Seq(NonZero), NEW w, Joined(w, Coded(out, n, bytes), x)
  PROVE  /\ w \in Seq(NonZero) /\ Len(w) = Len(out) + 1 + Len(bytes) + Len(x)
         /\ w[Len(out) + 1] = n + 1
         /\ \A j \in 1 .. Len(bytes) : w[Len(out) + 1 + j] = bytes[j]
<1> DEFINE c == <<n + 1>> \o bytes
           d == out \o c
<1>1. Coded(out, n, bytes) = d /\ c \in Seq(NonZero) /\ d \in Seq(NonZero)
  BY CodedType, ConcatProperties
<1>2. <<n + 1>> \in Seq(NonZero) /\ Len(<<n + 1>>) = 1 /\ <<n + 1>>[1] = n + 1
  BY NonZeroAre
<1>3. /\ Len(c) = 1 + Len(bytes)
      /\ \A i \in 1 .. 1 + Len(bytes) : c[i] = IF i <= 1 THEN <<n + 1>>[i] ELSE bytes[i - 1]
  BY <1>2, ConcatProperties
<1> HIDE DEF c
<1>4. /\ Len(d) = Len(out) + Len(c)
      /\ \A i \in 1 .. Len(out) + Len(c) : d[i] = IF i <= Len(out) THEN out[i] ELSE c[i - Len(out)]
  BY <1>1, ConcatProperties
<1> HIDE DEF d
<1>5. /\ w \in Seq(NonZero) /\ Len(w) = Len(d) + Len(x)
      /\ \A i \in 1 .. Len(d) + Len(x) : w[i] = IF i <= Len(d) THEN d[i] ELSE x[i - Len(d)]
  BY <1>1, ConcatProperties DEF Joined
<1>6. Len(out) \in Nat /\ Len(bytes) \in Nat /\ Len(x) \in Nat
  BY LenProperties
<1>7. ASSUME NEW i \in 1 .. Len(c) PROVE w[Len(out) + i] = c[i]
  <2>1. Len(out) + i \in 1 .. Len(out) + Len(c) /\ ~(Len(out) + i <= Len(out)) /\ (Len(out) + i) - Len(out) = i
    BY <1>3, <1>6
  <2>2. Len(out) + i \in 1 .. Len(d) + Len(x) /\ Len(out) + i <= Len(d)
    BY <1>3, <1>4, <1>6, <2>1
  <2>3. d[Len(out) + i] = c[i]
    BY <1>4, <2>1
  <2> QED
    BY <1>5, <2>2, <2>3
<1>8. w[Len(out) + 1] = n + 1
  <2>1. 1 \in 1 .. Len(c) /\ 1 \in 1 .. 1 + Len(bytes)
    BY <1>3, <1>6
  <2>2. c[1] = IF 1 <= 1 THEN <<n + 1>>[1] ELSE bytes[1 - 1]
    BY <1>3, <2>1
  <2>3. c[1] = n + 1
    BY <1>2, <2>2
  <2> QED
    BY <1>7, <2>1, <2>3
<1>9. ASSUME NEW j \in 1 .. Len(bytes) PROVE w[Len(out) + 1 + j] = bytes[j]
  <2>1. /\ j + 1 \in 1 .. Len(c) /\ j + 1 \in 1 .. 1 + Len(bytes) /\ ~(j + 1 <= 1) /\ (j + 1) - 1 = j
        /\ Len(out) + 1 + j = Len(out) + (j + 1)
    BY <1>3, <1>6
  <2> QED
    BY <1>3, <1>7, <2>1
<1>10. Len(w) = Len(out) + 1 + Len(bytes) + Len(x)
  BY <1>3, <1>4, <1>5, <1>6
<1> QED
  BY <1>5, <1>8, <1>9, <1>10

\* What is decoded, with the zero that is due, is the beginning of p.
Pending(a) == IF a.zero THEN Append(a.out, 0) ELSE a.out
GroupDecoded(a, p, c, q) == a = [out |-> SubSeq(p, 1, c), left |-> 0, zero |-> q < GroupMax]
DecodedTo(a, p, c) == a.left = 0 /\ Pending(a) = SubSeq(p, 1, c)

LEMMA DecodesGroup ==
  ASSUME NEW w \in Seq(NonZero), NEW p \in Seq(Byte), NEW h,
         \A i \in 1 .. Len(w) : h[i] = DecodeByte(h[i - 1], w[i]),
         NEW m \in Nat, NEW c \in Nat, NEW q \in 0 .. GroupMax,
         m + 1 + q <= Len(w), c + q <= Len(p),
         w[m + 1] = q + 1, \A j \in 1 .. q : w[m + 1 + j] = p[c + j],
         DecodedTo(h[m], p, c)
  PROVE  GroupDecoded(h[m + 1 + q], p, c + q, q)
<1> DEFINE Step(j) == [out |-> SubSeq(p, 1, c + j), left |-> q - j, zero |-> q < GroupMax]
<1>0. Len(w) \in Nat /\ Len(p) \in Nat /\ GroupMax \in Nat /\ q \in Nat
      /\ \A i \in 1 .. Len(p) : p[i] \in Byte
  BY LenProperties, ElementOfSeq, BytesAre
<1>1. h[m + 1] = Step(0)
  <2>1. m + 1 \in 1 .. Len(w) /\ (m + 1) - 1 = m
    BY <1>0
  <2>2. h[m + 1] = DecodeByte(h[m], q + 1)
    BY <2>1
  <2>5. h[m].left = 0 /\ Pending(h[m]) = SubSeq(p, 1, c)
    BY DEF DecodedTo
  <2>3. DecodeByte(h[m], q + 1) = [out |-> Pending(h[m]), left |-> (q + 1) - 1, zero |-> q + 1 < Bytes - 1]
    BY <2>5 DEF DecodeByte, Pending
  <2>4. (q + 1) - 1 = q - 0 /\ (q + 1 < Bytes - 1 <=> q < GroupMax) /\ c + 0 = c
    BY <1>0, NonZeroAre
  <2> DEFINE o == SubSeq(p, 1, c)
  <2>6. Pending(h[m]) = o
    BY <2>5
  <2>7. DecodeByte(h[m], q + 1) = [out |-> o, left |-> (q + 1) - 1, zero |-> q + 1 < Bytes - 1]
    BY <2>3, <2>6, Zenon
  <2>8. Step(0) = [out |-> o, left |-> (q + 1) - 1, zero |-> q + 1 < Bytes - 1]
    <3>1. (q + 1 < Bytes - 1) = (q < GroupMax)
      BY <1>0, NonZeroAre
    <3>2. Step(0) = [out |-> SubSeq(p, 1, c + 0), left |-> q - 0, zero |-> q < GroupMax]
      OBVIOUS
    <3>3. SubSeq(p, 1, c + 0) = o
      BY <2>4
    <3> HIDE DEF Step, o
    <3> QED
      BY <2>4, <3>1, <3>2, <3>3, Zenon
  <2> QED
    BY <2>2, <2>7, <2>8, Zenon
<1>2. ASSUME NEW j \in Nat, j < q, h[m + 1 + j] = Step(j) PROVE h[m + 1 + (j + 1)] = Step(j + 1)
  <2> DEFINE a == h[m + 1 + j]
             b == p[c + j + 1]
  <2>1. /\ m + 1 + (j + 1) \in 1 .. Len(w) /\ (m + 1 + (j + 1)) - 1 = m + 1 + j
        /\ j + 1 \in 1 .. q /\ c + (j + 1) = c + j + 1
    <3> DEFINE l == Len(w)
    <3>1. /\ m \in Nat /\ j \in Nat /\ q \in Nat /\ c \in Nat /\ l \in Nat
          /\ (m + 1) + q <= l
      BY <1>0
    <3>2. j < q
      BY <1>2
    <3> HIDE DEF l
    <3>3. /\ m + 1 + (j + 1) \in 1 .. l /\ (m + 1 + (j + 1)) - 1 = m + 1 + j
          /\ j + 1 \in 1 .. q /\ c + (j + 1) = c + j + 1
      BY <3>1, <3>2
    <3> QED
      BY <3>3 DEF l
  <2>2. h[m + 1 + (j + 1)] = DecodeByte(a, w[m + 1 + (j + 1)])
    BY <2>1
  <2>3. w[m + 1 + (j + 1)] = b
    BY <2>1
  <2>4. a.left # 0 /\ a.left - 1 = q - (j + 1)
    BY <1>0, <1>2
  <2>5. a = [out |-> SubSeq(p, 1, c + j), left |-> q - j, zero |-> q < GroupMax]
    BY <1>2
  <2> HIDE DEF a, b
  <2>6. DecodeByte(a, b) = [out |-> Append(SubSeq(p, 1, c + j), b), left |-> (q - j) - 1, zero |-> q < GroupMax]
    <3>1. DecodeByte(a, b) = [a EXCEPT !.out = Append(@, b), !.left = @ - 1]
      BY <2>4 DEF DecodeByte
    <3> QED
      BY <2>5, <3>1
  <2>7. SubSeq(p, 1, c + (j + 1)) = Append(SubSeq(p, 1, c + j), b)
    <3>1. /\ \A i \in 0 + 1 .. 0 + (c + j) + 1 : p[i] \in Byte
          /\ c + j \in Nat /\ 0 + 1 = 1 /\ 0 + (c + j) = c + j /\ 0 + (c + j) + 1 = c + j + 1
      BY <1>0, <1>2
    <3>2. SubSeq(p, 0 + 1, 0 + (c + j) + 1) = Append(SubSeq(p, 0 + 1, 0 + (c + j)), p[0 + (c + j) + 1])
      BY <3>1, WindowGrows
    <3> QED
      BY <2>1, <3>1, <3>2 DEF b
  <2>8. (q - j) - 1 = q - (j + 1)
    BY <1>0
  <2> QED
    BY <2>2, <2>3, <2>6, <2>7, <2>8
<1> DEFINE T == {j \in Nat : h[m + 1 + j] = Step(j)}
<1>3. 0 \in T /\ T \in SUBSET Nat /\ 0 \in Nat /\ 0 <= q
  <2>1. m + 1 + 0 = m + 1
    OBVIOUS
  <2> QED
    BY <1>0, <1>1, <2>1
<1>4. ASSUME NEW j \in Nat, j < q, j \in T PROVE j + 1 \in T
  <2>1. h[m + 1 + j] = Step(j)
    BY <1>4
  <2>2. h[m + 1 + (j + 1)] = Step(j + 1) /\ j + 1 \in Nat
    <3> HIDE DEF Step, T
    <3> QED
      BY <1>2, <1>4, <2>1
  <2> QED
    BY <2>2
<1> HIDE DEF T
<1>5. q \in T
  BY <1>0, <1>3, <1>4, UpTo
<1>6. h[m + 1 + q] = Step(q) /\ q - q = 0
  BY <1>0, <1>5 DEF T
<1> QED
  BY <1>6 DEF GroupDecoded

\* The host gets back what was cut up.
LEMMA Decodes ==
  ASSUME NEW p \in Seq(Byte), NEW g \in Seq(0 .. GroupMax), NEW st, Cut(st, p, g)
  PROVE  cobs_decode(cobs_encode(p)) = p
<1> DEFINE n == Len(g)
           e == Encoding(p)
           w == cobs_encode(p)
           At2(i) == Len(e[st[i]].out)
<1>0. /\ n \in Nat \ {0} /\ n - 1 \in Nat /\ (n - 1) + 1 = n /\ Len(p) \in Nat
      /\ \A k \in 1 .. Len(p) : p[k] \in Byte
  BY CutEncodes, LenProperties, ElementOfSeq
<1>1. /\ \A i \in 1 .. n :
           /\ st[i] \in Nat /\ g[i] \in 0 .. GroupMax /\ st[i] + g[i] <= Len(p)
           /\ e[st[i]].out \in Seq(NonZero)
           /\ GroupOf(st, p, g, i) \in Seq(NonZero) /\ Len(GroupOf(st, p, g, i)) = g[i]
           /\ \A j \in 1 .. g[i] : GroupOf(st, p, g, i)[j] = p[st[i] + j]
      /\ w = Coded(e[st[n]].out, g[n], GroupOf(st, p, g, n))
      /\ st[n] + g[n] = Len(p) /\ g[n] < GroupMax
  BY CutEncodes
<1>2. Starts(st, p, g, n - 1)
  BY DEF Cut
<1>3. /\ e[0].out = <<>> /\ st[1] = 0
      /\ \A i \in 1 .. n - 1 : e[st[i + 1]].out = Coded(e[st[i]].out, g[i], GroupOf(st, p, g, i))
  <2> DEFINE m == n - 1
  <2>1. m \in Nat /\ Starts(st, p, g, m)
    BY <1>0, <1>2
  <2> HIDE DEF m
  <2>2. /\ Encoding(p)[0].out = <<>> /\ st[1] = 0
        /\ \A i \in 1 .. m : Encoding(p)[st[i + 1]].out =
             Coded(Encoding(p)[st[i]].out, g[i], GroupOf(st, p, g, i))
    BY <2>1, StartsEncode
  <2> QED
    BY <2>2 DEF m
<1>4. w \in Seq(NonZero) /\ \A i \in 1 .. n : \E x \in Seq(NonZero) : w = e[st[i]].out \o x
  <2>1. ASSUME NEW i \in 1 .. n
        PROVE  w \in Seq(NonZero) /\ \E x \in Seq(NonZero) : w = e[st[i]].out \o x
    <3>1. st[i] \in 0 .. Len(p)
      BY <1>0, <1>1
    <3> QED
      BY <3>1, OutGrows
  <2>2. n \in 1 .. n
    BY <1>0
  <2> QED
    BY <2>1, <2>2
<1>5. PICK h : /\ h[0] = [out |-> <<>>, left |-> 0, zero |-> FALSE]
               /\ \A k \in 1 .. Len(w) : h[k] = DecodeByte(h[k - 1], w[k])
               /\ \A k \in 0 .. Len(w) : h[k] \in DecodeState
               /\ cobs_decode(w) = h[Len(w)].out
  BY <1>4, DecodingIs
<1> HIDE DEF n, e, w
\* Where a group is in the encoding.
<1>6. ASSUME NEW i \in 1 .. n
      PROVE  /\ At2(i) \in Nat /\ At2(i) + 1 + g[i] <= Len(w) /\ w[At2(i) + 1] = g[i] + 1
             /\ \A j \in 1 .. g[i] : w[At2(i) + 1 + j] = p[st[i] + j]
             /\ i # n => i + 1 \in 1 .. n /\ At2(i + 1) = At2(i) + 1 + g[i]
             /\ i = n => Len(w) = At2(i) + 1 + g[i]
  <2> DEFINE out == e[st[i]].out
             q == g[i]
             bytes == GroupOf(st, p, g, i)
             c == Coded(out, q, bytes)
  <2>1. /\ out \in Seq(NonZero) /\ q \in 0 .. GroupMax /\ bytes \in Seq(NonZero) /\ Len(bytes) = q
        /\ \A j \in 1 .. q : bytes[j] = p[st[i] + j]
    BY <1>1
  <2>2. At2(i) = Len(out)
    OBVIOUS
  <2>3. i # n => i \in 1 .. n - 1 /\ i + 1 \in 1 .. n
    BY <1>0
  <2>4. i # n => e[st[i + 1]].out = c
    BY <1>3, <2>3
  <2>5. i = n => w = c
    BY <1>1
  <2>6. \E x \in Seq(NonZero) : w = c \o x
    <3>1. CASE i = n
      <4>1. c \in Seq(NonZero)
        BY <1>4, <2>5, <3>1
      <4>2. c = c \o <<>> /\ <<>> \in Seq(NonZero)
        <5> HIDE DEF c
        <5> QED
          BY <4>1, ConcatEmptySeq
      <4> QED
        BY <2>5, <3>1, <4>2
    <3>2. CASE i # n
      BY <1>4, <2>3, <2>4, <3>2
    <3> QED
      BY <3>1, <3>2
  <2>7. Len(c) = Len(out) + 1 + Len(bytes)
    BY <2>1, CodedType
  <2> HIDE DEF out, q, bytes
  <2>8. PICK x \in Seq(NonZero) : w = Coded(out, q, bytes) \o x
    BY <2>6
  <2>9. /\ Len(w) = Len(out) + 1 + Len(bytes) + Len(x)
        /\ w[Len(out) + 1] = q + 1
        /\ \A j \in 1 .. Len(bytes) : w[Len(out) + 1 + j] = bytes[j]
    <3>0. out \in Seq(NonZero) /\ q \in 0 .. GroupMax /\ bytes \in Seq(NonZero)
      BY <2>1
    <3>1. Joined(w, Coded(out, q, bytes), x)
      BY <2>8 DEF Joined
    <3>2. Len(w) = Len(out) + 1 + Len(bytes) + Len(x)
      BY <3>0, <3>1, CodedAt
    <3>3. w[Len(out) + 1] = q + 1
      BY <3>0, <3>1, CodedAt
    <3>4. \A j \in 1 .. Len(bytes) : w[Len(out) + 1 + j] = bytes[j]
      BY <3>0, <3>1, CodedAt
    <3> QED
      BY <3>2, <3>3, <3>4
  <2>10. Len(out) \in Nat /\ Len(x) \in Nat /\ q \in Nat
    BY <2>1, LenProperties
  <2>11. Len(out) + 1 + q <= Len(w)
    BY <2>1, <2>9, <2>10
  <2>12. \A j \in 1 .. q : w[Len(out) + 1 + j] = p[st[i] + j]
    BY <2>1, <2>9
  <2>13. i # n => At2(i + 1) = Len(out) + 1 + q
    BY <2>1, <2>4, <2>7
  <2>14. i = n => Len(w) = Len(out) + 1 + q
    BY <2>1, <2>5, <2>7
  <2> HIDE DEF c
  <2>15. At2(i) = Len(out)
    BY DEF out
  <2> HIDE DEF At2
  <2> QED
    BY <2>3, <2>9, <2>10, <2>11, <2>12, <2>13, <2>14, <2>15 DEF q
<1> HIDE DEF At2
\* A group is decoded from where it begins to where it ends.
<1>7. ASSUME NEW i \in 1 .. n, DecodedTo(h[At2(i)], p, st[i])
      PROVE  GroupDecoded(h[At2(i) + 1 + g[i]], p, st[i] + g[i], g[i])
  <2> DEFINE m == At2(i)
             c == st[i]
             q == g[i]
  <2>1. /\ m \in Nat /\ m + 1 + q <= Len(w) /\ w[m + 1] = q + 1
        /\ \A j \in 1 .. q : w[m + 1 + j] = p[c + j]
        /\ c \in Nat /\ q \in 0 .. GroupMax /\ c + q <= Len(p)
        /\ DecodedTo(h[m], p, c)
    BY <1>1, <1>6, <1>7
  <2> HIDE DEF m, c, q
  <2>2. \A k \in 1 .. Len(w) : h[k] = DecodeByte(h[k - 1], w[k])
    BY <1>5
  <2>3. GroupDecoded(h[m + 1 + q], p, c + q, q)
    BY <1>4, <2>1, <2>2, DecodesGroup
  <2> QED
    BY <2>3 DEF m, c, q
<1> DEFINE Good(i) == DecodedTo(h[At2(i)], p, st[i])
<1>8. Good(1)
  <2>1. At2(1) = 0 /\ st[1] = 0
    BY <1>3 DEF At2
  <2>2. h[0].left = 0 /\ Pending(h[0]) = <<>>
    BY <1>5 DEF Pending
  <2>3. SubSeq(p, 1, 0) = <<>>
    BY SubSeqEmpty
  <2> QED
    BY <2>1, <2>2, <2>3 DEF DecodedTo
<1>9. ASSUME NEW i \in 1 .. n - 1, Good(i) PROVE Good(i + 1)
  <2> DEFINE c == st[i]
             q == g[i]
             a == h[At2(i + 1)]
  <2>0. i \in 1 .. n /\ i # n
    BY <1>0
  <2>1. a = [out |-> SubSeq(p, 1, c + q), left |-> 0, zero |-> q < GroupMax]
    BY <1>6, <1>7, <1>9, <2>0 DEF GroupDecoded
  <2>2. /\ c \in Nat /\ q \in Nat /\ q <= GroupMax /\ GroupMax \in Nat
        /\ q = GroupMax => st[i + 1] = c + q
        /\ q # GroupMax => st[i + 1] = c + q + 1 /\ c + q < Len(p) /\ p[c + q + 1] = 0
    BY <1>0, <1>2, StartsAre, BytesAre
  <2> HIDE DEF a, c, q
  <2>3. a.left = 0 /\ a.out = SubSeq(p, 1, c + q) /\ a.zero = (q < GroupMax)
    BY <2>1
  <2>4. Pending(a) = SubSeq(p, 1, st[i + 1])
    <3>1. CASE q = GroupMax
      <4>1. ~(q < GroupMax)
        BY <2>2, <3>1
      <4>2. ~a.zero
        BY <2>3, <4>1, Zenon
      <4> QED
        BY <2>2, <2>3, <3>1, <4>2 DEF Pending
    <3>2. CASE q # GroupMax
      <4>1. q < GroupMax
        BY <2>2, <3>2
      <4>2. /\ \A k \in 0 + 1 .. 0 + (c + q) + 1 : p[k] \in Byte
            /\ c + q \in Nat /\ 0 + 1 = 1 /\ 0 + (c + q) = c + q /\ 0 + (c + q) + 1 = c + q + 1
        BY <1>0, <2>2, <3>2
      <4>3. SubSeq(p, 0 + 1, 0 + (c + q) + 1) = Append(SubSeq(p, 0 + 1, 0 + (c + q)), p[0 + (c + q) + 1])
        BY <4>2, WindowGrows
      <4>4. SubSeq(p, 1, c + q + 1) = Append(SubSeq(p, 1, c + q), 0)
        BY <2>2, <3>2, <4>2, <4>3
      <4>5. a.zero
        BY <2>3, <4>1, Zenon
      <4> QED
        BY <2>2, <2>3, <3>2, <4>4, <4>5 DEF Pending
    <3> QED
      BY <3>1, <3>2
  <2> QED
    BY <2>3, <2>4 DEF a, DecodedTo
<1> HIDE DEF Good
<1> DEFINE T == {i \in Nat : Good(i)}
<1>10. 1 \in T /\ T \in SUBSET Nat /\ 1 \in Nat /\ 1 <= n /\ n \in Nat
  BY <1>0, <1>8
<1>11. ASSUME NEW j \in Nat, 1 <= j, j < n, j \in T PROVE j + 1 \in T
  <2>1. j \in 1 .. n - 1 /\ j + 1 \in Nat /\ Good(j)
    BY <1>0, <1>11
  <2> QED
    BY <1>9, <2>1
<1> HIDE DEF T
<1>12. n \in T
  BY <1>10, <1>11, UpTo
<1>13. Good(n) /\ n \in 1 .. n
  BY <1>0, <1>12 DEF T
<1>14. h[At2(n) + 1 + g[n]] = [out |-> SubSeq(p, 1, st[n] + g[n]), left |-> 0, zero |-> g[n] < GroupMax]
  BY <1>7, <1>13 DEF Good, GroupDecoded
<1>15. Len(w) = At2(n) + 1 + g[n]
  BY <1>6, <1>13
<1>16. h[Len(w)].out = SubSeq(p, 1, Len(p))
  BY <1>1, <1>14, <1>15
<1> QED
  BY <1>5, <1>16, SubSeqFull DEF w
(***************************************************************************)
(* Frames                                                                  *)
(***************************************************************************)
\* Channel, payload and the checksum of them.
Summed(p) == Len(p) \in 3 .. MaxPayload + 2 /\ p[Len(p)] = Minus(0, SumOf(Front(p)))

LEMMA FrontAppend ==
  ASSUME NEW S, NEW s \in Seq(S), NEW v \in S
  PROVE  Front(Append(s, v)) = s
<1> DEFINE t == Append(s, v)
           n == Len(s)
<1>1. /\ t \in Seq(S) /\ Len(t) = n + 1 /\ n \in Nat
      /\ \A i \in 1 .. n : t[i] = s[i]
  BY AppendProperties, LenProperties
<1> HIDE DEF t, n
<1>2. \A i \in 1 .. n : s[i] \in S
  BY ElementOfSeq DEF n
<1>3. /\ \A i \in 0 + 1 .. 0 + n : t[i] \in S
      /\ 0 + 1 = 1 /\ 0 + n = n
  BY <1>1, <1>2
<1>4. /\ SubSeq(t, 0 + 1, 0 + n) \in Seq(S) /\ Len(SubSeq(t, 0 + 1, 0 + n)) = n
      /\ \A i \in 1 .. n : SubSeq(t, 0 + 1, 0 + n)[i] = t[0 + i]
  BY <1>1, <1>3, Window
<1> DEFINE f == SubSeq(t, 1, n)
<1>5. f \in Seq(S) /\ Len(f) = n /\ \A i \in 1 .. n : f[i] = s[i]
  <2>1. \A i \in 1 .. n : 0 + i = i
    BY <1>1
  <2> QED
    BY <1>1, <1>3, <1>4, <2>1
<1> HIDE DEF f
<1>6. f = s
  BY <1>5, SeqEqual DEF n
<1>7. Len(t) - 1 = n
  BY <1>1
<1> QED
  BY <1>6, <1>7 DEF Front, f, t

\* A sequence is its beginning and its last element.
LEMMA FrontLast ==
  ASSUME NEW S, NEW s \in Seq(S), s # <<>>
  PROVE  /\ Front(s) \in Seq(S) /\ Len(Front(s)) = Len(s) - 1 /\ s[Len(s)] \in S
         /\ s = Append(Front(s), s[Len(s)])
<1>1. PICK t \in Seq(S), v \in S : s = Append(t, v)
  BY SequenceEmptyOrAppend
<1>2. Len(s) = Len(t) + 1 /\ s[Len(t) + 1] = v /\ Len(t) \in Nat
  BY <1>1, AppendProperties, LenProperties
<1>3. Front(s) = t
  BY <1>1, FrontAppend
<1>4. Len(t) = Len(s) - 1
  BY <1>2
<1> QED
  BY <1>1, <1>2, <1>3, <1>4

LEMMA SummedIs ==
  ASSUME NEW p \in Seq(Byte), Summed(p)
  PROVE  /\ Len(p) \in Nat /\ Len(p) >= 3 /\ p # <<>>
         /\ Front(p) = <<p[1]>> \o SubSeq(p, 2, Len(p) - 1)
         /\ WithChecksum(Front(p)) = p /\ SumOf(p) = 0
<1>0. Len(p) \in Nat /\ Len(p) >= 3 /\ p[Len(p)] = Minus(0, SumOf(Front(p)))
  BY LenProperties, EncoderAssumption DEF Summed
<1>1. p # <<>>
  BY <1>0
<1>2. Front(p) \in Seq(Byte) /\ p[Len(p)] \in Byte /\ p = Append(Front(p), p[Len(p)])
  BY <1>1, FrontLast
<1>3. WithChecksum(Front(p)) = p
  BY <1>0, <1>2 DEF WithChecksum
<1>4. SumOf(p) = 0
  <2> DEFINE f == Front(p)
             c == Minus(0, SumOf(f))
  <2>1. f \in Seq(Byte) /\ c \in Byte /\ p = Append(f, c)
    BY <1>0, <1>2
  <2> HIDE DEF f
  <2>2. SumOf(f) \in Byte
    BY <2>1, SumAppend
  <2>3. (SumOf(f) + c) % Bytes = 0
    BY <2>2, MinusSum, BytesAre
  <2> HIDE DEF c
  <2>4. SumOf(Append(f, c)) = (SumOf(f) + c) % Bytes
    BY <2>1, SumAppend
  <2> QED
    BY <2>1, <2>3, <2>4
<1>5. SubSeq(p, 1, Len(p) - 1) = <<p[1]>> \o SubSeq(p, 1 + 1, Len(p) - 1)
  <2> DEFINE n == Len(p) - 1
  <2>1. 1 \in 1 .. Len(p) /\ n \in 1 .. Len(p)
    BY <1>0
  <2> HIDE DEF n
  <2>2. SubSeq(p, 1, n) = <<p[1]>> \o SubSeq(p, 1 + 1, n)
    BY <2>1, SubSeqRecursiveFirst
  <2> QED
    BY <2>2 DEF n
<1>6. 1 + 1 = 2
  OBVIOUS
<1>7. Front(p) = <<p[1]>> \o SubSeq(p, 2, Len(p) - 1)
  BY <1>5, <1>6 DEF Front
<1> QED
  BY <1>0, <1>1, <1>3, <1>4, <1>7

LEMMA FrameIs ==
  ASSUME NEW p \in Seq(Byte), Summed(p)
  PROVE  orbflow_frame(p[1], SubSeq(p, 2, Len(p) - 1)) = Append(cobs_encode(p), 0)
<1>1. WithChecksum(<<p[1]>> \o SubSeq(p, 2, Len(p) - 1)) = p
  <2> DEFINE f == Front(p)
             q == <<p[1]>> \o SubSeq(p, 2, Len(p) - 1)
  <2>1. f = q /\ WithChecksum(f) = p
    BY SummedIs
  <2> HIDE DEF f, q
  <2>2. WithChecksum(q) = p
    BY <2>1
  <2> QED
    BY <2>2 DEF q
<1> QED
  BY <1>1 DEF orbflow_frame

LEMMA UnframeIs ==
  ASSUME NEW p \in Seq(Byte), NEW g \in Seq(0 .. GroupMax), NEW st, Cut(st, p, g), Summed(p)
  PROVE  orbflow_unframe(Append(cobs_encode(p), 0)) = <<p[1], SubSeq(p, 2, Len(p) - 1)>>
<1> DEFINE w == cobs_encode(p)
<1>1. w \in Seq(Byte) /\ 0 \in Byte
  <2>1. 0 \in 0 .. Len(p)
    BY LenProperties
  <2>2. w \in Seq(NonZero)
    BY <2>1, OutGrows
  <2> QED
    <3>1. NonZero \subseteq Byte
      BY NonZeroAre
    <3> HIDE DEF w
    <3>2. w \in Seq(Byte)
      BY <2>2, <3>1, SeqMonotonic
    <3> QED
      BY <3>2, BytesAre
<1>2. cobs_decode(w) = p
  BY Decodes
<1> HIDE DEF w
<1>3. Front(Append(w, 0)) = w
  BY <1>1, FrontAppend
<1>4. Len(p) \in Nat /\ ~(Len(p) < 2) /\ SumOf(p) = 0
  <2>1. Len(p) \in Nat /\ Len(p) >= 3 /\ SumOf(p) = 0
    BY SummedIs
  <2> QED
    BY <2>1
<1>5. cobs_decode(Front(Append(w, 0))) = p
  BY <1>2, <1>3
<1>6. orbflow_unframe(Append(w, 0)) = <<p[1], SubSeq(p, 2, Len(p) - 1)>>
  BY <1>4, <1>5 DEF orbflow_unframe
<1> QED
  BY <1>6 DEF w
-----------------------------------------------------------------------------
(***************************************************************************)
(* Loading a bank                                                          *)
(***************************************************************************)
LEMMA WrittenIs ==
  ASSUME NEW S, NEW s \in Seq(S), NEW i \in 0 .. Len(s), NEW v \in S
  PROVE  /\ Written(s, i, v) \in Seq(S) /\ Len(Written(s, i, v)) = i + 1
         /\ \A j \in 1 .. i : Written(s, i, v)[j] = s[j]
         /\ Written(s, i, v)[i + 1] = v
         /\ i = Len(s) => Written(s, i, v) = Append(s, v)
         /\ i = 0 => Written(s, i, v) = <<v>>
<1> DEFINE t == SubSeq(s, 1, i)
<1>1. Len(s) \in Nat /\ i \in Nat /\ \A j \in 0 + 1 .. 0 + i : s[j] \in S
  BY LenProperties, ElementOfSeq
<1>2. /\ t \in Seq(S) /\ Len(t) = i /\ (\A j \in 1 .. i : t[j] = s[0 + j])
      /\ i = 0 => t = <<>>
  <2>1. 0 + 1 = 1 /\ 0 + i = i
    BY <1>1
  <2>2. /\ SubSeq(s, 0 + 1, 0 + i) \in Seq(S) /\ Len(SubSeq(s, 0 + 1, 0 + i)) = i
        /\ \A j \in 1 .. i : SubSeq(s, 0 + 1, 0 + i)[j] = s[0 + j]
        /\ i = 0 => SubSeq(s, 0 + 1, 0 + i) = <<>>
    BY <1>1, Window
  <2> QED
    BY <2>1, <2>2
<1>3. i = Len(s) => t = s
  BY SubSeqFull
<1> HIDE DEF t
<1>4. /\ Append(t, v) \in Seq(S) /\ Len(Append(t, v)) = i + 1
      /\ \A j \in 1 .. i : Append(t, v)[j] = t[j]
      /\ Append(t, v)[i + 1] = v
  BY <1>2, AppendProperties
<1>5. \A j \in 1 .. i : 0 + j = j
  BY <1>1
<1>6. Written(s, i, v) = Append(t, v)
  BY DEF Written, t
<1>7. i = 0 => Append(t, v) = <<v>>
  BY <1>2
<1>8. \A j \in 1 .. i : Append(t, v)[j] = s[j]
  BY <1>2, <1>4, <1>5
<1> QED
  BY <1>3, <1>4, <1>6, <1>7, <1>8

\* Another byte changes nothing in the groups before.
LEMMA StartsKept ==
  ASSUME NEW p \in Seq(Byte), NEW v \in Byte, NEW g, NEW h, NEW n \in Nat, NEW st,
         Starts(st, p, g, n), \A i \in 1 .. n : h[i] = g[i]
  PROVE  Starts(st, Append(p, v), h, n)
<1> DEFINE q == Append(p, v)
<1>1. /\ Len(q) = Len(p) + 1 /\ Len(p) \in Nat /\ \A i \in 1 .. Len(p) : q[i] = p[i]
  BY AppendProperties, LenProperties
<1> HIDE DEF q
<1>2. st \in [1 .. n + 1 -> 0 .. Len(q)] /\ st[1] = 0
  BY <1>1 DEF Starts
<1>3. ASSUME NEW i \in 1 .. n
      PROVE  /\ h[i] \in 0 .. GroupMax
             /\ st[i + 1] = st[i] + h[i] + (IF h[i] = GroupMax THEN 0 ELSE 1)
             /\ \A k \in st[i] + 1 .. st[i] + h[i] : q[k] # 0
             /\ h[i] # GroupMax => q[st[i + 1]] = 0
  <2>1. /\ st[i] \in Nat /\ g[i] \in Nat /\ g[i] \in 0 .. GroupMax /\ st[i] + g[i] <= Len(p)
        /\ g[i] # GroupMax =>
             st[i + 1] = st[i] + g[i] + 1 /\ st[i] + g[i] < Len(p) /\ p[st[i] + g[i] + 1] = 0
        /\ g[i] = GroupMax => st[i + 1] = st[i] + g[i]
        /\ \A k \in st[i] + 1 .. st[i] + g[i] : p[k] # 0
    BY StartsAre
  <2>2. h[i] = g[i]
    OBVIOUS
  <2>3. \A k \in st[i] + 1 .. st[i] + g[i] : k \in 1 .. Len(p)
    BY <1>1, <2>1
  <2>4. \A k \in st[i] + 1 .. st[i] + h[i] : q[k] # 0
    BY <1>1, <2>1, <2>2, <2>3
  <2>5. ASSUME h[i] # GroupMax PROVE q[st[i + 1]] = 0
    <3>1. st[i + 1] = st[i] + g[i] + 1 /\ st[i] + g[i] + 1 \in 1 .. Len(p) /\ p[st[i] + g[i] + 1] = 0
      <4> DEFINE a == st[i]
                 c == g[i]
      <4>1. a \in Nat /\ c \in Nat /\ c # GroupMax
        BY <2>1, <2>2, <2>5
      <4>2. st[i + 1] = a + c + 1 /\ a + c < Len(p) /\ p[a + c + 1] = 0
        BY <2>1, <4>1
      <4> HIDE DEF a, c
      <4>3. a + c + 1 \in 1 .. Len(p)
        BY <1>1, <4>1, <4>2
      <4> QED
        BY <4>2, <4>3 DEF a, c
    <3> QED
      BY <1>1, <3>1
  <2>6. st[i + 1] = st[i] + h[i] + (IF h[i] = GroupMax THEN 0 ELSE 1)
    BY <2>1, <2>2
  <2> QED
    BY <2>1, <2>2, <2>4, <2>5, <2>6
<1> QED
  BY <1>2, <1>3 DEF Starts, q

\* One more group ends where p does.
LEMMA StartsMore ==
  ASSUME NEW p \in Seq(Byte), NEW g, NEW n \in Nat, NEW st, Starts(st, p, g, n),
         g[n + 1] \in 0 .. GroupMax,
         Len(p) = st[n + 1] + g[n + 1] + (IF g[n + 1] = GroupMax THEN 0 ELSE 1),
         \A k \in st[n + 1] + 1 .. st[n + 1] + g[n + 1] : p[k] # 0,
         g[n + 1] # GroupMax => p[Len(p)] = 0
  PROVE  Grouped(p, g, n + 1, 0)
<1> DEFINE m == n + 1
           new == [i \in 1 .. m + 1 |-> IF i = m + 1 THEN Len(p) ELSE st[i]]
<1>1. Len(p) \in Nat /\ st \in [1 .. n + 1 -> 0 .. Len(p)] /\ st[1] = 0 /\ m \in Nat
  BY LenProperties DEF Starts
<1>2. new \in [1 .. m + 1 -> 0 .. Len(p)]
  BY <1>1
<1>3. /\ \A i \in 1 .. m : new[i] = st[i]
      /\ new[m + 1] = Len(p)
  BY <1>1
<1> HIDE DEF new
<1>4. ASSUME NEW i \in 1 .. m
      PROVE  /\ g[i] \in 0 .. GroupMax
             /\ new[i + 1] = new[i] + g[i] + (IF g[i] = GroupMax THEN 0 ELSE 1)
             /\ \A k \in new[i] + 1 .. new[i] + g[i] : p[k] # 0
             /\ g[i] # GroupMax => p[new[i + 1]] = 0
  <2>1. CASE i = m
    BY <1>1, <1>3, <2>1
  <2>2. CASE i # m
    <3>1. i \in 1 .. n /\ i + 1 \in 1 .. m
      BY <1>1, <2>2
    <3>2. new[i] = st[i] /\ new[i + 1] = st[i + 1]
      BY <1>3, <3>1
    <3>3. /\ g[i] \in 0 .. GroupMax
          /\ st[i + 1] = st[i] + g[i] + (IF g[i] = GroupMax THEN 0 ELSE 1)
          /\ \A k \in st[i] + 1 .. st[i] + g[i] : p[k] # 0
          /\ g[i] # GroupMax => p[st[i + 1]] = 0
      BY <3>1 DEF Starts
    <3> QED
      BY <3>2, <3>3
  <2> QED
    BY <2>1, <2>2
<1>5. Starts(new, p, g, m)
  <2>1. 1 \in 1 .. m
    BY <1>1
  <2> QED
    BY <1>1, <1>2, <1>3, <1>4, <2>1 DEF Starts
<1>6. Rest(new, p, m, 0)
  BY <1>1, <1>3, BytesAre DEF Rest
<1> QED
  BY <1>2, <1>5, <1>6 DEF Grouped

\* What AppendRaw does to the groups, and why: the lengths are those of the bytes.
LEMMA GroupedAppend ==
  ASSUME NEW p \in Seq(Byte), NEW g \in Seq(0 .. GroupMax), NEW n \in 0 .. Len(g),
         NEW len, Grouped(p, g, n, len), NEW v \in Byte
  PROVE  /\ v = 0 => Grouped(Append(p, v), Written(g, n, len), n + 1, 0)
         /\ v # 0 /\ len = GroupMax - 1 => Grouped(Append(p, v), Written(g, n, GroupMax), n + 1, 0)
         /\ v # 0 /\ len # GroupMax - 1 => Grouped(Append(p, v), g, n, len + 1)
<1> DEFINE q == Append(p, v)
<1>0. Len(p) \in Nat /\ Len(g) \in Nat /\ n \in Nat /\ GroupMax \in Nat \ {0}
  BY LenProperties, BytesAre
<1>1. /\ q \in Seq(Byte) /\ Len(q) = Len(p) + 1 /\ (\A i \in 1 .. Len(p) : q[i] = p[i])
      /\ q[Len(p) + 1] = v
  BY AppendProperties
<1>2. PICK st \in [1 .. n + 1 -> 0 .. Len(p)] : Starts(st, p, g, n) /\ Rest(st, p, n, len)
  BY DEF Grouped
<1>3. /\ len \in 0 .. GroupMax - 1 /\ st[n + 1] + len = Len(p) /\ st[n + 1] \in 0 .. Len(p)
      /\ \A k \in st[n + 1] + 1 .. Len(p) : p[k] # 0
  BY <1>0, <1>2 DEF Rest
\* The open group ends with this byte: a group of length x.
<1>4. ASSUME NEW x \in 0 .. GroupMax,
             \/ x = len /\ v = 0
             \/ x = GroupMax /\ len = GroupMax - 1 /\ v # 0
      PROVE  Grouped(q, Written(g, n, x), n + 1, 0)
  <2> DEFINE h == Written(g, n, x)
  <2>0. n \in 0 .. Len(g) /\ g \in Seq(0 .. GroupMax) /\ x \in 0 .. GroupMax
    BY <1>4
  <2>1. /\ \A j \in 1 .. n : h[j] = g[j]
        /\ h[n + 1] = x
    <3> DEFINE Lengths == 0 .. GroupMax
    <3>1. g \in Seq(Lengths) /\ x \in Lengths
      BY <2>0
    <3> HIDE DEF Lengths
    <3>2. /\ \A j \in 1 .. n : Written(g, n, x)[j] = g[j]
          /\ Written(g, n, x)[n + 1] = x
      BY <2>0, <3>1, WrittenIs
    <3> QED
      BY <3>2
  <2> HIDE DEF h
  <2>2. Starts(st, q, h, n)
    BY <1>0, <1>2, <2>1, StartsKept
  <2>3. Len(q) = st[n + 1] + h[n + 1] + (IF h[n + 1] = GroupMax THEN 0 ELSE 1)
    <3> DEFINE a == st[n + 1]
               e == h[n + 1]
               l == Len(q)
    <3>1. a \in Nat /\ len \in 0 .. GroupMax - 1 /\ a + len = Len(p) /\ l = Len(p) + 1 /\ e = x
      BY <1>0, <1>1, <1>3, <2>1
    <3> HIDE DEF a, e, l
    <3>2. l = a + e + (IF e = GroupMax THEN 0 ELSE 1)
      BY <1>0, <1>4, <3>1
    <3> QED
      BY <3>2 DEF a, e, l
  <2>4. ASSUME NEW k \in st[n + 1] + 1 .. st[n + 1] + h[n + 1] PROVE q[k] # 0
    <3>1. CASE k = Len(p) + 1
      <4>1. v # 0
        BY <1>0, <1>3, <1>4, <2>1, <2>4, <3>1
      <4> QED
        BY <1>1, <3>1, <4>1
    <3>2. CASE k # Len(p) + 1
      <4>1. k \in st[n + 1] + 1 .. Len(p) /\ k \in 1 .. Len(p)
        BY <1>0, <1>3, <1>4, <2>1, <2>4, <3>2
      <4> QED
        BY <1>1, <1>3, <4>1
    <3> QED
      BY <3>1, <3>2
  <2>5. h[n + 1] # GroupMax => q[Len(q)] = 0
    BY <1>0, <1>1, <1>3, <1>4, <2>1
  <2>6. h[n + 1] \in 0 .. GroupMax
    BY <2>1
  <2> HIDE DEF q
  <2>7. Grouped(q, h, n + 1, 0)
    BY <1>0, <1>1, <2>2, <2>3, <2>4, <2>5, <2>6, StartsMore
  <2> QED
    BY <2>7 DEF h
<1>5. ASSUME v = 0 PROVE Grouped(q, Written(g, n, len), n + 1, 0)
  <2>1. len \in 0 .. GroupMax
    BY <1>0, <1>3
  <2> QED
    BY <1>4, <1>5, <2>1
<1>6. ASSUME v # 0, len = GroupMax - 1 PROVE Grouped(q, Written(g, n, GroupMax), n + 1, 0)
  <2>1. GroupMax \in 0 .. GroupMax
    BY <1>0
  <2> QED
    BY <1>4, <1>6, <2>1
<1>7. ASSUME v # 0, len # GroupMax - 1 PROVE Grouped(q, g, n, len + 1)
  <2>1. Starts(st, q, g, n)
    BY <1>0, <1>2, StartsKept
  <2>2. ASSUME NEW k \in st[n + 1] + 1 .. Len(q) PROVE q[k] # 0
    <3>1. CASE k = Len(p) + 1
      BY <1>1, <1>7, <3>1
    <3>2. CASE k # Len(p) + 1
      <4>1. k \in st[n + 1] + 1 .. Len(p) /\ k \in 1 .. Len(p)
        <5> DEFINE a == st[n + 1]
                   l == Len(p)
        <5>1. a \in Nat /\ l \in Nat /\ Len(q) = l + 1
          BY <1>0, <1>1, <1>3
        <5>2. k \in a + 1 .. l + 1 /\ k # l + 1
          BY <2>2, <3>2, <5>1
        <5> HIDE DEF a, l
        <5>3. k \in a + 1 .. l /\ k \in 1 .. l
          BY <5>1, <5>2
        <5> QED
          BY <5>3 DEF a, l
      <4> QED
        BY <1>1, <1>3, <4>1
    <3> QED
      BY <3>1, <3>2
  <2>3. len + 1 \in 0 .. GroupMax - 1 /\ st[n + 1] + (len + 1) = Len(q)
    BY <1>0, <1>1, <1>3, <1>7
  <2> HIDE DEF q
  <2>4. Rest(st, q, n, len + 1)
    BY <2>2, <2>3 DEF Rest
  <2>5. st \in [1 .. n + 1 -> 0 .. Len(q)]
    BY <2>1 DEF Starts
  <2> QED
    BY <2>1, <2>4, <2>5 DEF Grouped
<1> QED
  BY <1>5, <1>6, <1>7
-----------------------------------------------------------------------------
(***************************************************************************)
(* Emitting a bank                                                         *)
(***************************************************************************)
LEMMA CodedNone ==
  ASSUME NEW out \in Seq(NonZero), NEW n \in 0 .. GroupMax
  PROVE  Coded(out, n, <<>>) = Append(out, n + 1)
<1>1. n + 1 \in NonZero
  BY NonZeroAre
<1>2. Append(out, n + 1) \in Seq(NonZero) /\ Append(out, n + 1) = out \o <<n + 1>>
  BY <1>1, AppendProperties, AppendIsConcat
<1> DEFINE t == out \o <<n + 1>>
<1>3. t \in Seq(NonZero) /\ t = Append(out, n + 1)
  BY <1>2
<1> HIDE DEF t
<1>4. t \o <<>> = t
  BY <1>3, ConcatEmptySeq
<1> QED
  BY <1>3, <1>4 DEF Coded, t

LEMMA CodedMore ==
  ASSUME NEW out \in Seq(NonZero), NEW n \in 0 .. GroupMax, NEW bytes \in Seq(NonZero),
         NEW more \in Seq(NonZero)
  PROVE  Coded(out, n, bytes \o more) = Coded(out, n, bytes) \o more
<1>1. n + 1 \in NonZero
  BY NonZeroAre
<1> DEFINE t == out \o <<n + 1>>
<1>2. t \in Seq(NonZero)
  <2>1. <<n + 1>> \in Seq(NonZero)
    BY <1>1
  <2> QED
    BY <2>1, ConcatProperties
<1> HIDE DEF t
<1>3. (t \o bytes) \o more = t \o (bytes \o more)
  BY <1>2, ConcatAssociative
<1> QED
  BY <1>3 DEF Coded, t

\* After the last byte of a group: the code of the next one, or the delimiter.
LEMMA GroupDone ==
  ASSUME NEW p \in Seq(Byte), NEW g \in Seq(0 .. GroupMax), NEW st, Cut(st, p, g),
         NEW i \in 1 .. Len(g)
  PROVE  /\ i = Len(g) =>
              cobs_encode(p) = Coded(Encoding(p)[st[i]].out, g[i], GroupOf(st, p, g, i))
         /\ i # Len(g) =>
              /\ i + 1 \in 1 .. Len(g)
              /\ Encoding(p)[st[i + 1]].out
                   = Coded(Encoding(p)[st[i]].out, g[i], GroupOf(st, p, g, i))
              /\ st[i + 1] = st[i] + g[i] + (IF g[i] = GroupMax THEN 0 ELSE 1)
<1>1. i = Len(g) => cobs_encode(p) = Coded(Encoding(p)[st[i]].out, g[i], GroupOf(st, p, g, i))
  <2>1. cobs_encode(p) = Coded(Encoding(p)[st[Len(g)]].out, g[Len(g)], GroupOf(st, p, g, Len(g)))
    BY CutEncodes
  <2> QED
    BY <2>1, Zenon
<1>2. ASSUME i # Len(g)
      PROVE  /\ i + 1 \in 1 .. Len(g)
             /\ Encoding(p)[st[i + 1]].out
                  = Coded(Encoding(p)[st[i]].out, g[i], GroupOf(st, p, g, i))
             /\ st[i + 1] = st[i] + g[i] + (IF g[i] = GroupMax THEN 0 ELSE 1)
  <2> DEFINE n == Len(g) - 1
  <2>1. n \in Nat /\ i \in 1 .. n /\ i + 1 \in 1 .. Len(g)
    BY <1>2, LenProperties
  <2>2. Starts(st, p, g, n)
    BY DEF Cut
  <2> HIDE DEF n
  <2>3. Encoding(p)[st[i + 1]].out = Coded(Encoding(p)[st[i]].out, g[i], GroupOf(st, p, g, i))
    BY <2>1, <2>2, StartsEncode
  <2>4. st[i + 1] = st[i] + g[i] + (IF g[i] = GroupMax THEN 0 ELSE 1)
    BY <2>1, <2>2 DEF Starts
  <2> QED
    BY <2>1, <2>3, <2>4
<1> QED
  BY <1>1, <1>2

\* The bytes of p from k on up to m.
Stretch(p, k, m) == SubSeq(p, k + 1, m)

LEMMA GroupStretch ==
  ASSUME NEW p \in Seq(Byte), NEW g \in Seq(0 .. GroupMax), NEW st, Cut(st, p, g),
         NEW i \in 1 .. Len(g), NEW m \in st[i] .. st[i] + g[i]
  PROVE  /\ st[i] \in Nat /\ m \in Nat
         /\ Stretch(p, st[i], m) \in Seq(NonZero) /\ Stretch(p, st[i], st[i]) = <<>>
         /\ m < st[i] + g[i] =>
              /\ m < Len(p) /\ p[m + 1] \in NonZero
              /\ Stretch(p, st[i], m + 1) = Append(Stretch(p, st[i], m), p[m + 1])
         /\ Stretch(p, m, st[i] + g[i]) \in Seq(NonZero)
         /\ Stretch(p, st[i], m) \o Stretch(p, m, st[i] + g[i]) = GroupOf(st, p, g, i)
<1> DEFINE a == st[i]
           e == st[i] + g[i]
<1>1. /\ a \in Nat /\ g[i] \in Nat /\ e \in Nat /\ e <= Len(p) /\ Len(p) \in Nat
      /\ GroupOf(st, p, g, i) \in Seq(NonZero) /\ Len(GroupOf(st, p, g, i)) = g[i]
      /\ \A j \in 1 .. g[i] : GroupOf(st, p, g, i)[j] = p[st[i] + j]
  BY CutEncodes, LenProperties
<1>2. \A j \in a + 1 .. e : p[j] \in NonZero
  <2> SUFFICES ASSUME NEW j \in a + 1 .. e PROVE p[j] \in NonZero
    OBVIOUS
  <2>1. j - a \in 1 .. g[i] /\ a + (j - a) = j
    BY <1>1
  <2>2. GroupOf(st, p, g, i)[j - a] = p[j]
    BY <1>1, <2>1
  <2>3. GroupOf(st, p, g, i)[j - a] \in NonZero
    BY <1>1, <2>1, ElementOfSeq
  <2> QED
    BY <2>2, <2>3
<1>3. m \in Nat /\ a <= m /\ m <= e
  BY <1>1
<1>4. GroupOf(st, p, g, i) = SubSeq(p, a + 1, e)
  BY DEF GroupOf
<1> HIDE DEF a, e
<1>5. SubSeq(p, a + 1, m) \in Seq(NonZero)
  <2> DEFINE j == m - a
  <2>1. j \in Nat /\ a + j = m /\ \A k \in a + 1 .. a + j : p[k] \in NonZero
    BY <1>1, <1>2, <1>3
  <2> HIDE DEF j
  <2>2. SubSeq(p, a + 1, a + j) \in Seq(NonZero)
    BY <1>1, <2>1, Window
  <2> QED
    BY <2>1, <2>2
<1>6. SubSeq(p, a + 1, a) = <<>>
  BY <1>1, SubSeqEmpty
<1>7. ASSUME m < e
      PROVE  /\ m < Len(p) /\ p[m + 1] \in NonZero
             /\ SubSeq(p, a + 1, m + 1) = Append(SubSeq(p, a + 1, m), p[m + 1])
  <2> DEFINE j == m - a
  <2>0. j \in Nat /\ a + j = m
    BY <1>1, <1>3
  <2> HIDE DEF j
  <2>1. \A k \in a + 1 .. a + j + 1 : p[k] \in NonZero
    <3> SUFFICES ASSUME NEW k \in a + 1 .. a + j + 1 PROVE p[k] \in NonZero
      OBVIOUS
    <3>1. k \in a + 1 .. e
      BY <1>1, <1>3, <1>7, <2>0
    <3> QED
      BY <1>2, <3>1
  <2>2. SubSeq(p, a + 1, a + j + 1) = Append(SubSeq(p, a + 1, a + j), p[a + j + 1])
    <3>1. a \in Nat /\ j \in Nat
      BY <1>1, <2>0
    <3> QED
      BY <2>1, <3>1, WindowGrows
  <2>3. m + 1 \in a + 1 .. e /\ m < Len(p)
    BY <1>1, <1>3, <1>7
  <2>4. a + j + 1 = m + 1
    BY <2>0
  <2> QED
    BY <1>2, <2>0, <2>2, <2>3, <2>4
<1>8. SubSeq(p, m + 1, e) \in Seq(NonZero)
  <2> DEFINE j == e - m
  <2>1. j \in Nat /\ m + j = e /\ \A k \in m + 1 .. m + j : p[k] \in NonZero
    BY <1>1, <1>2, <1>3
  <2> HIDE DEF j
  <2>2. SubSeq(p, m + 1, m + j) \in Seq(NonZero)
    BY <1>3, <2>1, Window
  <2> QED
    BY <2>1, <2>2
<1>9. SubSeq(p, a + 1, m) \o SubSeq(p, m + 1, e) = SubSeq(p, a + 1, e)
  <2> DEFINE b == a + 1
  <2>1. b \in 1 .. Len(p) + 1 /\ m \in b - 1 .. Len(p) /\ e \in m .. Len(p)
    BY <1>1, <1>3
  <2> HIDE DEF b
  <2>2. SubSeq(p, b, m) \o SubSeq(p, m + 1, e) = SubSeq(p, b, e)
    BY <2>1, ConcatAdjacentSubSeq
  <2> QED
    BY <2>2 DEF b
<1> QED
  BY <1>1, <1>3, <1>4, <1>5, <1>6, <1>7, <1>8, <1>9 DEF Stretch, a, e

\* Where emitting p is, at its i-th group, and what has been sent for it: f.
AtCode(raw, i, f, st, p, g) ==
  i \in 1 .. Len(g) /\ raw = st[i] /\ f = Encoding(p)[st[i]].out
AtData(raw, i, left, f, st, p, g) ==
  /\ i \in 1 .. Len(g) /\ left \in 1 .. g[i] /\ raw \in Nat /\ raw + left = st[i] + g[i]
  /\ f = Coded(Encoding(p)[st[i]].out, g[i], Stretch(p, st[i], raw))
AtEnd(i, f, p, g) == i = Len(g) /\ f = cobs_encode(p)

LEMMA GroupSent ==
  ASSUME NEW p \in Seq(Byte), NEW g \in Seq(0 .. GroupMax), NEW st, Cut(st, p, g),
         NEW i \in 1 .. Len(g), NEW f,
         f = Coded(Encoding(p)[st[i]].out, g[i], GroupOf(st, p, g, i))
  PROVE  /\ i = Len(g) => AtEnd(i, f, p, g)
         /\ i # Len(g) =>
              AtCode(st[i] + g[i] + (IF g[i] = GroupMax THEN 0 ELSE 1), i + 1, f, st, p, g)
<1> DEFINE x == Coded(Encoding(p)[st[i]].out, g[i], GroupOf(st, p, g, i))
<1>1. /\ i = Len(g) => cobs_encode(p) = x
      /\ i # Len(g) =>
           /\ i + 1 \in 1 .. Len(g) /\ Encoding(p)[st[i + 1]].out = x
           /\ st[i + 1] = st[i] + g[i] + (IF g[i] = GroupMax THEN 0 ELSE 1)
  BY GroupDone
<1>2. f = x
  OBVIOUS
<1> HIDE DEF x
<1>3. ASSUME i = Len(g) PROVE AtEnd(i, f, p, g)
  BY <1>1, <1>2, <1>3 DEF AtEnd
<1>4. ASSUME i # Len(g)
      PROVE  AtCode(st[i] + g[i] + (IF g[i] = GroupMax THEN 0 ELSE 1), i + 1, f, st, p, g)
  <2>1. f = Encoding(p)[st[i + 1]].out
    BY <1>1, <1>2, <1>4, Zenon
  <2> QED
    BY <1>1, <1>4, <2>1 DEF AtCode
<1> QED
  BY <1>3, <1>4

LEMMA CodeSent ==
  ASSUME NEW p \in Seq(Byte), NEW g \in Seq(0 .. GroupMax), NEW st, Cut(st, p, g),
         NEW raw, NEW i, NEW f, AtCode(raw, i, f, st, p, g)
  PROVE  /\ g[i] > 0 => AtData(raw, i, g[i], Append(f, g[i] + 1), st, p, g)
         /\ ~(g[i] > 0) /\ i = Len(g) => AtEnd(i, Append(f, g[i] + 1), p, g)
         /\ ~(g[i] > 0) /\ i # Len(g) => AtCode(raw + 1, i + 1, Append(f, g[i] + 1), st, p, g)
<1>1. i \in 1 .. Len(g) /\ raw = st[i] /\ f = Encoding(p)[st[i]].out
  BY DEF AtCode
<1>2. st[i] \in Nat /\ g[i] \in 0 .. GroupMax /\ f \in Seq(NonZero) /\ GroupMax \in Nat \ {0}
  BY <1>1, CutEncodes, BytesAre
<1>3. Coded(f, g[i], <<>>) = Append(f, g[i] + 1)
  BY <1>2, CodedNone
<1>4. Stretch(p, st[i], st[i]) = <<>>
  <2>1. st[i] \in st[i] .. st[i] + g[i]
    BY <1>2
  <2> QED
    BY <1>1, <2>1, GroupStretch
<1>5. Append(f, g[i] + 1) = Coded(Encoding(p)[st[i]].out, g[i], Stretch(p, st[i], st[i]))
  BY <1>1, <1>3, <1>4, Zenon
<1>6. ASSUME g[i] > 0 PROVE AtData(raw, i, g[i], Append(f, g[i] + 1), st, p, g)
  <2>1. Append(f, g[i] + 1) = Coded(Encoding(p)[st[i]].out, g[i], Stretch(p, st[i], raw))
    BY <1>1, <1>5, Zenon
  <2>2. g[i] \in 1 .. g[i] /\ raw \in Nat /\ raw + g[i] = st[i] + g[i]
    BY <1>1, <1>2, <1>6
  <2> QED
    BY <1>1, <2>1, <2>2 DEF AtData
<1>7. ASSUME ~(g[i] > 0)
      PROVE  /\ i = Len(g) => AtEnd(i, Append(f, g[i] + 1), p, g)
             /\ i # Len(g) => AtCode(raw + 1, i + 1, Append(f, g[i] + 1), st, p, g)
  <2>1. g[i] = 0 /\ g[i] # GroupMax /\ st[i] + g[i] = st[i]
    BY <1>2, <1>7
  <2>2. GroupOf(st, p, g, i) = <<>>
    <3>1. GroupOf(st, p, g, i) = Stretch(p, st[i], st[i])
      BY <2>1, Zenon DEF GroupOf, Stretch
    <3> QED
      BY <1>4, <3>1
  <2> DEFINE z == Append(f, g[i] + 1)
  <2>3. z = Coded(Encoding(p)[st[i]].out, g[i], GroupOf(st, p, g, i))
    BY <1>1, <1>3, <2>2, Zenon
  <2> HIDE DEF z
  <2>4. /\ i = Len(g) => AtEnd(i, z, p, g)
        /\ i # Len(g) =>
             AtCode(st[i] + g[i] + (IF g[i] = GroupMax THEN 0 ELSE 1), i + 1, z, st, p, g)
    BY <1>1, <2>3, GroupSent
  <2>5. st[i] + g[i] + (IF g[i] = GroupMax THEN 0 ELSE 1) = raw + 1
    BY <1>1, <2>1
  <2> QED
    BY <2>4, <2>5, Zenon DEF z
<1> QED
  BY <1>6, <1>7

LEMMA DataSent ==
  ASSUME NEW p \in Seq(Byte), NEW g \in Seq(0 .. GroupMax), NEW st, Cut(st, p, g),
         NEW raw, NEW i, NEW left, NEW f, AtData(raw, i, left, f, st, p, g)
  PROVE  /\ raw \in Nat /\ raw < Len(p)
         /\ left > 1 => AtData(raw + 1, i, left - 1, Append(f, p[raw + 1]), st, p, g)
         /\ ~(left > 1) /\ i = Len(g) => AtEnd(i, Append(f, p[raw + 1]), p, g)
         /\ ~(left > 1) /\ i # Len(g) =>
              AtCode(raw + (IF g[i] = GroupMax THEN 1 ELSE 2), i + 1, Append(f, p[raw + 1]), st, p, g)
<1> DEFINE o == Encoding(p)[st[i]].out
           s == Stretch(p, st[i], raw)
           b == p[raw + 1]
           z == Append(f, b)
<1>1. /\ i \in 1 .. Len(g) /\ left \in 1 .. g[i] /\ raw \in Nat /\ raw + left = st[i] + g[i]
      /\ f = Coded(o, g[i], s)
  BY DEF AtData
<1>2. st[i] \in Nat /\ g[i] \in 0 .. GroupMax /\ o \in Seq(NonZero)
  BY <1>1, CutEncodes
<1>3. raw \in st[i] .. st[i] + g[i] /\ raw < st[i] + g[i] /\ raw + 1 \in st[i] .. st[i] + g[i]
  BY <1>1, <1>2
<1>4. s \in Seq(NonZero) /\ raw < Len(p) /\ b \in NonZero
  BY <1>1, <1>3, GroupStretch
<1>5. Stretch(p, st[i], raw + 1) = Append(s, b)
  BY <1>1, <1>3, GroupStretch
<1> HIDE DEF o, s, b
<1>6. z = Coded(o, g[i], Append(s, b))
  <2>1. <<b>> \in Seq(NonZero) /\ Append(s, b) = s \o <<b>>
    BY <1>4, AppendIsConcat
  <2>2. Coded(o, g[i], s \o <<b>>) = Coded(o, g[i], s) \o <<b>>
    BY <1>2, <1>4, <2>1, CodedMore
  <2>3. Coded(o, g[i], s) \in Seq(NonZero)
    BY <1>2, <1>4, CodedType
  <2>4. Append(Coded(o, g[i], s), b) = Coded(o, g[i], s) \o <<b>>
    BY <1>4, <2>3, AppendIsConcat
  <2> QED
    BY <1>1, <2>1, <2>2, <2>4, Zenon
<1> HIDE DEF z
<1>7. ASSUME left > 1 PROVE AtData(raw + 1, i, left - 1, z, st, p, g)
  <2>1. left - 1 \in 1 .. g[i] /\ raw + 1 \in Nat /\ (raw + 1) + (left - 1) = st[i] + g[i]
    BY <1>1, <1>2, <1>7
  <2>2. z = Coded(o, g[i], Stretch(p, st[i], raw + 1))
    BY <1>5, <1>6, Zenon
  <2> QED
    BY <1>1, <2>1, <2>2 DEF AtData, o
<1>8. ASSUME ~(left > 1)
      PROVE  /\ i = Len(g) => AtEnd(i, z, p, g)
             /\ i # Len(g) => AtCode(raw + (IF g[i] = GroupMax THEN 1 ELSE 2), i + 1, z, st, p, g)
  <2>1. raw + 1 = st[i] + g[i]
    BY <1>1, <1>2, <1>8
  <2>2. GroupOf(st, p, g, i) = Append(s, b)
    <3>1. GroupOf(st, p, g, i) = Stretch(p, st[i], raw + 1)
      BY <2>1, Zenon DEF GroupOf, Stretch
    <3> QED
      BY <1>5, <3>1
  <2>3. z = Coded(Encoding(p)[st[i]].out, g[i], GroupOf(st, p, g, i))
    BY <1>6, <2>2, Zenon DEF o
  <2>4. /\ i = Len(g) => AtEnd(i, z, p, g)
        /\ i # Len(g) =>
             AtCode(st[i] + g[i] + (IF g[i] = GroupMax THEN 0 ELSE 1), i + 1, z, st, p, g)
    BY <1>1, <2>3, GroupSent
  <2>5. st[i] + g[i] + (IF g[i] = GroupMax THEN 0 ELSE 1) = raw + (IF g[i] = GroupMax THEN 1 ELSE 2)
    BY <1>1, <1>2, <2>1
  <2> QED
    BY <2>4, <2>5, Zenon
<1> QED
  BY <1>1, <1>4, <1>7, <1>8 DEF z, b

\* What has been sent is the beginning of what is to be sent.
Begins(f, w) == f \in Seq(NonZero) /\ \E x \in Seq(NonZero) : w = f \o x

LEMMA BeginsIsPrefix ==
  ASSUME NEW f, NEW w \in Seq(NonZero), Begins(f, w)
  PROVE  IsPrefix(f, Append(w, 0))
<1>1. PICK x \in Seq(NonZero) : w = f \o x
  BY DEF Begins
<1>2. f \in Seq(NonZero)
  BY DEF Begins
<1>3. f \in Seq(Byte) /\ x \in Seq(Byte) /\ 0 \in Byte
  <2>1. NonZero \subseteq Byte
    BY NonZeroAre
  <2>2. Seq(NonZero) \subseteq Seq(Byte)
    BY <2>1, SeqMonotonic
  <2> QED
    BY <1>1, <1>2, <2>2, BytesAre
<1> DEFINE y == Append(x, 0)
<1>4. y \in Seq(Byte) /\ y = x \o <<0>> /\ <<0>> \in Seq(Byte)
  BY <1>3, AppendProperties, AppendIsConcat
<1>5. (f \o x) \o <<0>> = f \o (x \o <<0>>)
  BY <1>3, <1>4, BytesAssociate, Zenon
<1>6. f \o x \in Seq(Byte)
  BY <1>3, ConcatProperties
<1>7. Append(f \o x, 0) = (f \o x) \o <<0>>
  BY <1>3, <1>6, AppendIsConcat
<1> HIDE DEF y
<1>8. Append(w, 0) = f \o y
  BY <1>1, <1>4, <1>5, <1>7, Zenon
<1> DEFINE z == f \o y
<1>9. /\ z \in Seq(Byte) /\ Len(z) = Len(f) + Len(y) /\ Len(f) \in Nat /\ Len(y) \in Nat
      /\ \A i \in 1 .. Len(f) + Len(y) : z[i] = IF i <= Len(f) THEN f[i] ELSE y[i - Len(f)]
  BY <1>3, <1>4, ConcatProperties, LenProperties
<1> HIDE DEF z
<1>10. \A i \in 1 .. Len(f) : i \in 1 .. Len(z) /\ z[i] = f[i] /\ z[i] \in Byte
  <2> SUFFICES ASSUME NEW i \in 1 .. Len(f) PROVE i \in 1 .. Len(z) /\ z[i] = f[i] /\ z[i] \in Byte
    OBVIOUS
  <2>1. i \in 1 .. Len(z) /\ i \in 1 .. Len(f) + Len(y) /\ i <= Len(f)
    BY <1>9
  <2> QED
    BY <1>9, <2>1, ElementOfSeq
<1> DEFINE t == SubSeq(z, 1, Len(f))
<1>11. t \in Seq(Byte) /\ Len(t) = Len(f) /\ \A i \in 1 .. Len(f) : t[i] = z[i]
  <2> DEFINE l == Len(f)
  <2>1. l \in Nat /\ \A i \in 0 + 1 .. 0 + l : z[i] \in Byte
    BY <1>9, <1>10
  <2>2. 0 + 1 = 1 /\ 0 + l = l /\ \A i \in 1 .. l : 0 + i = i
    BY <2>1
  <2> HIDE DEF l
  <2>3. /\ SubSeq(z, 0 + 1, 0 + l) \in Seq(Byte) /\ Len(SubSeq(z, 0 + 1, 0 + l)) = l
        /\ \A i \in 1 .. l : SubSeq(z, 0 + 1, 0 + l)[i] = z[0 + i]
    BY <2>1, Window
  <2> QED
    BY <2>2, <2>3 DEF l
<1> HIDE DEF t
<1>12. t = f
  BY <1>3, <1>10, <1>11, SeqEqual
<1>13. SubSeq(f, 1, Len(f)) = f
  BY <1>2, SubSeqFull
<1>14. Len(f) <= Len(z) /\ SubSeq(f, 1, Len(f)) = SubSeq(z, 1, Len(f))
  BY <1>9, <1>12, <1>13 DEF t
<1> QED
  BY <1>8, <1>14, Zenon DEF IsPrefix, z

LEMMA SentBegins ==
  ASSUME NEW p \in Seq(Byte), NEW g \in Seq(0 .. GroupMax), NEW st, Cut(st, p, g), NEW f
  PROVE  /\ cobs_encode(p) \in Seq(NonZero)
         /\ \A raw, i : AtCode(raw, i, f, st, p, g) => Begins(f, cobs_encode(p))
         /\ \A raw, i, left : AtData(raw, i, left, f, st, p, g) => Begins(f, cobs_encode(p))
         /\ \A i : AtEnd(i, f, p, g) => Begins(f, cobs_encode(p))
<1> DEFINE w == cobs_encode(p)
<1>1. /\ w \in Seq(NonZero)
      /\ \A k \in 0 .. Len(p) : \E x \in Seq(NonZero) : w = Encoding(p)[k].out \o x
  <2>1. 0 \in 0 .. Len(p)
    BY LenProperties
  <2> QED
    BY <2>1, OutGrows
<1> HIDE DEF w
<1>2. ASSUME NEW i \in 1 .. Len(g)
      PROVE  st[i] \in 0 .. Len(p) /\ Encoding(p)[st[i]].out \in Seq(NonZero)
  BY CutEncodes, LenProperties
<1>3. ASSUME NEW raw, NEW i, AtCode(raw, i, f, st, p, g) PROVE Begins(f, w)
  <2>1. i \in 1 .. Len(g) /\ f = Encoding(p)[st[i]].out
    BY <1>3 DEF AtCode
  <2>2. f \in Seq(NonZero) /\ \E x \in Seq(NonZero) : w = f \o x
    BY <1>1, <1>2, <2>1
  <2> QED
    BY <2>2 DEF Begins
<1>4. ASSUME NEW i, AtEnd(i, f, p, g) PROVE Begins(f, w)
  <2>1. f = w
    BY <1>4 DEF AtEnd, w
  <2>2. w \o <<>> = w /\ <<>> \in Seq(NonZero)
    BY <1>1, ConcatEmptySeq
  <2> QED
    BY <1>1, <2>1, <2>2 DEF Begins
<1>5. ASSUME NEW raw, NEW i, NEW left, AtData(raw, i, left, f, st, p, g) PROVE Begins(f, w)
  <2> DEFINE o == Encoding(p)[st[i]].out
             a == Stretch(p, st[i], raw)
             b == Stretch(p, raw, st[i] + g[i])
             e == Coded(o, g[i], GroupOf(st, p, g, i))
  <2>1. /\ i \in 1 .. Len(g) /\ left \in 1 .. g[i] /\ raw \in Nat /\ raw + left = st[i] + g[i]
        /\ f = Coded(o, g[i], a)
    BY <1>5 DEF AtData
  <2>2. o \in Seq(NonZero) /\ st[i] \in Nat /\ g[i] \in 0 .. GroupMax
    BY <2>1, CutEncodes
  <2>3. raw \in st[i] .. st[i] + g[i]
    BY <2>1, <2>2
  <2>4. a \in Seq(NonZero) /\ b \in Seq(NonZero)
    BY <2>1, <2>3, GroupStretch
  <2>5. a \o b = GroupOf(st, p, g, i)
    BY <2>1, <2>3, GroupStretch
  <2>6. /\ i = Len(g) => cobs_encode(p) = e
        /\ i # Len(g) => i + 1 \in 1 .. Len(g) /\ Encoding(p)[st[i + 1]].out = e
    BY <2>1, GroupDone
  <2>6a. e = Coded(o, g[i], a \o b)
    BY <2>5, Zenon
  <2> HIDE DEF o, a, b, e
  <2>7. f \in Seq(NonZero)
    BY <2>1, <2>2, <2>4, CodedType
  <2>8. Coded(o, g[i], a \o b) = Coded(o, g[i], a) \o b
    BY <2>2, <2>4, CodedMore
  <2>9. e = f \o b
    BY <2>1, <2>6a, <2>8, Zenon
  <2>10. CASE i = Len(g)
    <3>1. w = f \o b
      BY <2>6, <2>9, <2>10 DEF w
    <3> QED
      BY <2>4, <2>7, <3>1 DEF Begins
  <2>11. CASE i # Len(g)
    <3>1. i + 1 \in 1 .. Len(g) /\ Encoding(p)[st[i + 1]].out = e
      BY <2>6, <2>11
    <3> DEFINE k == st[i + 1]
    <3>2. k \in 0 .. Len(p)
      BY <1>2, <3>1
    <3> HIDE DEF k
    <3>3. PICK x \in Seq(NonZero) : w = Encoding(p)[k].out \o x
      BY <1>1, <3>2
    <3>4. w = (f \o b) \o x
      BY <2>9, <3>1, <3>3, Zenon DEF k
    <3>5. (f \o b) \o x = f \o (b \o x)
      BY <2>4, <2>7, NonZeroAssociate, Zenon
    <3>6. b \o x \in Seq(NonZero)
      BY <2>4, ConcatProperties
    <3>7. w = f \o (b \o x)
      BY <3>4, <3>5
    <3> QED
      BY <2>7, <3>6, <3>7 DEF Begins
  <2> QED
    BY <2>10, <2>11
<1> QED
  BY <1>1, <1>3, <1>4, <1>5 DEF w
-----------------------------------------------------------------------------
(***************************************************************************)
(* What the encoder keeps true: loading                                    *)
(***************************************************************************)
LoadType ==
  /\ packet \in [Bank -> Seq(Byte)] /\ groups \in [Bank -> Seq(0 .. GroupMax)]
  /\ loadBank \in Bank
  /\ load \in {"L_ACCEPT", "L_FIRST_DATA", "L_CHECKSUM", "L_FINALIZE"}
  /\ payloadCount \in 0 .. MaxPayload
  /\ checksum \in Byte /\ pending \in [data : Byte, last : BOOLEAN] /\ dropping \in BOOLEAN
  /\ rawLength \in Nat /\ groupIndex \in Nat /\ groupLength \in 0 .. GroupMax - 1

\* The raw bytes of the packet being loaded.
Loaded == SubSeq(packet[loadBank], 1, rawLength)

LoadPlace ==
  /\ rawLength \in {0, Len(packet[loadBank])} /\ groupIndex <= Len(groups[loadBank])
  /\ Grouped(Loaded, groups[loadBank], groupIndex, groupLength)

\* c is the checksum of s.
Checks(c, s) == c = Minus(0, SumOf(s))

LoadSum ==
  /\ load = "L_FIRST_DATA" => Checks(checksum, Append(Loaded, pending.data))
  /\ load \in {"L_ACCEPT", "L_CHECKSUM"} /\ payloadCount > 0 => Checks(checksum, Loaded)
  /\ load = "L_FINALIZE" => Summed(Loaded)

LoadCount ==
  /\ load # "L_ACCEPT" => payloadCount > 0
  /\ payloadCount = 0 => rawLength = 0 /\ groupIndex = 0 /\ groupLength = 0 /\ ~dropping
  /\ load = "L_FIRST_DATA" => payloadCount = 1 /\ rawLength = 1
  /\ load \in {"L_ACCEPT", "L_CHECKSUM"} /\ payloadCount > 0 => rawLength = payloadCount + 1
  /\ load = "L_FINALIZE" => rawLength = payloadCount + 2
  /\ dropping => payloadCount = MaxPayload /\ load = "L_ACCEPT"

LoadInv == LoadPlace /\ LoadSum /\ LoadCount

InputType(in) ==
  in.valid \in BOOLEAN /\ in.last \in BOOLEAN /\ in.channel \in Byte /\ in.data \in Byte

LEMMA LoadedIs ==
  ASSUME LoadType, LoadPlace
  PROVE  /\ packet[loadBank] \in Seq(Byte) /\ groups[loadBank] \in Seq(0 .. GroupMax)
         /\ rawLength \in 0 .. Len(packet[loadBank])
         /\ groupIndex \in 0 .. Len(groups[loadBank])
         /\ Loaded \in Seq(Byte) /\ Len(Loaded) = rawLength
         /\ rawLength = 0 => Loaded = <<>>
         /\ rawLength # 0 => Loaded = packet[loadBank]
<1> DEFINE s == packet[loadBank]
<1>1. /\ s \in Seq(Byte) /\ groups[loadBank] \in Seq(0 .. GroupMax)
      /\ rawLength \in Nat /\ groupIndex \in Nat
  BY DEF LoadType
<1>2. Len(s) \in Nat /\ Len(groups[loadBank]) \in Nat
  BY <1>1, LenProperties
<1>3. rawLength \in {0, Len(s)} /\ groupIndex <= Len(groups[loadBank])
  BY DEF LoadPlace
<1> HIDE DEF s
<1>4. CASE rawLength = 0
  <2>1. SubSeq(s, 1, 0) = <<>>
    BY SubSeqEmpty
  <2>2. Loaded = <<>>
    BY <1>4, <2>1 DEF Loaded, s
  <2> QED
    BY <1>1, <1>2, <1>3, <1>4, <2>2 DEF s
<1>5. CASE rawLength # 0
  <2>1. SubSeq(s, 1, Len(s)) = s
    BY <1>1, SubSeqFull
  <2>2. Loaded = s
    BY <1>3, <1>5, <2>1 DEF Loaded, s
  <2> QED
    BY <1>1, <1>2, <1>3, <1>5, <2>2 DEF s
<1> QED
  BY <1>4, <1>5

LEMMA AppendRawIs ==
  ASSUME LoadType, LoadPlace, NEW v \in Byte, AppendRaw(v), loadBank' = loadBank
  PROVE  /\ packet' \in [Bank -> Seq(Byte)] /\ groups' \in [Bank -> Seq(0 .. GroupMax)]
         /\ rawLength' = rawLength + 1 /\ rawLength' \in Nat /\ groupIndex' \in Nat
         /\ groupLength' \in 0 .. GroupMax - 1
         /\ LoadPlace' /\ Loaded' = Append(Loaded, v)
<1> DEFINE b == loadBank
           n == rawLength
           s == packet[b]
           g == groups[b]
           k == groupIndex
           len == groupLength
           h == Written(g, k, IF v = 0 THEN len ELSE GroupMax)
<1>0. b \in Bank /\ len \in 0 .. GroupMax - 1 /\ GroupMax \in Nat \ {0}
  BY BytesAre DEF LoadType
<1>1. /\ s \in Seq(Byte) /\ g \in Seq(0 .. GroupMax) /\ n \in 0 .. Len(s) /\ k \in 0 .. Len(g)
      /\ Len(s) \in Nat /\ Len(g) \in Nat /\ n \in Nat /\ k \in Nat
      /\ Loaded \in Seq(Byte) /\ Len(Loaded) = n
  BY LoadedIs, LenProperties
<1>2. Written(s, n, v) \in Seq(Byte) /\ Len(Written(s, n, v)) = n + 1
  BY <1>1, WrittenIs
<1>3. packet' = [packet EXCEPT ![b] = Written(s, n, v)] /\ rawLength' = n + 1
  BY DEF AppendRaw
<1>4. packet' \in [Bank -> Seq(Byte)] /\ packet'[b] = Written(s, n, v) /\ rawLength' = Len(packet'[b])
  BY <1>0, <1>2, <1>3 DEF LoadType
<1>5. Loaded' = Append(Loaded, v)
  <2>1. Loaded' = SubSeq(packet'[b], 1, rawLength')
    BY DEF Loaded
  <2>2. SubSeq(Written(s, n, v), 1, Len(Written(s, n, v))) = Written(s, n, v)
    BY <1>2, SubSeqFull
  <2>3. Written(s, n, v) = Append(Loaded, v)
    BY DEF Written, Loaded
  <2> QED
    BY <1>4, <2>1, <2>2, <2>3, Zenon
<1>6. Grouped(Loaded, g, k, len)
  BY DEF LoadPlace
<1>7. \/ /\ v = 0 \/ len = GroupMax - 1
         /\ groups' = [groups EXCEPT ![b] = h] /\ groupIndex' = k + 1 /\ groupLength' = 0
      \/ /\ v # 0 /\ len # GroupMax - 1
         /\ groups' = groups /\ groupIndex' = k /\ groupLength' = len + 1
  BY DEF AppendRaw, EndsGroup
<1>8. /\ v = 0 => Grouped(Append(Loaded, v), Written(g, k, len), k + 1, 0)
      /\ v # 0 /\ len = GroupMax - 1 => Grouped(Append(Loaded, v), Written(g, k, GroupMax), k + 1, 0)
      /\ v # 0 /\ len # GroupMax - 1 => Grouped(Append(Loaded, v), g, k, len + 1)
  BY <1>1, <1>6, GroupedAppend
<1>9. h \in Seq(0 .. GroupMax) /\ Len(h) = k + 1
  <2> DEFINE Lengths == 0 .. GroupMax
             x == IF v = 0 THEN len ELSE GroupMax
  <2>1. g \in Seq(Lengths) /\ x \in Lengths
    BY <1>0, <1>1
  <2> HIDE DEF Lengths, x
  <2>2. Written(g, k, x) \in Seq(Lengths) /\ Len(Written(g, k, x)) = k + 1
    BY <1>1, <2>1, WrittenIs
  <2> QED
    BY <2>2 DEF Lengths, x
<1> DEFINE Out == /\ groups' \in [Bank -> Seq(0 .. GroupMax)] /\ groupIndex' \in Nat
                  /\ groupLength' \in 0 .. GroupMax - 1 /\ groupIndex' <= Len(groups'[b])
                  /\ Grouped(Append(Loaded, v), groups'[b], groupIndex', groupLength')
<1>10. ASSUME v = 0 \/ len = GroupMax - 1 PROVE Out
  <2>1. groups' = [groups EXCEPT ![b] = h] /\ groupIndex' = k + 1 /\ groupLength' = 0
    BY <1>7, <1>10
  <2>2. Grouped(Append(Loaded, v), h, k + 1, 0)
    <3>1. CASE v = 0
      <4>1. h = Written(g, k, len)
        BY <3>1
      <4> QED
        BY <1>8, <3>1, <4>1, Zenon
    <3>2. CASE v # 0
      <4>1. h = Written(g, k, GroupMax)
        BY <3>2
      <4> QED
        BY <1>8, <1>10, <3>2, <4>1, Zenon
    <3> QED
      BY <3>1, <3>2
  <2> HIDE DEF h
  <2>3. groups' \in [Bank -> Seq(0 .. GroupMax)] /\ groups'[b] = h
    BY <1>0, <1>9, <2>1 DEF LoadType
  <2>4. groupIndex' \in Nat /\ groupLength' \in 0 .. GroupMax - 1 /\ groupIndex' <= Len(groups'[b])
    BY <1>0, <1>1, <1>9, <2>1, <2>3
  <2>5. Grouped(Append(Loaded, v), groups'[b], groupIndex', groupLength')
    BY <2>1, <2>2, <2>3, Zenon
  <2> QED
    BY <2>3, <2>4, <2>5, Zenon
<1>11. ASSUME v # 0 /\ len # GroupMax - 1 PROVE Out
  <2>1. groups' = groups /\ groupIndex' = k /\ groupLength' = len + 1
    BY <1>7, <1>11
  <2>2. len + 1 \in 0 .. GroupMax - 1
    BY <1>0, <1>11
  <2>3. Grouped(Append(Loaded, v), groups'[b], groupIndex', groupLength')
    BY <1>8, <1>11, <2>1, Zenon
  <2>4. groups' \in [Bank -> Seq(0 .. GroupMax)]
    BY <2>1 DEF LoadType
  <2>5. groupIndex' \in Nat /\ groupLength' \in 0 .. GroupMax - 1 /\ groupIndex' <= Len(groups'[b])
    BY <1>1, <2>1, <2>2
  <2> QED
    BY <2>3, <2>4, <2>5, Zenon
<1>12. Out
  <2> HIDE DEF Out
  <2> QED
    BY <1>10, <1>11
<1>13. LoadPlace'
  BY <1>4, <1>5, <1>12 DEF LoadPlace
<1>14. rawLength' \in Nat /\ rawLength' = rawLength + 1
  BY <1>1, <1>3
<1> HIDE DEF b, n, s, g, k, len, h
<1> QED
  BY <1>4, <1>5, <1>12, <1>13, <1>14

LEMMA ChecksAppend ==
  ASSUME NEW s \in Seq(Byte), NEW c, Checks(c, s), NEW b \in Byte
  PROVE  c \in Byte /\ Checks(Minus(c, b), Append(s, b))
<1>1. SumOf(s) \in Byte /\ SumOf(Append(s, b)) = (SumOf(s) + b) % Bytes
  BY SumAppend
<1>2. Minus(Minus(0, SumOf(s)), b) = Minus(0, (SumOf(s) + b) % Bytes)
  BY <1>1, MinusSum
<1>3. c = Minus(0, SumOf(s))
  BY DEF Checks
<1>4. c \in Byte
  BY <1>1, <1>3, MinusType, BytesAre
<1>5. Minus(c, b) = Minus(0, SumOf(Append(s, b)))
  BY <1>1, <1>2, <1>3, Zenon
<1> QED
  BY <1>4, <1>5 DEF Checks

LEMMA ChecksFirst ==
  ASSUME NEW b \in Byte
  PROVE  <<b>> \in Seq(Byte) /\ Checks(Minus(0, b), <<b>>)
<1>1. SumOf(<<b>>) = b
  BY SumOfOne
<1> QED
  BY <1>1 DEF Checks

LEMMA ChecksSummed ==
  ASSUME NEW s \in Seq(Byte), NEW c \in Byte, Checks(c, s), Len(s) \in 2 .. MaxPayload + 1
  PROVE  Summed(Append(s, c))
<1> DEFINE t == Append(s, c)
<1>1. Len(t) = Len(s) + 1 /\ t[Len(s) + 1] = c /\ Len(s) \in Nat
  BY AppendProperties, LenProperties
<1>2. Front(t) = s
  BY FrontAppend
<1>3. c = Minus(0, SumOf(s))
  BY DEF Checks
<1> HIDE DEF t
<1>4. Len(t) \in 3 .. MaxPayload + 2
  BY <1>1, EncoderAssumption
<1>5. t[Len(t)] = Minus(0, SumOf(Front(t)))
  BY <1>1, <1>2, <1>3, Zenon
<1> QED
  BY <1>4, <1>5 DEF Summed, t

\* The last length is written: the groups are those of the whole packet.
LEMMA Finalized ==
  ASSUME NEW p \in Seq(Byte), NEW g \in Seq(0 .. GroupMax), NEW n \in 0 .. Len(g),
         NEW len \in 0 .. GroupMax - 1, Grouped(p, g, n, len)
  PROVE  /\ Written(g, n, len) \in Seq(0 .. GroupMax)
         /\ \E st : Cut(st, p, Written(g, n, len))
<1> DEFINE Lengths == 0 .. GroupMax
           h == Written(g, n, len)
<1>1. g \in Seq(Lengths) /\ len \in Lengths
  BY BytesAre
<1> HIDE DEF Lengths
<1>2. /\ h \in Seq(Lengths) /\ Len(h) = n + 1 /\ h[n + 1] = len
      /\ \A i \in 1 .. n : h[i] = g[i]
  BY <1>1, WrittenIs
<1>3. PICK st \in [1 .. n + 1 -> 0 .. Len(p)] : Starts(st, p, g, n) /\ Rest(st, p, n, len)
  BY DEF Grouped
<1> HIDE DEF h
<1>4. n \in Nat
  BY LenProperties
<1>5. Starts(st, p, h, n)
  BY <1>2, <1>3 DEF Starts
<1>6. Len(h) - 1 = n /\ Len(h) > 0 /\ h[Len(h)] = len
  BY <1>2, <1>4
<1>7. Cut(st, p, h)
  BY <1>3, <1>5, <1>6 DEF Cut
<1> QED
  BY <1>2, <1>7 DEF h, Lengths

\* A bank that nothing has been written into.
LEMMA NothingGrouped == \A g : Grouped(<<>>, g, 0, 0)
<1> SUFFICES ASSUME NEW g PROVE Grouped(<<>>, g, 0, 0)
  OBVIOUS
<1> DEFINE st == [i \in 1 .. 1 |-> 0]
<1>1. st \in [1 .. 0 + 1 -> 0 .. Len(<<>>)] /\ st[1] = 0 /\ Len(<<>>) = 0
  OBVIOUS
<1> HIDE DEF st
<1>2. Starts(st, <<>>, g, 0)
  BY <1>1 DEF Starts
<1>3. Rest(st, <<>>, 0, 0)
  BY <1>1, BytesAre DEF Rest
<1> QED
  BY <1>1, <1>2, <1>3 DEF Grouped

LEMMA LoadStep ==
  ASSUME LoadType, LoadInv, NEW in, InputType(in), Load(in)
  PROVE  LoadType' /\ LoadInv'
<1>0. /\ LoadPlace /\ LoadSum /\ LoadCount
      /\ in.channel \in Byte /\ in.data \in Byte /\ in.last \in BOOLEAN
      /\ pending.data \in Byte /\ pending.last \in BOOLEAN /\ checksum \in Byte
      /\ Loaded \in Seq(Byte) /\ Len(Loaded) = rawLength /\ rawLength \in Nat
      /\ payloadCount \in 0 .. MaxPayload /\ MaxPayload \in Nat \ {0} /\ loadBank \in Bank
      /\ rawLength = 0 => Loaded = <<>>
  BY LoadedIs, EncoderAssumption DEF LoadInv, InputType, LoadType
\* A step that adds a byte and stays in the bank.
<1>1. ASSUME NEW v \in Byte, AppendRaw(v), loadBank' = loadBank
      PROVE  /\ packet' \in [Bank -> Seq(Byte)] /\ groups' \in [Bank -> Seq(0 .. GroupMax)]
             /\ rawLength' = rawLength + 1 /\ rawLength' \in Nat /\ groupIndex' \in Nat
             /\ groupLength' \in 0 .. GroupMax - 1 /\ loadBank' \in Bank
             /\ LoadPlace' /\ Loaded' = Append(Loaded, v)
  BY <1>0, <1>1, AppendRawIs
<1>2. CASE Accept(in) /\ ~(in.valid /\ EncoderReady)
  <2>1. UNCHANGED <<load, payloadCount, rawLength, groupIndex, groupLength, checksum,
                    pending, dropping, packet, groups, loadBank>>
    BY <1>2 DEF Accept
  <2> QED
    BY <2>1 DEF LoadType, LoadInv, LoadPlace, LoadSum, LoadCount, Loaded
<1>3. CASE Accept(in) /\ in.valid /\ EncoderReady /\ AcceptFirst(in)
  <2>1. /\ load = "L_ACCEPT" /\ loadBank' = loadBank /\ payloadCount = 0 /\ AppendRaw(in.channel)
        /\ pending' = [data |-> in.data, last |-> in.last]
        /\ checksum' = Minus(Minus(0, in.channel), in.data)
        /\ payloadCount' = 1 /\ load' = "L_FIRST_DATA" /\ dropping' = dropping
    BY <1>3 DEF Accept, AcceptFirst
  <2>2. rawLength = 0 /\ ~dropping /\ Loaded = <<>>
    BY <1>0, <2>1 DEF LoadCount
  <2>3. Loaded' = <<in.channel>>
    <3>1. Loaded' = Append(Loaded, in.channel)
      BY <1>0, <1>1, <2>1
    <3> QED
      BY <2>2, <3>1
  <2>4. Checks(checksum', Append(<<in.channel>>, in.data))
    <3>1. <<in.channel>> \in Seq(Byte) /\ Checks(Minus(0, in.channel), <<in.channel>>)
      BY <1>0, ChecksFirst
    <3> DEFINE one == <<in.channel>>
               c == Minus(0, in.channel)
               b == in.data
    <3>2. one \in Seq(Byte) /\ Checks(c, one) /\ b \in Byte
      BY <1>0, <3>1
    <3> HIDE DEF one, c, b
    <3>3. Checks(Minus(c, b), Append(one, b))
      BY <3>2, ChecksAppend
    <3> QED
      BY <2>1, <3>3 DEF one, c, b
  <2>5. pending'.data = in.data /\ pending' \in [data : Byte, last : BOOLEAN]
    BY <1>0, <2>1
  <2>6. LoadSum'
    <3>1. Checks(checksum', Append(Loaded', pending.data'))
      BY <2>3, <2>4, <2>5, Zenon
    <3> QED
      BY <2>1, <3>1 DEF LoadSum
  <2>7. LoadCount'
    BY <1>0, <1>1, <2>1, <2>2 DEF LoadCount
  <2>8. checksum' \in Byte
    BY <1>0, <2>1, MinusType, BytesAre
  <2>9. LoadType'
    BY <1>0, <1>1, <2>1, <2>2, <2>5, <2>8 DEF LoadType
  <2> QED
    BY <1>0, <1>1, <2>1, <2>6, <2>7, <2>9 DEF LoadInv
<1>4. CASE Accept(in) /\ in.valid /\ EncoderReady /\ AcceptNext(in)
  <2>1. /\ load = "L_ACCEPT" /\ loadBank' = loadBank /\ payloadCount \in 1 .. MaxPayload - 1
        /\ ~dropping /\ AppendRaw(in.data)
        /\ checksum' = Minus(checksum, in.data) /\ payloadCount' = payloadCount + 1
        /\ load' = (IF in.last THEN "L_CHECKSUM" ELSE load)
        /\ pending' = pending /\ dropping' = dropping
    BY <1>4 DEF Accept, AcceptNext
  <2>2. rawLength = payloadCount + 1 /\ Checks(checksum, Loaded)
    BY <1>0, <2>1 DEF LoadCount, LoadSum
  <2>3. Checks(checksum', Loaded')
    <3>1. Checks(Minus(checksum, in.data), Append(Loaded, in.data))
      BY <1>0, <2>2, ChecksAppend
    <3>2. Loaded' = Append(Loaded, in.data)
      BY <1>0, <1>1, <2>1
    <3> QED
      BY <2>1, <3>1, <3>2, Zenon
  <2>4. load' \in {"L_ACCEPT", "L_CHECKSUM"}
    BY <2>1
  <2>5. LoadSum'
    BY <2>3, <2>4 DEF LoadSum
  <2>6. LoadCount'
    BY <1>0, <1>1, <2>1, <2>2, <2>4 DEF LoadCount
  <2>7. LoadType'
    <3>1. checksum' \in Byte
      BY <1>0, <2>1, MinusType
    <3> QED
      BY <1>0, <1>1, <2>1, <2>4, <3>1 DEF LoadType
  <2> QED
    BY <1>0, <1>1, <2>1, <2>5, <2>6, <2>7 DEF LoadInv
<1>5. CASE Accept(in) /\ in.valid /\ EncoderReady /\ AcceptTooMuch(in)
  <2>1. /\ load = "L_ACCEPT" /\ loadBank' = loadBank
        /\ payloadCount >= MaxPayload \/ dropping
        /\ dropping' = ~in.last
        /\ UNCHANGED <<load, pending, packet, groups>>
    BY <1>5 DEF Accept, AcceptTooMuch
  <2>2. payloadCount = MaxPayload
    BY <1>0, <2>1 DEF LoadCount
  <2>3. CASE in.last
    <3>1. /\ payloadCount' = 0 /\ rawLength' = 0 /\ groupIndex' = 0 /\ groupLength' = 0
          /\ checksum' = 0
      BY <1>5, <2>3 DEF AcceptTooMuch, ClearLoad
    <3>2. LoadPlace'
      <4>1. packet'[loadBank'] \in Seq(Byte) /\ groups'[loadBank'] \in Seq(0 .. GroupMax)
        BY <2>1 DEF LoadType
      <4>2. Len(groups'[loadBank']) \in Nat
        BY <4>1, LenProperties
      <4>3. Loaded' = <<>>
        <5>1. SubSeq(packet'[loadBank'], 1, 0) = <<>>
          BY SubSeqEmpty
        <5> QED
          BY <3>1, <5>1 DEF Loaded
      <4>4. Grouped(<<>>, groups'[loadBank'], 0, 0)
        BY NothingGrouped
      <4> QED
        BY <3>1, <4>2, <4>3, <4>4 DEF LoadPlace
    <3>3. LoadType'
      BY <1>0, <2>1, <3>1, BytesAre DEF LoadType
    <3>4. ~dropping'
      BY <2>1, <2>3, Zenon
    <3>5. load' = "L_ACCEPT"
      BY <2>1
    <3>6. LoadSum' /\ LoadCount'
      BY <3>1, <3>4, <3>5 DEF LoadSum, LoadCount
    <3> QED
      BY <3>2, <3>3, <3>6 DEF LoadInv
  <2>4. CASE ~in.last
    <3>1. UNCHANGED <<payloadCount, rawLength, groupIndex, groupLength, checksum>>
      BY <1>5, <2>4 DEF AcceptTooMuch
    <3> QED
      BY <1>0, <2>1, <2>2, <3>1
      DEF LoadType, LoadInv, LoadPlace, LoadSum, LoadCount, Loaded
  <2> QED
    BY <2>3, <2>4
<1>6. CASE FirstData
  <2>1. /\ load = "L_FIRST_DATA" /\ loadBank' = loadBank /\ AppendRaw(pending.data)
        /\ load' = (IF pending.last THEN "L_CHECKSUM" ELSE "L_ACCEPT")
        /\ UNCHANGED <<payloadCount, checksum, pending, dropping>>
    BY <1>6 DEF FirstData
  <2>2. /\ payloadCount = 1 /\ rawLength = 1 /\ ~dropping
        /\ Checks(checksum, Append(Loaded, pending.data))
    BY <1>0, <2>1 DEF LoadCount, LoadSum
  <2>3. load' \in {"L_ACCEPT", "L_CHECKSUM"}
    BY <2>1
  <2>4. Checks(checksum', Loaded')
    <3>1. Loaded' = Append(Loaded, pending.data)
      BY <1>0, <1>1, <2>1
    <3> QED
      BY <2>1, <2>2, <3>1, Zenon
  <2>5. LoadSum'
    BY <2>3, <2>4 DEF LoadSum
  <2>6. LoadCount'
    BY <1>0, <1>1, <2>1, <2>2, <2>3 DEF LoadCount
  <2>7. LoadType'
    BY <1>0, <1>1, <2>1, <2>3 DEF LoadType
  <2> QED
    BY <1>0, <1>1, <2>1, <2>5, <2>6, <2>7 DEF LoadInv
<1>7. CASE Checksum
  <2>1. /\ load = "L_CHECKSUM" /\ loadBank' = loadBank /\ AppendRaw(checksum)
        /\ load' = "L_FINALIZE"
        /\ UNCHANGED <<payloadCount, checksum, pending, dropping>>
    BY <1>7 DEF Checksum
  <2>2. /\ payloadCount > 0 /\ rawLength = payloadCount + 1 /\ ~dropping
        /\ Checks(checksum, Loaded)
    BY <1>0, <2>1 DEF LoadCount, LoadSum
  <2>3. Summed(Loaded')
    <3>1. Len(Loaded) \in 2 .. MaxPayload + 1
      BY <1>0, <2>2
    <3>2. Summed(Append(Loaded, checksum))
      BY <1>0, <2>2, <3>1, ChecksSummed
    <3>3. Loaded' = Append(Loaded, checksum)
      BY <1>0, <1>1, <2>1
    <3> QED
      BY <3>2, <3>3, Zenon
  <2>4. LoadSum'
    BY <2>1, <2>3 DEF LoadSum
  <2>5. LoadCount'
    BY <1>0, <1>1, <2>1, <2>2 DEF LoadCount
  <2>6. LoadType'
    BY <1>0, <1>1, <2>1 DEF LoadType
  <2> QED
    BY <1>0, <1>1, <2>1, <2>4, <2>5, <2>6 DEF LoadInv
<1>8. CASE Finalize
  <2>1. /\ load = "L_FINALIZE"
        /\ groups' = [groups EXCEPT ![loadBank] = Written(groups[loadBank], groupIndex, groupLength)]
        /\ loadBank' = 1 - loadBank /\ load' = "L_ACCEPT"
        /\ payloadCount' = 0 /\ rawLength' = 0 /\ groupIndex' = 0 /\ groupLength' = 0
        /\ checksum' = 0 /\ UNCHANGED <<pending, dropping, packet>>
    BY <1>8 DEF Finalize, ClearLoad
  <2>2. ~dropping
    BY <1>0, <2>1 DEF LoadCount
  <2>3. Written(groups[loadBank], groupIndex, groupLength) \in Seq(0 .. GroupMax)
    <3>1. groupLength \in 0 .. GroupMax - 1
      BY DEF LoadType
    <3>2. Grouped(Loaded, groups[loadBank], groupIndex, groupLength)
      BY <1>0 DEF LoadPlace
    <3> QED
      BY <1>0, <3>1, <3>2, LoadedIs, Finalized
  <2>4. groups' \in [Bank -> Seq(0 .. GroupMax)] /\ loadBank' \in Bank
    BY <1>0, <2>1, <2>3 DEF LoadType, Bank
  <2>5. LoadType'
    <3>1. groups' \in [Bank -> Seq(0 .. GroupMax)] /\ loadBank' \in Bank
      BY <2>4
    <3>2. packet' \in [Bank -> Seq(Byte)] /\ pending' \in [data : Byte, last : BOOLEAN]
      BY <2>1 DEF LoadType
    <3>3. load' \in {"L_ACCEPT", "L_FIRST_DATA", "L_CHECKSUM", "L_FINALIZE"} /\ dropping' \in BOOLEAN
      BY <2>1 DEF LoadType
    <3>4. payloadCount' \in 0 .. MaxPayload
      BY <1>0, <2>1
    <3>5. checksum' \in Byte /\ rawLength' \in Nat /\ groupIndex' \in Nat
      BY <2>1, BytesAre
    <3>6. groupLength' \in 0 .. GroupMax - 1
      BY <2>1, BytesAre
    <3> QED
      BY <3>1, <3>2, <3>3, <3>4, <3>5, <3>6 DEF LoadType
  <2>6. LoadPlace'
    <3>1. groups'[loadBank'] \in Seq(0 .. GroupMax)
      BY <2>4
    <3>2. Len(groups'[loadBank']) \in Nat
      BY <3>1, LenProperties
    <3>3. Loaded' = <<>>
      <4>1. SubSeq(packet'[loadBank'], 1, 0) = <<>>
        BY SubSeqEmpty
      <4> QED
        BY <2>1, <4>1 DEF Loaded
    <3>4. Grouped(<<>>, groups'[loadBank'], 0, 0)
      BY NothingGrouped
    <3> QED
      BY <2>1, <3>2, <3>3, <3>4 DEF LoadPlace
  <2> QED
    BY <2>1, <2>2, <2>5, <2>6 DEF LoadInv, LoadSum, LoadCount
<1> QED
  <2>1. Accept(in) => \/ ~(in.valid /\ EncoderReady)
                      \/ in.valid /\ EncoderReady /\ (AcceptFirst(in) \/ AcceptNext(in) \/ AcceptTooMuch(in))
    BY DEF Accept
  <2>2. Accept(in) \/ FirstData \/ Checksum \/ Finalize
    BY DEF Load
  <2> QED
    BY <1>2, <1>3, <1>4, <1>5, <1>6, <1>7, <1>8, <2>1, <2>2
-----------------------------------------------------------------------------
(***************************************************************************)
(* What the encoder keeps true: the two banks                              *)
(***************************************************************************)
EmitType ==
  /\ full \in [Bank -> BOOLEAN] /\ encodeBank \in Bank /\ nextEncodeBank \in Bank
  /\ emit \in {"E_IDLE", "E_CODE", "E_DATA", "E_DELIMITER"}

\* A bank holds a packet with its checksum and the lengths of its groups.
Complete(b) == Summed(packet[b]) /\ \E st : Cut(st, packet[b], groups[b])

BankOrder ==
  /\ loadBank = IF full[nextEncodeBank] /\ ~full[1 - nextEncodeBank]
                  THEN 1 - nextEncodeBank ELSE nextEncodeBank
  /\ full[1 - nextEncodeBank] => full[nextEncodeBank]
  /\ payloadCount > 0 => ~full[loadBank]
  /\ emit # "E_IDLE" => encodeBank = nextEncodeBank /\ full[nextEncodeBank]

BankInv == BankOrder /\ \A b \in Bank : full[b] => Complete(b)

LEMMA BanksAre ==
  /\ \A b \in Bank : 1 - b \in Bank /\ 1 - (1 - b) = b /\ b # 1 - b
  /\ \A b, c \in Bank : b # c => c = 1 - b
BY DEF Bank

\* What is in a full bank stays.
LEMMA BanksKept ==
  ASSUME LoadType, LoadCount, BankInv, NEW in, Load(in), NEW b \in Bank, full[b]
  PROVE  packet'[b] = packet[b] /\ groups'[b] = groups[b]
<1>0. /\ packet \in [Bank -> Seq(Byte)] /\ groups \in [Bank -> Seq(0 .. GroupMax)]
      /\ loadBank \in Bank /\ payloadCount \in Nat
  BY DEF LoadType
<1>1. CASE b = loadBank
  <2>1. payloadCount = 0
    BY <1>0, <1>1 DEF BankInv, BankOrder
  <2>2. load = "L_ACCEPT" /\ ~EncoderReady
    BY <1>1, <2>1 DEF LoadCount, EncoderReady
  <2>3. Accept(in)
    BY <2>2 DEF Load, FirstData, Checksum, Finalize
  <2> QED
    BY <2>2, <2>3 DEF Accept
<1>2. CASE b # loadBank
  <2>1. \/ UNCHANGED <<packet, groups>>
        \/ \E v : AppendRaw(v)
        \/ Finalize
    BY DEF Load, Accept, AcceptFirst, AcceptNext, AcceptTooMuch, FirstData, Checksum
  <2>2. ASSUME NEW v, AppendRaw(v) PROVE packet'[b] = packet[b] /\ groups'[b] = groups[b]
    BY <1>0, <1>2, <2>2 DEF AppendRaw
  <2>3. CASE Finalize
    BY <1>0, <1>2, <2>3 DEF Finalize
  <2> QED
    BY <2>1, <2>2, <2>3
<1> QED
  BY <1>1, <1>2

\* A packet is finished: its bank is complete.
LEMMA NewComplete ==
  ASSUME LoadType, LoadInv, NEW in, Load(in), load = "L_FINALIZE"
  PROVE  /\ Summed(packet'[loadBank])
         /\ \E st : Cut(st, packet'[loadBank], groups'[loadBank])
         /\ packet'[loadBank] = packet[loadBank] /\ loadBank' = 1 - loadBank
         /\ payloadCount' = 0 /\ load' = "L_ACCEPT" /\ Loaded = packet[loadBank]
<1> DEFINE b == loadBank
           h == Written(groups[b], groupIndex, groupLength)
<1>1. Finalize
  BY DEF Load, Accept, FirstData, Checksum
<1>2. /\ groups' = [groups EXCEPT ![b] = h] /\ packet' = packet /\ loadBank' = 1 - b
      /\ payloadCount' = 0 /\ load' = "L_ACCEPT"
  BY <1>1 DEF Finalize, ClearLoad
<1>3. b \in Bank /\ groups \in [Bank -> Seq(0 .. GroupMax)] /\ groupLength \in 0 .. GroupMax - 1
      /\ payloadCount \in Nat
  BY DEF LoadType
<1>4. LoadPlace /\ LoadSum /\ LoadCount
  BY DEF LoadInv
<1>5. rawLength # 0 /\ Summed(Loaded)
  BY <1>3, <1>4 DEF LoadSum, LoadCount
<1>6. Loaded = packet[b] /\ Loaded \in Seq(Byte)
  BY <1>4, <1>5, LoadedIs
<1>7. Grouped(Loaded, groups[b], groupIndex, groupLength)
  BY <1>4 DEF LoadPlace
<1>8. \E st : Cut(st, Loaded, h)
  <2>1. groups[b] \in Seq(0 .. GroupMax) /\ groupIndex \in 0 .. Len(groups[b])
    BY <1>4, LoadedIs
  <2> QED
    BY <1>3, <1>6, <1>7, <2>1, Finalized
<1>9. groups'[b] = h
  BY <1>2, <1>3
<1>10. packet'[b] = packet[b]
  BY <1>2
<1> HIDE DEF h
<1>11. Summed(packet'[b]) /\ \E st : Cut(st, packet'[b], groups'[b])
  BY <1>5, <1>6, <1>8, <1>9, <1>10, Zenon
<1> QED
  BY <1>2, <1>6, <1>10, <1>11

LEMMA LoadBankStep ==
  ASSUME NEW in, Load(in), load # "L_FINALIZE"
  PROVE  /\ loadBank' = loadBank
         /\ load = "L_ACCEPT" /\ ~(in.valid /\ ~full[loadBank]) =>
              UNCHANGED <<load, payloadCount, rawLength, checksum, pending, dropping, packet>>
<1>1. Accept(in) \/ FirstData \/ Checksum
  BY DEF Load, Finalize
<1> QED
  BY <1>1 DEF Accept, FirstData, Checksum, EncoderReady

LEMMA EmitBank ==
  ASSUME EmitType, NEW ready \in BOOLEAN, Emit(ready)
  PROVE  /\ encodeBank' \in Bank /\ nextEncodeBank' \in Bank
         /\ emit' \in {"E_IDLE", "E_CODE", "E_DATA", "E_DELIMITER"}
         /\ emit = "E_DELIMITER" /\ ready => nextEncodeBank' = 1 - encodeBank /\ emit' = "E_IDLE"
         /\ ~(emit = "E_DELIMITER" /\ ready) => nextEncodeBank' = nextEncodeBank
         /\ emit # "E_IDLE" => encodeBank' = encodeBank
         /\ emit = "E_IDLE" /\ emit' # "E_IDLE" =>
              full[nextEncodeBank] /\ encodeBank' = nextEncodeBank
<1>1. CASE StartFrame
  BY <1>1 DEF StartFrame, EmitType
<1>2. CASE ready /\ EmitCode
  BY <1>2 DEF EmitCode, EmitType
<1>3. CASE ready /\ EmitData
  BY <1>3 DEF EmitData, EmitType
<1>4. CASE ready /\ EmitDelimiter
  BY <1>4, BanksAre DEF EmitDelimiter, EmitType
<1>5. CASE ~ready /\ OutputValid /\ UNCHANGED emitVars
  BY <1>5 DEF emitVars, EmitType, OutputValid
<1> QED
  BY <1>1, <1>2, <1>3, <1>4, <1>5 DEF Emit

LEMMA BankStep ==
  ASSUME LoadType, EmitType, LoadInv, BankInv, NEW in, NEW ready \in BOOLEAN,
         EncoderEdge(in, ready), LoadType'
  PROVE  EmitType' /\ BankInv'
<1> DEFINE N == nextEncodeBank
           O == 1 - N
           L == loadBank
           fin == load = "L_FINALIZE"
           del == emit = "E_DELIMITER" /\ ready
<1>0. /\ N \in Bank /\ O \in Bank /\ L \in Bank /\ encodeBank \in Bank /\ payloadCount \in Nat
      /\ full \in [Bank -> BOOLEAN] /\ payloadCount' \in Nat
  <2>1. N \in Bank /\ encodeBank \in Bank /\ full \in [Bank -> BOOLEAN]
    BY DEF EmitType
  <2>2. L \in Bank /\ payloadCount \in Nat
    BY DEF LoadType
  <2>3. payloadCount' \in Nat
    BY DEF LoadType
  <2>4. O \in Bank
    BY <2>1, BanksAre
  <2> QED
    BY <2>1, <2>2, <2>3, <2>4
<1>1. Load(in) /\ Emit(ready) /\ BankFlags(ready)
  BY DEF EncoderEdge
<1>2. /\ encodeBank' \in Bank /\ N' \in Bank
      /\ emit' \in {"E_IDLE", "E_CODE", "E_DATA", "E_DELIMITER"}
      /\ del => N' = 1 - encodeBank /\ emit' = "E_IDLE"
      /\ ~del => N' = N
      /\ emit # "E_IDLE" => encodeBank' = encodeBank
      /\ emit = "E_IDLE" /\ emit' # "E_IDLE" => full[N] /\ encodeBank' = N
  BY <1>1, EmitBank
<1>3. /\ full' \in [Bank -> BOOLEAN]
      /\ \A b \in Bank : full'[b] <=> (fin /\ b = L) \/ (full[b] /\ ~(del /\ b = encodeBank))
  BY <1>0, <1>1 DEF BankFlags, OutputLast
<1>4. EmitType'
  BY <1>2, <1>3 DEF EmitType
<1>5. LoadCount /\ BankOrder
  BY DEF LoadInv, BankInv
<1>6. /\ L = (IF full[N] /\ ~full[O] THEN O ELSE N)
      /\ full[O] => full[N]
      /\ payloadCount > 0 => ~full[L]
      /\ emit # "E_IDLE" => encodeBank = N /\ full[N]
  BY <1>5 DEF BankOrder
<1>7. fin => loadBank' = 1 - L /\ payloadCount' = 0 /\ ~full[L]
  BY <1>0, <1>1, <1>5, <1>6, NewComplete DEF LoadCount
<1>8. ~fin => loadBank' = L
  BY <1>1, LoadBankStep
<1>9. ~fin /\ full[L] => payloadCount' = 0
  <2> SUFFICES ASSUME ~fin, full[L] PROVE payloadCount' = 0
    OBVIOUS
  <2>1. payloadCount = 0 /\ load = "L_ACCEPT"
    BY <1>0, <1>5, <1>6 DEF LoadCount
  <2>2. payloadCount' = payloadCount
    BY <1>1, <2>1, LoadBankStep
  <2> QED
    BY <2>1, <2>2
<1>10. \A b \in Bank : full'[b] => Complete(b)'
  <2> SUFFICES ASSUME NEW b \in Bank, full'[b] PROVE Complete(b)'
    OBVIOUS
  <2>1. CASE fin /\ b = L
    <3>1. Summed(packet'[L]) /\ \E st : Cut(st, packet'[L], groups'[L])
      BY <1>1, <2>1, NewComplete
    <3> QED
      BY <2>1, <3>1, Zenon DEF Complete
  <2>2. CASE ~(fin /\ b = L)
    <3>1. full[b]
      BY <1>3, <2>2
    <3>2. Summed(packet[b]) /\ \E st : Cut(st, packet[b], groups[b])
      BY <3>1 DEF BankInv, Complete
    <3>3. packet'[b] = packet[b] /\ groups'[b] = groups[b]
      BY <1>1, <1>5, <3>1, BanksKept
    <3> QED
      BY <3>2, <3>3, Zenon DEF Complete
  <2> QED
    BY <2>1, <2>2
<1>11. /\ 1 - O = N /\ O # N /\ L \in {N, O} /\ full'[N] \in BOOLEAN /\ full'[O] \in BOOLEAN
       /\ full[N] \in BOOLEAN /\ full[O] \in BOOLEAN
  BY <1>0, <1>3, <1>6, BanksAre
<1>12. /\ full'[N] <=> (fin /\ N = L) \/ (full[N] /\ ~(del /\ N = encodeBank))
       /\ full'[O] <=> (fin /\ O = L) \/ (full[O] /\ ~(del /\ O = encodeBank))
  BY <1>0, <1>3
<1>13. del => encodeBank = N /\ full[N] /\ N' = O
  BY <1>2, <1>6
<1> DEFINE Order(l, n, o) ==
             /\ l = IF full'[n] /\ ~full'[o] THEN o ELSE n
             /\ full'[o] => full'[n]
             /\ payloadCount' > 0 => ~full'[l]
             /\ emit' # "E_IDLE" => encodeBank' = n /\ full'[n]
<1>14. Order(loadBank', N', 1 - N')
  <2>1. CASE fin /\ del
    <3>1. full[N] /\ ~full[L] /\ L = O /\ ~full[O] /\ ~full'[N] /\ full'[O]
      BY <1>6, <1>7, <1>11, <1>12, <1>13, <2>1
    <3>2. loadBank' = N /\ N' = O /\ 1 - N' = N /\ payloadCount' = 0 /\ emit' = "E_IDLE"
      BY <1>2, <1>7, <1>11, <1>13, <2>1, <3>1
    <3> QED
      BY <3>1, <3>2
  <2>2. CASE fin /\ ~del
    <3>1. N' = N /\ 1 - N' = O /\ payloadCount' = 0 /\ loadBank' = 1 - L
      BY <1>2, <1>7, <2>2
    <3>2. emit' # "E_IDLE" => encodeBank' = N /\ full[N]
      BY <1>2, <1>6
    <3>3. CASE L = N
      <4>1. ~full[N] /\ ~full[O] /\ full'[N] /\ ~full'[O]
        BY <1>6, <1>7, <1>11, <1>12, <2>2, <3>3
      <4> QED
        BY <3>1, <3>2, <3>3, <4>1
    <3>4. CASE L = O
      <4>1. full[N] /\ full'[N] /\ full'[O] /\ loadBank' = N
        BY <1>6, <1>7, <1>11, <1>12, <2>2, <3>1, <3>4
      <4> QED
        BY <3>1, <3>2, <4>1
    <3> QED
      BY <1>11, <3>3, <3>4
  <2>3. CASE ~fin /\ del
    <3>1. full[N] /\ ~full'[N] /\ (full'[O] <=> full[O])
      BY <1>11, <1>12, <1>13, <2>3
    <3>2. N' = O /\ 1 - N' = N /\ emit' = "E_IDLE" /\ loadBank' = L
      BY <1>2, <1>8, <1>11, <1>13, <2>3
    <3>3. CASE full[O]
      <4>1. L = N
        BY <1>6, <3>3
      <4> QED
        BY <3>1, <3>2, <3>3, <4>1
    <3>4. CASE ~full[O]
      <4>1. L = O
        BY <1>6, <3>1, <3>4
      <4> QED
        BY <3>1, <3>2, <3>4, <4>1
    <3> QED
      BY <3>3, <3>4
  <2>4. CASE ~fin /\ ~del
    <3>1. (full'[N] <=> full[N]) /\ (full'[O] <=> full[O])
      BY <1>11, <1>12, <2>4
    <3>2. N' = N /\ 1 - N' = O /\ loadBank' = L
      BY <1>2, <1>8, <2>4
    <3>3. emit' # "E_IDLE" => encodeBank' = N /\ full[N]
      BY <1>2, <1>6
    <3>4. payloadCount' > 0 => ~full[L]
      BY <1>0, <1>9, <2>4
    <3>5. full'[L] <=> full[L]
      BY <1>11, <3>1
    <3> QED
      BY <1>6, <1>11, <3>1, <3>2, <3>3, <3>4, <3>5
  <2> QED
    BY <2>1, <2>2, <2>3, <2>4
<1>15. BankOrder'
  BY <1>14 DEF BankOrder
<1> QED
  BY <1>4, <1>10, <1>15 DEF BankInv
-----------------------------------------------------------------------------
(***************************************************************************)
(* What leaves                                                             *)
(***************************************************************************)
SentAt(phase, group, raw, left, f, st, p, g) ==
  /\ group \in Nat /\ Cut(st, p, g)
  /\ phase = "E_CODE" => AtCode(raw, group + 1, f, st, p, g)
  /\ phase = "E_DATA" => AtData(raw, group + 1, left, f, st, p, g)
  /\ phase = "E_DELIMITER" => AtEnd(group + 1, f, p, g)

SentOf(st, p, g) == SentAt(emit, emitGroup, rawIndex, remaining, frame, st, p, g)

SentInv ==
  /\ emit = "E_IDLE" => frame = <<>>
  /\ emit # "E_IDLE" => \E st : SentOf(st, packet[encodeBank], groups[encodeBank])

LEMMA CodeBegins ==
  ASSUME NEW p \in Seq(Byte), NEW g \in Seq(0 .. GroupMax), NEW st, Cut(st, p, g)
  PROVE  AtCode(0, 0 + 1, <<>>, st, p, g)
<1> DEFINE n == Len(g) - 1
<1>1. n \in Nat /\ 0 + 1 \in 1 .. Len(g) /\ 0 + 1 = 1
  BY LenProperties DEF Cut
<1>2. Starts(st, p, g, n)
  BY DEF Cut
<1> HIDE DEF n
<1>3. Encoding(p)[0].out = <<>> /\ st[1] = 0
  BY <1>1, <1>2, StartsEncode
<1>4. Encoding(p)[st[1]].out = <<>>
  BY <1>3, Zenon
<1>5. Encoding(p)[st[0 + 1]].out = <<>>
  BY <1>1, <1>4, Zenon
<1> QED
  BY <1>1, <1>3, <1>5 DEF AtCode

LEMMA SentStep ==
  ASSUME LoadType, LoadCount, EmitType, BankInv, SentInv, NEW in, NEW ready \in BOOLEAN,
         EncoderEdge(in, ready), Observe(ready)
  PROVE  SentInv'
<1> DEFINE p == packet[encodeBank]
           g == groups[encodeBank]
           i == emitGroup + 1
<1>0. Load(in) /\ Emit(ready)
  BY DEF EncoderEdge
<1>1. \A b \in Bank : full[b] => packet'[b] = packet[b] /\ groups'[b] = groups[b]
  BY <1>0, BanksKept
<1>2. \A b \in Bank : packet[b] \in Seq(Byte) /\ groups[b] \in Seq(0 .. GroupMax)
  BY DEF LoadType
<1>3. encodeBank \in Bank /\ nextEncodeBank \in Bank
      /\ emit \in {"E_IDLE", "E_CODE", "E_DATA", "E_DELIMITER"}
  BY DEF EmitType
\* While a frame is on its way out, its bank stays.
<1>4. ASSUME emit # "E_IDLE"
      PROVE  /\ encodeBank' = encodeBank /\ packet'[encodeBank'] = p /\ groups'[encodeBank'] = g
             /\ p \in Seq(Byte) /\ g \in Seq(0 .. GroupMax)
             /\ \E st : SentOf(st, p, g)
  <2>1. encodeBank = nextEncodeBank /\ full[nextEncodeBank]
    BY <1>4 DEF BankInv, BankOrder
  <2>2. encodeBank' = encodeBank
    BY <1>0, <1>4, EmitBank
  <2>3. \E st : SentOf(st, p, g)
    BY <1>4 DEF SentInv
  <2> QED
    BY <1>1, <1>2, <1>3, <2>1, <2>2, <2>3
<1>5. CASE StartFrame
  <2>1. emit = "E_IDLE" /\ frame' = frame /\ frame = <<>>
    BY <1>5 DEF StartFrame, Observe, OutputValid, OutputLast, SentInv
  <2>2. CASE full[nextEncodeBank]
    <3>1. /\ encodeBank' = nextEncodeBank /\ rawIndex' = 0 /\ emitGroup' = 0 /\ emit' = "E_CODE"
      BY <1>5, <2>2 DEF StartFrame
    <3> DEFINE q == packet[nextEncodeBank]
               h == groups[nextEncodeBank]
    <3>2. PICK st : Cut(st, q, h)
      BY <1>3, <2>2 DEF BankInv, Complete
    <3>3. q \in Seq(Byte) /\ h \in Seq(0 .. GroupMax)
      BY <1>2, <1>3
    <3>4. packet'[encodeBank'] = q /\ groups'[encodeBank'] = h
      BY <1>1, <1>3, <2>2, <3>1
    <3> HIDE DEF q, h
    <3>5. AtCode(0, 0 + 1, <<>>, st, q, h)
      BY <3>2, <3>3, CodeBegins
    <3>6. AtCode(rawIndex', emitGroup' + 1, frame', st, q, h)
      BY <2>1, <3>1, <3>5, Zenon
    <3>7. SentAt(emit', emitGroup', rawIndex', remaining', frame', st, q, h)
      BY <3>1, <3>2, <3>6 DEF SentAt
    <3> QED
      BY <3>1, <3>4, <3>7 DEF SentInv, SentOf
  <2>3. CASE ~full[nextEncodeBank]
    <3>1. emit' = emit
      BY <1>5, <2>3 DEF StartFrame
    <3> QED
      BY <2>1, <3>1 DEF SentInv, SentOf
  <2> QED
    BY <2>2, <2>3
<1>6. CASE ready /\ EmitCode
  <2>1. emit = "E_CODE" /\ frame' = Append(frame, OutputData) /\ OutputData = GroupLength + 1
    BY <1>6 DEF EmitCode, Observe, OutputValid, OutputLast, OutputData
  <2>2. PICK st : SentOf(st, p, g)
    BY <1>4, <2>1
  <2>3. p \in Seq(Byte) /\ g \in Seq(0 .. GroupMax) /\ packet'[encodeBank'] = p /\ groups'[encodeBank'] = g
    BY <1>4, <2>1
  <2>4. emitGroup \in Nat /\ Cut(st, p, g) /\ AtCode(rawIndex, i, frame, st, p, g) /\ i \in 1 .. Len(g)
    BY <2>1, <2>2 DEF SentOf, SentAt, AtCode
  <2>5. GroupLength = g[i] /\ (LastGroup <=> i = Len(g))
    BY <2>3, <2>4, LenProperties DEF GroupLength, At, LastGroup
  <2>6. EmitCode
    BY <1>6
  <2> HIDE DEF p, g
  <2> DEFINE z == Append(frame, g[i] + 1)
  <2>7. /\ g[i] > 0 => AtData(rawIndex, i, g[i], z, st, p, g)
        /\ ~(g[i] > 0) /\ i = Len(g) => AtEnd(i, z, p, g)
        /\ ~(g[i] > 0) /\ i # Len(g) => AtCode(rawIndex + 1, i + 1, z, st, p, g)
    BY <2>3, <2>4, CodeSent
  <2>8. frame' = z
    BY <2>1, <2>5
  <2> HIDE DEF z
  <2>9. SentAt(emit', emitGroup', rawIndex', remaining', frame', st, p, g) /\ emit' # "E_IDLE"
    <3>1. CASE g[i] > 0
      <4>1. remaining' = g[i] /\ emit' = "E_DATA" /\ rawIndex' = rawIndex /\ emitGroup' = emitGroup
        BY <2>5, <2>6, <3>1 DEF EmitCode
      <4>2. AtData(rawIndex', emitGroup' + 1, remaining', frame', st, p, g)
        BY <2>7, <2>8, <3>1, <4>1, Zenon
      <4> QED
        BY <2>4, <4>1, <4>2 DEF SentAt
    <3>2. CASE ~(g[i] > 0) /\ i = Len(g)
      <4>1. emit' = "E_DELIMITER" /\ emitGroup' = emitGroup
        BY <2>5, <2>6, <3>2 DEF EmitCode
      <4>2. AtEnd(emitGroup' + 1, frame', p, g)
        BY <2>7, <2>8, <3>2, <4>1, Zenon
      <4> QED
        BY <2>4, <4>1, <4>2 DEF SentAt
    <3>3. CASE ~(g[i] > 0) /\ i # Len(g)
      <4>1. emit' = "E_CODE" /\ rawIndex' = rawIndex + 1 /\ emitGroup' = emitGroup + 1
        BY <2>1, <2>5, <2>6, <3>3 DEF EmitCode
      <4>2. AtCode(rawIndex', emitGroup' + 1, frame', st, p, g)
        BY <2>7, <2>8, <3>3, <4>1, Zenon
      <4> QED
        BY <2>4, <4>1, <4>2 DEF SentAt
    <3> QED
      BY <3>1, <3>2, <3>3
  <2> QED
    BY <2>3, <2>9, Zenon DEF SentInv, SentOf
<1>7. CASE ready /\ EmitData
  <2>1. emit = "E_DATA" /\ frame' = Append(frame, OutputData) /\ OutputData = At(packet[encodeBank], rawIndex)
    BY <1>7 DEF EmitData, Observe, OutputValid, OutputLast, OutputData
  <2>2. PICK st : SentOf(st, p, g)
    BY <1>4, <2>1
  <2>3. p \in Seq(Byte) /\ g \in Seq(0 .. GroupMax) /\ packet'[encodeBank'] = p /\ groups'[encodeBank'] = g
    BY <1>4, <2>1
  <2>4. emitGroup \in Nat /\ Cut(st, p, g) /\ AtData(rawIndex, i, remaining, frame, st, p, g)
        /\ i \in 1 .. Len(g)
    BY <2>1, <2>2 DEF SentOf, SentAt, AtData
  <2>5. GroupLength = g[i] /\ (LastGroup <=> i = Len(g))
    BY <2>3, <2>4, LenProperties DEF GroupLength, At, LastGroup
  <2>6. EmitData
    BY <1>7
  <2> DEFINE z == Append(frame, p[rawIndex + 1])
             next == rawIndex + (IF g[i] = GroupMax THEN 1 ELSE 2)
  <2>7. /\ rawIndex \in Nat /\ rawIndex < Len(p)
        /\ remaining > 1 => AtData(rawIndex + 1, i, remaining - 1, z, st, p, g)
        /\ ~(remaining > 1) /\ i = Len(g) => AtEnd(i, z, p, g)
        /\ ~(remaining > 1) /\ i # Len(g) => AtCode(next, i + 1, z, st, p, g)
    BY <2>3, <2>4, DataSent
  <2>8. frame' = z
    BY <2>1, <2>7 DEF At
  <2> HIDE DEF z, p, g
  <2>9. SentAt(emit', emitGroup', rawIndex', remaining', frame', st, p, g) /\ emit' # "E_IDLE"
    <3>1. CASE remaining > 1
      <4>1. /\ remaining' = remaining - 1 /\ emit' = emit /\ rawIndex' = rawIndex + 1
            /\ emitGroup' = emitGroup
        BY <2>6, <3>1 DEF EmitData
      <4>2. AtData(rawIndex', emitGroup' + 1, remaining', frame', st, p, g)
        BY <2>7, <2>8, <3>1, <4>1, Zenon
      <4> QED
        BY <2>1, <2>4, <4>1, <4>2 DEF SentAt
    <3>2. CASE ~(remaining > 1) /\ i = Len(g)
      <4>1. emit' = "E_DELIMITER" /\ emitGroup' = emitGroup
        BY <2>5, <2>6, <3>2 DEF EmitData
      <4>2. AtEnd(emitGroup' + 1, frame', p, g)
        BY <2>7, <2>8, <3>2, <4>1, Zenon
      <4> QED
        BY <2>4, <4>1, <4>2 DEF SentAt
    <3>3. CASE ~(remaining > 1) /\ i # Len(g)
      <4>1. emit' = "E_CODE" /\ rawIndex' = next /\ emitGroup' = emitGroup + 1
        BY <2>1, <2>5, <2>6, <3>3 DEF EmitData
      <4> HIDE DEF next
      <4>2. AtCode(rawIndex', emitGroup' + 1, frame', st, p, g)
        BY <2>7, <2>8, <3>3, <4>1, Zenon
      <4> QED
        BY <2>4, <4>1, <4>2 DEF SentAt
    <3> QED
      BY <3>1, <3>2, <3>3
  <2> QED
    BY <2>3, <2>9, Zenon DEF SentInv, SentOf
<1>8. CASE ready /\ EmitDelimiter
  <2>1. emit' = "E_IDLE" /\ frame' = <<>>
    BY <1>8 DEF EmitDelimiter, Observe, OutputLast
  <2> QED
    BY <2>1 DEF SentInv, SentOf
<1>9. CASE ~ready /\ OutputValid /\ UNCHANGED emitVars
  <2>1. /\ emit # "E_IDLE" /\ frame' = frame
        /\ UNCHANGED <<encodeBank, emit, rawIndex, emitGroup, remaining>>
    BY <1>9 DEF OutputValid, Observe, emitVars
  <2>2. PICK st : SentOf(st, p, g)
    BY <1>4, <2>1
  <2>3. packet'[encodeBank'] = p /\ groups'[encodeBank'] = g
    BY <1>4, <2>1
  <2> HIDE DEF p, g
  <2>4. SentAt(emit', emitGroup', rawIndex', remaining', frame', st, p, g)
    BY <2>1, <2>2, Zenon DEF SentOf
  <2> QED
    BY <2>1, <2>3, <2>4 DEF SentInv, SentOf
<1> QED
  BY <1>0, <1>5, <1>6, <1>7, <1>8, <1>9 DEF Emit
-----------------------------------------------------------------------------
(***************************************************************************)
(* The packetizer, and the invariant of the path                           *)
(***************************************************************************)
HeldType ==
  held \in BOOLEAN /\ heldData \in Byte /\ heldChannel \in Byte /\ endPending \in BOOLEAN

PathInv == LoadType /\ LoadInv /\ EmitType /\ BankInv /\ SentInv /\ HeldType

LEMMA OffersAre ==
  ASSUME NEW in \in Offers
  PROVE  /\ in.valid \in BOOLEAN /\ in.channel \in Byte /\ in.data \in Byte
         /\ in.valid => in.channel \in Channel /\ in.data \in Data
<1>1. CASE in = NoByte
  BY <1>1, BytesAre DEF NoByte
<1>2. CASE in # NoByte
  <2>1. in.valid \in BOOLEAN /\ in.channel \in Channel /\ in.data \in Data
    BY <1>2 DEF Offers
  <2> QED
    BY <2>1, BytesAre, StreamAssumption
<1> QED
  BY <1>1, <1>2

LEMMA HeldStep ==
  ASSUME HeldType, NEW in \in Offers, Packetizer(in)
  PROVE  HeldType' /\ InputType(PacketByte(in))
<1>0. in.valid \in BOOLEAN /\ in.channel \in Byte /\ in.data \in Byte
  BY OffersAre
<1>1. InputType(PacketByte(in))
  <2>1. PacketValid(in) \in BOOLEAN /\ PacketLast(in) \in BOOLEAN
    BY <1>0 DEF HeldType, PacketValid, PacketLast, ChannelBoundary, SizeBoundary
  <2> QED
    BY <2>1 DEF InputType, PacketByte, HeldType
<1>2. held' \in BOOLEAN /\ endPending' \in BOOLEAN
  <2>1. held \in BOOLEAN /\ endPending \in BOOLEAN
    BY DEF HeldType
  <2>2. held' \in {TRUE, FALSE, held}
    BY Zenon DEF Packetizer, SendHeld, HoldFirst, Hold, Wait
  <2>3. endPending' \in {FALSE, endPending, endPending \/ (held /\ idle = 1)}
    BY Zenon DEF Packetizer, SendHeld, HoldFirst, Wait
  <2>4. held' \in BOOLEAN
    BY <2>1, <2>2
  <2>5. endPending' \in BOOLEAN
    BY <2>1, <2>3
  <2> QED
    BY <2>4, <2>5
<1>3. heldData' \in {heldData, in.data} /\ heldChannel' \in {heldChannel, in.channel}
  BY Zenon DEF Packetizer, SendHeld, HoldFirst, Hold, Wait
<1> QED
  BY <1>0, <1>1, <1>2, <1>3 DEF HeldType

LEMMA PathBegins == Init => PathInv
<1> SUFFICES ASSUME Init PROVE PathInv
  OBVIOUS
<1>0. /\ packet = [b \in Bank |-> <<>>] /\ groups = [b \in Bank |-> <<>>]
      /\ full = [b \in Bank |-> FALSE]
      /\ loadBank = 0 /\ encodeBank = 0 /\ nextEncodeBank = 0
      /\ load = "L_ACCEPT" /\ emit = "E_IDLE"
      /\ payloadCount = 0 /\ rawLength = 0 /\ groupIndex = 0 /\ groupLength = 0
      /\ checksum = 0 /\ pending = [data |-> 0, last |-> FALSE] /\ dropping = FALSE
      /\ held = FALSE /\ heldData = 0 /\ heldChannel = 0
      /\ endPending = FALSE /\ frame = <<>>
  BY DEF Init, EncoderInit
<1>1. 0 \in Bank /\ 0 \in Byte /\ 0 \in 0 .. GroupMax - 1 /\ 0 \in 0 .. MaxPayload
  BY BytesAre, EncoderAssumption DEF Bank
<1>2. LoadType
  <2>1. packet \in [Bank -> Seq(Byte)] /\ groups \in [Bank -> Seq(0 .. GroupMax)]
    BY <1>0
  <2>2. pending \in [data : Byte, last : BOOLEAN]
    BY <1>0, <1>1
  <2> QED
    BY <1>0, <1>1, <2>1, <2>2 DEF LoadType
<1>3. LoadPlace
  <2>1. groups[loadBank] = <<>> /\ packet[loadBank] = <<>>
    BY <1>0, <1>1
  <2>2. Loaded = <<>>
    <3>1. SubSeq(packet[loadBank], 1, 0) = <<>>
      BY SubSeqEmpty
    <3> QED
      BY <1>0, <3>1 DEF Loaded
  <2>3. Grouped(<<>>, groups[loadBank], 0, 0)
    BY NothingGrouped
  <2>4. Len(<<>>) = 0
    OBVIOUS
  <2> QED
    BY <1>0, <2>1, <2>2, <2>3, <2>4 DEF LoadPlace
<1>4. LoadSum /\ LoadCount
  BY <1>0 DEF LoadSum, LoadCount
<1>5. EmitType
  BY <1>0, <1>1 DEF EmitType
<1>6. BankInv
  <2>1. \A b \in Bank : ~full[b]
    BY <1>0
  <2>2. 1 - 0 \in Bank
    BY DEF Bank
  <2> QED
    BY <1>0, <1>1, <2>1, <2>2 DEF BankInv, BankOrder
<1>7. SentInv
  BY <1>0 DEF SentInv
<1>8. HeldType
  BY <1>0, <1>1 DEF HeldType
<1> QED
  BY <1>2, <1>3, <1>4, <1>5, <1>6, <1>7, <1>8 DEF PathInv, LoadInv

LEMMA PathStep == PathInv /\ [Next]_vars => PathInv'
<1>1. ASSUME PathInv, Next PROVE PathInv'
  <2>1. PICK in \in Offers, ready \in BOOLEAN : Edge(in, ready)
    BY <1>1 DEF Next
  <2> DEFINE out == PacketByte(in)
  <2>2. Packetizer(in) /\ EncoderEdge(out, ready) /\ Observe(ready) /\ Load(out)
    BY <2>1 DEF Edge, EncoderEdge
  <2>3. LoadType /\ LoadInv /\ EmitType /\ BankInv /\ SentInv /\ HeldType /\ LoadCount
    BY <1>1 DEF PathInv, LoadInv
  <2>4. HeldType' /\ InputType(out)
    BY <2>2, <2>3, HeldStep
  <2> HIDE DEF out
  <2>5. LoadType' /\ LoadInv'
    BY <2>2, <2>3, <2>4, LoadStep
  <2>6. EmitType' /\ BankInv'
    BY <2>2, <2>3, <2>5, BankStep
  <2>7. SentInv'
    BY <2>2, <2>3, SentStep
  <2> QED
    BY <2>4, <2>5, <2>6, <2>7 DEF PathInv
<1>2. ASSUME PathInv, UNCHANGED vars PROVE PathInv'
  <2>1. UNCHANGED <<packet, groups, full, loadBank, load, payloadCount, rawLength, groupIndex,
                    groupLength, checksum, pending, dropping>>
    BY <1>2 DEF vars, encoderVars, loadVars, bankVars
  <2>2. UNCHANGED <<encodeBank, nextEncodeBank, emit, rawIndex, emitGroup, remaining, frame,
                    held, heldData, heldChannel, endPending>>
    BY <1>2 DEF vars, encoderVars, emitVars, packetizerVars
  <2>3. LoadType' /\ HeldType' /\ EmitType'
    BY <1>2, <2>1, <2>2 DEF PathInv, LoadType, HeldType, EmitType
  <2>4. LoadInv'
    BY <1>2, <2>1 DEF PathInv, LoadInv, LoadPlace, LoadSum, LoadCount, Loaded
  <2>5. BankInv'
    <3>1. BankOrder'
      BY <1>2, <2>1, <2>2 DEF PathInv, BankInv, BankOrder
    <3>2. \A b \in Bank : full'[b] => Complete(b)'
      BY <1>2, <2>1 DEF PathInv, BankInv, Complete
    <3> QED
      BY <3>1, <3>2 DEF BankInv
  <2>6. SentInv'
    BY <1>2, <2>1, <2>2 DEF PathInv, SentInv, SentOf
  <2> QED
    BY <2>3, <2>4, <2>5, <2>6 DEF PathInv
<1> QED
  BY <1>1, <1>2

LEMMA PathHolds == Spec => []PathInv
BY PathBegins, PathStep, PTL DEF Spec

-----------------------------------------------------------------------------
(***************************************************************************)
(* Packets are cut where the encoder can take them                         *)
(***************************************************************************)
\* More bytes belong to the packet being loaded.
Going == load = "L_ACCEPT" \/ (load = "L_FIRST_DATA" /\ ~pending.last)

\* The packetizer counts what the encoder has, and the byte it holds: no packet
\* outgrows a bank, and no packet has two channels.
CountInv ==
  /\ ~dropping
  /\ count \in 0 .. MaxPayload /\ (held <=> count > 0)
  /\ Going /\ held => payloadCount = count - 1
  /\ ~Going /\ held => count = 1
  /\ Going /\ payloadCount > 0 => held /\ packet[loadBank][1] = heldChannel

\* The byte that is held is taken into the packet.
LEMMA SentIsTaken ==
  ASSUME LoadType, LoadCount, CountInv, HeldType, NEW in \in Offers, Sent(in),
         Load(PacketByte(in))
  PROVE  /\ load = "L_ACCEPT" /\ loadBank' = loadBank /\ held /\ payloadCount = count - 1
         /\ \/ /\ payloadCount = 0 /\ AppendRaw(heldChannel)
               /\ pending' = [data |-> heldData, last |-> PacketLast(in)]
               /\ payloadCount' = 1 /\ load' = "L_FIRST_DATA" /\ dropping' = dropping
            \/ /\ payloadCount > 0 /\ AppendRaw(heldData) /\ heldChannel = packet[loadBank][1]
               /\ payloadCount' = payloadCount + 1 /\ dropping' = dropping /\ pending' = pending
               /\ load' = IF PacketLast(in) THEN "L_CHECKSUM" ELSE "L_ACCEPT"
<1> DEFINE out == PacketByte(in)
<1>1. /\ EncoderReady /\ out.valid /\ held /\ load = "L_ACCEPT"
      /\ out.channel = heldChannel /\ out.data = heldData /\ out.last = PacketLast(in)
  BY DEF Sent, PacketByte, PacketValid, EncoderReady
<1> HIDE DEF out
<1>2. /\ loadBank' = loadBank
      /\ AcceptFirst(out) \/ AcceptNext(out) \/ AcceptTooMuch(out)
  BY <1>1 DEF Load, Accept, FirstData, Checksum, Finalize, out
<1>3. payloadCount = count - 1 /\ count \in 1 .. MaxPayload /\ ~dropping
  BY <1>1, EncoderAssumption DEF CountInv, Going
<1>4. ~AcceptTooMuch(out)
  BY <1>3, EncoderAssumption DEF AcceptTooMuch
<1>5. CASE AcceptFirst(out)
  BY <1>1, <1>2, <1>3, <1>5 DEF AcceptFirst
<1>6. CASE AcceptNext(out)
  <2>1. payloadCount > 0
    BY <1>6 DEF AcceptNext
  <2>2. heldChannel = packet[loadBank][1]
    BY <1>1, <2>1 DEF CountInv, Going
  <2> QED
    BY <1>1, <1>2, <1>3, <1>6, <2>1, <2>2 DEF AcceptNext
<1> QED
  BY <1>2, <1>4, <1>5, <1>6

\* The first byte of a packet stays while others are added.
LEMMA FirstStays ==
  ASSUME LoadType, LoadPlace, NEW v \in Byte, AppendRaw(v), loadBank' = loadBank
  PROVE  /\ rawLength > 0 => packet'[loadBank'][1] = packet[loadBank][1]
         /\ rawLength = 0 => packet'[loadBank'][1] = v
<1> DEFINE s == packet[loadBank]
           t == Written(s, rawLength, v)
<1>1. /\ s \in Seq(Byte) /\ rawLength \in 0 .. Len(s) /\ rawLength \in Nat
      /\ packet \in [Bank -> Seq(Byte)] /\ loadBank \in Bank
  BY LoadedIs DEF LoadType
<1>2. packet' = [packet EXCEPT ![loadBank] = t]
  BY DEF AppendRaw
<1>3. packet'[loadBank'] = t
  BY <1>1, <1>2
<1>4. /\ \A j \in 1 .. rawLength : t[j] = s[j]
      /\ t[rawLength + 1] = v
  BY <1>1, WrittenIs
<1> HIDE DEF t
<1>5. ASSUME rawLength > 0 PROVE t[1] = s[1]
  BY <1>1, <1>4, <1>5
<1>6. ASSUME rawLength = 0 PROVE t[1] = v
  BY <1>4, <1>6
<1> QED
  BY <1>3, <1>5, <1>6

LEMMA CountStep ==
  ASSUME PathInv, CountInv, NEW in \in Offers, Packetizer(in), Load(PacketByte(in))
  PROVE  CountInv'
<1> DEFINE out == PacketByte(in)
<1>0. /\ LoadType /\ LoadPlace /\ LoadCount /\ HeldType
      /\ heldChannel \in Byte /\ heldData \in Byte /\ payloadCount \in Nat /\ rawLength \in Nat
      /\ MaxPayload \in Nat \ {0} /\ pending.data \in Byte /\ checksum \in Byte
      /\ load \in {"L_ACCEPT", "L_FIRST_DATA", "L_CHECKSUM", "L_FINALIZE"}
      /\ in.valid \in BOOLEAN
  BY EncoderAssumption, OffersAre DEF PathInv, LoadInv, HeldType, LoadType
<1>1. CASE SendHeld(in)
  <2>1. Sent(in) /\ PacketValid(in)
    BY <1>1 DEF SendHeld, Sent
  <2>2. /\ load = "L_ACCEPT" /\ loadBank' = loadBank /\ held /\ payloadCount = count - 1
        /\ \/ /\ payloadCount = 0 /\ AppendRaw(heldChannel)
              /\ pending' = [data |-> heldData, last |-> PacketLast(in)]
              /\ payloadCount' = 1 /\ load' = "L_FIRST_DATA" /\ dropping' = dropping
           \/ /\ payloadCount > 0 /\ AppendRaw(heldData) /\ heldChannel = packet[loadBank][1]
              /\ payloadCount' = payloadCount + 1 /\ dropping' = dropping /\ pending' = pending
              /\ load' = IF PacketLast(in) THEN "L_CHECKSUM" ELSE "L_ACCEPT"
    BY <1>0, <2>1, SentIsTaken
  <2>3. ~dropping' /\ payloadCount' = count /\ count \in 1 .. MaxPayload
    BY <1>0, <2>2 DEF CountInv
  <2>4. Going' <=> ~PacketLast(in)
    BY <2>2 DEF Going
  <2>5. packet'[loadBank'][1] = heldChannel
    <3>1. payloadCount = 0 => rawLength = 0
      BY <1>0 DEF LoadCount
    <3>2. payloadCount > 0 => rawLength > 0
      BY <1>0, <2>2 DEF LoadCount
    <3> QED
      BY <1>0, <2>2, <3>1, <3>2, FirstStays
  <2>6. CASE in.valid
    <3>1. /\ held' /\ heldChannel' = in.channel
          /\ count' = IF PacketLast(in) THEN 1 ELSE count + 1
      BY <1>1, <2>6 DEF SendHeld, Hold
    <3>2. ~PacketLast(in) => in.channel = heldChannel /\ count # MaxPayload
      BY <2>2, <2>6 DEF PacketLast, ChannelBoundary, SizeBoundary
    <3>3. CASE PacketLast(in)
      BY <1>0, <2>3, <2>4, <3>1, <3>3 DEF CountInv
    <3>4. CASE ~PacketLast(in)
      BY <1>0, <2>3, <2>4, <2>5, <3>1, <3>2, <3>4 DEF CountInv
    <3> QED
      BY <3>3, <3>4
  <2>7. CASE ~in.valid
    <3>1. ~held' /\ count' = 0
      BY <1>1, <2>7 DEF SendHeld
    <3>2. PacketLast(in)
      BY <2>1, <2>7 DEF PacketValid, PacketLast
    <3> QED
      BY <1>0, <2>3, <2>4, <3>1, <3>2 DEF CountInv
  <2> QED
    BY <2>6, <2>7
<1>2. CASE ~Sent(in)
\* Holding a first byte, or waiting.
  <2>1. \/ ~held /\ held' /\ count' = 1
        \/ held' = held /\ heldChannel' = heldChannel /\ count' = count
    BY <1>2 DEF Packetizer, SendHeld, HoldFirst, Hold, Wait
  <2>2. CASE load = "L_ACCEPT"
    <3>1. ~(out.valid /\ EncoderReady)
      BY <1>2 DEF PacketByte, Sent
    <3>2. UNCHANGED <<load, payloadCount, packet, pending, dropping, loadBank>>
      BY <2>2, <3>1 DEF Load, Accept, FirstData, Checksum, Finalize
    <3> QED
      BY <1>0, <2>1, <2>2, <3>2 DEF CountInv, Going
  <2>3. CASE load = "L_FIRST_DATA"
    <3>1. /\ AppendRaw(pending.data) /\ loadBank' = loadBank
          /\ load' = (IF pending.last THEN "L_CHECKSUM" ELSE "L_ACCEPT")
          /\ UNCHANGED <<payloadCount, pending, dropping>>
      BY <2>3 DEF Load, Accept, FirstData, Checksum, Finalize
    <3>2. payloadCount = 1 /\ rawLength > 0
      BY <1>0, <2>3 DEF LoadCount
    <3>3. packet'[loadBank'][1] = packet[loadBank][1]
      BY <1>0, <3>1, <3>2, FirstStays
    <3>4. Going' <=> Going
      BY <2>3, <3>1 DEF Going
    <3> QED
      BY <1>0, <2>1, <3>1, <3>2, <3>3, <3>4 DEF CountInv
  <2>4. CASE load = "L_CHECKSUM"
    <3>1. load' = "L_FINALIZE" /\ UNCHANGED <<payloadCount, dropping>>
      BY <2>4 DEF Load, Accept, FirstData, Checksum, Finalize
    <3>2. ~Going /\ ~Going'
      BY <2>4, <3>1 DEF Going
    <3> QED
      BY <1>0, <2>1, <3>1, <3>2 DEF CountInv
  <2>5. CASE load = "L_FINALIZE"
    <3>1. load' = "L_ACCEPT" /\ payloadCount' = 0 /\ dropping' = dropping
      BY <2>5 DEF Load, Accept, FirstData, Checksum, Finalize, ClearLoad
    <3>2. ~Going /\ Going'
      BY <2>5, <3>1 DEF Going
    <3> QED
      BY <1>0, <2>1, <3>1, <3>2 DEF CountInv
  <2> QED
    BY <1>0, <2>2, <2>3, <2>4, <2>5
<1>3. Sent(in) => SendHeld(in)
  BY DEF Packetizer, HoldFirst, Wait, Sent, PacketValid
<1> QED
  BY <1>1, <1>2, <1>3

LEMMA CountHolds == Spec => [](PathInv /\ CountInv)
<1>1. Init => CountInv
  BY EncoderAssumption DEF Init, EncoderInit, CountInv
<1>2. ASSUME PathInv, CountInv, [Next]_vars PROVE CountInv'
  <2>1. CASE Next
    BY <1>2, <2>1, CountStep DEF Next, Edge, EncoderEdge
  <2>2. CASE UNCHANGED vars
    <3>1. UNCHANGED <<dropping, count, held, load, pending, payloadCount, packet, loadBank, heldChannel>>
      BY <2>2 DEF vars, encoderVars, loadVars, bankVars, packetizerVars
    <3> QED
      BY <1>2, <3>1 DEF CountInv, Going
  <2> QED
    BY <1>2, <2>1, <2>2
<1> QED
  BY <1>1, <1>2, PathBegins, PathStep, PTL DEF Spec

-----------------------------------------------------------------------------
(***************************************************************************)
(* What is in the path, byte by byte                                       *)
(***************************************************************************)
Items == [channel : Byte, data : Byte]
ItemOf(c, b) == [channel |-> c, data |-> b]

\* The payload of the raw packet, up to its m-th byte.
PacketItems(raw, m) == ItemsOf(raw[1], SubSeq(raw, 2, m))

LEMMA ItemsAre ==
  ASSUME NEW c \in Byte, NEW s \in Seq(Byte)
  PROVE  /\ ItemsOf(c, s) \in Seq(Items) /\ Len(ItemsOf(c, s)) = Len(s)
         /\ \A k \in 1 .. Len(s) : ItemsOf(c, s)[k] = ItemOf(c, s[k])
<1> DEFINE n == Len(s)
           t == [k \in 1 .. n |-> ItemOf(c, s[k])]
<1>1. n \in Nat /\ DOMAIN s = 1 .. n /\ \A k \in 1 .. n : s[k] \in Byte
  BY LenProperties, ElementOfSeq
<1>2. ItemsOf(c, s) = t
  BY <1>1 DEF ItemsOf, ItemOf
<1>3. t \in [1 .. n -> Items]
  BY <1>1 DEF Items, ItemOf
<1>4. t \in Seq(Items) /\ Len(t) = n
  BY <1>1, <1>3, IsASeq, LenProperties
<1> HIDE DEF n
<1>5. \A k \in 1 .. n : t[k] = ItemOf(c, s[k])
  OBVIOUS
<1> HIDE DEF t
<1> QED
  BY <1>2, <1>4, <1>5 DEF n

LEMMA PacketItemsAre ==
  ASSUME NEW raw \in Seq(Byte), NEW m \in 1 .. Len(raw)
  PROVE  /\ PacketItems(raw, m) \in Seq(Items) /\ Len(PacketItems(raw, m)) = m - 1
         /\ \A k \in 1 .. m - 1 : PacketItems(raw, m)[k] = ItemOf(raw[1], raw[k + 1])
         /\ SubSeq(raw, 2, m) \in Seq(Byte) /\ Len(SubSeq(raw, 2, m)) = m - 1
         /\ \A k \in 1 .. m - 1 : SubSeq(raw, 2, m)[k] = raw[k + 1]
<1> DEFINE j == m - 1
           s == SubSeq(raw, 2, m)
<1>1. /\ j \in Nat /\ 1 + 1 = 2 /\ 1 + j = m /\ Len(raw) \in Nat
      /\ \A i \in 1 + 1 .. 1 + j : raw[i] \in Byte
  BY LenProperties, ElementOfSeq
<1> HIDE DEF j
<1>2. /\ SubSeq(raw, 1 + 1, 1 + j) \in Seq(Byte) /\ Len(SubSeq(raw, 1 + 1, 1 + j)) = j
      /\ \A i \in 1 .. j : SubSeq(raw, 1 + 1, 1 + j)[i] = raw[1 + i]
  <2>1. 1 \in Nat
    OBVIOUS
  <2> QED
    BY <1>1, <2>1, Window
<1>3. s \in Seq(Byte) /\ Len(s) = j /\ \A k \in 1 .. j : s[k] = raw[1 + k]
  BY <1>1, <1>2
<1> HIDE DEF s
<1>4. \A k \in 1 .. j : s[k] = raw[k + 1]
  <2>1. \A k \in 1 .. j : 1 + k = k + 1
    BY <1>1
  <2> QED
    BY <1>3, <2>1
<1>5. raw[1] \in Byte
  <2>1. 1 \in 1 .. Len(raw)
    BY <1>1
  <2> QED
    BY <2>1, ElementOfSeq
<1>6. /\ ItemsOf(raw[1], s) \in Seq(Items) /\ Len(ItemsOf(raw[1], s)) = Len(s)
      /\ \A k \in 1 .. Len(s) : ItemsOf(raw[1], s)[k] = ItemOf(raw[1], s[k])
  BY <1>3, <1>5, ItemsAre
<1>7. PacketItems(raw, m) = ItemsOf(raw[1], s)
  BY DEF PacketItems, s
<1> DEFINE t == ItemsOf(raw[1], s)
<1>8. t \in Seq(Items) /\ Len(t) = j /\ \A k \in 1 .. j : t[k] = ItemOf(raw[1], raw[k + 1])
  BY <1>3, <1>4, <1>6
<1> HIDE DEF t
<1>9. PacketItems(raw, m) = t
  BY <1>7 DEF t
<1> QED
  BY <1>3, <1>4, <1>8, <1>9 DEF j, s

LEMMA PacketItemsAppend ==
  ASSUME NEW raw \in Seq(Byte), raw # <<>>, NEW v \in Byte
  PROVE  /\ PacketItems(Append(raw, v), Len(raw) + 1)
              = Append(PacketItems(raw, Len(raw)), ItemOf(raw[1], v))
         /\ PacketItems(Append(raw, v), Len(raw)) = PacketItems(raw, Len(raw))
<1> DEFINE n == Len(raw)
           q == Append(raw, v)
           a == PacketItems(raw, n)
           b == PacketItems(q, n + 1)
           d == PacketItems(q, n)
           e == ItemOf(raw[1], v)
<1>1. n \in Nat \ {0}
  BY LenProperties, EmptySeq
<1>2. /\ q \in Seq(Byte) /\ Len(q) = n + 1 /\ q[n + 1] = v
      /\ \A i \in 1 .. n : q[i] = raw[i]
  BY AppendProperties
<1>3. raw[1] \in Byte /\ e \in Items
  <2>1. 1 \in 1 .. Len(raw)
    BY <1>1
  <2>2. raw[1] \in Byte
    BY <2>1, ElementOfSeq
  <2> QED
    BY <2>2 DEF Items, ItemOf
<1>4. a \in Seq(Items) /\ Len(a) = n - 1 /\ \A k \in 1 .. n - 1 : a[k] = ItemOf(raw[1], raw[k + 1])
  <2>1. n \in 1 .. Len(raw)
    BY <1>1
  <2> QED
    BY <2>1, PacketItemsAre
<1> HIDE DEF q, n
<1>5. n \in 1 .. Len(q) /\ n + 1 \in 1 .. Len(q) /\ (n + 1) - 1 = n /\ q[1] = raw[1]
  BY <1>1, <1>2
<1>6. /\ b \in Seq(Items) /\ Len(b) = (n + 1) - 1
      /\ \A k \in 1 .. (n + 1) - 1 : b[k] = ItemOf(q[1], q[k + 1])
  BY <1>2, <1>5, PacketItemsAre
<1>7. d \in Seq(Items) /\ Len(d) = n - 1 /\ \A k \in 1 .. n - 1 : d[k] = ItemOf(q[1], q[k + 1])
  BY <1>2, <1>5, PacketItemsAre
<1> HIDE DEF a, b, d, e
<1>8. /\ Append(a, e) \in Seq(Items) /\ Len(Append(a, e)) = (n - 1) + 1
      /\ \A k \in 1 .. n - 1 : Append(a, e)[k] = a[k]
      /\ Append(a, e)[(n - 1) + 1] = e
  BY <1>3, <1>4, AppendProperties
<1>9. \A k \in 1 .. n - 1 : k + 1 \in 1 .. n /\ k \in 1 .. n
  BY <1>1
<1>10. \A k \in 1 .. n - 1 : q[k + 1] = raw[k + 1]
  BY <1>2, <1>9
<1>11. d = a
  <2>1. \A k \in 1 .. Len(d) : d[k] = a[k]
    BY <1>4, <1>5, <1>7, <1>10
  <2> QED
    BY <1>4, <1>7, <2>1, SeqEqual
<1>12. b = Append(a, e)
  <2> DEFINE z == Append(a, e)
  <2>1. z \in Seq(Items) /\ Len(z) = n /\ z[n] = e /\ \A k \in 1 .. n - 1 : z[k] = a[k]
    <3>1. (n - 1) + 1 = n
      BY <1>1
    <3> QED
      BY <1>8, <3>1
  <2> HIDE DEF z
  <2>2. ASSUME NEW k \in 1 .. Len(b) PROVE b[k] = z[k]
    <3>0. k \in 1 .. n /\ b[k] = ItemOf(raw[1], q[k + 1])
      BY <1>5, <1>6, <2>2
    <3>1. CASE k = n
      BY <1>2, <2>1, <3>0, <3>1 DEF e
    <3>2. CASE k # n
      <4>1. k \in 1 .. n - 1
        BY <1>1, <3>0, <3>2
      <4> QED
        BY <1>4, <1>10, <2>1, <3>0, <4>1
    <3> QED
      BY <3>1, <3>2
  <2>3. Len(b) = Len(z)
    BY <1>5, <1>6, <2>1
  <2>4. b = z
    BY <1>6, <2>1, <2>2, <2>3, SeqEqual
  <2> QED
    BY <2>4 DEF z
<1> QED
  BY <1>11, <1>12 DEF a, b, d, e, q, n

\* What a packet with these raw bytes counts for while it is loaded.
LoadingAt(phase, n, raw, m, first) ==
  IF n = 0 THEN <<>> ELSE
  CASE phase = "L_FIRST_DATA" -> ItemsOf(raw[1], <<first>>)
    [] phase = "L_FINALIZE" -> PacketItems(raw, m - 1)
    [] OTHER -> PacketItems(raw, m)

\* The byte the packetizer takes at an edge.
Taken(in) == IF in.valid /\ InputReady(in) THEN <<ItemOf(in.channel, in.data)>> ELSE <<>>

LEMMA LoadingIs ==
  /\ Loading = LoadingAt(load, payloadCount, Loaded, rawLength, pending.data)
  /\ Loading' = LoadingAt(load', payloadCount', Loaded', rawLength', pending'.data)
BY Zenon DEF Loading, LoadingAt, Loaded, PacketItems

LEMMA OneItem ==
  ASSUME NEW c \in Byte, NEW d \in Byte
  PROVE  /\ ItemOf(c, d) \in Items /\ <<ItemOf(c, d)>> \in Seq(Items)
         /\ ItemsOf(c, <<d>>) = <<ItemOf(c, d)>>
<1>1. ItemOf(c, d) \in Items
  BY DEF ItemOf, Items
<1>2. <<d>> \in Seq(Byte) /\ Len(<<d>>) = 1 /\ <<d>>[1] = d
  OBVIOUS
<1> DEFINE s == <<d>>
           e == ItemOf(c, d)
           t == ItemsOf(c, s)
<1>3. s \in Seq(Byte) /\ Len(s) = 1 /\ s[1] = d
  BY <1>2
<1> HIDE DEF s
<1>4. /\ t \in Seq(Items) /\ Len(t) = Len(s)
      /\ \A k \in 1 .. Len(s) : t[k] = ItemOf(c, s[k])
  BY <1>3, ItemsAre
<1> HIDE DEF t
<1>5. t[1] = e
  BY <1>3, <1>4 DEF e
<1> HIDE DEF e
<1>6. <<e>> \in Seq(Items) /\ Len(<<e>>) = 1 /\ <<e>>[1] = e
  BY <1>1 DEF e
<1>7. t = <<e>>
  <2> DEFINE z == <<e>>
  <2>1. z \in Seq(Items) /\ Len(z) = 1 /\ z[1] = e
    BY <1>6
  <2> HIDE DEF z
  <2>2. \A k \in 1 .. Len(t) : t[k] = z[k]
    BY <1>3, <1>4, <1>5, <2>1
  <2>3. t = z
    BY <1>3, <1>4, <2>1, <2>2, SeqEqual
  <2> QED
    BY <2>3 DEF z
<1> QED
  BY <1>1, <1>6, <1>7 DEF e, t, s

LEMMA LoadingOf ==
  ASSUME NEW phase, NEW n \in Nat, NEW raw, NEW m, NEW d
  PROVE  /\ n = 0 => LoadingAt(phase, n, raw, m, d) = <<>>
         /\ n # 0 /\ phase = "L_FIRST_DATA" =>
              LoadingAt(phase, n, raw, m, d) = ItemsOf(raw[1], <<d>>)
         /\ n # 0 /\ phase = "L_FINALIZE" =>
              LoadingAt(phase, n, raw, m, d) = PacketItems(raw, m - 1)
         /\ n # 0 /\ phase \in {"L_ACCEPT", "L_CHECKSUM"} =>
              LoadingAt(phase, n, raw, m, d) = PacketItems(raw, m)
BY DEF LoadingAt

LEMMA LoadingFinished ==
  ASSUME NEW n \in Nat, n # 0, NEW raw, NEW m, NEW d
  PROVE  LoadingAt("L_FINALIZE", n, raw, m, d) = PacketItems(raw, m - 1)
BY DEF LoadingAt

LEMMA LoadingPacket ==
  ASSUME NEW n \in Nat, n # 0, NEW raw, NEW m, NEW d
  PROVE  /\ LoadingAt("L_ACCEPT", n, raw, m, d) = PacketItems(raw, m)
         /\ LoadingAt("L_CHECKSUM", n, raw, m, d) = PacketItems(raw, m)
BY DEF LoadingAt

LEMMA TakenIs ==
  ASSUME NEW in \in Offers
  PROVE  /\ Taken(in) \in Seq(Items)
         /\ \/ Taken(in) = <<>>
            \/ \E i \in [channel : Channel, data : Data] : Taken(in) = <<i>>
<1>1. CASE in.valid /\ InputReady(in)
  <2>1. Taken(in) = <<ItemOf(in.channel, in.data)>>
    BY <1>1 DEF Taken
  <2>2. ItemOf(in.channel, in.data) \in [channel : Channel, data : Data]
    BY <1>1, OffersAre DEF ItemOf
  <2>3. <<ItemOf(in.channel, in.data)>> \in Seq(Items)
    BY OffersAre, OneItem
  <2> QED
    BY <2>1, <2>2, <2>3, Zenon
<1>2. CASE ~(in.valid /\ InputReady(in))
  BY <1>2 DEF Taken
<1> QED
  BY <1>1, <1>2

\* What the packetizer holds: the byte it had, unless it was sent, and the one
\* it takes.
LEMMA HoldingMoves ==
  ASSUME HeldType, NEW in \in Offers, Packetizer(in)
  PROVE  /\ Holding \in Seq(Items)
         /\ held => Holding = <<ItemOf(heldChannel, heldData)>>
         /\ Sent(in) => Holding' = Taken(in)
         /\ ~Sent(in) => Holding' = Holding \o Taken(in)
<1>1. held => Holding = <<ItemOf(heldChannel, heldData)>>
  BY DEF Holding, ItemOf
<1>2. ~held => Holding = <<>>
  BY DEF Holding
<1>3. Holding \in Seq(Items)
  <2>1. <<ItemOf(heldChannel, heldData)>> \in Seq(Items)
    BY OneItem DEF HeldType
  <2>2. <<>> \in Seq(Items)
    OBVIOUS
  <2> QED
    BY <1>1, <1>2, <2>1, <2>2, Zenon
<1>4. held' => Holding' = <<ItemOf(heldChannel', heldData')>>
  BY Zenon DEF Holding, ItemOf
<1>5. ~held' => Holding' = <<>>
  BY Zenon DEF Holding
<1>6. CASE SendHeld(in)
  <2>1. Sent(in) /\ InputReady(in)
    BY <1>6 DEF SendHeld, InputReady
  <2>2. CASE in.valid
    <3>1. held' /\ heldData' = in.data /\ heldChannel' = in.channel
      BY <1>6, <2>2 DEF SendHeld, Hold
    <3>2. Taken(in) = <<ItemOf(in.channel, in.data)>>
      BY <2>1, <2>2 DEF Taken
    <3>3. Holding' = Taken(in)
      BY <1>4, <3>1, <3>2, Zenon
    <3> QED
      BY <1>1, <1>3, <2>1, <3>3
  <2>3. CASE ~in.valid
    <3>1. ~held'
      BY <1>6, <2>3 DEF SendHeld
    <3>2. Holding' = Taken(in)
      BY <1>5, <2>3, <3>1, Zenon DEF Taken
    <3> QED
      BY <1>1, <1>3, <2>1, <3>2
  <2> QED
    BY <2>2, <2>3
<1>7. CASE HoldFirst(in)
  <2>1. ~held /\ in.valid /\ ~Sent(in) /\ InputReady(in)
    BY <1>7 DEF HoldFirst, Sent, PacketValid, InputReady
  <2>2. held' /\ heldData' = in.data /\ heldChannel' = in.channel
    BY <1>7 DEF HoldFirst, Hold
  <2>3. Taken(in) = <<ItemOf(in.channel, in.data)>>
    BY <2>1 DEF Taken
  <2>4. Holding' = Taken(in)
    BY <1>4, <2>2, <2>3, Zenon
  <2>5. Taken(in) \in Seq(Items)
    BY TakenIs
  <2>6. <<>> \o Taken(in) = Taken(in)
    BY <2>5, ConcatEmptySeq
  <2>7. Holding \o Taken(in) = Taken(in)
    BY <1>2, <2>1, <2>6, Zenon
  <2> QED
    BY <1>1, <1>3, <2>1, <2>4, <2>7
<1>8. CASE Wait(in)
  <2>1. ~Sent(in) /\ Taken(in) = <<>>
    BY <1>8 DEF Wait, Taken, InputReady
  <2>2. UNCHANGED <<held, heldData, heldChannel>>
    BY <1>8 DEF Wait
  <2>3. Holding' = Holding
    BY <2>2, Zenon DEF Holding
  <2>4. Holding \o <<>> = Holding
    BY <1>3, ConcatEmptySeq
  <2>5. Holding \o Taken(in) = Holding
    BY <2>1, <2>4, Zenon
  <2> QED
    BY <1>1, <1>3, <2>1, <2>3, <2>5
<1> QED
  BY <1>6, <1>7, <1>8 DEF Packetizer

\* A byte that is sent joins the packet being loaded, the first one while it
\* waits for the channel byte to go in; nothing else changes what is loaded.
LEMMA LoadingMoves ==
  ASSUME PathInv, CountInv, NEW in \in Offers, Packetizer(in), Load(PacketByte(in)),
         load # "L_FINALIZE"
  PROVE  /\ Loading \in Seq(Items)
         /\ Sent(in) => Loading' = Loading \o Holding
         /\ ~Sent(in) => Loading' = Loading
<1> DEFINE raw == Loaded
           n == payloadCount
           m == rawLength
           e == ItemOf(heldChannel, heldData)
<1>0. /\ LoadType /\ LoadPlace /\ LoadCount /\ HeldType
      /\ heldChannel \in Byte /\ heldData \in Byte /\ n \in Nat
      /\ pending.data \in Byte /\ checksum \in Byte
      /\ load \in {"L_ACCEPT", "L_FIRST_DATA", "L_CHECKSUM"}
  BY DEF PathInv, LoadInv, HeldType, LoadType
<1>1. /\ raw \in Seq(Byte) /\ Len(raw) = m /\ m \in Nat
      /\ m = 0 => raw = <<>>
      /\ m # 0 => raw = packet[loadBank]
  <2>1. /\ raw \in Seq(Byte) /\ Len(raw) = m
        /\ m = 0 => raw = <<>>
        /\ m # 0 => raw = packet[loadBank]
    BY <1>0, LoadedIs
  <2> QED
    BY <2>1 DEF LoadPlace, LoadType, PathInv
<1>2. /\ n = 0 => m = 0
      /\ load = "L_FIRST_DATA" => n = 1 /\ m = 1
      /\ load \in {"L_ACCEPT", "L_CHECKSUM"} /\ n # 0 => m = n + 1
      /\ load = "L_CHECKSUM" => n # 0
  BY <1>0 DEF LoadCount
<1>3. /\ Loading = LoadingAt(load, n, raw, m, pending.data)
      /\ Loading' = LoadingAt(load', payloadCount', Loaded', rawLength', pending'.data)
  BY LoadingIs
<1> HIDE DEF raw, n, m
\* What it counts for, from its first byte on.
<1>4. /\ n = 0 => Loading = <<>>
      /\ n # 0 /\ load = "L_FIRST_DATA" => Loading = ItemsOf(raw[1], <<pending.data>>)
      /\ n # 0 /\ load \in {"L_ACCEPT", "L_CHECKSUM"} => Loading = PacketItems(raw, m)
  <2> DEFINE x == LoadingAt(load, n, raw, m, pending.data)
  <2>1. /\ n = 0 => x = <<>>
        /\ n # 0 /\ load = "L_FIRST_DATA" => x = ItemsOf(raw[1], <<pending.data>>)
        /\ n # 0 /\ load \in {"L_ACCEPT", "L_CHECKSUM"} => x = PacketItems(raw, m)
    BY <1>0, LoadingOf
  <2> HIDE DEF x
  <2>2. Loading = x
    BY <1>3 DEF x
  <2> QED
    BY <2>1, <2>2, Zenon
<1>5. ASSUME n # 0 PROVE raw # <<>> /\ m \in 1 .. Len(raw) /\ raw[1] \in Byte
  <2>1. m \in Nat \ {0}
    BY <1>0, <1>1, <1>2, <1>5
  <2>2. m \in 1 .. Len(raw) /\ 1 \in 1 .. Len(raw) /\ Len(raw) # 0
    BY <1>1, <2>1
  <2>3. raw[1] \in Byte
    BY <1>1, <2>2, ElementOfSeq
  <2>4. raw # <<>>
    BY <1>1, <2>2, EmptySeq
  <2> QED
    BY <2>2, <2>3, <2>4
<1>6. Loading \in Seq(Items)
  <2>1. CASE n = 0
    <3>1. <<>> \in Seq(Items)
      OBVIOUS
    <3> QED
      BY <1>4, <2>1, <3>1, Zenon
  <2>2. CASE n # 0 /\ load = "L_FIRST_DATA"
    <3>1. <<ItemOf(raw[1], pending.data)>> \in Seq(Items)
          /\ ItemsOf(raw[1], <<pending.data>>) = <<ItemOf(raw[1], pending.data)>>
      BY <1>0, <1>5, <2>2, OneItem
    <3> QED
      BY <1>4, <2>2, <3>1, Zenon
  <2>3. CASE n # 0 /\ load \in {"L_ACCEPT", "L_CHECKSUM"}
    <3>1. PacketItems(raw, m) \in Seq(Items)
      BY <1>1, <1>5, <2>3, PacketItemsAre
    <3> QED
      BY <1>4, <2>3, <3>1, Zenon
  <2> QED
    BY <1>0, <2>1, <2>2, <2>3
<1> DEFINE n1 == payloadCount'
           raw1 == Loaded'
           m1 == rawLength'
           d1 == pending'.data
\* One more byte went into a packet that has some.
<1>7. ASSUME NEW v \in Byte, n # 0, AppendRaw(v), loadBank' = loadBank
      PROVE  /\ m1 = m + 1 /\ raw1 = Append(raw, v)
             /\ PacketItems(raw1, m + 1) = Append(PacketItems(raw, m), ItemOf(raw[1], v))
             /\ PacketItems(raw1, m) = PacketItems(raw, m)
  <2>1. m1 = m + 1 /\ raw1 = Append(raw, v)
    BY <1>0, <1>7, AppendRawIs DEF raw, m
  <2>2. /\ PacketItems(Append(raw, v), Len(raw) + 1)
             = Append(PacketItems(raw, Len(raw)), ItemOf(raw[1], v))
        /\ PacketItems(Append(raw, v), Len(raw)) = PacketItems(raw, Len(raw))
    BY <1>1, <1>5, <1>7, PacketItemsAppend
  <2> HIDE DEF raw1, m1
  <2> QED
    BY <1>1, <2>1, <2>2, Zenon
<1>8. ASSUME Sent(in) PROVE Loading' = Loading \o Holding
  <2>1. /\ load = "L_ACCEPT" /\ loadBank' = loadBank /\ held
        /\ \/ /\ payloadCount = 0 /\ AppendRaw(heldChannel)
              /\ pending' = [data |-> heldData, last |-> PacketLast(in)]
              /\ payloadCount' = 1 /\ load' = "L_FIRST_DATA" /\ dropping' = dropping
           \/ /\ payloadCount > 0 /\ AppendRaw(heldData) /\ heldChannel = packet[loadBank][1]
              /\ payloadCount' = payloadCount + 1 /\ dropping' = dropping /\ pending' = pending
              /\ load' = IF PacketLast(in) THEN "L_CHECKSUM" ELSE "L_ACCEPT"
    BY <1>0, <1>8, SentIsTaken
  <2>2. Holding = <<e>> /\ e \in Items /\ <<e>> \in Seq(Items)
    <3>1. Holding = <<ItemOf(heldChannel, heldData)>>
      BY <1>0, <2>1, HoldingMoves
    <3>2. ItemOf(heldChannel, heldData) \in Items /\ <<ItemOf(heldChannel, heldData)>> \in Seq(Items)
      BY <1>0, OneItem
    <3> QED
      BY <3>1, <3>2
  <2>3. CASE payloadCount = 0
    <3>1. /\ AppendRaw(heldChannel) /\ d1 = heldData /\ n1 = 1 /\ load' = "L_FIRST_DATA"
      BY <2>1, <2>3
    <3>2. raw1 = Append(raw, heldChannel)
      BY <1>0, <2>1, <3>1, AppendRawIs DEF raw
    <3>3. raw = <<>>
      BY <1>1, <1>2, <2>3 DEF n
    <3>4. Append(<<>>, heldChannel)[1] = heldChannel
      OBVIOUS
    <3>5. raw1[1] = heldChannel
      <4> HIDE DEF raw1
      <4> QED
        BY <3>2, <3>3, <3>4, Zenon
    <3> HIDE DEF raw1, n1, d1, m1
    <3>6. n1 # 0 /\ n1 \in Nat
      BY <3>1
    <3>7. LoadingAt(load', n1, raw1, m1, d1) = ItemsOf(raw1[1], <<d1>>)
      BY <3>1, <3>6, LoadingOf
    <3>8. ItemsOf(heldChannel, <<heldData>>) = <<e>>
      BY <1>0, OneItem
    <3>9. Loading' = <<e>>
      <4>1. Loading' = LoadingAt(load', n1, raw1, m1, d1)
        BY <1>3 DEF raw1, n1, d1, m1
      <4> QED
        BY <3>1, <3>5, <3>7, <3>8, <4>1, Zenon
    <3>10. Loading = <<>>
      BY <1>4, <2>3 DEF n
    <3> HIDE DEF e
    <3>11. <<>> \o <<e>> = <<e>>
      BY <2>2, ConcatEmptySeq
    <3> QED
      BY <2>2, <3>9, <3>10, <3>11, Zenon
  <2>4. CASE payloadCount > 0
    <3>1. /\ AppendRaw(heldData) /\ heldChannel = packet[loadBank][1]
          /\ n1 = n + 1 /\ load' \in {"L_ACCEPT", "L_CHECKSUM"}
      BY <1>0, <2>1, <2>4 DEF n
    <3>2. n # 0
      BY <2>4 DEF n
    <3>3. n1 # 0 /\ n1 \in Nat
      BY <1>0, <3>1 DEF n
    <3>4. /\ m1 = m + 1
          /\ PacketItems(raw1, m + 1) = Append(PacketItems(raw, m), ItemOf(raw[1], heldData))
      BY <1>0, <1>7, <2>1, <3>1, <3>2
    <3>5. raw[1] = heldChannel
      <4>1. m # 0
        BY <1>1, <1>5, <3>2
      <4> QED
        BY <1>1, <3>1, <4>1, Zenon
    <3> HIDE DEF raw1, n1, d1, m1
    <3>6. LoadingAt(load', n1, raw1, m1, d1) = PacketItems(raw1, m1)
      <4>1. load' \in {"L_ACCEPT", "L_CHECKSUM"}
        BY <3>1
      <4>2. /\ LoadingAt("L_ACCEPT", n1, raw1, m1, d1) = PacketItems(raw1, m1)
            /\ LoadingAt("L_CHECKSUM", n1, raw1, m1, d1) = PacketItems(raw1, m1)
        BY <3>3, LoadingPacket
      <4> QED
        BY <4>1, <4>2, Zenon
    <3>7. Loading' = Append(Loading, e)
      <4>1. Loading' = LoadingAt(load', n1, raw1, m1, d1)
        BY <1>3 DEF raw1, n1, d1, m1
      <4>2. Loading = PacketItems(raw, m)
        BY <1>4, <2>1, <3>2
      <4> QED
        BY <3>4, <3>5, <3>6, <4>1, <4>2, Zenon
    <3> HIDE DEF e
    <3>8. Append(Loading, e) = Loading \o <<e>>
      BY <1>6, <2>2, AppendIsConcat
    <3> QED
      BY <2>2, <3>7, <3>8, Zenon
  <2> QED
    BY <1>0, <2>3, <2>4 DEF n
<1>9. ASSUME ~Sent(in) PROVE Loading' = Loading
  <2>1. CASE load = "L_ACCEPT"
    <3>1. ~(PacketByte(in).valid /\ EncoderReady)
      BY <1>9 DEF PacketByte, Sent
    <3>2. UNCHANGED <<load, payloadCount, rawLength, packet, pending, loadBank>>
      BY <2>1, <3>1 DEF Load, Accept, FirstData, Checksum, Finalize
    <3> QED
      BY <3>2, Zenon DEF Loading
  <2>2. CASE load = "L_FIRST_DATA"
    <3>1. /\ AppendRaw(pending.data) /\ loadBank' = loadBank
          /\ load' \in {"L_ACCEPT", "L_CHECKSUM"} /\ n1 = n
      BY <2>2 DEF Load, Accept, FirstData, Checksum, Finalize, n
    <3>2. n # 0 /\ m = 1 /\ n1 # 0 /\ n1 \in Nat
      BY <1>0, <1>2, <2>2, <3>1
    <3>3. /\ m1 = m + 1
          /\ PacketItems(raw1, m + 1) = Append(PacketItems(raw, m), ItemOf(raw[1], pending.data))
      BY <1>0, <1>7, <3>1, <3>2
    <3> HIDE DEF raw1, n1, d1, m1
    <3>4. LoadingAt(load', n1, raw1, m1, d1) = PacketItems(raw1, m1)
      <4>1. load' \in {"L_ACCEPT", "L_CHECKSUM"}
        BY <3>1
      <4>2. /\ LoadingAt("L_ACCEPT", n1, raw1, m1, d1) = PacketItems(raw1, m1)
            /\ LoadingAt("L_CHECKSUM", n1, raw1, m1, d1) = PacketItems(raw1, m1)
        BY <3>2, LoadingPacket
      <4> QED
        BY <4>1, <4>2, Zenon
    <3> DEFINE f == ItemOf(raw[1], pending.data)
               h == PacketItems(raw, m)
    <3>5. f \in Items /\ ItemsOf(raw[1], <<pending.data>>) = <<f>>
      BY <1>0, <1>5, <3>2, OneItem
    <3>6. h \in Seq(Items) /\ Len(h) = m - 1
      BY <1>1, <1>5, <3>2, PacketItemsAre
    <3> HIDE DEF f, h
    <3>7. h = <<>>
      <4>1. Len(h) = 0
        BY <3>2, <3>6
      <4> QED
        BY <3>6, <4>1, EmptySeq
    <3>8. Append(<<>>, f) = <<f>>
      OBVIOUS
    <3>9. Loading' = <<f>>
      <4>1. Loading' = LoadingAt(load', n1, raw1, m1, d1)
        BY <1>3 DEF raw1, n1, d1, m1
      <4>2. PacketItems(raw1, m + 1) = Append(h, f)
        BY <3>3 DEF h, f
      <4> QED
        BY <3>3, <3>4, <3>7, <3>8, <4>1, <4>2, Zenon
    <3>10. Loading = <<f>>
      BY <1>4, <2>2, <3>2, <3>5, Zenon
    <3> QED
      BY <3>9, <3>10, Zenon
  <2>3. CASE load = "L_CHECKSUM"
    <3>1. /\ AppendRaw(checksum) /\ loadBank' = loadBank
          /\ load' = "L_FINALIZE" /\ n1 = n
      BY <2>3 DEF Load, Accept, FirstData, Checksum, Finalize, n
    <3>2. n # 0 /\ n1 # 0 /\ n1 \in Nat
      BY <1>0, <1>2, <2>3, <3>1
    <3>3. m1 = m + 1 /\ PacketItems(raw1, m) = PacketItems(raw, m)
      BY <1>0, <1>7, <3>1, <3>2
    <3> HIDE DEF raw1, n1, d1, m1
    <3>4. LoadingAt(load', n1, raw1, m1, d1) = PacketItems(raw1, m1 - 1)
      <4>1. load' = "L_FINALIZE"
        BY <3>1
      <4>2. LoadingAt("L_FINALIZE", n1, raw1, m1, d1) = PacketItems(raw1, m1 - 1)
        BY <3>2, LoadingFinished
      <4> QED
        BY <4>1, <4>2, Zenon
    <3>5. m1 - 1 = m
      BY <1>1, <3>3
    <3>6. Loading' = LoadingAt(load', n1, raw1, m1, d1)
      BY <1>3 DEF raw1, n1, d1, m1
    <3>7. Loading = PacketItems(raw, m)
      BY <1>4, <2>3, <3>2
    <3> QED
      BY <3>3, <3>4, <3>5, <3>6, <3>7, Zenon
  <2> QED
    BY <1>0, <2>1, <2>2, <2>3
<1> QED
  BY <1>6, <1>8, <1>9

\* The packet is finished: what it counted for is now in its bank.
LEMMA FinishedMoves ==
  ASSUME PathInv, NEW in \in Offers, Load(PacketByte(in)), load = "L_FINALIZE"
  PROVE  /\ Loading = PacketItems(packet[loadBank], Len(packet[loadBank]) - 1)
         /\ Loading' = <<>> /\ ~Sent(in)
<1>0. LoadType /\ LoadInv /\ LoadPlace /\ LoadCount /\ payloadCount \in Nat
  BY DEF PathInv, LoadInv, LoadType
<1>1. payloadCount # 0 /\ rawLength # 0 /\ rawLength \in Nat
  BY <1>0 DEF LoadCount, LoadType
<1>2. /\ payloadCount' = 0
      /\ Loaded = packet[loadBank]
  BY <1>0, NewComplete
<1>3. rawLength = Len(packet[loadBank])
  BY <1>1 DEF LoadPlace, PathInv, LoadInv
<1>4. /\ Loading = LoadingAt(load, payloadCount, Loaded, rawLength, pending.data)
      /\ Loading' = LoadingAt(load', payloadCount', Loaded', rawLength', pending'.data)
  BY LoadingIs
<1>5. Loading' = <<>>
  <2> DEFINE n1 == payloadCount'
             raw1 == Loaded'
             m1 == rawLength'
             d1 == pending'.data
  <2>1. n1 \in Nat /\ n1 = 0
    BY <1>2
  <2> HIDE DEF n1, raw1, m1, d1
  <2>2. LoadingAt(load', n1, raw1, m1, d1) = <<>>
    BY <2>1, LoadingOf, Zenon
  <2> QED
    BY <1>4, <2>2, Zenon DEF n1, raw1, m1, d1
<1>6. Loading = PacketItems(packet[loadBank], Len(packet[loadBank]) - 1)
  <2>1. LoadingAt(load, payloadCount, Loaded, rawLength, pending.data)
          = PacketItems(Loaded, rawLength - 1)
    <3> DEFINE n == payloadCount
               raw == Loaded
    <3>1. n \in Nat /\ n # 0
      BY <1>0, <1>1
    <3> HIDE DEF n, raw
    <3>2. LoadingAt("L_FINALIZE", n, raw, rawLength, pending.data)
            = PacketItems(raw, rawLength - 1)
      BY <3>1, LoadingFinished
    <3> QED
      BY <3>2, Zenon DEF n, raw
  <2> QED
    BY <1>2, <1>3, <1>4, <2>1, Zenon
<1> QED
  BY <1>5, <1>6 DEF Sent, EncoderReady

\* Concatenation of items is associative.
LEMMA ItemsAssociate == \A s, t, u \in Seq(Items) : (s \o t) \o u = s \o (t \o u)
BY ConcatAssociative

\* The two steps together: what is loading and held, with the byte taken.
LEMMA RestMoves ==
  ASSUME PathInv, CountInv, NEW in \in Offers, Packetizer(in), Load(PacketByte(in))
  PROVE  /\ Loading \in Seq(Items) /\ Holding \in Seq(Items) /\ Taken(in) \in Seq(Items)
         /\ Loading' \in Seq(Items) /\ Holding' \in Seq(Items)
         /\ load # "L_FINALIZE" => Loading' \o Holding' = (Loading \o Holding) \o Taken(in)
         /\ load = "L_FINALIZE" =>
              /\ Loading = PacketItems(packet[loadBank], Len(packet[loadBank]) - 1)
              /\ Loading' \o Holding' = Holding \o Taken(in)
<1> DEFINE M == Loading
           H == Holding
           T == Taken(in)
           M1 == Loading'
           H1 == Holding'
<1>1. /\ H \in Seq(Items) /\ T \in Seq(Items)
      /\ Sent(in) => H1 = T
      /\ ~Sent(in) => H1 = H \o T
  BY HoldingMoves, TakenIs DEF PathInv
<1>2. H1 \in Seq(Items)
  <2> HIDE DEF H, T, H1
  <2>1. H \o T \in Seq(Items)
    BY <1>1, ConcatProperties
  <2> QED
    BY <1>1, <2>1, Zenon
<1>3. CASE load # "L_FINALIZE"
  <2>1. /\ M \in Seq(Items)
        /\ Sent(in) => M1 = M \o H
        /\ ~Sent(in) => M1 = M
    BY <1>3, LoadingMoves
  <2> HIDE DEF M, H, T, M1, H1
  <2>2. M1 \o H1 = (M \o H) \o T
    <3>1. CASE Sent(in)
      BY <1>1, <2>1, <3>1, Zenon
    <3>2. CASE ~Sent(in)
      <4>1. (M \o H) \o T = M \o (H \o T)
        BY <1>1, <2>1, ItemsAssociate, Zenon
      <4> QED
        BY <1>1, <2>1, <3>2, <4>1, Zenon
    <3> QED
      BY <3>1, <3>2
  <2>3. M1 \in Seq(Items)
    <3>1. M \o H \in Seq(Items)
      BY <1>1, <2>1, ConcatProperties
    <3> QED
      BY <2>1, <3>1, Zenon
  <2> QED
    BY <1>1, <1>3, <1>2, <2>1, <2>2, <2>3 DEF M, H, T, M1, H1
<1>4. CASE load = "L_FINALIZE"
  <2>1. /\ M = PacketItems(packet[loadBank], Len(packet[loadBank]) - 1)
        /\ M1 = <<>> /\ ~Sent(in)
    BY <1>4, FinishedMoves
  <2>2. M \in Seq(Items)
    <3> DEFINE p == packet[loadBank]
    <3>1. p \in Seq(Byte) /\ Summed(p)
      <4>1. LoadType /\ LoadPlace /\ LoadInv
        BY DEF PathInv, LoadInv
      <4>2. Loaded = p /\ Summed(Loaded)
        BY <1>4, <4>1, NewComplete DEF LoadInv, LoadSum
      <4>3. p \in Seq(Byte)
        BY <4>1, LoadedIs
      <4> QED
        BY <4>2, <4>3, Zenon
    <3>2. Len(p) \in Nat /\ Len(p) >= 3
      BY <3>1, SummedIs
    <3> HIDE DEF p
    <3>3. Len(p) - 1 \in 1 .. Len(p)
      BY <3>2
    <3>4. PacketItems(p, Len(p) - 1) \in Seq(Items)
      BY <3>1, <3>3, PacketItemsAre
    <3>5. M = PacketItems(p, Len(p) - 1)
      BY <2>1 DEF p
    <3> QED
      BY <3>4, <3>5, Zenon
  <2> HIDE DEF M, H, T, M1, H1
  <2>3. H \o T \in Seq(Items)
    BY <1>1, ConcatProperties
  <2>4. <<>> \o (H \o T) = H \o T
    BY <2>3, ConcatEmptySeq
  <2>5. M1 \o H1 = H \o T
    BY <1>1, <2>1, <2>4, Zenon
  <2>6. M1 \in Seq(Items)
    <3>1. <<>> \in Seq(Items)
      OBVIOUS
    <3> QED
      BY <2>1, <3>1, Zenon
  <2> QED
    BY <1>1, <1>4, <1>2, <2>1, <2>2, <2>5, <2>6 DEF M, H, T, M1, H1
<1> QED
  BY <1>3, <1>4

\* The payload in bank b, if it is full.
BankAt(p, f, b) == IF f[b] THEN PacketItems(p[b], Len(p[b]) - 1) ELSE <<>>

Ends(ready) == OutputLast /\ ready

LEMMA ContentsAre ==
  /\ Contents = ((BankAt(packet, full, nextEncodeBank)
                   \o BankAt(packet, full, 1 - nextEncodeBank)) \o Loading) \o Holding
  /\ Contents' = ((BankAt(packet', full', nextEncodeBank')
                    \o BankAt(packet', full', 1 - nextEncodeBank')) \o Loading') \o Holding'
BY Zenon DEF Contents, InBank, BankAt, PacketItems

\* What is in a bank after an edge: the packet just finished, what was there
\* before, or nothing.
LEMMA BankAfter ==
  ASSUME PathInv, NEW in, NEW ready \in BOOLEAN, EncoderEdge(in, ready), NEW b \in Bank
  PROVE  /\ load = "L_FINALIZE" /\ b = loadBank =>
              BankAt(packet', full', b) = PacketItems(packet[b], Len(packet[b]) - 1)
         /\ ~(load = "L_FINALIZE" /\ b = loadBank) /\ full[b] /\ ~(Ends(ready) /\ b = encodeBank) =>
              BankAt(packet', full', b) = BankAt(packet, full, b)
         /\ ~(load = "L_FINALIZE" /\ b = loadBank) /\ (~full[b] \/ (Ends(ready) /\ b = encodeBank)) =>
              BankAt(packet', full', b) = <<>>
<1>0. Load(in) /\ LoadType /\ LoadInv /\ LoadCount /\ BankInv
  BY DEF EncoderEdge, PathInv, LoadInv
<1>1. full'[b] <=> \/ load = "L_FINALIZE" /\ b = loadBank
                   \/ full[b] /\ ~(Ends(ready) /\ b = encodeBank)
  BY Zenon DEF EncoderEdge, BankFlags, Ends
<1>2. CASE load = "L_FINALIZE" /\ b = loadBank
  <2>1. packet'[b] = packet[b]
    BY <1>0, <1>2, NewComplete
  <2> QED
    BY <1>1, <1>2, <2>1, Zenon DEF BankAt
<1>3. CASE ~(load = "L_FINALIZE" /\ b = loadBank) /\ full[b] /\ ~(Ends(ready) /\ b = encodeBank)
  <2>1. packet'[b] = packet[b]
    BY <1>0, <1>3, BanksKept
  <2> QED
    BY <1>1, <1>3, <2>1, Zenon DEF BankAt
<1>4. CASE ~(load = "L_FINALIZE" /\ b = loadBank) /\ (~full[b] \/ (Ends(ready) /\ b = encodeBank))
  <2>1. BankAt(packet', full', b) = <<>>
    BY <1>1, <1>4, Zenon DEF BankAt
  <2> QED
    BY <1>4, <2>1
<1> QED
  BY <1>2, <1>3, <1>4

LEMMA BankAtType ==
  ASSUME PathInv, NEW b \in Bank
  PROVE  BankAt(packet, full, b) \in Seq(Items)
<1>1. CASE full[b]
  <2> DEFINE p == packet[b]
  <2>1. p \in Seq(Byte) /\ Summed(p)
    BY <1>1 DEF PathInv, LoadType, BankInv, Complete
  <2> HIDE DEF p
  <2>2. Len(p) \in Nat /\ Len(p) >= 3
    BY <2>1, SummedIs
  <2>3. Len(p) - 1 \in 1 .. Len(p)
    BY <2>2
  <2>4. PacketItems(p, Len(p) - 1) \in Seq(Items)
    BY <2>1, <2>3, PacketItemsAre
  <2> QED
    BY <1>1, <2>4, Zenon DEF BankAt, p
<1>2. CASE ~full[b]
  <2>1. <<>> \in Seq(Items)
    OBVIOUS
  <2> QED
    BY <1>2, <2>1, Zenon DEF BankAt
<1> QED
  BY <1>1, <1>2

\* The two full banks, in the order in which they leave: the first one goes
\* when its frame ends, and the finished packet comes behind them.
LEMMA BankMoves ==
  ASSUME PathInv, NEW in, NEW ready \in BOOLEAN, EncoderEdge(in, ready),
         NEW A, A = BankAt(packet, full, nextEncodeBank),
         NEW B, B = BankAt(packet, full, 1 - nextEncodeBank),
         NEW M, M = PacketItems(packet[loadBank], Len(packet[loadBank]) - 1),
         NEW A1, A1 = BankAt(packet', full', nextEncodeBank'),
         NEW B1, B1 = BankAt(packet', full', 1 - nextEncodeBank')
  PROVE  /\ Ends(ready) => full[nextEncodeBank] /\ encodeBank = nextEncodeBank
         /\ ~Ends(ready) /\ load # "L_FINALIZE" => A1 = A /\ B1 = B
         /\ ~Ends(ready) /\ load = "L_FINALIZE" =>
              /\ B = <<>>
              /\ \/ A1 = M /\ A = <<>> /\ B1 = <<>>
                 \/ A1 = A /\ B1 = M
         /\ Ends(ready) /\ load # "L_FINALIZE" => A1 = B /\ B1 = <<>>
         /\ Ends(ready) /\ load = "L_FINALIZE" => A1 = M /\ B1 = <<>> /\ B = <<>>
<1> DEFINE N == nextEncodeBank
           K == 1 - N
           fin == load = "L_FINALIZE"
<1>0. /\ Load(in) /\ Emit(ready) /\ BankOrder /\ payloadCount \in Nat
      /\ encodeBank \in Bank /\ N \in Bank /\ loadBank \in Bank
      /\ emit \in {"E_IDLE", "E_CODE", "E_DATA", "E_DELIMITER"}
      /\ full \in [Bank -> BOOLEAN]
  BY DEF EncoderEdge, PathInv, LoadInv, BankInv, EmitType, LoadType
<1>1. /\ Ends(ready) => N' = 1 - encodeBank
      /\ ~Ends(ready) => N' = N
  <2>1. EmitType
    BY DEF PathInv
  <2> QED
    BY <1>0, <2>1, EmitBank DEF Ends, OutputLast
<1>2. Ends(ready) => full[N] /\ encodeBank = N
  BY <1>0 DEF Ends, OutputLast, BankOrder
<1>3. fin => ~full[loadBank]
  BY <1>0 DEF PathInv, LoadInv, LoadCount, BankOrder
<1>4. /\ loadBank = IF full[N] /\ ~full[K] THEN K ELSE N
      /\ full[K] => full[N]
  BY <1>0 DEF BankOrder
<1>5. K \in Bank /\ K # N /\ 1 - K = N
  BY <1>0, BanksAre
\* The three cases of BankAfter, for the two banks.
<1> DEFINE After(b) == BankAt(packet', full', b)
           Was(b) == BankAt(packet, full, b)
<1>6. \A b \in Bank :
        /\ fin /\ b = loadBank => After(b) = PacketItems(packet[b], Len(packet[b]) - 1)
        /\ ~(fin /\ b = loadBank) /\ full[b] /\ ~(Ends(ready) /\ b = encodeBank) => After(b) = Was(b)
        /\ ~(fin /\ b = loadBank) /\ (~full[b] \/ (Ends(ready) /\ b = encodeBank)) => After(b) = <<>>
  BY BankAfter
<1>7. \A b \in Bank : ~full[b] => Was(b) = <<>>
  BY DEF BankAt
<1>8. A = Was(N) /\ B = Was(K)
  OBVIOUS
<1>9. \A b \in Bank : fin /\ b = loadBank => After(b) = M
  BY <1>6, Zenon
<1>10. \A b \in Bank : ~(fin /\ b = loadBank) /\ ~(Ends(ready) /\ b = encodeBank) => After(b) = Was(b)
  BY <1>6, <1>7, Zenon
<1>11. \A b \in Bank : Ends(ready) /\ b = encodeBank => After(b) = <<>>
  BY <1>2, <1>3, <1>6, Zenon
<1> HIDE DEF After, Was
<1>12. CASE ~Ends(ready)
  <2>1. A1 = After(N) /\ B1 = After(K)
    <3>1. N' = N /\ 1 - N' = K
      BY <1>1, <1>12
    <3> QED
      BY <3>1, Zenon DEF After
  <2>2. CASE ~fin
    BY <1>0, <1>5, <1>8, <1>10, <1>12, <2>1, <2>2, Zenon
  <2>3. CASE fin
    <3>1. ~full[K]
      BY <1>3, <1>4, <2>3
    <3>2. B = <<>>
      BY <1>5, <1>7, <1>8, <3>1, Zenon
    <3>3. CASE loadBank = N
      <4>1. ~full[N] /\ A1 = M
        BY <1>0, <1>3, <1>9, <2>1, <2>3, <3>3, Zenon
      <4>2. A = <<>>
        BY <1>0, <1>7, <1>8, <4>1, Zenon
      <4>3. B1 = B
        BY <1>5, <1>8, <1>10, <1>12, <2>1, <3>3, Zenon
      <4> QED
        BY <1>12, <2>3, <3>2, <4>1, <4>2, <4>3, Zenon
    <3>4. CASE loadBank = K
      <4>1. B1 = M
        BY <1>5, <1>9, <2>1, <2>3, <3>4, Zenon
      <4>2. A1 = A
        BY <1>0, <1>5, <1>8, <1>10, <1>12, <2>1, <3>4, Zenon
      <4> QED
        BY <1>12, <2>3, <3>2, <4>1, <4>2, Zenon
    <3> QED
      BY <1>4, <3>3, <3>4
  <2> QED
    BY <2>2, <2>3
<1>13. CASE Ends(ready)
  <2>1. N' = K /\ 1 - N' = N /\ encodeBank = N /\ full[N]
    BY <1>1, <1>2, <1>5, <1>13
  <2>2. A1 = After(K) /\ B1 = After(N)
    BY <2>1, Zenon DEF After
  <2>3. B1 = <<>>
    BY <1>0, <1>11, <1>13, <2>1, <2>2, Zenon
  <2>4. CASE ~fin
    <3>1. A1 = B
      BY <1>5, <1>8, <1>10, <2>1, <2>2, <2>4, Zenon
    <3> QED
      BY <1>13, <2>1, <2>3, <2>4, <3>1, Zenon
  <2>5. CASE fin
    <3>1. loadBank = K /\ ~full[K]
      BY <1>3, <1>4, <2>1, <2>5
    <3>2. A1 = M
      BY <1>5, <1>9, <2>2, <2>5, <3>1, Zenon
    <3>3. B = <<>>
      BY <1>5, <1>7, <1>8, <3>1, Zenon
    <3> QED
      BY <1>13, <2>1, <2>3, <2>5, <3>2, <3>3, Zenon
  <2> QED
    BY <2>4, <2>5
<1> QED
  BY <1>12, <1>13

LEMMA ContentsMove ==
  ASSUME PathInv, CountInv, NEW in \in Offers, NEW ready \in BOOLEAN, Edge(in, ready)
  PROVE  /\ Contents \in Seq(Items)
         /\ ~Ends(ready) => Contents' = Contents \o Taken(in)
         /\ Ends(ready) =>
              \E Z \in Seq(Items) :
                 /\ Contents = BankAt(packet, full, nextEncodeBank) \o Z
                 /\ Contents' = Z \o Taken(in)
<1> DEFINE A == BankAt(packet, full, nextEncodeBank)
           B == BankAt(packet, full, 1 - nextEncodeBank)
           A1 == BankAt(packet', full', nextEncodeBank')
           B1 == BankAt(packet', full', 1 - nextEncodeBank')
           P == PacketItems(packet[loadBank], Len(packet[loadBank]) - 1)
           M == Loading
           H == Holding
           T == Taken(in)
           M1 == Loading'
           H1 == Holding'
           fin == load = "L_FINALIZE"
           C == Contents
           C1 == Contents'
<1>1. Packetizer(in) /\ EncoderEdge(PacketByte(in), ready) /\ Load(PacketByte(in))
  BY DEF Edge, EncoderEdge
<1>2. /\ M \in Seq(Items) /\ H \in Seq(Items) /\ T \in Seq(Items)
      /\ M1 \in Seq(Items) /\ H1 \in Seq(Items)
  BY <1>1, RestMoves
<1>3. /\ ~fin => M1 \o H1 = (M \o H) \o T
      /\ fin => M = P /\ M1 \o H1 = H \o T
  BY <1>1, RestMoves
<1>4. A \in Seq(Items) /\ B \in Seq(Items)
  <2>1. nextEncodeBank \in Bank /\ 1 - nextEncodeBank \in Bank
    BY BanksAre DEF PathInv, EmitType
  <2> QED
    BY <2>1, BankAtType
<1>5. /\ ~Ends(ready) /\ ~fin => A1 = A /\ B1 = B
      /\ ~Ends(ready) /\ fin =>
           /\ B = <<>>
           /\ \/ A1 = P /\ A = <<>> /\ B1 = <<>>
              \/ A1 = A /\ B1 = P
      /\ Ends(ready) /\ ~fin => A1 = B /\ B1 = <<>>
      /\ Ends(ready) /\ fin => A1 = P /\ B1 = <<>> /\ B = <<>>
  BY <1>1, BankMoves
<1>6. C = ((A \o B) \o M) \o H /\ C1 = ((A1 \o B1) \o M1) \o H1
  BY ContentsAre
<1> HIDE DEF A, B, A1, B1, P, M, H, T, M1, H1, fin, C, C1
\* What stands before the packet being loaded stays, or the finished one joins it.
<1>7. ASSUME NEW F \in Seq(Items), NEW F1, ~fin => F1 = F, fin => F1 = F \o M
      PROVE  (F1 \o M1) \o H1 = ((F \o M) \o H) \o T
  <2>0. F \in Seq(Items)
    BY <1>7
  <2>1. F \o M \in Seq(Items) /\ M \o H \in Seq(Items)
    BY <1>2, <2>0, ConcatProperties
  <2>2. CASE ~fin
    <3>1. (F \o M1) \o H1 = F \o (M1 \o H1)
      BY <1>2, <2>0, ItemsAssociate, Zenon
    <3>2. F \o ((M \o H) \o T) = (F \o (M \o H)) \o T
      <4> DEFINE G == M \o H
      <4>1. G \in Seq(Items) /\ T \in Seq(Items)
        BY <1>2, <2>1
      <4> HIDE DEF G
      <4>2. (F \o G) \o T = F \o (G \o T)
        BY <2>0, <4>1, ItemsAssociate, Zenon
      <4> QED
        BY <4>2, Zenon DEF G
    <3>3. F \o (M \o H) = (F \o M) \o H
      BY <1>2, <2>0, ItemsAssociate, Zenon
    <3> QED
      BY <1>7, <1>3, <2>2, <3>1, <3>2, <3>3, Zenon
  <2>3. CASE fin
    <3> DEFINE G == F \o M
    <3>1. G \in Seq(Items)
      BY <2>1
    <3> HIDE DEF G
    <3>2. (G \o M1) \o H1 = G \o (M1 \o H1)
      <4>1. M1 \in Seq(Items) /\ H1 \in Seq(Items)
        BY <1>2
      <4> QED
        BY <3>1, <4>1, ItemsAssociate, Zenon
    <3>3. (G \o H) \o T = G \o (H \o T)
      <4>1. H \in Seq(Items) /\ T \in Seq(Items)
        BY <1>2
      <4> QED
        BY <3>1, <4>1, ItemsAssociate, Zenon
    <3> QED
      BY <1>7, <1>3, <2>3, <3>2, <3>3, Zenon DEF G
  <2> QED
    BY <2>2, <2>3
<1>8. A \o B \in Seq(Items) /\ B \o M \in Seq(Items)
  BY <1>2, <1>4, ConcatProperties
<1>9. (A \o B) \o M \in Seq(Items) /\ (B \o M) \o H \in Seq(Items)
  BY <1>2, <1>8, ConcatProperties
<1>10. C \in Seq(Items)
  <2>1. ((A \o B) \o M) \o H \in Seq(Items)
    BY <1>2, <1>9, ConcatProperties
  <2> QED
    BY <1>6, <2>1, Zenon
<1>11. /\ A \o <<>> = A /\ B \o <<>> = B /\ M \o <<>> = M
       /\ <<>> \o M = M /\ <<>> \o <<>> = <<>>
  <2>1. <<>> \in Seq(Items)
    OBVIOUS
  <2> QED
    BY <1>2, <1>4, <2>1, ConcatEmptySeq
<1>12. ASSUME ~Ends(ready) PROVE C1 = C \o T
  <2> DEFINE F == A \o B
             F1 == A1 \o B1
  <2>1. ~fin => F1 = F
    BY <1>5, <1>12, Zenon
  <2>2. fin => F1 = F \o M
    <3> SUFFICES ASSUME fin PROVE F1 = F \o M
      OBVIOUS
    <3>1. M = P /\ B = <<>>
      BY <1>5, <1>3, <1>12
    <3>2. CASE A1 = P /\ A = <<>> /\ B1 = <<>>
      BY <1>11, <3>1, <3>2, Zenon
    <3>3. CASE A1 = A /\ B1 = P
      BY <1>11, <3>1, <3>3, Zenon
    <3> QED
      BY <1>5, <1>12, <3>2, <3>3
  <2>3. F \in Seq(Items)
    BY <1>8
  <2> HIDE DEF F, F1
  <2>4. (F1 \o M1) \o H1 = ((F \o M) \o H) \o T
    BY <1>7, <2>1, <2>2, <2>3
  <2> QED
    BY <1>6, <2>4, Zenon DEF F, F1
<1>13. ASSUME Ends(ready)
       PROVE  \E Z \in Seq(Items) : C = A \o Z /\ C1 = Z \o T
  <2> DEFINE Z == (B \o M) \o H
             F1 == A1 \o B1
  <2>1. ~fin => F1 = B
    BY <1>5, <1>11, <1>13, Zenon
  <2>2. fin => F1 = B \o M
    BY <1>5, <1>3, <1>11, <1>13, Zenon
  <2> HIDE DEF F1
  <2>3. (F1 \o M1) \o H1 = Z \o T
    BY <1>4, <1>7, <2>1, <2>2
  <2>4. C1 = Z \o T
    BY <1>6, <2>3, Zenon DEF F1
  <2>5. C = A \o Z
    <3> DEFINE G == B \o M
    <3>1. M \in Seq(Items) /\ H \in Seq(Items) /\ G \in Seq(Items)
      BY <1>2, <1>8
    <3>2. (A \o B) \o M = A \o G
      BY <1>4, <3>1, ItemsAssociate, Zenon
    <3> HIDE DEF G
    <3>3. (A \o G) \o H = A \o (G \o H)
      BY <1>4, <3>1, ItemsAssociate, Zenon
    <3> QED
      BY <1>6, <3>2, <3>3, Zenon DEF G
  <2> QED
    BY <1>9, <2>4, <2>5, Zenon
<1> QED
  BY <1>10, <1>12, <1>13 DEF A, T, C, C1

\* A frame that ends is decoded by the host to the packet it is made of.
LEMMA DeliveredIs ==
  ASSUME PathInv, NEW ready \in BOOLEAN, Observe(ready)
  PROVE  /\ ~Ends(ready) => delivered' = <<>>
         /\ Ends(ready) =>
              /\ full[encodeBank] /\ encodeBank \in Bank /\ packet[encodeBank] \in Seq(Byte)
              /\ Summed(packet[encodeBank])
              /\ delivered' = <<packet[encodeBank][1],
                                SubSeq(packet[encodeBank], 2, Len(packet[encodeBank]) - 1)>>
<1>1. delivered' = IF Ends(ready) THEN orbflow_unframe(Append(frame, OutputData)) ELSE <<>>
  BY Zenon DEF Observe, Ends
<1>2. ASSUME Ends(ready)
      PROVE  /\ full[encodeBank] /\ encodeBank \in Bank /\ packet[encodeBank] \in Seq(Byte)
             /\ Summed(packet[encodeBank])
             /\ delivered' = <<packet[encodeBank][1],
                               SubSeq(packet[encodeBank], 2, Len(packet[encodeBank]) - 1)>>
  <2> DEFINE p == packet[encodeBank]
             g == groups[encodeBank]
  <2>1. emit = "E_DELIMITER"
    BY <1>2 DEF Ends, OutputLast
  <2>2. encodeBank \in Bank /\ full[encodeBank]
    BY <2>1 DEF PathInv, EmitType, BankInv, BankOrder
  <2>3. p \in Seq(Byte) /\ g \in Seq(0 .. GroupMax) /\ Summed(p)
    BY <2>2 DEF PathInv, LoadType, BankInv, Complete
  <2>4. PICK st : SentOf(st, p, g)
    BY <2>1 DEF PathInv, SentInv
  <2>5. OutputData = 0
    BY <2>1 DEF OutputData
  <2> HIDE DEF p, g
  <2>6. Cut(st, p, g) /\ AtEnd(emitGroup + 1, frame, p, g)
    BY <2>1, <2>4 DEF SentOf, SentAt
  <2>7. frame = cobs_encode(p)
    BY <2>6 DEF AtEnd
  <2>8. orbflow_unframe(Append(cobs_encode(p), 0)) = <<p[1], SubSeq(p, 2, Len(p) - 1)>>
    BY <2>3, <2>6, UnframeIs
  <2>9. delivered' = <<p[1], SubSeq(p, 2, Len(p) - 1)>>
    BY <1>1, <1>2, <2>5, <2>7, <2>8, Zenon
  <2> QED
    BY <2>2, <2>3, <2>9 DEF p
<1> QED
  BY <1>1, <1>2

LEMMA SecondPart ==
  ASSUME NEW S, NEW a \in Seq(S), NEW b \in Seq(S)
  PROVE  SubSeq(a \o b, Len(a) + 1, Len(a) + Len(b)) = b
<1> DEFINE c == a \o b
           n == Len(a)
           z == Len(b)
           w == SubSeq(c, n + 1, n + z)
<1>1. n \in Nat /\ z \in Nat
  BY LenProperties
<1>2. /\ c \in Seq(S) /\ Len(c) = n + z
      /\ \A i \in 1 .. n + z : c[i] = IF i <= n THEN a[i] ELSE b[i - n]
  BY ConcatProperties
<1> HIDE DEF c
<1>3. \A i \in n + 1 .. n + z : c[i] \in S
  <2>1. \A i \in n + 1 .. n + z : i \in 1 .. Len(c)
    BY <1>1, <1>2
  <2> QED
    BY <1>2, <2>1, ElementOfSeq
<1> HIDE DEF n, z
<1>4. /\ SubSeq(c, n + 1, n + z) \in Seq(S) /\ Len(SubSeq(c, n + 1, n + z)) = z
      /\ \A i \in 1 .. z : SubSeq(c, n + 1, n + z)[i] = c[n + i]
  BY <1>1, <1>3, Window
<1>5. \A i \in 1 .. z : c[n + i] = b[i]
  <2>1. \A i \in 1 .. z : n + i \in 1 .. n + z /\ ~(n + i <= n) /\ (n + i) - n = i
    BY <1>1
  <2> QED
    BY <1>2, <2>1
<1>6. w \in Seq(S) /\ Len(w) = z /\ \A i \in 1 .. z : w[i] = b[i]
  BY <1>4, <1>5
<1> HIDE DEF w
<1>7. \A i \in 1 .. Len(w) : w[i] = b[i]
  BY <1>6
<1>8. Len(w) = Len(b)
  BY <1>6 DEF z
<1>9. w = b
  BY <1>6, <1>7, <1>8, SeqEqual
<1> QED
  BY <1>9 DEF w, c, n, z

\* The items of a packet, in front of others: their channel and their bytes.
LEMMA PacketInFront ==
  ASSUME NEW p \in Seq(Byte), Summed(p), NEW n, n = Len(p) - 2,
         NEW C, NEW Z \in Seq(Items), Joined(C, PacketItems(p, Len(p) - 1), Z)
  PROVE  /\ n \in 1 .. MaxPayload /\ n <= Len(C)
         /\ \A k \in 1 .. n : C[k].channel = C[1].channel
         /\ C[1].channel = p[1]
         /\ SubSeq(p, 2, Len(p) - 1) = [k \in 1 .. n |-> C[k].data]
         /\ SubSeq(C, n + 1, Len(C)) = Z
<1> DEFINE A == PacketItems(p, Len(p) - 1)
           s == SubSeq(p, 2, Len(p) - 1)
           z == Len(Z)
<1>1. Len(p) \in Nat /\ Len(p) \in 3 .. MaxPayload + 2 /\ MaxPayload \in Nat
  BY LenProperties, EncoderAssumption DEF Summed
<1>2. /\ n \in 1 .. MaxPayload /\ n \in Nat /\ Len(p) - 1 \in 1 .. Len(p)
      /\ (Len(p) - 1) - 1 = n
  BY <1>1
<1>3. /\ A \in Seq(Items) /\ Len(A) = (Len(p) - 1) - 1
      /\ \A k \in 1 .. (Len(p) - 1) - 1 : A[k] = ItemOf(p[1], p[k + 1])
      /\ s \in Seq(Byte) /\ Len(s) = (Len(p) - 1) - 1
      /\ \A k \in 1 .. (Len(p) - 1) - 1 : s[k] = p[k + 1]
  BY <1>2, PacketItemsAre
<1> HIDE DEF A, s
<1>4. /\ A \in Seq(Items) /\ Len(A) = n
      /\ \A k \in 1 .. n : A[k] = ItemOf(p[1], p[k + 1])
      /\ s \in Seq(Byte) /\ Len(s) = n
      /\ \A k \in 1 .. n : s[k] = p[k + 1]
  BY <1>2, <1>3
<1>5. z \in Nat /\ Z \in Seq(Items)
  BY LenProperties
<1> HIDE DEF z
<1>6. /\ A \o Z \in Seq(Items) /\ Len(A \o Z) = Len(A) + Len(Z)
      /\ \A i \in 1 .. Len(A) + Len(Z) : (A \o Z)[i] = IF i <= Len(A) THEN A[i] ELSE Z[i - Len(A)]
  <2>1. A \in Seq(Items)
    BY <1>4
  <2> QED
    BY <2>1, ConcatProperties
<1>7. C = A \o Z
  BY DEF A, Joined
<1>8. /\ C \in Seq(Items) /\ Len(C) = n + z
      /\ \A i \in 1 .. n + z : C[i] = IF i <= n THEN A[i] ELSE Z[i - n]
  <2> DEFINE D == A \o Z
  <2>1. /\ D \in Seq(Items) /\ Len(D) = n + z
        /\ \A i \in 1 .. n + z : D[i] = IF i <= n THEN A[i] ELSE Z[i - n]
    BY <1>4, <1>6 DEF z
  <2> HIDE DEF D
  <2>2. C = D
    BY <1>7 DEF D
  <2> QED
    BY <2>1, <2>2, Zenon
<1>9. \A k \in 1 .. n : C[k] = ItemOf(p[1], p[k + 1])
  <2>1. \A k \in 1 .. n : k \in 1 .. n + z /\ k <= n
    BY <1>2, <1>5
  <2>2. \A k \in 1 .. n : C[k] = A[k]
    BY <1>8, <2>1, Zenon
  <2> QED
    BY <1>4, <2>2, Zenon
<1>10. \A k \in 1 .. n : C[k].channel = p[1] /\ C[k].data = p[k + 1]
  <2>1. \A c, d : ItemOf(c, d).channel = c /\ ItemOf(c, d).data = d
    BY DEF ItemOf
  <2> TAKE k \in 1 .. n
  <2> DEFINE i == C[k]
  <2>2. i = ItemOf(p[1], p[k + 1])
    BY <1>9
  <2> HIDE DEF i
  <2>3. i.channel = p[1] /\ i.data = p[k + 1]
    BY <2>1, <2>2
  <2> QED
    BY <2>3 DEF i
<1>11. 1 \in 1 .. n
  BY <1>2
<1>12. n <= Len(C)
  BY <1>2, <1>5, <1>8
<1>13. s = [k \in 1 .. n |-> C[k].data]
  <2>1. s = [k \in 1 .. n |-> s[k]]
    BY <1>4
  <2>2. \A k \in 1 .. n : s[k] = C[k].data
    BY <1>4, <1>10
  <2> QED
    BY <2>1, <2>2, Zenon
<1>14. SubSeq(C, n + 1, n + z) = Z
  <2>1. SubSeq(A \o Z, Len(A) + 1, Len(A) + Len(Z)) = Z
    <3>1. A \in Seq(Items)
      BY <1>4
    <3> QED
      BY <3>1, SecondPart
  <2>2. Len(A) = n /\ Len(Z) = z
    BY <1>4 DEF z
  <2> QED
    BY <1>7, <2>1, <2>2, Zenon
<1>15. SubSeq(C, n + 1, Len(C)) = Z
  <2>1. Len(C) = n + z
    BY <1>8
  <2> QED
    BY <1>14, <2>1, Zenon
<1> QED
  BY <1>2, <1>10, <1>11, <1>12, <1>13, <1>15 DEF s

\* An edge takes at most a byte, and delivers nothing, or the first packet.
LEMMA QueueStep ==
  ASSUME PathInv, CountInv, NEW in \in Offers, NEW ready \in BOOLEAN, Edge(in, ready)
  PROVE  Q!Next
<1> DEFINE C == Contents
           C1 == Contents'
           T == Taken(in)
           p == packet[encodeBank]
           d1 == delivered'
           A == BankAt(packet, full, nextEncodeBank)
<1>1. T \in Q!Accepted
  <2>1. T = <<>> \/ \E i \in [channel : Channel, data : Data] : T = <<i>>
    BY TakenIs
  <2> QED
    BY <2>1, Zenon DEF Q!Accepted, Q!Item
<1>2. Observe(ready) /\ EncoderEdge(PacketByte(in), ready)
  BY DEF Edge
<1>3. /\ ~Ends(ready) => d1 = <<>>
      /\ Ends(ready) =>
           /\ full[encodeBank] /\ encodeBank \in Bank /\ p \in Seq(Byte) /\ Summed(p)
           /\ d1 = <<p[1], SubSeq(p, 2, Len(p) - 1)>>
  BY <1>2, DeliveredIs
<1>4. /\ ~Ends(ready) => C1 = C \o T
      /\ Ends(ready) => \E Z \in Seq(Items) : C = A \o Z /\ C1 = Z \o T
  BY ContentsMove
<1>5. CASE ~Ends(ready)
  <2>1. Contents' = Contents \o T /\ delivered' = <<>>
    BY <1>3, <1>4, <1>5
  <2>2. Q!Accept
    BY <1>1, <2>1, Zenon DEF Q!Accept
  <2> QED
    BY <2>2 DEF Q!Next
<1>6. CASE Ends(ready)
  <2>1. PICK Z \in Seq(Items) : C = A \o Z /\ C1 = Z \o T
    BY <1>4, <1>6
  <2>2. A = PacketItems(p, Len(p) - 1)
    <3>1. encodeBank = nextEncodeBank /\ full[nextEncodeBank]
      BY <1>6 DEF PathInv, BankInv, BankOrder, Ends, OutputLast
    <3> QED
      BY <3>1, Zenon DEF BankAt
  <2>3. p \in Seq(Byte) /\ Summed(p) /\ d1 = <<p[1], SubSeq(p, 2, Len(p) - 1)>>
    BY <1>3, <1>6
  <2> DEFINE n == Len(p) - 2
  <2> HIDE DEF C, C1, T, p, d1, A
  <2>4. Joined(C, PacketItems(p, Len(p) - 1), Z)
    BY <2>1, <2>2, Zenon DEF Joined
  <2>5. /\ n \in 1 .. MaxPayload /\ n <= Len(C)
        /\ \A k \in 1 .. n : C[k].channel = C[1].channel
        /\ C[1].channel = p[1]
        /\ SubSeq(p, 2, Len(p) - 1) = [k \in 1 .. n |-> C[k].data]
        /\ SubSeq(C, n + 1, Len(C)) = Z
    <3>1. p \in Seq(Byte) /\ Summed(p)
      BY <2>3
    <3> QED
      BY <2>4, <3>1, PacketInFront
  <2> HIDE DEF n
  <2>6. d1 = <<C[1].channel, [k \in 1 .. n |-> C[k].data]>>
    BY <2>3, <2>5, Zenon
  <2>7. C1 = SubSeq(C, n + 1, Len(C)) \o T
    BY <2>1, <2>5, Zenon
  <2>8. Q!DeliverFirst(n)
    BY <1>1, <2>5, <2>6, <2>7, Zenon DEF Q!DeliverFirst, C, C1, d1
  <2>9. Q!Deliver
    BY <2>5, <2>8, Zenon DEF Q!Deliver, C
  <2> QED
    BY <2>9 DEF Q!Next
<1> QED
  BY <1>5, <1>6

-----------------------------------------------------------------------------
(***************************************************************************)
(* Theorems                                                                *)
(***************************************************************************)
\* The frame on its way out agrees, byte by byte, with what orbflow_frame of
\* the host library makes of its packet: the group lengths the encoder notes
\* while it loads are those of the COBS encoding, its running checksum is that
\* of the packet, and no stall, pause or new packet gets between.
THEOREM FrameAgrees == Spec => []FrameIsReference
<1>1. PathInv => FrameIsReference
  <2> SUFFICES ASSUME PathInv, emit # "E_IDLE"
               PROVE  IsPrefix(frame, orbflow_frame(packet[encodeBank][1],
                        SubSeq(packet[encodeBank], 2, Len(packet[encodeBank]) - 1)))
    BY DEF FrameIsReference
  <2> DEFINE p == packet[encodeBank]
             g == groups[encodeBank]
  <2>1. encodeBank \in Bank /\ full[encodeBank]
    BY DEF PathInv, EmitType, BankInv, BankOrder
  <2>2. p \in Seq(Byte) /\ g \in Seq(0 .. GroupMax) /\ Summed(p)
    BY <2>1 DEF PathInv, LoadType, BankInv, Complete
  <2>3. PICK st : SentOf(st, p, g)
    BY DEF PathInv, SentInv
  <2>4. emit \in {"E_CODE", "E_DATA", "E_DELIMITER"}
    BY DEF PathInv, EmitType
  <2> HIDE DEF p, g
  <2>5. /\ Cut(st, p, g)
        /\ \/ \E raw, i : AtCode(raw, i, frame, st, p, g)
           \/ \E raw, i, left : AtData(raw, i, left, frame, st, p, g)
           \/ \E i : AtEnd(i, frame, p, g)
    BY <2>3, <2>4 DEF SentOf, SentAt
  <2>6. cobs_encode(p) \in Seq(NonZero) /\ Begins(frame, cobs_encode(p))
    BY <2>2, <2>5, SentBegins
  <2>7. IsPrefix(frame, Append(cobs_encode(p), 0))
    BY <2>6, BeginsIsPrefix
  <2>8. orbflow_frame(p[1], SubSeq(p, 2, Len(p) - 1)) = Append(cobs_encode(p), 0)
    BY <2>2, FrameIs
  <2> QED
    BY <2>7, <2>8, Zenon DEF p
<1> QED
  BY <1>1, PathHolds, PTL

\* The packetizer and the encoder together are a queue of bytes: each edge takes
\* at most one in, and what an ended frame decodes to on the host is the next
\* bytes of the queue, all of one channel and no more than a packet holds.
THEOREM PathIsAQueue == Spec => ImplementsChannelQueue
<1>1. Init => Q!Init
  <2> SUFFICES ASSUME Init PROVE Contents = <<>> /\ delivered = <<>>
    BY DEF Q!Init
  <2>1. /\ full = [b \in Bank |-> FALSE] /\ nextEncodeBank = 0 /\ payloadCount = 0 /\ ~held
        /\ delivered = <<>>
    BY DEF Init, EncoderInit
  <2>2. InBank(nextEncodeBank) = <<>> /\ InBank(1 - nextEncodeBank) = <<>>
    <3>1. 1 - nextEncodeBank \in Bank /\ nextEncodeBank \in Bank
      BY <2>1 DEF Bank
    <3> QED
      BY <2>1, <3>1 DEF InBank
  <2>3. Loading = <<>> /\ Holding = <<>>
    BY <2>1 DEF Loading, Holding
  <2>4. <<>> \o <<>> = <<>>
    OBVIOUS
  <2>5. Contents = <<>>
    BY <2>2, <2>3, <2>4, Zenon DEF Contents
  <2> QED
    BY <2>1, <2>5
<1>2. ASSUME PathInv, CountInv, [Next]_vars
      PROVE  [Q!Next]_(Q!vars)
  <2>1. CASE Next
    <3>1. PICK in \in Offers, ready \in BOOLEAN : Edge(in, ready)
      BY <2>1 DEF Next
    <3> QED
      BY <1>2, <3>1, QueueStep
  <2>2. CASE UNCHANGED vars
    <3>1. UNCHANGED <<packet, full, nextEncodeBank, loadBank, load, payloadCount, rawLength, pending,
                      held, heldChannel, heldData, delivered>>
      BY <2>2 DEF vars, encoderVars, loadVars, emitVars, bankVars, packetizerVars
    <3>2. Loading' = Loading /\ Holding' = Holding
      BY <3>1, Zenon DEF Loading, Holding
    <3>3. Contents' = Contents
      <4>1. /\ BankAt(packet', full', nextEncodeBank') = BankAt(packet, full, nextEncodeBank)
            /\ BankAt(packet', full', 1 - nextEncodeBank') = BankAt(packet, full, 1 - nextEncodeBank)
        BY <3>1, Zenon
      <4> QED
        BY <3>2, <4>1, ContentsAre, Zenon
    <3> QED
      BY <3>1, <3>3 DEF Q!vars
  <2> QED
    BY <1>2, <2>1, <2>2
<1> QED
  BY <1>1, <1>2, CountHolds, PTL DEF Spec, ImplementsChannelQueue, Q!Spec
=============================================================================
