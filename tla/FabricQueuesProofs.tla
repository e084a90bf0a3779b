-------------------------- MODULE FabricQueuesProofs --------------------------
(***************************************************************************)
(* Proofs about the clock-crossing FIFO, for every depth and every way in  *)
(* which the two clocks sample each other's pointers.                      *)
(***************************************************************************)
EXTENDS FabricQueues, SequenceTheorems, FiniteSetTheorems, WellFoundedInduction, TLAPS

(***************************************************************************)
(* Induction, and powers of two                                            *)
(***************************************************************************)
\* A set of numbers has a least one.
LEMMA LeastOne ==
  \A T \in SUBSET Nat : T # {} => \E x \in T : \A y \in T : x <= y
<1> DEFINE R == OpToRel(<, Nat)
<1>1. IsWellFoundedOn(R, Nat)
  BY NatLessThanWellFounded
<1> SUFFICES ASSUME NEW T \in SUBSET Nat, T # {} PROVE \E x \in T : \A y \in T : x <= y
  OBVIOUS
<1>2. \E x \in T : \A y \in T : ~ (<<y, x>> \in R)
  <2> HIDE DEF R
  <2> QED
    BY <1>1, WFMin
<1>3. \A x, y \in Nat : ~(<<y, x>> \in R) => x <= y
  BY DEF OpToRel
<1> QED
  BY <1>2, <1>3

\* What holds of m and goes on from each number below n to the next, holds of n.
LEMMA UpTo ==
  ASSUME NEW T \in SUBSET Nat, NEW m \in Nat, NEW n \in Nat, m <= n, m \in T,
         \A k \in Nat : m <= k /\ k < n /\ k \in T => k + 1 \in T
  PROVE  n \in T
<1> SUFFICES ASSUME n \notin T PROVE FALSE
  OBVIOUS
<1> DEFINE missing == {k \in Nat : m <= k /\ k <= n /\ k \notin T}
<1>1. missing \in SUBSET Nat /\ missing # {}
  BY n \in missing
<1>2. PICK x \in missing : \A y \in missing : x <= y
  BY <1>1, LeastOne
<1>3. x \in Nat /\ m <= x /\ x <= n /\ x \notin T /\ x # m
  BY <1>2
<1>4. x - 1 \in Nat /\ m <= x - 1 /\ x - 1 < n /\ ~(x <= x - 1)
  BY <1>3
<1>5. x - 1 \in T
  BY <1>2, <1>4
<1>6. (x - 1) + 1 \in T
  BY <1>4, <1>5
<1> QED
  BY <1>3, <1>6

\* A power of two is the number of the subsets of a set, which each new element doubles.
LEMMA PowerType == \A n \in Nat : 2 ^ n \in Nat \ {0}
<1> SUFFICES ASSUME NEW n \in Nat PROVE 2 ^ n \in Nat \ {0}
  OBVIOUS
<1>1. IsFiniteSet(1 .. n) /\ Cardinality(1 .. n) = n
  BY FS_Interval
<1>2. IsFiniteSet(SUBSET (1 .. n)) /\ Cardinality(SUBSET (1 .. n)) = 2 ^ n
  BY <1>1, FS_SUBSET
<1>3. Cardinality(SUBSET (1 .. n)) # 0
  BY <1>2, FS_EmptySet
<1> QED
  BY <1>2, <1>3, FS_CardinalityType

LEMMA PowerDoubles == \A n \in Nat : 2 ^ (n + 1) = 2 * 2 ^ n
<1> SUFFICES ASSUME NEW n \in Nat PROVE 2 ^ (n + 1) = 2 * 2 ^ n
  OBVIOUS
<1> DEFINE S == 1 .. n
           Q == SUBSET S
           W == {s \cup {n + 1} : s \in Q}
<1>1. /\ IsFiniteSet(S) /\ Cardinality(S) = n
      /\ IsFiniteSet(1 .. n + 1) /\ Cardinality(1 .. n + 1) = n + 1
  BY FS_Interval
<1>2. /\ IsFiniteSet(Q) /\ Cardinality(Q) = 2 ^ n
      /\ Cardinality(SUBSET (1 .. n + 1)) = 2 ^ (n + 1)
  BY <1>1, FS_SUBSET
<1>3. n + 1 \notin S /\ 1 .. n + 1 = S \cup {n + 1}
  OBVIOUS
<1>4. IsFiniteSet(W) /\ Cardinality(W) = Cardinality(Q)
  <2> DEFINE f == [s \in Q |-> s \cup {n + 1}]
  <2>1. f \in Bijection(Q, W)
    <3>1. f \in [Q -> W]
      OBVIOUS
    <3>2. \A a, b \in Q : f[a] = f[b] => a = b
      BY <1>3
    <3>3. \A w \in W : \E a \in Q : f[a] = w
      OBVIOUS
    <3> QED
      BY <3>1, <3>2, <3>3 DEF Bijection, Injection, Surjection, IsInjective
  <2> QED
    BY <1>2, <2>1, FS_Bijection DEF ExistsBijection
<1>5. Q \cap W = {} /\ SUBSET (1 .. n + 1) = Q \cup W
  <2>1. Q \cap W = {}
    BY <1>3
  <2>2. ASSUME NEW t \in SUBSET (1 .. n + 1) PROVE t \in Q \cup W
    <3>1. CASE n + 1 \in t
      <4>1. t \ {n + 1} \in Q /\ t = (t \ {n + 1}) \cup {n + 1}
        BY <1>3, <3>1
      <4> QED
        BY <4>1
    <3>2. CASE n + 1 \notin t
      BY <1>3, <3>2
    <3> QED
      BY <3>1, <3>2
  <2>3. ASSUME NEW t \in Q \cup W PROVE t \in SUBSET (1 .. n + 1)
    BY <1>3
  <2> QED
    BY <2>1, <2>2, <2>3
<1>6. Cardinality(Q \cup W) = Cardinality(Q) + Cardinality(W) - Cardinality(Q \cap W)
  BY <1>2, <1>4, FS_Union
<1>7. Cardinality(Q \cap W) = 0
  BY <1>5, FS_EmptySet
<1> HIDE DEF Q, W
<1>8. 2 ^ (n + 1) = 2 ^ n + 2 ^ n - 0
  BY <1>2, <1>4, <1>5, <1>6, <1>7
<1>9. \A a \in Nat : a + a - 0 = 2 * a
  OBVIOUS
<1> QED
  BY <1>8, <1>9, PowerType

-----------------------------------------------------------------------------
(***************************************************************************)
(* Quotients and remainders                                                *)
(***************************************************************************)
\* Division by d has one result.
LEMMA Divides ==
  ASSUME NEW d \in Nat \ {0}, NEW q \in Nat, NEW r \in 0 .. d - 1
  PROVE  /\ (d * q + r) \div d = q /\ (d * q + r) % d = r
         /\ d * q + r \in Nat
<1> DEFINE v == d * q + r
<1>1. d * q \in Nat /\ v \in Nat
  OBVIOUS
<1> HIDE DEF v
<1> DEFINE q2 == v \div d
           r2 == v % d
<1>2. q2 \in Nat /\ r2 \in 0 .. d - 1 /\ v = d * q2 + r2
  BY <1>1
<1> HIDE DEF q2, r2
<1>3. v = d * q + r
  BY DEF v
<1>4. \A a, b \in Nat : a < b => d * a + d <= d * b
  <2> SUFFICES ASSUME NEW a \in Nat, NEW b \in Nat, a < b PROVE d * a + d <= d * b
    OBVIOUS
  <2>1. d * (a + 1) <= d * b
    OBVIOUS
  <2>2. d * (a + 1) = d * a + d
    OBVIOUS
  <2> QED
    BY <2>1, <2>2
<1>5. d * q \in Nat /\ d * q2 \in Nat
  BY <1>2
<1>6. ~(q < q2)
  BY <1>2, <1>3, <1>4, <1>5
<1>7. ~(q2 < q)
  BY <1>2, <1>3, <1>4, <1>5
<1>8. q2 = q
  BY <1>2, <1>6, <1>7
<1> QED
  BY <1>1, <1>2, <1>3, <1>5, <1>8 DEF q2, r2, v

LEMMA Division ==
  ASSUME NEW d \in Nat \ {0}, NEW v \in Nat
  PROVE  /\ v \div d \in Nat /\ v % d \in 0 .. d - 1 /\ v = d * (v \div d) + (v % d)
  OBVIOUS

LEMMA PowerSum == \A i, k \in Nat : 2 ^ (i + k) = 2 ^ i * 2 ^ k
<1> SUFFICES ASSUME NEW i \in Nat, NEW n \in Nat PROVE 2 ^ (i + n) = 2 ^ i * 2 ^ n
  OBVIOUS
<1> DEFINE T == {k \in Nat : 2 ^ (i + k) = 2 ^ i * 2 ^ k}
<1>1. 0 \in T
  <2>1. 2 ^ 0 = 1 /\ i + 0 = i /\ 2 ^ i \in Nat
    BY PowerType
  <2>2. \A a \in Nat : a * 1 = a
    OBVIOUS
  <2> QED
    BY <2>1, <2>2
<1>2. ASSUME NEW k \in Nat, k \in T PROVE k + 1 \in T
  <2> DEFINE a == 2 ^ i
             b == 2 ^ k
             c == 2 ^ (i + k)
  <2>1. i + (k + 1) = (i + k) + 1 /\ i + k \in Nat
    OBVIOUS
  <2>2. 2 ^ (i + (k + 1)) = 2 * c /\ 2 ^ (k + 1) = 2 * b
    BY <2>1, PowerDoubles
  <2>3. c = a * b /\ a \in Nat /\ b \in Nat
    BY <1>2, PowerType
  <2>4. \A x, y \in Nat : 2 * (x * y) = x * (2 * y)
    OBVIOUS
  <2> HIDE DEF a, b, c
  <2>5. 2 ^ (i + (k + 1)) = a * 2 ^ (k + 1)
    BY <2>2, <2>3, <2>4
  <2> QED
    BY <2>5 DEF a
<1>3. T \in SUBSET Nat
  OBVIOUS
<1>4. 0 \in Nat /\ 0 <= n
  OBVIOUS
<1> HIDE DEF T
<1>5. n \in T
  BY <1>1, <1>2, <1>3, <1>4, UpTo
<1> QED
  BY <1>5 DEF T

-----------------------------------------------------------------------------
(***************************************************************************)
(* Binary and Gray code                                                    *)
(***************************************************************************)
BitOf(v, i) == (v \div 2 ^ i) % 2

\* All bits below number i are set, so that counting on changes bit i.
Carry(v, i) == v % 2 ^ i = 2 ^ i - 1

LEMMA BitType == \A v, i \in Nat : BitOf(v, i) \in {0, 1}
<1> SUFFICES ASSUME NEW v \in Nat, NEW i \in Nat PROVE BitOf(v, i) \in {0, 1}
  OBVIOUS
<1> DEFINE q == v \div 2 ^ i
<1>1. q \in Nat
  BY PowerType, Division
<1> HIDE DEF q
<1>2. q % 2 \in {0, 1}
  BY <1>1
<1> QED
  BY <1>2 DEF BitOf, q

\* Counting changes a bit that is carried into, and no other.
LEMMA BitOfNext ==
  ASSUME NEW v \in Nat, NEW i \in Nat
  PROVE  BitOf(v + 1, i) = IF Carry(v, i) THEN 1 - BitOf(v, i) ELSE BitOf(v, i)
<1> DEFINE p == 2 ^ i
           q == v \div p
           r == v % p
<1>1. p \in Nat \ {0}
  BY PowerType
<1> HIDE DEF p
<1>2. q \in Nat /\ r \in 0 .. p - 1 /\ v = p * q + r
  BY <1>1, Division
<1> HIDE DEF q, r
<1>3. CASE r = p - 1
  <2>1. v + 1 = p * (q + 1) + 0
    <3>1. p * (q + 1) = p * q + p /\ p * q \in Nat
      BY <1>1, <1>2
    <3> QED
      BY <1>1, <1>2, <1>3, <3>1
  <2>2. q + 1 \in Nat /\ 0 \in 0 .. p - 1
    BY <1>1, <1>2
  <2>3. (v + 1) \div p = q + 1
    <3> DEFINE n == q + 1
    <3>1. n \in Nat /\ v + 1 = p * n + 0
      BY <2>1, <2>2
    <3> HIDE DEF n
    <3>2. (p * n + 0) \div p = n
      BY <1>1, <2>2, <3>1, Divides
    <3> QED
      BY <3>1, <3>2 DEF n
  <2>4. (q + 1) % 2 = 1 - (q % 2)
    BY <1>2
  <2> QED
    BY <1>3, <2>3, <2>4 DEF BitOf, Carry, p, q, r
<1>4. CASE r # p - 1
  <2>1. v + 1 = p * q + (r + 1)
    <3>1. p * q \in Nat
      BY <1>1, <1>2
    <3> QED
      BY <1>1, <1>2, <3>1
  <2>2. r + 1 \in 0 .. p - 1
    BY <1>1, <1>2, <1>4
  <2>3. (v + 1) \div p = q
    BY <1>1, <1>2, <2>1, <2>2, Divides
  <2> QED
    BY <1>4, <2>3 DEF BitOf, Carry, p, q, r
<1> QED
  BY <1>3, <1>4

\* A carry goes on over a bit that is set.
LEMMA CarryOn ==
  ASSUME NEW v \in Nat, NEW i \in Nat
  PROVE  Carry(v, i + 1) <=> Carry(v, i) /\ BitOf(v, i) = 1
<1> DEFINE p == 2 ^ i
           q == v \div p
           r == v % p
           b == q % 2
           h == q \div 2
<1>1. p \in Nat \ {0} /\ 2 ^ (i + 1) = 2 * p
  BY PowerType, PowerDoubles
<1> HIDE DEF p
<1>2. q \in Nat /\ r \in 0 .. p - 1 /\ v = p * q + r
  BY <1>1, Division
<1> HIDE DEF q, r
<1>3. h \in Nat /\ b \in {0, 1} /\ q = 2 * h + b
  BY <1>2
<1> HIDE DEF b, h
<1>4. v = (2 * p) * h + (p * b + r)
  <2>1. \A x, y, z \in Nat : x * (2 * y + z) = (2 * x) * y + x * z
    OBVIOUS
  <2>2. p * q = (2 * p) * h + p * b
    BY <1>1, <1>3, <2>1
  <2>3. (2 * p) * h \in Nat /\ p * b \in Nat
    BY <1>1, <1>3
  <2> QED
    BY <1>2, <2>2, <2>3
<1>5. p * b = IF b = 1 THEN p ELSE 0
  BY <1>1, <1>3
<1>6. p * b + r \in 0 .. 2 * p - 1 /\ 2 * p \in Nat \ {0}
  BY <1>1, <1>2, <1>3, <1>5
<1>7. v % (2 * p) = p * b + r
  BY <1>3, <1>4, <1>6, Divides
<1>8. p * b + r = 2 * p - 1 <=> r = p - 1 /\ b = 1
  BY <1>1, <1>2, <1>3, <1>5
<1>9. Carry(v, i + 1) <=> r = p - 1 /\ b = 1
  BY <1>1, <1>7, <1>8 DEF Carry
<1> QED
  BY <1>9 DEF Carry, BitOf, b, q, p, r

\* A carry into a bit went through all bits below.
LEMMA CarryBelow ==
  ASSUME NEW v \in Nat, NEW i \in Nat, NEW j \in Nat, i <= j, Carry(v, j)
  PROVE  Carry(v, i)
<1> DEFINE T == {k \in Nat : k <= j => Carry(v, j - k)}
<1>1. 0 \in T
  BY j - 0 = j
<1>2. ASSUME NEW k \in Nat, k < j - i, k \in T PROVE k + 1 \in T
  <2>1. /\ k <= j /\ j - (k + 1) \in Nat /\ (j - (k + 1)) + 1 = j - k
    BY <1>2
  <2>2. Carry(v, (j - (k + 1)) + 1)
    BY <1>2, <2>1
  <2> QED
    BY <2>1, <2>2, CarryOn
<1>3. T \in SUBSET Nat
  OBVIOUS
<1>4. j - i \in Nat /\ 0 \in Nat /\ 0 <= j - i /\ j - i <= j /\ j - (j - i) = i
  OBVIOUS
<1> HIDE DEF T
<1>5. j - i \in T
  BY <1>1, <1>2, <1>3, <1>4, UpTo
<1> QED
  BY <1>4, <1>5 DEF T

LEMMA PointersAre ==
  /\ DepthLog2 \in Nat /\ DepthLog2 > 1 /\ PtrW = DepthLog2 + 1 /\ PtrW \in Nat
  /\ Depth \in Nat \ {0} /\ 2 ^ PtrW = 2 * Depth /\ Pointers = 0 .. 2 * Depth - 1
  /\ Depth > 1 /\ Bits = 0 .. DepthLog2
<1>1. DepthLog2 \in Nat /\ DepthLog2 > 1 /\ PtrW = DepthLog2 + 1 /\ PtrW \in Nat /\ Bits = 0 .. DepthLog2
  BY DepthAssumption DEF PtrW, Bits
<1>2. Depth \in Nat \ {0} /\ 2 ^ PtrW = 2 * Depth
  BY <1>1, PowerType, PowerDoubles DEF Depth
<1>3. Depth > 1
  <2>1. DepthLog2 - 1 \in Nat /\ (DepthLog2 - 1) + 1 = DepthLog2
    BY <1>1
  <2>2. Depth = 2 * 2 ^ (DepthLog2 - 1) /\ 2 ^ (DepthLog2 - 1) \in Nat \ {0}
    BY <2>1, PowerDoubles, PowerType DEF Depth
  <2> DEFINE h == 2 ^ (DepthLog2 - 1)
  <2> HIDE DEF h
  <2>3. Depth = 2 * h /\ h \in Nat \ {0}
    BY <2>2 DEF h
  <2> QED
    BY <2>3
<1> QED
  BY <1>1, <1>2, <1>3 DEF Pointers

LEMMA BinaryIs == \A v, i : i \in Binary(v) <=> i \in Bits /\ BitOf(v, i) = 1
  BY DEF Binary, BitOf

\* The pointer that counts round: its bits are those of the number that counts on.
LEMMA BitOfPlus1 ==
  ASSUME NEW v \in Pointers, NEW i \in Bits
  PROVE  BitOf(Plus1(v), i) = BitOf(v + 1, i)
<1>1. v \in 0 .. 2 * Depth - 1 /\ i \in Nat /\ i <= DepthLog2
  BY PointersAre
<1>2. CASE v + 1 < 2 * Depth
  <2>1. Plus1(v) = v + 1
    BY <1>1, <1>2, PointersAre DEF Plus1
  <2> QED
    BY <2>1
<1>3. CASE v + 1 = 2 * Depth
  <2> DEFINE p == 2 ^ i
             m == 2 ^ (DepthLog2 - i)
  <2>1. p \in Nat \ {0} /\ m \in Nat /\ Depth = p * m
    <3>1. DepthLog2 - i \in Nat /\ i + (DepthLog2 - i) = DepthLog2
      BY <1>1, PointersAre
    <3> QED
      BY <1>1, <3>1, PowerType, PowerSum DEF Depth
  <2> HIDE DEF p, m
  <2>2. v + 1 = p * (2 * m) + 0
    <3>1. 2 * (p * m) = p * (2 * m) /\ p * (2 * m) \in Nat
      BY <2>1
    <3> QED
      BY <1>3, <2>1, <3>1
  <2>3. (v + 1) \div p = 2 * m
    <3>1. 2 * m \in Nat /\ 0 \in 0 .. p - 1
      BY <2>1
    <3> QED
      BY <2>1, <2>2, <3>1, Divides
  <2>4. Plus1(v) = 0
    BY <1>3, PointersAre DEF Plus1
  <2>5. 0 \div p = 0
    <3>1. 0 = p * 0 + 0 /\ 0 \in 0 .. p - 1
      BY <2>1
    <3> QED
      BY <2>1, <3>1, Divides
  <2>6. (2 * m) % 2 = 0 /\ 0 % 2 = 0
    BY <2>1
  <2> QED
    BY <2>3, <2>4, <2>5, <2>6 DEF BitOf, p
<1> QED
  BY <1>1, <1>2, <1>3, PointersAre

\* In Gray code one step changes at most one bit.
LEMMA GrayStep ==
  ASSUME NEW v \in Pointers
  PROVE  \E d : Xor(Gray(v), Gray(Plus1(v))) \subseteq {d}
<1> DEFINE w == Plus1(v)
           Changed == Xor(Gray(v), Gray(w))
<1>1. v \in Nat /\ w \in Pointers
  BY PointersAre DEF Plus1
<1>2. ASSUME NEW i \in Bits
      PROVE  (i \in Binary(w)) <=> ~(i \in Binary(v) <=> Carry(v, i))
  <2>1. i \in Nat
    BY PointersAre
  <2>2. BitOf(w, i) = IF Carry(v, i) THEN 1 - BitOf(v, i) ELSE BitOf(v, i)
    BY <1>1, <2>1, BitOfPlus1, BitOfNext
  <2>3. BitOf(v, i) \in {0, 1}
    BY <1>1, <2>1, BitType
  <2>4. BitOf(w, i) = 1 <=> ~(BitOf(v, i) = 1 <=> Carry(v, i))
    BY <2>2, <2>3
  <2> QED
    BY <2>4, BinaryIs
<1>3. \A x, i : i \in Gray(x) <=>
        i \in Bits /\ ~((i + 1 \in Binary(x)) <=> (i \in Binary(x)))
  BY DEF Gray, Xor, Shifted, Binary
<1>4. \A x, i : i \in Binary(x) => i \in Bits
  BY BinaryIs
<1> HIDE DEF w
<1>5. ASSUME NEW i \in Changed
      PROVE  i \in Bits /\ Carry(v, i) /\ (i + 1 \in Bits => ~Carry(v, i + 1))
  <2>1. i \in Bits /\ ~(i \in Gray(v) <=> i \in Gray(w))
    BY <1>3, <1>5 DEF Xor
  <2>2. i \in Nat
    BY <2>1, PointersAre
  <2>3. CASE i + 1 \in Bits
    <3>1. Carry(v, i + 1) => Carry(v, i)
      BY <1>1, <2>2, CarryOn
    <3>2. ~(Carry(v, i + 1) <=> Carry(v, i))
      BY <1>2, <1>3, <2>1, <2>3
    <3> QED
      BY <2>1, <3>1, <3>2
  <2>4. CASE i + 1 \notin Bits
    BY <1>2, <1>3, <1>4, <2>1, <2>4
  <2> QED
    BY <2>3, <2>4
<1>6. ASSUME NEW i \in Changed, NEW j \in Changed PROVE ~(i < j)
  <2> SUFFICES ASSUME i < j PROVE FALSE
    OBVIOUS
  <2>1. i \in Bits /\ j \in Bits /\ Carry(v, j)
    BY <1>5
  <2>2. i + 1 \in Bits /\ i + 1 \in Nat /\ j \in Nat /\ i + 1 <= j
    BY <2>1, PointersAre
  <2>3. Carry(v, i + 1)
    BY <1>1, <2>1, <2>2, CarryBelow
  <2> QED
    BY <1>5, <2>2, <2>3
<1>7. \A i \in Changed : i \in Nat
  BY <1>5, PointersAre
<1>8. \A i, j \in Changed : i = j
  <2> SUFFICES ASSUME NEW i \in Changed, NEW j \in Changed PROVE i = j
    OBVIOUS
  <2>1. ~(i < j) /\ ~(j < i)
    BY <1>6
  <2>2. i \in Nat /\ j \in Nat
    BY <1>7
  <2> HIDE DEF Changed
  <2> QED
    BY <2>1, <2>2
<1> HIDE DEF Changed
<1>9. \E d : Changed \subseteq {d}
  <2>1. CASE Changed = {}
    BY <2>1
  <2>2. CASE Changed # {}
    BY <1>8, <2>2
  <2> QED
    BY <2>1, <2>2
<1> QED
  BY <1>9 DEF Changed, w

\* So the other clock samples the old pointer or the new one.
LEMMA SampleIsOneOfBoth ==
  ASSUME NEW v \in Pointers, NEW s \in Sample(Gray(v), Gray(Plus1(v)))
  PROVE  s = Gray(v) \/ s = Gray(Plus1(v))
<1> DEFINE a == Gray(v)
           b == Gray(Plus1(v))
<1>1. PICK d : Xor(a, b) \subseteq {d}
  BY GrayStep
<1>2. s \in Sample(a, b)
  OBVIOUS
<1> HIDE DEF a, b
<1>3. a \cap b \subseteq s /\ s \subseteq a \cup b
  BY <1>2 DEF Sample
<1>4. \A i : i # d => (i \in a <=> i \in b)
  BY <1>1 DEF Xor
<1>5. s = a \/ s = b
  <2>1. CASE d \in s <=> d \in a
    <3>1. \A i : i \in s <=> i \in a
      BY <1>3, <1>4, <2>1
    <3> QED
      BY <3>1
  <2>2. CASE ~(d \in s <=> d \in a)
    <3>1. d \in s <=> d \in b
      BY <1>3, <2>2
    <3>2. \A i : i \in s <=> i \in b
      BY <1>3, <1>4, <3>1
    <3> QED
      BY <3>2
  <2> QED
    BY <2>1, <2>2
<1> QED
  BY <1>5 DEF a, b

LEMMA SampleOfOne == \A a \in Register : Sample(a, a) = {a}
  BY DEF Sample

\* A register with Depth more than another differs from it in the topmost bit,
\* so in Gray code in the two topmost: the full test finds it.
LEMMA DepthMore ==
  ASSUME NEW r \in 0 .. Depth - 1, NEW i \in Bits
  PROVE  BitOf(r + Depth, i) = IF i = DepthLog2 THEN 1 ELSE BitOf(r, i)
<1>1. r \in Nat /\ i \in Nat /\ i <= DepthLog2 /\ r < Depth
  BY PointersAre
<1>2. CASE i = DepthLog2
  <2>1. r + Depth = Depth * 1 + r
    BY <1>1, PointersAre
  <2>2. (r + Depth) \div Depth = 1
    BY <1>1, <2>1, PointersAre, Divides
  <2> QED
    BY <1>2, <2>2 DEF BitOf, Depth
<1>3. CASE i # DepthLog2
  <2> DEFINE p == 2 ^ i
             m == 2 ^ (DepthLog2 - i - 1)
             q == r \div p
             s == r % p
  <2>1. p \in Nat \ {0} /\ m \in Nat /\ Depth = p * (2 * m)
    <3>1. /\ DepthLog2 - i - 1 \in Nat /\ (DepthLog2 - i - 1) + 1 = DepthLog2 - i
          /\ DepthLog2 - i \in Nat /\ i + (DepthLog2 - i) = DepthLog2
      BY <1>1, <1>3, PointersAre
    <3>2. 2 ^ (DepthLog2 - i) = 2 * m
      BY <3>1, PowerDoubles
    <3> QED
      BY <1>1, <3>1, <3>2, PowerType, PowerSum DEF Depth
  <2> HIDE DEF p, m
  <2>2. q \in Nat /\ s \in 0 .. p - 1 /\ r = p * q + s
    BY <1>1, <2>1, Division
  <2> HIDE DEF q, s
  <2>3. r + Depth = p * (q + 2 * m) + s
    <3>1. p * (q + 2 * m) = p * q + p * (2 * m)
      BY <2>1, <2>2
    <3>2. p * q \in Nat /\ p * (2 * m) \in Nat
      BY <2>1, <2>2
    <3> QED
      BY <2>1, <2>2, <3>1, <3>2
  <2>4. (r + Depth) \div p = q + 2 * m
    <3> DEFINE n == q + 2 * m
    <3>1. n \in Nat /\ r + Depth = p * n + s
      BY <2>1, <2>2, <2>3
    <3> HIDE DEF n
    <3>2. (p * n + s) \div p = n
      BY <2>1, <2>2, <3>1, Divides
    <3> QED
      BY <3>1, <3>2 DEF n
  <2>5. (q + 2 * m) % 2 = q % 2
    BY <2>1, <2>2
  <2> QED
    BY <1>3, <2>4, <2>5 DEF BitOf, p, q
<1> QED
  BY <1>2, <1>3

LEMMA FullTestFinds ==
  ASSUME NEW r \in Pointers
  PROVE  FullTest(Gray((r + Depth) % (2 * Depth)), Gray(r))
<1> DEFINE n == (r + Depth) % (2 * Depth)
<1>1. r \in Nat /\ r < 2 * Depth /\ n \in Pointers
      /\ n = IF r < Depth THEN r + Depth ELSE r - Depth
  BY PointersAre
<1> HIDE DEF n
<1>2. ASSUME NEW i \in Bits
      PROVE  (i \in Binary(n)) <=> ~((i \in Binary(r)) <=> i = DepthLog2)
  <2>1. i \in Nat
    BY PointersAre
  <2>2. CASE r < Depth
    <3>1. r \in 0 .. Depth - 1 /\ n = r + Depth
      BY <1>1, <2>2, PointersAre
    <3>2. BitOf(n, i) = IF i = DepthLog2 THEN 1 ELSE BitOf(r, i)
      BY <3>1, DepthMore
    <3>3. BitOf(r, DepthLog2) = 0
      <4>1. r = Depth * 0 + r
        BY <3>1, PointersAre
      <4>2. r \div Depth = 0
        BY <3>1, <4>1, PointersAre, Divides
      <4> QED
        BY <4>2 DEF BitOf, Depth
    <3>4. BitOf(n, i) = 1 <=> ~(BitOf(r, i) = 1 <=> i = DepthLog2)
      BY <3>2, <3>3
    <3> QED
      BY <3>4, BinaryIs
  <2>3. CASE ~(r < Depth)
    <3>1. n \in 0 .. Depth - 1 /\ r = n + Depth
      BY <1>1, <2>3, PointersAre
    <3>2. BitOf(r, i) = IF i = DepthLog2 THEN 1 ELSE BitOf(n, i)
      BY <3>1, DepthMore
    <3>3. BitOf(n, DepthLog2) = 0
      <4>1. n = Depth * 0 + n
        BY <3>1, PointersAre
      <4>2. n \div Depth = 0
        BY <3>1, <4>1, PointersAre, Divides
      <4> QED
        BY <4>2 DEF BitOf, Depth
    <3>4. BitOf(n, i) = 1 <=> ~(BitOf(r, i) = 1 <=> i = DepthLog2)
      BY <3>2, <3>3
    <3> QED
      BY <3>4, BinaryIs
  <2> QED
    BY <2>2, <2>3
<1>3. \A x, i : i \in Gray(x) <=>
        i \in Bits /\ ~((i + 1 \in Binary(x)) <=> (i \in Binary(x)))
  BY DEF Gray, Xor, Shifted, Binary
<1>4. \A x, i : i \in Binary(x) => i \in Bits
  BY BinaryIs
<1>5. DepthLog2 \in Bits /\ DepthLog2 - 1 \in Bits /\ PtrW - 1 = DepthLog2 /\ PtrW - 2 = DepthLog2 - 1
  BY PointersAre
<1>6. ASSUME NEW i \in Bits
      PROVE  (i \in Gray(n)) <=> ~((i \in Gray(r)) <=> i \in {DepthLog2, DepthLog2 - 1})
  <2>1. (i + 1 \in Binary(n)) <=> ~((i + 1 \in Binary(r)) <=> i = DepthLog2 - 1)
    <3>1. i = DepthLog2 - 1 <=> i + 1 = DepthLog2
      BY PointersAre
    <3>2. CASE i + 1 \in Bits
      BY <1>2, <3>1, <3>2
    <3>3. CASE i + 1 \notin Bits
      BY <1>4, <1>5, <3>1, <3>3
    <3> QED
      BY <3>2, <3>3
  <2>2. DepthLog2 # DepthLog2 - 1
    BY PointersAre
  <2> QED
    BY <1>2, <1>3, <2>1, <2>2
<1>7. \A i : i \in Gray(n) <=> i \in Xor(Gray(r), {PtrW - 1, PtrW - 2})
  BY <1>3, <1>5, <1>6 DEF Xor
<1>8. Gray(n) = Xor(Gray(r), {PtrW - 1, PtrW - 2})
  BY <1>7
<1> QED
  BY <1>8 DEF FullTest, n

-----------------------------------------------------------------------------
(***************************************************************************)
(* Positions: a pointer is a count of items, taken round                   *)
(***************************************************************************)
Round(n) == n % (2 * Depth)

LEMMA WholeRounds ==
  ASSUME NEW d \in Nat \ {0}, NEW q \in Nat, NEW n \in Nat
  PROVE  (d * q + n) % d = n % d
<1> DEFINE k == n \div d
           r == n % d
<1>1. k \in Nat /\ r \in 0 .. d - 1 /\ n = d * k + r
  BY Division
<1> HIDE DEF k, r
<1> DEFINE m == q + k
<1>2. m \in Nat /\ d * q + n = d * m + r
  <2>1. d * (q + k) = d * q + d * k /\ d * q \in Nat /\ d * k \in Nat
    BY <1>1
  <2> QED
    BY <1>1, <2>1
<1> HIDE DEF m
<1>3. (d * m + r) % d = r
  BY <1>1, <1>2, Divides
<1> QED
  BY <1>2, <1>3 DEF r

\* A count and what is added to it, taken round before or after.
LEMMA RoundThenAdd ==
  ASSUME NEW n \in Nat, NEW k \in Nat
  PROVE  /\ Round(n) \in Pointers
         /\ (Round(n) + k) % (2 * Depth) = Round(n + k)
         /\ (Round(n) + k) % Depth = (n + k) % Depth
<1> DEFINE d == 2 * Depth
           q == n \div d
           r == n % d
<1>1. d \in Nat \ {0} /\ d = 2 * Depth /\ Depth \in Nat \ {0}
  BY PointersAre
<1> HIDE DEF d
<1>2. q \in Nat /\ r \in 0 .. d - 1 /\ n = d * q + r
  BY <1>1, Division
<1>3. Round(n) = r
  BY DEF Round, d
<1> HIDE DEF q, r
<1> DEFINE s == r + k
<1>4. s \in Nat /\ n + k = d * q + s
  <2>1. d * q \in Nat
    BY <1>1, <1>2
  <2> QED
    BY <1>1, <1>2, <2>1
<1> HIDE DEF s
<1>5. (d * q + s) % d = s % d
  BY <1>1, <1>2, <1>4, WholeRounds
<1>6. (Depth * (2 * q) + s) % Depth = s % Depth
  <2>1. 2 * q \in Nat
    BY <1>2
  <2> QED
    BY <1>1, <1>4, <2>1, WholeRounds
<1>7. Depth * (2 * q) = d * q
  BY <1>1, <1>2
<1>8. Round(n) \in Pointers
  BY <1>1, <1>2, <1>3, PointersAre
<1>9. (Round(n) + k) % d = (n + k) % d /\ (Round(n) + k) % Depth = (n + k) % Depth
  BY <1>3, <1>4, <1>5, <1>6, <1>7 DEF s
<1> QED
  BY <1>8, <1>9 DEF Round, d

LEMMA PlaceIs ==
  ASSUME NEW n \in Nat
  PROVE  Round(n) % Depth = n % Depth /\ n % Depth \in 0 .. Depth - 1
<1>1. (Round(n) + 0) % Depth = (n + 0) % Depth /\ Round(n) \in Pointers
  BY RoundThenAdd
<1>2. Round(n) + 0 = Round(n) /\ n + 0 = n
  BY <1>1, PointersAre
<1> QED
  BY <1>1, <1>2, PointersAre

LEMMA NextRound ==
  ASSUME NEW n \in Nat
  PROVE  Plus1(Round(n)) = Round(n + 1)
<1>1. (Round(n) + 1) % (2 * Depth) = Round(n + 1)
  BY RoundThenAdd
<1> QED
  BY <1>1, PointersAre DEF Plus1

\* The distance of two pointers is that of the counts.
LEMMA FillIs ==
  ASSUME NEW a \in Nat, NEW n \in 0 .. 2 * Depth - 1
  PROVE  (Round(a + n) + 2 * Depth - Round(a)) % (2 * Depth) = n
<1> DEFINE d == 2 * Depth
           r == Round(a)
           m == r + n
<1>1. d \in Nat \ {0} /\ n \in 0 .. d - 1
  BY PointersAre
<1>2. r \in 0 .. d - 1 /\ m % d = Round(a + n)
  <2>1. n \in Nat
    BY PointersAre
  <2>2. Round(a) \in Pointers /\ (Round(a) + n) % (2 * Depth) = Round(a + n)
    BY <2>1, RoundThenAdd
  <2> QED
    BY <2>2, PointersAre
<1>3. Round(a + n) = m % d
  BY <1>2
<1> HIDE DEF d, r
<1>4. m % d = IF m < d THEN m ELSE m - d
  BY <1>1, <1>2
<1>5. CASE m < d
  <2>1. Round(a + n) + d - r = d * 1 + n
    BY <1>1, <1>2, <1>3, <1>4, <1>5
  <2>2. (d * 1 + n) % d = n
    BY <1>1, Divides
  <2> QED
    BY <2>1, <2>2 DEF d, r
<1>6. CASE ~(m < d)
  <2>1. Round(a + n) + d - r = d * 0 + n
    BY <1>1, <1>2, <1>3, <1>4, <1>6
  <2>2. (d * 0 + n) % d = n
    BY <1>1, Divides
  <2> QED
    BY <2>1, <2>2 DEF d, r
<1> QED
  BY <1>5, <1>6

\* Fewer than Depth items apart are two places of the memory.
LEMMA PlacesDiffer ==
  ASSUME NEW a \in Nat, NEW n \in 1 .. Depth - 1
  PROVE  (a + n) % Depth # a % Depth
<1> DEFINE q == a \div Depth
           r == a % Depth
           m == r + n
<1>1. Depth \in Nat \ {0}
  BY PointersAre
<1>2. q \in Nat /\ r \in 0 .. Depth - 1 /\ a = Depth * q + r
  BY <1>1, Division
<1> HIDE DEF q, r
<1>3. m \in Nat /\ a + n = Depth * q + m
  <2>1. Depth * q \in Nat
    BY <1>1, <1>2
  <2> QED
    BY <1>1, <1>2, <2>1
<1>4. (Depth * q + m) % Depth = m % Depth
  <2> HIDE DEF m
  <2> QED
    BY <1>1, <1>2, <1>3, WholeRounds
<1>5. m % Depth = IF m < Depth THEN m ELSE m - Depth
  BY <1>1, <1>2
<1>6. m % Depth # r
  BY <1>1, <1>2, <1>5
<1>7. (a + n) % Depth # r
  BY <1>3, <1>4, <1>6
<1> QED
  BY <1>7 DEF r

-----------------------------------------------------------------------------
(***************************************************************************)
(* The clock crossing                                                      *)
(***************************************************************************)
FifoType == mem \in [0 .. Depth - 1 -> Item] /\ output \in Item

\* How many items have been written and read, now (w, r), at the latest edge of
\* the own clock that the other side has not sampled (w0, r0), and as the two
\* stages of the other side's synchroniser have it.  What a side knows of the other is late
\* and never wrong.
Counts(w, w0, w1, w2, r, r0, r1, r2) ==
  /\ w2 <= w1 /\ w1 <= w0 /\ w0 <= w /\ w <= w0 + 1
  /\ r2 <= r1 /\ r1 <= r0 /\ r0 <= r /\ r <= r0 + 1
  /\ r <= w2 /\ w < r2 + Depth
  /\ wr = Round(w) /\ rd = Round(r)
  /\ wrGray = Gray(Round(w)) /\ wrGrayOld = Gray(Round(w0))
  /\ wrR1 = Gray(Round(w1)) /\ wrR2 = Gray(Round(w2))
  /\ rdGray = Gray(Round(r)) /\ rdGrayOld = Gray(Round(r0))
  /\ rdW1 = Gray(Round(r1)) /\ rdW2 = Gray(Round(r2))

CrossingInv ==
  /\ FifoType
  /\ \E w, w0, w1, w2, r, r0, r1, r2 \in Nat : Counts(w, w0, w1, w2, r, r0, r1, r2)

LEMMA GrayOfZero == Gray(Round(0)) = {} /\ Round(0) = 0
<1>1. Round(0) = 0
  BY PointersAre DEF Round
<1>2. ASSUME NEW i \in Binary(0) PROVE FALSE
  <2>1. i \in Nat /\ BitOf(0, i) = 1
    BY <1>2, BinaryIs, PointersAre
  <2> DEFINE p == 2 ^ i
  <2>2. p \in Nat \ {0}
    BY <2>1, PowerType
  <2>6. BitOf(0, i) = (0 \div p) % 2
    BY DEF BitOf
  <2> HIDE DEF p
  <2>3. 0 = p * 0 + 0 /\ 0 \in 0 .. p - 1
    BY <2>2
  <2>4. 0 \div p = 0
    BY <2>2, <2>3, Divides
  <2>5. 0 % 2 = 0
    OBVIOUS
  <2> QED
    BY <2>1, <2>4, <2>5, <2>6
<1>3. Binary(0) = {}
  BY <1>2
<1>4. Shifted({}) = {} /\ Xor({}, {}) = {}
  BY DEF Shifted, Xor
<1> QED
  BY <1>1, <1>3, <1>4 DEF Gray

LEMMA InitCrossing == FifoInit => CrossingInv
<1> SUFFICES ASSUME FifoInit PROVE CrossingInv
  OBVIOUS
<1>1. FifoType
  BY DEF FifoInit, FifoType
<1>2. Counts(0, 0, 0, 0, 0, 0, 0, 0)
  BY GrayOfZero, PointersAre DEF FifoInit, Counts
<1>3. 0 \in Nat
  OBVIOUS
<1> QED
  BY <1>1, <1>2, <1>3 DEF CrossingInv

\* What a synchroniser takes in of a pointer is a count between the old and the new one.
LEMMA SampledCount ==
  ASSUME NEW a \in Nat, NEW b \in Nat, a <= b, b <= a + 1,
         NEW s \in Sample(Gray(Round(a)), Gray(Round(b)))
  PROVE  \E c \in Nat : a <= c /\ c <= b /\ s = Gray(Round(c))
<1>1. CASE b = a
  <2>1. Gray(Round(a)) \in Register
    BY DEF Gray, Xor, Shifted, Binary, Register
  <2>2. s = Gray(Round(a))
    BY <1>1, <2>1, SampleOfOne
  <2> QED
    BY <1>1, <2>2
<1>2. CASE b = a + 1
  <2>1. Round(a) \in Pointers /\ Round(b) = Plus1(Round(a))
    BY <1>2, RoundThenAdd, NextRound
  <2>2. s = Gray(Round(a)) \/ s = Gray(Round(b))
    BY <2>1, SampleIsOneOfBoth
  <2> QED
    BY <2>2
<1> QED
  BY <1>1, <1>2

\* While a write is accepted there is room for it.
LEMMA RoomForWrite ==
  ASSUME NEW w \in Nat, NEW r2 \in Nat, w < r2 + Depth, wr = Round(w), rdW2 = Gray(Round(r2)),
         WriteReady
  PROVE  w + 1 < r2 + Depth
<1> SUFFICES ASSUME w + 1 = r2 + Depth PROVE FALSE
  BY PointersAre
<1>1. Depth \in Nat
  BY PointersAre
<1>2. Round(r2) \in Pointers /\ (Round(r2) + Depth) % (2 * Depth) = Round(r2 + Depth)
  BY <1>1, RoundThenAdd
<1>3. Plus1(wr) = Round(r2 + Depth)
  BY NextRound
<1>4. FullTest(Gray(Plus1(wr)), rdW2)
  BY <1>2, <1>3, FullTestFinds
<1> QED
  BY <1>4 DEF WriteReady

\* An edge of the write clock samples the read pointer; a write counts on.
LEMMA WriteEdgeStep ==
  ASSUME CrossingInv, WriteEdge, FifoType',
         \/ WriteReady /\ wr' = Plus1(wr) /\ wrGray' = Gray(Plus1(wr))
         \/ UNCHANGED <<wr, wrGray>>
  PROVE  CrossingInv'
<1>1. PICK w \in Nat, w0 \in Nat, w1 \in Nat, w2 \in Nat, r \in Nat, r0 \in Nat, r1 \in Nat, r2 \in Nat :
        Counts(w, w0, w1, w2, r, r0, r1, r2)
  BY DEF CrossingInv
<1>2. /\ w2 <= w1 /\ w1 <= w0 /\ w0 <= w /\ w <= w0 + 1
      /\ r2 <= r1 /\ r1 <= r0 /\ r0 <= r /\ r <= r0 + 1
      /\ r <= w2 /\ w < r2 + Depth
  BY <1>1 DEF Counts
<1>3. /\ wr = Round(w) /\ rd = Round(r)
      /\ wrGray = Gray(Round(w)) /\ wrGrayOld = Gray(Round(w0))
      /\ wrR1 = Gray(Round(w1)) /\ wrR2 = Gray(Round(w2))
      /\ rdGray = Gray(Round(r)) /\ rdGrayOld = Gray(Round(r0))
      /\ rdW1 = Gray(Round(r1)) /\ rdW2 = Gray(Round(r2))
  BY <1>1 DEF Counts
<1>4. rdW1' \in Sample(Gray(Round(r0)), Gray(Round(r)))
  BY <1>3 DEF WriteEdge
<1>5. PICK c \in Nat : r0 <= c /\ c <= r /\ rdW1' = Gray(Round(c))
  BY <1>2, <1>4, SampledCount
<1>6. \E n \in Nat : /\ wr' = Round(n) /\ wrGray' = Gray(Round(n))
                     /\ w <= n /\ n <= w + 1 /\ n < r1 + Depth
  <2>1. CASE UNCHANGED <<wr, wrGray>>
    BY <1>2, <1>3, <2>1, PointersAre
  <2>2. CASE WriteReady /\ wr' = Plus1(wr) /\ wrGray' = Gray(Plus1(wr))
    <3>1. Plus1(wr) = Round(w + 1)
      BY <1>3, NextRound
    <3>2. w + 1 < r2 + Depth
      BY <1>2, <1>3, <2>2, RoomForWrite
    <3>3. w + 1 \in Nat /\ w <= w + 1 /\ w + 1 < r1 + Depth
      BY <1>2, <3>2, PointersAre
    <3> QED
      BY <2>2, <3>1, <3>3
  <2> QED
    BY <2>1, <2>2
<1>7. PICK n \in Nat : /\ wr' = Round(n) /\ wrGray' = Gray(Round(n))
                       /\ w <= n /\ n <= w + 1 /\ n < r1 + Depth
  BY <1>6
<1>8. /\ wrGrayOld' = wrGray /\ rdGrayOld' = rdGray /\ rdW2' = rdW1
      /\ UNCHANGED <<rd, rdGray, wrR1, wrR2>>
  BY DEF WriteEdge, readVars
<1>9. Counts(n, w, w1, w2, r, r, c, r1)'
  <2>1. /\ w2 <= w1 /\ w1 <= w /\ w <= n /\ n <= w + 1
        /\ r1 <= c /\ c <= r /\ r <= r /\ r <= r + 1
        /\ r <= w2 /\ n < r1 + Depth
    BY <1>2, <1>5, <1>7
  <2> QED
    BY <1>3, <1>5, <1>7, <1>8, <2>1 DEF Counts
<1> QED
  BY <1>9 DEF CrossingInv

\* An edge of the read clock samples the write pointer; a read counts on.
LEMMA ReadEdgeStep ==
  ASSUME CrossingInv, ReadEdge, FifoType',
         \/ ReadValid /\ rd' = Plus1(rd) /\ rdGray' = Gray(Plus1(rd))
         \/ UNCHANGED <<rd, rdGray>>
  PROVE  CrossingInv'
<1>1. PICK w \in Nat, w0 \in Nat, w1 \in Nat, w2 \in Nat, r \in Nat, r0 \in Nat, r1 \in Nat, r2 \in Nat :
        Counts(w, w0, w1, w2, r, r0, r1, r2)
  BY DEF CrossingInv
<1>2. /\ w2 <= w1 /\ w1 <= w0 /\ w0 <= w /\ w <= w0 + 1
      /\ r2 <= r1 /\ r1 <= r0 /\ r0 <= r /\ r <= r0 + 1
      /\ r <= w2 /\ w < r2 + Depth
  BY <1>1 DEF Counts
<1>3. /\ wr = Round(w) /\ rd = Round(r)
      /\ wrGray = Gray(Round(w)) /\ wrGrayOld = Gray(Round(w0))
      /\ wrR1 = Gray(Round(w1)) /\ wrR2 = Gray(Round(w2))
      /\ rdGray = Gray(Round(r)) /\ rdGrayOld = Gray(Round(r0))
      /\ rdW1 = Gray(Round(r1)) /\ rdW2 = Gray(Round(r2))
  BY <1>1 DEF Counts
<1>4. wrR1' \in Sample(Gray(Round(w0)), Gray(Round(w)))
  BY <1>3 DEF ReadEdge
<1>5. PICK c \in Nat : w0 <= c /\ c <= w /\ wrR1' = Gray(Round(c))
  BY <1>2, <1>4, SampledCount
<1>6. \E n \in Nat : /\ rd' = Round(n) /\ rdGray' = Gray(Round(n))
                     /\ r <= n /\ n <= r + 1 /\ n <= w1
  <2>1. CASE UNCHANGED <<rd, rdGray>>
    BY <1>2, <1>3, <2>1
  <2>2. CASE ReadValid /\ rd' = Plus1(rd) /\ rdGray' = Gray(Plus1(rd))
    <3>1. Plus1(rd) = Round(r + 1)
      BY <1>3, NextRound
    <3>2. r # w2
      BY <1>3, <2>2 DEF ReadValid
    <3>3. r + 1 \in Nat /\ r <= r + 1 /\ r + 1 <= w1
      BY <1>2, <3>2
    <3> QED
      BY <2>2, <3>1, <3>3
  <2> QED
    BY <2>1, <2>2
<1>7. PICK n \in Nat : /\ rd' = Round(n) /\ rdGray' = Gray(Round(n))
                       /\ r <= n /\ n <= r + 1 /\ n <= w1
  BY <1>6
<1>8. /\ wrGrayOld' = wrGray /\ rdGrayOld' = rdGray /\ wrR2' = wrR1
      /\ UNCHANGED <<wr, wrGray, rdW1, rdW2>>
  BY DEF ReadEdge, writeVars
<1>9. Counts(w, w, c, w1, n, r, r1, r2)'
  <2>1. /\ w1 <= c /\ c <= w /\ w <= w /\ w <= w + 1
        /\ r2 <= r1 /\ r1 <= r /\ r <= n /\ n <= r + 1
        /\ n <= w1 /\ w < r2 + Depth
    BY <1>2, <1>5, <1>7
  <2> QED
    BY <1>3, <1>5, <1>7, <1>8, <2>1 DEF Counts
<1> QED
  BY <1>9 DEF CrossingInv

LEMMA CrossingStep == ASSUME CrossingInv, FifoNext PROVE CrossingInv'
<1>1. FifoType
  BY DEF CrossingInv
<1>2. CASE Write
  <2>1. FifoType'
    BY <1>1, <1>2 DEF FifoType, Write, WriteEdge, readVars
  <2> QED
    BY <1>2, <2>1, WriteEdgeStep DEF Write
<1>3. CASE WriteNothing \/ WriteDropped
  <2>1. FifoType' /\ WriteEdge /\ UNCHANGED <<wr, wrGray>>
    BY <1>1, <1>3 DEF FifoType, WriteNothing, WriteDropped, WriteEdge, readVars
  <2> QED
    BY <2>1, WriteEdgeStep
<1>4. CASE Read
  <2>1. rd % Depth \in 0 .. Depth - 1
    <3>1. rd \in Nat
      BY RoundThenAdd, PointersAre DEF CrossingInv, Counts
    <3> QED
      BY <3>1, PointersAre
  <2>2. FifoType'
    BY <1>1, <1>4, <2>1 DEF FifoType, Read, ReadEdge
  <2> QED
    BY <1>4, <2>2, ReadEdgeStep DEF Read
<1>5. CASE ReadNothing
  <2>1. FifoType' /\ ReadEdge /\ UNCHANGED <<rd, rdGray>>
    BY <1>1, <1>5 DEF FifoType, ReadNothing, ReadEdge
  <2> QED
    BY <2>1, ReadEdgeStep
<1> QED
  BY <1>2, <1>3, <1>4, <1>5 DEF FifoNext

\* The clock crossing stands still in the steps of the encoder and the packer.
LEMMA CrossingHolds == Spec => []CrossingInv
<1>1. Init => CrossingInv
  BY InitCrossing DEF Init
<1>2. CrossingInv /\ UNCHANGED fifoVars => CrossingInv'
  <2> SUFFICES ASSUME CrossingInv, UNCHANGED fifoVars PROVE CrossingInv'
    OBVIOUS
  <2>1. PICK w \in Nat, w0 \in Nat, w1 \in Nat, w2 \in Nat,
             r \in Nat, r0 \in Nat, r1 \in Nat, r2 \in Nat :
          Counts(w, w0, w1, w2, r, r0, r1, r2)
    BY DEF CrossingInv
  <2>2. Counts(w, w0, w1, w2, r, r0, r1, r2)'
    BY <2>1 DEF Counts, fifoVars
  <2>3. FifoType'
    BY DEF FifoType, fifoVars, CrossingInv
  <2> QED
    BY <2>2, <2>3 DEF CrossingInv
<1>3. CrossingInv /\ [Next]_vars => CrossingInv'
  BY <1>2, CrossingStep DEF Next, vars
<1> QED
  BY <1>1, <1>3, PTL DEF Spec

-----------------------------------------------------------------------------
(***************************************************************************)
(* The queue                                                               *)
(***************************************************************************)
Distance(a, b) == (b + 2 ^ PtrW - a) % 2 ^ PtrW
Contents(m, a, b) == [i \in 1 .. Distance(a, b) |-> m[(a + i - 1) % Depth]]
Queue == [i \in 1 .. Fill |-> mem[(rd + i - 1) % Depth]]

\* The memory from one count to another.
LEMMA ContentsAre ==
  ASSUME NEW m \in [0 .. Depth - 1 -> Item], NEW r \in Nat, NEW n \in 0 .. Depth - 1
  PROVE  /\ Contents(m, Round(r), Round(r + n)) = [i \in 1 .. n |-> m[(r + i - 1) % Depth]]
         /\ \A i \in 1 .. n : (r + i - 1) % Depth \in 0 .. Depth - 1
<1>1. n \in 0 .. 2 * Depth - 1
  BY PointersAre
<1>2. Distance(Round(r), Round(r + n)) = n
  BY <1>1, FillIs, PointersAre DEF Distance
<1>3. ASSUME NEW i \in 1 .. n
      PROVE  /\ (Round(r) + i - 1) % Depth = (r + i - 1) % Depth
             /\ (r + i - 1) % Depth \in 0 .. Depth - 1
  <2> DEFINE k == i - 1
  <2>1. k \in Nat /\ Round(r) + i - 1 = Round(r) + k /\ r + i - 1 = r + k
    BY RoundThenAdd, PointersAre
  <2> HIDE DEF k
  <2>2. (Round(r) + k) % Depth = (r + k) % Depth
    BY <2>1, RoundThenAdd
  <2>3. (r + k) % Depth \in 0 .. Depth - 1
    BY <2>1, PointersAre
  <2> QED
    BY <2>1, <2>2, <2>3
<1> QED
  BY <1>2, <1>3 DEF Contents

LEMMA QueueIs == Queue = Contents(mem, rd, wr) /\ Queue' = Contents(mem', rd', wr')
BY DEF Queue, Contents, Distance, Fill

\* What is in the memory, and how much of it.
LEMMA CountsOfQueue ==
  ASSUME CrossingInv
  PROVE  \E r \in Nat, n \in 0 .. Depth - 1 :
           /\ rd = Round(r) /\ wr = Round(r + n)
           /\ ReadValid => n # 0
           /\ WriteReady => n + 1 < Depth
<1>1. PICK w \in Nat, w0 \in Nat, w1 \in Nat, w2 \in Nat, r \in Nat, r0 \in Nat, r1 \in Nat, r2 \in Nat :
        Counts(w, w0, w1, w2, r, r0, r1, r2)
  BY DEF CrossingInv
<1>2. /\ w2 <= w1 /\ w1 <= w0 /\ w0 <= w
      /\ r2 <= r1 /\ r1 <= r0 /\ r0 <= r
      /\ r <= w2 /\ w < r2 + Depth
      /\ wr = Round(w) /\ rd = Round(r) /\ rdGray = Gray(Round(r)) /\ wrR2 = Gray(Round(w2))
      /\ rdW2 = Gray(Round(r2))
  BY <1>1 DEF Counts
<1>3. ReadValid => r # w2
  BY <1>2 DEF ReadValid
<1>4. WriteReady => w + 1 < r2 + Depth
  BY <1>2, RoomForWrite
<1> DEFINE n == w - r
<1>5. n \in 0 .. Depth - 1 /\ w = r + n
  BY <1>2, PointersAre
<1>6. ReadValid => n # 0
  BY <1>2, <1>3
<1>7. WriteReady => n + 1 < Depth
  BY <1>2, <1>4, PointersAre
<1> HIDE DEF n
<1> QED
  BY <1>2, <1>5, <1>6, <1>7

\* A write puts its item where none of the others is.
LEMMA WriteAppends ==
  ASSUME NEW m \in [0 .. Depth - 1 -> Item], NEW r \in Nat, NEW n \in 0 .. Depth - 2, NEW x \in Item
  PROVE  Contents([m EXCEPT ![Round(r + n) % Depth] = x], Round(r), Round(r + n + 1)) =
           Append(Contents(m, Round(r), Round(r + n)), x)
<1> DEFINE p == Round(r + n) % Depth
           new == [m EXCEPT ![p] = x]
<1>1. n \in Nat /\ Depth \in Nat /\ n \in 0 .. Depth - 1 /\ n + 1 \in 0 .. Depth - 1 /\ r + n \in Nat
  BY PointersAre
<1>2. p = (r + n) % Depth /\ p \in 0 .. Depth - 1
  BY <1>1, PlaceIs
<1> HIDE DEF p
<1>3. new \in [0 .. Depth - 1 -> Item]
  BY <1>2
<1>4. /\ Contents(m, Round(r), Round(r + n)) = [i \in 1 .. n |-> m[(r + i - 1) % Depth]]
      /\ \A i \in 1 .. n : (r + i - 1) % Depth \in 0 .. Depth - 1
  BY <1>1, ContentsAre
<1>5. Contents(new, Round(r), Round(r + (n + 1))) = [i \in 1 .. n + 1 |-> new[(r + i - 1) % Depth]]
  <2> HIDE DEF new
  <2> QED
    BY <1>1, <1>3, ContentsAre
<1>6. ASSUME NEW i \in 1 .. n PROVE (r + i - 1) % Depth # p
  <2> DEFINE a == r + i - 1
             k == n - i + 1
  <2>1. a \in Nat /\ k \in 1 .. Depth - 1 /\ a + k = r + n
    BY <1>1
  <2> HIDE DEF a, k
  <2>2. (a + k) % Depth # a % Depth
    BY <2>1, PlacesDiffer
  <2> QED
    BY <1>2, <2>1, <2>2 DEF a
<1>7. \A i \in 1 .. n : new[(r + i - 1) % Depth] = m[(r + i - 1) % Depth]
  BY <1>4, <1>6
<1>8. new[(r + (n + 1) - 1) % Depth] = x
  <2>1. r + (n + 1) - 1 = r + n
    BY <1>1
  <2> QED
    BY <1>2, <2>1
<1>9. r + n + 1 = r + (n + 1)
  BY <1>1
<1> HIDE DEF new
<1> DEFINE old == [i \in 1 .. n |-> m[(r + i - 1) % Depth]]
<1>10. old \in Seq(Item) /\ Len(old) = n
  BY <1>1, <1>4
<1>11. Append(old, x) = [i \in 1 .. n + 1 |-> IF i <= n THEN old[i] ELSE x]
  <2> HIDE DEF old
  <2> QED
    BY <1>1, <1>10
<1>12. Append(old, x) = [i \in 1 .. n + 1 |-> new[(r + i - 1) % Depth]]
  <2> HIDE DEF new
  <2>1. \A i \in 1 .. n + 1 : (IF i <= n THEN old[i] ELSE x) = new[(r + i - 1) % Depth]
    <3> SUFFICES ASSUME NEW i \in 1 .. n + 1
                 PROVE  (IF i <= n THEN old[i] ELSE x) = new[(r + i - 1) % Depth]
      OBVIOUS
    <3>1. CASE i \in 1 .. n
      <4>1. new[(r + i - 1) % Depth] = m[(r + i - 1) % Depth]
        BY <1>7, <3>1
      <4>2. old[i] = m[(r + i - 1) % Depth]
        BY <3>1
      <4>3. i <= n
        BY <1>1, <3>1
      <4> HIDE DEF old
      <4> QED
        BY <4>1, <4>2, <4>3
    <3>2. CASE i = n + 1
      BY <1>1, <1>8, <3>2
    <3> QED
      BY <1>1, <3>1, <3>2
  <2> QED
    BY <1>11, <2>1
<1> QED
  BY <1>4, <1>5, <1>9, <1>12 DEF new, p

\* A read takes the first item and leaves the others.
LEMMA ReadTakesFirst ==
  ASSUME NEW m \in [0 .. Depth - 1 -> Item], NEW r \in Nat, NEW n \in 1 .. Depth - 1
  PROVE  /\ Contents(m, Round(r), Round(r + n)) # <<>>
         /\ Head(Contents(m, Round(r), Round(r + n))) = m[Round(r) % Depth]
         /\ Contents(m, Round(r + 1), Round(r + n)) = Tail(Contents(m, Round(r), Round(r + n)))
<1>1. n \in Nat \ {0} /\ Depth \in Nat /\ n \in 0 .. Depth - 1 /\ n - 1 \in 0 .. Depth - 1
      /\ r + 1 \in Nat /\ (r + 1) + (n - 1) = r + n
  BY PointersAre
<1> DEFINE old == [i \in 1 .. n |-> m[(r + i - 1) % Depth]]
<1>2. /\ Contents(m, Round(r), Round(r + n)) = old
      /\ \A i \in 1 .. n : (r + i - 1) % Depth \in 0 .. Depth - 1
  BY <1>1, ContentsAre
<1>3. Contents(m, Round(r + 1), Round(r + n)) = [i \in 1 .. n - 1 |-> m[((r + 1) + i - 1) % Depth]]
  <2>1. Contents(m, Round(r + 1), Round((r + 1) + (n - 1))) =
          [i \in 1 .. n - 1 |-> m[((r + 1) + i - 1) % Depth]]
    BY <1>1, ContentsAre
  <2> QED
    BY <1>1, <2>1
<1>4. old \in Seq(Item) /\ Len(old) = n
  BY <1>1, <1>2
<1>5. \A i \in 1 .. n - 1 : m[((r + 1) + i - 1) % Depth] = old[i + 1]
  <2> SUFFICES ASSUME NEW i \in 1 .. n - 1 PROVE m[((r + 1) + i - 1) % Depth] = old[i + 1]
    OBVIOUS
  <2>1. (r + 1) + i - 1 = r + (i + 1) - 1 /\ i + 1 \in 1 .. n
    BY <1>1
  <2> QED
    BY <2>1
<1>6. old[1] = m[Round(r) % Depth]
  <2>1. Round(r) % Depth = r % Depth
    BY PlaceIs
  <2>2. r + 1 - 1 = r
    OBVIOUS
  <2> QED
    BY <1>1, <2>1, <2>2
<1> HIDE DEF old
<1>7. old # <<>> /\ Head(old) = old[1] /\ Tail(old) = [i \in 1 .. n - 1 |-> old[i + 1]]
  BY <1>1, <1>4
<1> QED
  BY <1>2, <1>3, <1>5, <1>6, <1>7

\* What the two clocks do to the queue: an accepted byte is appended, a read
\* takes the first, and no other edge changes it.
LEMMA QueueStep ==
  ASSUME CrossingInv, FifoNext
  PROVE  \/ /\ Len(Queue) < Depth - 1 /\ (\E x \in Item : Queue' = Append(Queue, x))
            /\ output' = output
         \/ Queue # <<>> /\ output' = Head(Queue) /\ Queue' = Tail(Queue)
         \/ Queue' = Queue /\ output' = output
<1>1. PICK r \in Nat, n \in 0 .. Depth - 1 :
        /\ rd = Round(r) /\ wr = Round(r + n)
        /\ ReadValid => n # 0
        /\ WriteReady => n + 1 < Depth
  BY CountsOfQueue
<1>2. mem \in [0 .. Depth - 1 -> Item] /\ Depth \in Nat /\ r + n \in Nat
  BY PointersAre DEF CrossingInv, FifoType
<1>3. CASE Write
  <2>1. PICK x \in Item : mem' = [mem EXCEPT ![wr % Depth] = x]
    BY <1>3 DEF Write
  <2>2. n \in 0 .. Depth - 2
    BY <1>1, <1>2, <1>3 DEF Write
  <2>3. wr' = Round(r + n + 1) /\ rd' = rd /\ output' = output
    BY <1>1, <1>2, <1>3, NextRound DEF Write, WriteEdge, readVars
  <2>4. Queue' = Append(Queue, x)
    BY <1>1, <1>2, <2>1, <2>2, <2>3, WriteAppends, QueueIs
  <2>5. Len(Queue) = n
    <3>1. Queue = [i \in 1 .. n |-> mem[(r + i - 1) % Depth]]
      BY <1>1, <1>2, ContentsAre, QueueIs
    <3> QED
      BY <1>2, <3>1
  <2> QED
    BY <1>2, <2>2, <2>3, <2>4, <2>5
<1>4. CASE Read
  <2>1. n \in 1 .. Depth - 1
    BY <1>1, <1>2, <1>4 DEF Read
  <2>2. rd' = Round(r + 1) /\ wr' = wr /\ mem' = mem /\ output' = mem[rd % Depth]
    BY <1>1, <1>4, NextRound DEF Read, ReadEdge, writeVars
  <2> QED
    BY <1>1, <1>2, <2>1, <2>2, ReadTakesFirst, QueueIs
<1>5. CASE WriteNothing \/ WriteDropped \/ ReadNothing
  <2>1. UNCHANGED <<mem, wr, rd, output>>
    BY <1>5 DEF WriteNothing, WriteDropped, ReadNothing, WriteEdge, ReadEdge, readVars, writeVars
  <2> QED
    BY <2>1, QueueIs
<1> QED
  BY <1>3, <1>4, <1>5 DEF FifoNext

\* orbtrace_async_fifo.sv, whatever the two clocks do and whichever bits of a
\* changing pointer the other side samples, is a queue of Depth - 1 bytes: none
\* is lost, repeated, reordered or read before it is there.
THEOREM CrossingIsAQueue == Spec => ImplementsBoundedFifo
<1>1. Init => F!Init
  <2> SUFFICES ASSUME Init PROVE F!Init
    OBVIOUS
  <2>1. mem \in [0 .. Depth - 1 -> Item] /\ wr = 0 /\ rd = 0 /\ output \in Item
    BY DEF Init, FifoInit
  <2>2. Round(0) = 0 /\ 0 \in 0 .. Depth - 1
    BY GrayOfZero, PointersAre
  <2>3. Contents(mem, Round(0), Round(0 + 0)) = [i \in 1 .. 0 |-> mem[(0 + i - 1) % Depth]]
    BY <2>1, <2>2, ContentsAre
  <2>4. Queue = <<>>
    BY <2>1, <2>2, <2>3, QueueIs
  <2> QED
    BY <2>1, <2>4 DEF F!Init, Queue
<1>2. ASSUME CrossingInv, [Next]_vars PROVE [F!Next]_(F!vars)
  <2>1. CASE UNCHANGED fifoVars
    <3>1. Queue' = Queue /\ output' = output
      BY <2>1, QueueIs DEF fifoVars
    <3> QED
      BY <3>1 DEF F!vars, Queue
  <2>2. CASE FifoNext
    <3>1. CASE /\ Len(Queue) < Depth - 1 /\ (\E x \in Item : Queue' = Append(Queue, x))
               /\ output' = output
      BY <3>1 DEF F!Next, F!Write, Queue
    <3>2. CASE Queue # <<>> /\ output' = Head(Queue) /\ Queue' = Tail(Queue)
      BY <3>2 DEF F!Next, F!Read, Queue
    <3>3. CASE Queue' = Queue /\ output' = output
      BY <3>3 DEF F!vars, Queue
    <3> QED
      BY <1>2, <2>2, <3>1, <3>2, <3>3, QueueStep
  <2> QED
    BY <1>2, <2>1, <2>2 DEF Next, vars
<1> QED
  BY <1>1, <1>2, CrossingHolds, PTL DEF Spec, ImplementsBoundedFifo, F!Spec

-----------------------------------------------------------------------------
(***************************************************************************)
(* The encoder: what it offers the packer are bytes                        *)
(***************************************************************************)
LEMMA BytesAre ==
  /\ Bytes \in Nat /\ Bytes > 2 /\ Byte = 0 .. Bytes - 1 /\ 0 \in Byte
  /\ GroupMax \in Nat \ {0} /\ GroupMax + 1 \in Byte
  /\ Channel \subseteq Byte
<1>1. ByteBits - 1 \in Nat \ {0} /\ ByteBits - 2 \in Nat
  BY EncoderAssumption
<1>2. 2 ^ (ByteBits - 2) \in Nat \ {0}
  BY <1>1, PowerType
<1>3. 2 ^ ((ByteBits - 2) + 1) = 2 * 2 ^ (ByteBits - 2)
  BY <1>1, PowerDoubles
<1>4. 2 ^ (ByteBits - 1) = 2 * 2 ^ (ByteBits - 2)
  <2>1. (ByteBits - 2) + 1 = ByteBits - 1
    BY EncoderAssumption
  <2> QED
    BY <1>3, <2>1
<1>5. 2 ^ ((ByteBits - 1) + 1) = 2 * 2 ^ (ByteBits - 1)
  BY <1>1, PowerDoubles
<1>6. Bytes = 4 * 2 ^ (ByteBits - 2)
  BY <1>1, <1>2, <1>4, <1>5, EncoderAssumption DEF Bytes
<1>7. Bytes \in Nat /\ Bytes > 2
  BY <1>2, <1>6
<1>8. Bytes \div 2 <= Bytes
  BY <1>7
<1> QED
  BY <1>7, <1>8 DEF Byte, GroupMax, Channel

EncoderType ==
  /\ packet \in [Bank -> Seq(Byte)] /\ groups \in [Bank -> Seq(0 .. GroupMax)]
  /\ loadBank \in Bank /\ encodeBank \in Bank /\ nextEncodeBank \in Bank
  /\ checksum \in Byte /\ pending.data \in Byte
  /\ rawLength \in Nat /\ groupIndex \in Nat /\ groupLength \in 0 .. GroupMax - 1
  /\ rawIndex \in Nat /\ emitGroup \in Nat

\* The next byte of a bank goes to the end of what is there, or over it.
PlaceToLoad == rawLength <= Len(packet[loadBank]) /\ groupIndex <= Len(groups[loadBank])

LEMMA WrittenType ==
  ASSUME NEW S, NEW s \in Seq(S), NEW i \in 0 .. Len(s), NEW v \in S
  PROVE  Written(s, i, v) \in Seq(S) /\ Len(Written(s, i, v)) = i + 1
<1> DEFINE t == SubSeq(s, 1, i)
<1>1. Len(s) \in Nat /\ \A j \in 1 .. i : s[j] \in S
  BY LenProperties
<1>2. t \in Seq(S) /\ Len(t) = i
  BY <1>1, SubSeqProperties
<1> HIDE DEF t
<1>3. Append(t, v) \in Seq(S) /\ Len(Append(t, v)) = i + 1
  BY <1>2, AppendProperties
<1> QED
  BY <1>3 DEF Written, t

LEMMA AppendRawType ==
  ASSUME EncoderType, PlaceToLoad, NEW v \in Byte, AppendRaw(v), loadBank' = loadBank
  PROVE  /\ packet' \in [Bank -> Seq(Byte)] /\ groups' \in [Bank -> Seq(0 .. GroupMax)]
         /\ rawLength' \in Nat /\ groupIndex' \in Nat /\ groupLength' \in 0 .. GroupMax - 1
         /\ PlaceToLoad'
<1> DEFINE b == loadBank
<1>0. b \in Bank
  BY DEF EncoderType
<1>1. packet[b] \in Seq(Byte) /\ Len(packet[b]) \in Nat /\ rawLength \in 0 .. Len(packet[b])
  BY <1>0 DEF EncoderType, PlaceToLoad
<1>2. groups[b] \in Seq(0 .. GroupMax) /\ Len(groups[b]) \in Nat /\ groupIndex \in 0 .. Len(groups[b])
  BY <1>0 DEF EncoderType, PlaceToLoad
<1>3. /\ packet' = [packet EXCEPT ![b] = Written(packet[b], rawLength, v)]
      /\ rawLength' = rawLength + 1
  BY DEF AppendRaw
<1>4. /\ Written(packet[b], rawLength, v) \in Seq(Byte)
      /\ Len(Written(packet[b], rawLength, v)) = rawLength + 1
  BY <1>1, WrittenType
<1>5. /\ packet' \in [Bank -> Seq(Byte)] /\ rawLength' \in Nat
      /\ rawLength' <= Len(packet'[b])
  BY <1>0, <1>1, <1>3, <1>4 DEF EncoderType
<1>6. /\ groups' \in [Bank -> Seq(0 .. GroupMax)] /\ groupIndex' \in Nat
      /\ groupLength' \in 0 .. GroupMax - 1 /\ groupIndex' <= Len(groups'[b])
  <2>1. CASE EndsGroup(v)
    <3> DEFINE g == IF v = 0 THEN groupLength ELSE GroupMax
    <3>1. g \in 0 .. GroupMax
      BY BytesAre DEF EncoderType
    <3>2. /\ groups' = [groups EXCEPT ![b] = Written(groups[b], groupIndex, g)]
          /\ groupIndex' = groupIndex + 1 /\ groupLength' = 0
      BY <2>1 DEF AppendRaw
    <3> HIDE DEF g
    <3>3. /\ Written(groups[b], groupIndex, g) \in Seq(0 .. GroupMax)
          /\ Len(Written(groups[b], groupIndex, g)) = groupIndex + 1
      BY <1>2, <3>1, WrittenType
    <3> QED
      BY <1>0, <1>2, <3>2, <3>3, BytesAre DEF EncoderType
  <2>2. CASE ~EndsGroup(v)
    <3>1. groups' = groups /\ groupIndex' = groupIndex /\ groupLength' = groupLength + 1
      BY <2>2 DEF AppendRaw
    <3>2. groupLength # GroupMax - 1
      BY <2>2 DEF EndsGroup
    <3> QED
      BY <1>2, <3>1, <3>2, BytesAre DEF EncoderType
  <2> QED
    BY <2>1, <2>2
<1> QED
  BY <1>5, <1>6 DEF PlaceToLoad

LEMMA MinusType == \A a, b \in Byte : Minus(a, b) \in Byte
BY BytesAre DEF Minus

\* Loading: what is written, and what is kept of the first byte and the checksum.
LEMMA LoadType ==
  ASSUME EncoderType, PlaceToLoad, NEW in \in Offers, Load(in)
  PROVE  /\ packet' \in [Bank -> Seq(Byte)] /\ groups' \in [Bank -> Seq(0 .. GroupMax)]
         /\ rawLength' \in Nat /\ groupIndex' \in Nat /\ groupLength' \in 0 .. GroupMax - 1
         /\ loadBank' \in Bank /\ checksum' \in Byte /\ pending'.data \in Byte
         /\ PlaceToLoad'
<1>0. in.channel \in Byte /\ in.data \in Byte
  <2>1. CASE in = NoByte
    BY <2>1, BytesAre DEF NoByte
  <2>2. CASE in # NoByte
    <3>1. in.channel \in Channels /\ in.data \in Data
      BY <2>2 DEF Offers
    <3> QED
      BY <3>1, BytesAre, LinkAssumption
  <2> QED
    BY <2>1, <2>2
<1>1. CASE Accept(in)
  <2>1. CASE ~(in.valid /\ EncoderReady)
    BY <1>1, <2>1 DEF Accept, EncoderType, PlaceToLoad
  <2>2. CASE in.valid /\ EncoderReady
    <3>0. loadBank' = loadBank /\ (AcceptFirst(in) \/ AcceptNext(in) \/ AcceptTooMuch(in))
      BY <1>1, <2>2 DEF Accept
    <3>1. CASE AcceptFirst(in)
      <4>1. AppendRaw(in.channel) /\ pending'.data = in.data
            /\ checksum' = Minus(Minus(0, in.channel), in.data)
        BY <3>1 DEF AcceptFirst
      <4>2. checksum' \in Byte
        BY <1>0, <4>1, MinusType, BytesAre
      <4> QED
        BY <1>0, <3>0, <4>1, <4>2, AppendRawType DEF EncoderType
    <3>2. CASE AcceptNext(in)
      <4>1. AppendRaw(in.data) /\ pending' = pending /\ checksum' = Minus(checksum, in.data)
        BY <3>2 DEF AcceptNext
      <4>2. checksum' \in Byte
        BY <1>0, <4>1, MinusType DEF EncoderType
      <4> QED
        BY <1>0, <3>0, <4>1, <4>2, AppendRawType DEF EncoderType
    <3>3. CASE AcceptTooMuch(in)
      <4>1. UNCHANGED <<packet, groups, pending, loadBank>>
        BY <3>0, <3>3 DEF AcceptTooMuch
      <4>2. \/ UNCHANGED <<rawLength, groupIndex, groupLength, checksum>>
            \/ rawLength' = 0 /\ groupIndex' = 0 /\ groupLength' = 0 /\ checksum' = 0
        BY <3>3 DEF AcceptTooMuch, ClearLoad
      <4>3. Len(packet[loadBank]) \in Nat /\ Len(groups[loadBank]) \in Nat
        BY DEF EncoderType
      <4> QED
        BY <4>1, <4>2, <4>3, BytesAre DEF EncoderType, PlaceToLoad
    <3> QED
      BY <3>0, <3>1, <3>2, <3>3
  <2> QED
    BY <2>1, <2>2
<1>2. CASE FirstData
  BY <1>2, AppendRawType DEF FirstData, EncoderType
<1>3. CASE Checksum
  BY <1>3, AppendRawType DEF Checksum, EncoderType
<1>4. CASE Finalize
  <2>1. /\ groups' = [groups EXCEPT ![loadBank] = Written(groups[loadBank], groupIndex, groupLength)]
        /\ loadBank' = 1 - loadBank /\ packet' = packet /\ pending' = pending
        /\ rawLength' = 0 /\ groupIndex' = 0 /\ groupLength' = 0 /\ checksum' = 0
    BY <1>4 DEF Finalize, ClearLoad
  <2>2. /\ groups[loadBank] \in Seq(0 .. GroupMax) /\ Len(groups[loadBank]) \in Nat
        /\ groupIndex \in 0 .. Len(groups[loadBank]) /\ groupLength \in 0 .. GroupMax
    BY BytesAre DEF EncoderType, PlaceToLoad
  <2>3. Written(groups[loadBank], groupIndex, groupLength) \in Seq(0 .. GroupMax)
    BY <2>2, WrittenType
  <2>4. groups' \in [Bank -> Seq(0 .. GroupMax)] /\ loadBank' \in Bank
    BY <2>1, <2>3 DEF EncoderType, Bank
  <2>5. Len(packet'[loadBank']) \in Nat /\ Len(groups'[loadBank']) \in Nat
    BY <2>1, <2>4 DEF EncoderType
  <2> QED
    BY <2>1, <2>4, <2>5, BytesAre DEF EncoderType, PlaceToLoad
<1> QED
  BY <1>1, <1>2, <1>3, <1>4 DEF Load

LEMMA EmitType ==
  ASSUME EncoderType, NEW ready, Emit(ready)
  PROVE  encodeBank' \in Bank /\ nextEncodeBank' \in Bank /\ rawIndex' \in Nat /\ emitGroup' \in Nat
<1>1. CASE StartFrame
  BY <1>1 DEF StartFrame, EncoderType
<1>2. CASE EmitCode
  BY <1>2 DEF EmitCode, EncoderType
<1>3. CASE EmitData
  BY <1>3 DEF EmitData, EncoderType
<1>4. CASE EmitDelimiter
  BY <1>4 DEF EmitDelimiter, EncoderType, Bank
<1>5. CASE UNCHANGED emitVars
  BY <1>5 DEF emitVars, EncoderType
<1> QED
  BY <1>1, <1>2, <1>3, <1>4, <1>5 DEF Emit

LEMMA OutputType == ASSUME EncoderType PROVE OutputData \in Byte
<1>1. At(packet[encodeBank], rawIndex) \in Byte
  <2>1. packet[encodeBank] \in Seq(Byte) /\ Len(packet[encodeBank]) \in Nat /\ rawIndex \in Nat
    BY DEF EncoderType
  <2> DEFINE s == packet[encodeBank]
  <2>2. rawIndex < Len(s) => s[rawIndex + 1] \in Byte
    <3> SUFFICES ASSUME rawIndex < Len(s) PROVE s[rawIndex + 1] \in Byte
      OBVIOUS
    <3>1. rawIndex + 1 \in 1 .. Len(s)
      BY <2>1
    <3> QED
      BY <2>1, <3>1, ElementOfSeq
  <2> QED
    BY <2>2, BytesAre DEF At
<1>2. GroupLength \in 0 .. GroupMax
  <2>1. groups[encodeBank] \in Seq(0 .. GroupMax) /\ Len(groups[encodeBank]) \in Nat /\ emitGroup \in Nat
    BY DEF EncoderType
  <2> DEFINE s == groups[encodeBank]
  <2>2. emitGroup < Len(s) => s[emitGroup + 1] \in 0 .. GroupMax
    <3> SUFFICES ASSUME emitGroup < Len(s) PROVE s[emitGroup + 1] \in 0 .. GroupMax
      OBVIOUS
    <3>1. emitGroup + 1 \in 1 .. Len(s)
      BY <2>1
    <3> QED
      BY <2>1, <3>1, ElementOfSeq
  <2> QED
    BY <2>2, BytesAre DEF At, GroupLength
<1>3. GroupLength + 1 \in Byte
  BY <1>2, BytesAre
<1>4. OutputData \in {GroupLength + 1, At(packet[encodeBank], rawIndex), 0}
  <2>1. CASE emit = "E_CODE"
    BY <2>1 DEF OutputData
  <2>2. CASE emit = "E_DATA"
    BY <2>2 DEF OutputData
  <2>3. CASE emit # "E_CODE" /\ emit # "E_DATA"
    BY <2>3 DEF OutputData
  <2> QED
    BY <2>1, <2>2, <2>3
<1> QED
  BY <1>1, <1>3, <1>4, BytesAre

LEMMA EncoderHolds == Spec => [](EncoderType /\ PlaceToLoad)
<1> DEFINE Inv == EncoderType /\ PlaceToLoad
<1>1. Init => Inv
  <2> SUFFICES ASSUME EncoderInit PROVE Inv
    BY DEF Init, LinkInit
  <2>1. packet \in [Bank -> Seq(Byte)] /\ groups \in [Bank -> Seq(0 .. GroupMax)]
    BY DEF EncoderInit
  <2>2. packet[loadBank] = <<>> /\ groups[loadBank] = <<>>
    BY DEF EncoderInit, Bank
  <2> QED
    BY <2>1, <2>2, BytesAre DEF EncoderInit, EncoderType, PlaceToLoad, Bank
<1>2. ASSUME Inv, LinkNext PROVE Inv'
  <2>1. PICK in \in Offers, ready \in BOOLEAN : EncoderEdge(in, P!InputReady(ready))
    BY <1>2 DEF LinkNext, Edge
  <2> QED
    BY <1>2, <2>1, LoadType, EmitType DEF EncoderEdge, EncoderType
<1>3. ASSUME Inv, UNCHANGED encoderVars PROVE Inv'
  BY <1>3 DEF encoderVars, loadVars, emitVars, bankVars, EncoderType, PlaceToLoad
<1>4. Inv /\ [Next]_vars => Inv'
  BY <1>2, <1>3 DEF Next, vars, linkVars
<1> QED
  BY <1>1, <1>4, PTL DEF Spec

-----------------------------------------------------------------------------
(***************************************************************************)
(* The packer                                                              *)
(***************************************************************************)
Marked == [data : Byte, last : BOOLEAN]
DataOf(s) == [k \in 1 .. Len(s) |-> s[k].data]

\* How many of the first n bytes end a frame.
Marks(s, n) == Cardinality({k \in 1 .. n : s[k].last})

LEMMA FramesAre ==
  \A n : P!FramesIn(n) = Marks(packed, n) /\ P!T!FramesIn(n) = framesSent + Marks(packed, n)
<1>1. \A S : P!Cardinality(S) = Cardinality(S) /\ P!T!Cardinality(S) = Cardinality(S)
  BY DEF P!Cardinality, P!T!Cardinality, Cardinality
<1> QED
  BY <1>1 DEF P!FramesIn, P!T!FramesIn, Marks

LEMMA MarksGrow ==
  ASSUME NEW s, NEW n \in Nat, NEW k \in 0 .. n
  PROVE  Marks(s, k) \in Nat /\ Marks(s, n) \in Nat /\ Marks(s, k) <= Marks(s, n)
<1> DEFINE A == {i \in 1 .. k : s[i].last}
           B == {i \in 1 .. n : s[i].last}
<1>1. IsFiniteSet(1 .. n)
  BY FS_Interval
<1>2. IsFiniteSet(B)
  BY <1>1, FS_Subset
<1>3. A \in SUBSET B
  OBVIOUS
<1> HIDE DEF A, B
<1>4. IsFiniteSet(A) /\ Cardinality(A) <= Cardinality(B)
  BY <1>2, <1>3, FS_Subset
<1>5. Cardinality(A) \in Nat /\ Cardinality(B) \in Nat
  BY <1>2, <1>4, FS_CardinalityType
<1> QED
  BY <1>4, <1>5 DEF Marks, A, B

LEMMA MarksNext ==
  ASSUME NEW s, NEW n \in Nat
  PROVE  /\ Marks(s, 0) = 0
         /\ Marks(s, n + 1) = Marks(s, n) + (IF s[n + 1].last THEN 1 ELSE 0)
<1> DEFINE A == {i \in 1 .. n : s[i].last}
           B == {i \in 1 .. n + 1 : s[i].last}
<1>1. Marks(s, 0) = 0
  <2>1. {i \in 1 .. 0 : s[i].last} = {}
    OBVIOUS
  <2> QED
    BY <2>1, FS_EmptySet DEF Marks
<1>2. IsFiniteSet(A) /\ n + 1 \notin A
  <2>1. IsFiniteSet(1 .. n) /\ A \in SUBSET (1 .. n)
    BY FS_Interval
  <2> QED
    BY <2>1, FS_Subset
<1>3. Cardinality(A) \in Nat
  BY <1>2, FS_CardinalityType
<1>4. B = IF s[n + 1].last THEN A \cup {n + 1} ELSE A
  OBVIOUS
<1> HIDE DEF A, B
<1>5. Cardinality(A \cup {n + 1}) = Cardinality(A) + 1
  BY <1>2, FS_AddElement
<1>6. Cardinality(B) = Cardinality(A) + (IF s[n + 1].last THEN 1 ELSE 0)
  BY <1>3, <1>4, <1>5
<1> QED
  BY <1>1, <1>6 DEF Marks, A, B

\* The bytes that have not left are those of the beat being filled, and frameCount
\* counts the frames that ended in the transfer so far.
Filling ==
  /\ beat = <<>> /\ Len(packed) < BeatBytes
  /\ buffer = DataOf(packed)
  /\ frameCount = framesSent + Marks(packed, Len(packed))

\* They are those of the beat on offer; frameCount has been reset if it ends the
\* transfer.
OnOffer(last) ==
  /\ beat = <<DataOf(packed), last>> /\ buffer = <<>>
  /\ Len(packed) \in 1 .. BeatBytes
  /\ IF last
       THEN /\ frameCount = 0 /\ packed[Len(packed)].last
            /\ framesSent + Marks(packed, Len(packed)) = FramesPerTransfer
       ELSE /\ Len(packed) = BeatBytes
            /\ frameCount = framesSent + Marks(packed, Len(packed))

PackerInv ==
  /\ packed \in Seq(Marked) /\ framesSent \in Nat
  /\ frameCount \in 0 .. FramesPerTransfer - 1
  /\ Filling \/ \E last \in BOOLEAN : OnOffer(last)

\* One more byte joins the bytes q of the beat that is being filled.
LEMMA ByteJoins ==
  ASSUME NEW q \in Seq(Marked), Len(q) < BeatBytes, buffer = DataOf(q),
         NEW f \in Nat, frameCount = f + Marks(q, Len(q)),
         frameCount \in 0 .. FramesPerTransfer - 1,
         NEW in, in.data \in Byte, in.last \in BOOLEAN, P!PackByte(in),
         packed' = Append(q, [data |-> in.data, last |-> in.last]), framesSent' = f
  PROVE  PackerInv'
<1> DEFINE x == [data |-> in.data, last |-> in.last]
           n == Len(q)
<1>1. n \in Nat /\ x \in Marked /\ FramesPerTransfer \in Nat \ {0} /\ BeatBytes \in Nat \ {0}
  BY LinkAssumption DEF Marked
<1> HIDE DEF x
<1>2. /\ packed' \in Seq(Marked) /\ Len(packed') = n + 1 /\ packed'[n + 1] = x
      /\ \A i \in 1 .. n : packed'[i] = q[i]
  BY <1>1, AppendProperties DEF x
<1>3. x.data = in.data /\ x.last = in.last
  BY DEF x
<1>4. Marks(packed', n) = Marks(q, n)
  <2>1. {k \in 1 .. n : packed'[k].last} = {k \in 1 .. n : q[k].last}
    BY <1>2
  <2> QED
    BY <2>1 DEF Marks
<1>5. Marks(packed', n + 1) = Marks(packed', n) + (IF in.last THEN 1 ELSE 0)
  BY <1>1, <1>2, <1>3, MarksNext
<1>6. Marks(q, n) \in Nat
  BY <1>1, MarksGrow
<1>7. framesSent' + Marks(packed', Len(packed')) = frameCount + (IF in.last THEN 1 ELSE 0)
  BY <1>1, <1>2, <1>4, <1>5, <1>6
<1>8. DataOf(packed') = Append(buffer, in.data)
  <2>1. DataOf(q) \in Seq(Byte) /\ Len(DataOf(q)) = n
    <3>1. \A k \in 1 .. n : q[k].data \in Byte
      <4>1. \A k \in 1 .. n : q[k] \in Marked
        BY ElementOfSeq
      <4> QED
        BY <4>1 DEF Marked
    <3> QED
      BY <1>1, <3>1 DEF DataOf
  <2> DEFINE d == DataOf(q)
  <2>2. \A k \in 1 .. n : d[k] = q[k].data
    BY DEF DataOf
  <2> HIDE DEF d
  <2>3. Append(d, in.data) = [k \in 1 .. n + 1 |-> IF k <= n THEN d[k] ELSE in.data]
    BY <1>1, <2>1 DEF d
  <2>4. ASSUME NEW k \in 1 .. n + 1
        PROVE  packed'[k].data = IF k <= n THEN d[k] ELSE in.data
    <3>1. CASE k \in 1 .. n
      <4>1. packed'[k].data = d[k]
        BY <1>2, <2>2, <3>1
      <4> QED
        BY <1>1, <3>1, <4>1
    <3>2. CASE k = n + 1
      BY <1>1, <1>2, <1>3, <3>2
    <3> QED
      BY <1>1, <3>1, <3>2
  <2>5. DataOf(packed') = [k \in 1 .. n + 1 |-> packed'[k].data]
    BY <1>2 DEF DataOf
  <2> QED
    BY <2>3, <2>4, <2>5 DEF d
<1>9. frameCount' \in 0 .. FramesPerTransfer - 1
      /\ (P!TransferLast(in) => frameCount' = 0 /\ in.last /\ frameCount + 1 = FramesPerTransfer)
      /\ (~P!TransferLast(in) => frameCount' = frameCount + (IF in.last THEN 1 ELSE 0))
  <2>1. CASE P!TransferLast(in)
    BY <1>1, <2>1 DEF P!PackByte, P!TransferLast
  <2>2. CASE ~P!TransferLast(in)
    BY <1>1, <2>2 DEF P!PackByte, P!TransferLast
  <2> QED
    BY <2>1, <2>2
<1>10. framesSent' \in Nat
  OBVIOUS
<1>11. Len(buffer) = n
  BY <1>1 DEF DataOf
<1>12. CASE P!TransferLast(in)
  <2>1. beat' = <<Append(buffer, in.data), P!TransferLast(in)>> /\ buffer' = <<>>
    BY <1>12 DEF P!PackByte
  <2>2. P!TransferLast(in) = TRUE
    BY <1>12 DEF P!TransferLast
  <2>3. beat' = <<DataOf(packed'), TRUE>>
    BY <1>8, <2>1, <2>2
  <2>4. Len(packed') \in 1 .. BeatBytes
    BY <1>1, <1>2
  <2>5. packed'[Len(packed')].last
    BY <1>2, <1>3, <1>9, <1>12
  <2>6. framesSent' + Marks(packed', Len(packed')) = FramesPerTransfer
    BY <1>7, <1>9, <1>12
  <2>7. OnOffer(TRUE)'
    BY <1>9, <1>12, <2>1, <2>3, <2>4, <2>5, <2>6 DEF OnOffer
  <2> QED
    BY <1>2, <1>9, <1>10, <2>7 DEF PackerInv
<1>13. CASE ~P!TransferLast(in) /\ P!BeatFull
  <2>1. beat' = <<Append(buffer, in.data), P!TransferLast(in)>> /\ buffer' = <<>>
    BY <1>13 DEF P!PackByte
  <2>2. P!TransferLast(in) = FALSE
    BY <1>13 DEF P!TransferLast
  <2>3. beat' = <<DataOf(packed'), FALSE>>
    BY <1>8, <2>1, <2>2
  <2>4. Len(packed') = BeatBytes
    BY <1>1, <1>2, <1>11, <1>13 DEF P!BeatFull
  <2>5. frameCount' = framesSent' + Marks(packed', Len(packed'))
    BY <1>7, <1>9, <1>13
  <2>6. Len(packed') \in 1 .. BeatBytes
    BY <1>1, <2>4
  <2>7. OnOffer(FALSE)'
    BY <2>1, <2>3, <2>4, <2>5, <2>6 DEF OnOffer
  <2> QED
    BY <1>2, <1>9, <1>10, <2>7 DEF PackerInv
<1>14. CASE ~P!TransferLast(in) /\ ~P!BeatFull
  <2>1. beat' = <<>> /\ buffer' = Append(buffer, in.data)
    BY <1>14 DEF P!PackByte
  <2>2. Len(packed') < BeatBytes
    BY <1>1, <1>2, <1>11, <1>14 DEF P!BeatFull
  <2>3. frameCount' = framesSent' + Marks(packed', Len(packed'))
    BY <1>7, <1>9, <1>14
  <2>4. Filling'
    BY <1>8, <2>1, <2>2, <2>3 DEF Filling
  <2> QED
    BY <1>2, <1>9, <1>10, <2>4 DEF PackerInv
<1> QED
  BY <1>12, <1>13, <1>14

\* What the packer says of the input: it comes at the end of what has not left.
LEMMA PackerObserves ==
  ASSUME packed \in Seq(Marked), NEW in, in.data \in Byte, in.last \in BOOLEAN, NEW ready,
         P!Sends(ready) => Len(beat[1]) \in 0 .. Len(packed),
         P!Observe(in, ready)
  PROVE  LET n == IF P!Sends(ready) THEN Len(beat[1]) ELSE 0
             more == IF P!Taken(in, ready) THEN <<[data |-> in.data, last |-> in.last]>> ELSE <<>>
         IN /\ packed' = SubSeq(packed, n + 1, Len(packed)) \o more
            /\ more \in P!T!More
            /\ sent' = IF P!Sends(ready) THEN beat ELSE <<>>
            /\ framesSent' = IF P!Sends(ready) /\ beat[2] THEN 0 ELSE framesSent + Marks(packed, n)
BY FramesAre DEF P!Observe, P!T!More, P!T!Byte

\* While no beat leaves, a byte may join.
LEMMA NoBeatLeaves ==
  ASSUME PackerInv, NEW ready \in BOOLEAN, NEW in, in.data \in Byte, in.last \in BOOLEAN,
         P!Edge(in, ready), ~P!Sends(ready)
  PROVE  PackerInv' /\ P!T!Accept
<1> DEFINE x == [data |-> in.data, last |-> in.last]
           more == IF P!Taken(in, ready) THEN <<x>> ELSE <<>>
<1>1. packed \in Seq(Marked) /\ Len(packed) \in Nat /\ x \in Marked
  BY DEF PackerInv, Marked
<1>2. /\ packed' = SubSeq(packed, 0 + 1, Len(packed)) \o more
      /\ more \in P!T!More /\ sent' = <<>> /\ framesSent' = framesSent + Marks(packed, 0)
  BY <1>1, PackerObserves DEF P!Edge
<1>3. SubSeq(packed, 0 + 1, Len(packed)) = packed
  BY <1>1
<1>4. framesSent' = framesSent /\ framesSent \in Nat
  BY <1>2, MarksNext DEF PackerInv
<1>5. packed' = packed \o more
  BY <1>2, <1>3
<1>6. P!T!Accept
  BY <1>2, <1>4, <1>5 DEF P!T!Accept
<1>7. CASE P!Taken(in, ready)
  <2>1. beat = <<>>
    BY <1>7 DEF P!Taken, P!InputReady, P!Sends
  <2>2. Filling
    BY <2>1 DEF PackerInv, OnOffer
  <2>3. packed' = Append(packed, x)
    BY <1>1, <1>5, <1>7, AppendIsConcat
  <2>4. P!PackByte(in)
    BY <1>7 DEF P!Edge
  <2>5. frameCount \in 0 .. FramesPerTransfer - 1
    BY DEF PackerInv
  <2>6. PackerInv'
    BY <1>1, <1>4, <2>2, <2>3, <2>4, <2>5, ByteJoins DEF Filling
  <2> QED
    BY <1>6, <2>6
<1>8. CASE ~P!Taken(in, ready)
  <2>1. packed' = packed
    BY <1>1, <1>5, <1>8, ConcatEmptySeq
  <2>2. P!NoByte(ready)
    BY <1>8 DEF P!Edge
  <2>3. beat' = beat /\ buffer' = buffer /\ frameCount' = frameCount
    BY <2>2 DEF P!NoByte, P!Sends
  <2>4. Filling' <=> Filling
    BY <1>4, <2>1, <2>3 DEF Filling
  <2>5. \A last \in BOOLEAN : OnOffer(last) => OnOffer(last)'
    BY <1>4, <2>1, <2>3 DEF OnOffer
  <2>6. PackerInv'
    BY <1>4, <2>1, <2>3, <2>4, <2>5 DEF PackerInv
  <2> QED
    BY <1>6, <2>6
<1> QED
  BY <1>7, <1>8

\* A beat leaves with all the bytes there are, and another byte may come in its place.
LEMMA BeatLeaves ==
  ASSUME PackerInv, NEW ready \in BOOLEAN, NEW in, in.data \in Byte, in.last \in BOOLEAN,
         P!Edge(in, ready), P!Sends(ready)
  PROVE  PackerInv' /\ P!T!Send
<1> DEFINE x == [data |-> in.data, last |-> in.last]
           more == IF P!Taken(in, ready) THEN <<x>> ELSE <<>>
           n == Len(packed)
<1>1. packed \in Seq(Marked) /\ n \in Nat /\ x \in Marked /\ framesSent \in Nat
  BY DEF PackerInv, Marked
<1>2. PICK last \in BOOLEAN : OnOffer(last)
  BY DEF PackerInv, Filling, P!Sends
<1>3. /\ beat[1] = DataOf(packed) /\ beat[2] = last /\ buffer = <<>> /\ beat = <<DataOf(packed), last>>
      /\ n \in 1 .. BeatBytes
  BY <1>2 DEF OnOffer
<1>4. Len(beat[1]) = n
  BY <1>1, <1>3 DEF DataOf
<1>5. /\ packed' = SubSeq(packed, n + 1, n) \o more
      /\ more \in P!T!More /\ sent' = beat
      /\ framesSent' = IF last THEN 0 ELSE framesSent + Marks(packed, n)
  <2>1. Len(beat[1]) \in 0 .. Len(packed) /\ P!Observe(in, ready)
    BY <1>1, <1>4 DEF P!Edge
  <2>2. /\ packed' = SubSeq(packed, Len(beat[1]) + 1, Len(packed)) \o more
        /\ more \in P!T!More /\ sent' = beat
        /\ framesSent' = IF beat[2] THEN 0 ELSE framesSent + Marks(packed, Len(beat[1]))
    BY <1>1, <2>1, PackerObserves
  <2> QED
    BY <1>3, <1>4, <2>2
<1>6. framesSent' = frameCount /\ frameCount \in 0 .. FramesPerTransfer - 1 /\ frameCount \in Nat
  <2>1. frameCount \in 0 .. FramesPerTransfer - 1
    BY DEF PackerInv
  <2> QED
    BY <1>2, <1>5, <2>1, LinkAssumption DEF OnOffer
<1>7. SubSeq(packed, n + 1, n) = <<>>
  BY <1>1, SubSeqEmpty
<1>8. packed' = more
  <2>1. more \in Seq(Marked)
    BY <1>1
  <2> HIDE DEF more
  <2>2. <<>> \o more = more
    BY <2>1, ConcatEmptySeq
  <2> QED
    BY <1>5, <1>7, <2>2
\* The beat is one of the abstract queue.
<1>9. P!T!EndsTransfer(n) = last
  <2>1. Marks(packed, n) \in Nat
    BY <1>1, MarksGrow
  <2>2. CASE last = TRUE
    BY <1>2, <2>2, FramesAre DEF OnOffer, P!T!EndsTransfer
  <2>3. CASE last = FALSE
    <3>1. framesSent + Marks(packed, n) = frameCount
      BY <1>2, <2>3 DEF OnOffer
    <3>2. framesSent + Marks(packed, n) # FramesPerTransfer
      BY <1>6, <3>1, LinkAssumption
    <3> QED
      BY <2>3, <3>2, FramesAre DEF P!T!EndsTransfer
  <2> QED
    BY <2>2, <2>3
<1>10. ASSUME NEW k \in 1 .. n - 1 PROVE ~P!T!EndsTransfer(k)
  <2>1. /\ k \in 0 .. n - 1 /\ k \in 0 .. n /\ n - 1 \in Nat /\ n - 1 \in 0 .. n /\ (n - 1) + 1 = n
    BY <1>1
  <2>2. Marks(packed, k) \in Nat /\ Marks(packed, k) <= Marks(packed, n - 1)
    BY <2>1, MarksGrow
  <2>3. Marks(packed, n - 1) \in Nat /\ Marks(packed, n) \in Nat /\ Marks(packed, n - 1) <= Marks(packed, n)
    BY <1>1, <2>1, MarksGrow
  <2>4. Marks(packed, (n - 1) + 1) = Marks(packed, n - 1) + (IF packed[(n - 1) + 1].last THEN 1 ELSE 0)
    BY <2>1, MarksNext
  <2>5. Marks(packed, n) = Marks(packed, n - 1) + (IF packed[n].last THEN 1 ELSE 0)
    BY <2>1, <2>4
  <2>6. framesSent + Marks(packed, k) < FramesPerTransfer
    <3>1. CASE last
      <4>1. packed[n].last /\ framesSent + Marks(packed, n) = FramesPerTransfer
        BY <1>2, <3>1 DEF OnOffer
      <4> QED
        BY <1>1, <2>2, <2>3, <2>5, <4>1, LinkAssumption
    <3>2. CASE ~last
      <4>1. framesSent + Marks(packed, n) = frameCount
        BY <1>2, <3>2 DEF OnOffer
      <4> QED
        BY <1>1, <1>6, <2>2, <2>3, <4>1, LinkAssumption
    <3> QED
      BY <3>1, <3>2
  <2>7. framesSent + Marks(packed, k) # FramesPerTransfer
    BY <1>1, <2>2, <2>6, LinkAssumption
  <2> QED
    BY <2>7, FramesAre DEF P!T!EndsTransfer
<1>11. P!T!Beat(n)
  <2>1. n \in 1 .. Len(packed)
    BY <1>1, <1>3
  <2>2. P!T!EndsTransfer(n) \/ n = BeatBytes
    BY <1>2, <1>9 DEF OnOffer
  <2>3. framesSent' = IF P!T!EndsTransfer(n) THEN 0 ELSE P!T!FramesIn(n)
    BY <1>5, <1>9, FramesAre
  <2>4. sent' = <<[k \in 1 .. n |-> packed[k].data], P!T!EndsTransfer(n)>>
    BY <1>3, <1>5, <1>9 DEF DataOf
  <2>5. \E m \in P!T!More : packed' = SubSeq(packed, n + 1, Len(packed)) \o m
    BY <1>5
  <2> QED
    BY <1>10, <2>1, <2>2, <2>3, <2>4, <2>5 DEF P!T!Beat
<1>12. P!T!Send
  BY <1>3, <1>11 DEF P!T!Send
\* What is left, and the byte that comes.
<1> DEFINE q == <<>>
<1>13. q \in Seq(Marked) /\ Len(q) = 0 /\ DataOf(q) = <<>> /\ Marks(q, 0) = 0
  <2>1. DataOf(q) = <<>>
    BY DEF DataOf
  <2> QED
    BY <2>1, MarksNext
<1>14. BeatBytes \in Nat \ {0}
  BY LinkAssumption
<1>15. CASE P!Taken(in, ready)
  <2>1. packed' = Append(q, x)
    BY <1>8, <1>15
  <2>2. P!PackByte(in)
    BY <1>15 DEF P!Edge
  <2> HIDE DEF q
  <2>3. frameCount = frameCount + Marks(q, Len(q)) /\ Len(q) < BeatBytes /\ buffer = DataOf(q)
    BY <1>3, <1>6, <1>13, <1>14
  <2>4. PackerInv'
    BY <1>6, <1>13, <2>1, <2>2, <2>3, ByteJoins
  <2> QED
    BY <1>12, <2>4
<1>16. CASE ~P!Taken(in, ready)
  <2>1. packed' = q
    BY <1>8, <1>16
  <2>2. P!NoByte(ready) /\ ready = TRUE
    BY <1>16 DEF P!Edge, P!Sends
  <2>3. beat' = <<>> /\ buffer' = buffer /\ frameCount' = frameCount
    BY <2>2 DEF P!NoByte
  <2> HIDE DEF q
  <2>4. Filling'
    BY <1>3, <1>6, <1>13, <1>14, <2>1, <2>3 DEF Filling
  <2>5. PackerInv'
    BY <1>6, <1>13, <2>1, <2>3, <2>4 DEF PackerInv
  <2> QED
    BY <1>12, <2>5
<1> QED
  BY <1>15, <1>16

\* orbtrace_axis_packer.sv behind the encoder: every byte of the frames leaves
\* once and in order, a transfer ends with its FramesPerTransfer-th frame and
\* nowhere else, and only its last beat may be short, over every stall of the DMA.
THEOREM PackerIsAQueue == Spec => ImplementsTransferQueue
<1>1. Init => PackerInv
  <2> SUFFICES ASSUME Init PROVE PackerInv
    OBVIOUS
  <2>1. /\ buffer = <<>> /\ frameCount = 0 /\ beat = <<>> /\ packed = <<>> /\ framesSent = 0
    BY DEF Init, LinkInit, P!Init
  <2>2. DataOf(packed) = <<>> /\ Marks(packed, Len(packed)) = 0 /\ Len(packed) = 0
    BY <2>1, MarksNext DEF DataOf
  <2> QED
    BY <2>1, <2>2, LinkAssumption DEF PackerInv, Filling
<1>2. Init => P!T!Init
  BY DEF Init, LinkInit, P!Init, P!T!Init
<1>3. ASSUME EncoderType, PackerInv, LinkNext PROVE PackerInv' /\ P!T!Next
  <2>1. PICK in \in Offers, ready \in BOOLEAN : P!Edge(Output, ready)
    BY <1>3 DEF LinkNext, Edge
  <2>2. Output.data \in Byte /\ Output.last \in BOOLEAN
    BY <1>3, OutputType DEF Output, OutputLast
  <2> HIDE DEF Output
  <2>3. CASE P!Sends(ready)
    BY <1>3, <2>1, <2>2, <2>3, BeatLeaves DEF P!T!Next
  <2>4. CASE ~P!Sends(ready)
    BY <1>3, <2>1, <2>2, <2>4, NoBeatLeaves DEF P!T!Next
  <2> QED
    BY <2>3, <2>4
<1>4. ASSUME PackerInv, UNCHANGED linkVars PROVE PackerInv' /\ UNCHANGED P!T!vars
  <2>1. UNCHANGED <<buffer, frameCount, beat, packed, framesSent, sent>>
    BY <1>4 DEF linkVars
  <2> QED
    BY <1>4, <2>1 DEF PackerInv, Filling, OnOffer, P!T!vars
<1>5. EncoderType /\ PackerInv /\ [Next]_vars => PackerInv' /\ [P!T!Next]_(P!T!vars)
  BY <1>3, <1>4 DEF Next, vars
<1> QED
  BY <1>1, <1>2, <1>5, EncoderHolds, PTL DEF Spec, ImplementsTransferQueue, P!T!Spec
==============================================================================
