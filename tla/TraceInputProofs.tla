------------------------- MODULE TraceInputProofs -------------------------
(***************************************************************************)
(* Proofs about the input side: the demultiplexer, for every width of a    *)
(* byte, every size of a frame and every stream; the capture of the        *)
(* parallel port, for every way its settings cross into the trace clock's  *)
(* domain; and the receivers of the serial pin, for every length of a byte *)
(* and every ratio of clock and rate that leaves a bit more than ten clock *)
(* edges.                                                                  *)
(***************************************************************************)
EXTENDS TraceInput, FiniteSets, SequenceTheorems, FiniteSetTheorems, WellFoundedInduction, TLAPS

(***************************************************************************)
(* Induction, and powers of two                                            *)
(***************************************************************************)
\* A set of numbers has a least one.
LEMMA LeastOne ==
  \A T \in SUBSET Nat : T # {} => \E x \in T : \A y \in T : x <= y
<1> DEFINE R == OpToRel(<, Nat)
<1>1. IsWellFoundedOn(R, Nat)
  BY NatLessThanWellFounded
<1> SUFFICES ASSUME NEW T \in SUBSET Nat, T # {} PROVE \E x \in T : \A y \in T : x <= y
  OBVIOUS
<1>2. \E x \in T : \A y \in T : ~ (<<y, x>> \in R)
  <2> HIDE DEF R
  <2> QED
    BY <1>1, WFMin
<1>3. \A x, y \in Nat : ~(<<y, x>> \in R) => x <= y
  BY DEF OpToRel
<1> QED
  BY <1>2, <1>3

\* What holds of m and goes on from each number below n to the next, holds of n.
LEMMA UpTo ==
  ASSUME NEW T \in SUBSET Nat, NEW m \in Nat, NEW n \in Nat, m <= n, m \in T,
         \A k \in Nat : m <= k /\ k < n /\ k \in T => k + 1 \in T
  PROVE  n \in T
<1> SUFFICES ASSUME n \notin T PROVE FALSE
  OBVIOUS
<1> DEFINE missing == {k \in Nat : m <= k /\ k <= n /\ k \notin T}
<1>1. missing \in SUBSET Nat /\ missing # {}
  BY n \in missing
<1>2. PICK x \in missing : \A y \in missing : x <= y
  BY <1>1, LeastOne
<1>3. x \in Nat /\ m <= x /\ x <= n /\ x \notin T /\ x # m
  BY <1>2
<1>4. x - 1 \in Nat /\ m <= x - 1 /\ x - 1 < n /\ ~(x <= x - 1)
  BY <1>3
<1>5. x - 1 \in T
  BY <1>2, <1>4
<1>6. (x - 1) + 1 \in T
  BY <1>4, <1>5
<1> QED
  BY <1>3, <1>6

\* A power of two is the number of the subsets of a set, which each new element doubles.
LEMMA PowerType == \A n \in Nat : 2 ^ n \in Nat \ {0}
<1> SUFFICES ASSUME NEW n \in Nat PROVE 2 ^ n \in Nat \ {0}
  OBVIOUS
<1>1. IsFiniteSet(1 .. n) /\ Cardinality(1 .. n) = n
  BY FS_Interval
<1>2. IsFiniteSet(SUBSET (1 .. n)) /\ Cardinality(SUBSET (1 .. n)) = 2 ^ n
  BY <1>1, FS_SUBSET
<1>3. Cardinality(SUBSET (1 .. n)) # 0
  BY <1>2, FS_EmptySet
<1> QED
  BY <1>2, <1>3, FS_CardinalityType

LEMMA PowerDoubles == \A n \in Nat : 2 ^ (n + 1) = 2 * 2 ^ n
<1> SUFFICES ASSUME NEW n \in Nat PROVE 2 ^ (n + 1) = 2 * 2 ^ n
  OBVIOUS
<1> DEFINE S == 1 .. n
           Q == SUBSET S
           W == {s \cup {n + 1} : s \in Q}
<1>1. /\ IsFiniteSet(S) /\ Cardinality(S) = n
      /\ IsFiniteSet(1 .. n + 1) /\ Cardinality(1 .. n + 1) = n + 1
  BY FS_Interval
<1>2. /\ IsFiniteSet(Q) /\ Cardinality(Q) = 2 ^ n
      /\ Cardinality(SUBSET (1 .. n + 1)) = 2 ^ (n + 1)
  BY <1>1, FS_SUBSET
<1>3. n + 1 \notin S /\ 1 .. n + 1 = S \cup {n + 1}
  OBVIOUS
<1>4. IsFiniteSet(W) /\ Cardinality(W) = Cardinality(Q)
  <2> DEFINE f == [s \in Q |-> s \cup {n + 1}]
  <2>1. f \in Bijection(Q, W)
    <3>1. f \in [Q -> W]
      OBVIOUS
    <3>2. \A a, b \in Q : f[a] = f[b] => a = b
      BY <1>3
    <3>3. \A w \in W : \E a \in Q : f[a] = w
      OBVIOUS
    <3> QED
      BY <3>1, <3>2, <3>3 DEF Bijection, Injection, Surjection, IsInjective
  <2> QED
    BY <1>2, <2>1, FS_Bijection DEF ExistsBijection
<1>5. Q \cap W = {} /\ SUBSET (1 .. n + 1) = Q \cup W
  <2>1. Q \cap W = {}
    BY <1>3
  <2>2. ASSUME NEW t \in SUBSET (1 .. n + 1) PROVE t \in Q \cup W
    <3>1. CASE n + 1 \in t
      <4>1. t \ {n + 1} \in Q /\ t = (t \ {n + 1}) \cup {n + 1}
        BY <1>3, <3>1
      <4> QED
        BY <4>1
    <3>2. CASE n + 1 \notin t
      BY <1>3, <3>2
    <3> QED
      BY <3>1, <3>2
  <2>3. ASSUME NEW t \in Q \cup W PROVE t \in SUBSET (1 .. n + 1)
    BY <1>3
  <2> QED
    BY <2>1, <2>2, <2>3
<1>6. Cardinality(Q \cup W) = Cardinality(Q) + Cardinality(W) - Cardinality(Q \cap W)
  BY <1>2, <1>4, FS_Union
<1>7. Cardinality(Q \cap W) = 0
  BY <1>5, FS_EmptySet
<1> HIDE DEF Q, W
<1>8. 2 ^ (n + 1) = 2 ^ n + 2 ^ n - 0
  BY <1>2, <1>4, <1>5, <1>6, <1>7
<1>9. \A a \in Nat : a + a - 0 = 2 * a
  OBVIOUS
<1> QED
  BY <1>8, <1>9, PowerType

-----------------------------------------------------------------------------
(***************************************************************************)
(* The decoder of the host library                                         *)
(***************************************************************************)
WireByte == 0 .. AllOnes
Delayed == Channel \cup {NoChannel}
OutByte == Channel \X WireByte
Outputs == Seq(OutByte)
DecoderState == [out : Outputs, channel : Channel, delayed : Delayed]

\* The place of the auxiliary byte, where the decoding of a frame ends.
Last == FrameBytes - 1

LEMMA Widths ==
  /\ SyncEnd \in Nat \ {0} /\ AllOnes = 2 * SyncEnd + 1 /\ Channel = 0 .. SyncEnd
  /\ Data \subseteq WireByte /\ Expected \in Channel /\ Expected # 0
  /\ FrameBytes \in Nat /\ Last \in Nat \ {0} /\ FrameBytes = Last + 1 /\ NoChannel \notin Channel
<1> DEFINE p == 2 ^ (ByteBits - 1)
           q == 2 ^ (ByteBits - 2)
<1>1. ByteBits - 2 \in Nat /\ (ByteBits - 2) + 1 = ByteBits - 1 /\ ByteBits - 1 \in Nat
      /\ (ByteBits - 1) + 1 = ByteBits
  BY DemuxAssumption
<1>2. 2 ^ ByteBits = 2 * p /\ p = 2 * q /\ q \in Nat \ {0} /\ p \in Nat \ {0}
  BY <1>1, PowerDoubles, PowerType
<1>3. PICK n \in 1 .. ByteBits : FrameBytes = 2 * n
  BY DemuxAssumption
<1>4. FrameBytes \in Nat /\ Last \in Nat \ {0} /\ FrameBytes = Last + 1
  BY <1>3, DemuxAssumption DEF Last
<1>5. SyncEnd = p - 1 /\ AllOnes = 2 * p - 1 /\ Channel = 0 .. p - 1
  BY <1>2 DEF SyncEnd, AllOnes, Channel
<1>6. Data \subseteq 0 .. 2 * p - 1 /\ Expected \in 1 .. p - 1
  BY <1>2, DemuxAssumption
<1> HIDE DEF p, q
<1> QED
  BY <1>2, <1>4, <1>5, <1>6 DEF WireByte, NoChannel

LEMMA OutputsAre ==
  /\ <<>> \in Outputs
  /\ \A u, v \in Outputs : u \o v \in Outputs
  /\ \A u, v, w \in Outputs : (u \o v) \o w = u \o (v \o w)
  /\ \A u, v, w \in Outputs : u \o v = u \o w => v = w
  /\ \A u \in Outputs : u \o <<>> = u
  /\ \A u \in Outputs, x \in OutByte :
       <<x>> \in Outputs /\ Append(u, x) \in Outputs /\ Append(u, x) = u \o <<x>>
<1> USE DEF Outputs
<1>1. <<>> \in Outputs
  BY EmptySeq
<1>2. \A u, v \in Outputs : u \o v \in Outputs
  BY ConcatProperties
<1>3. \A u, v, w \in Outputs : (u \o v) \o w = u \o (v \o w)
  BY ConcatAssociative
<1>4. \A u, v, w \in Outputs : u \o v = u \o w => v = w
  BY ConcatSimplifications
<1>5. \A u \in Outputs : u \o <<>> = u
  OBVIOUS
<1>6. \A u \in Outputs, x \in OutByte :
        <<x>> \in Outputs /\ Append(u, x) \in Outputs /\ Append(u, x) = u \o <<x>>
  BY AppendIsConcat
<1> QED
  BY <1>1, <1>2, <1>3, <1>4, <1>5, <1>6

\* The bytes of a frame, as they are put out.
LEMMA FrameByte ==
  ASSUME NEW f \in Seq(Data), Len(f) = FrameBytes, NEW k \in 0 .. Last - 1
  PROVE  /\ AuxBit(f, k) \in {0, 1} /\ Unmangled(f, k) \in WireByte
         /\ Unmangled(f, k) \div 2 \in Channel
<1>1. /\ k + 1 \in 1 .. Len(f) /\ FrameBytes \in 1 .. Len(f) /\ k \div 2 \in Nat
  BY Widths
<1>2. f[k + 1] \in 0 .. 2 * SyncEnd + 1 /\ f[FrameBytes] \in 0 .. 2 * SyncEnd + 1
  <2>1. f[k + 1] \in Data /\ f[FrameBytes] \in Data
    BY <1>1, ElementOfSeq
  <2> QED
    BY <2>1, Widths DEF WireByte
<1>3. AuxBit(f, k) \in {0, 1}
  <2> DEFINE d == 2 ^ (k \div 2)
             a == f[FrameBytes]
  <2>1. d \in Nat \ {0} /\ a \in Nat
    BY <1>1, <1>2, PowerType
  <2> HIDE DEF d, a
  <2>2. a \div d \in Nat
    BY <2>1
  <2>3. \A n \in Nat : n % 2 \in {0, 1}
    OBVIOUS
  <2> QED
    BY <2>2, <2>3 DEF AuxBit, d, a
<1>4. \A m \in Nat : \A n \in 0 .. 2 * m + 1, b \in {0, 1} :
        /\ n \div 2 \in 0 .. m /\ 2 * (n \div 2) + b \in 0 .. 2 * m + 1
        /\ (2 * (n \div 2) + b) \div 2 \in 0 .. m
  OBVIOUS
<1>5. Unmangled(f, k) \in {2 * (f[k + 1] \div 2) + AuxBit(f, k), f[k + 1]}
  BY DEF Unmangled
<1> QED
  BY <1>2, <1>3, <1>4, <1>5, Widths DEF WireByte

LEMMA DecodeByteIs ==
  ASSUME NEW s \in DecoderState, NEW f, NEW k
  PROVE  DecodeByte(s, f, k) =
           IF IsId(f, k)
             THEN [out |-> s.out,
                   channel |-> IF AuxBit(f, k) = 1 THEN s.channel ELSE Unmangled(f, k) \div 2,
                   delayed |-> IF AuxBit(f, k) = 1 THEN Unmangled(f, k) \div 2 ELSE s.delayed]
             ELSE [out |-> IF s.channel # 0 THEN Append(s.out, <<s.channel, Unmangled(f, k)>>)
                                            ELSE s.out,
                   channel |-> IF s.delayed # NoChannel THEN s.delayed ELSE s.channel,
                   delayed |-> NoChannel]
  BY DEF DecodeByte, DecoderState

LEMMA DecodeByteType ==
  ASSUME NEW s \in DecoderState, NEW f \in Seq(Data), Len(f) = FrameBytes, NEW k \in 0 .. Last - 1
  PROVE  DecodeByte(s, f, k) \in DecoderState
<1>1. /\ s.out \in Outputs /\ s.channel \in Channel /\ s.delayed \in Delayed
      /\ Unmangled(f, k) \in WireByte /\ Unmangled(f, k) \div 2 \in Channel
  BY FrameByte DEF DecoderState
<1>2. Append(s.out, <<s.channel, Unmangled(f, k)>>) \in Outputs
  <2>1. <<s.channel, Unmangled(f, k)>> \in OutByte
    BY <1>1 DEF OutByte
  <2> QED
    BY <1>1, <2>1, OutputsAre
<1>3. s.delayed # NoChannel => s.delayed \in Channel
  BY <1>1 DEF Delayed
<1>4. NoChannel \in Delayed /\ Channel \subseteq Delayed
  BY DEF Delayed
<1>5. CASE IsId(f, k)
  BY <1>1, <1>4, <1>5, DecodeByteIs DEF DecoderState
<1>6. CASE ~IsId(f, k)
  <2> DEFINE o == IF s.channel # 0 THEN Append(s.out, <<s.channel, Unmangled(f, k)>>) ELSE s.out
             c == IF s.delayed # NoChannel THEN s.delayed ELSE s.channel
  <2>1. o \in Outputs /\ c \in Channel
    BY <1>1, <1>2, <1>3
  <2>2. DecodeByte(s, f, k) = [out |-> o, channel |-> c, delayed |-> NoChannel]
    BY <1>6, DecodeByteIs
  <2> HIDE DEF o, c
  <2> QED
    BY <1>4, <2>1, <2>2 DEF DecoderState
<1> QED
  BY <1>5, <1>6

\* The recursion of the decoder is well defined.
LEMMA DecoderIs ==
  ASSUME NEW f, NEW c, NEW d
  PROVE  /\ TpiuDecoder(f, c, d)[0] = [out |-> <<>>, channel |-> c, delayed |-> d]
         /\ \A k \in 0 .. Last - 1 :
              TpiuDecoder(f, c, d)[k + 1] = DecodeByte(TpiuDecoder(f, c, d)[k], f, k)
<1> DEFINE start == [out |-> <<>>, channel |-> c, delayed |-> d]
           Is(g, n) == g = [k \in 0 .. n |-> IF k = 0 THEN start ELSE DecodeByte(g[k - 1], f, k - 1)]
           T == {n \in Nat : \E g : Is(g, n)}
<1>1. Last \in T
  <2>1. 0 \in T
    <3>1. Is([k \in 0 .. 0 |-> start], 0)
      OBVIOUS
    <3> QED
      BY <3>1
  <2>2. ASSUME NEW n \in Nat, n \in T PROVE n + 1 \in T
    <3>1. PICK g : Is(g, n)
      BY <2>2
    <3> DEFINE h == [k \in 0 .. n + 1 |-> IF k = n + 1 THEN DecodeByte(g[n], f, n) ELSE g[k]]
    <3>2. \A k \in 0 .. n : h[k] = g[k]
      OBVIOUS
    <3>3. h[n + 1] = DecodeByte(h[n], f, n)
      BY <3>2
    <3>4. \A k \in 0 .. n : h[k] = IF k = 0 THEN start ELSE DecodeByte(h[k - 1], f, k - 1)
      <4> SUFFICES ASSUME NEW k \in 0 .. n
                   PROVE  h[k] = IF k = 0 THEN start ELSE DecodeByte(h[k - 1], f, k - 1)
        OBVIOUS
      <4>1. g[k] = IF k = 0 THEN start ELSE DecodeByte(g[k - 1], f, k - 1)
        BY <3>1
      <4>2. k # 0 => h[k - 1] = g[k - 1]
        BY <3>2
      <4> QED
        BY <3>2, <4>1, <4>2
    <3>5. Is(h, n + 1)
      <4> HIDE DEF start
      <4>1. \A k \in 0 .. n + 1 : h[k] = IF k = 0 THEN start ELSE DecodeByte(h[k - 1], f, k - 1)
        <5> HIDE DEF h
        <5> QED
          BY <3>3, <3>4
      <4>2. h = [k \in 0 .. n + 1 |-> h[k]]
        OBVIOUS
      <4> HIDE DEF h
      <4>3. h = [k \in 0 .. n + 1 |-> IF k = 0 THEN start ELSE DecodeByte(h[k - 1], f, k - 1)]
        BY <4>1, <4>2
      <4> QED
        BY <4>3
    <3> HIDE DEF Is, h
    <3> QED
      BY <3>5
  <2> HIDE DEF T
  <2>3. T \in SUBSET Nat
    BY DEF T
  <2> QED
    BY <2>1, <2>2, <2>3, UpTo, Widths
<1>2. TpiuDecoder(f, c, d) = CHOOSE g : Is(g, Last)
  BY DEF TpiuDecoder, Last
<1>3. Is(TpiuDecoder(f, c, d), Last)
  <2>1. \E g : Is(g, Last)
    BY <1>1
  <2> HIDE DEF Is
  <2> QED
    BY <1>2, <2>1
<1> DEFINE a == TpiuDecoder(f, c, d)
<1>4. Is(a, Last)
  BY <1>3
<1> HIDE DEF a
<1>5. a[0] = start
  BY <1>4, Widths
<1>6. ASSUME NEW k \in 0 .. Last - 1 PROVE a[k + 1] = DecodeByte(a[k], f, k)
  <2>1. k + 1 \in 0 .. Last /\ k + 1 # 0 /\ (k + 1) - 1 = k
    BY Widths
  <2> QED
    BY <1>4, <2>1
<1> QED
  BY <1>5, <1>6 DEF a

LEMMA DecoderType ==
  ASSUME NEW f \in Seq(Data), Len(f) = FrameBytes, NEW c \in Channel, NEW d \in Delayed
  PROVE  \A k \in 0 .. Last : TpiuDecoder(f, c, d)[k] \in DecoderState
<1> DEFINE a == TpiuDecoder(f, c, d)
           T == {k \in Nat : a[k] \in DecoderState}
<1>1. /\ a[0] = [out |-> <<>>, channel |-> c, delayed |-> d]
      /\ \A k \in 0 .. Last - 1 : a[k + 1] = DecodeByte(a[k], f, k)
  BY DecoderIs
<1> HIDE DEF a
<1>2. 0 \in T
  BY <1>1, OutputsAre DEF DecoderState
<1>3. ASSUME NEW k \in Nat, k < Last, k \in T PROVE k + 1 \in T
  <2>1. k \in 0 .. Last - 1
    BY <1>3, Widths
  <2> QED
    BY <1>1, <1>3, <2>1, DecodeByteType
<1>4. T \in SUBSET Nat
  OBVIOUS
<1>5. ASSUME NEW k \in 0 .. Last PROVE k \in T
  <2>1. k \in Nat /\ 0 <= k /\ \A i \in Nat : i < k => i < Last
    BY Widths
  <2> HIDE DEF T
  <2> QED
    BY <1>2, <1>3, <1>4, <2>1, UpTo
<1> QED
  BY <1>5 DEF a

\* What the decoder puts out only grows.
LEMMA DecoderGrows ==
  ASSUME NEW f \in Seq(Data), Len(f) = FrameBytes, NEW c \in Channel, NEW d \in Delayed,
         NEW e \in 0 .. Last
  PROVE  \E s \in Outputs : TpiuDecoder(f, c, d)[Last].out = TpiuDecoder(f, c, d)[e].out \o s
<1> DEFINE a == TpiuDecoder(f, c, d)
           T == {k \in Nat : \E s \in Outputs : a[k].out = a[e].out \o s}
<1>t. \A k \in 0 .. Last : a[k] \in DecoderState
  BY DecoderType
<1>d. /\ a[0] = [out |-> <<>>, channel |-> c, delayed |-> d]
      /\ \A k \in 0 .. Last - 1 : a[k + 1] = DecodeByte(a[k], f, k)
  BY DecoderIs
<1> HIDE DEF a
<1>0. /\ \A k \in 0 .. Last : a[k] \in DecoderState /\ a[k].out \in Outputs
      /\ \A k \in 0 .. Last - 1 : a[k + 1] = DecodeByte(a[k], f, k)
  BY <1>t, <1>d DEF DecoderState
<1>1. T \in SUBSET Nat /\ Last \in Nat /\ e \in Nat /\ e <= Last
  BY Widths
<1>2. e \in T
  BY <1>0, <1>1, OutputsAre
<1>3. ASSUME NEW k \in Nat, e <= k, k < Last, k \in T PROVE k + 1 \in T
  <2>1. k \in 0 .. Last - 1 /\ k \in 0 .. Last
    BY <1>3, Widths
  <2>2. PICK s \in Outputs : a[k].out = a[e].out \o s
    BY <1>3
  <2>3. a[k].channel \in Channel /\ Unmangled(f, k) \in WireByte /\ a[e].out \in Outputs
    BY <1>0, <2>1, FrameByte DEF DecoderState
  <2> DEFINE x == <<a[k].channel, Unmangled(f, k)>>
  <2>4. a[k + 1].out \in {a[k].out, Append(a[k].out, x)}
    BY <1>0, <2>1, DecodeByteIs
  <2>5. x \in OutByte
    BY <2>3 DEF OutByte
  <2> HIDE DEF x
  <2>6. /\ Append(a[e].out \o s, x) = (a[e].out \o s) \o <<x>>
        /\ (a[e].out \o s) \o <<x>> = a[e].out \o (s \o <<x>>) /\ s \o <<x>> \in Outputs
    <3> DEFINE u == a[e].out
    <3>1. u \in Outputs
      BY <2>3
    <3> HIDE DEF u
    <3>2. <<x>> \in Outputs /\ u \o s \in Outputs
      BY <2>5, <3>1, OutputsAre
    <3>3. Append(u \o s, x) = (u \o s) \o <<x>> /\ s \o <<x>> \in Outputs
      BY <2>5, <3>2, OutputsAre
    <3>4. (u \o s) \o <<x>> = u \o (s \o <<x>>)
      BY <3>1, <3>2, OutputsAre
    <3> QED
      BY <3>3, <3>4 DEF u
  <2>7. \E t \in Outputs : a[k + 1].out = a[e].out \o t
    BY <2>2, <2>4, <2>6
  <2> QED
    BY <2>7
<1> HIDE DEF T
<1>4. Last \in T
  BY <1>1, <1>2, <1>3, UpTo
<1> QED
  BY <1>4 DEF T, a

-----------------------------------------------------------------------------
(***************************************************************************)
(* The demultiplexer                                                       *)
(***************************************************************************)
FormatterType ==
  /\ m3 \in BOOLEAN /\ synced \in BOOLEAN /\ emitting \in BOOLEAN
  /\ ones \in 0 .. 3 /\ emit \in 0 .. Last - 1 /\ losses \in 0 .. LossEnd - 1
  /\ frame \in Seq(Data) /\ Len(frame) <= FrameBytes /\ (emitting <=> Len(frame) = FrameBytes)
  /\ channel \in Channel /\ delayed \in Delayed /\ expected \in Outputs

\* What the channel registers hold as the M3's stream takes them over: no
\* change of the source before is due any more; the M3's channel is selected
\* or due; it is the only one.
TakesOver ==
  /\ settled \in 0 .. 3 /\ (settled # 0 => m3)
  /\ settled = 1 => delayed = NoChannel
  /\ settled = 2 => delayed = Expected \/ (channel = Expected /\ delayed = NoChannel)
  /\ settled = 3 => channel \in {0, Expected} /\ delayed \in {NoChannel, Expected}

\* The RTL is where the library is after as many bytes of the frame, and what
\* the library puts out from there on is what is expected.
EmitsAlong ==
  IF emitting
    THEN \E c \in Channel, d \in Delayed :
           /\ channel = TpiuDecoder(frame, c, d)[emit].channel
           /\ delayed = TpiuDecoder(frame, c, d)[emit].delayed
           /\ TpiuDecoder(frame, c, d)[Last].out = TpiuDecoder(frame, c, d)[emit].out \o expected
    ELSE expected = <<>>

FormatterInv == FormatterType /\ EmitsAlong

LEMMA InitFormatter == DemuxInit => FormatterInv
<1> SUFFICES ASSUME DemuxInit PROVE FormatterInv
  OBVIOUS
<1>1. /\ 0 \in 0 .. Last - 1 /\ 0 \in 0 .. LossEnd - 1 /\ 0 \in Channel /\ 0 # FrameBytes
      /\ 0 <= FrameBytes
  BY Widths, DemuxAssumption
<1>2. <<>> \in Seq(Data) /\ Len(<<>>) = 0 /\ <<>> \in Outputs
  BY EmptySeq, OutputsAre
<1>3. /\ frame \in Seq(Data) /\ Len(frame) = 0 /\ expected \in Outputs /\ expected = <<>>
  BY <1>2 DEF DemuxInit
<1>4. FormatterType
  <2>1. m3 \in BOOLEAN /\ synced = FALSE /\ emitting = FALSE
    BY DEF DemuxInit
  <2>3. /\ ones \in 0 .. 3 /\ emit \in 0 .. Last - 1 /\ losses \in 0 .. LossEnd - 1
        /\ channel \in Channel /\ delayed \in Delayed
    BY <1>1 DEF DemuxInit, Delayed
  <2>2. Len(frame) <= FrameBytes /\ Len(frame) # FrameBytes
    BY <1>1, <1>3
  <2> QED
    BY <1>3, <2>1, <2>2, <2>3 DEF FormatterType
<1>5. EmitsAlong
  BY <1>3 DEF DemuxInit, EmitsAlong
<1> QED
  BY <1>4, <1>5 DEF FormatterInv

\* The next byte of the frame in hand, and what it leaves to expect.
LEMMA NextOutput ==
  ASSUME FormatterInv, emitting, NEW c \in Channel, NEW d \in Delayed,
         channel = TpiuDecoder(frame, c, d)[emit].channel,
         delayed = TpiuDecoder(frame, c, d)[emit].delayed,
         TpiuDecoder(frame, c, d)[Last].out = TpiuDecoder(frame, c, d)[emit].out \o expected
  PROVE  LET a == TpiuDecoder(frame, c, d)
             remains == IF OutputValid THEN Tail(expected) ELSE expected
         IN /\ a[emit + 1] = DecodeByte(a[emit], frame, emit) /\ a[emit] \in DecoderState
            /\ OutputValid => expected # <<>> /\ Head(expected) = Output
            /\ remains \in Outputs /\ a[Last].out = a[emit + 1].out \o remains
<1> DEFINE a == TpiuDecoder(frame, c, d)
           remains == IF OutputValid THEN Tail(expected) ELSE expected
<1>1. /\ frame \in Seq(Data) /\ Len(frame) = FrameBytes /\ emit \in 0 .. Last - 1
      /\ expected \in Outputs
  BY DEF FormatterInv, FormatterType
<1>2. /\ emit \in 0 .. Last /\ emit + 1 \in 0 .. Last
  BY <1>1, Widths
<1>3. \A k \in 0 .. Last : a[k] \in DecoderState
  BY <1>1, DecoderType
<1>4. \E s \in Outputs : a[Last].out = a[emit + 1].out \o s
  BY <1>1, <1>2, DecoderGrows
<1>5. a[emit + 1] = DecodeByte(a[emit], frame, emit)
  <2>1. /\ a[0] = [out |-> <<>>, channel |-> c, delayed |-> d]
        /\ \A k \in 0 .. Last - 1 : a[k + 1] = DecodeByte(a[k], frame, k)
    BY DecoderIs
  <2> QED
    BY <1>1, <2>1
<1>6. channel = a[emit].channel /\ delayed = a[emit].delayed /\ a[Last].out = a[emit].out \o expected
  OBVIOUS
<1> HIDE DEF a
<1>7. a[emit] \in DecoderState /\ a[emit].out \in Outputs /\ channel \in Channel
  BY <1>2, <1>3, <1>6 DEF DecoderState
<1>8. PICK s \in Outputs : a[Last].out = a[emit + 1].out \o s
  BY <1>4
<1>9. CASE OutputValid
  <2>1. ~IsId(frame, emit) /\ channel # 0
    BY <1>9 DEF OutputValid
  <2>2. a[emit + 1].out = Append(a[emit].out, Output)
    BY <1>5, <1>6, <1>7, <2>1, DecodeByteIs DEF Output
  <2>3. Output \in OutByte
    BY <1>1, <1>7, FrameByte DEF Output, OutByte
  <2> DEFINE u == a[emit].out
             o == <<Output>>
  <2>4. u \in Outputs /\ o \in Outputs /\ Append(u, Output) = u \o o
    BY <1>7, <2>3, OutputsAre
  <2>t. Append(u, Output) = a[emit + 1].out
    BY <2>2
  <2> HIDE DEF u, o
  <2>5. o \o s \in Outputs
    BY <2>4, OutputsAre
  <2>6. (u \o o) \o s = u \o (o \o s)
    BY <2>4, OutputsAre
  <2>7. u \o expected = u \o (o \o s)
    BY <1>6, <1>8, <2>t, <2>4, <2>6 DEF u
  <2>8. expected = o \o s
    <3> DEFINE w == o \o s
    <3>1. w \in Outputs /\ u \o expected = u \o w
      BY <2>5, <2>7
    <3> HIDE DEF w
    <3>2. \A x, y, z \in Outputs : x \o y = x \o z => y = z
      BY OutputsAre
    <3>3. expected = w
      BY <1>1, <2>4, <3>1, <3>2
    <3> QED
      BY <3>3 DEF w
  <2>9. expected # <<>> /\ Head(expected) = Output /\ Tail(expected) = s
    BY <2>3, <2>8 DEF Outputs, o
  <2> QED
    BY <1>5, <1>7, <1>8, <1>9, <2>9 DEF a
<1>10. CASE ~OutputValid
  <2>1. IsId(frame, emit) \/ channel = 0
    BY <1>10 DEF OutputValid
  <2>2. a[emit + 1].out = a[emit].out
    BY <1>5, <1>6, <1>7, <2>1, DecodeByteIs
  <2> QED
    BY <1>1, <1>5, <1>6, <1>7, <1>10, <2>2 DEF a
<1> QED
  BY <1>9, <1>10

\* A byte of the stream comes in: a frame is complete, or nothing is expected.
LEMMA TakeByteStep ==
  ASSUME FormatterInv, NEW in \in Data, NEW reset \in BOOLEAN, ~emitting, TakeByte(in, reset),
         m3' \in BOOLEAN
  PROVE  FormatterInv'
<1> USE DEF FormatterType
<1>1. FormatterType /\ expected = <<>>
  BY DEF FormatterInv, EmitsAlong
<1>2. /\ ones' \in 0 .. 3 /\ losses' \in 0 .. LossEnd - 1 /\ UNCHANGED <<channel, delayed>>
  <2>1. ones' \in 0 .. 3
    BY <1>1 DEF TakeByte
  <2>2. \A n \in Nat : n % LossEnd \in 0 .. LossEnd - 1
    BY DemuxAssumption
  <2>3. losses + (IF reset /\ synced THEN 1 ELSE 0) \in Nat
    BY <1>1, DemuxAssumption
  <2> QED
    BY <2>1, <2>2, <2>3 DEF TakeByte
<1>3. synced' \in BOOLEAN /\ emit' \in 0 .. Last - 1 /\ emitting' \in BOOLEAN
      /\ frame' \in Seq(Data) /\ Len(frame') <= FrameBytes /\ (emitting' <=> Len(frame') = FrameBytes)
      /\ (emitting' => emit' = 0)
  <2>1. CASE synced
    <3>1. Collect(in, reset)
      BY <2>1 DEF TakeByte
    <3>2. frame' \in Seq(Data) /\ Len(frame') = Len(frame) + 1 /\ Len(frame) \in Nat
      BY <1>1, <3>1 DEF Collect
    <3>3. Len(frame) # FrameBytes
      BY <1>1
    <3>4. /\ Len(frame) = FrameBytes - 1 <=> Len(frame') = FrameBytes
          /\ Len(frame') <= FrameBytes /\ 0 \in 0 .. Last - 1
      BY <1>1, <3>2, <3>3, Widths
    <3>5. CASE Len(frame) = FrameBytes - 1
      BY <3>1, <3>2, <3>4, <3>5 DEF Collect
    <3>6. CASE Len(frame) # FrameBytes - 1
      BY <1>1, <3>1, <3>2, <3>4, <3>6 DEF Collect
    <3> QED
      BY <3>5, <3>6
  <2>2. CASE ~synced
    <3>1. Search(in)
      BY <2>2 DEF TakeByte
    <3> QED
      BY <1>1, <3>1, Widths, EmptySeq DEF Search
  <2> QED
    BY <2>1, <2>2
<1>4. CASE emitting'
  <2>1. expected' = TpiuDecoder(frame', channel, delayed)[Last].out
    BY <1>4 DEF TakeByte, Last
  <2> DEFINE a == TpiuDecoder(frame', channel, delayed)
             start == [out |-> <<>>, channel |-> channel, delayed |-> delayed]
  <2>2. a[0] = start
    BY DecoderIs
  <2>3. a[Last] \in DecoderState
    BY <1>1, <1>3, <1>4, DecoderType, Widths
  <2>4. expected' \in Outputs /\ <<>> \o expected' = expected'
    BY <2>1, <2>3 DEF DecoderState, Outputs
  <2>5. /\ channel' = a[emit'].channel /\ delayed' = a[emit'].delayed
        /\ a[Last].out = a[emit'].out \o expected'
    <3>1. a[emit'] = start
      BY <1>3, <1>4, <2>2
    <3>2. expected' = a[Last].out
      BY <2>1
    <3> HIDE DEF a
    <3>3. a[emit'].out = <<>> /\ a[emit'].channel = channel /\ a[emit'].delayed = delayed
      BY <3>1
    <3> QED
      BY <1>2, <2>4, <3>2, <3>3
  <2>6. EmitsAlong'
    BY <1>1, <1>2, <1>4, <2>5 DEF EmitsAlong
  <2> QED
    BY <1>1, <1>2, <1>3, <2>4, <2>6 DEF FormatterInv
<1>5. CASE ~emitting'
  <2>1. expected' = <<>> /\ expected' \in Outputs
    BY <1>5, OutputsAre DEF TakeByte
  <2> QED
    BY <1>1, <1>2, <1>3, <1>5, <2>1 DEF FormatterInv, EmitsAlong
<1> QED
  BY <1>4, <1>5

\* A byte of the frame in hand is done with.
LEMMA EmitByteStep ==
  ASSUME FormatterInv, NEW ready, NEW reset \in BOOLEAN, EmitByte(ready, reset),
         m3' \in BOOLEAN
  PROVE  FormatterInv'
<1>1. /\ FormatterType /\ emitting
      /\ frame \in Seq(Data) /\ Len(frame) = FrameBytes /\ emit \in 0 .. Last - 1
  BY DEF FormatterInv, FormatterType, EmitByte, ByteDone
<1>2. PICK c \in Channel, d \in Delayed :
        /\ channel = TpiuDecoder(frame, c, d)[emit].channel
        /\ delayed = TpiuDecoder(frame, c, d)[emit].delayed
        /\ TpiuDecoder(frame, c, d)[Last].out = TpiuDecoder(frame, c, d)[emit].out \o expected
  BY <1>1 DEF FormatterInv, EmitsAlong
<1> DEFINE a == TpiuDecoder(frame, c, d)
           remains == IF OutputValid THEN Tail(expected) ELSE expected
<1>3. /\ a[emit + 1] = DecodeByte(a[emit], frame, emit) /\ a[emit] \in DecoderState
      /\ remains \in Outputs /\ a[Last].out = a[emit + 1].out \o remains
  BY <1>1, <1>2, NextOutput
<1>4. a[Last] \in DecoderState
  BY <1>1, DecoderType, Widths
<1>5. channel = a[emit].channel /\ delayed = a[emit].delayed
  BY <1>2
<1> HIDE DEF a
<1>6. channel' = a[emit + 1].channel /\ delayed' = a[emit + 1].delayed
  <2>1. CASE IsId(frame, emit)
    BY <1>3, <1>5, <2>1, DecodeByteIs DEF EmitByte, SelectChannel, PassData
  <2>2. CASE ~IsId(frame, emit)
    BY <1>3, <1>5, <2>2, DecodeByteIs DEF EmitByte, SelectChannel, PassData
  <2> QED
    BY <2>1, <2>2
<1>7. a[emit + 1] \in DecoderState
  BY <1>1, <1>3, DecodeByteType
<1>8. channel' \in Channel /\ delayed' \in Delayed
  BY <1>6, <1>7 DEF DecoderState
<1>10. losses' \in 0 .. LossEnd - 1 /\ ones' \in 0 .. 3 /\ synced' \in BOOLEAN
  <2>1. \A n \in Nat : n % LossEnd \in 0 .. LossEnd - 1
    BY DemuxAssumption
  <2>2. losses + (IF reset /\ synced THEN 1 ELSE 0) \in Nat
    BY <1>1, DemuxAssumption DEF FormatterType
  <2> QED
    BY <1>1, <2>1, <2>2 DEF EmitByte, FormatterType
<1>11. /\ expected' = IF reset THEN <<>> ELSE remains
       /\ emitting' = (emit # Last - 1 /\ ~reset)
       /\ emit' = IF emit = Last - 1 THEN emit ELSE emit + 1
       /\ frame' = IF emitting' THEN frame ELSE <<>>
  BY Widths DEF EmitByte
<1> HIDE DEF remains
<1>12. expected' \in Outputs
  BY <1>3, <1>11, OutputsAre
<1>13. /\ emitting' \in BOOLEAN /\ emit' \in 0 .. Last - 1
       /\ frame' \in Seq(Data) /\ Len(frame') <= FrameBytes /\ (emitting' <=> Len(frame') = FrameBytes)
  <2>1. <<>> \in Seq(Data) /\ Len(<<>>) = 0 /\ FrameBytes # 0 /\ 0 <= FrameBytes /\ FrameBytes <= FrameBytes
    BY Widths, EmptySeq
  <2>2. emit' \in 0 .. Last - 1
    BY <1>1, <1>11, Widths
  <2> QED
    BY <1>1, <1>11, <2>1, <2>2
<1>14. FormatterType'
  BY <1>1, <1>8, <1>10, <1>12, <1>13 DEF FormatterType
<1>15. EmitsAlong'
  <2>1. CASE emitting'
    <3>1. frame' = frame /\ emit' = emit + 1 /\ expected' = remains
      BY <1>11, <2>1
    <3>2. /\ channel' = TpiuDecoder(frame', c, d)[emit'].channel
          /\ delayed' = TpiuDecoder(frame', c, d)[emit'].delayed
          /\ TpiuDecoder(frame', c, d)[Last].out
               = TpiuDecoder(frame', c, d)[emit'].out \o expected'
      BY <1>3, <1>6, <3>1 DEF a
    <3> QED
      BY <2>1, <3>2 DEF EmitsAlong
  <2>2. CASE ~emitting'
    <3>1. expected' = <<>>
      <4>1. CASE reset
        BY <1>11, <4>1
      <4>2. CASE ~reset
        <5>0. emit = Last - 1
          BY <1>11, <2>2, <4>2, Zenon
        <5>1. emit + 1 = Last
          BY <5>0, Widths
        <5> DEFINE u == a[Last].out
        <5>2. u \in Outputs
          BY <1>4 DEF DecoderState
        <5>3. u = u \o remains
          BY <1>3, <5>1
        <5> HIDE DEF u
        <5>4. \A x, y, z \in Outputs : x \o y = x \o z => y = z
          BY OutputsAre
        <5>5. u \o <<>> = u /\ <<>> \in Outputs
          BY <5>2, OutputsAre
        <5>6. u \o remains = u \o <<>>
          BY <5>3, <5>5
        <5>7. remains = <<>>
          BY <1>3, <5>2, <5>4, <5>5, <5>6
        <5> QED
          BY <1>11, <4>2, <5>7
      <4> QED
        BY <4>1, <4>2
    <3> QED
      BY <2>2, <3>1 DEF EmitsAlong
  <2> QED
    BY <2>1, <2>2
<1> QED
  BY <1>14, <1>15 DEF FormatterInv

\* The lock is given up, or no byte moves.
LEMMA DropLockStep ==
  ASSUME FormatterInv, DropLock, m3' \in BOOLEAN
  PROVE  FormatterInv'
<1>1. losses' \in 0 .. LossEnd - 1
  BY DemuxAssumption DEF FormatterInv, FormatterType, DropLock
<1>2. /\ <<>> \in Seq(Data) /\ Len(<<>>) = 0 /\ FrameBytes # 0 /\ 0 <= FrameBytes
      /\ <<>> \in Outputs
  BY Widths, EmptySeq, OutputsAre
<1>3. FormatterType'
  BY <1>1, <1>2 DEF FormatterInv, FormatterType, DropLock
<1>4. EmitsAlong'
  BY DEF FormatterInv, EmitsAlong, DropLock
<1> QED
  BY <1>3, <1>4 DEF FormatterInv

LEMMA IdleStep ==
  ASSUME FormatterInv, NEW reset \in BOOLEAN, Idle(reset), m3' \in BOOLEAN
  PROVE  FormatterInv'
<1>1. losses' \in 0 .. LossEnd - 1
  <2>1. \A n \in Nat : n % LossEnd \in 0 .. LossEnd - 1
    BY DemuxAssumption
  <2>2. losses + (IF reset /\ synced THEN 1 ELSE 0) \in Nat
    BY DemuxAssumption DEF FormatterInv, FormatterType
  <2> QED
    BY <2>1, <2>2 DEF Idle
<1>2. /\ <<>> \in Seq(Data) /\ Len(<<>>) = 0 /\ FrameBytes # 0 /\ 0 <= FrameBytes
      /\ <<>> \in Outputs
  BY Widths, EmptySeq, OutputsAre
<1>3. FormatterType'
  BY <1>1, <1>2 DEF FormatterInv, FormatterType, Idle
<1>5. EmitsAlong'
  <2>1. CASE reset
    BY <2>1 DEF EmitsAlong, Idle
  <2>2. CASE ~reset
    BY <2>2 DEF FormatterInv, EmitsAlong, Idle
  <2> QED
    BY <2>1, <2>2
<1> QED
  BY <1>3, <1>5 DEF FormatterInv

LEMMA FormatterStep == FormatterInv /\ DemuxNext => FormatterInv'
<1> SUFFICES ASSUME FormatterInv, NEW in \in Offers, NEW ready \in BOOLEAN, NEW reset \in BOOLEAN,
                    Edge(in, ready, reset)
             PROVE  FormatterInv'
  BY DEF DemuxNext
<1>1. m3' \in BOOLEAN
  BY DEF Edge
<1>2. CASE InputReady /\ in.valid /\ TakeByte(in.data, reset)
  <2>1. in.data \in Data /\ ~emitting
    <3>1. \A x \in [valid : {TRUE}, data : Data] : x.data \in Data
      OBVIOUS
    <3>2. in # None
      BY <1>2 DEF None
    <3> QED
      BY <1>2, <3>1, <3>2 DEF Offers, InputReady
  <2> QED
    BY <1>1, <1>2, <2>1, TakeByteStep
<1>3. CASE Idle(reset)
  BY <1>1, <1>3, IdleStep
<1>4. CASE EmitByte(ready, reset)
  BY <1>1, <1>4, EmitByteStep
<1>5. CASE DropLock
  BY <1>1, <1>5, DropLockStep
<1> QED
  BY <1>2, <1>3, <1>4, <1>5 DEF Edge

LEMMA TakesOverStep == FormatterType /\ TakesOver /\ DemuxNext => TakesOver'
<1> SUFFICES ASSUME FormatterType, TakesOver, NEW in \in Offers, NEW ready \in BOOLEAN,
                    NEW reset \in BOOLEAN, Edge(in, ready, reset)
             PROVE  TakesOver'
  BY DEF DemuxNext
<1>1. m3' \in BOOLEAN /\ m3 \in BOOLEAN /\ Settle(ready)
  BY DEF Edge, FormatterType
<1>2. CASE ~(m3 /\ m3')
  BY <1>1, <1>2 DEF TakesOver, Settle
<1>3. CASE m3 /\ m3' /\ EmitByte(ready, reset)
  <2>1. ByteDone(ready) /\ ~FalseLock /\ (SelectChannel \/ PassData)
    BY <1>3 DEF EmitByte, ByteDone
  <2>2. CASE IsId(frame, emit)
    <3>1. Unmangled(frame, emit) \div 2 = Expected
      BY <1>3, <2>1, <2>2 DEF FalseLock
    <3>2. \/ delayed' = Expected /\ channel' = channel
          \/ channel' = Expected /\ delayed' = delayed
      BY <2>1, <2>2, <3>1 DEF SelectChannel, PassData
    <3>3. settled' = IF settled = 1 THEN settled + 1 ELSE settled
      BY <1>1, <1>3, <2>1, <2>2 DEF Settle
    <3> QED
      BY <1>3, <3>2, <3>3 DEF TakesOver
  <2>3. CASE ~IsId(frame, emit)
    <3>1. delayed' = NoChannel /\ channel' = IF delayed # NoChannel THEN delayed ELSE channel
      BY <2>1, <2>3 DEF SelectChannel, PassData
    <3>2. settled' = IF settled \in {0, 2} THEN settled + 1 ELSE settled
      BY <1>1, <1>3, <2>1, <2>3 DEF Settle
    <3>3. Expected # NoChannel
      BY DemuxAssumption DEF NoChannel
    <3> QED
      BY <1>3, <3>1, <3>2, <3>3 DEF TakesOver
  <2> QED
    BY <2>2, <2>3
<1>4. CASE m3 /\ m3' /\ ~EmitByte(ready, reset)
  <2>1. UNCHANGED <<channel, delayed>>
    BY <1>4 DEF Edge, TakeByte, Idle, DropLock
  <2>2. ~ByteDone(ready)
    <3> SUFFICES ASSUME ByteDone(ready) PROVE FALSE
      OBVIOUS
    <3>1. emitting /\ ~FalseLock /\ ~(OutputValid /\ ~ready)
      BY DEF ByteDone, OutputValid
    <3> QED
      BY <1>4, <3>1 DEF Edge, DropLock, InputReady
  <2>3. settled' = settled
    BY <1>1, <1>4, <2>2 DEF Settle
  <2> QED
    BY <1>4, <2>1, <2>3 DEF TakesOver
<1> QED
  BY <1>1, <1>2, <1>3, <1>4

\* Every step of the input side keeps them: the formatter stands still in the others.
LEMMA FormatterHolds == Spec => [](FormatterInv /\ TakesOver)
<1>1. Init => FormatterInv /\ TakesOver
  <2>1. DemuxInit => TakesOver
    BY DEF DemuxInit, TakesOver
  <2> QED
    BY <2>1, InitFormatter DEF Init
<1>2. FormatterInv /\ TakesOver /\ UNCHANGED demuxVars => FormatterInv' /\ TakesOver'
  <2> SUFFICES ASSUME FormatterInv, TakesOver, UNCHANGED demuxVars
               PROVE  FormatterInv' /\ TakesOver'
    OBVIOUS
  <2>1. FormatterType' /\ TakesOver'
    BY DEF demuxVars, FormatterInv, FormatterType, TakesOver
  <2>2. EmitsAlong'
    BY DEF demuxVars, FormatterInv, EmitsAlong
  <2> QED
    BY <2>1, <2>2 DEF FormatterInv
<1>3. FormatterInv /\ TakesOver /\ [Next]_vars => FormatterInv' /\ TakesOver'
  BY <1>2, FormatterStep, TakesOverStep DEF Next, vars, FormatterInv
<1> QED
  BY <1>1, <1>3, PTL DEF Spec

\* "Byte by byte": whatever the stream, the stalls, the resets and the false
\* locks of the M3's source, orbtrace_tpiu_demux.sv puts out what the host
\* library decodes from the whole frame.
THEOREM EmitsWhatTheLibraryDecodes == Spec => []EmitsReference
<1>1. FormatterInv => EmitsReference
  <2> SUFFICES ASSUME FormatterInv PROVE EmitsReference
    OBVIOUS
  <2>1. ~emitting => expected = <<>>
    BY DEF FormatterInv, EmitsAlong
  <2>2. ASSUME OutputValid PROVE expected # <<>> /\ Head(expected) = Output
    <3>1. emitting
      BY <2>2 DEF OutputValid
    <3>2. PICK c \in Channel, d \in Delayed :
            /\ channel = TpiuDecoder(frame, c, d)[emit].channel
            /\ delayed = TpiuDecoder(frame, c, d)[emit].delayed
            /\ TpiuDecoder(frame, c, d)[Last].out = TpiuDecoder(frame, c, d)[emit].out \o expected
      BY <3>1 DEF FormatterInv, EmitsAlong
    <3> QED
      BY <2>2, <3>1, <3>2, NextOutput
  <2> QED
    BY <2>1, <2>2 DEF EmitsReference
<1> QED
  BY <1>1, FormatterHolds, PTL

\* For every stream, every change of the source and every false lock: with the
\* M3 selected, no byte of another channel gets out of orbtrace_tpiu_demux.sv,
\* from reset on if it is the M3 from there, and otherwise once its stream has
\* replaced what the source before left in the channel registers.
THEOREM OnlyTheM3Gets == Spec => []M3ChannelOnly
<1>1. TakesOver => M3ChannelOnly
  BY DEF TakesOver, M3ChannelOnly, OutputValid
<1> QED
  BY <1>1, FormatterHolds, PTL

-----------------------------------------------------------------------------
(***************************************************************************)
(* The capture of the parallel port                                        *)
(***************************************************************************)
Stamp == 0 .. Stamps - 1

CaptureType ==
  /\ trace_format \in 0 .. 7 /\ formatBefore \in 0 .. 7 /\ format_m \in 0 .. 7 /\ format_s \in 0 .. 7
  /\ rise \in Stamp /\ fall \in Stamp /\ now \in Stamp
  /\ partial \in Seq(Stamp) /\ phase \in 0 .. 3 /\ activeWidth \in 0 .. 2
  /\ primed \in BOOLEAN /\ lastWidth \in {0, 1, 2, 7}

\* The samples that are held are those of the edge before.
HoldsTheLastEdge ==
  Enable => rise = (now + Stamps - 2) % Stamps /\ fall = (now + Stamps - 1) % Stamps

\* The part of a byte that was put together is what the reference has.
FollowsReference ==
  /\ lastWidth = IF primed THEN activeWidth ELSE 7
  /\ IF primed
       THEN /\ phase <= LastPhase(activeWidth) /\ 2 * phase <= Len(partial)
            /\ window = SubSeq(partial, 1, 2 * phase)
       ELSE window = <<>>
  /\ byte = due

\* A mixture of an old and a new format is neither of them, so it is not the
\* format of the edge before either: it lasts one edge, which takes no sample.
MixturesAreNew ==
  /\ formatBefore # trace_format => format_m = formatBefore
  /\ mixed_m => format_m # format_s
  /\ mixed_s /\ primed => format_s # activeWidth
  /\ byte # <<>> => ~widthMixed

CaptureInv == CaptureType /\ HoldsTheLastEdge /\ FollowsReference /\ MixturesAreNew

\* Sample times, and the bits of a register.
LEMMA Wraps ==
  ASSUME NEW n \in Stamp
  PROVE  /\ (n + 2) % Stamps \in Stamp /\ (n + 1) % Stamps \in Stamp
         /\ (((n + 2) % Stamps) + Stamps - 2) % Stamps = n
         /\ (((n + 2) % Stamps) + Stamps - 1) % Stamps = (n + 1) % Stamps
<1>1. Stamps \in Nat /\ Stamps > 8
  BY CaptureAssumption
<1>2. \A x \in 0 .. Stamps - 1 : x % Stamps = x
  BY <1>1
<1>3. \A x \in Stamps .. 2 * Stamps - 1 : x % Stamps = x - Stamps
  BY <1>1
<1>4. n \in 0 .. Stamps - 1
  BY DEF Stamp
<1>5. CASE n + 2 < Stamps
  <2>1. (n + 2) % Stamps = n + 2 /\ (n + 1) % Stamps = n + 1
    BY <1>1, <1>2, <1>4, <1>5
  <2>2. (n + 2) + Stamps - 2 \in Stamps .. 2 * Stamps - 1 /\ (n + 2) + Stamps - 1 \in Stamps .. 2 * Stamps - 1
    BY <1>1, <1>4, <1>5
  <2> QED
    BY <1>1, <1>3, <1>4, <1>5, <2>1, <2>2 DEF Stamp
<1>6. CASE n + 2 = Stamps
  <2>1. (n + 2) % Stamps = 0 /\ (n + 1) % Stamps = n + 1
    BY <1>1, <1>2, <1>3, <1>4, <1>6
  <2>2. 0 + Stamps - 2 \in 0 .. Stamps - 1 /\ 0 + Stamps - 1 \in 0 .. Stamps - 1
    BY <1>1
  <2> QED
    BY <1>1, <1>2, <1>4, <1>6, <2>1, <2>2 DEF Stamp
<1>7. CASE n + 1 = Stamps
  <2>1. (n + 2) % Stamps = 1 /\ (n + 1) % Stamps = 0
    BY <1>1, <1>3, <1>4, <1>7
  <2>2. 1 + Stamps - 2 \in 0 .. Stamps - 1 /\ 1 + Stamps - 1 \in Stamps .. 2 * Stamps - 1
    BY <1>1
  <2> QED
    BY <1>1, <1>2, <1>3, <1>4, <1>7, <2>1, <2>2 DEF Stamp
<1> QED
  BY <1>1, <1>4, <1>5, <1>6, <1>7

LEMMA NothingBetween == \A a \in 0 .. 7 : Between(a, a) = {a}
<1> SUFFICES ASSUME NEW a \in 0 .. 7 PROVE Between(a, a) = {a}
  OBVIOUS
<1>1. 2 ^ 0 = 1 /\ 2 ^ 1 = 2 /\ 2 ^ 2 = 4
  OBVIOUS
<1>2. \A f \in 0 .. 7 : /\ f % 2 = a % 2 /\ (f \div 2) % 2 = (a \div 2) % 2
                        /\ (f \div 4) % 2 = (a \div 4) % 2
                        => f = a
  OBVIOUS
<1>3. ASSUME NEW f \in Between(a, a) PROVE f = a
  <2>1. f \in 0 .. 7 /\ Bit(f, 0) = Bit(a, 0) /\ Bit(f, 1) = Bit(a, 1) /\ Bit(f, 2) = Bit(a, 2)
    BY <1>3 DEF Between
  <2>2. f \div 1 = f /\ a \div 1 = a
    BY <2>1
  <2> QED
    BY <1>1, <1>2, <2>1, <2>2 DEF Bit
<1>4. a \in Between(a, a)
  BY DEF Between
<1> QED
  BY <1>3, <1>4

LEMMA InitCapture == CaptureInit => CaptureInv
<1> SUFFICES ASSUME CaptureInit PROVE CaptureInv
  OBVIOUS
<1>1. 0 \in Stamp /\ <<>> \in Seq(Stamp)
  BY CaptureAssumption, EmptySeq DEF Stamp
<1>2. CaptureType
  <2>1. primed = FALSE
    BY DEF CaptureInit
  <2>2. /\ trace_format = 0 /\ formatBefore = 0 /\ format_m = 0 /\ format_s = 0 /\ rise = 0 /\ fall = 0
        /\ now = 0 /\ partial = <<>> /\ phase = 0 /\ activeWidth = 0 /\ lastWidth = 7
    BY DEF CaptureInit
  <2>3. primed \in BOOLEAN
    BY <2>1
  <2> QED
    BY <1>1, <2>2, <2>3 DEF CaptureType
<1>3. HoldsTheLastEdge /\ FollowsReference /\ MixturesAreNew
  BY DEF CaptureInit, HoldsTheLastEdge, Enable, FollowsReference, MixturesAreNew
<1> QED
  BY <1>2, <1>3 DEF CaptureInv

\* A command writes a register only; a new format comes when the old one is seen.
LEMMA CommandStep ==
  ASSUME CaptureInv, Start \/ Stop \/ \E f \in Formats : Configure(f)
  PROVE  CaptureInv'
<1>1. UNCHANGED traceVars
  BY DEF Start, Stop, SetRunning, Configure
<1>2. trace_format' \in 0 .. 7 /\ formatBefore' \in 0 .. 7
      /\ (formatBefore' # trace_format' => format_m = formatBefore')
  <2>1. CASE Start \/ Stop
    BY <2>1 DEF Start, Stop, SetRunning, CaptureInv, CaptureType, MixturesAreNew
  <2>2. CASE \E f \in Formats : Configure(f)
    BY <2>2, CaptureAssumption DEF Configure, Settled, CaptureInv, CaptureType
  <2> QED
    BY <2>1, <2>2
<1>3. CaptureType' /\ MixturesAreNew'
  BY <1>1, <1>2 DEF CaptureInv, CaptureType, MixturesAreNew, traceVars
<1>4. HoldsTheLastEdge'
  BY <1>1 DEF CaptureInv, HoldsTheLastEdge, Enable, traceVars
<1>5. FollowsReference'
  BY <1>1 DEF CaptureInv, FollowsReference, LastPhase, traceVars
<1> QED
  BY <1>3, <1>4, <1>5 DEF CaptureInv

\* The samples of one more edge, and the reference.
LEMMA SampleStep ==
  ASSUME CaptureType, Sample
  PROVE  /\ rise' \in Stamp /\ fall' \in Stamp /\ now' \in Stamp
         /\ HoldsTheLastEdge'
<1>1. /\ (now + 2) % Stamps \in Stamp /\ (now + 1) % Stamps \in Stamp
      /\ (((now + 2) % Stamps) + Stamps - 2) % Stamps = now
      /\ (((now + 2) % Stamps) + Stamps - 1) % Stamps = (now + 1) % Stamps
  BY Wraps DEF CaptureType
<1>2. rise' \in Stamp /\ fall' \in Stamp /\ now' \in Stamp
  BY <1>1 DEF Sample, CaptureType
<1>3. ASSUME Enable' PROVE rise' = (now' + Stamps - 2) % Stamps /\ fall' = (now' + Stamps - 1) % Stamps
  BY <1>1, <1>3 DEF Sample, Enable
<1> QED
  BY <1>2, <1>3 DEF HoldsTheLastEdge

LEMMA ShiftFollows ==
  ASSUME CaptureType, HoldsTheLastEdge, FollowsReference, Shift, Reference
  PROVE  /\ FollowsReference'
         /\ partial' \in Seq(Stamp) /\ phase' \in 0 .. 3 /\ activeWidth' \in 0 .. 2
         /\ primed' \in BOOLEAN /\ lastWidth' \in {0, 1, 2, 7}
<1> DEFINE held == SubSeq(partial, 1, 2 * phase)
           edge == <<rise, fall>>
           samples == held \o edge
           all == window \o <<(now + Stamps - 2) % Stamps, (now + Stamps - 1) % Stamps>>
<1>1. /\ Enable /\ primed /\ activeWidth = format_s /\ lastWidth = activeWidth /\ activeWidth \in 0 .. 2
      /\ phase \in 0 .. 3 /\ partial \in Seq(Stamp)
  BY DEF Shift, CaptureType, FollowsReference
<1>2. /\ phase <= LastPhase(activeWidth) /\ 2 * phase <= Len(partial) /\ window = held
  BY <1>1 DEF FollowsReference
<1>3. all = samples
  BY <1>1, <1>2 DEF HoldsTheLastEdge
<1>4. held \in Seq(Stamp) /\ Len(held) = 2 * phase /\ edge \in Seq(Stamp) /\ Len(edge) = 2
  <2>1. \A s \in Seq(Stamp), n \in Nat : n <= Len(s) => SubSeq(s, 1, n) \in Seq(Stamp) /\ Len(SubSeq(s, 1, n)) = n
    BY SubSeqProperties
  <2>2. 2 * phase \in Nat
    BY <1>1
  <2>3. rise \in Stamp /\ fall \in Stamp
    BY DEF CaptureType
  <2> QED
    BY <1>1, <1>2, <2>1, <2>2, <2>3
<1> HIDE DEF held, edge
<1>5. samples \in Seq(Stamp) /\ Len(samples) = 2 * phase + 2
  <2>1. \A s, t \in Seq(Stamp) : s \o t \in Seq(Stamp) /\ Len(s \o t) = Len(s) + Len(t)
    BY ConcatProperties
  <2>2. held \o edge \in Seq(Stamp) /\ Len(held \o edge) = Len(held) + Len(edge)
    BY <1>4, <2>1
  <2>3. Len(held) + Len(edge) = 2 * phase + 2
    BY <1>4
  <2> QED
    BY <2>2, <2>3
<1>6. /\ lastWidth' = activeWidth
      /\ IF Len(samples) * 2 ^ activeWidth = 8 THEN window' = <<>> /\ due' = samples
                                               ELSE window' = samples /\ due' = <<>>
  <2>1. activeWidth # 7 /\ activeWidth = lastWidth
    BY <1>1
  <2> HIDE DEF samples
  <2>2. Reference =>
          /\ lastWidth' = activeWidth
          /\ IF activeWidth = 7 \/ activeWidth # lastWidth THEN window' = <<>> /\ due' = <<>>
             ELSE IF Len(samples) * 2 ^ activeWidth = 8 THEN window' = <<>> /\ due' = samples
             ELSE window' = samples /\ due' = <<>>
    BY <1>1, <1>3 DEF Reference
  <2> QED
    BY <2>1, <2>2
<1>7. /\ IF phase = LastPhase(activeWidth) THEN byte' = samples /\ phase' = 0 /\ partial' = partial
                                           ELSE partial' = samples /\ phase' = phase + 1 /\ byte' = <<>>
      /\ activeWidth' = activeWidth /\ primed' = primed
  BY DEF Shift, held, edge
<1> HIDE DEF samples
<1>8. Len(samples) * 2 ^ activeWidth = 8 <=> phase = LastPhase(activeWidth)
  <2>1. 2 ^ 0 = 1 /\ 2 ^ 1 = 2 /\ 2 ^ 2 = 4
    OBVIOUS
  <2>2. CASE activeWidth = 0
    BY <1>1, <1>5, <2>1, <2>2 DEF LastPhase
  <2>3. CASE activeWidth = 1
    BY <1>1, <1>5, <2>1, <2>3 DEF LastPhase
  <2>4. CASE activeWidth = 2
    BY <1>1, <1>5, <2>1, <2>4 DEF LastPhase
  <2> QED
    BY <1>1, <2>2, <2>3, <2>4
<1>9. LastPhase(activeWidth) \in 0 .. 3
  BY <1>1 DEF LastPhase
<1>10. CASE phase = LastPhase(activeWidth)
  <2>1. SubSeq(partial, 1, 2 * 0) = <<>>
    BY <1>1
  <2>2. /\ window' = <<>> /\ due' = samples /\ byte' = samples /\ phase' = 0 /\ partial' = partial
        /\ lastWidth' = activeWidth' /\ primed' /\ activeWidth' = activeWidth
    BY <1>1, <1>6, <1>7, <1>8, <1>10
  <2>3. phase' <= LastPhase(activeWidth') /\ 2 * phase' <= Len(partial')
    BY <1>1, <1>9, <2>2
  <2> QED
    BY <1>1, <2>1, <2>2, <2>3 DEF FollowsReference
<1>11. CASE phase # LastPhase(activeWidth)
  <2>1. /\ window' = samples /\ due' = <<>> /\ byte' = <<>> /\ phase' = phase + 1 /\ partial' = samples
        /\ lastWidth' = activeWidth' /\ primed' /\ activeWidth' = activeWidth
    BY <1>1, <1>6, <1>7, <1>8, <1>11
  <2>2. /\ phase' <= LastPhase(activeWidth') /\ 2 * phase' = Len(samples) /\ phase' \in 0 .. 3
        /\ 2 * phase' <= Len(samples)
    BY <1>1, <1>2, <1>5, <1>9, <1>11, <2>1
  <2>3. SubSeq(samples, 1, Len(samples)) = samples
    BY <1>5
  <2> QED
    BY <1>1, <1>5, <2>1, <2>2, <2>3 DEF FollowsReference
<1> QED
  BY <1>10, <1>11

LEMMA TraceEdgeStep ==
  ASSUME CaptureInv, TraceEdge
  PROVE  CaptureInv'
<1>1. CaptureType /\ HoldsTheLastEdge /\ FollowsReference /\ MixturesAreNew
  BY DEF CaptureInv
<1>2. rise' \in Stamp /\ fall' \in Stamp /\ now' \in Stamp /\ HoldsTheLastEdge'
  BY <1>1, SampleStep DEF TraceEdge
<1>3. /\ FollowsReference'
      /\ partial' \in Seq(Stamp) /\ phase' \in 0 .. 3 /\ activeWidth' \in 0 .. 2
      /\ primed' \in BOOLEAN /\ lastWidth' \in {0, 1, 2, 7}
      /\ primed' => activeWidth' = format_s
      /\ byte' # <<>> => primed /\ activeWidth = format_s
  <2>1. CASE Disabled
    <3>1. window' = <<>> /\ due' = <<>> /\ lastWidth' = 7
      BY <2>1 DEF TraceEdge, Reference, Disabled
    <3>2. primed' = FALSE /\ byte' = <<>> /\ UNCHANGED <<partial, activeWidth>> /\ phase' = 0
      BY <2>1 DEF Disabled
    <3>3. FollowsReference' /\ primed' \in BOOLEAN
      BY <3>1, <3>2 DEF FollowsReference
    <3>4. partial' \in Seq(Stamp) /\ phase' \in 0 .. 3 /\ activeWidth' \in 0 .. 2
      BY <1>1, <3>2 DEF CaptureType
    <3> QED
      BY <3>1, <3>2, <3>3, <3>4
  <2>2. CASE Prime
    <3>1. /\ format_s \in 0 .. 2 /\ format_s # 7 /\ format_s # lastWidth /\ Enable
      BY <1>1, <2>2 DEF Prime, Enable, CaptureType, FollowsReference
    <3>2. window' = <<>> /\ due' = <<>> /\ lastWidth' = format_s
      BY <3>1 DEF TraceEdge, Reference
    <3>3. /\ <<>> \in Seq(Stamp) /\ Len(<<>>) = 0 /\ SubSeq(<<>>, 1, 2 * 0) = <<>>
          /\ 0 <= LastPhase(format_s)
      BY <3>1, EmptySeq DEF LastPhase
    <3>4. primed' = TRUE /\ activeWidth' = format_s /\ phase' = 0 /\ partial' = <<>> /\ byte' = <<>>
      BY <2>2 DEF Prime
    <3>5. FollowsReference'
      BY <3>2, <3>3, <3>4 DEF FollowsReference
    <3> QED
      BY <3>1, <3>2, <3>3, <3>4, <3>5
  <2>3. CASE Shift
    <3>1. primed /\ activeWidth = format_s /\ activeWidth' = activeWidth
      BY <2>3 DEF Shift
    <3> QED
      BY <1>1, <2>3, <3>1, ShiftFollows DEF TraceEdge
  <2> QED
    BY <2>1, <2>2, <2>3 DEF TraceEdge
<1>4. /\ format_m' \in Between(formatBefore, trace_format) /\ format_s' = format_m
      /\ mixed_m' = (format_m' \notin {formatBefore, trace_format}) /\ mixed_s' = mixed_m
      /\ widthMixed' = mixed_s
      /\ formatBefore' = trace_format /\ trace_format' = trace_format
  BY DEF TraceEdge, Synchronise
<1>5. CaptureType'
  <2>1. format_m' \in 0 .. 7
    BY <1>4 DEF Between
  <2> QED
    BY <1>1, <1>2, <1>3, <1>4, <2>1 DEF CaptureType
<1>6. mixed_m' => format_m' # format_s'
  <2>1. CASE formatBefore = trace_format
    <3>1. format_m' = trace_format
      BY <1>1, <1>4, <2>1, NothingBetween DEF CaptureType
    <3> QED
      BY <1>4, <3>1
  <2>2. CASE formatBefore # trace_format
    BY <1>1, <1>4, <2>2 DEF MixturesAreNew
  <2> QED
    BY <2>1, <2>2
<1>7. MixturesAreNew'
  <2>1. mixed_s' /\ primed' => format_s' # activeWidth'
    BY <1>1, <1>3, <1>4 DEF MixturesAreNew
  <2>2. byte' # <<>> => ~widthMixed'
    BY <1>1, <1>3, <1>4 DEF MixturesAreNew
  <2> QED
    BY <1>4, <1>6, <2>1, <2>2 DEF MixturesAreNew
<1> QED
  BY <1>2, <1>3, <1>5, <1>7 DEF CaptureInv

\* Every step of the input side keeps it: the port stands still in the others.
LEMMA CaptureHolds == Spec => []CaptureInv
<1>1. Init => CaptureInv
  BY InitCapture DEF Init
<1>2. CaptureInv /\ UNCHANGED captureVars => CaptureInv'
  <2> SUFFICES ASSUME CaptureInv, UNCHANGED captureVars PROVE CaptureInv'
    OBVIOUS
  <2>1. CaptureType' /\ MixturesAreNew'
    BY DEF captureVars, registerVars, traceVars, CaptureInv, CaptureType, MixturesAreNew
  <2>2. HoldsTheLastEdge' /\ FollowsReference'
    BY DEF captureVars, registerVars, traceVars, CaptureInv, HoldsTheLastEdge, Enable,
           FollowsReference, LastPhase
  <2> QED
    BY <2>1, <2>2 DEF CaptureInv
<1>3. CaptureInv /\ [Next]_vars => CaptureInv'
  BY <1>2, CommandStep, TraceEdgeStep DEF Next, CaptureNext, vars
<1> QED
  BY <1>1, <1>3, PTL DEF Spec

\* Over every start, stop and change of the format, and whatever mixture of two
\* formats the synchroniser of orbtrace_pl.v lets through, the bytes that
\* orbtrace_ddr_capture.sv makes are those of the reference, and none is made
\* at a width nobody configured.
THEOREM CapturesTheWire == Spec => []BytesOfTheWire
<1>1. CaptureInv => BytesOfTheWire
  BY DEF CaptureInv, FollowsReference, MixturesAreNew, BytesOfTheWire
<1> QED
  BY <1>1, CaptureHolds, PTL

-----------------------------------------------------------------------------
(***************************************************************************)
(* The serial pin                                                          *)
(***************************************************************************)
\* The clock edges of a bit and of half a bit.
Edges == ClockHz \div Baud
Half == Edges \div 2
LastBit == DataBits + 1

\* The level of bit j of the byte v, k edges after the bit began, and the level
\* d edges before that; the line is high before the first bit.
Level(v, j, k) ==
  IF coding = "nrz" \/ k < Half THEN Frame(v)[j + 1] ELSE 1 - Frame(v)[j + 1]
Past(v, j, k, d) ==
  IF k >= d THEN Level(v, j, k - d)
  ELSE IF j >= 1 THEN Level(v, j - 1, Edges + k - d) ELSE 1

\* k edges into bit j the level lasts l edges more, and n are to follow it.
Held(j, k, l, n) ==
  IF coding = "nrz" THEN l = Edges - k /\ n = LastBit - j
  ELSE IF k < Half THEN l = Half - k /\ n = 2 * (LastBit - j) + 1
  ELSE l = Edges - k /\ n = 2 * (LastBit - j)

\* The target is k edges into bit j of the byte v.
OnWire(v, j, k) ==
  /\ v \in Values /\ j \in 0 .. LastBit /\ k \in 0 .. Edges - 1
  /\ rest \in Seq({0, 1}) /\ Held(j, k, left, Len(rest))
  /\ swo = Level(v, j, k)
  /\ \A x \in 1 .. Len(rest) : rest[x] = Levels(v)[Len(Levels(v)) - Len(rest) + x]

\* The synchroniser has the levels of one and of two edges ago.
AtLine(v, j, k) ==
  OnWire(v, j, k) /\ swo_meta = Past(v, j, k, 1) /\ swo_sync = Past(v, j, k, 2)
High == swo = 1 /\ swo_meta = 1 /\ swo_sync = 1

\* The tick generator's accumulator, in units of the rate.
TickIs(a) == accumulator = Baud * a /\ (tick <=> a < 4)

\* How far the receiver is into its bit, in quarters of an edge: the quarters it
\* has counted, and the one whose tick is just there.
Quarters(q) ==
  IF q = 0 THEN 0 ELSE IF q = 1 THEN Edges ELSE IF q = 2 THEN 2 * Edges ELSE 3 * Edges
Progress(q, a) == Quarters(q) + a + (IF a < 4 THEN Edges ELSE 0)

\* p is near k edges: at most two edges behind, less than a quarter bit ahead.
Near(p, k) == 4 * k <= p + 8 /\ p + 9 <= Edges + 4 * k

\* The receiver, p into bit i, keeps abreast of the line, k edges into bit j.
Abreast(i, p, j, k) ==
  \/ i = j /\ Near(p, k)
  \/ i = j + 1 /\ Near(p + 4 * Edges, k)
  \/ i + 1 = j /\ Near(p, k + Edges)

\* The quarter at which a bit is taken.
RightQuarter == IF coding = "nrz" THEN 1 ELSE 2

\* What was taken so far is what was sent.
Received(v) ==
  /\ bit_index \in 0 .. LastBit /\ quarter \in 0 .. 3
  /\ bit_index = LastBit => quarter <= RightQuarter
  /\ \A i \in 1 .. DataBits :
       i < bit_index \/ (i = bit_index /\ quarter > RightQuarter) => shift[i] = v[i]
  /\ coding # "nrz" /\ quarter \in {1, 2} => first_half = Frame(v)[bit_index + 1]

\* Nothing is sent; a byte has begun; it is being received; its stop bit goes by.
Waiting ==
  /\ left = 0 /\ rest = <<>> /\ High /\ ~active /\ ~output_valid /\ begun = <<>>
  /\ \E a \in 0 .. Edges - 1 : accumulator = Baud * a /\ (tick => a < 4)
Starting(v, a, k) ==
  AtLine(v, 0, k) /\ k <= 2 /\ TickIs(a) /\ ~active /\ ~output_valid /\ begun = <<v>>
Receiving(v, a, j, k) ==
  /\ AtLine(v, j, k) /\ TickIs(a) /\ active /\ ~output_valid /\ begun = <<v>>
  /\ Abreast(bit_index, Progress(quarter, a), j, k) /\ Received(v)
Ending(v, a, k) ==
  /\ coding = "nrz" /\ AtLine(v, LastBit, k) /\ k >= 2 /\ TickIs(a)
  /\ ~active /\ begun = <<>>
  /\ output_valid => waited \in 0 .. Patience /\ 4 * k <= 2 * Edges + 15 + 4 * waited

AnyPhase ==
  \/ Waiting
  \/ \E v \in Values, a \in 0 .. Edges - 1, k \in 0 .. Edges - 1 :
       \/ Starting(v, a, k)
       \/ Ending(v, a, k)
       \/ \E j \in 0 .. LastBit : Receiving(v, a, j, k)

\* Nothing went wrong so far.
Correct == malformed_count = 0 /\ wrong = FALSE

SwoType ==
  /\ coding \in {"nrz", "manchester"} /\ shift \in [1 .. DataBits -> {0, 1}]
  /\ active \in BOOLEAN /\ output_valid \in BOOLEAN /\ tick \in BOOLEAN
  /\ ~output_valid => waited = 0

\* In Manchester coding the invariant ends with the first byte.
FirstIsOut ==
  /\ coding = "manchester"
  /\ earlier \/ (output_valid /\ Correct /\ Len(begun) <= 1)

SwoInv == FirstIsOut \/ (SwoType /\ Correct /\ AnyPhase)

-----------------------------------------------------------------------------
LEMMA EdgesAre ==
  /\ Edges \in Nat /\ Half \in Nat /\ Edges = 2 * Half /\ Half > 5
  /\ ClockHz = Baud * Edges /\ 2 * (Patience + 4) <= Edges
  /\ Lasts = IF coding = "nrz" THEN Edges ELSE Half
<1> DEFINE q == ClockHz \div (2 * Baud)
<1>1. Baud \in Nat /\ Baud > 0 /\ ClockHz \in Nat /\ ClockHz % (2 * Baud) = 0 /\ ClockHz > 10 * Baud
  BY SwoAssumption
<1>2. \A c \in Nat, d \in Nat : d > 0 => c \div d \in Nat /\ c = d * (c \div d) + (c % d)
  OBVIOUS
<1>3. q \in Nat /\ ClockHz = (2 * Baud) * q
  BY <1>1, <1>2
<1> HIDE DEF q
<1>4. \A d, n \in Nat : d > 0 => (d * n) \div d = n
  OBVIOUS
<1>5. \A d, n \in Nat : (2 * d) * n = d * (2 * n)
  OBVIOUS
<1>6. ClockHz = Baud * (2 * q) /\ 2 * q \in Nat
  BY <1>1, <1>3, <1>5
<1>7. Edges = 2 * q
  BY <1>1, <1>4, <1>6 DEF Edges
<1>8. Half = q
  BY <1>3, <1>7 DEF Half
<1>9. \A d, m, n \in Nat : d > 0 /\ d * m > d * n => m > n
  OBVIOUS
<1>10. 10 * Baud = Baud * 10
  BY <1>1
<1>11. 2 * q > 10
  BY <1>1, <1>6, <1>9, <1>10
<1> QED
  BY <1>3, <1>6, <1>7, <1>8, <1>11, PatienceAssumption DEF Edges, Half, Lasts

\* A name keeps the concatenation out of the provers' sight.
Followed(s, t) == s \o t

LEMMA FollowedIs ==
  ASSUME NEW S, NEW s \in Seq(S), NEW t \in Seq(S)
  PROVE  /\ Followed(s, t) \in Seq(S) /\ Len(Followed(s, t)) = Len(s) + Len(t)
         /\ \A i \in 1 .. Len(s) + Len(t) :
              Followed(s, t)[i] = IF i <= Len(s) THEN s[i] ELSE t[i - Len(s)]
BY ConcatProperties DEF Followed

\* The levels of a pin.
PinLevels == {0, 1}

LEMMA FrameIs ==
  ASSUME NEW v \in Values
  PROVE  /\ Frame(v) \in Seq({0, 1}) /\ Len(Frame(v)) = DataBits + 2
         /\ Frame(v)[1] = 0 /\ Frame(v)[DataBits + 2] = 1
         /\ \A i \in 1 .. DataBits : Frame(v)[i + 1] = v[i]
         /\ \A i \in 1 .. DataBits + 2 : Frame(v)[i] \in {0, 1}
<1> DEFINE begin == <<0>>
           end == <<1>>
           most == Followed(begin, v)
<1>1. v \in Seq(PinLevels) /\ Len(v) = DataBits /\ DataBits \in Nat /\ DataBits > 0
  BY SwoAssumption DEF Values, PinLevels
<1>2. /\ begin \in Seq(PinLevels) /\ Len(begin) = 1 /\ begin[1] = 0
      /\ end \in Seq(PinLevels) /\ Len(end) = 1 /\ end[1] = 1
  BY DEF PinLevels
<1>3. Frame(v) = Followed(most, end)
  BY DEF Frame, Followed
<1> HIDE DEF begin, end
<1>4. /\ most \in Seq(PinLevels) /\ Len(most) = 1 + DataBits
      /\ \A i \in 1 .. 1 + DataBits : most[i] = IF i <= 1 THEN begin[i] ELSE v[i - 1]
  <2>1. begin \in Seq(PinLevels) /\ v \in Seq(PinLevels)
    BY <1>1, <1>2
  <2>2. /\ most \in Seq(PinLevels) /\ Len(most) = Len(begin) + Len(v)
        /\ \A i \in 1 .. Len(begin) + Len(v) :
             most[i] = IF i <= Len(begin) THEN begin[i] ELSE v[i - Len(begin)]
    BY <2>1, FollowedIs
  <2> HIDE DEF most
  <2> QED
    BY <1>1, <1>2, <2>2
<1> HIDE DEF most
<1>5. /\ most \in Seq(PinLevels) /\ Len(most) = DataBits + 1 /\ DataBits + 1 \in Nat
      /\ \A i \in 1 .. DataBits + 1 : most[i] = IF i <= 1 THEN begin[i] ELSE v[i - 1]
  BY <1>1, <1>4
<1>6. /\ Frame(v) \in Seq(PinLevels) /\ Len(Frame(v)) = (DataBits + 1) + 1
      /\ \A i \in 1 .. (DataBits + 1) + 1 :
           Frame(v)[i] = IF i <= DataBits + 1 THEN most[i] ELSE end[i - (DataBits + 1)]
  <2>1. most \in Seq(PinLevels) /\ end \in Seq(PinLevels)
    BY <1>2, <1>5
  <2>2. /\ Frame(v) \in Seq(PinLevels) /\ Len(Frame(v)) = Len(most) + Len(end)
        /\ \A i \in 1 .. Len(most) + Len(end) :
             Frame(v)[i] = IF i <= Len(most) THEN most[i] ELSE end[i - Len(most)]
    BY <1>3, <2>1, FollowedIs
  <2> QED
    BY <1>2, <1>5, <2>2
<1>7. /\ Frame(v) \in Seq(PinLevels) /\ Len(Frame(v)) = DataBits + 2
      /\ \A i \in 1 .. DataBits + 2 :
           Frame(v)[i] = IF i <= DataBits + 1 THEN most[i] ELSE end[i - (DataBits + 1)]
  BY <1>1, <1>6
<1>8. Frame(v)[1] = 0 /\ Frame(v)[DataBits + 2] = 1
  BY <1>1, <1>2, <1>5, <1>7
<1>9. \A i \in 1 .. DataBits : Frame(v)[i + 1] = v[i]
  BY <1>1, <1>5, <1>7
<1>10. \A i \in 1 .. DataBits + 2 : Frame(v)[i] \in PinLevels
  BY <1>7, ElementOfSeq
<1> QED
  BY <1>7, <1>8, <1>9, <1>10 DEF PinLevels

LEMMA LevelsAre ==
  ASSUME NEW v \in Values, coding \in {"nrz", "manchester"}
  PROVE  /\ Levels(v) \in Seq({0, 1})
         /\ Len(Levels(v)) = IF coding = "nrz" THEN LastBit + 1 ELSE 2 * (LastBit + 1)
         /\ \A j \in 0 .. LastBit :
              IF coding = "nrz" THEN Levels(v)[j + 1] = Frame(v)[j + 1]
              ELSE Levels(v)[2 * j + 1] = Frame(v)[j + 1] /\ Levels(v)[2 * j + 2] = 1 - Frame(v)[j + 1]
<1>1. DataBits \in Nat
  BY SwoAssumption
<1>2. CASE coding = "nrz"
  BY <1>1, <1>2, FrameIs DEF Levels, LastBit
<1>3. CASE coding = "manchester"
  <2> DEFINE f(k) == LET bit == Frame(v)[(k + 1) \div 2] IN IF k % 2 = 1 THEN bit ELSE 1 - bit
             n == 2 * (DataBits + 2)
  <2>1. Levels(v) = [k \in 1 .. n |-> f(k)]
    BY <1>3 DEF Levels
  <2>2. ASSUME NEW k \in 1 .. n PROVE f(k) \in {0, 1}
    <3>1. (k + 1) \div 2 \in 1 .. DataBits + 2
      BY <1>1
    <3>2. Frame(v)[(k + 1) \div 2] \in {0, 1}
      BY <3>1, FrameIs
    <3> QED
      BY <3>2
  <2>3. \A j \in 0 .. LastBit : /\ (2 * j + 1 + 1) \div 2 = j + 1 /\ (2 * j + 1) % 2 = 1
                                /\ (2 * j + 2 + 1) \div 2 = j + 1 /\ (2 * j + 2) % 2 = 0
                                /\ 2 * j + 1 \in 1 .. n /\ 2 * j + 2 \in 1 .. n
    BY <1>1 DEF LastBit
  <2>4. \A j \in 0 .. LastBit : f(2 * j + 1) = Frame(v)[j + 1] /\ f(2 * j + 2) = 1 - Frame(v)[j + 1]
    BY <2>3
  <2> HIDE DEF f
  <2>5. n \in Nat /\ n = 2 * (LastBit + 1)
    BY <1>1 DEF LastBit
  <2> HIDE DEF n
  <2>6. Levels(v) \in [1 .. n -> {0, 1}]
    BY <2>1, <2>2
  <2>7. Levels(v) \in Seq({0, 1}) /\ Len(Levels(v)) = n
    BY <2>5, <2>6
  <2>8. \A j \in 0 .. LastBit :
          Levels(v)[2 * j + 1] = Frame(v)[j + 1] /\ Levels(v)[2 * j + 2] = 1 - Frame(v)[j + 1]
    BY <2>1, <2>3, <2>4
  <2> QED
    BY <1>3, <2>5, <2>7, <2>8
<1> QED
  BY <1>2, <1>3

LEMMA SizesAre ==
  /\ LastBit \in Nat /\ LastBit = DataBits + 1 /\ DataBits \in Nat /\ DataBits > 0
  /\ Edges \in Nat /\ Half \in Nat /\ Edges = 2 * Half /\ Half > 5
BY EdgesAre, SwoAssumption DEF LastBit

\* How the level is held from one edge to the next.
LEMMA HeldOn ==
  ASSUME NEW j \in 0 .. LastBit, NEW k \in 0 .. Edges - 1, NEW l, NEW n, Held(j, k, l, n)
  PROVE  /\ l \in Nat /\ n \in Nat
         /\ l > 1 => /\ k < Edges - 1 /\ Held(j, k + 1, l - 1, n)
                     /\ coding # "nrz" => (k < Half <=> k + 1 < Half)
         /\ l <= 1 /\ n > 0 => \/ k < Edges - 1 /\ Held(j, k + 1, Lasts, n - 1)
                               \/ k = Edges - 1 /\ j < LastBit /\ Held(j + 1, 0, Lasts, n - 1)
         /\ l <= 1 /\ n = 0 => k = Edges - 1 /\ j = LastBit
<1>1. Lasts = IF coding = "nrz" THEN Edges ELSE Half
  BY EdgesAre
<1>2. CASE coding = "nrz"
  BY <1>1, <1>2, SizesAre DEF Held
<1>3. CASE coding # "nrz" /\ k < Half
  BY <1>1, <1>3, SizesAre DEF Held
<1>4. CASE coding # "nrz" /\ ~(k < Half)
  BY <1>1, <1>4, SizesAre DEF Held
<1> QED
  BY <1>2, <1>3, <1>4

\* The level held is the one that is to be held.
LEMMA LevelHeld ==
  ASSUME coding \in {"nrz", "manchester"}, NEW v \in Values,
         NEW j \in 0 .. LastBit, NEW k \in 0 .. Edges - 1, NEW l, NEW n, Held(j, k, l, n)
  PROVE  Levels(v)[Len(Levels(v)) - n] = Level(v, j, k) /\ Len(Levels(v)) \in Nat
<1>1. CASE coding = "nrz"
  <2>1. Len(Levels(v)) = LastBit + 1 /\ n = LastBit - j
    BY <1>1, LevelsAre DEF Held
  <2>2. Len(Levels(v)) - n = j + 1 /\ LastBit + 1 \in Nat
    BY <2>1, SizesAre
  <2> QED
    BY <1>1, <2>1, <2>2, LevelsAre DEF Level
<1>2. CASE coding = "manchester" /\ k < Half
  <2>1. Len(Levels(v)) = 2 * (LastBit + 1) /\ n = 2 * (LastBit - j) + 1
    BY <1>2, LevelsAre DEF Held
  <2>2. Len(Levels(v)) - n = 2 * j + 1 /\ 2 * (LastBit + 1) \in Nat
    BY <2>1, SizesAre
  <2> QED
    BY <1>2, <2>1, <2>2, LevelsAre DEF Level
<1>3. CASE coding = "manchester" /\ ~(k < Half)
  <2>1. Len(Levels(v)) = 2 * (LastBit + 1) /\ n = 2 * (LastBit - j)
    BY <1>3, LevelsAre DEF Held
  <2>2. Len(Levels(v)) - n = 2 * j + 2 /\ 2 * (LastBit + 1) \in Nat
    BY <2>1, SizesAre
  <2> QED
    BY <1>3, <2>1, <2>2, LevelsAre DEF Level
<1> QED
  BY <1>1, <1>2, <1>3

LEMMA LineIsKept ==
  ASSUME UNCHANGED coding
  PROVE  /\ \A v, j, k : Level(v, j, k)' = Level(v, j, k)
         /\ \A v, j, k, d : Past(v, j, k, d)' = Past(v, j, k, d)
         /\ \A v : Levels(v)' = Levels(v)
         /\ \A j, k, l, n : Held(j, k, l, n)' <=> Held(j, k, l, n)
BY DEF Level, Past, Levels, Held

\* What is on the wire after a step.
LEMMA OnWireIs ==
  ASSUME UNCHANGED coding, NEW v \in Values, NEW j \in 0 .. LastBit, NEW k \in 0 .. Edges - 1,
         rest' \in Seq({0, 1}), Held(j, k, left', Len(rest')), swo' = Level(v, j, k),
         \A x \in 1 .. Len(rest') : rest'[x] = Levels(v)[Len(Levels(v)) - Len(rest') + x]
  PROVE  OnWire(v, j, k)'
<1>1. Level(v, j, k)' = Level(v, j, k) /\ Levels(v)' = Levels(v)
      /\ (Held(j, k, left, Len(rest))' <=> Held(j, k, left', Len(rest')))
  BY DEF Level, Levels, Held
<1> QED
  BY <1>1 DEF OnWire

\* The wire carries the levels of the byte, each for its time.
LEMMA WireGoesOn ==
  ASSUME coding \in {"nrz", "manchester"}, UNCHANGED coding, NEW v, NEW j, NEW k,
         OnWire(v, j, k), SendOn
  PROVE  \/ k < Edges - 1 /\ OnWire(v, j, k + 1)'
         \/ k = Edges - 1 /\ j < LastBit /\ OnWire(v, j + 1, 0)'
         \/ k = Edges - 1 /\ j = LastBit /\ left' = 0 /\ rest' = <<>> /\ swo' = 1
<1>1. /\ v \in Values /\ j \in 0 .. LastBit /\ k \in 0 .. Edges - 1
      /\ rest \in Seq({0, 1}) /\ Held(j, k, left, Len(rest)) /\ swo = Level(v, j, k)
      /\ \A x \in 1 .. Len(rest) : rest[x] = Levels(v)[Len(Levels(v)) - Len(rest) + x]
  BY DEF OnWire
<1>2. left \in Nat /\ Len(rest) \in Nat /\ Len(Levels(v)) \in Nat
  BY <1>1, HeldOn, LevelHeld
<1>3. ASSUME left > 1 PROVE k < Edges - 1 /\ OnWire(v, j, k + 1)'
  <2>1. left' = left - 1 /\ swo' = swo /\ rest' = rest
    BY <1>2, <1>3 DEF SendOn
  <2>2. /\ k < Edges - 1 /\ Held(j, k + 1, left - 1, Len(rest))
        /\ coding # "nrz" => (k < Half <=> k + 1 < Half)
    BY <1>1, <1>3, HeldOn
  <2>3. k + 1 \in 0 .. Edges - 1 /\ Level(v, j, k + 1) = Level(v, j, k)
    BY <1>1, <2>2, SizesAre DEF Level
  <2> QED
    BY <1>1, <2>1, <2>2, <2>3, OnWireIs
<1>4. ASSUME left <= 1, rest # <<>>
      PROVE  \/ k < Edges - 1 /\ OnWire(v, j, k + 1)'
             \/ k = Edges - 1 /\ j < LastBit /\ OnWire(v, j + 1, 0)'
  <2>1. swo' = Head(rest) /\ rest' = Tail(rest) /\ left' = Lasts
    BY <1>2, <1>4 DEF SendOn
  <2>2. /\ rest' \in Seq({0, 1}) /\ Len(rest) > 0 /\ Len(rest') = Len(rest) - 1
        /\ \A x \in 1 .. Len(rest') : rest'[x] = rest[x + 1]
        /\ swo' = rest[1]
    BY <1>1, <1>4, <2>1, HeadTailProperties, EmptySeq
  <2>3. swo' = Levels(v)[Len(Levels(v)) - Len(rest')]
    <3>1. rest[1] = Levels(v)[Len(Levels(v)) - Len(rest) + 1]
      BY <1>1, <1>2, <2>2
    <3>2. Len(Levels(v)) - Len(rest) + 1 = Len(Levels(v)) - Len(rest')
      BY <1>2, <2>2
    <3> QED
      BY <2>2, <3>1, <3>2
  <2>4. ASSUME NEW x \in 1 .. Len(rest')
        PROVE  rest'[x] = Levels(v)[Len(Levels(v)) - Len(rest') + x]
    <3>1. x + 1 \in 1 .. Len(rest)
          /\ Len(Levels(v)) - Len(rest) + (x + 1) = Len(Levels(v)) - Len(rest') + x
      BY <1>2, <2>2
    <3> QED
      BY <1>1, <2>2, <3>1
  <2>5. \/ k < Edges - 1 /\ Held(j, k + 1, left', Len(rest'))
        \/ k = Edges - 1 /\ j < LastBit /\ Held(j + 1, 0, left', Len(rest'))
    BY <1>1, <1>4, <2>1, <2>2, HeldOn
  <2>6. CASE k < Edges - 1 /\ Held(j, k + 1, left', Len(rest'))
    <3>1. k + 1 \in 0 .. Edges - 1
      BY <1>1, <2>6, SizesAre
    <3>2. swo' = Level(v, j, k + 1)
      BY <1>1, <2>3, <2>6, <3>1, LevelHeld
    <3> QED
      BY <1>1, <2>2, <2>4, <2>6, <3>1, <3>2, OnWireIs
  <2>7. CASE k = Edges - 1 /\ j < LastBit /\ Held(j + 1, 0, left', Len(rest'))
    <3>1. j + 1 \in 0 .. LastBit /\ 0 \in 0 .. Edges - 1
      BY <1>1, <2>7, SizesAre
    <3>2. swo' = Level(v, j + 1, 0)
      BY <1>1, <2>3, <2>7, <3>1, LevelHeld
    <3> QED
      BY <1>1, <2>2, <2>4, <2>7, <3>1, <3>2, OnWireIs
  <2> QED
    BY <2>5, <2>6, <2>7
<1>5. ASSUME left <= 1, rest = <<>>
      PROVE  k = Edges - 1 /\ j = LastBit /\ left' = 0 /\ rest' = <<>> /\ swo' = 1
  <2>1. Len(rest) = 0
    BY <1>5, EmptySeq
  <2>2. left' = 0 /\ rest' = <<>> /\ swo' = 1
    BY <1>2, <1>5 DEF SendOn
  <2> QED
    BY <1>1, <1>5, <2>1, <2>2, HeldOn
<1> QED
  BY <1>2, <1>3, <1>4, <1>5

\* A byte begins with the level of its start bit, on an idle wire only.
LEMMA WireBegins ==
  ASSUME coding \in {"nrz", "manchester"}, UNCHANGED coding, NEW v \in Values, SendByte(v)
  PROVE  OnWire(v, 0, 0)'
<1>1. /\ Levels(v) \in Seq({0, 1})
      /\ Len(Levels(v)) = IF coding = "nrz" THEN LastBit + 1 ELSE 2 * (LastBit + 1)
  BY LevelsAre
<1> DEFINE levels == Levels(v)
<1>2. swo' = Head(levels) /\ rest' = Tail(levels) /\ left' = Lasts
  BY DEF SendByte
<1> HIDE DEF levels
<1>3. levels \in Seq({0, 1}) /\ Len(levels) \in Nat /\ Len(levels) > 0
      /\ Len(levels) = IF coding = "nrz" THEN LastBit + 1 ELSE 2 * (LastBit + 1)
  BY <1>1, SizesAre DEF levels
<1>4. /\ rest' \in Seq({0, 1}) /\ Len(rest') = Len(levels) - 1
      /\ \A x \in 1 .. Len(rest') : rest'[x] = levels[x + 1]
      /\ swo' = levels[1]
  BY <1>2, <1>3, HeadTailProperties, EmptySeq
<1>5. 0 \in 0 .. LastBit /\ 0 \in 0 .. Edges - 1 /\ Held(0, 0, left', Len(rest'))
  BY <1>2, <1>3, <1>4, SizesAre, EdgesAre DEF Held
<1>6. levels[Len(levels) - Len(rest')] = Level(v, 0, 0)
  BY <1>5, LevelHeld DEF levels
<1>7. Len(levels) - Len(rest') = 1
  BY <1>3, <1>4
<1>8. \A x \in 1 .. Len(rest') : rest'[x] = levels[Len(levels) - Len(rest') + x]
  <2>1. ASSUME NEW x \in 1 .. Len(rest') PROVE Len(levels) - Len(rest') + x = x + 1
    BY <1>3, <1>4
  <2> QED
    BY <1>4, <2>1
<1> QED
  BY <1>4, <1>5, <1>6, <1>7, <1>8, OnWireIs DEF levels

LEMMA NoneBegins ==
  ASSUME NEW v, NEW j, NEW k, OnWire(v, j, k), NEW w, SendByte(w)
  PROVE  k = Edges - 1 /\ j = LastBit
<1>1. left <= 1 /\ Len(rest) = 0
  BY EmptySeq DEF SendByte
<1> QED
  BY <1>1, HeldOn DEF OnWire

\* The levels are seen two edges late.
LEMMA PastOn ==
  ASSUME NEW v, NEW j \in 0 .. LastBit, NEW k \in 0 .. Edges - 1
  PROVE  /\ Past(v, j, k + 1, 1) = Level(v, j, k) /\ Past(v, j, k + 1, 2) = Past(v, j, k, 1)
         /\ Past(v, j + 1, 0, 1) = Level(v, j, Edges - 1)
         /\ Past(v, j + 1, 0, 2) = Past(v, j, Edges - 1, 1)
<1>1. /\ k + 1 >= 1 /\ k + 1 - 1 = k /\ (k + 1 >= 2 <=> k >= 1) /\ k + 1 - 2 = k - 1
      /\ Edges + (k + 1) - 2 = Edges + k - 1 /\ ~(0 >= 1) /\ ~(0 >= 2) /\ j + 1 >= 1 /\ j + 1 - 1 = j
      /\ Edges + 0 - 1 = Edges - 1 /\ Edges + 0 - 2 = Edges - 1 - 1 /\ Edges - 1 >= 1
  BY SizesAre
<1> QED
  BY <1>1 DEF Past

LEMMA LineGoesOn ==
  ASSUME coding \in {"nrz", "manchester"}, UNCHANGED coding, NEW v, NEW j, NEW k,
         AtLine(v, j, k), SendOn, swo_meta' = swo, swo_sync' = swo_meta
  PROVE  \/ k < Edges - 1 /\ AtLine(v, j, k + 1)'
         \/ k = Edges - 1 /\ j < LastBit /\ AtLine(v, j + 1, 0)'
         \/ k = Edges - 1 /\ j = LastBit /\ left' = 0 /\ rest' = <<>> /\ swo' = 1
<1>1. /\ OnWire(v, j, k) /\ j \in 0 .. LastBit /\ k \in 0 .. Edges - 1
      /\ swo = Level(v, j, k) /\ swo_meta = Past(v, j, k, 1)
  BY DEF AtLine, OnWire
<1>2. \A x, y, d : Past(v, x, y, d)' = Past(v, x, y, d)
  BY LineIsKept
<1>3. /\ swo_meta' = Past(v, j, k + 1, 1) /\ swo_sync' = Past(v, j, k + 1, 2)
      /\ k = Edges - 1 => swo_meta' = Past(v, j + 1, 0, 1) /\ swo_sync' = Past(v, j + 1, 0, 2)
  BY <1>1, PastOn
<1>4. CASE k < Edges - 1 /\ OnWire(v, j, k + 1)'
  BY <1>2, <1>3, <1>4 DEF AtLine
<1>5. CASE k = Edges - 1 /\ j < LastBit /\ OnWire(v, j + 1, 0)'
  BY <1>2, <1>3, <1>5 DEF AtLine
<1> QED
  BY <1>1, <1>4, <1>5, WireGoesOn

LEMMA LineBegins ==
  ASSUME coding \in {"nrz", "manchester"}, UNCHANGED coding, NEW v \in Values, SendByte(v),
         swo = 1, swo_meta = 1, swo_meta' = swo, swo_sync' = swo_meta
  PROVE  AtLine(v, 0, 0)'
<1>1. Past(v, 0, 0, 1)' = 1 /\ Past(v, 0, 0, 2)' = 1
  BY DEF Past
<1> QED
  BY <1>1, WireBegins DEF AtLine

\* From each edge to the next the tick's phase goes on by four.
LEMMA TickGoesOn ==
  ASSUME NEW a \in 0 .. Edges - 1, accumulator = Baud * a, BaudTick
  PROVE  \E b \in 0 .. Edges - 1 :
           /\ TickIs(b)' /\ tick' \in BOOLEAN
           /\ b = IF a + 4 >= Edges THEN (a + 4) - Edges ELSE a + 4
<1>1. Baud \in Nat /\ Baud > 0 /\ Edges \in Nat /\ a \in Nat /\ Edges > 10 /\ ClockHz = Baud * Edges
  BY SizesAre, EdgesAre, SwoAssumption
<1>2. NextAccumulator = Baud * (a + 4)
  <2>1. \A c, x \in Nat : c * x + 4 * c = c * (x + 4)
    OBVIOUS
  <2> QED
    BY <1>1, <2>1 DEF NextAccumulator
<1>3. NextAccumulator >= ClockHz <=> a + 4 >= Edges
  <2>1. \A c, x, y \in Nat : c > 0 => (c * x >= c * y <=> x >= y)
    OBVIOUS
  <2> QED
    BY <1>1, <1>2, <2>1
<1>4. (tick' <=> a + 4 >= Edges) /\ tick' \in BOOLEAN
  <2>1. NextAccumulator \in Nat /\ ClockHz \in Nat
    BY <1>1, <1>2
  <2>2. tick' = (NextAccumulator >= ClockHz)
    BY DEF BaudTick
  <2>3. (tick' <=> NextAccumulator >= ClockHz) /\ tick' \in BOOLEAN
    <3>1. tick' <=> NextAccumulator >= ClockHz
      BY <2>1, <2>2
    <3>2. tick' \in BOOLEAN
      BY <2>1, <2>2
    <3> QED
      BY <3>1, <3>2
  <2> QED
    BY <1>3, <2>3
<1>5. CASE a + 4 >= Edges
  <2>1. \A c, x, y \in Nat : x >= y => c * x - c * y = c * (x - y)
    OBVIOUS
  <2>2. accumulator' = Baud * ((a + 4) - Edges)
    <3>1. accumulator' = NextAccumulator - ClockHz
      BY <1>4, <1>5 DEF BaudTick
    <3>2. Baud * (a + 4) - Baud * Edges = Baud * ((a + 4) - Edges)
      BY <1>1, <1>5, <2>1
    <3> QED
      BY <1>1, <1>2, <3>1, <3>2
  <2>3. (a + 4) - Edges \in 0 .. Edges - 1 /\ (a + 4) - Edges < 4
    BY <1>1, <1>5
  <2> QED
    BY <1>4, <1>5, <2>2, <2>3 DEF TickIs
<1>6. CASE ~(a + 4 >= Edges)
  <2>1. accumulator' = Baud * (a + 4)
    BY <1>2, <1>4, <1>6 DEF BaudTick
  <2>2. a + 4 \in 0 .. Edges - 1 /\ ~(a + 4 < 4)
    BY <1>1, <1>6
  <2>3. ~tick' /\ tick' \in BOOLEAN
    BY <1>4, <1>6
  <2>4. TickIs(a + 4)' /\ tick' \in BOOLEAN
    BY <2>1, <2>2, <2>3 DEF TickIs
  <2> QED
    BY <1>6, <2>2, <2>4
<1> QED
  BY <1>5, <1>6

\* The line and the receiver go on by an edge; a bit of the line ends, or one of
\* the receiver.
LEMMA AbreastOn ==
  ASSUME NEW i \in Nat, NEW p \in Nat, NEW j \in Nat, NEW k \in 0 .. Edges - 1,
         Abreast(i, p, j, k), p <= 4 * Edges + 3
  PROVE  /\ k < Edges - 1 => Abreast(i, p + 4, j, k + 1)
         /\ k = Edges - 1 => Abreast(i, p + 4, j + 1, 0)
<1>1. Edges \in Nat /\ Edges > 10
  BY SizesAre
<1>2. CASE i = j /\ Near(p, k)
  BY <1>1, <1>2 DEF Abreast, Near
<1>3. CASE i = j + 1 /\ Near(p + 4 * Edges, k)
  BY <1>1, <1>3 DEF Abreast, Near
<1>4. CASE i + 1 = j /\ Near(p, k + Edges)
  BY <1>1, <1>4 DEF Abreast, Near
<1> QED
  BY <1>2, <1>3, <1>4 DEF Abreast

LEMMA AbreastWraps ==
  ASSUME NEW i \in Nat, NEW p \in Nat, NEW j \in Nat, NEW k \in 0 .. Edges - 1,
         Abreast(i, p, j, k), p >= 4 * Edges
  PROVE  Abreast(i + 1, p - 4 * Edges, j, k)
<1>1. Edges \in Nat /\ Edges > 10
  BY SizesAre
<1>2. CASE i = j /\ Near(p, k)
  BY <1>1, <1>2 DEF Abreast, Near
<1>3. CASE i = j + 1 /\ Near(p + 4 * Edges, k)
  BY <1>1, <1>3 DEF Abreast, Near
<1>4. CASE i + 1 = j /\ Near(p, k + Edges)
  BY <1>1, <1>4 DEF Abreast, Near
<1> QED
  BY <1>2, <1>3, <1>4 DEF Abreast

\* How far the receiver gets at an edge.
LEMMA ProgressOn ==
  ASSUME NEW q \in 0 .. 3, NEW a \in 0 .. Edges - 1, NEW b,
         b = IF a + 4 >= Edges THEN (a + 4) - Edges ELSE a + 4
  PROVE  /\ Progress(q, a) \in Nat /\ Progress(q, a) <= 4 * Edges + 3
         /\ a >= 4 => Progress(q, b) = Progress(q, a) + 4
         /\ a < 4 /\ q < 3 => Progress(q + 1, b) = Progress(q, a) + 4
         /\ a < 4 /\ q = 3 => /\ Progress(q, a) + 4 >= 4 * Edges
                            /\ Progress(0, b) = (Progress(q, a) + 4) - 4 * Edges
<1>1. Edges \in Nat /\ Edges > 10
  BY SizesAre
<1>2. CASE q = 0
  BY <1>1, <1>2 DEF Progress, Quarters
<1>3. CASE q = 1
  BY <1>1, <1>3 DEF Progress, Quarters
<1>4. CASE q = 2
  BY <1>1, <1>4 DEF Progress, Quarters
<1>5. CASE q = 3
  BY <1>1, <1>5 DEF Progress, Quarters
<1> QED
  BY <1>2, <1>3, <1>4, <1>5

\* When a quarter that matters ends, the level seen is that of the receiver's bit.
LEMMA SeenIs ==
  ASSUME coding \in {"nrz", "manchester"}, NEW v, NEW a \in 0 .. 3, NEW i \in Nat,
         NEW j, NEW k, AtLine(v, j, k), NEW q \in 0 .. 2,
         Abreast(i, Quarters(q) + a + Edges, j, k)
  PROVE  /\ q = 1 /\ coding = "nrz" => i = j /\ k < Edges - 1 /\ k >= 2 /\ swo_sync = Frame(v)[i + 1]
                                        /\ 4 * k <= 2 * Edges + 11
         /\ q = 0 => i = j /\ swo_sync = Frame(v)[i + 1]
         /\ q = 2 /\ coding # "nrz" => i = j /\ swo_sync = 1 - Frame(v)[i + 1]
<1>1. /\ Edges \in Nat /\ Half \in Nat /\ Edges = 2 * Half /\ Half > 5
      /\ j \in 0 .. LastBit /\ k \in 0 .. Edges - 1 /\ LastBit \in Nat
  BY SizesAre DEF AtLine, OnWire
<1>2. swo_sync = IF k >= 2 THEN Level(v, j, k - 2)
                 ELSE IF j >= 1 THEN Level(v, j - 1, Edges + k - 2) ELSE 1
  BY DEF AtLine, Past
<1>3. CASE q = 1
  <2>1. i = j /\ k >= 2 /\ 4 * k <= 2 * Edges + 11 /\ k < Edges - 1
    BY <1>1, <1>3 DEF Abreast, Near, Quarters
  <2> QED
    BY <1>2, <1>3, <2>1 DEF Level
<1>4. CASE q = 0
  <2>1. i = j /\ k >= 2 /\ k - 2 < Half
    BY <1>1, <1>4 DEF Abreast, Near, Quarters
  <2> QED
    BY <1>2, <1>4, <2>1 DEF Level
<1>5. CASE q = 2
  <2>1. i = j /\ k >= 2 /\ ~(k - 2 < Half)
    BY <1>1, <1>5 DEF Abreast, Near, Quarters
  <2> QED
    BY <1>2, <1>5, <2>1 DEF Level
<1> QED
  BY <1>3, <1>4, <1>5

\* The line does not end before the receiver has taken the last bit.
LEMMA TakenInTime ==
  ASSUME coding \in {"nrz", "manchester"}, NEW i \in 0 .. LastBit, NEW q \in 0 .. 3,
         NEW a \in 0 .. Edges - 1,
         i = LastBit => q <= RightQuarter,
         Abreast(i, Progress(q, a), LastBit, Edges - 1)
  PROVE  a < 4 /\ i = LastBit /\ q = RightQuarter
<1>1. Edges \in Nat /\ Edges > 10 /\ Edges # 11 /\ LastBit \in Nat
  BY SizesAre
<1>2. i + 1 # LastBit
  <2>1. Progress(q, a) <= 4 * Edges + 3 /\ Progress(q, a) \in Nat
    BY <1>1 DEF Progress, Quarters
  <2> QED
    BY <1>1, <2>1 DEF Abreast, Near
<1>3. i = LastBit /\ Near(Progress(q, a), Edges - 1)
  BY <1>1, <1>2 DEF Abreast
<1>4. q <= 2 /\ (coding = "nrz" => q <= 1) /\ (coding # "nrz" => RightQuarter = 2)
  BY <1>1, <1>3 DEF RightQuarter
<1>5. q = 2 /\ a < 4
  <2>1. CASE q = 0
    BY <1>1, <1>3, <2>1 DEF Near, Progress, Quarters
  <2>2. CASE q = 1
    BY <1>1, <1>3, <2>2 DEF Near, Progress, Quarters
  <2>3. CASE q = 2
    BY <1>1, <1>3, <2>3 DEF Near, Progress, Quarters
  <2> QED
    BY <1>4, <2>1, <2>2, <2>3
<1> QED
  BY <1>3, <1>4, <1>5

\* What the observer makes of an edge: a byte begins or none, and one is out or none.
LEMMA ObserveGoesOn ==
  ASSUME NEW ready, NEW new, Observe(ready, new), output_valid' => output_valid, wrong = FALSE
  PROVE  /\ wrong' = FALSE
         /\ begun = <<>> /\ new = <<>> => begun' = <<>>
         /\ \A w \in Values : begun = <<>> /\ new = <<w>> => begun' = <<w>>
         /\ \A v \in Values : begun = <<v>> /\ new = <<>> => begun' = <<v>>
<1>1. begun' = begun \o new /\ wrong' = FALSE
  BY DEF Observe
<1>2. <<>> \in Seq(Values) /\ \A w \in Values : <<w>> \in Seq(Values)
  OBVIOUS
<1>3. \A t \in Seq(Values) : t \o <<>> = t /\ <<>> \o t = t
  BY ConcatEmptySeq
<1> QED
  BY <1>1, <1>2, <1>3

LEMMA ObserveOut ==
  ASSUME NEW ready, NEW new, Observe(ready, new), output_valid', ~output_valid, wrong = FALSE,
         NEW v \in Values, begun = <<v>>, output_data' = v
  PROVE  /\ wrong' = FALSE /\ waited' = 0
         /\ new = <<>> => begun' = <<>>
         /\ \A w \in Values : new = <<w>> => begun' = <<w>>
<1>1. begun # <<>> /\ Head(begun) = v /\ Tail(begun) = <<>>
  OBVIOUS
<1>2. begun' = Tail(begun) \o new /\ wrong' = FALSE /\ waited' = 0
  BY <1>1 DEF Observe
<1>3. <<>> \in Seq(Values) /\ \A w \in Values : <<w>> \in Seq(Values)
  OBVIOUS
<1>4. \A t \in Seq(Values) : <<>> \o t = t
  BY ConcatEmptySeq
<1> QED
  BY <1>1, <1>2, <1>3, <1>4

LEMMA OutcomeIs ==
  ASSUME bit_index \in 0 .. LastBit, NEW v \in Values, NEW bit, bit = Frame(v)[bit_index + 1]
  PROVE  Outcome(bit) = IF bit_index = 0 THEN "begun"
                        ELSE IF bit_index < LastBit THEN "stored" ELSE "out"
<1>1. LastBit = DataBits + 1 /\ DataBits \in Nat /\ DataBits > 0
  BY SizesAre
<1>2. CASE bit_index = 0
  BY <1>2, FrameIs DEF Outcome
<1>3. CASE bit_index # 0 /\ bit_index < LastBit
  <2>1. bit_index \in 1 .. DataBits
    BY <1>1, <1>3
  <2> QED
    BY <1>3, <2>1 DEF Outcome
<1>4. CASE bit_index = LastBit
  <2>1. bit_index # 0 /\ bit_index \notin 1 .. DataBits /\ bit_index + 1 = DataBits + 2
        /\ ~(bit_index < LastBit)
    BY <1>1, <1>4
  <2>2. bit = 1
    BY <2>1, FrameIs
  <2> QED
    BY <2>1, <2>2 DEF Outcome
<1> QED
  BY <1>1, <1>2, <1>3, <1>4

\* A tick at which the receiver goes on, or puts the byte out.
LEMMA TickTaken ==
  ASSUME SwoType, NEW v, NEW a \in 0 .. Edges - 1, NEW j, NEW k,
         Receiving(v, a, j, k), UNCHANGED coding, NEW ready, SampleTick(ready)
  PROVE  /\ malformed_count' = malformed_count /\ shift' \in [1 .. DataBits -> {0, 1}]
         /\ active' \in BOOLEAN /\ output_valid' \in BOOLEAN
         /\ \/ /\ active' /\ ~output_valid' /\ Received(v)'
               /\ ~(bit_index = LastBit /\ quarter = RightQuarter)
               /\ IF quarter = 3 THEN bit_index' = bit_index + 1 /\ quarter' = 0
                  ELSE bit_index' = bit_index /\ quarter' = quarter + 1
            \/ /\ ~active' /\ output_valid' /\ output_data' = v
               /\ bit_index = LastBit /\ quarter = RightQuarter
<1> DEFINE right == quarter = RightQuarter
           bit == IF coding = "nrz" THEN swo_sync ELSE first_half
           outcome == IF coding = "nrz" THEN NrzOutcome ELSE ManchesterOutcome
<1>1. /\ tick /\ active /\ coding \in {"nrz", "manchester"} /\ v \in Values
      /\ bit_index \in 0 .. LastBit /\ quarter \in 0 .. 3 /\ ~output_valid
      /\ bit_index = LastBit => quarter <= RightQuarter
      /\ LastBit = DataBits + 1 /\ DataBits \in Nat /\ DataBits > 0 /\ Edges \in Nat /\ Edges > 10
  BY SizesAre DEF SampleTick, Receiving, Received, SwoType, AtLine, OnWire
<1>2. /\ quarter = 1 /\ coding = "nrz" => swo_sync = Frame(v)[bit_index + 1]
      /\ quarter = 0 => swo_sync = Frame(v)[bit_index + 1]
      /\ quarter = 2 /\ coding # "nrz" => swo_sync = 1 - Frame(v)[bit_index + 1]
  <2>1. a < 4 /\ Abreast(bit_index, Quarters(quarter) + a + Edges, j, k) /\ AtLine(v, j, k)
    BY <1>1 DEF Receiving, TickIs, Progress
  <2>2. a \in 0 .. 3
    BY <1>1, <2>1
  <2>3. CASE quarter = 3
    BY <2>3
  <2>4. CASE quarter \in 0 .. 2
    BY <1>1, <2>1, <2>2, <2>4, SeenIs
  <2> QED
    BY <1>1, <2>3, <2>4
<1>3. Frame(v)[bit_index + 1] \in {0, 1}
  BY <1>1, FrameIs
<1>4. right => quarter \in 0 .. 2 /\ bit = Frame(v)[bit_index + 1]
  <2>1. CASE coding = "nrz"
    BY <1>1, <1>2, <2>1 DEF RightQuarter
  <2>2. CASE coding = "manchester"
    BY <1>1, <2>2 DEF RightQuarter, Receiving, Received
  <2> QED
    BY <1>1, <2>1, <2>2
<1>5. right /\ coding # "nrz" => first_half # swo_sync
  <2>1. \A x \in {0, 1} : x # 1 - x
    OBVIOUS
  <2> QED
    BY <1>1, <1>2, <1>3, <1>4, <2>1 DEF RightQuarter
<1>6. outcome = IF ~right THEN "none" ELSE Outcome(bit)
  BY <1>1, <1>5 DEF NrzOutcome, ManchesterOutcome, NrzQuarter, RightQuarter
<1>7. outcome = IF ~right THEN "none" ELSE IF bit_index = 0 THEN "begun"
                ELSE IF bit_index < LastBit THEN "stored" ELSE "out"
  BY <1>1, <1>4, <1>6, OutcomeIs
<1>8. /\ first_half' = IF coding = "manchester" /\ quarter = 0 THEN swo_sync ELSE first_half
      /\ active' = (outcome \notin {"out", "malformed"})
      /\ shift' = IF outcome = "stored" THEN [shift EXCEPT ![bit_index] = bit] ELSE shift
      /\ output_valid' = (outcome = "out" \/ (output_valid /\ ~ready))
      /\ output_data' = IF outcome = "out" THEN shift ELSE output_data
      /\ malformed_count' = IF outcome = "malformed" THEN (malformed_count + 1) % CounterEnd
                                                     ELSE malformed_count
      /\ quarter' = (quarter + 1) % 4
      /\ bit_index' = IF quarter = 3 THEN bit_index + 1 ELSE bit_index
  BY DEF SampleTick
<1> HIDE DEF outcome, bit, right
<1>17. active' <=> outcome \notin {"out", "malformed"}
  BY <1>8
<1>18. output_valid' <=> outcome = "out"
  BY <1>1, <1>8
<1>9. malformed_count' = malformed_count /\ active' \in BOOLEAN /\ output_valid' \in BOOLEAN
  BY <1>7, <1>8
<1>10. shift \in [1 .. DataBits -> {0, 1}]
  BY DEF SwoType
<1>11. shift' \in [1 .. DataBits -> {0, 1}]
       /\ IF right /\ bit_index # 0 /\ bit_index < LastBit
          THEN shift'[bit_index] = Frame(v)[bit_index + 1]
               /\ \A i \in 1 .. DataBits : i # bit_index => shift'[i] = shift[i]
          ELSE shift' = shift
  <2>1. CASE right /\ bit_index # 0 /\ bit_index < LastBit
    <3>1. shift' = [shift EXCEPT ![bit_index] = bit] /\ bit_index \in 1 .. DataBits
      BY <1>1, <1>7, <1>8, <2>1
    <3>2. bit \in {0, 1} /\ bit = Frame(v)[bit_index + 1]
      BY <1>3, <1>4, <2>1
    <3> QED
      BY <1>10, <2>1, <3>1, <3>2
  <2>2. CASE ~(right /\ bit_index # 0 /\ bit_index < LastBit)
    BY <1>7, <1>8, <1>10, <2>2
  <2> QED
    BY <2>1, <2>2
<1>12. \A i \in 1 .. DataBits : Frame(v)[i + 1] = v[i]
  BY <1>1, FrameIs
<1>13. /\ IF quarter = 3 THEN bit_index' = bit_index + 1 /\ quarter' = 0
          ELSE bit_index' = bit_index /\ quarter' = quarter + 1
  BY <1>1, <1>8
<1>14. \A i \in 1 .. DataBits :
         i < bit_index \/ (i = bit_index /\ quarter > RightQuarter) => shift[i] = v[i]
  BY DEF Receiving, Received
<1>15. CASE right /\ bit_index = LastBit
  <2>1. outcome = "out" /\ ~active' /\ output_valid' /\ output_data' = shift
    BY <1>1, <1>7, <1>8, <1>15, <1>17, <1>18
  <2>2. \A i \in 1 .. DataBits : shift[i] = v[i]
    BY <1>1, <1>14, <1>15
  <2>3. shift = v
    BY <1>1, <1>10, <2>2 DEF Values
  <2> QED
    BY <1>9, <1>11, <1>15, <2>1, <2>3 DEF right
<1>16. CASE ~(right /\ bit_index = LastBit)
  <2>1. active' /\ ~output_valid'
    BY <1>1, <1>7, <1>16, <1>17, <1>18
  <2>2. RightQuarter' = RightQuarter /\ RightQuarter \in 1 .. 2
    BY DEF RightQuarter
  <2>3. bit_index' \in 0 .. LastBit /\ quarter' \in 0 .. 3
        /\ (bit_index' = LastBit => quarter' <= RightQuarter)
    BY <1>1, <1>13, <1>16, <2>2 DEF right
  <2>4. ASSUME NEW i \in 1 .. DataBits,
               i < bit_index' \/ (i = bit_index' /\ quarter' > RightQuarter)
        PROVE  shift'[i] = v[i]
    <3>1. i < bit_index \/ (i = bit_index /\ quarter >= RightQuarter)
      BY <1>1, <1>13, <2>2, <2>4
    <3>2. CASE i = bit_index /\ quarter = RightQuarter
      <4>1. right /\ bit_index # 0 /\ bit_index < LastBit
        BY <1>1, <3>2 DEF right
      <4> QED
        BY <1>11, <1>12, <3>2, <4>1
    <3>3. CASE i < bit_index \/ (i = bit_index /\ quarter > RightQuarter)
      <4>1. shift[i] = v[i]
        BY <1>14, <3>3
      <4>2. ~(right /\ i = bit_index)
        BY <1>1, <2>2, <3>3 DEF right
      <4> QED
        BY <1>11, <4>1, <4>2
    <3> QED
      BY <1>1, <2>2, <3>1, <3>2, <3>3
  <2>5. coding # "nrz" /\ quarter' \in {1, 2} => first_half' = Frame(v)[bit_index' + 1]
    <3>1. ASSUME coding # "nrz", quarter' \in {1, 2} PROVE first_half' = Frame(v)[bit_index' + 1]
      <4>1. quarter \in {0, 1} /\ bit_index' = bit_index /\ coding = "manchester"
        BY <1>1, <1>13, <3>1
      <4>2. CASE quarter = 0
        BY <1>1, <1>2, <1>8, <4>1, <4>2
      <4>3. CASE quarter = 1
        BY <1>8, <3>1, <4>1, <4>3 DEF Receiving, Received
      <4> QED
        BY <4>1, <4>2, <4>3
    <3> QED
      BY <3>1
  <2>6. Received(v)'
    BY <2>2, <2>3, <2>4, <2>5 DEF Received
  <2> QED
    BY <1>9, <1>11, <1>13, <1>16, <2>1, <2>6 DEF right
<1> QED
  BY <1>15, <1>16

\* What the target does at an edge: new is the byte that begins, if one does.
Sends(new) ==
  \/ SendOn /\ new = <<>>
  \/ \E w \in Values : SendByte(w) /\ new = <<w>>

\* The line goes on, and the receiver's place with it.
LEMMA BothGoOn ==
  ASSUME coding \in {"nrz", "manchester"}, UNCHANGED coding, NEW v, NEW j, NEW k, AtLine(v, j, k),
         NEW new, Sends(new), swo_meta' = swo, swo_sync' = swo_meta,
         ~(k = Edges - 1 /\ j = LastBit),
         NEW i \in Nat, NEW p \in Nat, Abreast(i, p, j, k), p <= 4 * Edges + 3
  PROVE  /\ new = <<>>
         /\ \E m \in 0 .. LastBit, n \in 0 .. Edges - 1 : AtLine(v, m, n)' /\ Abreast(i, p + 4, m, n)
<1>1. OnWire(v, j, k) /\ j \in 0 .. LastBit /\ k \in 0 .. Edges - 1 /\ LastBit \in Nat /\ Edges \in Nat
      /\ Edges > 10
  BY SizesAre DEF AtLine, OnWire
<1>2. SendOn /\ new = <<>>
  BY <1>1, NoneBegins DEF Sends
<1>3. \/ k < Edges - 1 /\ AtLine(v, j, k + 1)'
      \/ k = Edges - 1 /\ j < LastBit /\ AtLine(v, j + 1, 0)'
  BY <1>2, LineGoesOn
<1>4. CASE k < Edges - 1 /\ AtLine(v, j, k + 1)'
  <2>1. k + 1 \in 0 .. Edges - 1 /\ Abreast(i, p + 4, j, k + 1)
    BY <1>1, <1>4, AbreastOn
  <2> QED
    BY <1>1, <1>2, <1>4, <2>1
<1>5. CASE k = Edges - 1 /\ j < LastBit /\ AtLine(v, j + 1, 0)'
  <2>1. j + 1 \in 0 .. LastBit /\ 0 \in 0 .. Edges - 1 /\ Abreast(i, p + 4, j + 1, 0)
    BY <1>1, <1>5, AbreastOn
  <2> QED
    BY <1>2, <1>5, <2>1
<1> QED
  BY <1>3, <1>4, <1>5

LEMMA ReceivingStep ==
  ASSUME SwoType, Correct, NEW v \in Values, NEW a \in 0 .. Edges - 1, NEW j, NEW k,
         Receiving(v, a, j, k), NEW ready, NEW new, ClockEdge(ready), Sends(new), Observe(ready, new)
  PROVE  SwoInv'
<1>1. PICK b \in 0 .. Edges - 1 : /\ TickIs(b)' /\ tick' \in BOOLEAN
                                  /\ b = IF a + 4 >= Edges THEN (a + 4) - Edges ELSE a + 4
  BY TickGoesOn DEF Receiving, TickIs, ClockEdge
<1>2. /\ UNCHANGED coding /\ swo_meta' = swo /\ swo_sync' = swo_meta /\ Receive(ready)
      /\ AtLine(v, j, k) /\ active /\ ~output_valid /\ begun = <<v>> /\ Received(v)
      /\ Abreast(bit_index, Progress(quarter, a), j, k)
      /\ tick \in BOOLEAN /\ (tick <=> a < 4) /\ (tick' <=> b < 4)
      /\ coding \in {"nrz", "manchester"} /\ shift \in [1 .. DataBits -> {0, 1}]
  BY <1>1 DEF ClockEdge, Receiving, TickIs, SwoType
<1>3. /\ bit_index \in 0 .. LastBit /\ quarter \in 0 .. 3 /\ bit_index \in Nat
      /\ bit_index = LastBit => quarter <= RightQuarter
      /\ LastBit \in Nat /\ Edges \in Nat
      /\ j \in 0 .. LastBit /\ k \in 0 .. Edges - 1
  BY <1>2, SizesAre DEF Received, AtLine, OnWire
<1> DEFINE p == Progress(quarter, a)
<1>4. /\ p \in Nat /\ p <= 4 * Edges + 3
      /\ ~tick => Progress(quarter, b) = p + 4
      /\ tick /\ quarter < 3 => Progress(quarter + 1, b) = p + 4
      /\ tick /\ quarter = 3 => p + 4 >= 4 * Edges /\ Progress(0, b) = (p + 4) - 4 * Edges
  <2>1. /\ p \in Nat /\ p <= 4 * Edges + 3
        /\ a >= 4 => Progress(quarter, b) = p + 4
        /\ a < 4 /\ quarter < 3 => Progress(quarter + 1, b) = p + 4
        /\ a < 4 /\ quarter = 3 => p + 4 >= 4 * Edges /\ Progress(0, b) = (p + 4) - 4 * Edges
    BY <1>1, <1>3, ProgressOn
  <2>2. (tick => a < 4) /\ (~tick => a >= 4)
    BY <1>2, <1>3
  <2> HIDE DEF p
  <2> QED
    BY <2>1, <2>2
<1> HIDE DEF p
<1>5. Abreast(bit_index, p, j, k)
  BY <1>2 DEF p
<1>6. waited' = 0
  BY <1>2 DEF Observe
<1>7. ASSUME ~(tick /\ bit_index = LastBit /\ quarter = RightQuarter)
      PROVE  /\ new = <<>>
             /\ \E m \in 0 .. LastBit, n \in 0 .. Edges - 1 :
                  AtLine(v, m, n)' /\ Abreast(bit_index, p + 4, m, n)
  <2>1. ~(k = Edges - 1 /\ j = LastBit)
    <3>1. SUFFICES ASSUME k = Edges - 1, j = LastBit PROVE FALSE
      OBVIOUS
    <3>2. Abreast(bit_index, Progress(quarter, a), LastBit, Edges - 1)
      BY <1>2, <3>1
    <3> QED
      BY <1>2, <1>3, <1>7, <3>2, TakenInTime
  <2> QED
    BY <1>2, <1>3, <1>4, <1>5, <2>1, BothGoOn
<1>8. ASSUME new = <<>>, active', ~output_valid', active' \in BOOLEAN, output_valid' \in BOOLEAN,
             malformed_count' = malformed_count, shift' \in [1 .. DataBits -> {0, 1}], Received(v)',
             NEW m \in 0 .. LastBit, NEW n \in 0 .. Edges - 1, AtLine(v, m, n)',
             Abreast(bit_index', Progress(quarter', b), m, n)
      PROVE  SwoInv'
  <2>1. wrong' = FALSE /\ begun' = <<v>>
    BY <1>2, <1>8, ObserveGoesOn DEF Correct
  <2>2. Receiving(v, b, m, n)'
    BY <1>1, <1>8, <2>1 DEF Receiving
  <2>3. AnyPhase'
    BY <1>1, <1>8, <2>2 DEF AnyPhase
  <2>4. SwoType' /\ Correct'
    BY <1>1, <1>2, <1>6, <1>8, <2>1 DEF SwoType, Correct
  <2> QED
    BY <2>3, <2>4 DEF SwoInv
<1>9. CASE ~tick
  <2>1. /\ UNCHANGED <<active, first_half, quarter, bit_index, shift, output_data, malformed_count>>
        /\ output_valid' = (output_valid /\ ~ready)
    BY <1>2, <1>9 DEF Receive, StartBit, Quiet, SampleTick
  <2>2. ~output_valid' /\ output_valid' \in BOOLEAN
    BY <1>2, <2>1
  <2>3. Received(v)'
    BY <1>2, <2>1 DEF Received, RightQuarter
  <2>4. active' /\ active' \in BOOLEAN
    BY <1>2, <2>1 DEF SwoType
  <2>5. PICK m \in 0 .. LastBit, n \in 0 .. Edges - 1 :
          AtLine(v, m, n)' /\ Abreast(bit_index, p + 4, m, n)
    BY <1>7, <1>9
  <2>6. Abreast(bit_index', Progress(quarter', b), m, n)
    BY <1>4, <1>9, <2>1, <2>5
  <2> QED
    BY <1>2, <1>7, <1>8, <1>9, <2>1, <2>2, <2>3, <2>4, <2>5, <2>6
<1>10. CASE tick
  <2>1. SampleTick(ready)
    BY <1>2, <1>10 DEF Receive, StartBit, Quiet
  <2>2. /\ malformed_count' = malformed_count /\ shift' \in [1 .. DataBits -> {0, 1}]
        /\ active' \in BOOLEAN /\ output_valid' \in BOOLEAN
        /\ \/ /\ active' /\ ~output_valid' /\ Received(v)'
              /\ ~(bit_index = LastBit /\ quarter = RightQuarter)
              /\ IF quarter = 3 THEN bit_index' = bit_index + 1 /\ quarter' = 0
                 ELSE bit_index' = bit_index /\ quarter' = quarter + 1
           \/ /\ ~active' /\ output_valid' /\ output_data' = v
              /\ bit_index = LastBit /\ quarter = RightQuarter
    BY <1>2, <2>1, TickTaken
  <2>3. CASE active'
    <3>1. /\ ~output_valid' /\ Received(v)'
          /\ ~(bit_index = LastBit /\ quarter = RightQuarter)
          /\ IF quarter = 3 THEN bit_index' = bit_index + 1 /\ quarter' = 0
             ELSE bit_index' = bit_index /\ quarter' = quarter + 1
      BY <2>2, <2>3
    <3>2. PICK m \in 0 .. LastBit, n \in 0 .. Edges - 1 :
            AtLine(v, m, n)' /\ Abreast(bit_index, p + 4, m, n)
      BY <1>7, <3>1
    <3>3. Abreast(bit_index', Progress(quarter', b), m, n)
      <4>1. CASE quarter = 3
        <5>1. p + 4 \in Nat /\ m \in Nat /\ p + 4 >= 4 * Edges
          BY <1>3, <1>4, <1>10, <4>1
        <5>2. Abreast(bit_index + 1, (p + 4) - 4 * Edges, m, n)
          <6> DEFINE r == p + 4
          <6>1. r \in Nat /\ r >= 4 * Edges /\ Abreast(bit_index, r, m, n)
            BY <3>2, <5>1
          <6> HIDE DEF r
          <6>2. Abreast(bit_index + 1, r - 4 * Edges, m, n)
            BY <1>3, <5>1, <6>1, AbreastWraps
          <6> QED
            BY <6>2 DEF r
        <5> QED
          BY <1>4, <1>10, <3>1, <4>1, <5>2
      <4>2. CASE quarter # 3
        BY <1>3, <1>4, <1>10, <3>1, <3>2, <4>2
      <4> QED
        BY <4>1, <4>2
    <3> QED
      BY <1>7, <1>8, <2>2, <2>3, <3>1, <3>2, <3>3
  <2>4. CASE ~active'
    <3>1. output_valid' /\ output_data' = v /\ bit_index = LastBit /\ quarter = RightQuarter
      BY <2>2, <2>4
    <3>2. /\ wrong' = FALSE
          /\ new = <<>> => begun' = <<>>
          /\ \A w \in Values : new = <<w>> => begun' = <<w>>
      BY <1>2, <3>1, ObserveOut DEF Correct
    <3>3. Correct'
      BY <2>2, <3>2 DEF Correct
    <3>4. CASE coding = "manchester"
      <4>1. Len(begun') <= 1
        <5>1. CASE new = <<>>
          BY <3>2, <5>1
        <5>2. ASSUME NEW w \in Values, new = <<w>> PROVE Len(begun') <= 1
          <6>1. begun' = <<w>>
            BY <3>2, <5>2
          <6> QED
            BY <6>1
        <5> QED
          BY <5>1, <5>2 DEF Sends
      <4> QED
        BY <1>2, <3>1, <3>3, <3>4, <4>1 DEF SwoInv, FirstIsOut
    <3>5. CASE coding = "nrz"
      <4>1. /\ j = LastBit /\ k < Edges - 1 /\ k >= 2 /\ 4 * k <= 2 * Edges + 11
        <5>1. a \in 0 .. 3 /\ quarter = 1 /\ quarter \in 0 .. 2
          BY <1>2, <1>10, <3>1, <3>5 DEF RightQuarter
        <5>2. Abreast(bit_index, Quarters(quarter) + a + Edges, j, k)
          BY <1>2, <1>10 DEF Progress
        <5>3. /\ coding \in {"nrz", "manchester"} /\ bit_index \in Nat /\ AtLine(v, j, k)
          BY <1>2, <1>3
        <5>4. bit_index = j /\ k < Edges - 1 /\ k >= 2 /\ 4 * k <= 2 * Edges + 11
          BY <3>5, <5>1, <5>2, <5>3, SeenIs
        <5> QED
          BY <3>1, <5>4
      <4>2. OnWire(v, j, k)
        BY <1>2 DEF AtLine
      <4>3. SendOn /\ new = <<>>
        BY <1>3, <4>1, <4>2, NoneBegins DEF Sends
      <4>4. AtLine(v, LastBit, k + 1)'
        BY <1>2, <1>3, <4>1, <4>3, LineGoesOn
      <4>5. /\ k + 1 \in 0 .. Edges - 1 /\ k + 1 >= 2 /\ 4 * (k + 1) <= 2 * Edges + 15 + 4 * 0
            /\ 0 \in 0 .. Patience
        BY <1>3, <4>1, PatienceAssumption
      <4>6. Ending(v, b, k + 1)'
        BY <1>1, <1>2, <1>6, <2>4, <3>2, <3>5, <4>3, <4>4, <4>5 DEF Ending
      <4>7. AnyPhase'
        BY <1>1, <4>5, <4>6 DEF AnyPhase
      <4>8. SwoType'
        BY <1>1, <1>2, <1>6, <2>2 DEF SwoType
      <4> QED
        BY <3>3, <4>7, <4>8 DEF SwoInv
    <3> QED
      BY <1>2, <3>4, <3>5
  <2> QED
    BY <2>3, <2>4
<1> QED
  BY <1>9, <1>10

\* A byte that begins on a high line.
LEMMA BeginStep ==
  ASSUME SwoType, Correct, High, NEW b \in 0 .. Edges - 1, TickIs(b)', tick' \in BOOLEAN,
         NEW ready, NEW w \in Values, SendByte(w), Observe(ready, <<w>>), begun = <<>>,
         swo_meta' = swo, swo_sync' = swo_meta, UNCHANGED <<coding, malformed_count, shift>>,
         ~active', active' \in BOOLEAN, ~output_valid', output_valid' \in BOOLEAN, waited' = 0
  PROVE  SwoInv'
<1>1. AtLine(w, 0, 0)'
  BY LineBegins DEF SwoType, High
<1>2. wrong' = FALSE /\ begun' = <<w>>
  BY ObserveGoesOn DEF Correct
<1>3. Starting(w, b, 0)'
  BY <1>1, <1>2 DEF Starting
<1>4. 0 \in 0 .. Edges - 1
  BY SizesAre
<1>5. AnyPhase'
  BY <1>3, <1>4 DEF AnyPhase
<1>6. SwoType' /\ Correct'
  BY <1>2 DEF SwoType, Correct
<1> QED
  BY <1>5, <1>6 DEF SwoInv

\* The line stays high, or goes high.
LEMMA SilenceStep ==
  ASSUME SwoType, Correct, NEW b \in 0 .. Edges - 1, TickIs(b)', tick' \in BOOLEAN,
         NEW ready, Observe(ready, <<>>), begun = <<>>, left' = 0, rest' = <<>>, High',
         UNCHANGED <<coding, malformed_count, shift>>,
         ~active', active' \in BOOLEAN, output_valid' => output_valid, ~output_valid',
         output_valid' \in BOOLEAN, waited' = 0
  PROVE  SwoInv'
<1>1. wrong' = FALSE /\ begun' = <<>>
  BY ObserveGoesOn DEF Correct
<1>2. Waiting'
  BY <1>1 DEF Waiting, TickIs
<1>3. SwoType' /\ Correct'
  BY <1>1 DEF SwoType, Correct
<1> QED
  BY <1>2, <1>3 DEF SwoInv, AnyPhase

LEMMA WaitingStep ==
  ASSUME SwoType, Correct, Waiting, NEW ready, NEW new, ClockEdge(ready), Sends(new),
         Observe(ready, new)
  PROVE  SwoInv'
<1>1. PICK a \in 0 .. Edges - 1 : accumulator = Baud * a /\ (tick => a < 4)
  BY DEF Waiting
<1>2. PICK b \in 0 .. Edges - 1 : TickIs(b)' /\ tick' \in BOOLEAN
  BY <1>1, TickGoesOn DEF ClockEdge
<1>3. /\ UNCHANGED coding /\ swo_meta' = swo /\ swo_sync' = swo_meta /\ Receive(ready)
      /\ High /\ ~active /\ ~output_valid /\ begun = <<>> /\ left = 0 /\ rest = <<>>
  BY DEF ClockEdge, Waiting
<1>4. /\ UNCHANGED <<active, shift, malformed_count>>
      /\ output_valid' = (output_valid /\ ~ready)
  BY <1>3 DEF Receive, StartBit, Quiet, SampleTick, High
<1>5. ~active' /\ active' \in BOOLEAN /\ ~output_valid' /\ output_valid' \in BOOLEAN /\ waited' = 0
  BY <1>3, <1>4 DEF SwoType, Observe
<1>6. CASE SendOn /\ new = <<>>
  <2>1. left' = 0 /\ rest' = <<>> /\ swo' = 1
    BY <1>3, <1>6 DEF SendOn
  <2>2. High'
    BY <1>3, <2>1 DEF High
  <2> QED
    BY <1>2, <1>3, <1>4, <1>5, <1>6, <2>1, <2>2, SilenceStep
<1>7. ASSUME NEW w \in Values, SendByte(w), new = <<w>> PROVE SwoInv'
  BY <1>2, <1>3, <1>4, <1>5, <1>7, BeginStep
<1> QED
  BY <1>6, <1>7 DEF Sends

LEMMA StartingStep ==
  ASSUME SwoType, Correct, NEW v \in Values, NEW a \in 0 .. Edges - 1, NEW k \in 0 .. Edges - 1,
         Starting(v, a, k), NEW ready, NEW new, ClockEdge(ready), Sends(new), Observe(ready, new)
  PROVE  SwoInv'
<1>1. PICK b \in 0 .. Edges - 1 : TickIs(b)' /\ tick' \in BOOLEAN
  BY TickGoesOn DEF ClockEdge, Starting, TickIs
<1>2. /\ UNCHANGED coding /\ swo_meta' = swo /\ swo_sync' = swo_meta /\ Receive(ready)
      /\ AtLine(v, 0, k) /\ k <= 2 /\ ~active /\ ~output_valid /\ begun = <<v>>
      /\ coding \in {"nrz", "manchester"}
  BY DEF ClockEdge, Starting, SwoType
<1>3. Edges \in Nat /\ Edges > 10 /\ Half > 0 /\ LastBit \in Nat /\ LastBit > 1 /\ k \in Nat
  BY SizesAre
<1>4. SendOn /\ new = <<>> /\ AtLine(v, 0, k + 1)'
  <2>1. SendOn /\ new = <<>>
    BY <1>2, <1>3, NoneBegins DEF Sends, AtLine
  <2> QED
    BY <1>2, <1>3, <2>1, LineGoesOn
<1>5. k + 1 \in 0 .. Edges - 1 /\ 0 \in 0 .. LastBit
  BY <1>2, <1>3
<1>6. waited' = 0
  BY <1>2 DEF Observe
<1>7. CASE k < 2
  <2>1. swo_sync = 1
    BY <1>2, <1>3, <1>7 DEF AtLine, Past
  <2>2. /\ UNCHANGED <<active, shift, malformed_count>>
        /\ output_valid' = (output_valid /\ ~ready)
    BY <1>2, <2>1 DEF Receive, StartBit, Quiet, SampleTick
  <2>3. ~active' /\ active' \in BOOLEAN /\ ~output_valid' /\ output_valid' \in BOOLEAN
    BY <1>2, <2>2 DEF SwoType
  <2>4. wrong' = FALSE /\ begun' = <<v>>
    BY <1>2, <1>4, <2>3, ObserveGoesOn DEF Correct
  <2>5. k + 1 <= 2
    BY <1>3, <1>7
  <2>6. Starting(v, b, k + 1)'
    BY <1>1, <1>4, <2>3, <2>4, <2>5 DEF Starting
  <2>7. AnyPhase'
    BY <1>1, <1>5, <2>6 DEF AnyPhase
  <2>8. SwoType' /\ Correct'
    BY <1>1, <1>2, <1>6, <2>2, <2>3, <2>4 DEF SwoType, Correct
  <2> QED
    BY <2>7, <2>8 DEF SwoInv
<1>8. CASE k = 2
  <2>1. swo_sync = 0
    <3>1. swo_sync = Level(v, 0, 0)
      BY <1>2, <1>8 DEF AtLine, Past
    <3> QED
      BY <1>3, <3>1, FrameIs DEF Level
  <2>2. /\ active' = TRUE /\ quarter' = 0 /\ bit_index' = 0
        /\ UNCHANGED <<shift, output_valid, output_data, malformed_count>>
    BY <1>2, <2>1 DEF Receive, StartBit, Quiet, SampleTick
  <2>3. ~output_valid' /\ output_valid' \in BOOLEAN
    BY <1>2, <2>2 DEF SwoType
  <2>4. wrong' = FALSE /\ begun' = <<v>>
    BY <1>2, <1>4, <2>3, ObserveGoesOn DEF Correct
  <2>5. Received(v)'
    <3>1. 0 \in 0 .. 3 /\ 0 # LastBit /\ 0 \notin {1, 2}
      BY <1>3
    <3>2. \A i \in 1 .. DataBits : ~(i < 0) /\ i # 0
      BY SizesAre
    <3> QED
      BY <1>5, <2>2, <3>1, <3>2 DEF Received
  <2>6. Abreast(0, Progress(0, b), 0, 3)
    BY <1>3 DEF Abreast, Near, Progress, Quarters
  <2>7. Receiving(v, b, 0, 3)'
    BY <1>1, <1>4, <1>8, <2>2, <2>3, <2>4, <2>5, <2>6 DEF Receiving
  <2>8. AnyPhase'
    BY <1>1, <1>5, <1>8, <2>7 DEF AnyPhase
  <2>9. SwoType' /\ Correct'
    BY <1>1, <1>2, <1>6, <2>2, <2>3, <2>4 DEF SwoType, Correct
  <2> QED
    BY <2>8, <2>9 DEF SwoInv
<1> QED
  BY <1>2, <1>3, <1>7, <1>8

LEMMA EndingStep ==
  ASSUME SwoType, Correct, NEW v \in Values, NEW a \in 0 .. Edges - 1, NEW k \in 0 .. Edges - 1,
         Ending(v, a, k), NEW ready, NEW new, ClockEdge(ready), Sends(new), Observe(ready, new)
  PROVE  SwoInv'
<1>1. PICK b \in 0 .. Edges - 1 : TickIs(b)' /\ tick' \in BOOLEAN
  BY TickGoesOn DEF ClockEdge, Ending, TickIs
<1>2. /\ UNCHANGED coding /\ swo_meta' = swo /\ swo_sync' = swo_meta /\ Receive(ready)
      /\ AtLine(v, LastBit, k) /\ k >= 2 /\ ~active /\ begun = <<>>
      /\ coding = "nrz" /\ (waited = Patience => ready)
      /\ output_valid => waited \in 0 .. Patience /\ 4 * k <= 2 * Edges + 15 + 4 * waited
  BY DEF ClockEdge, Ending
<1>3. /\ Edges \in Nat /\ Edges > 10 /\ LastBit \in Nat /\ k \in Nat /\ Patience \in Nat
      /\ 2 * (Patience + 4) <= Edges
  BY SizesAre, EdgesAre, PatienceAssumption
<1>4. High
  <2>1. \A n : Level(v, LastBit, n) = 1
    BY <1>2, SizesAre, FrameIs DEF Level
  <2> QED
    BY <1>2, <1>3, <2>1 DEF High, AtLine, OnWire, Past
<1>5. /\ UNCHANGED <<active, shift, malformed_count>>
      /\ output_valid' = (output_valid /\ ~ready)
  BY <1>2, <1>4 DEF Receive, StartBit, Quiet, SampleTick, High
<1>6. /\ ~active' /\ active' \in BOOLEAN /\ output_valid' \in BOOLEAN
      /\ output_valid' => output_valid /\ ~ready
      /\ output_valid /\ ~ready => output_valid'
  BY <1>2, <1>5 DEF SwoType
<1>7. waited' = IF output_valid /\ ~ready THEN waited + 1 ELSE 0
  BY DEF Observe
<1>8. ~output_valid' => waited' = 0
  BY <1>6, <1>7
<1>9. k = Edges - 1 => ~output_valid'
  <2> SUFFICES ASSUME k = Edges - 1, output_valid' PROVE FALSE
    OBVIOUS
  <2>1. waited \in 0 .. Patience /\ waited # Patience /\ 4 * k <= 2 * Edges + 15 + 4 * waited
    BY <1>2, <1>6
  <2> QED
    BY <1>3, <2>1
<1>10. CASE SendOn /\ new = <<>> /\ k < Edges - 1
  <2>1. AtLine(v, LastBit, k + 1)'
    BY <1>2, <1>3, <1>10, LineGoesOn
  <2>2. wrong' = FALSE /\ begun' = <<>>
    BY <1>2, <1>6, <1>10, ObserveGoesOn DEF Correct
  <2>3. output_valid' => waited' \in 0 .. Patience /\ 4 * (k + 1) <= 2 * Edges + 15 + 4 * waited'
    <3> SUFFICES ASSUME output_valid'
                 PROVE  waited' \in 0 .. Patience /\ 4 * (k + 1) <= 2 * Edges + 15 + 4 * waited'
      OBVIOUS
    <3>1. /\ waited \in 0 .. Patience /\ waited # Patience /\ 4 * k <= 2 * Edges + 15 + 4 * waited
          /\ waited' = waited + 1
      BY <1>2, <1>6, <1>7
    <3> QED
      BY <1>3, <3>1
  <2>4. k + 1 \in 0 .. Edges - 1 /\ k + 1 >= 2
    BY <1>2, <1>3, <1>10
  <2>5. Ending(v, b, k + 1)'
    BY <1>1, <1>2, <1>6, <2>1, <2>2, <2>3, <2>4 DEF Ending
  <2>6. AnyPhase'
    BY <1>1, <2>4, <2>5 DEF AnyPhase
  <2>7. SwoType' /\ Correct'
    BY <1>1, <1>2, <1>5, <1>6, <1>8, <2>2 DEF SwoType, Correct
  <2> QED
    BY <2>6, <2>7 DEF SwoInv
<1>11. CASE SendOn /\ new = <<>> /\ k = Edges - 1
  <2>1. left' = 0 /\ rest' = <<>> /\ swo' = 1
    BY <1>2, <1>3, <1>11, LineGoesOn
  <2>2. High'
    BY <1>2, <1>4, <2>1 DEF High
  <2> QED
    BY <1>1, <1>2, <1>5, <1>6, <1>8, <1>9, <1>11, <2>1, <2>2, SilenceStep
<1>12. ASSUME NEW w \in Values, SendByte(w), new = <<w>> PROVE SwoInv'
  <2>1. k = Edges - 1
    BY <1>2, <1>12, NoneBegins DEF AtLine
  <2> QED
    BY <1>1, <1>2, <1>4, <1>5, <1>6, <1>8, <1>9, <1>12, <2>1, BeginStep
<1> QED
  BY <1>3, <1>10, <1>11, <1>12 DEF Sends

LEMMA InitSwo == SwoInit => SwoInv
<1> SUFFICES ASSUME SwoInit PROVE SwoInv
  OBVIOUS
<1>1. 0 \in 0 .. Edges - 1 /\ accumulator = Baud * 0
  BY SizesAre, SwoAssumption DEF SwoInit
<1>2. Waiting
  BY <1>1 DEF SwoInit, Waiting, High
<1>3. SwoType /\ Correct
  BY DEF SwoInit, SwoType, Correct
<1> QED
  BY <1>2, <1>3 DEF SwoInv, AnyPhase

LEMMA SwoStep == SwoInv /\ SwoNext => SwoInv'
<1> SUFFICES ASSUME SwoInv, NEW ready \in BOOLEAN, NEW new,
                    ClockEdge(ready), Sends(new), Observe(ready, new)
             PROVE  SwoInv'
  BY DEF SwoNext, Sends
<1>1. CASE FirstIsOut
  <2>1. coding' = coding /\ earlier' = (earlier \/ output_valid)
    BY DEF ClockEdge, Observe
  <2> QED
    BY <1>1, <2>1 DEF FirstIsOut, SwoInv
<1>2. CASE SwoType /\ Correct /\ Waiting
  BY <1>2, WaitingStep
<1>3. ASSUME SwoType, Correct, NEW v \in Values, NEW a \in 0 .. Edges - 1, NEW k \in 0 .. Edges - 1,
             \/ Starting(v, a, k)
             \/ Ending(v, a, k)
             \/ \E j \in 0 .. LastBit : Receiving(v, a, j, k)
      PROVE  SwoInv'
  BY <1>3, StartingStep, EndingStep, ReceivingStep
<1> QED
  BY <1>1, <1>2, <1>3 DEF SwoInv, AnyPhase

\* Every step of the input side keeps it.
LEMMA SwoHolds == Spec => []SwoInv
<1>1. Init => SwoInv
  BY InitSwo DEF Init
<1>2. SwoInv /\ UNCHANGED swoVars => SwoInv'
  <2> SUFFICES ASSUME SwoInv, UNCHANGED swoVars PROVE SwoInv'
    OBVIOUS
  <2>1. /\ UNCHANGED <<coding, swo, left, rest, accumulator, tick, swo_meta, swo_sync>>
        /\ UNCHANGED <<active, first_half, quarter, bit_index, shift, output_valid>>
        /\ UNCHANGED <<malformed_count, waited, begun, wrong, earlier>>
    BY DEF swoVars
  <2>2. /\ (SwoType => SwoType') /\ (Correct => Correct') /\ (FirstIsOut => FirstIsOut')
        /\ (Waiting => Waiting')
    BY <2>1 DEF SwoType, Correct, FirstIsOut, Waiting, High
  <2>3. \A v, j, k : AtLine(v, j, k) => AtLine(v, j, k)'
    BY <2>1, LineIsKept DEF AtLine, OnWire
  <2>4. \A v : Received(v) => Received(v)'
    BY <2>1 DEF Received, RightQuarter
  <2>5. \A a : TickIs(a) => TickIs(a)'
    BY <2>1 DEF TickIs
  <2>6. \A v, a, k : /\ Starting(v, a, k) => Starting(v, a, k)'
                     /\ Ending(v, a, k) => Ending(v, a, k)'
    BY <2>1, <2>3, <2>5 DEF Starting, Ending
  <2>7. \A v, a, j, k : Receiving(v, a, j, k) => Receiving(v, a, j, k)'
    BY <2>1, <2>3, <2>4, <2>5 DEF Receiving
  <2>8. AnyPhase => AnyPhase'
    BY <2>2, <2>6, <2>7 DEF AnyPhase
  <2> QED
    BY <2>2, <2>8 DEF SwoInv
<1>3. SwoInv /\ [Next]_vars => SwoInv'
  BY <1>2, SwoStep DEF Next, vars
<1> QED
  BY <1>1, <1>3, PTL DEF Spec

\* "bounds sampling drift to one input clock": for every length of a byte and
\* every phase of the free-running tick, the NRZ receiver puts out each byte
\* sent, once and unchanged, before the next begins, however close they follow,
\* and the Manchester receiver the first one.  This is for bits of an even whole
\* number of clock edges above ten and a core that takes bytes within Patience.
THEOREM DecodesWhatIsSent == Spec => []SwoDecodes
<1>1. SwoInv => SwoDecodes
  <2> SUFFICES ASSUME SwoInv, coding = "nrz" \/ ~earlier PROVE Decoded
    BY DEF SwoDecodes
  <2>1. CASE FirstIsOut
    BY <2>1 DEF FirstIsOut, Correct, Decoded
  <2>2. CASE Correct /\ AnyPhase
    <3>1. begun = <<>> \/ \E v \in Values : begun = <<v>>
      BY <2>2 DEF AnyPhase, Waiting, Starting, Ending, Receiving
    <3>2. Len(begun) <= 1
      <4>1. ASSUME NEW v \in Values, begun = <<v>> PROVE Len(begun) <= 1
        BY <4>1
      <4> QED
        BY <3>1, <4>1
    <3> QED
      BY <2>2, <3>2 DEF Correct, Decoded
  <2> QED
    BY <2>1, <2>2 DEF SwoInv
<1> QED
  BY <1>1, SwoHolds, PTL
=============================================================================
