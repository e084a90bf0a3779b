-------------------------- MODULE DapMailboxProofs --------------------------
(***************************************************************************)
(* Proofs about DapMailbox, for every set of requests, every size of a     *)
(* packet, number of transfers, half period of TCK and every poll budget   *)
(* that is large enough: a client gets the answer to its own request, and  *)
(* TMS and TDI are stable while TCK is high.                               *)
(***************************************************************************)
EXTENDS DapMailbox, SequenceTheorems, WellFoundedInduction, TLAPS

Bytes == Seq(Nat)
Register(B) == [byte : B, last : BOOLEAN, valid : BOOLEAN]
Faults == {"no", "wait", "fault", "parity"}
States ==
  {"CAPTURE", "PREPARE", "JTAG_SETUP", "JTAG_HOLD", "FETCH_TRANSFER", "BUILD_TRANSFER", "RESPOND"}

FirmwareType ==
  /\ fw \in {"idle", "offer", "write", "await", "read"}
  /\ current \in Requests \cup {<<>>} /\ sent \in Nat /\ remaining \in 0 .. PollBudget
  /\ reply \in Bytes /\ result \in {"none", "ok", "EmptyRequest"}
  /\ cmd \in Register(Byte) /\ hold \in Register(Nat) /\ real \in BOOLEAN /\ force \in Faults

EngineType ==
  /\ state \in States /\ request \in Seq(Byte) /\ header \in [1 .. 4 -> Byte]
  /\ response \in Bytes /\ responsePos \in Nat
  /\ index \in Nat /\ requestPos \in Nat /\ completed \in Nat /\ address \in Nat
  /\ data \in Byte /\ wait \in Nat /\ clocks \in Nat
  /\ pins \in [tck : {0, 1}, tms : {0, 1}, tdi : {0, 1}, tdo : {0, 1}]

TypeOK == FirmwareType /\ EngineType

-----------------------------------------------------------------------------

\* TCK is high in JTAG_HOLD, and only there.
TckHigh == pins.tck = 1 <=> state = "JTAG_HOLD"

\* Between exchanges nothing is left in the mailbox or in the engine.
Resting ==
  /\ fw = "idle"
  /\ state = "CAPTURE" /\ request = <<>> /\ ~cmd.valid /\ ~hold.valid
  /\ result = "ok" => reply \in promised.replies /\ clocks = promised.clocks

\* What holds of every exchange.
Exchanging ==
  /\ fw # "idle" /\ result = "none"
  /\ current \in Requests /\ current # <<>> /\ promised = Promise(current)

\* The header registers hold what the request r, captured so far, begins with.
HeaderOf(r) == \A i \in 1 .. 4 : i <= Len(r) => header[i] = r[i]

\* What was captured and what is in the command register are what was written.
Pending == IF cmd.valid THEN 1 ELSE 0
Captured ==
  /\ Len(request) + Pending = sent /\ sent <= Len(current) /\ Len(request) < Len(current)
  /\ \A i \in 1 .. Len(request) : request[i] = current[i]
  /\ cmd.valid => cmd.byte = current[sent] /\ (cmd.last <=> sent = Len(current))

\* The request is on its way into the engine.
Loading ==
  /\ Exchanging /\ Captured /\ HeaderOf(request)
  /\ state = "CAPTURE" /\ ~hold.valid /\ reply = <<>> /\ clocks = 0
  /\ fw \in {"offer", "write", "await"}
  /\ fw = "await" => sent = Len(current) /\ remaining = PollBudget
  /\ fw # "await" => sent < Len(current)
  /\ fw = "write" => ~cmd.valid
  /\ fw = "offer" /\ cmd.valid => remaining > 0

\* s followed by t.
Joined(s, t) == s \o t

\* What the reply to a transfer begins with.
Head3(done, ack) == <<5, done, ack>>

\* The transfers of the request that are done, and the bytes they are answered with.
Transferring ==
  /\ Command = 5 /\ Len(request) >= 3 /\ Count <= MaxTransfers /\ force \notin {"wait", "fault"}
  /\ index <= Count /\ completed = index
  /\ requestPos + 1 = TransferStart(request)[index] /\ requestPos <= Len(request)
  /\ address = requestPos
  /\ response = Joined(Head3(0, IF force = "parity" THEN 9 ELSE 1), TransferBytes(request)[index])

\* The read port gave the byte the transfer begins with.
Fetched ==
  index < Count => data = IF requestPos < Len(request) THEN request[requestPos + 1] ELSE 0

\* What the engine is doing, and the polls that are left for it.
Busy ==
  \/ state = "PREPARE" /\ clocks = 0 /\ remaining + 1 >= PollBudget
  \/ /\ state = "JTAG_SETUP" /\ real /\ Command = 20 /\ response = <<20, 0>> /\ clocks = 0
     /\ wait <= HalfPeriod /\ remaining + wait >= 2 * HalfPeriod + 3
  \/ /\ state = "JTAG_HOLD" /\ real /\ Command = 20 /\ response = <<20, 0>> /\ clocks = 1
     /\ wait <= HalfPeriod /\ remaining + wait >= HalfPeriod + 2
  \/ /\ state = "FETCH_TRANSFER" /\ Transferring /\ clocks = 0
     /\ remaining + 2 * index >= 2 * Count + 2 /\ remaining >= 3
     /\ index = 0 \/ index < Count
  \/ /\ state = "BUILD_TRANSFER" /\ Transferring /\ Fetched /\ clocks = 0
     /\ remaining + 2 * index >= 2 * Count + 1 /\ remaining >= 2

Working ==
  /\ Exchanging /\ fw = "await" /\ ~cmd.valid /\ ~hold.valid /\ reply = <<>>
  /\ request = current /\ HeaderOf(request)
  /\ Busy
  /\ state # "PREPARE" => responsePos = 0

\* The reply is the beginning of the response, the byte in the holding register
\* the one that follows.
InHold == IF hold.valid THEN 1 ELSE 0
Delivered ==
  /\ Len(reply) < Len(response)
  /\ \A i \in 1 .. Len(reply) : reply[i] = response[i]
  /\ hold.valid => /\ hold.byte = response[Len(reply) + 1]
                   /\ hold.last <=> Len(reply) + 1 = Len(response)

\* The response is complete and on its way to the firmware.
Answering ==
  /\ Exchanging /\ fw \in {"await", "read"} /\ ~cmd.valid
  /\ response \in promised.replies /\ Len(response) <= MaxReply /\ clocks = promised.clocks
  /\ Delivered
  /\ \/ state = "RESPOND" /\ responsePos = Len(reply) + InHold /\ responsePos < Len(response)
     \/ state = "CAPTURE" /\ request = <<>> /\ hold.valid /\ Len(reply) + 1 = Len(response)
  /\ fw = "read" => hold.valid
  /\ ~hold.valid => remaining > 0

Phase == Resting \/ Loading \/ Working \/ Answering

\* The inductive invariant.
IInv == TypeOK /\ TckHigh /\ Phase

-----------------------------------------------------------------------------
(***************************************************************************)
(* Induction, and functions defined by it                                  *)
(***************************************************************************)
LEMMA Sizes ==
  /\ MaxPacket \in Nat /\ MaxTransfers \in Nat /\ HalfPeriod \in Nat
  /\ PollBudget \in Nat /\ MaxReply \in Nat
  /\ MaxPacket > 0 /\ MaxTransfers > 0 /\ HalfPeriod > 0
  /\ PollBudget >= 2 * MaxTransfers + 4 /\ PollBudget >= 2 * HalfPeriod + 5
  /\ MaxReply >= 4 * MaxTransfers + 3 /\ MaxReply >= 9
  BY SizeAssumption, BudgetAssumption

\* A set of numbers has a least one.
LEMMA LeastOne ==
  \A T \in SUBSET Nat : T # {} => \E x \in T : \A y \in T : x <= y
<1> DEFINE R == OpToRel(<, Nat)
<1>1. IsWellFoundedOn(R, Nat)
  BY NatLessThanWellFounded
<1> SUFFICES ASSUME NEW T \in SUBSET Nat, T # {} PROVE \E x \in T : \A y \in T : x <= y
  OBVIOUS
<1>2. \E x \in T : \A y \in T : ~ (<<y, x>> \in R)
  <2> HIDE DEF R
  <2> QED
    BY <1>1, WFMin
<1>3. \A x, y \in Nat : ~(<<y, x>> \in R) => x <= y
  BY DEF OpToRel
<1> QED
  BY <1>2, <1>3

\* What holds of m and goes on from each number below n to the next, holds of n.
LEMMA UpTo ==
  ASSUME NEW T \in SUBSET Nat, NEW m \in Nat, NEW n \in Nat, m <= n, m \in T,
         \A k \in Nat : m <= k /\ k < n /\ k \in T => k + 1 \in T
  PROVE  n \in T
<1> SUFFICES ASSUME n \notin T PROVE FALSE
  OBVIOUS
<1> DEFINE missing == {k \in Nat : m <= k /\ k <= n /\ k \notin T}
<1>1. missing \in SUBSET Nat /\ missing # {}
  BY n \in missing
<1>2. PICK x \in missing : \A y \in missing : x <= y
  BY <1>1, LeastOne
<1>3. x \in Nat /\ m <= x /\ x <= n /\ x \notin T /\ x # m
  BY <1>2
<1>4. x - 1 \in Nat /\ m <= x - 1 /\ x - 1 < n /\ ~(x <= x - 1)
  BY <1>3
<1>5. x - 1 \in T
  BY <1>2, <1>4
<1>6. (x - 1) + 1 \in T
  BY <1>4, <1>5
<1> QED
  BY <1>3, <1>6

\* The function on 0 .. n that begins with a and goes on as G says.
IsRecursive(h, n, a, G) ==
  /\ h = [k \in 0 .. n |-> h[k]]
  /\ h[0] = a /\ \A k \in 1 .. n : h[k] = G[<<k, h[k - 1]>>]

LEMMA RecursiveFunction ==
  ASSUME NEW S, NEW a \in S, NEW G \in [Nat \X S -> S], NEW n \in Nat
  PROVE  \E h : IsRecursive(h, n, a, G) /\ \A k \in 0 .. n : h[k] \in S
<1> DEFINE Is(h, m) == IsRecursive(h, m, a, G) /\ \A k \in 0 .. m : h[k] \in S
           T == {m \in Nat : \E h : Is(h, m)}
<1>1. 0 \in T
  <2> DEFINE h == [k \in 0 .. 0 |-> a]
  <2>1. Is(h, 0)
    BY DEF IsRecursive
  <2> QED
    BY <2>1
<1>2. ASSUME NEW m \in Nat, m \in T PROVE m + 1 \in T
  <2>1. PICK g : Is(g, m)
    BY <1>2
  <2> DEFINE h == [k \in 0 .. m + 1 |-> IF k = m + 1 THEN G[<<k, g[m]>>] ELSE g[k]]
  <2>2. \A k \in 0 .. m : h[k] = g[k]
    OBVIOUS
  <2>3. h[m + 1] = G[<<m + 1, g[m]>>]
    OBVIOUS
  <2>4. h = [k \in 0 .. m + 1 |-> h[k]]
    OBVIOUS
  <2> HIDE DEF h
  <2>5. h[0] = a /\ m \in 0 .. m /\ g[m] \in S
    BY <2>1, <2>2 DEF IsRecursive
  <2>6. ASSUME NEW k \in 1 .. m + 1 PROVE h[k] = G[<<k, h[k - 1]>>]
    <3>1. CASE k = m + 1
      BY <2>2, <2>3, <2>5, <3>1
    <3>2. CASE k # m + 1
      <4>1. k \in 0 .. m /\ k \in 1 .. m /\ k - 1 \in 0 .. m
        BY <3>2
      <4> QED
        BY <2>1, <2>2, <4>1 DEF IsRecursive
    <3> QED
      BY <3>1, <3>2
  <2>7. ASSUME NEW k \in 0 .. m + 1 PROVE h[k] \in S
    <3>1. CASE k = m + 1
      <4>1. <<m + 1, g[m]>> \in Nat \X S
        BY <2>5
      <4> QED
        BY <2>3, <3>1, <4>1
    <3>2. CASE k # m + 1
      <4>1. k \in 0 .. m
        BY <3>2
      <4> QED
        BY <2>1, <2>2, <4>1
    <3> QED
      BY <3>1, <3>2
  <2>8. Is(h, m + 1)
    BY <2>4, <2>5, <2>6, <2>7 DEF IsRecursive
  <2> HIDE DEF Is
  <2> QED
    BY <2>8
<1>3. T \in SUBSET Nat /\ 0 \in Nat /\ 0 <= n
  OBVIOUS
<1> HIDE DEF T
<1>4. n \in T
  BY <1>1, <1>2, <1>3, UpTo
<1> QED
  BY <1>4 DEF T

-----------------------------------------------------------------------------
(***************************************************************************)
(* What a transfer request is answered with                                *)
(***************************************************************************)
LEMMA StartIs ==
  ASSUME NEW r
  PROVE  /\ \A k \in 0 .. MaxTransfers : TransferStart(r)[k] \in Nat /\ TransferStart(r)[k] >= 4
         /\ TransferStart(r)[0] = 4
         /\ \A k \in 1 .. MaxTransfers :
              TransferStart(r)[k] = TransferStart(r)[k - 1]
                                      + (IF IsRead(r, TransferStart(r)[k - 1]) THEN 1 ELSE 5)
<1> DEFINE Follows(p) == p + (IF IsRead(r, p) THEN 1 ELSE 5)
           G == [x \in Nat \X Nat |-> Follows(x[2])]
           Is(h) == h = [k \in 0 .. MaxTransfers |-> IF k = 0 THEN 4 ELSE Follows(h[k - 1])]
<1>1. G \in [Nat \X Nat -> Nat]
  OBVIOUS
<1>2. \A k, p \in Nat : G[<<k, p>>] = Follows(p)
  OBVIOUS
<1> HIDE DEF G, Follows
<1>3. PICK h : IsRecursive(h, MaxTransfers, 4, G) /\ \A k \in 0 .. MaxTransfers : h[k] \in Nat
  BY <1>1, Sizes, RecursiveFunction
<1>4. Is(h)
  <2>1. \A k \in 0 .. MaxTransfers : h[k] = IF k = 0 THEN 4 ELSE Follows(h[k - 1])
    <3> SUFFICES ASSUME NEW k \in 0 .. MaxTransfers
                 PROVE  h[k] = IF k = 0 THEN 4 ELSE Follows(h[k - 1])
      OBVIOUS
    <3>1. k # 0 => k \in 1 .. MaxTransfers /\ k - 1 \in 0 .. MaxTransfers /\ k \in Nat
      BY Sizes
    <3> QED
      BY <1>2, <1>3, <3>1 DEF IsRecursive
  <2> QED
    BY <1>3, <2>1 DEF IsRecursive
<1>5. TransferStart(r) = CHOOSE g : Is(g)
  BY DEF TransferStart, Follows
<1>6. Is(TransferStart(r))
  <2> HIDE DEF Is
  <2> QED
    BY <1>4, <1>5
<1> DEFINE s == TransferStart(r)
<1>7. Is(s)
  BY <1>6
<1> HIDE DEF s
<1>8. \A k \in 0 .. MaxTransfers : s[k] = IF k = 0 THEN 4 ELSE Follows(s[k - 1])
  BY <1>7
<1> DEFINE T == {k \in Nat : s[k] \in Nat /\ s[k] >= 4}
<1>9. s[0] = 4 /\ \A k \in 1 .. MaxTransfers : s[k] = Follows(s[k - 1])
  BY <1>8, Sizes
<1>10. ASSUME NEW k \in 0 .. MaxTransfers PROVE s[k] \in Nat /\ s[k] >= 4
  <2>1. 0 \in T /\ T \in SUBSET Nat
    BY <1>9
  <2>2. ASSUME NEW j \in Nat, j < k, j \in T PROVE j + 1 \in T
    <3>1. j + 1 \in 1 .. MaxTransfers /\ (j + 1) - 1 = j
      BY <2>2, Sizes
    <3>2. s[j + 1] = Follows(s[j])
      BY <1>9, <3>1
    <3> QED
      BY <2>2, <3>2 DEF Follows
  <2>3. k \in Nat /\ 0 <= k
    BY Sizes
  <2> HIDE DEF T
  <2>4. k \in T
    BY <2>1, <2>2, <2>3, UpTo
  <2> QED
    BY <2>4 DEF T
<1> QED
  BY <1>9, <1>10 DEF s, Follows

\* The bytes the k-th transfer of r adds to its answer.
Item(r, k) ==
  IF IsRead(r, TransferStart(r)[k - 1]) THEN <<r[TransferStart(r)[k - 1]], 0, 165, 165>> ELSE <<>>

LEMMA JoinedIs ==
  ASSUME NEW s \in Bytes, NEW t \in Bytes
  PROVE  /\ Joined(s, t) \in Bytes /\ Len(Joined(s, t)) = Len(s) + Len(t)
         /\ \A i \in 1 .. Len(s) : Joined(s, t)[i] = s[i]
  BY ConcatProperties DEF Joined, Bytes

LEMMA BytesAre ==
  /\ <<>> \in Bytes /\ Len(<<>>) = 0
  /\ \A a \in Nat : <<a>> \in Bytes /\ Len(<<a>>) = 1
  /\ \A a, b \in Nat : <<a, b>> \in Bytes /\ Len(<<a, b>>) = 2
  /\ \A a, b, c \in Nat : <<a, b, c>> \in Bytes /\ Len(<<a, b, c>>) = 3
  /\ \A a, b, c, d \in Nat : <<a, b, c, d>> \in Bytes /\ Len(<<a, b, c, d>>) = 4
  BY DEF Bytes

LEMMA ByteIs == \A b \in Byte : b \in Nat
  BY DEF Byte

LEMMA ByteValues == 0 .. 255 = Byte /\ \A n \in 0 .. 255 : n \in Byte
  BY DEF Byte

LEMMA ItemIs ==
  ASSUME NEW r \in Seq(Byte), NEW k \in 1 .. MaxTransfers
  PROVE  Item(r, k) \in Bytes /\ Len(Item(r, k)) <= 4
<1> DEFINE p == TransferStart(r)[k - 1]
<1>1. k - 1 \in 0 .. MaxTransfers
  BY Sizes
<1>2. p \in Nat /\ p >= 4
  BY <1>1, StartIs
<1> HIDE DEF p
<1>3. CASE IsRead(r, p)
  <2>1. p \in 1 .. Len(r)
    BY <1>2, <1>3 DEF IsRead
  <2>2. r[p] \in Nat
    <3>1. r[p] \in Byte
      BY <2>1, ElementOfSeq
    <3> QED
      BY <3>1, ByteIs
  <2>3. Item(r, k) = <<r[p], 0, 165, 165>>
    BY <1>3 DEF Item, p
  <2> QED
    BY <2>2, <2>3, BytesAre
<1>4. CASE ~IsRead(r, p)
  <2>1. Item(r, k) = <<>>
    BY <1>4 DEF Item, p
  <2> QED
    BY <2>1, BytesAre
<1> QED
  BY <1>3, <1>4

LEMMA TransferBytesAre ==
  ASSUME NEW r \in Seq(Byte)
  PROVE  /\ \A k \in 0 .. MaxTransfers : TransferBytes(r)[k] \in Bytes
         /\ TransferBytes(r)[0] = <<>>
         /\ \A k \in 1 .. MaxTransfers :
              TransferBytes(r)[k] = Joined(TransferBytes(r)[k - 1], Item(r, k))
<1> DEFINE G == [x \in Nat \X Bytes |->
                   IF x[1] \in 1 .. MaxTransfers THEN Joined(x[2], Item(r, x[1])) ELSE x[2]]
           Is(h) == h = [k \in 0 .. MaxTransfers |-> IF k = 0 THEN <<>> ELSE Joined(h[k - 1], Item(r, k))]
<1>1. G \in [Nat \X Bytes -> Bytes]
  <2>1. ASSUME NEW x \in Nat \X Bytes
        PROVE  (IF x[1] \in 1 .. MaxTransfers THEN Joined(x[2], Item(r, x[1])) ELSE x[2]) \in Bytes
    <3>1. x[2] \in Bytes
      OBVIOUS
    <3>2. CASE x[1] \in 1 .. MaxTransfers
      BY <3>1, <3>2, ItemIs, JoinedIs
    <3> QED
      BY <3>1, <3>2
  <2> QED
    BY <2>1
<1>2. \A k \in 1 .. MaxTransfers, s \in Bytes : G[<<k, s>>] = Joined(s, Item(r, k))
  BY Sizes
<1> HIDE DEF G
<1>3. PICK h : IsRecursive(h, MaxTransfers, <<>>, G) /\ \A k \in 0 .. MaxTransfers : h[k] \in Bytes
  BY <1>1, Sizes, BytesAre, RecursiveFunction
<1>4. Is(h)
  <2>1. \A k \in 0 .. MaxTransfers : h[k] = IF k = 0 THEN <<>> ELSE Joined(h[k - 1], Item(r, k))
    <3> SUFFICES ASSUME NEW k \in 0 .. MaxTransfers
                 PROVE  h[k] = IF k = 0 THEN <<>> ELSE Joined(h[k - 1], Item(r, k))
      OBVIOUS
    <3>1. k # 0 => k \in 1 .. MaxTransfers /\ k - 1 \in 0 .. MaxTransfers
      BY Sizes
    <3> QED
      BY <1>2, <1>3, <3>1 DEF IsRecursive
  <2> QED
    BY <1>3, <2>1 DEF IsRecursive
<1>5. TransferBytes(r) = CHOOSE g : Is(g)
  BY DEF TransferBytes, Joined, Item
<1>6. Is(TransferBytes(r))
  <2> HIDE DEF Is
  <2> QED
    BY <1>4, <1>5
<1> DEFINE s == TransferBytes(r)
<1>7. Is(s)
  BY <1>6
<1> HIDE DEF s
<1>8. \A k \in 0 .. MaxTransfers : s[k] = IF k = 0 THEN <<>> ELSE Joined(s[k - 1], Item(r, k))
  BY <1>7
<1>9. s[0] = <<>> /\ \A k \in 1 .. MaxTransfers : s[k] = Joined(s[k - 1], Item(r, k))
  BY <1>8, Sizes
<1> DEFINE T == {k \in Nat : s[k] \in Bytes}
<1>10. ASSUME NEW k \in 0 .. MaxTransfers PROVE s[k] \in Bytes
  <2>1. 0 \in T /\ T \in SUBSET Nat
    BY <1>9, BytesAre
  <2>2. ASSUME NEW j \in Nat, j < k, j \in T PROVE j + 1 \in T
    <3>1. j + 1 \in 1 .. MaxTransfers /\ (j + 1) - 1 = j
      BY <2>2, Sizes
    <3>2. s[j + 1] = Joined(s[j], Item(r, j + 1))
      BY <1>9, <3>1
    <3>3. s[j] \in Bytes /\ Item(r, j + 1) \in Bytes
      BY <2>2, <3>1, ItemIs
    <3>4. s[j + 1] \in Bytes
      BY <3>2, <3>3, JoinedIs
    <3> QED
      BY <3>4, <2>2
  <2>3. k \in Nat /\ 0 <= k
    BY Sizes
  <2> HIDE DEF T
  <2>4. k \in T
    BY <2>1, <2>2, <2>3, UpTo
  <2> QED
    BY <2>4 DEF T
<1> QED
  BY <1>9, <1>10 DEF s

\* A transfer starts after the one before it.
LEMMA StartsGrow ==
  ASSUME NEW r, NEW i \in 0 .. MaxTransfers, NEW k \in 0 .. MaxTransfers, i <= k
  PROVE  TransferStart(r)[i] <= TransferStart(r)[k]
<1> DEFINE s == TransferStart(r)
           T == {j \in Nat : s[i] <= s[j]}
<1>1. /\ \A j \in 0 .. MaxTransfers : s[j] \in Nat
      /\ \A j \in 1 .. MaxTransfers : s[j] = s[j - 1] + (IF IsRead(r, s[j - 1]) THEN 1 ELSE 5)
  BY StartIs
<1> HIDE DEF s
<1>2. i \in T /\ T \in SUBSET Nat
  BY <1>1, Sizes
<1>3. ASSUME NEW j \in Nat, i <= j, j < k, j \in T PROVE j + 1 \in T
  <2>1. j + 1 \in 1 .. MaxTransfers /\ (j + 1) - 1 = j /\ j \in 0 .. MaxTransfers
    BY <1>3, Sizes
  <2>2. s[j + 1] = s[j] + (IF IsRead(r, s[j]) THEN 1 ELSE 5) /\ s[j] \in Nat /\ s[i] \in Nat
    BY <1>1, <2>1
  <2>3. s[i] <= s[j + 1]
    BY <1>3, <2>2
  <2> QED
    BY <2>3
<1>4. i \in Nat /\ k \in Nat
  BY Sizes
<1> HIDE DEF T
<1>5. k \in T
  BY <1>2, <1>3, <1>4, UpTo
<1> QED
  BY <1>5 DEF T, s

\* The reply of a request whose first k transfers, and no more, are whole.
LEMMA TransferReplyIs ==
  ASSUME NEW r \in Seq(Byte), Len(r) >= 3, r[3] <= MaxTransfers, NEW f,
         NEW k \in 0 .. r[3], TransferStart(r)[k] <= Len(r) + 1,
         k < r[3] => Len(r) + 1 < TransferStart(r)[k + 1]
  PROVE  TransferReply(r, f) =
           Joined(Head3(k, IF k < r[3] THEN 4 ELSE IF f = "parity" THEN 9 ELSE 1),
                  TransferBytes(r)[k])
<1> DEFINE whole == {j \in 0 .. r[3] : TransferStart(r)[j] <= Len(r) + 1}
           Largest(j) == j \in whole /\ \A i \in whole : i <= j
           done == CHOOSE j \in whole : \A i \in whole : i <= j
<1>1. r[3] \in Nat /\ Len(r) \in Nat /\ 0 .. r[3] \subseteq 0 .. MaxTransfers
  <2>1. 3 \in 1 .. Len(r)
    OBVIOUS
  <2>2. r[3] \in Byte
    BY <2>1, ElementOfSeq
  <2> QED
    BY <2>2, ByteIs, Sizes
<1>2. ASSUME NEW i \in whole PROVE i <= k
  <2> SUFFICES ASSUME k < i PROVE FALSE
    BY <1>1
  <2>1. k + 1 \in 0 .. MaxTransfers /\ i \in 0 .. MaxTransfers /\ k + 1 <= i /\ k < r[3]
    BY <1>1
  <2>2. TransferStart(r)[k + 1] <= TransferStart(r)[i]
    BY <2>1, StartsGrow
  <2>3. TransferStart(r)[k + 1] \in Nat /\ TransferStart(r)[i] \in Nat
    BY <2>1, StartIs
  <2> QED
    BY <1>1, <2>1, <2>2, <2>3
<1>3. k \in whole
  OBVIOUS
<1>4. whole \subseteq Nat
  BY <1>1
<1> HIDE DEF whole
<1>5. done = k
  <2>1. done \in whole /\ \A i \in whole : i <= done
    BY <1>2, <1>3
  <2>2. done <= k /\ k <= done /\ done \in Nat /\ k \in Nat
    BY <1>2, <1>3, <1>4, <2>1
  <2> QED
    BY <2>2
<1>6. TransferReply(r, f) =
        <<5, done, IF done < r[3] THEN 4 ELSE IF f = "parity" THEN 9 ELSE 1>> \o TransferBytes(r)[done]
  BY DEF TransferReply, whole
<1> HIDE DEF done
<1> QED
  BY <1>5, <1>6 DEF Joined, Head3

\* A reply is no longer than its transfers make it.
LEMMA TransferBytesShort ==
  ASSUME NEW r \in Seq(Byte), NEW k \in 0 .. MaxTransfers
  PROVE  Len(TransferBytes(r)[k]) <= 4 * k
<1> DEFINE b == TransferBytes(r)
           T == {j \in Nat : Len(b[j]) <= 4 * j}
<1>1. /\ \A j \in 0 .. MaxTransfers : b[j] \in Bytes
      /\ b[0] = <<>> /\ \A j \in 1 .. MaxTransfers : b[j] = Joined(b[j - 1], Item(r, j))
  BY TransferBytesAre
<1> HIDE DEF b
<1>2. 0 \in T /\ T \in SUBSET Nat
  BY <1>1, BytesAre
<1>3. ASSUME NEW j \in Nat, j < k, j \in T PROVE j + 1 \in T
  <2>1. j + 1 \in 1 .. MaxTransfers /\ (j + 1) - 1 = j /\ j \in 0 .. MaxTransfers
    BY <1>3, Sizes
  <2>2. b[j] \in Bytes /\ Item(r, j + 1) \in Bytes /\ Len(Item(r, j + 1)) <= 4
    BY <1>1, <2>1, ItemIs
  <2>3. Len(b[j + 1]) = Len(b[j]) + Len(Item(r, j + 1))
    <3>1. b[j + 1] = Joined(b[j], Item(r, j + 1))
      BY <1>1, <2>1
    <3> QED
      BY <2>2, <3>1, JoinedIs
  <2>4. Len(b[j]) \in Nat /\ Len(Item(r, j + 1)) \in Nat
    BY <2>2, LenProperties DEF Bytes
  <2>5. Len(b[j]) <= 4 * j
    BY <1>3
  <2>6. \A x, y, z \in Nat : x <= 4 * j /\ y <= 4 /\ z = x + y => z <= 4 * (j + 1)
    BY <1>3
  <2>7. Len(b[j]) + Len(Item(r, j + 1)) \in Nat
    <3>1. \A x, y \in Nat : x + y \in Nat
      OBVIOUS
    <3> QED
      BY <2>4, <3>1
  <2>8. Len(b[j + 1]) <= 4 * (j + 1)
    BY <2>2, <2>3, <2>4, <2>5, <2>6, <2>7
  <2> QED
    BY <2>8
<1>4. k \in Nat /\ 0 <= k
  BY Sizes
<1> HIDE DEF T
<1>5. k \in T
  BY <1>2, <1>3, <1>4, UpTo
<1> QED
  BY <1>5 DEF T, b

-----------------------------------------------------------------------------
(***************************************************************************)
(* Types                                                                   *)
(***************************************************************************)
LEMMA InitInv == Init => IInv
<1> SUFFICES ASSUME Init PROVE IInv
  OBVIOUS
<1>1. FirmwareType
  <2>1. NoByte \in Register(Byte) /\ NoByte \in Register(Nat)
    BY ByteValues DEF NoByte, Register
  <2> QED
    <3>1. <<>> \in Bytes /\ 0 \in 0 .. PollBudget
      BY BytesAre, Sizes
    <3> HIDE DEF NoByte
    <3> QED
      BY <2>1, <3>1 DEF Init, FirmwareType, Faults
<1>2. EngineType
  <2>1. <<0, 0, 0, 0>> \in [1 .. 4 -> Byte]
    BY DEF Byte
  <2>2. <<>> \in Seq(Byte)
    OBVIOUS
  <2> QED
    BY <2>1, <2>2, BytesAre DEF Init, EngineType, States, Byte
<1>3. TckHigh
  BY DEF Init, TckHigh
<1>4. Resting
  BY DEF Init, Resting, NoByte
<1> QED
  BY <1>1, <1>2, <1>3, <1>4 DEF IInv, TypeOK, Phase

LEMMA ReadPortType == ASSUME EngineType, ReadPort PROVE data' \in Byte
<1>1. CASE address < Len(request)
  <2>1. address + 1 \in 1 .. Len(request)
    BY <1>1 DEF EngineType
  <2>2. request[address + 1] \in Byte
    BY <2>1, ElementOfSeq DEF EngineType
  <2> QED
    BY <1>1, <2>2 DEF ReadPort
<1>2. CASE ~(address < Len(request))
  BY <1>2, ByteValues DEF ReadPort
<1> QED
  BY <1>1, <1>2

LEMMA CaptureType ==
  ASSUME TypeOK, TckHigh, Capture, ReadPort PROVE EngineType' /\ TckHigh'
<1> USE DEF TypeOK, FirmwareType
<1>0. data' \in Byte
  BY ReadPortType
<1>1. cmd.byte \in Byte
  BY DEF Register
<1>2. Append(request, cmd.byte) \in Seq(Byte)
  BY <1>1, AppendProperties DEF EngineType
<1>3. request' \in Seq(Byte)
  BY <1>2 DEF Capture, EngineType
<1>4. header' \in [1 .. 4 -> Byte]
  <2>1. Len(request) \in Nat
    BY DEF EngineType
  <2>2. ASSUME NEW i \in 1 .. 4 PROVE [header EXCEPT ![i] = cmd.byte] \in [1 .. 4 -> Byte]
    BY <1>1 DEF EngineType
  <2>3. Len(request) < 4 => Len(request) + 1 \in 1 .. 4
    BY <2>1
  <2> HIDE DEF TypeOK, FirmwareType
  <2> QED
    BY <2>2, <2>3 DEF Capture, EngineType
<1>5. state' \in States /\ (TckHigh => TckHigh')
  BY DEF Capture, EngineType, States, TckHigh
<1> HIDE DEF TypeOK, FirmwareType
<1> QED
  BY <1>0, <1>3, <1>4, <1>5 DEF Capture, EngineType, TypeOK, transferVars

LEMMA AnswerType ==
  ASSUME EngineType, NEW s \in Bytes, Answer(s), UNCHANGED pins
  PROVE  /\ response' = Joined(<<Command>>, s) /\ response' \in Bytes
         /\ responsePos' = 0 /\ state' = "RESPOND"
         /\ UNCHANGED <<request, header, transferVars, wait, clocks, pins>>
<1>1. Command \in Nat
  BY ByteIs DEF Command, EngineType
<1>2. <<Command>> \in Bytes
  BY <1>1, BytesAre
<1> QED
  BY <1>2, JoinedIs DEF Answer, Joined

-----------------------------------------------------------------------------
(***************************************************************************)
(* PREPARE                                                                 *)
(***************************************************************************)
\* The next response is an answer to the request.
Answered ==
  /\ state' = "RESPOND" /\ response' \in Answers(request, real, force)
  /\ Len(response') > 0 /\ Len(response') <= MaxReply

LEMMA AnsweredWith ==
  ASSUME EngineType, TckHigh, state = "PREPARE", NEW s \in Bytes, Answer(s), UNCHANGED pins,
         ReadPort, Joined(<<Command>>, s) \in Answers(request, real, force), Len(s) + 1 <= MaxReply
  PROVE  EngineType' /\ TckHigh' /\ responsePos' = 0 /\ UNCHANGED <<request, header, clocks>> /\ Answered
<1>1. /\ response' = Joined(<<Command>>, s) /\ response' \in Bytes
      /\ responsePos' = 0 /\ state' = "RESPOND"
      /\ UNCHANGED <<request, header, transferVars, wait, clocks, pins>>
  BY AnswerType
<1>2. data' \in Byte
  BY ReadPortType
<1>3. Len(response') = 1 + Len(s) /\ Len(s) \in Nat
  <2>1. Command \in Nat
    BY ByteIs DEF Command, EngineType
  <2>2. <<Command>> \in Bytes /\ Len(<<Command>>) = 1
    BY <2>1, BytesAre
  <2>3. Len(Joined(<<Command>>, s)) = 1 + Len(s)
    BY <2>2, JoinedIs
  <2>4. Len(s) \in Nat
    BY LenProperties DEF Bytes
  <2> QED
    BY <1>1, <2>3, <2>4
<1>4. EngineType'
  BY <1>1, <1>2 DEF EngineType, transferVars, States
<1>5. TckHigh'
  BY <1>1 DEF TckHigh
<1>6. Answered
  <2>1. Len(response') > 0 /\ Len(response') <= MaxReply
    BY <1>3, Sizes
  <2> QED
    BY <1>1, <2>1 DEF Answered
<1> QED
  BY <1>1, <1>4, <1>5, <1>6

LEMMA JoinsAre ==
  ASSUME NEW c \in Nat
  PROVE  /\ \A a \in Nat : Joined(<<c>>, <<a>>) = <<c, a>>
         /\ \A a, b \in Nat : Joined(<<c>>, <<a, b>>) = <<c, a, b>>
         /\ \A s \in Bytes : Joined(<<c>>, <<7>> \o s) = <<c, 7>> \o s
<1>1. \A x, a \in Nat : <<x>> \o <<a>> = <<x, a>>
  <2> SUFFICES ASSUME NEW x \in Nat, NEW a \in Nat PROVE <<x>> \o <<a>> = <<x, a>>
    OBVIOUS
  <2> DEFINE u == Append(<<x>>, a)
             v == <<x, a>>
  <2>1. <<x>> \in Seq(Nat) /\ Len(<<x>>) = 1 /\ <<x>>[1] = x
    OBVIOUS
  <2>2. v \in Seq(Nat) /\ Len(v) = 2 /\ v[1] = x /\ v[2] = a
    OBVIOUS
  <2>3. u \in Seq(Nat) /\ Len(u) = 2 /\ u[1] = x /\ u[2] = a
    BY <2>1, AppendProperties
  <2> HIDE DEF u, v
  <2>4. \A i \in 1 .. Len(u) : u[i] = v[i]
    BY <2>2, <2>3
  <2>5. u = v
    BY <2>2, <2>3, <2>4, SeqEqual
  <2> QED
    BY <2>1, <2>5, AppendIsConcat DEF u, v
<1>2. \A a, b \in Nat : <<c>> \o <<a, b>> = <<c, a, b>>
  <2> SUFFICES ASSUME NEW a \in Nat, NEW b \in Nat PROVE <<c>> \o <<a, b>> = <<c, a, b>>
    OBVIOUS
  <2>1. <<c>> \in Seq(Nat) /\ <<a>> \in Seq(Nat) /\ <<b>> \in Seq(Nat) /\ <<c, a>> \in Seq(Nat)
    OBVIOUS
  <2>2. (<<c>> \o <<a>>) \o <<b>> = <<c>> \o (<<a>> \o <<b>>)
    BY <2>1, ConcatAssociative
  <2>3. <<c>> \o <<a>> = <<c, a>> /\ <<a>> \o <<b>> = <<a, b>>
    BY <1>1
  <2>4. <<c, a>> \o <<b>> = Append(<<c, a>>, b)
    BY <2>1, AppendIsConcat
  <2>5. Append(<<c, a>>, b) = <<c, a, b>>
    <3> DEFINE t == <<c, a>>
               u == Append(t, b)
               v == <<c, a, b>>
    <3>1. t \in Seq(Nat) /\ Len(t) = 2 /\ t[1] = c /\ t[2] = a
      OBVIOUS
    <3>2. v \in Seq(Nat) /\ Len(v) = 3 /\ v[1] = c /\ v[2] = a /\ v[3] = b
      OBVIOUS
    <3> HIDE DEF t, v
    <3>3. u \in Seq(Nat) /\ Len(u) = 3 /\ u[1] = c /\ u[2] = a /\ u[3] = b
      <4>1. /\ u \in Seq(Nat) /\ Len(u) = Len(t) + 1
            /\ \A i \in 1 .. Len(t) : u[i] = t[i]
            /\ u[Len(t) + 1] = b
        <5>1. t \in Seq(Nat) /\ b \in Nat
          BY <3>1
        <5> QED
          BY <5>1, AppendProperties
      <4> HIDE DEF u
      <4> QED
        BY <3>1, <4>1
    <3> HIDE DEF u
    <3>4. \A i \in 1 .. Len(u) : u[i] = v[i]
      BY <3>2, <3>3
    <3>5. u = v
      BY <3>2, <3>3, <3>4, SeqEqual
    <3> QED
      BY <3>5 DEF t, u, v
  <2> QED
    BY <2>2, <2>3, <2>4, <2>5
<1>3. ASSUME NEW s \in Bytes PROVE Joined(<<c>>, <<7>> \o s) = <<c, 7>> \o s
  <2>1. <<c>> \in Bytes /\ <<7>> \in Bytes
    BY BytesAre
  <2>2. (<<c>> \o <<7>>) \o s = <<c>> \o (<<7>> \o s)
    BY <2>1, ConcatAssociative DEF Bytes
  <2>3. <<c>> \o <<7>> = <<c, 7>>
    BY <1>1 DEF Joined
  <2> QED
    BY <2>2, <2>3 DEF Joined
<1> QED
  BY <1>1, <1>2, <1>3 DEF Joined

LEMMA AnswersAre ==
  ASSUME NEW r, NEW t, NEW f
  PROVE  /\ r[1] = 0 => Answers(r, t, f) = {IF Len(r) > 1 /\ r[2] = 1 THEN <<0, 7>> \o InfoName ELSE <<0, 0>>}
         /\ r[1] = 2 => Answers(r, t, f) = {<<2, IF Len(r) > 1 THEN r[2] % 4 ELSE 0>>}
         /\ r[1] = 5 => Answers(r, t, f) =
              {IF Len(r) < 3 \/ r[3] > MaxTransfers \/ f = "fault" THEN <<5, 0, 4>>
               ELSE IF f = "wait" THEN <<5, 0, 2>> ELSE TransferReply(r, f)}
         /\ r[1] = 7 => Answers(r, t, f) = {<<7, 0>>}
         /\ r[1] = 8 => Answers(r, t, f) = {<<8, 0>>}
         /\ r[1] = 16 => Answers(r, t, f) = {<<16, IF Len(r) > 1 THEN r[2] ELSE 0>>}
         /\ r[1] = 20 => Answers(r, t, f) =
              IF t THEN {<<20, 0, 0>>, <<20, 0, 1>>}
              ELSE {<<20, 0, IF Len(r) > 3 THEN Flipped(r[4]) ELSE 0>>}
         /\ r[1] \notin {0, 2, 5, 7, 8, 16, 20} => Answers(r, t, f) = {<<r[1], 255>>}
  BY DEF Answers

\* What the header says of the request.
LEMMA HeaderIs ==
  ASSUME EngineType, request # <<>>, HeaderOf(request)
  PROVE  /\ Len(request) \in Nat /\ Len(request) > 0
         /\ Command = request[1] /\ (Len(request) > 1 => Argument = request[2])
         /\ (Len(request) > 2 => Count = request[3]) /\ (Len(request) > 3 => Value = request[4])
         /\ Command \in Nat /\ Argument \in Nat /\ Count \in Nat /\ Value \in Nat
<1>1. request \in Seq(Byte)
  BY DEF EngineType
<1>2. Len(request) \in Nat /\ Len(request) > 0
  <2>1. Len(request) \in Nat \ {0}
    BY <1>1, EmptySeq
  <2> QED
    BY <2>1
<1>3. \A i \in 1 .. 4 : header[i] \in Nat
  BY ByteIs DEF EngineType
<1> QED
  BY <1>2, <1>3 DEF HeaderOf, Command, Argument, Count, Value

LEMMA InfoNameIs == InfoName \in Bytes /\ Len(InfoName) = 7
  BY DEF InfoName, Bytes

LEMMA ShortReplies ==
  ASSUME NEW s \in Bytes, Len(s) <= 8
  PROVE  Len(s) + 1 <= MaxReply
  BY LenProperties, Sizes DEF Bytes

LEMMA PrepareInfoStep ==
  ASSUME EngineType, TckHigh, state = "PREPARE", request # <<>>, HeaderOf(request),
         ReadPort, PrepareInfo
  PROVE  EngineType' /\ TckHigh' /\ responsePos' = 0 /\ UNCHANGED <<request, header, clocks>> /\ Answered
<1> DEFINE s == IF Len(request) > 1 /\ Argument = 1 THEN <<7>> \o InfoName ELSE <<0>>
<1>1. Answer(s) /\ Command = 0 /\ UNCHANGED pins
  BY DEF PrepareInfo
<1>2. <<7>> \o InfoName \in Bytes /\ Len(<<7>> \o InfoName) = 8
  <2>1. <<7>> \in Seq(Nat) /\ Len(<<7>>) = 1 /\ InfoName \in Seq(Nat)
    BY BytesAre, InfoNameIs DEF Bytes
  <2>2. <<7>> \o InfoName \in Seq(Nat) /\ Len(<<7>> \o InfoName) = Len(<<7>>) + Len(InfoName)
    BY <2>1, ConcatProperties
  <2> QED
    BY <2>1, <2>2, InfoNameIs DEF Bytes
<1>3. s \in Bytes /\ Len(s) <= 8
  BY <1>2, BytesAre
<1>4. Joined(<<Command>>, s) \in Answers(request, real, force)
  <2>1. request[1] = 0 /\ (Len(request) > 1 => Argument = request[2])
    BY <1>1, HeaderIs
  <2>2. Joined(<<0>>, <<7>> \o InfoName) = <<0, 7>> \o InfoName /\ Joined(<<0>>, <<0>>) = <<0, 0>>
    BY JoinsAre, InfoNameIs
  <2>3. Answers(request, real, force)
          = {IF Len(request) > 1 /\ request[2] = 1 THEN <<0, 7>> \o InfoName ELSE <<0, 0>>}
    BY <2>1, AnswersAre
  <2>4. Joined(<<0>>, s) = IF Len(request) > 1 /\ request[2] = 1 THEN <<0, 7>> \o InfoName ELSE <<0, 0>>
    BY <2>1, <2>2
  <2> QED
    BY <1>1, <2>3, <2>4
<1>5. Len(s) + 1 <= MaxReply
  BY <1>3, ShortReplies
<1> HIDE DEF s
<1> QED
  BY <1>1, <1>3, <1>4, <1>5, AnsweredWith

\* The commands that are answered with a single byte.
LEMMA PrepareByteStep ==
  ASSUME EngineType, TckHigh, state = "PREPARE", request # <<>>, HeaderOf(request),
         ReadPort, PrepareConnect \/ PrepareAbort \/ PreparePins \/ PrepareUnknown
  PROVE  EngineType' /\ TckHigh' /\ responsePos' = 0 /\ UNCHANGED <<request, header, clocks>> /\ Answered
<1>1. /\ Command = request[1] /\ (Len(request) > 1 => Argument = request[2])
      /\ Command \in Nat /\ Argument \in Nat
  BY HeaderIs
<1>a. /\ request[1] = 2 =>
           Answers(request, real, force) = {<<2, IF Len(request) > 1 THEN request[2] % 4 ELSE 0>>}
      /\ request[1] = 16 =>
           Answers(request, real, force) = {<<16, IF Len(request) > 1 THEN request[2] ELSE 0>>}
  BY AnswersAre
<1>2. \E b \in Nat : Answer(<<b>>) /\ UNCHANGED pins /\ Answers(request, real, force) = {<<Command, b>>}
  <2>1. CASE PrepareConnect
    <3> DEFINE b == IF Len(request) > 1 THEN Argument % 4 ELSE 0
    <3>1. b \in Nat
      BY <1>1
    <3>2. Command = 2 /\ Answer(<<b>>) /\ UNCHANGED pins
      BY <2>1 DEF PrepareConnect
    <3>3. Answers(request, real, force) = {<<2, IF Len(request) > 1 THEN request[2] % 4 ELSE 0>>}
      BY <1>1, <1>a, <3>2
    <3>4. Answers(request, real, force) = {<<Command, b>>}
      BY <1>1, <3>2, <3>3
    <3> QED
      BY <3>1, <3>2, <3>4
  <2>2. CASE PrepareAbort
    BY <1>1, <2>2, AnswersAre DEF PrepareAbort
  <2>3. CASE PreparePins
    <3> DEFINE b == IF Len(request) > 1 THEN Argument ELSE 0
    <3>1. b \in Nat
      BY <1>1
    <3>2. Command = 16 /\ Answer(<<b>>) /\ UNCHANGED pins
      BY <2>3 DEF PreparePins
    <3>3. Answers(request, real, force) = {<<16, IF Len(request) > 1 THEN request[2] ELSE 0>>}
      BY <1>1, <1>a, <3>2
    <3>4. Answers(request, real, force) = {<<Command, b>>}
      BY <1>1, <3>2, <3>3
    <3> QED
      BY <3>1, <3>2, <3>4
  <2>4. CASE PrepareUnknown
    BY <1>1, <2>4, AnswersAre DEF PrepareUnknown
  <2> QED
    BY <2>1, <2>2, <2>3, <2>4
<1>3. PICK b \in Nat :
        Answer(<<b>>) /\ UNCHANGED pins /\ Answers(request, real, force) = {<<Command, b>>}
  BY <1>2
<1>4. Joined(<<Command>>, <<b>>) = <<Command, b>>
  BY <1>1, JoinsAre
<1>5. <<b>> \in Bytes /\ Len(<<b>>) + 1 <= MaxReply
  <2> DEFINE s == <<b>>
  <2>1. s \in Bytes /\ Len(s) <= 8
    BY BytesAre
  <2> HIDE DEF s
  <2>2. Len(s) + 1 <= MaxReply
    BY <2>1, ShortReplies
  <2> QED
    BY <2>1, <2>2 DEF s
<1>6. Joined(<<Command>>, <<b>>) \in Answers(request, real, force)
  BY <1>3, <1>4
<1> QED
  BY <1>3, <1>5, <1>6, AnsweredWith

\* A clock of the target, or the reply of the debug target that stands in for it.
LEMMA PrepareSequenceStep ==
  ASSUME EngineType, TckHigh, state = "PREPARE", real \in BOOLEAN,
         request # <<>>, HeaderOf(request), ReadPort, PrepareSequence
  PROVE  /\ EngineType' /\ TckHigh' /\ responsePos' = 0 /\ UNCHANGED <<request, header, clocks>>
         /\ \/ ~real /\ Answered
            \/ /\ state' = "JTAG_SETUP" /\ real /\ Command = 20
               /\ response' = <<20, 0>> /\ wait' = 0
<1>1. /\ Command = request[1] /\ (Len(request) > 3 => Value = request[4])
      /\ Command \in Nat /\ Value \in Nat /\ Command = 20
  BY HeaderIs DEF PrepareSequence
<1>2. CASE real
  <2>1. /\ response' = <<20, 0>> /\ responsePos' = 0 /\ wait' = 0 /\ state' = "JTAG_SETUP"
        /\ pins' = [pins EXCEPT !.tms = Bit(Count, 7), !.tdi = Bit(Value, 0), !.tck = 0]
        /\ UNCHANGED <<request, header, transferVars, clocks>>
    BY <1>1, <1>2 DEF PrepareSequence
  <2>2. <<20, 0>> \in Bytes
    BY BytesAre
  <2>3. \A n \in Nat : n % 2 \in {0, 1}
    OBVIOUS
  <2>4. Bit(Count, 7) \in {0, 1} /\ Bit(Value, 0) \in {0, 1}
    <3>1. Count \in Nat /\ Value \in Nat
      BY HeaderIs
    <3>2. \A n \in Nat, d \in Nat \ {0} : (n \div d) \in Nat
      OBVIOUS
    <3>3. 2 ^ 7 \in Nat \ {0} /\ 2 ^ 0 \in Nat \ {0}
      OBVIOUS
    <3> QED
      BY <2>3, <3>1, <3>2, <3>3 DEF Bit
  <2>5. data' \in Byte
    BY ReadPortType
  <2>6. EngineType'
    BY <2>1, <2>2, <2>4, <2>5 DEF EngineType, transferVars, States
  <2>7. TckHigh'
    BY <2>1 DEF TckHigh, EngineType
  <2> QED
    BY <1>1, <1>2, <2>1, <2>6, <2>7
<1>3. CASE ~real
  <2> DEFINE s == <<0, IF Len(request) > 3 THEN Flipped(Value) ELSE 0>>
  <2>1. Answer(s) /\ UNCHANGED pins
    BY <1>3 DEF PrepareSequence
  <2>2. (IF Len(request) > 3 THEN Flipped(Value) ELSE 0) \in Nat
    BY <1>1 DEF Flipped
  <2>3. s \in Bytes /\ Len(s) <= 8
    BY <2>2, BytesAre
  <2>4. Joined(<<Command>>, s) \in Answers(request, real, force)
    <3>1. Answers(request, real, force)
            = {<<20, 0, IF Len(request) > 3 THEN Flipped(request[4]) ELSE 0>>}
      <4>1. request[1] = 20
        BY <1>1
      <4>2. Answers(request, real, force)
              = IF real THEN {<<20, 0, 0>>, <<20, 0, 1>>}
                ELSE {<<20, 0, IF Len(request) > 3 THEN Flipped(request[4]) ELSE 0>>}
        BY <4>1, AnswersAre
      <4> QED
        BY <1>3, <4>2
    <3>2. Joined(<<20>>, s) = <<20, 0, IF Len(request) > 3 THEN Flipped(Value) ELSE 0>>
      BY <2>2, JoinsAre
    <3> QED
      BY <1>1, <3>1, <3>2
  <2> HIDE DEF s
  <2>5. Len(s) + 1 <= MaxReply
    BY <2>3, ShortReplies
  <2> QED
    BY <1>3, <2>1, <2>3, <2>4, <2>5, AnsweredWith
<1> QED
  BY <1>2, <1>3

\* A transfer that is refused, or begins.
LEMMA PrepareTransferStep ==
  ASSUME EngineType, TckHigh, state = "PREPARE", force \in Faults,
         request # <<>>, HeaderOf(request), ReadPort, PrepareTransfer
  PROVE  /\ EngineType' /\ TckHigh' /\ responsePos' = 0 /\ UNCHANGED <<request, header, clocks>>
         /\ \/ Answered
            \/ /\ state' = "FETCH_TRANSFER" /\ Command = 5
               /\ Len(request) >= 3 /\ Count <= MaxTransfers /\ force \notin {"wait", "fault"}
               /\ index' = 0 /\ completed' = 0 /\ requestPos' = 3 /\ address' = 3
               /\ response' = Joined(Head3(0, IF force = "parity" THEN 9 ELSE 1), <<>>)
<1>1. /\ Command = request[1] /\ (Len(request) > 2 => Count = request[3])
      /\ Count \in Nat /\ Len(request) \in Nat /\ Command = 5
  BY HeaderIs DEF PrepareTransfer
<1>2. CASE TransferRefused \/ force \in {"wait", "fault"}
  <2> DEFINE a == IF ~TransferRefused /\ force = "wait" THEN 2 ELSE 4
             s == <<0, a>>
  <2>1. Answer(s) /\ UNCHANGED pins
    BY <1>2 DEF PrepareTransfer
  <2>2. a \in Nat
    OBVIOUS
  <2>3. s \in Bytes /\ Len(s) <= 8
    <3> HIDE DEF a
    <3> QED
      BY <2>2, BytesAre
  <2>4. Joined(<<Command>>, s) \in Answers(request, real, force)
    <3>1. Answers(request, real, force)
            = {IF Len(request) < 3 \/ request[3] > MaxTransfers \/ force = "fault" THEN <<5, 0, 4>>
               ELSE IF force = "wait" THEN <<5, 0, 2>> ELSE TransferReply(request, force)}
      <4>1. request[1] = 5
        BY <1>1
      <4> QED
        BY <4>1, AnswersAre
    <3>2. TransferRefused <=> Len(request) < 3 \/ request[3] > MaxTransfers
      BY <1>1 DEF TransferRefused
    <3>3. Answers(request, real, force) = {<<5, 0, a>>}
      BY <1>2, <3>1, <3>2
    <3>4. Joined(<<5>>, s) = <<5, 0, a>>
      <4> HIDE DEF a
      <4> QED
        BY <2>2, JoinsAre
    <3> QED
      BY <1>1, <3>3, <3>4
  <2> HIDE DEF s
  <2>5. Len(s) + 1 <= MaxReply
    BY <2>3, ShortReplies
  <2> QED
    BY <2>1, <2>3, <2>4, <2>5, AnsweredWith
<1>3. CASE ~(TransferRefused \/ force \in {"wait", "fault"})
  <2> DEFINE a == IF force = "parity" THEN 9 ELSE 1
  <2>1. /\ response' = Head3(0, a) /\ responsePos' = 0
        /\ index' = 0 /\ requestPos' = 3 /\ address' = 3 /\ completed' = 0
        /\ state' = "FETCH_TRANSFER" /\ UNCHANGED <<request, header, wait, clocks, pins>>
    BY <1>3 DEF PrepareTransfer, Head3
  <2>2. Head3(0, a) \in Bytes
    BY BytesAre DEF Head3
  <2> HIDE DEF a
  <2>3. Joined(Head3(0, a), <<>>) = Head3(0, a)
    BY <2>2, ConcatEmptySeq DEF Joined, Bytes
  <2>4. Len(request) >= 3 /\ Count <= MaxTransfers /\ force \notin {"wait", "fault"}
    BY <1>1, <1>3, Sizes DEF TransferRefused
  <2>5. data' \in Byte
    BY ReadPortType
  <2>6. EngineType'
    BY <2>1, <2>2, <2>5 DEF EngineType, States
  <2>7. TckHigh'
    BY <2>1 DEF TckHigh
  <2> QED
    BY <1>1, <2>1, <2>3, <2>4, <2>6, <2>7 DEF a
<1> QED
  BY <1>2, <1>3

-----------------------------------------------------------------------------
(***************************************************************************)
(* FETCH_TRANSFER and BUILD_TRANSFER                                       *)
(***************************************************************************)
LEMMA JoinedThrice ==
  ASSUME NEW s \in Bytes, NEW t \in Bytes, NEW u \in Bytes
  PROVE  /\ Joined(Joined(s, t), u) = Joined(s, Joined(t, u)) /\ Joined(s, <<>>) = s
  BY ConcatAssociative, ConcatEmptySeq DEF Joined, Bytes

LEMMA Head3Is ==
  ASSUME NEW d \in Nat, NEW a \in Nat
  PROVE  /\ Head3(d, a) \in Bytes /\ Len(Head3(d, a)) = 3
         /\ Head3(d, a)[1] = 5 /\ Head3(d, a)[2] = d /\ Head3(d, a)[3] = a
  BY DEF Head3, Bytes

\* The number of transfers and the acknowledgement are written into their places.
LEMMA FinishIs ==
  ASSUME NEW s \in Bytes, NEW d \in Nat, NEW a \in Nat, NEW b \in Nat
  PROVE  /\ Joined(Head3(0, a), s)[3] = a
         /\ [Joined(Head3(0, a), s) EXCEPT ![2] = d, ![3] = b] = Joined(Head3(d, b), s)
         /\ Joined(Head3(d, b), s) \in Bytes /\ Len(Joined(Head3(d, b), s)) = 3 + Len(s)
<1> DEFINE x == Head3(0, a)
           y == Head3(d, b)
           u == Joined(x, s)
           v == Joined(y, s)
           w == [u EXCEPT ![2] = d, ![3] = b]
<1>1. x \in Bytes /\ Len(x) = 3 /\ x[1] = 5 /\ x[2] = 0 /\ x[3] = a
  BY Head3Is
<1>2. y \in Bytes /\ Len(y) = 3 /\ y[1] = 5 /\ y[2] = d /\ y[3] = b
  BY Head3Is
<1> HIDE DEF x, y
<1>3. Len(s) \in Nat /\ s \in Seq(Nat) /\ x \in Seq(Nat) /\ y \in Seq(Nat)
  BY <1>1, <1>2, LenProperties DEF Bytes
<1>4. /\ u \in Seq(Nat) /\ Len(u) = Len(x) + Len(s)
      /\ \A i \in 1 .. Len(x) + Len(s) : u[i] = IF i <= Len(x) THEN x[i] ELSE s[i - Len(x)]
  BY <1>3, ConcatProperties DEF Joined
<1>5. /\ v \in Seq(Nat) /\ Len(v) = Len(y) + Len(s)
      /\ \A i \in 1 .. Len(y) + Len(s) : v[i] = IF i <= Len(y) THEN y[i] ELSE s[i - Len(y)]
  BY <1>3, ConcatProperties DEF Joined
<1> HIDE DEF u, v
<1>6. u[3] = a
  BY <1>1, <1>3, <1>4
<1>7. /\ u \in Seq(Nat) /\ Len(u) \in Nat /\ Len(v) = Len(u)
      /\ 2 \in 1 .. Len(u) /\ 3 \in 1 .. Len(u)
  BY <1>1, <1>2, <1>3, <1>4, <1>5
<1>8. /\ w \in Seq(Nat) /\ Len(w) = Len(u)
      /\ \A i \in 1 .. Len(u) : w[i] = IF i = 2 THEN d ELSE IF i = 3 THEN b ELSE u[i]
  <2> DEFINE t == [u EXCEPT ![2] = d]
  <2>1. t \in Seq(Nat) /\ Len(t) = Len(u) /\ \A i \in 1 .. Len(u) : t[i] = IF i = 2 THEN d ELSE u[i]
    BY <1>7, ExceptSeq
  <2>2. w = [t EXCEPT ![3] = b]
    OBVIOUS
  <2> HIDE DEF t, w
  <2>3. 3 \in 1 .. Len(t) /\ t \in Seq(Nat) /\ Len(t) = Len(u)
    BY <1>7, <2>1
  <2>4. /\ [t EXCEPT ![3] = b] \in Seq(Nat) /\ Len([t EXCEPT ![3] = b]) = Len(t)
        /\ \A i \in 1 .. Len(t) : [t EXCEPT ![3] = b][i] = IF i = 3 THEN b ELSE t[i]
    BY <2>3, ExceptSeq
  <2>5. /\ w \in Seq(Nat) /\ Len(w) = Len(u)
        /\ \A i \in 1 .. Len(u) : w[i] = IF i = 3 THEN b ELSE t[i]
    BY <2>2, <2>3, <2>4
  <2> QED
    BY <2>1, <2>5
<1> HIDE DEF w
<1>9. \A i \in 1 .. Len(w) : w[i] = v[i]
  <2> SUFFICES ASSUME NEW i \in 1 .. Len(u) PROVE w[i] = v[i]
    BY <1>8
  <2>1. w[i] = IF i = 2 THEN d ELSE IF i = 3 THEN b ELSE u[i]
    BY <1>8
  <2>2. u[i] = IF i <= 3 THEN x[i] ELSE s[i - 3]
    BY <1>1, <1>3, <1>4
  <2>3. v[i] = IF i <= 3 THEN y[i] ELSE s[i - 3]
    BY <1>2, <1>3, <1>5, <1>7
  <2>4. i = 1 \/ i = 2 \/ i = 3 \/ (i \in Nat /\ i > 3)
    BY <1>7
  <2> QED
    BY <1>1, <1>2, <2>1, <2>2, <2>3, <2>4
<1>10. w = v
  <2>1. w \in Seq(Nat) /\ v \in Seq(Nat) /\ Len(w) = Len(v)
    BY <1>5, <1>7, <1>8
  <2> QED
    BY <1>9, <2>1, SeqEqual
<1> QED
  BY <1>2, <1>5, <1>6, <1>10 DEF Bytes, u, v, w, x, y

\* What the engine has done with a transfer request so far, and where it is.
LEMMA TransferringIs ==
  ASSUME EngineType, request # <<>>, HeaderOf(request), Transferring, force \in Faults
  PROVE  /\ request \in Seq(Byte) /\ Len(request) \in Nat /\ Len(request) >= 3
         /\ request[1] = 5 /\ request[3] = Count /\ Count \in Nat /\ Count <= MaxTransfers
         /\ index \in 0 .. Count /\ index \in 0 .. MaxTransfers
         /\ index < Count => index + 1 \in 1 .. MaxTransfers
         /\ TransferBytes(request)[index] \in Bytes
         /\ Len(TransferBytes(request)[index]) \in Nat
         /\ Len(TransferBytes(request)[index]) <= 4 * index
         /\ index < Count =>
              /\ TransferStart(request)[index + 1]
                   = requestPos + 1 + (IF IsRead(request, requestPos + 1) THEN 1 ELSE 5)
              /\ TransferBytes(request)[index + 1]
                   = Joined(TransferBytes(request)[index], Item(request, index + 1))
              /\ Item(request, index + 1) =
                   IF IsRead(request, requestPos + 1) THEN <<request[requestPos + 1], 0, 165, 165>>
                                                      ELSE <<>>
<1>1. /\ Len(request) \in Nat /\ Len(request) >= 3 /\ request[1] = 5 /\ request[3] = Count
      /\ Count \in Nat /\ Count <= MaxTransfers /\ index \in Nat /\ index <= Count
  BY HeaderIs DEF Transferring, EngineType
<1>2. request \in Seq(Byte)
  BY DEF EngineType
<1>3. /\ index \in 0 .. Count /\ index \in 0 .. MaxTransfers
      /\ index < Count => index + 1 \in 1 .. MaxTransfers /\ (index + 1) - 1 = index
  BY <1>1, Sizes
<1>4. TransferBytes(request)[index] \in Bytes /\ Len(TransferBytes(request)[index]) <= 4 * index
  BY <1>2, <1>3, TransferBytesAre, TransferBytesShort
<1>5. Len(TransferBytes(request)[index]) \in Nat
  BY <1>4, LenProperties DEF Bytes
<1>6. TransferStart(request)[index] = requestPos + 1
  BY DEF Transferring
<1>7. ASSUME index < Count
      PROVE  /\ TransferStart(request)[index + 1]
                  = requestPos + 1 + (IF IsRead(request, requestPos + 1) THEN 1 ELSE 5)
             /\ TransferBytes(request)[index + 1]
                  = Joined(TransferBytes(request)[index], Item(request, index + 1))
             /\ Item(request, index + 1) =
                  IF IsRead(request, requestPos + 1) THEN <<request[requestPos + 1], 0, 165, 165>>
                                                     ELSE <<>>
  <2> DEFINE k == index + 1
  <2>1. k \in 1 .. MaxTransfers /\ k - 1 = index
    BY <1>3, <1>7
  <2> HIDE DEF k
  <2>2. TransferStart(request)[k]
          = TransferStart(request)[k - 1]
              + (IF IsRead(request, TransferStart(request)[k - 1]) THEN 1 ELSE 5)
    BY <2>1, StartIs
  <2>3. TransferBytes(request)[k] = Joined(TransferBytes(request)[k - 1], Item(request, k))
    BY <1>2, <2>1, TransferBytesAre
  <2>4. Item(request, k) =
          IF IsRead(request, TransferStart(request)[k - 1])
            THEN <<request[TransferStart(request)[k - 1]], 0, 165, 165>> ELSE <<>>
    BY DEF Item
  <2> QED
    BY <1>6, <2>1, <2>2, <2>3, <2>4 DEF k
<1> QED
  BY <1>1, <1>2, <1>3, <1>4, <1>5, <1>7

\* The response is complete: as many transfers were done as are whole in the request.
LEMMA FinishStep ==
  ASSUME EngineType, TckHigh, ReadPort, request # <<>>, HeaderOf(request), Transferring,
         force \in Faults, NEW ack, Finish(ack), state # "JTAG_HOLD",
         ack = IF index < Count THEN 4 ELSE IF force = "parity" THEN 9 ELSE 1,
         index < Count => Len(request) + 1 < TransferStart(request)[index + 1]
  PROVE  /\ response' \in Bytes /\ Answered
<1> DEFINE a == IF force = "parity" THEN 9 ELSE 1
           s == TransferBytes(request)[index]
<1>1. /\ request \in Seq(Byte) /\ Len(request) \in Nat /\ Len(request) >= 3
      /\ request[1] = 5 /\ request[3] = Count /\ Count \in Nat /\ Count <= MaxTransfers
      /\ index \in 0 .. Count /\ s \in Bytes /\ Len(s) \in Nat /\ Len(s) <= 4 * index
  BY TransferringIs
<1>2. completed = index /\ response = Joined(Head3(0, a), s) /\ index \in Nat /\ index <= MaxTransfers
  BY <1>1, Sizes DEF Transferring
<1>3. a \in Nat /\ ack \in Nat
  OBVIOUS
<1> HIDE DEF a
<1>4. response' = Joined(Head3(index, ack), s) /\ response' \in Bytes /\ Len(response') = 3 + Len(s)
  <2> HIDE DEF s
  <2>1. response' = [Joined(Head3(0, a), s) EXCEPT ![2] = index, ![3] = ack]
    BY <1>2 DEF Finish
  <2>2. /\ [Joined(Head3(0, a), s) EXCEPT ![2] = index, ![3] = ack] = Joined(Head3(index, ack), s)
        /\ Joined(Head3(index, ack), s) \in Bytes /\ Len(Joined(Head3(index, ack), s)) = 3 + Len(s)
    <3>1. s \in Bytes /\ index \in Nat /\ a \in Nat /\ ack \in Nat
      BY <1>1, <1>2, <1>3
    <3> QED
      BY <3>1, FinishIs
  <2> QED
    BY <2>1, <2>2
<1>5. Len(response') > 0 /\ Len(response') <= MaxReply
  <2>1. Len(s) <= 4 * MaxTransfers
    <3>1. \A x, i, m \in Nat : x <= 4 * i /\ i <= m => x <= 4 * m
      OBVIOUS
    <3> HIDE DEF s
    <3> QED
      BY <1>1, <1>2, <3>1, Sizes
  <2> HIDE DEF s
  <2> QED
    BY <1>1, <1>4, <2>1, Sizes
<1>6. TransferReply(request, force) = Joined(Head3(index, ack), s)
  <2>1. TransferStart(request)[index] <= Len(request) + 1
    BY <1>1 DEF Transferring, EngineType
  <2>2. TransferReply(request, force) =
          Joined(Head3(index, IF index < request[3] THEN 4 ELSE IF force = "parity" THEN 9 ELSE 1), s)
    BY <1>1, <2>1, TransferReplyIs
  <2> HIDE DEF s
  <2> QED
    BY <1>1, <2>2
<1>7. Answers(request, real, force) = {TransferReply(request, force)}
  <2>1. Answers(request, real, force)
            = {IF Len(request) < 3 \/ request[3] > MaxTransfers \/ force = "fault" THEN <<5, 0, 4>>
               ELSE IF force = "wait" THEN <<5, 0, 2>> ELSE TransferReply(request, force)}
    BY <1>1, AnswersAre
  <2>2. ~(Len(request) < 3) /\ ~(request[3] > MaxTransfers) /\ force # "fault" /\ force # "wait"
    BY <1>1, Sizes DEF Transferring
  <2> QED
    BY <2>1, <2>2
<1> QED
  BY <1>4, <1>5, <1>6, <1>7 DEF Answered, Finish

\* A transfer is done, and the next one begins where it ends.
LEMMA AdvanceStep ==
  ASSUME EngineType, TckHigh, ReadPort, request # <<>>, HeaderOf(request), Transferring,
         force \in Faults, index < Count, NEW length \in Nat, Advance(length, Item(request, index + 1)),
         requestPos + 1 + length = TransferStart(request)[index + 1],
         requestPos + length <= Len(request),
         UNCHANGED <<request, header, real, force>>
  PROVE  response' \in Bytes /\ Transferring'
<1> DEFINE h == Head3(0, IF force = "parity" THEN 9 ELSE 1)
           s == TransferBytes(request)[index]
           i == Item(request, index + 1)
<1>1. /\ request \in Seq(Byte) /\ index + 1 \in 1 .. MaxTransfers /\ s \in Bytes
      /\ TransferBytes(request)[index + 1] = Joined(s, i) /\ Count \in Nat
  BY TransferringIs
<1>2. i \in Bytes /\ h \in Bytes
  BY <1>1, ItemIs, Head3Is
<1>3. response' = Joined(h, TransferBytes(request)[index + 1]) /\ response' \in Bytes
  <2>1. response' = Joined(Joined(h, s), i)
    BY DEF Advance, Transferring, Joined
  <2> HIDE DEF h, s, i
  <2>2. Joined(Joined(h, s), i) = Joined(h, Joined(s, i)) /\ Joined(s, i) \in Bytes
    BY <1>1, <1>2, JoinedThrice, JoinedIs
  <2>3. Joined(h, Joined(s, i)) \in Bytes
    BY <1>2, <2>2, JoinedIs
  <2> QED
    BY <1>1, <2>1, <2>2, <2>3
<1>4. /\ completed' = index + 1 /\ index' = index + 1 /\ index + 1 <= Count
      /\ requestPos' = requestPos + length /\ address' = requestPos + length
  BY <1>1 DEF Advance, Transferring, EngineType
<1>5. requestPos' + 1 = TransferStart(request)[index + 1]
  BY <1>4 DEF EngineType
<1>6. /\ Command' = Command /\ Count' = Count
  BY DEF Command, Count
<1> HIDE DEF s, i
<1> QED
  BY <1>3, <1>4, <1>5, <1>6 DEF Transferring

LEMMA BuildStep ==
  ASSUME EngineType, TckHigh, ReadPort, request # <<>>, HeaderOf(request), Transferring, Fetched,
         force \in Faults, BuildTransfer, UNCHANGED <<real, force>>
  PROVE  /\ EngineType' /\ TckHigh' /\ UNCHANGED <<request, header, responsePos, clocks>>
         /\ \/ Answered
            \/ /\ index < Count /\ index' = index + 1 /\ Transferring'
               /\ state' = IF index + 1 < Count THEN "FETCH_TRANSFER" ELSE "BUILD_TRANSFER"
<1>1. /\ request \in Seq(Byte) /\ Len(request) \in Nat /\ Len(request) >= 3
      /\ Count \in Nat /\ index \in 0 .. Count
      /\ index < Count =>
           /\ TransferStart(request)[index + 1]
                = requestPos + 1 + (IF IsRead(request, requestPos + 1) THEN 1 ELSE 5)
           /\ Item(request, index + 1) =
                IF IsRead(request, requestPos + 1) THEN <<request[requestPos + 1], 0, 165, 165>>
                                                   ELSE <<>>
  BY TransferringIs
<1>2. /\ state = "BUILD_TRANSFER" /\ UNCHANGED <<request, header, responsePos, wait, pins, clocks>>
      /\ requestPos \in Nat /\ index \in Nat /\ completed = index /\ address = requestPos
      /\ completed \in Nat
  BY DEF BuildTransfer, EngineType, Transferring
<1>3. data' \in Byte
  BY ReadPortType
<1>a. response[3] = IF force = "parity" THEN 9 ELSE 1
  <2> DEFINE a == IF force = "parity" THEN 9 ELSE 1
             s == TransferBytes(request)[index]
  <2>1. response = Joined(Head3(0, a), s) /\ s \in Bytes /\ a \in Nat
    BY TransferringIs DEF Transferring
  <2> HIDE DEF a, s
  <2>2. Joined(Head3(0, a), s)[3] = a
    <3>1. 0 \in Nat
      OBVIOUS
    <3> QED
      BY <2>1, <3>1, FinishIs
  <2> QED
    BY <2>1, <2>2 DEF a
<1>4. CASE index >= Count
  <2>1. Finish(response[3]) /\ UNCHANGED transferVars
    <3>1. ~(index < Count)
      BY <1>1, <1>2, <1>4
    <3> QED
      BY <1>4, <3>1 DEF BuildTransfer
  <2>2. response' \in Bytes /\ Answered
    <3>1. ~(index < Count) /\ state # "JTAG_HOLD"
      BY <1>1, <1>2, <1>4
    <3>2. response[3] = IF index < Count THEN 4 ELSE IF force = "parity" THEN 9 ELSE 1
      BY <1>a, <3>1
    <3> QED
      BY <2>1, <3>1, <3>2, FinishStep
  <2>3. state' = "RESPOND"
    BY <2>1 DEF Finish
  <2>4. EngineType' /\ TckHigh'
    BY <1>2, <1>3, <2>1, <2>2, <2>3 DEF EngineType, transferVars, States, TckHigh
  <2> QED
    BY <1>2, <2>2, <2>4
<1>5. CASE index < Count /\ requestPos >= Len(request)
  <2>1. Finish(4) /\ UNCHANGED transferVars
    BY <1>1, <1>2, <1>5 DEF BuildTransfer
  <2>2. response' \in Bytes /\ Answered
    <3>1. state # "JTAG_HOLD" /\ Len(request) + 1 < TransferStart(request)[index + 1]
      BY <1>1, <1>2, <1>5
    <3>2. 4 = IF index < Count THEN 4 ELSE IF force = "parity" THEN 9 ELSE 1
      BY <1>5
    <3> QED
      BY <2>1, <3>1, <3>2, FinishStep
  <2>3. state' = "RESPOND"
    BY <2>1 DEF Finish
  <2>4. EngineType' /\ TckHigh'
    BY <1>2, <1>3, <2>1, <2>2, <2>3 DEF EngineType, transferVars, States, TckHigh
  <2> QED
    BY <1>2, <2>2, <2>4
<1>6. CASE index < Count /\ requestPos < Len(request)
  <2>1. data = request[requestPos + 1] /\ (IsRead(request, requestPos + 1) <=> Bit(data, 1) = 1)
    BY <1>1, <1>2, <1>6 DEF Fetched, IsRead
  <2>n. ~(index >= Count) /\ ~(requestPos >= Len(request))
    BY <1>1, <1>2, <1>6
  <2>2. ASSUME NEW length \in {1, 5}, Advance(length, Item(request, index + 1)),
               requestPos + 1 + length = TransferStart(request)[index + 1],
               requestPos + length <= Len(request)
        PROVE  /\ EngineType' /\ TckHigh' /\ index' = index + 1 /\ Transferring'
               /\ state' = IF index + 1 < Count THEN "FETCH_TRANSFER" ELSE "BUILD_TRANSFER"
    <3>1. response' \in Bytes /\ Transferring'
      <4>1. length \in Nat /\ UNCHANGED <<request, header, real, force>>
        BY <1>2
      <4> QED
        BY <1>6, <2>2, <4>1, AdvanceStep
    <3>2. /\ completed' = completed + 1 /\ index' = index + 1
          /\ requestPos' = requestPos + length /\ address' = requestPos + length
          /\ state' = IF index + 1 < Count THEN "FETCH_TRANSFER" ELSE "BUILD_TRANSFER"
      BY <1>2, <2>2 DEF Advance
    <3>3. EngineType'
      BY <1>2, <1>3, <3>1, <3>2 DEF EngineType, States
    <3>4. TckHigh'
      BY <1>2, <3>2 DEF TckHigh
    <3> QED
      BY <3>1, <3>2, <3>3, <3>4
  <2>3. CASE Bit(data, 1) = 1
    <3>1. Advance(1, <<data, 0, 165, 165>>)
      BY <1>6, <2>3, <2>n DEF BuildTransfer
    <3>2. Advance(1, Item(request, index + 1))
      BY <1>1, <1>6, <2>1, <2>3, <3>1
    <3>3. requestPos + 1 + 1 = TransferStart(request)[index + 1] /\ requestPos + 1 <= Len(request)
      BY <1>1, <1>2, <1>6, <2>1, <2>3
    <3> QED
      BY <1>2, <1>6, <2>2, <3>2, <3>3
  <2>4. CASE Bit(data, 1) # 1 /\ requestPos + 4 < Len(request)
    <3>1. Advance(5, <<>>)
      BY <1>6, <2>4, <2>n DEF BuildTransfer
    <3>2. Advance(5, Item(request, index + 1))
      BY <1>1, <1>6, <2>1, <2>4, <3>1
    <3>3. requestPos + 1 + 5 = TransferStart(request)[index + 1] /\ requestPos + 5 <= Len(request)
      BY <1>1, <1>2, <1>6, <2>1, <2>4
    <3> QED
      BY <1>2, <1>6, <2>2, <3>2, <3>3
  <2>5. CASE Bit(data, 1) # 1 /\ ~(requestPos + 4 < Len(request))
    <3>1. /\ Finish(4) /\ completed' = completed + 1 /\ index' = index + 1
          /\ UNCHANGED <<requestPos, address>>
      BY <1>6, <2>5, <2>n DEF BuildTransfer
    <3>2. response' \in Bytes /\ Answered
      <4>1. state # "JTAG_HOLD" /\ Len(request) + 1 < TransferStart(request)[index + 1]
        BY <1>1, <1>2, <1>6, <2>1, <2>5
      <4>2. 4 = IF index < Count THEN 4 ELSE IF force = "parity" THEN 9 ELSE 1
        BY <1>6
      <4> QED
        BY <3>1, <4>1, <4>2, FinishStep
    <3>3. state' = "RESPOND"
      BY <3>1 DEF Finish
    <3>4. EngineType' /\ TckHigh'
      BY <1>2, <1>3, <3>1, <3>2, <3>3 DEF EngineType, States, TckHigh
    <3> QED
      BY <1>2, <3>2, <3>4
  <2> QED
    BY <2>3, <2>4, <2>5
<1> QED
  BY <1>1, <1>2, <1>4, <1>5, <1>6

-----------------------------------------------------------------------------
(***************************************************************************)
(* The mailbox registers                                                   *)
(***************************************************************************)
LEMMA CommandOutIs ==
  ASSUME cmd \in Register(Byte), CommandOut
  PROVE  /\ cmd' \in Register(Byte) /\ cmd'.byte = cmd.byte /\ cmd'.last = cmd.last
         /\ cmd'.valid <=> cmd.valid /\ ~Taken
  BY DEF Register, CommandOut

\* Only a response is loaded into the holding register.
LEMMA HoldKept ==
  ASSUME state # "RESPOND"
  PROVE  HoldLoaded = hold
  BY DEF HoldLoaded, Given, ResponseValid

LEMMA HoldOutIs ==
  ASSUME HoldLoaded \in Register(Nat), HoldOut
  PROVE  hold' \in Register(Nat) /\ ~hold'.valid
  BY DEF Register, HoldOut

\* An engine that is offered no byte waits for one.
LEMMA WaitingEngine ==
  ASSUME TypeOK, TckHigh, state = "CAPTURE", ~cmd.valid, Engine
  PROVE  /\ EngineType' /\ TckHigh'
         /\ UNCHANGED <<state, request, header, response, responsePos, clocks>>
<1>1. Capture /\ ReadPort
  BY DEF Engine, Prepare, JtagSetup, JtagHold, FetchTransfer, BuildTransfer, Respond
<1>2. EngineType' /\ TckHigh'
  BY <1>1, CaptureType
<1>3. ~Taken
  BY DEF Taken
<1> QED
  BY <1>1, <1>2, <1>3 DEF Capture

-----------------------------------------------------------------------------
(***************************************************************************)
(* Loading the request                                                     *)
(***************************************************************************)
LEMMA RequestIs ==
  ASSUME NEW r \in Requests
  PROVE  r \in Seq(Byte) /\ Len(r) \in Nat /\ Len(r) <= MaxPacket
<1>1. r \in Seq(Byte) /\ Len(r) <= MaxPacket
  BY RequestAssumption
<1> QED
  BY <1>1, LenProperties

LEMMA LoadingIs ==
  ASSUME TypeOK, Loading
  PROVE  /\ current \in Seq(Byte) /\ request \in Seq(Byte)
         /\ Len(current) \in Nat /\ Len(request) \in Nat /\ Len(request) < MaxPacket
         /\ sent \in Nat
<1>1. current \in Requests /\ Len(request) < Len(current) /\ request \in Seq(Byte) /\ sent \in Nat
  BY DEF Loading, Exchanging, Captured, TypeOK, EngineType, FirmwareType
<1>2. Len(request) \in Nat
  BY <1>1, LenProperties
<1> QED
  BY <1>1, <1>2, RequestIs, Sizes

\* The byte in the command register is captured at the next edge.
LEMMA TakesByte ==
  ASSUME TypeOK, TckHigh, Loading, cmd.valid, Engine
  PROVE  /\ Taken /\ EngineType' /\ TckHigh' /\ UNCHANGED <<responsePos, clocks>>
         /\ Len(request') = Len(request) + 1 /\ Len(request') = sent
         /\ \A i \in 1 .. Len(request') : request'[i] = current[i]
         /\ HeaderOf(request)'
         /\ state' = IF sent = Len(current) THEN "PREPARE" ELSE "CAPTURE"
<1>1. Capture /\ ReadPort
  BY DEF Loading, Engine, Prepare, JtagSetup, JtagHold, FetchTransfer, BuildTransfer, Respond
<1>2. EngineType' /\ TckHigh'
  BY <1>1, CaptureType
<1>3. Taken
  BY LoadingIs DEF Taken, CommandReady, Loading
<1>4. /\ request' = Append(request, cmd.byte)
      /\ header' = IF Len(request) < 4 THEN [header EXCEPT ![Len(request) + 1] = cmd.byte] ELSE header
      /\ state' = IF cmd.last THEN "PREPARE" ELSE state
      /\ UNCHANGED <<responsePos, clocks>>
  BY <1>1, <1>3 DEF Capture
<1>5. cmd.byte \in Byte /\ request \in Seq(Byte) /\ Len(request) \in Nat
  BY LoadingIs DEF TypeOK, FirmwareType, Register
<1>6. /\ Len(request') = Len(request) + 1 /\ request'[Len(request) + 1] = cmd.byte
      /\ \A i \in 1 .. Len(request) : request'[i] = request[i]
  <2>1. /\ Len(Append(request, cmd.byte)) = Len(request) + 1
        /\ Append(request, cmd.byte)[Len(request) + 1] = cmd.byte
        /\ \A i \in 1 .. Len(request) : Append(request, cmd.byte)[i] = request[i]
    BY <1>5, AppendProperties
  <2> QED
    BY <1>4, <2>1
<1>7. /\ Len(request) + 1 = sent /\ cmd.byte = current[sent] /\ (cmd.last <=> sent = Len(current))
      /\ \A i \in 1 .. Len(request) : request[i] = current[i]
      /\ state = "CAPTURE" /\ HeaderOf(request)
  BY DEF Loading, Captured, Pending
<1>8. \A i \in 1 .. Len(request') : request'[i] = current[i]
  <2> SUFFICES ASSUME NEW i \in 1 .. Len(request) + 1 PROVE request'[i] = current[i]
    BY <1>6
  <2>1. i = Len(request) + 1 \/ i \in 1 .. Len(request)
    BY <1>5
  <2> QED
    BY <1>6, <1>7, <2>1
<1>9. HeaderOf(request)'
  <2> SUFFICES ASSUME NEW i \in 1 .. 4, i <= Len(request) + 1 PROVE header'[i] = request'[i]
    BY <1>6 DEF HeaderOf
  <2>1. header \in [1 .. 4 -> Byte]
    BY DEF TypeOK, EngineType
  <2>2. CASE i = Len(request) + 1
    <3>1. header' = [header EXCEPT ![i] = cmd.byte]
      BY <1>4, <1>5, <2>2
    <3> QED
      BY <1>6, <2>1, <2>2, <3>1
  <2>3. CASE i # Len(request) + 1
    <3>1. i \in 1 .. Len(request) /\ header[i] = request[i]
      BY <1>5, <1>7, <2>3 DEF HeaderOf
    <3>2. header'[i] = header[i]
      BY <1>4, <1>5, <2>1, <2>3
    <3> QED
      BY <1>6, <3>1, <3>2
  <2> QED
    BY <2>2, <2>3
<1> QED
  BY <1>2, <1>3, <1>4, <1>6, <1>7, <1>8, <1>9

\* The exchange goes on, with the same promise.
LEMMA SameExchange ==
  ASSUME Exchanging, fw' # "idle", UNCHANGED <<result, current, promised, real, force>>
  PROVE  Exchanging'
  BY DEF Exchanging, Promise

\* At an edge without a write the byte in the register is taken.
LEMMA LoadingTakes ==
  ASSUME TypeOK, TckHigh, Loading, cmd.valid, Engine, CommandOut, HoldIn,
         UNCHANGED <<fw, current, sent, reply, result, promised, real, force>>,
         remaining' \in 0 .. PollBudget, remaining' \in {remaining, remaining - 1}
  PROVE  IInv'
<1>1. /\ Taken /\ EngineType' /\ TckHigh' /\ UNCHANGED <<responsePos, clocks>>
      /\ Len(request') = Len(request) + 1 /\ Len(request') = sent
      /\ \A i \in 1 .. Len(request') : request'[i] = current[i]
      /\ HeaderOf(request)'
      /\ state' = IF sent = Len(current) THEN "PREPARE" ELSE "CAPTURE"
  BY TakesByte
<1>2. cmd' \in Register(Byte) /\ ~cmd'.valid
  BY <1>1, CommandOutIs DEF TypeOK, FirmwareType
<1>3. hold' = hold
  BY HoldKept DEF HoldIn, Loading
<1>4. TypeOK'
  BY <1>1, <1>2, <1>3 DEF TypeOK, FirmwareType
<1>5. Exchanging'
  BY SameExchange DEF Loading, Exchanging
<1>6. /\ current \in Seq(Byte) /\ Len(current) \in Nat /\ sent \in Nat /\ request' \in Seq(Byte)
      /\ ~hold.valid /\ reply = <<>> /\ clocks = 0 /\ sent <= Len(current)
      /\ fw = "await" => sent = Len(current) /\ remaining = PollBudget
      /\ fw # "await" => sent < Len(current)
      /\ fw \in {"offer", "write", "await"} /\ (fw = "write" => ~cmd.valid)
  BY <1>1, LoadingIs DEF Loading, Captured, EngineType
<1>7. CASE sent = Len(current)
  <2>1. fw = "await" /\ state' = "PREPARE" /\ remaining' + 1 >= PollBudget
    <3>1. fw = "await" /\ remaining = PollBudget
      BY <1>6, <1>7
    <3>2. state' = "PREPARE"
      BY <1>1, <1>7
    <3>3. remaining' + 1 >= PollBudget
      <4>1. remaining' = PollBudget \/ remaining' = PollBudget - 1
        BY <3>1
      <4>2. PollBudget \in Nat
        BY Sizes
      <4>3. \A b \in Nat : b + 1 >= b /\ (b - 1) + 1 >= b
        OBVIOUS
      <4> QED
        BY <4>1, <4>2, <4>3
    <3> QED
      BY <3>1, <3>2, <3>3
  <2>2. request' = current'
    <3>1. request' = current
      BY <1>1, <1>6, <1>7, SeqEqual
    <3> QED
      BY <3>1
  <2>3. Busy'
    BY <1>1, <1>6, <2>1 DEF Busy
  <2>4. Working'
    BY <1>1, <1>2, <1>3, <1>5, <1>6, <2>1, <2>2, <2>3 DEF Working
  <2> QED
    BY <1>1, <1>4, <2>4 DEF IInv, Phase
<1>8. CASE sent # Len(current)
  <2>1. fw = "offer" /\ state' = "CAPTURE" /\ sent < Len(current)
    BY <1>1, <1>6, <1>8
  <2>2. Captured'
    BY <1>1, <1>2, <1>6, <2>1 DEF Captured, Pending
  <2>3. Loading'
    BY <1>1, <1>2, <1>3, <1>5, <1>6, <2>1, <2>2 DEF Loading
  <2> QED
    BY <1>1, <1>4, <2>3 DEF IInv, Phase
<1> QED
  BY <1>7, <1>8

\* At an edge without a byte in the register nothing is taken: the status bit
\* was found set, or the firmware did nothing.
LEMMA LoadingWaits ==
  ASSUME TypeOK, TckHigh, Loading, ~cmd.valid, Engine, CommandOut, HoldIn,
         UNCHANGED <<current, sent, remaining, reply, result, promised, real, force>>,
         fw' = fw \/ (fw = "offer" /\ fw' = "write")
  PROVE  IInv'
<1>1. EngineType' /\ TckHigh' /\ UNCHANGED <<state, request, header, clocks>>
  BY WaitingEngine DEF Loading
<1>2. cmd' \in Register(Byte) /\ ~cmd'.valid
  BY CommandOutIs DEF TypeOK, FirmwareType
<1>3. hold' = hold
  BY HoldKept DEF HoldIn, Loading
<1>4. TypeOK'
  BY <1>1, <1>2, <1>3 DEF TypeOK, FirmwareType
<1>5. Exchanging'
  BY SameExchange DEF Loading, Exchanging
<1>6. Captured'
  BY <1>1, <1>2 DEF Captured, Pending, Loading
<1>7. HeaderOf(request)'
  BY <1>1 DEF HeaderOf, Loading
<1>8. fw # "await"
  BY LoadingIs DEF Loading, Captured, Pending
<1>9. Loading'
  BY <1>1, <1>2, <1>3, <1>5, <1>6, <1>7, <1>8 DEF Loading
<1> QED
  BY <1>1, <1>4, <1>9 DEF IInv, Phase

\* A byte is written into the empty register.
LEMMA LoadingWrites ==
  ASSUME TypeOK, TckHigh, Loading, WriteByte
  PROVE  IInv'
<1>1. /\ fw = "write" /\ Engine /\ CommandIn(current[sent + 1], sent + 1 = Len(current)) /\ HoldIn
      /\ sent' = sent + 1 /\ remaining' = PollBudget
      /\ fw' = IF sent + 1 = Len(current) THEN "await" ELSE "offer"
      /\ UNCHANGED <<current, reply, result, promised, real, force>>
  BY DEF WriteByte, configVars
<1>2. /\ current \in Seq(Byte) /\ Len(current) \in Nat /\ Len(request) \in Nat /\ sent \in Nat
      /\ ~cmd.valid /\ sent < Len(current) /\ Len(request) = sent /\ state = "CAPTURE"
  BY <1>1, LoadingIs DEF Loading, Captured, Pending
<1>3. EngineType' /\ TckHigh' /\ UNCHANGED <<state, request, header, clocks>>
  BY <1>1, <1>2, WaitingEngine
<1>4. current[sent + 1] \in Byte
  <2>1. sent + 1 \in 1 .. Len(current)
    BY <1>2
  <2> QED
    BY <1>2, <2>1, ElementOfSeq
<1>5. /\ cmd' = [byte |-> current[sent + 1], last |-> sent + 1 = Len(current), valid |-> TRUE]
      /\ cmd' \in Register(Byte)
  BY <1>1, <1>2, <1>4 DEF CommandIn, Register
<1>6. hold' = hold
  BY <1>1, <1>2, HoldKept DEF HoldIn
<1>7. TypeOK'
  <2>1. sent' \in Nat /\ remaining' \in 0 .. PollBudget
    BY <1>1, <1>2, Sizes
  <2> QED
    BY <1>1, <1>3, <1>5, <1>6, <2>1 DEF TypeOK, FirmwareType
<1>8. Exchanging'
  BY <1>1, SameExchange DEF Loading
<1>9. Captured'
  <2>1. \A i \in 1 .. Len(request) : request[i] = current[i]
    BY DEF Loading, Captured
  <2>2. cmd'.byte = current[sent + 1] /\ cmd'.valid /\ (cmd'.last <=> sent + 1 = Len(current))
    BY <1>5
  <2>3. Len(request) + 1 = sent + 1 /\ sent + 1 <= Len(current) /\ Len(request) < Len(current)
    BY <1>2
  <2> QED
    BY <1>1, <1>3, <2>1, <2>2, <2>3 DEF Captured, Pending
<1>10. HeaderOf(request)'
  BY <1>3 DEF HeaderOf, Loading
<1>11. /\ fw' \in {"offer", "write", "await"} /\ fw' # "write"
       /\ (fw' = "await" => sent' = Len(current)) /\ remaining' = PollBudget /\ remaining' > 0
       /\ (fw' # "await" => sent' < Len(current))
  <2>1. remaining' > 0 /\ remaining' = PollBudget
    BY <1>1, Sizes
  <2> QED
    BY <1>1, <1>2, <2>1
<1>12. Loading'
  BY <1>1, <1>2, <1>3, <1>6, <1>8, <1>9, <1>10, <1>11 DEF Loading
<1> QED
  BY <1>3, <1>7, <1>12 DEF IInv, Phase

-----------------------------------------------------------------------------
(***************************************************************************)
(* Working on the request                                                  *)
(***************************************************************************)
LEMMA WorkingIs ==
  ASSUME TypeOK, Working
  PROVE  /\ EngineType /\ real \in BOOLEAN /\ force \in Faults
         /\ request # <<>> /\ request = current /\ HeaderOf(request)
         /\ promised.replies = Answers(request, real, force)
         /\ promised.clocks = IF Command = 20 /\ real THEN 1 ELSE 0
         /\ Count \in Nat
<1>1. request # <<>> /\ EngineType /\ HeaderOf(request) /\ request = current
      /\ real \in BOOLEAN /\ force \in Faults /\ promised = Promise(current)
  BY DEF TypeOK, FirmwareType, Working, Exchanging
<1>2. Command = request[1] /\ Count \in Nat
  BY <1>1, HeaderIs
<1> QED
  BY <1>1, <1>2 DEF Promise

\* An edge at which the firmware finds no reply yet, or does nothing.
WorkingEdge ==
  /\ Engine /\ CommandOut /\ HoldIn
  /\ UNCHANGED <<fw, current, sent, reply, result, promised, real, force>>
  /\ remaining' \in 0 .. PollBudget /\ remaining' + 1 >= remaining

\* What is unchanged while the engine works.
LEMMA WorkingKeeps ==
  ASSUME TypeOK, Working, WorkingEdge, EngineType'
  PROVE  /\ TypeOK' /\ Exchanging' /\ cmd'.valid = FALSE /\ hold' = hold
         /\ fw' = "await" /\ ~hold'.valid /\ reply' = <<>> /\ reply = <<>>
         /\ remaining \in Nat /\ remaining' \in Nat
<1>1. cmd' \in Register(Byte) /\ cmd'.valid = FALSE
  BY CommandOutIs DEF WorkingEdge, Working, TypeOK, FirmwareType, Register
<1>2. hold' = hold
  BY HoldKept DEF WorkingEdge, HoldIn, Working, Busy
<1>3. Exchanging'
  BY SameExchange DEF WorkingEdge, Working
<1>4. TypeOK'
  BY <1>1, <1>2 DEF TypeOK, FirmwareType, WorkingEdge
<1>5. remaining \in Nat /\ remaining' \in Nat
  BY <1>4, Sizes DEF TypeOK, FirmwareType
<1> QED
  BY <1>1, <1>2, <1>3, <1>4, <1>5 DEF Working, WorkingEdge

\* The engine has the answer.
LEMMA WorkingEnds ==
  ASSUME TypeOK, Working, WorkingEdge, EngineType', TckHigh', Answered,
         responsePos' = 0, clocks' = promised.clocks, remaining' > 0
  PROVE  IInv'
<1>1. /\ TypeOK' /\ Exchanging' /\ cmd'.valid = FALSE /\ hold' = hold
      /\ fw' = "await" /\ ~hold'.valid /\ reply' = <<>>
  BY WorkingKeeps
<1>2. promised' = promised /\ promised.replies = Answers(request, real, force)
  BY WorkingIs DEF WorkingEdge
<1>3. /\ state' = "RESPOND" /\ response' \in promised'.replies
      /\ Len(response') > 0 /\ Len(response') <= MaxReply
  BY <1>2 DEF Answered
<1>4. Delivered'
  BY <1>1, <1>3 DEF Delivered
<1>5. responsePos' = Len(reply') + InHold' /\ responsePos' < Len(response')
  BY <1>1, <1>3 DEF InHold
<1>6. Answering'
  BY <1>1, <1>2, <1>3, <1>4, <1>5 DEF Answering
<1> QED
  BY <1>1, <1>6 DEF IInv, Phase

\* The engine goes on working.
LEMMA WorkingGoesOn ==
  ASSUME TypeOK, Working, WorkingEdge, EngineType', TckHigh',
         UNCHANGED <<request, header>>, Busy', responsePos' = 0
  PROVE  IInv'
<1>1. /\ TypeOK' /\ Exchanging' /\ cmd'.valid = FALSE /\ hold' = hold
      /\ fw' = "await" /\ ~hold'.valid /\ reply' = <<>>
  BY WorkingKeeps
<1>2. request' = current' /\ HeaderOf(request)'
  BY DEF Working, WorkingEdge, HeaderOf
<1>3. Working'
  BY <1>1, <1>2 DEF Working
<1> QED
  BY <1>1, <1>3 DEF IInv, Phase

LEMMA PrepareWorks ==
  ASSUME TypeOK, TckHigh, Working, WorkingEdge, state = "PREPARE"
  PROVE  IInv'
<1>1. /\ EngineType /\ real \in BOOLEAN /\ force \in Faults
      /\ request # <<>> /\ HeaderOf(request) /\ Count \in Nat
      /\ promised.clocks = IF Command = 20 /\ real THEN 1 ELSE 0
  BY WorkingIs
<1>2. Prepare /\ ReadPort
  BY DEF WorkingEdge, Engine, Capture, JtagSetup, JtagHold, FetchTransfer, BuildTransfer, Respond
<1>3. clocks = 0 /\ remaining + 1 >= PollBudget
  BY DEF Working, Busy
<1>4. EngineType' => remaining' \in Nat /\ remaining' + 2 >= PollBudget
  <2> SUFFICES ASSUME EngineType' PROVE remaining' \in Nat /\ remaining' + 2 >= PollBudget
    OBVIOUS
  <2>1. remaining \in Nat /\ remaining' \in Nat
    BY WorkingKeeps
  <2> QED
    <3>1. remaining' + 1 >= remaining /\ PollBudget \in Nat
      BY Sizes DEF WorkingEdge
    <3>2. \A a, b, c \in Nat : a + 1 >= b /\ b + 1 >= c => a + 2 >= c
      OBVIOUS
    <3> QED
      BY <1>3, <2>1, <3>1, <3>2
<1>5. ASSUME EngineType', TckHigh', responsePos' = 0, UNCHANGED <<request, header, clocks>>,
             Answered, ~(Command = 20 /\ real)
      PROVE  IInv'
  <2>1. remaining' > 0
    BY <1>4, <1>5, Sizes
  <2>2. clocks' = promised.clocks
    BY <1>1, <1>3, <1>5
  <2> QED
    BY <1>5, <2>1, <2>2, WorkingEnds
<1>6. CASE PrepareInfo
  <2>1. Command # 20
    BY <1>6 DEF PrepareInfo
  <2> QED
    BY <1>1, <1>2, <1>5, <1>6, <2>1, PrepareInfoStep
<1>7. CASE PrepareConnect \/ PrepareAbort \/ PreparePins \/ PrepareUnknown
  <2>1. Command # 20
    BY <1>7 DEF PrepareConnect, PrepareAbort, PreparePins, PrepareUnknown
  <2> QED
    BY <1>1, <1>2, <1>5, <1>7, <2>1, PrepareByteStep
<1>8. CASE PrepareSequence
  <2>1. /\ EngineType' /\ TckHigh' /\ responsePos' = 0 /\ UNCHANGED <<request, header, clocks>>
        /\ \/ ~real /\ Answered
           \/ /\ state' = "JTAG_SETUP" /\ real /\ Command = 20
              /\ response' = <<20, 0>> /\ wait' = 0
    BY <1>1, <1>2, <1>8, PrepareSequenceStep
  <2>2. CASE ~real /\ Answered
    BY <1>5, <2>1, <2>2
  <2>3. CASE state' = "JTAG_SETUP" /\ real /\ Command = 20 /\ response' = <<20, 0>> /\ wait' = 0
    <3>1. remaining' + wait' >= 2 * HalfPeriod + 3 /\ wait' <= HalfPeriod
      BY <1>4, <2>1, <2>3, Sizes
    <3>2. Busy'
      BY <1>3, <2>1, <2>3, <3>1 DEF Busy, WorkingEdge, Command
    <3> QED
      BY <2>1, <3>2, WorkingGoesOn
  <2> QED
    BY <2>1, <2>2, <2>3
<1>9. CASE PrepareTransfer
  <2>1. /\ EngineType' /\ TckHigh' /\ responsePos' = 0 /\ UNCHANGED <<request, header, clocks>>
        /\ \/ Answered
           \/ /\ state' = "FETCH_TRANSFER" /\ Command = 5
              /\ Len(request) >= 3 /\ Count <= MaxTransfers /\ force \notin {"wait", "fault"}
              /\ index' = 0 /\ completed' = 0 /\ requestPos' = 3 /\ address' = 3
              /\ response' = Joined(Head3(0, IF force = "parity" THEN 9 ELSE 1), <<>>)
    BY <1>1, <1>2, <1>9, PrepareTransferStep
  <2>2. CASE Answered
    <3>1. Command # 20
      BY <1>9 DEF PrepareTransfer
    <3> QED
      BY <1>5, <2>1, <2>2, <3>1
  <2>3. CASE /\ state' = "FETCH_TRANSFER" /\ Command = 5
             /\ Len(request) >= 3 /\ Count <= MaxTransfers /\ force \notin {"wait", "fault"}
             /\ index' = 0 /\ completed' = 0 /\ requestPos' = 3 /\ address' = 3
             /\ response' = Joined(Head3(0, IF force = "parity" THEN 9 ELSE 1), <<>>)
    <3>1. remaining' + 2 * index' >= 2 * Count + 2 /\ remaining' >= 3
      BY <1>1, <1>4, <2>1, <2>3, Sizes
    <3>2. request \in Seq(Byte) /\ TransferBytes(request)[0] = <<>> /\ TransferStart(request)[0] = 4
      BY <1>1, StartIs, TransferBytesAre DEF EngineType
    <3>3. Transferring'
      BY <1>1, <2>1, <2>3, <3>2 DEF Transferring, Command, Count, WorkingEdge
    <3>4. Busy'
      BY <1>3, <2>1, <2>3, <3>1, <3>3 DEF Busy, WorkingEdge, Count
    <3> QED
      BY <2>1, <3>4, WorkingGoesOn
  <2> QED
    BY <2>1, <2>2, <2>3
<1> QED
  BY <1>2, <1>6, <1>7, <1>8, <1>9 DEF Prepare

\* A clock of the target: TCK goes up after a half period, and down after another.
LEMMA JtagWorks ==
  ASSUME TypeOK, TckHigh, Working, WorkingEdge, state \in {"JTAG_SETUP", "JTAG_HOLD"}
  PROVE  IInv'
<1>1. /\ EngineType /\ real \in BOOLEAN /\ HalfPeriod \in Nat
      /\ promised.clocks = IF Command = 20 /\ real THEN 1 ELSE 0
      /\ responsePos = 0 /\ remaining' + 1 >= remaining
      /\ real /\ Command = 20 /\ response = <<20, 0>> /\ wait <= HalfPeriod
  BY WorkingIs, Sizes DEF Working, WorkingEdge, Busy
<1>2. wait \in Nat /\ remaining \in Nat
  BY DEF EngineType, TypeOK, FirmwareType
<1>3. data' \in Byte
  BY <1>1, ReadPortType DEF WorkingEdge, Engine
<1>a. EngineType' => remaining' \in Nat
  BY WorkingKeeps
<1>4. CASE state = "JTAG_SETUP"
  <2>1. JtagSetup /\ clocks = 0 /\ remaining + wait >= 2 * HalfPeriod + 3
    BY <1>4 DEF WorkingEdge, Engine, Capture, Prepare, JtagHold, FetchTransfer, BuildTransfer,
                Respond, Working, Busy
  <2>2. CASE wait >= HalfPeriod
    <3>1. /\ pins' = [pins EXCEPT !.tck = 1] /\ clocks' = 1 /\ wait' = 0 /\ state' = "JTAG_HOLD"
          /\ UNCHANGED <<request, header, response, responsePos, transferVars>>
      BY <2>1, <2>2 DEF JtagSetup
    <3>2. EngineType' /\ TckHigh'
      <4>1. clocks' \in Nat /\ wait' \in Nat
        BY <3>1
      <4> QED
        BY <1>1, <1>3, <3>1, <4>1 DEF EngineType, transferVars, States, TckHigh
    <3>3. remaining' + wait' >= HalfPeriod + 2 /\ wait' <= HalfPeriod
      <4>1. wait = HalfPeriod
        BY <1>1, <1>2, <2>2
      <4>2. remaining' \in Nat
        BY <1>a, <3>2
      <4>3. \A a, b, h \in Nat : b + h >= 2 * h + 3 /\ a + 1 >= b => a + 0 >= h + 2 /\ 0 <= h
        OBVIOUS
      <4> QED
        BY <1>1, <1>2, <2>1, <3>1, <4>1, <4>2, <4>3
    <3>4. Busy'
      BY <1>1, <3>1, <3>3 DEF Busy, WorkingEdge, Command
    <3> QED
      BY <1>1, <3>1, <3>2, <3>4, WorkingGoesOn
  <2>3. CASE ~(wait >= HalfPeriod)
    <3>1. /\ wait' = wait + 1
          /\ UNCHANGED <<pins, clocks, state, request, header, response, responsePos, transferVars>>
      BY <2>1, <2>3 DEF JtagSetup
    <3>2. EngineType' /\ TckHigh'
      <4>1. wait' \in Nat
        BY <1>2, <3>1
      <4> QED
        BY <1>1, <1>3, <3>1, <4>1 DEF EngineType, transferVars, States, TckHigh
    <3>3. remaining' + wait' >= 2 * HalfPeriod + 3 /\ wait' <= HalfPeriod
      <4>1. remaining' \in Nat
        BY <1>a, <3>2
      <4>2. \A a, b, w, h \in Nat :
              b + w >= 2 * h + 3 /\ a + 1 >= b /\ ~(w >= h) => a + (w + 1) >= 2 * h + 3 /\ w + 1 <= h
        OBVIOUS
      <4> QED
        BY <1>1, <1>2, <2>1, <2>3, <3>1, <4>1, <4>2
    <3>4. Busy'
      BY <1>1, <1>4, <2>1, <3>1, <3>3 DEF Busy, WorkingEdge, Command
    <3> QED
      BY <1>1, <3>1, <3>2, <3>4, WorkingGoesOn
  <2> QED
    BY <2>2, <2>3
<1>5. CASE state = "JTAG_HOLD"
  <2>1. JtagHold /\ clocks = 1 /\ remaining + wait >= HalfPeriod + 2
    BY <1>5 DEF WorkingEdge, Engine, Capture, Prepare, JtagSetup, FetchTransfer, BuildTransfer,
                Respond, Working, Busy
  <2>2. CASE wait >= HalfPeriod
    <3>1. /\ pins' = [pins EXCEPT !.tck = 0] /\ response' = Append(response, pins.tdo)
          /\ state' = "RESPOND" /\ wait' = wait + 1
          /\ UNCHANGED <<request, header, responsePos, transferVars, clocks>>
      BY <2>1, <2>2 DEF JtagHold
    <3>2. pins.tdo \in {0, 1}
      BY <1>1 DEF EngineType
    <3>3. response' \in Bytes /\ Len(response') = 3 /\ response' \in {<<20, 0, 0>>, <<20, 0, 1>>}
      <4>1. ASSUME NEW b \in {0, 1} PROVE Append(<<20, 0>>, b) = <<20, 0, b>>
        <5>1. <<20>> \o <<0, b>> = <<20, 0, b>> /\ <<20>> \o <<0>> = <<20, 0>>
          <6>1. /\ \A x \in Nat : Joined(<<20>>, <<x>>) = <<20, x>>
                /\ \A x, y \in Nat : Joined(<<20>>, <<x, y>>) = <<20, x, y>>
            BY JoinsAre
          <6>2. 0 \in Nat /\ b \in Nat
            OBVIOUS
          <6>3. Joined(<<20>>, <<0, b>>) = <<20, 0, b>> /\ Joined(<<20>>, <<0>>) = <<20, 0>>
            BY <6>1, <6>2
          <6> QED
            BY <6>3 DEF Joined
        <5>2. /\ <<20>> \in Seq(Nat) /\ <<0>> \in Seq(Nat) /\ <<b>> \in Seq(Nat)
              /\ <<20, 0>> \in Seq(Nat) /\ b \in Nat
          OBVIOUS
        <5>3. (<<20>> \o <<0>>) \o <<b>> = <<20>> \o (<<0>> \o <<b>>)
          BY <5>2, ConcatAssociative
        <5>4. <<0>> \o <<b>> = <<0, b>>
          BY <5>2, JoinsAre DEF Joined
        <5>5. Append(<<20, 0>>, b) = <<20, 0>> \o <<b>>
          BY <5>2, AppendIsConcat
        <5> QED
          BY <5>1, <5>3, <5>4, <5>5
      <4>2. response' = <<20, 0, pins.tdo>>
        BY <1>1, <3>1, <3>2, <4>1
      <4>3. \A b \in {0, 1} : <<20, 0, b>> \in Bytes /\ Len(<<20, 0, b>>) = 3
        BY BytesAre
      <4> QED
        BY <3>2, <4>2, <4>3
    <3>4. EngineType' /\ TckHigh'
      <4>1. wait' \in Nat
        BY <1>2, <3>1
      <4> QED
        BY <1>1, <1>3, <3>1, <3>3, <4>1 DEF EngineType, transferVars, States, TckHigh
    <3>5. Answered
      <4>1. request[1] = 20
        BY <1>1, WorkingIs, HeaderIs
      <4>2. Answers(request, real, force)
              = IF real THEN {<<20, 0, 0>>, <<20, 0, 1>>}
                ELSE {<<20, 0, IF Len(request) > 3 THEN Flipped(request[4]) ELSE 0>>}
        BY <4>1, AnswersAre
      <4>3. response' \in Answers(request, real, force)
        BY <1>1, <3>3, <4>2
      <4>4. Len(response') > 0 /\ Len(response') <= MaxReply
        <5>1. \A n \in Nat : n >= 9 => 3 > 0 /\ 3 <= n
          OBVIOUS
        <5> QED
          BY <3>3, <5>1, Sizes
      <4> QED
        BY <3>1, <4>3, <4>4 DEF Answered
    <3>6. remaining' > 0
      <4>1. wait = HalfPeriod
        BY <1>1, <1>2, <2>2
      <4>2. remaining' \in Nat
        BY <1>a, <3>4
      <4>3. \A a, b, h \in Nat : b + h >= h + 2 /\ a + 1 >= b => a > 0
        OBVIOUS
      <4> QED
        BY <1>1, <1>2, <2>1, <4>1, <4>2, <4>3
    <3> QED
      BY <1>1, <2>1, <3>1, <3>4, <3>5, <3>6, WorkingEnds
  <2>3. CASE ~(wait >= HalfPeriod)
    <3>1. /\ wait' = wait + 1
          /\ \E bit \in {0, 1} :
               pins' = [pins EXCEPT !.tdo = IF wait = HalfPeriod - 1 THEN bit ELSE @]
          /\ UNCHANGED <<response, state, request, header, responsePos, transferVars, clocks>>
      BY <2>1, <2>3 DEF JtagHold
    <3>2. EngineType' /\ TckHigh'
      <4>1. wait' \in Nat
        BY <1>2, <3>1
      <4>2. pins' \in [tck : {0, 1}, tms : {0, 1}, tdi : {0, 1}, tdo : {0, 1}] /\ pins'.tck = pins.tck
        BY <1>1, <3>1 DEF EngineType
      <4> QED
        BY <1>1, <1>3, <3>1, <4>1, <4>2 DEF EngineType, transferVars, TckHigh
    <3>3. remaining' + wait' >= HalfPeriod + 2 /\ wait' <= HalfPeriod
      <4>1. remaining' \in Nat
        BY <1>a, <3>2
      <4>2. \A a, b, w, h \in Nat :
              b + w >= h + 2 /\ a + 1 >= b /\ ~(w >= h) => a + (w + 1) >= h + 2 /\ w + 1 <= h
        OBVIOUS
      <4> QED
        BY <1>1, <1>2, <2>1, <2>3, <3>1, <4>1, <4>2
    <3>4. Busy'
      BY <1>1, <1>5, <2>1, <3>1, <3>3 DEF Busy, WorkingEdge, Command
    <3> QED
      BY <1>1, <3>1, <3>2, <3>4, WorkingGoesOn
  <2> QED
    BY <2>2, <2>3
<1> QED
  BY <1>4, <1>5

LEMMA FetchWorks ==
  ASSUME TypeOK, TckHigh, Working, WorkingEdge, state = "FETCH_TRANSFER"
  PROVE  IInv'
<1>1. /\ FetchTransfer /\ ReadPort /\ Transferring /\ clocks = 0 /\ responsePos = 0
      /\ remaining + 2 * index >= 2 * Count + 2 /\ remaining >= 3 /\ remaining' + 1 >= remaining
      /\ EngineType /\ Count \in Nat
  BY WorkingIs DEF WorkingEdge, Engine, Capture, Prepare, JtagSetup, JtagHold, BuildTransfer, Respond,
                   Working, Busy
<1>2. /\ state' = "BUILD_TRANSFER"
      /\ UNCHANGED <<request, header, response, responsePos, transferVars, wait, pins, clocks>>
  BY <1>1 DEF FetchTransfer
<1>3. data' \in Byte
  BY <1>1, ReadPortType
<1>4. EngineType' /\ TckHigh'
  BY <1>1, <1>2, <1>3 DEF EngineType, States, TckHigh, transferVars
<1>5. remaining' \in Nat /\ remaining \in Nat
  BY <1>4, WorkingKeeps
<1>6. remaining' + 2 * index >= 2 * Count + 1 /\ remaining' >= 2
  <2>1. \A a, b, i, c \in Nat : b + 2 * i >= 2 * c + 2 /\ b >= 3 /\ a + 1 >= b
                                => a + 2 * i >= 2 * c + 1 /\ a >= 2
    OBVIOUS
  <2>2. index \in Nat
    BY <1>1 DEF EngineType
  <2> QED
    BY <1>1, <1>5, <2>1, <2>2
<1>7. Transferring'
  BY <1>1, <1>2 DEF Transferring, transferVars, Command, Count, WorkingEdge
<1>8. Fetched'
  BY <1>1, <1>2 DEF Fetched, ReadPort, Transferring, transferVars
<1>9. Busy'
  BY <1>1, <1>2, <1>6, <1>7, <1>8 DEF Busy, transferVars, Count
<1> QED
  BY <1>1, <1>2, <1>4, <1>9, WorkingGoesOn

LEMMA BuildWorks ==
  ASSUME TypeOK, TckHigh, Working, WorkingEdge, state = "BUILD_TRANSFER"
  PROVE  IInv'
<1>1. /\ BuildTransfer /\ ReadPort /\ Transferring /\ Fetched /\ clocks = 0 /\ responsePos = 0
      /\ remaining + 2 * index >= 2 * Count + 1 /\ remaining >= 2 /\ remaining' + 1 >= remaining
      /\ UNCHANGED <<real, force>>
  BY DEF WorkingEdge, Engine, Capture, Prepare, JtagSetup, JtagHold, FetchTransfer, Respond,
         Working, Busy
<1>2. /\ EngineType /\ force \in Faults /\ request # <<>> /\ HeaderOf(request) /\ Count \in Nat
      /\ promised.clocks = IF Command = 20 /\ real THEN 1 ELSE 0
  BY WorkingIs
<1>3. /\ EngineType' /\ TckHigh' /\ UNCHANGED <<request, header, responsePos, clocks>>
      /\ \/ Answered
         \/ /\ index < Count /\ index' = index + 1 /\ Transferring'
            /\ state' = IF index + 1 < Count THEN "FETCH_TRANSFER" ELSE "BUILD_TRANSFER"
  BY <1>1, <1>2, BuildStep
<1>4. remaining' \in Nat /\ remaining \in Nat /\ index \in Nat
  BY <1>2, <1>3, WorkingKeeps DEF EngineType
<1>5. CASE Answered
  <2>1. remaining' > 0
    <3>1. \A a, b \in Nat : b >= 2 /\ a + 1 >= b => a > 0
      OBVIOUS
    <3> QED
      BY <1>1, <1>4, <3>1
  <2>2. clocks' = promised.clocks
    BY <1>1, <1>2, <1>3 DEF Transferring
  <2> QED
    BY <1>1, <1>3, <1>5, <2>1, <2>2, WorkingEnds
<1>6. CASE /\ index < Count /\ index' = index + 1 /\ Transferring'
           /\ state' = IF index + 1 < Count THEN "FETCH_TRANSFER" ELSE "BUILD_TRANSFER"
  <2>1. Count' = Count
    BY <1>3 DEF Count
  <2>2. CASE index + 1 < Count
    <3>1. remaining' + 2 * index' >= 2 * Count' + 2 /\ remaining' >= 3 /\ index' < Count'
      <4>1. \A a, b, i, c \in Nat : b + 2 * i >= 2 * c + 1 /\ i + 1 < c /\ a + 1 >= b
                                    => a + 2 * (i + 1) >= 2 * c + 2 /\ a >= 3
        OBVIOUS
      <4> QED
        BY <1>1, <1>2, <1>4, <1>6, <2>1, <2>2, <4>1
    <3>2. state' = "FETCH_TRANSFER" /\ Transferring' /\ clocks' = 0
      BY <1>1, <1>3, <1>6, <2>2
    <3>3. Busy'
      BY <3>1, <3>2 DEF Busy
    <3> QED
      BY <1>1, <1>3, <3>3, WorkingGoesOn
  <2>3. CASE ~(index + 1 < Count)
    <3>1. remaining' + 2 * index' >= 2 * Count' + 1 /\ remaining' >= 2 /\ ~(index' < Count')
      <4>1. \A a, b, i, c \in Nat : b + 2 * i >= 2 * c + 1 /\ ~(i + 1 < c) /\ i < c /\ a + 1 >= b
                                    => a + 2 * (i + 1) >= 2 * c + 1 /\ a >= 2
        OBVIOUS
      <4> QED
        BY <1>1, <1>2, <1>4, <1>6, <2>1, <2>3, <4>1
    <3>2. state' = "BUILD_TRANSFER" /\ Transferring' /\ clocks' = 0 /\ Fetched'
      BY <1>1, <1>3, <1>6, <2>3, <3>1 DEF Fetched
    <3>3. Busy'
      BY <3>1, <3>2 DEF Busy
    <3> QED
      BY <1>1, <1>3, <3>3, WorkingGoesOn
  <2> QED
    BY <2>2, <2>3
<1> QED
  BY <1>3, <1>5, <1>6

LEMMA WorkingStep ==
  ASSUME TypeOK, TckHigh, Working, WorkingEdge
  PROVE  IInv'
<1>1. state \in {"PREPARE", "JTAG_SETUP", "JTAG_HOLD", "FETCH_TRANSFER", "BUILD_TRANSFER"}
  BY DEF Working, Busy
<1> QED
  BY <1>1, PrepareWorks, JtagWorks, FetchWorks, BuildWorks

-----------------------------------------------------------------------------
(***************************************************************************)
(* Answering                                                               *)
(***************************************************************************)
LEMMA AnsweringIs ==
  ASSUME TypeOK, Answering
  PROVE  /\ reply \in Seq(Nat) /\ response \in Seq(Nat) /\ Len(reply) \in Nat /\ Len(response) \in Nat
         /\ Len(reply) < Len(response) /\ Len(reply) < MaxReply /\ responsePos \in Nat
         /\ state \in {"RESPOND", "CAPTURE"}
<1>1. /\ reply \in Seq(Nat) /\ response \in Seq(Nat) /\ responsePos \in Nat
      /\ Len(reply) < Len(response) /\ Len(response) <= MaxReply /\ state \in {"RESPOND", "CAPTURE"}
  BY DEF TypeOK, FirmwareType, EngineType, Bytes, Answering, Delivered
<1>2. Len(reply) \in Nat /\ Len(response) \in Nat
  BY <1>1, LenProperties
<1>3. \A a, b, c \in Nat : a < b /\ b <= c => a < c
  OBVIOUS
<1> QED
  BY <1>1, <1>2, <1>3, Sizes

\* While the holding register is full the engine waits.
LEMMA HeldEngine ==
  ASSUME TypeOK, TckHigh, Answering, hold.valid, Engine
  PROVE  /\ EngineType' /\ TckHigh' /\ UNCHANGED <<state, request, response, responsePos, clocks>>
         /\ HoldLoaded = hold
<1>1. ~Given
  BY DEF Given
<1>2. HoldLoaded = hold
  BY <1>1 DEF HoldLoaded
<1>3. CASE state = "CAPTURE"
  <2>1. ~cmd.valid
    BY DEF Answering
  <2> QED
    BY <1>2, <1>3, <2>1, WaitingEngine
<1>4. CASE state = "RESPOND"
  <2>1. Respond /\ ReadPort
    BY <1>4 DEF Engine, Capture, Prepare, JtagSetup, JtagHold, FetchTransfer, BuildTransfer
  <2>2. UNCHANGED <<state, request, responsePos, header, response, transferVars, wait, pins, clocks>>
    BY <1>1, <2>1 DEF Respond
  <2>3. data' \in Byte
    BY <2>1, ReadPortType DEF TypeOK
  <2>4. EngineType' /\ TckHigh'
    BY <2>2, <2>3 DEF TypeOK, EngineType, TckHigh, transferVars
  <2> QED
    BY <1>2, <2>2, <2>4
<1> QED
  BY <1>3, <1>4, AnsweringIs

\* The firmware polls, or does nothing.
AnsweringEdge ==
  /\ Engine /\ CommandOut /\ HoldIn
  /\ UNCHANGED <<current, sent, reply, result, promised, real, force>>
  /\ remaining' \in 0 .. PollBudget
  /\ fw' = fw \/ (hold.valid /\ fw' = "read")

LEMMA AnsweringStep ==
  ASSUME TypeOK, TckHigh, Answering, AnsweringEdge
  PROVE  IInv'
<1>1. cmd' \in Register(Byte) /\ ~cmd'.valid
  BY CommandOutIs DEF AnsweringEdge, Answering, TypeOK, FirmwareType
<1>2. Exchanging' /\ fw' \in {"await", "read"} /\ hold \in Register(Nat)
  BY SameExchange DEF AnsweringEdge, Answering, TypeOK, FirmwareType
<1>3. CASE hold.valid
  <2>1. /\ EngineType' /\ TckHigh' /\ UNCHANGED <<state, request, response, responsePos, clocks>>
        /\ hold' = hold
    BY <1>3, HeldEngine DEF AnsweringEdge, HoldIn
  <2>2. TypeOK'
    BY <1>1, <1>2, <2>1 DEF TypeOK, FirmwareType, AnsweringEdge
  <2>3. Delivered' /\ InHold' = InHold
    BY <2>1 DEF Delivered, InHold, Answering, AnsweringEdge
  <2>4. Answering'
    BY <1>1, <1>2, <1>3, <2>1, <2>3 DEF Answering, AnsweringEdge
  <2> QED
    BY <2>1, <2>2, <2>4 DEF IInv, Phase
<1>4. CASE ~hold.valid
  <2>1. state = "RESPOND" /\ responsePos = Len(reply) /\ Len(reply) < Len(response) /\ fw' = "await"
    BY <1>4, AnsweringIs DEF Answering, InHold, AnsweringEdge
  <2>2. Respond /\ ReadPort
    BY <2>1 DEF AnsweringEdge, Engine, Capture, Prepare, JtagSetup, JtagHold, FetchTransfer, BuildTransfer
  <2>3. Given
    BY <1>4, <2>1 DEF Given, ResponseValid
  <2>4. /\ UNCHANGED <<header, response, transferVars, wait, pins, clocks>>
        /\ IF ResponseLast THEN state' = "CAPTURE" /\ request' = <<>> /\ responsePos' = 0
           ELSE responsePos' = responsePos + 1 /\ UNCHANGED <<state, request>>
    BY <2>2, <2>3 DEF Respond
  <2>5. ResponseLast <=> Len(reply) + 1 = Len(response)
    BY <2>1 DEF ResponseLast
  <2>6. response[Len(reply) + 1] \in Nat
    <3>1. Len(reply) + 1 \in 1 .. Len(response)
      BY AnsweringIs
    <3> QED
      BY <3>1, AnsweringIs, ElementOfSeq
  <2>7. /\ hold' = [byte |-> response[Len(reply) + 1], last |-> ResponseLast, valid |-> TRUE]
        /\ hold' \in Register(Nat)
    <3>1. HoldLoaded = [byte |-> response[Len(reply) + 1], last |-> ResponseLast, valid |-> TRUE]
      BY <2>1, <2>3 DEF HoldLoaded
    <3>2. ResponseLast \in BOOLEAN
      BY DEF ResponseLast
    <3> QED
      BY <2>6, <3>1, <3>2 DEF AnsweringEdge, HoldIn, Register
  <2>8. data' \in Byte
    BY <2>2, ReadPortType DEF TypeOK
  <2>9. EngineType' /\ TckHigh'
    <3>1. responsePos' \in Nat /\ request' \in Seq(Byte) /\ state' \in {"CAPTURE", "RESPOND"}
      <4>1. <<>> \in Seq(Byte)
        OBVIOUS
      <4> QED
        <5>1. request \in Seq(Byte) /\ responsePos \in Nat /\ responsePos + 1 \in Nat /\ 0 \in Nat
          BY AnsweringIs DEF TypeOK, EngineType
        <5>2. CASE ResponseLast
          BY <2>4, <4>1, <5>1, <5>2
        <5>3. CASE ~ResponseLast
          BY <2>1, <2>4, <5>1, <5>3
        <5> QED
          BY <5>2, <5>3
    <3> QED
      BY <2>1, <2>4, <2>8, <3>1 DEF TypeOK, EngineType, TckHigh, transferVars, States
  <2>10. TypeOK'
    BY <1>1, <2>1, <2>7, <2>9 DEF TypeOK, FirmwareType, AnsweringEdge
  <2>11. hold'.valid /\ hold'.byte = response[Len(reply) + 1] /\ (hold'.last <=> ResponseLast)
    BY <2>7
  <2>12. Delivered' /\ InHold' = 1
    BY <2>4, <2>5, <2>11 DEF Delivered, InHold, Answering, AnsweringEdge
  <2>13. \/ state' = "RESPOND" /\ responsePos' = Len(reply') + 1 /\ responsePos' < Len(response')
         \/ state' = "CAPTURE" /\ request' = <<>> /\ Len(reply') + 1 = Len(response')
    <3>1. reply' = reply /\ response' = response
      BY <2>4 DEF AnsweringEdge
    <3>2. CASE ResponseLast
      BY <2>4, <2>5, <3>1, <3>2
    <3>3. CASE ~ResponseLast
      <4>1. \A a, b \in Nat : a < b /\ a + 1 # b => a + 1 < b
        OBVIOUS
      <4>2. Len(reply) + 1 < Len(response)
        BY <2>1, <2>5, <3>3, <4>1, AnsweringIs
      <4> QED
        BY <2>1, <2>4, <3>1, <3>3, <4>2
    <3> QED
      BY <3>2, <3>3
  <2>14. Answering'
    BY <1>1, <1>2, <2>1, <2>4, <2>11, <2>12, <2>13 DEF Answering, AnsweringEdge
  <2> QED
    BY <2>9, <2>10, <2>14 DEF IInv, Phase
<1> QED
  BY <1>3, <1>4

\* A byte of the reply is read; with the last one the exchange ends.
LEMMA AnsweringReads ==
  ASSUME TypeOK, TckHigh, Answering, ReadByte
  PROVE  IInv'
<1>1. /\ fw = "read" /\ Engine /\ CommandOut /\ HoldOut /\ remaining' = PollBudget
      /\ UNCHANGED <<current, sent, promised, real, force>>
  BY DEF ReadByte, configVars
<1>2. /\ reply \in Seq(Nat) /\ response \in Seq(Nat) /\ Len(reply) \in Nat /\ Len(response) \in Nat
      /\ Len(reply) < Len(response) /\ Len(reply) < MaxReply /\ responsePos \in Nat
  BY AnsweringIs
<1>3. /\ hold.valid /\ hold.byte = response[Len(reply) + 1] /\ hold \in Register(Nat)
      /\ (hold.last <=> Len(reply) + 1 = Len(response)) /\ hold.byte \in Nat
  BY <1>1 DEF Answering, Delivered, TypeOK, FirmwareType, Register
<1>4. /\ EngineType' /\ TckHigh' /\ UNCHANGED <<state, request, response, responsePos, clocks>>
      /\ HoldLoaded = hold
  BY <1>1, <1>3, HeldEngine
<1>5. cmd' \in Register(Byte) /\ ~cmd'.valid
  BY <1>1, CommandOutIs DEF Answering, TypeOK, FirmwareType
<1>6. hold' \in Register(Nat) /\ ~hold'.valid
  BY <1>1, <1>3, <1>4, HoldOutIs
<1>7. /\ reply' = Append(reply, hold.byte)
      /\ IF hold.last THEN fw' = "idle" /\ result' = "ok" ELSE fw' = "await" /\ result' = result
  <2>1. Len(reply) # MaxReply
    BY <1>2, Sizes
  <2> QED
    BY <2>1 DEF ReadByte, End
<1>8. /\ reply' \in Seq(Nat) /\ Len(reply') = Len(reply) + 1
      /\ \A i \in 1 .. Len(reply') : reply'[i] = response[i]
  <2>1. /\ Append(reply, hold.byte) \in Seq(Nat) /\ Len(Append(reply, hold.byte)) = Len(reply) + 1
        /\ Append(reply, hold.byte)[Len(reply) + 1] = hold.byte
        /\ \A i \in 1 .. Len(reply) : Append(reply, hold.byte)[i] = reply[i]
    BY <1>2, <1>3, AppendProperties
  <2>2. \A i \in 1 .. Len(reply) : reply[i] = response[i]
    BY DEF Answering, Delivered
  <2>3. \A i \in 1 .. Len(reply) + 1 : i = Len(reply) + 1 \/ i \in 1 .. Len(reply)
    BY <1>2
  <2> QED
    BY <1>3, <1>7, <2>1, <2>2, <2>3
<1>9. TypeOK'
  <2>1. remaining' \in 0 .. PollBudget /\ fw' \in {"idle", "await"}
        /\ result' \in {"none", "ok", "EmptyRequest"} /\ reply' \in Bytes
    BY <1>1, <1>7, <1>8, Sizes DEF TypeOK, FirmwareType, Bytes
  <2> QED
    BY <1>1, <1>4, <1>5, <1>6, <2>1 DEF TypeOK, FirmwareType
<1>10. \/ state = "RESPOND" /\ responsePos = Len(reply) + 1 /\ responsePos < Len(response)
       \/ state = "CAPTURE" /\ request = <<>> /\ Len(reply) + 1 = Len(response)
  BY <1>3 DEF Answering, InHold
<1>11. response \in promised.replies /\ Len(response) <= MaxReply /\ clocks = promised.clocks
  BY DEF Answering
<1>12. CASE hold.last
  <2>1. state = "CAPTURE" /\ request = <<>>
    BY <1>2, <1>3, <1>10, <1>12
  <2>2. reply' = response
    <3>1. Len(reply') = Len(response)
      BY <1>3, <1>8, <1>12
    <3> QED
      BY <1>2, <1>8, <3>1, SeqEqual
  <2>3. Resting'
    BY <1>1, <1>4, <1>5, <1>6, <1>7, <1>11, <1>12, <2>1, <2>2 DEF Resting
  <2> QED
    BY <1>4, <1>9, <2>3 DEF IInv, Phase
<1>13. CASE ~hold.last
  <2>1. /\ state = "RESPOND" /\ responsePos = Len(reply) + 1 /\ responsePos < Len(response)
        /\ fw' = "await" /\ result' = result
    BY <1>3, <1>7, <1>10, <1>13
  <2>2. Exchanging'
    BY <1>1, <2>1, SameExchange DEF Answering
  <2>3. Delivered'
    BY <1>4, <1>6, <1>8, <2>1 DEF Delivered
  <2>4. responsePos' = Len(reply') + InHold' /\ responsePos' < Len(response')
    BY <1>2, <1>4, <1>6, <1>8, <2>1 DEF InHold
  <2>5. remaining' > 0
    BY <1>1, Sizes
  <2>6. Answering'
    BY <1>1, <1>4, <1>5, <1>6, <1>11, <2>1, <2>2, <2>3, <2>4, <2>5 DEF Answering
  <2> QED
    BY <1>4, <1>9, <2>6 DEF IInv, Phase
<1> QED
  BY <1>12, <1>13

-----------------------------------------------------------------------------
(***************************************************************************)
(* Between exchanges                                                       *)
(***************************************************************************)
LEMMA RestingEdge ==
  ASSUME TypeOK, TckHigh, Resting, Edge
  PROVE  IInv'
<1>1. Engine /\ CommandOut /\ HoldIn /\ UNCHANGED <<fwVars, configVars>>
  BY DEF Edge
<1>2. /\ EngineType' /\ TckHigh' /\ UNCHANGED <<state, request, clocks>>
  BY <1>1, WaitingEngine DEF Resting
<1>3. cmd' \in Register(Byte) /\ ~cmd'.valid
  BY <1>1, CommandOutIs DEF Resting, TypeOK, FirmwareType
<1>4. hold' = hold
  BY <1>1, HoldKept DEF HoldIn, Resting
<1>5. TypeOK'
  BY <1>1, <1>2, <1>3, <1>4 DEF TypeOK, FirmwareType, fwVars, configVars
<1>6. Resting'
  BY <1>1, <1>2, <1>3, <1>4 DEF Resting, fwVars
<1> QED
  BY <1>2, <1>5, <1>6 DEF IInv, Phase

LEMMA BeginStep ==
  ASSUME TypeOK, TckHigh, Resting, Begin
  PROVE  IInv'
<1>1. PICK r \in Requests :
        /\ current' = r
        /\ IF r = <<>> THEN result' = "EmptyRequest" /\ fw' = fw ELSE result' = "none" /\ fw' = "offer"
        /\ promised' = IF r = <<>> THEN promised ELSE Promise(r)
  BY DEF Begin
<1>2. /\ sent' = 0 /\ remaining' = PollBudget /\ reply' = <<>> /\ clocks' = 0
      /\ UNCHANGED <<configVars, cmd, hold, state, request, header, response, responsePos,
                     transferVars, data, wait, pins>>
  BY DEF Begin
<1>3. remaining' \in 0 .. PollBudget /\ <<>> \in Bytes /\ remaining' > 0
  BY <1>2, Sizes, BytesAre
<1>4. EngineType' /\ TckHigh'
  BY <1>2 DEF TypeOK, EngineType, TckHigh, transferVars
<1>5. TypeOK'
  BY <1>1, <1>2, <1>3, <1>4 DEF TypeOK, FirmwareType, configVars
<1>6. CASE r = <<>>
  <2>1. Resting'
    BY <1>1, <1>2, <1>6 DEF Resting
  <2> QED
    BY <1>4, <1>5, <2>1 DEF IInv, Phase
<1>7. CASE r # <<>>
  <2>1. Exchanging'
    <3>1. Promise(r)' = Promise(r)
      BY <1>2 DEF Promise, configVars
    <3> QED
      BY <1>1, <1>7, <3>1 DEF Exchanging, Promise
  <2>2. Len(r) > 0 /\ r \in Seq(Byte) /\ Len(r) \in Nat
    <3>1. r \in Seq(Byte) /\ Len(r) \in Nat
      BY RequestIs
    <3>2. Len(r) \in Nat \ {0}
      BY <1>7, <3>1, EmptySeq
    <3> QED
      BY <3>1, <3>2
  <2>3. state' = "CAPTURE" /\ request' = <<>> /\ ~cmd'.valid /\ ~hold'.valid
    BY <1>2 DEF Resting
  <2>4. Captured' /\ HeaderOf(request)'
    BY <1>1, <1>2, <2>2, <2>3 DEF Captured, Pending, HeaderOf
  <2>5. Loading'
    BY <1>1, <1>2, <1>3, <1>7, <2>1, <2>2, <2>3, <2>4 DEF Loading
  <2> QED
    BY <1>4, <1>5, <2>5 DEF IInv, Phase
<1> QED
  BY <1>6, <1>7

LEMMA ConfigStep ==
  ASSUME TypeOK, TckHigh, Resting, SetTarget \/ SetForce
  PROVE  IInv'
<1>1. /\ UNCHANGED <<fwVars, cmd, hold, engineVars>> /\ real' \in BOOLEAN /\ force' \in Faults
  BY DEF SetTarget, SetForce, TypeOK, FirmwareType, Faults
<1>2. TypeOK' /\ TckHigh'
  BY <1>1 DEF TypeOK, FirmwareType, EngineType, TckHigh, fwVars, engineVars, transferVars
<1>3. Resting'
  BY <1>1 DEF Resting, fwVars, engineVars
<1> QED
  BY <1>2, <1>3 DEF IInv, Phase

-----------------------------------------------------------------------------
(***************************************************************************)
(* The invariant                                                           *)
(***************************************************************************)
\* The budget that is left after a poll that did not find its status bit.
LEMMA PollIs ==
  ASSUME TypeOK, Poll, remaining > 0
  PROVE  /\ remaining' \in {remaining, remaining - 1} /\ remaining' + 1 >= remaining
         /\ remaining' \in 0 .. PollBudget /\ UNCHANGED <<fw, result>>
<1>1. remaining \in 0 .. PollBudget /\ remaining # 0 /\ PollBudget \in Nat
  BY Sizes DEF TypeOK, FirmwareType
<1>2. remaining' = remaining - 1 /\ UNCHANGED <<fw, result>>
  BY <1>1 DEF Poll
<1>3. \A b \in Nat : \A a \in 0 .. b : a # 0 => (a - 1) + 1 >= a /\ a - 1 \in 0 .. b
  OBVIOUS
<1> QED
  BY <1>1, <1>2, <1>3

LEMMA Inductive == IInv /\ [Next]_vars => IInv'
<1> SUFFICES ASSUME TypeOK, TckHigh, Phase, [Next]_vars PROVE IInv'
  BY DEF IInv
<1>t. remaining \in 0 .. PollBudget /\ remaining \in Nat /\ PollBudget \in Nat /\ PollBudget > 0
  BY Sizes DEF TypeOK, FirmwareType
<1>1. CASE Edge
  <2>1. /\ Engine /\ CommandOut /\ HoldIn
        /\ UNCHANGED <<fw, current, sent, remaining, reply, result, promised, real, force>>
        /\ remaining' \in 0 .. PollBudget /\ remaining' + 1 >= remaining
    BY <1>1, <1>t DEF Edge, fwVars, configVars
  <2>2. CASE Resting
    BY <1>1, <2>2, RestingEdge
  <2>3. CASE Loading /\ cmd.valid
    BY <2>1, <2>3, LoadingTakes
  <2>4. CASE Loading /\ ~cmd.valid
    BY <2>1, <2>4, LoadingWaits
  <2>5. CASE Working
    BY <2>1, <2>5, WorkingStep DEF WorkingEdge
  <2>6. CASE Answering
    BY <2>1, <2>6, AnsweringStep DEF AnsweringEdge
  <2> QED
    BY <2>2, <2>3, <2>4, <2>5, <2>6 DEF Phase
<1>2. CASE Begin
  <2>1. Resting
    BY <1>2 DEF Begin, Phase, Loading, Working, Answering, Exchanging
  <2> QED
    BY <1>2, <2>1, BeginStep
<1>3. CASE PollCommand
  <2>1. Loading /\ fw = "offer"
    BY <1>3 DEF PollCommand, Phase, Resting, Working, Answering
  <2>2. /\ Engine /\ CommandOut /\ HoldIn
        /\ IF ~cmd.valid THEN fw' = "write" /\ UNCHANGED <<remaining, result>> ELSE Poll
        /\ UNCHANGED <<current, sent, reply, promised, real, force>>
    BY <1>3 DEF PollCommand, configVars
  <2>3. CASE ~cmd.valid
    BY <2>1, <2>2, <2>3, LoadingWaits
  <2>4. CASE cmd.valid
    <3>1. remaining > 0 /\ Poll
      BY <2>1, <2>2, <2>4 DEF Loading
    <3>2. /\ remaining' \in {remaining, remaining - 1} /\ remaining' + 1 >= remaining
        /\ remaining' \in 0 .. PollBudget /\ UNCHANGED <<fw, result>>
      BY <3>1, PollIs
    <3> QED
      BY <2>1, <2>2, <2>4, <3>2, LoadingTakes
  <2> QED
    BY <2>3, <2>4
<1>4. CASE WriteByte
  <2>1. Loading
    BY <1>4 DEF WriteByte, Phase, Resting, Working, Answering
  <2> QED
    BY <1>4, <2>1, LoadingWrites
<1>5. CASE PollReply
  <2>1. /\ fw = "await" /\ Engine /\ CommandOut /\ HoldIn
        /\ IF hold.valid THEN fw' = "read" /\ UNCHANGED <<remaining, result>> ELSE Poll
        /\ UNCHANGED <<current, sent, reply, promised, real, force>>
    BY <1>5 DEF PollReply, configVars
  <2>2. CASE Loading
    <3>1. cmd.valid /\ ~hold.valid /\ remaining > 0
      BY <1>t, <2>1, <2>2, LoadingIs DEF Loading, Captured, Pending
    <3>2. /\ remaining' \in {remaining, remaining - 1} /\ remaining' + 1 >= remaining
        /\ remaining' \in 0 .. PollBudget /\ UNCHANGED <<fw, result>>
      BY <2>1, <3>1, PollIs
    <3> QED
      BY <2>1, <2>2, <3>1, <3>2, LoadingTakes
  <2>3. CASE Working
    <3>1. ~hold.valid /\ remaining > 0
      <4>1. CASE state = "PREPARE"
        <5>1. \A a, m, p \in Nat : a + 1 >= p /\ p >= 2 * m + 4 => a > 0
          OBVIOUS
        <5> QED
          BY <1>t, <2>3, <4>1, <5>1, Sizes DEF Working, Busy
      <4>2. CASE state \in {"JTAG_SETUP", "JTAG_HOLD"}
        <5>1. \A a, w, h \in Nat : w <= h /\ (a + w >= 2 * h + 3 \/ a + w >= h + 2) => a > 0
          OBVIOUS
        <5>2. wait \in Nat
          BY DEF TypeOK, EngineType
        <5> QED
          BY <1>t, <2>3, <4>2, <5>1, <5>2, Sizes DEF Working, Busy
      <4>3. CASE state \in {"FETCH_TRANSFER", "BUILD_TRANSFER"}
        BY <1>t, <2>3, <4>3 DEF Working, Busy
      <4> QED
        BY <2>3, <4>1, <4>2, <4>3 DEF Working, Busy
    <3>2. /\ remaining' \in {remaining, remaining - 1} /\ remaining' + 1 >= remaining
        /\ remaining' \in 0 .. PollBudget /\ UNCHANGED <<fw, result>>
      BY <2>1, <3>1, PollIs
    <3> QED
      BY <2>1, <2>3, <3>2, WorkingStep DEF WorkingEdge
  <2>4. CASE Answering /\ hold.valid
    <3>1. fw' = "read" /\ UNCHANGED <<remaining, result>> /\ remaining' \in 0 .. PollBudget
      BY <1>t, <2>1, <2>4
    <3> QED
      BY <2>1, <2>4, <3>1, AnsweringStep DEF AnsweringEdge
  <2>5. CASE Answering /\ ~hold.valid
    <3>1. remaining > 0 /\ Poll
      BY <2>1, <2>5 DEF Answering
    <3>2. /\ remaining' \in {remaining, remaining - 1} /\ remaining' + 1 >= remaining
        /\ remaining' \in 0 .. PollBudget /\ UNCHANGED <<fw, result>>
      BY <3>1, PollIs
    <3> QED
      BY <2>1, <2>5, <3>2, AnsweringStep DEF AnsweringEdge
  <2> QED
    BY <2>1, <2>2, <2>3, <2>4, <2>5 DEF Phase, Resting
<1>6. CASE ReadByte
  <2>1. Answering
    BY <1>6 DEF ReadByte, Phase, Resting, Loading, Working
  <2> QED
    BY <1>6, <2>1, AnsweringReads
<1>7. CASE SetTarget \/ SetForce
  <2>1. Resting
    BY <1>7 DEF SetTarget, SetForce, Phase, Loading, Working, Answering, Exchanging
  <2> QED
    BY <1>7, <2>1, ConfigStep
<1>8. CASE UNCHANGED vars
  <2>1. TypeOK' /\ TckHigh'
    BY <1>8 DEF TypeOK, FirmwareType, EngineType, TckHigh, vars, fwVars, configVars, engineVars, transferVars
  <2>2. Phase'
    BY <1>8 DEF Phase, Resting, Loading, Working, Answering, Exchanging, Promise, Captured, Pending,
                HeaderOf, Busy, Transferring, Fetched, Delivered, InHold, Command, Count,
                vars, fwVars, configVars, engineVars, transferVars
  <2> QED
    BY <2>1, <2>2 DEF IInv
<1> QED
  BY <1>1, <1>2, <1>3, <1>4, <1>5, <1>6, <1>7, <1>8 DEF Next, Firmware

LEMMA Invariant == Spec => []IInv
<1>1. Init => IInv
  BY InitInv
<1>2. IInv /\ [Next]_vars => IInv'
  BY Inductive
<1> QED
  BY <1>1, <1>2, PTL DEF Spec

\* The registers of the mailbox and of the engine, and the variables of dap_exchange,
\* keep to their ranges; the poll budget is never overdrawn.
THEOREM TypeCorrect == Spec => []TypeOK
<1>1. IInv => TypeOK
  BY DEF IInv
<1> QED
  BY <1>1, Invariant, PTL

\* dap_exchange returns the answer to its own request, byte by byte, and never
\* gives up: neither the poll budget nor the room for the reply runs out.
THEOREM OwnReplies == Spec => []RepliesMatch
<1>1. IInv => RepliesMatch
  <2> SUFFICES ASSUME IInv PROVE RepliesMatch
    OBVIOUS
  <2>1. result \in {"none", "ok", "EmptyRequest"}
    BY DEF IInv, TypeOK, FirmwareType
  <2>2. result = "ok" => reply \in promised.replies /\ clocks = promised.clocks
    BY DEF IInv, Phase, Resting, Loading, Working, Answering, Exchanging
  <2> QED
    BY <2>1, <2>2 DEF RepliesMatch
<1> QED
  BY <1>1, Invariant, PTL

\* No edge of the engine moves TMS or TDI while TCK is high, rises or falls.
LEMMA PinsStep ==
  ASSUME IInv, [Next]_vars
  PROVE  pins.tck = 1 \/ pins'.tck = 1 => pins'.tms = pins.tms /\ pins'.tdi = pins.tdi
<1>1. pins \in [tck : {0, 1}, tms : {0, 1}, tdi : {0, 1}, tdo : {0, 1}]
  BY DEF IInv, TypeOK, EngineType
<1>2. CASE Engine
  <2>1. CASE Prepare /\ PrepareSequence
    <3>1. pins'.tck = 0 \/ UNCHANGED pins
      BY <1>1, <2>1 DEF PrepareSequence
    <3>2. pins.tck # 1
      BY <2>1 DEF IInv, TckHigh, Prepare
    <3> QED
      BY <3>1, <3>2
  <2>2. CASE JtagSetup
    BY <1>1, <2>2 DEF JtagSetup
  <2>3. CASE JtagHold
    BY <1>1, <2>3 DEF JtagHold
  <2>4. CASE UNCHANGED pins
    BY <2>4
  <2> QED
    BY <1>2, <2>1, <2>2, <2>3, <2>4
      DEF Engine, Capture, Prepare, PrepareInfo, PrepareConnect, PrepareTransfer, PrepareAbort,
          PreparePins, PrepareUnknown, FetchTransfer, BuildTransfer, Respond
<1>3. CASE UNCHANGED pins
  BY <1>3
<1> QED
  BY <1>2, <1>3 DEF Next, Edge, Begin, Firmware, PollCommand, WriteByte, PollReply, ReadByte,
                    SetTarget, SetForce, vars, engineVars

\* TMS and TDI are stable while TCK is high, when it rises and when it falls, as the
\* comments at JTAG_SETUP and JTAG_HOLD promise.
THEOREM PinsHold == Spec => PinsStable
<1>1. IInv /\ [Next]_vars => [pins.tck = 1 \/ pins'.tck = 1 => pins'.tms = pins.tms /\ pins'.tdi = pins.tdi]_vars
  BY PinsStep
<1> QED
  BY <1>1, Invariant, PTL DEF Spec, PinsStable
=============================================================================
