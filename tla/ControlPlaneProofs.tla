------------------------- MODULE ControlPlaneProofs -------------------------
(***************************************************************************)
(* Proofs about the firmware's control requests: ControlPlane, for any     *)
(* images, sizes of a chunk and of the memory, any counters, and any       *)
(* number of requests left behind; and Scheduler, the threads that serve   *)
(* them and the lock between these.                                        *)
(***************************************************************************)
EXTENDS ControlPlane, Scheduler, SequenceTheorems, TLAPS

Requests == Seq(Nat)
Entries == [live : BOOLEAN, request : Requests, image : Seq(Nat)]
Busy == serving # Nothing

\* What the proofs need of the types; which words an access of the CoreSight
\* set-up carries is said where they matter.
TypeOK ==
  /\ habit \in {"load", "configure", "observe"}
  /\ cli \in [left : Seq(Requests), image : Seq(Nat), waiting : BOOLEAN]
  /\ pending \in Seq(Entries)
  /\ Busy =>
       /\ serving = [live |-> serving.live, request |-> serving.request,
                     image |-> serving.image, todo |-> serving.todo,
                     answer |-> serving.answer, before |-> serving.before]
       /\ serving.live \in BOOLEAN /\ serving.request \in Requests /\ serving.image \in Seq(Nat)
       /\ serving.before \in [Range(Counters) -> Nat]
  /\ bram = [i \in 1 .. BramSize |-> bram[i]] /\ counter \in [Range(Counters) -> Nat]
  /\ releasedFor \in Seq(Nat)

\* Only the last request of the queue, executed ones included, can be one that
\* is waited for, and it is the one the command line is at.
OneIsLive ==
  /\ cli.left = <<>> => cli = Idle
  /\ \A i \in 1 .. Len(pending) : pending[i].live =>
       /\ i = Len(pending) /\ ~serving.live /\ cli.waiting
       /\ cli.left # <<>> /\ pending[i].request = Head(cli.left) /\ pending[i].image = cli.image
  /\ serving.live =>
       /\ Busy /\ pending = <<>> /\ cli.waiting
       /\ cli.left # <<>> /\ serving.request = Head(cli.left) /\ serving.image = cli.image

-----------------------------------------------------------------------------
(***************************************************************************)
(* Loading the M3                                                          *)
(***************************************************************************)
Loadable == {a \in Images : Len(a) \in 2 .. BramSize}

\* A request for the M3: one of load-m3's for image a, or a single M3Control.
IsOf(r, a) ==
  \/ a = <<>> /\ \E b \in {0, 1, 3} : r = M3Control(b)
  \/ a \in Loadable /\ \E k \in 1 .. Len(load_m3(a)) : r = load_m3(a)[k]

\* One that load-m3 sends after the core was held.
Late(r, a) == a # <<>> /\ r # M3Control(0)

\* How many words of a the board has before request r and after it.
Before(r, a) == IF r[1] = 7 THEN r[2] ELSE IF r = M3Control(0) THEN 0 ELSE Len(a)
Beyond(r, a) == IF r[1] = 7 THEN r[2] + Len(r) - 2 ELSE Before(r, a)
Full(a, n) == \A p \in 1 .. Len(a) : p <= n => bram[p] = a[p]

\* Accesses the board has made for the request it serves.
Made == Len(Accesses(serving.request)) - Len(serving.todo)

\* A late request is the first of the queue, and finds the words before it
\* written and the core held.
QueueIsOrdered ==
  \A i \in 1 .. Len(pending) :
    LET e == pending[i] IN
    /\ IsOf(e.request, e.image)
    /\ Late(e.request, e.image) =>
         /\ i = 1 /\ ~Busy
         /\ Full(e.image, Before(e.request, e.image)) /\ releasedFor = <<>>

\* The words of the chunk being written come in order, and the core is held
\* until the release.
ServingIsOrdered ==
  Busy =>
    LET r == serving.request
        a == serving.image IN
    /\ IsOf(r, a) /\ Made \in 0 .. Len(Accesses(r))
    /\ serving.todo = SubSeq(Accesses(r), Made + 1, Len(Accesses(r)))
    /\ Late(r, a) =>
         /\ Full(a, IF r[1] = 7 THEN r[2] + Made ELSE Before(r, a))
         /\ r # M3Control(1) \/ serving.todo # <<>> => releasedFor = <<>>
    /\ ~Late(r, a) /\ serving.todo = <<>> => releasedFor = <<>>

\* load-m3 sends a late request only when the board has done the one before.
CliIsOrdered ==
  /\ \/ cli.left = <<>>
     \/ cli.image = <<>> /\ \E b \in {0, 1, 3} : cli.left = <<M3Control(b)>>
     \/ /\ cli.image \in Loadable
        /\ \E k \in 1 .. Len(load_m3(cli.image)) :
             cli.left = SubSeq(load_m3(cli.image), k, Len(load_m3(cli.image)))
  /\ cli.left # <<>> /\ ~cli.waiting /\ Late(Head(cli.left), cli.image) =>
       /\ ~Busy /\ pending = <<>> /\ releasedFor = <<>>
       /\ Full(cli.image, Before(Head(cli.left), cli.image))

\* In the other habits nothing is loaded or released.
OthersLoadNothing ==
  /\ cli.image = <<>> /\ Len(cli.left) <= 1 /\ releasedFor = <<>>
  /\ \A i \in 1 .. Len(pending) : pending[i].image = <<>>
  /\ Busy => serving.image = <<>>

LoadInv ==
  /\ habit = "load" => QueueIsOrdered /\ ServingIsOrdered /\ CliIsOrdered
  /\ habit # "load" => OthersLoadNothing

-----------------------------------------------------------------------------
(***************************************************************************)
(* Reading the statistics                                                  *)
(***************************************************************************)
\* The words read so far are those of moments since the request began, a
\* counter's low word before its high one.
Seen(i) ==
  LET c == Counters[i] IN
  \E low, high \in serving.before[c] .. counter[c] :
    /\ low <= high
    /\ 2 * i - 1 <= Len(serving.answer) => serving.answer[2 * i - 1] = low % WordEnd
    /\ 2 * i <= Len(serving.answer) => serving.answer[2 * i] = high \div WordEnd

ReadInOrder ==
  Busy /\ serving.request[1] = 6 =>
    /\ serving.answer \in Seq(Nat) /\ Len(serving.answer) <= 2 * Len(Counters)
    /\ serving.todo = SubSeq(Accesses(serving.request), Len(serving.answer) + 1, 2 * Len(Counters))
    /\ \A i \in 1 .. Len(Counters) : Seen(i)

-----------------------------------------------------------------------------
\* The inductive invariant.
IInv == TypeOK /\ OneIsLive /\ LoadInv /\ ReleasedImageIsWhole /\ ReadInOrder /\ StatsNearTheTruth

-----------------------------------------------------------------------------
(***************************************************************************)
(* The requests and their accesses                                         *)
(***************************************************************************)
\* How many chunks l words make: all but the last are full.
LEMMA ChunksOf ==
  ASSUME NEW l \in Nat \ {0}
  PROVE  /\ (l + ChunkSize - 1) \div ChunkSize \in Nat \ {0}
         /\ \A i \in Nat : i * ChunkSize \in Nat
         /\ \A i \in 0 .. (l + ChunkSize - 1) \div ChunkSize - 1 : i * ChunkSize <= l
<1> DEFINE n == (l + ChunkSize - 1) \div ChunkSize
<1>1. ChunkSize \in Nat \ {0} /\ l + ChunkSize - 1 \in Nat
  BY ControlAssumption
<1>2. n \in Nat /\ ChunkSize * n <= l + ChunkSize - 1 /\ l + ChunkSize - 1 < ChunkSize * n + ChunkSize
  BY <1>1
<1> HIDE DEF n
<1>3. n # 0
  <2> SUFFICES ASSUME n = 0 PROVE FALSE
    OBVIOUS
  <2>1. ChunkSize * n = 0
    BY <1>1
  <2> QED
    BY <1>1, <1>2, <2>1
<1>4. \A i \in Nat : i * ChunkSize \in Nat
  BY <1>1
<1>5. ASSUME NEW i \in 0 .. n - 1 PROVE i * ChunkSize <= l
  <2>1. i * ChunkSize <= (n - 1) * ChunkSize
    BY <1>1, <1>2
  <2>2. (n - 1) * ChunkSize = ChunkSize * n - ChunkSize
    BY <1>1, <1>2
  <2>3. i * ChunkSize \in Nat /\ (n - 1) * ChunkSize \in Int /\ ChunkSize * n \in Int
    BY <1>1, <1>2
  <2> QED
    BY <1>1, <1>2, <2>1, <2>2, <2>3
<1> QED
  BY <1>2, <1>3, <1>4, <1>5 DEF n

LEMMA SmallRequests ==
  /\ \A b \in Nat : M3Control(b) \in Requests /\ M3Control(b) # <<>>
       /\ M3Control(b)[1] = 9 /\ M3Control(b)[2] = b /\ Len(M3Control(b)) = 2
  /\ \A m, n \in Nat : ReadM3Bram(m, n) \in Requests /\ ReadM3Bram(m, n) # <<>>
       /\ ReadM3Bram(m, n)[1] = 8 /\ ReadM3Bram(m, n)[2] = m /\ ReadM3Bram(m, n)[3] = n
  BY DEF Requests, M3Control, ReadM3Bram

LEMMA ChunkIs ==
  ASSUME NEW offset \in Nat, NEW words \in Seq(Nat)
  PROVE  LET r == LoadM3Chunk(offset, words) IN
         /\ r \in Requests /\ r # <<>> /\ Len(r) = Len(words) + 2 /\ r[1] = 7 /\ r[2] = offset
         /\ \A i \in 1 .. Len(words) : r[i + 2] = words[i]
<1>1. <<7, offset>> \in Seq(Nat) /\ Len(<<7, offset>>) = 2 /\ Len(words) \in Nat
      /\ <<7, offset>>[1] = 7 /\ <<7, offset>>[2] = offset
  BY LenProperties
<1> DEFINE h == <<7, offset>>
<1>2. /\ h \o words \in Seq(Nat) /\ Len(h \o words) = 2 + Len(words)
      /\ \A i \in 1 .. 2 + Len(words) : (h \o words)[i] = IF i <= 2 THEN h[i] ELSE words[i - 2]
  <2> HIDE DEF h
  <2>1. h \in Seq(Nat) /\ Len(h) = 2
    BY <1>1 DEF h
  <2>2. /\ h \o words \in Seq(Nat) /\ Len(h \o words) = Len(h) + Len(words)
        /\ \A i \in 1 .. Len(h) + Len(words) :
             (h \o words)[i] = IF i <= Len(h) THEN h[i] ELSE words[i - Len(h)]
    BY <2>1, ConcatProperties
  <2> QED
    BY <2>1, <2>2
<1> HIDE DEF h
<1>3. 1 \in 1 .. 2 + Len(words) /\ 2 \in 1 .. 2 + Len(words)
  BY <1>1
<1>4. (h \o words)[1] = 7 /\ (h \o words)[2] = offset
  BY <1>1, <1>2, <1>3 DEF h
<1>5. ASSUME NEW i \in 1 .. Len(words) PROVE (h \o words)[i + 2] = words[i]
  <2>1. i + 2 \in 1 .. 2 + Len(words) /\ ~(i + 2 <= 2) /\ (i + 2) - 2 = i
    BY <1>1
  <2> QED
    BY <1>2, <2>1
<1>6. h \o words # <<>> /\ Len(h \o words) = Len(words) + 2
  BY <1>1, <1>2, EmptySeq
<1> QED
  BY <1>2, <1>4, <1>5, <1>6 DEF LoadM3Chunk, Requests, h

\* The requests of load-m3, one by one.
Chunks(a) == (Len(a) + ChunkSize - 1) \div ChunkSize
ChunkEnd(a, i) == IF i = Chunks(a) THEN Len(a) ELSE i * ChunkSize
Chunk(a, i) ==
  LoadM3Chunk((i - 1) * ChunkSize, SubSeq(a, (i - 1) * ChunkSize + 1, ChunkEnd(a, i)))

LEMMA ChunkOfImage ==
  ASSUME NEW a \in Loadable, NEW i \in 1 .. Chunks(a)
  PROVE  /\ Chunk(a, i) \in Requests /\ Chunk(a, i) # <<>>
         /\ Chunk(a, i)[1] = 7 /\ Chunk(a, i)[2] = (i - 1) * ChunkSize
         /\ (i - 1) * ChunkSize \in Nat /\ Len(Chunk(a, i)) \in Nat /\ Len(Chunk(a, i)) >= 2
         /\ \A j \in 1 .. Len(Chunk(a, i)) - 2 :
              Chunk(a, i)[j + 2] = a[(i - 1) * ChunkSize + j]
         /\ ChunkEnd(a, i) <= (i - 1) * ChunkSize + Len(Chunk(a, i)) - 2
         /\ ChunkEnd(a, i) \in 0 .. Len(a)
<1> DEFINE n == Chunks(a)
           off == (i - 1) * ChunkSize
           end == ChunkEnd(a, i)
           words == SubSeq(a, off + 1, end)
<1>1. a \in Seq(Nat) /\ Len(a) \in Nat \ {0}
  BY ControlAssumption, LenProperties DEF Loadable
<1>2. /\ n \in Nat \ {0} /\ (\A k \in Nat : k * ChunkSize \in Nat)
      /\ \A k \in 0 .. n - 1 : k * ChunkSize <= Len(a)
  BY <1>1, ChunksOf DEF Chunks
<1>3. off \in Nat /\ off <= Len(a)
  <2>1. i - 1 \in Nat /\ i - 1 \in 0 .. n - 1
    BY <1>2
  <2> QED
    BY <1>2, <2>1
<1>4. end \in 0 .. Len(a)
  <2>1. CASE i = n
    BY <1>1, <2>1 DEF ChunkEnd
  <2>2. CASE i # n
    <3>1. i \in Nat /\ i \in 0 .. n - 1 /\ end = i * ChunkSize
      BY <1>2, <2>2 DEF ChunkEnd
    <3> QED
      BY <1>1, <1>2, <3>1
  <2> QED
    BY <2>1, <2>2
<1> HIDE DEF n, off, end
<1>5. /\ words \in Seq(Nat) /\ Len(words) = (IF off + 1 <= end THEN end - off ELSE 0)
      /\ \A j \in 1 .. Len(words) : words[j] = a[off + j]
  <2>1. \A j \in off + 1 .. end : a[j] \in Nat
    <3>1. \A j \in off + 1 .. end : j \in 1 .. Len(a)
      BY <1>1, <1>3, <1>4
    <3> QED
      BY <1>1, <3>1, ElementOfSeq
  <2>2. /\ words \in Seq(Nat)
        /\ Len(words) = IF off + 1 <= end THEN end - (off + 1) + 1 ELSE 0
        /\ \A j \in 1 .. end - (off + 1) + 1 : words[j] = a[(off + 1) + j - 1]
    <3>1. off + 1 \in Int /\ end \in Int
      BY <1>3, <1>4
    <3> QED
      BY <2>1, <3>1, SubSeqProperties
  <2> HIDE DEF words
  <2>3. Len(words) = (IF off + 1 <= end THEN end - off ELSE 0)
    BY <1>3, <1>4, <2>2
  <2>4. ASSUME NEW j \in 1 .. Len(words) PROVE words[j] = a[off + j]
    <3>1. j \in 1 .. end - (off + 1) + 1 /\ (off + 1) + j - 1 = off + j
      BY <1>3, <1>4, <2>3
    <3> QED
      BY <2>2, <3>1
  <2> QED
    BY <2>2, <2>3, <2>4
<1> HIDE DEF words
<1>6. LET r == LoadM3Chunk(off, words) IN
      /\ r \in Requests /\ r # <<>> /\ Len(r) = Len(words) + 2 /\ r[1] = 7 /\ r[2] = off
      /\ \A j \in 1 .. Len(words) : r[j + 2] = words[j]
  BY <1>3, <1>5, ChunkIs
<1> DEFINE r == LoadM3Chunk(off, words)
<1>7. Chunk(a, i) = r
  BY DEF Chunk, off, end, words
<1> HIDE DEF r
<1>8. /\ r \in Requests /\ r # <<>> /\ Len(r) = Len(words) + 2 /\ r[1] = 7 /\ r[2] = off
      /\ \A j \in 1 .. Len(words) : r[j + 2] = words[j]
  BY <1>6 DEF r
<1>9. Len(words) \in Nat /\ end <= off + Len(words)
  BY <1>3, <1>4, <1>5
<1>10. Len(r) - 2 = Len(words) /\ off + Len(r) - 2 = off + Len(words)
  BY <1>3, <1>8, <1>9
<1>11. \A j \in 1 .. Len(r) - 2 : r[j + 2] = a[off + j]
  BY <1>5, <1>8, <1>10
<1>12. Len(r) \in Nat /\ Len(r) >= 2 /\ end <= off + Len(r) - 2
  BY <1>3, <1>4, <1>8, <1>9
<1> QED
  BY <1>3, <1>4, <1>7, <1>8, <1>11, <1>12 DEF off, end

LEMMA LoadM3Is ==
  ASSUME NEW a \in Loadable
  PROVE  /\ load_m3(a) \in Seq(Requests) /\ Chunks(a) \in Nat \ {0}
         /\ Len(load_m3(a)) = Chunks(a) + 3
         /\ load_m3(a)[1] = M3Control(0)
         /\ \A i \in 1 .. Chunks(a) : load_m3(a)[i + 1] = Chunk(a, i)
         /\ \E n \in Nat : load_m3(a)[Chunks(a) + 2] = ReadM3Bram(0, n)
         /\ load_m3(a)[Chunks(a) + 3] = M3Control(1)
<1> DEFINE n == Chunks(a)
           check == IF Len(a) < CheckSize THEN Len(a) ELSE CheckSize
           first == <<M3Control(0)>>
           middle == [i \in 1 .. n |-> Chunk(a, i)]
           last == <<ReadM3Bram(0, check), M3Control(1)>>
<1>1. a \in Seq(Nat) /\ Len(a) \in Nat \ {0}
  BY ControlAssumption, LenProperties DEF Loadable
<1>2. n \in Nat \ {0}
  BY <1>1, ChunksOf DEF Chunks
<1>3. check \in Nat
  BY <1>1, ControlAssumption
<1>4. load_m3(a) = (first \o middle) \o last
  BY DEF load_m3, Chunk, ChunkEnd, Chunks
<1>5. first \in Seq(Requests) /\ Len(first) = 1 /\ first[1] = M3Control(0)
  BY SmallRequests
<1>6. last \in Seq(Requests) /\ Len(last) = 2 /\ last[1] = ReadM3Bram(0, check)
      /\ last[2] = M3Control(1)
  BY <1>3, SmallRequests
<1>7. middle \in Seq(Requests) /\ Len(middle) = n /\ \A i \in 1 .. n : middle[i] = Chunk(a, i)
  <2>1. \A i \in 1 .. n : Chunk(a, i) \in Requests
    BY ChunkOfImage
  <2> HIDE DEF n
  <2> QED
    BY <1>2, <2>1
<1> HIDE DEF first, middle, last, n, check
<1>8. /\ first \o middle \in Seq(Requests) /\ Len(first \o middle) = 1 + n
      /\ \A i \in 1 .. 1 + n :
           (first \o middle)[i] = IF i <= 1 THEN first[i] ELSE middle[i - 1]
  <2>1. /\ first \o middle \in Seq(Requests) /\ Len(first \o middle) = Len(first) + Len(middle)
        /\ \A i \in 1 .. Len(first) + Len(middle) :
             (first \o middle)[i] = IF i <= Len(first) THEN first[i] ELSE middle[i - Len(first)]
    BY <1>5, <1>7, ConcatProperties
  <2> QED
    BY <1>5, <1>7, <2>1
<1> DEFINE u == first \o middle
           v == u \o last
<1> HIDE DEF u
<1>9. /\ v \in Seq(Requests) /\ Len(v) = 1 + n + 2
      /\ \A i \in 1 .. 1 + n + 2 : v[i] = IF i <= 1 + n THEN u[i] ELSE last[i - (1 + n)]
  <2>1. u \in Seq(Requests) /\ Len(u) = 1 + n
    BY <1>8 DEF u
  <2>2. /\ v \in Seq(Requests) /\ Len(v) = Len(u) + Len(last)
        /\ \A i \in 1 .. Len(u) + Len(last) :
             v[i] = IF i <= Len(u) THEN u[i] ELSE last[i - Len(u)]
    BY <1>6, <2>1, ConcatProperties
  <2> QED
    BY <1>6, <2>1, <2>2
<1>10. load_m3(a) = v
  BY <1>4 DEF u
<1> HIDE DEF v
<1>11. v[1] = M3Control(0)
  <2>1. 1 \in 1 .. 1 + n + 2 /\ 1 \in 1 .. 1 + n /\ 1 <= 1 + n
    BY <1>2
  <2>2. u[1] = first[1]
    BY <1>8, <2>1 DEF u
  <2>3. v[1] = u[1]
    BY <1>9, <2>1
  <2> QED
    BY <1>5, <2>2, <2>3
<1>12. ASSUME NEW i \in 1 .. n PROVE v[i + 1] = Chunk(a, i)
  <2>1. i + 1 \in 1 .. 1 + n + 2 /\ i + 1 <= 1 + n /\ i + 1 \in 1 .. 1 + n /\ ~(i + 1 <= 1)
        /\ (i + 1) - 1 = i
    BY <1>2
  <2> QED
    BY <1>7, <1>8, <1>9, <2>1 DEF u
<1>13. v[n + 2] = ReadM3Bram(0, check) /\ v[n + 3] = M3Control(1)
  <2>1. /\ n + 2 \in 1 .. 1 + n + 2 /\ ~(n + 2 <= 1 + n) /\ (n + 2) - (1 + n) = 1
        /\ n + 3 \in 1 .. 1 + n + 2 /\ ~(n + 3 <= 1 + n) /\ (n + 3) - (1 + n) = 2
    BY <1>2
  <2> QED
    BY <1>6, <1>9, <2>1
<1>14. 1 + n + 2 = n + 3
  BY <1>2
<1> QED
  BY <1>2, <1>3, <1>9, <1>10, <1>11, <1>12, <1>13, <1>14 DEF n

\* Where a request of load-m3 stands in it.
LEMMA PlaceOf ==
  ASSUME NEW a \in Loadable, NEW k \in 1 .. Len(load_m3(a))
  PROVE  LET r == load_m3(a)[k] IN
         \/ k = 1 /\ r = M3Control(0)
         \/ k # 1 /\ \E i \in 1 .. Chunks(a) : k = i + 1 /\ r = Chunk(a, i)
         \/ k = Chunks(a) + 2 /\ \E n \in Nat : r = ReadM3Bram(0, n)
         \/ k = Chunks(a) + 3 /\ r = M3Control(1)
<1>1. Chunks(a) \in Nat \ {0} /\ Len(load_m3(a)) = Chunks(a) + 3
  BY LoadM3Is
<1>2. k = 1 \/ (k # 1 /\ k - 1 \in 1 .. Chunks(a) /\ k = (k - 1) + 1)
        \/ k = Chunks(a) + 2 \/ k = Chunks(a) + 3
  BY <1>1
<1> QED
  BY <1>2, LoadM3Is

LEMMA RequestShape ==
  ASSUME NEW r, NEW a, IsOf(r, a)
  PROVE  /\ r \in Requests /\ r # <<>> /\ r[1] \in {7, 8, 9} /\ a \in Seq(Nat)
         /\ a = <<>> \/ a \in Loadable
         /\ r[1] = 7 =>
              /\ a \in Loadable /\ Late(r, a) /\ r[2] \in Nat /\ Len(r) \in Nat /\ Len(r) >= 2
              /\ \A j \in 1 .. Len(r) - 2 : r[j + 2] = a[r[2] + j]
         /\ r[1] = 8 => Late(r, a) /\ \E n \in Nat : r = ReadM3Bram(0, n)
         /\ r[1] = 9 => \E b \in {0, 1, 3} : r = M3Control(b)
         /\ r[1] = 9 /\ Late(r, a) => r = M3Control(1)
<1>1. CASE a = <<>> /\ \E b \in {0, 1, 3} : r = M3Control(b)
  <2>1. PICK b \in {0, 1, 3} : r = M3Control(b)
    BY <1>1
  <2>2. r \in Requests /\ r # <<>> /\ r[1] = 9 /\ ~Late(r, a) /\ a \in Seq(Nat)
    BY <1>1, <2>1, SmallRequests DEF Late
  <2> QED
    BY <1>1, <2>1, <2>2
<1>2. CASE a \in Loadable /\ \E k \in 1 .. Len(load_m3(a)) : r = load_m3(a)[k]
  <2>1. PICK k \in 1 .. Len(load_m3(a)) : r = load_m3(a)[k]
    BY <1>2
  <2>2. a \in Seq(Nat) /\ a # <<>>
    BY <1>2, ControlAssumption, EmptySeq DEF Loadable
  <2>3. \/ r = M3Control(0) \/ (\E i \in 1 .. Chunks(a) : r = Chunk(a, i))
        \/ (\E n \in Nat : r = ReadM3Bram(0, n)) \/ r = M3Control(1)
    BY <1>2, <2>1, PlaceOf
  <2>4. CASE r = M3Control(0) \/ r = M3Control(1)
    BY <1>2, <2>2, <2>4, SmallRequests DEF Late
  <2>5. CASE \E i \in 1 .. Chunks(a) : r = Chunk(a, i)
    <3>1. PICK i \in 1 .. Chunks(a) : r = Chunk(a, i)
      BY <2>5
    <3> DEFINE off == (i - 1) * ChunkSize
    <3>2. /\ r \in Requests /\ r # <<>> /\ r[1] = 7 /\ r[2] = off /\ off \in Nat
          /\ Len(r) \in Nat /\ Len(r) >= 2
          /\ \A j \in 1 .. Len(r) - 2 : r[j + 2] = a[off + j]
      BY <1>2, <3>1, ChunkOfImage
    <3> HIDE DEF off
    <3>3. r # M3Control(0)
      BY <3>2, SmallRequests
    <3> QED
      BY <1>2, <2>2, <3>2, <3>3 DEF Late
  <2>6. CASE \E n \in Nat : r = ReadM3Bram(0, n)
    <3>1. r \in Requests /\ r # <<>> /\ r[1] = 8 /\ r # M3Control(0)
      BY <2>6, SmallRequests
    <3> QED
      BY <1>2, <2>2, <2>6, <3>1 DEF Late
  <2> QED
    BY <2>3, <2>4, <2>5, <2>6
<1> QED
  BY <1>1, <1>2 DEF IsOf

\* What load-m3 sends next is late, and starts no further than the board is.
LEMMA NextIsLate ==
  ASSUME NEW a \in Loadable, NEW k \in 1 .. Len(load_m3(a)), k < Len(load_m3(a))
  PROVE  /\ load_m3(a)[k] # M3Control(1)
         /\ \A p \in 1 .. Len(a) : p <= Before(load_m3(a)[k + 1], a) => p <= Beyond(load_m3(a)[k], a)
<1> DEFINE r == load_m3(a)[k]
           s == load_m3(a)[k + 1]
           n == Chunks(a)
<1>1. n \in Nat \ {0} /\ Len(load_m3(a)) = n + 3 /\ k + 1 \in 1 .. Len(load_m3(a))
      /\ Len(a) \in Nat
  BY LoadM3Is, ControlAssumption, LenProperties DEF Loadable
<1>2. \/ k = 1 \/ (k - 1 \in 1 .. n - 1) \/ k = n + 1 \/ k = n + 2
  BY <1>1
<1>3. CASE k = 1
  <2>1. r = M3Control(0)
    BY <1>3, LoadM3Is
  <2>2. s = Chunk(a, 1) /\ 1 \in 1 .. n
    BY <1>1, <1>3, LoadM3Is
  <2>3. s[1] = 7 /\ s[2] = (1 - 1) * ChunkSize
    BY <2>2, ChunkOfImage
  <2>4. s[2] = 0
    BY <2>3, ControlAssumption
  <2>5. Before(s, a) = 0
    BY <2>3, <2>4 DEF Before
  <2>6. M3Control(0)[2] = 0 /\ M3Control(1)[2] = 1
    BY SmallRequests
  <2>7. r # M3Control(1)
    BY <2>1, <2>6
  <2> QED
    BY <2>5, <2>7
<1>4. CASE k - 1 \in 1 .. n - 1
  <2> DEFINE i == k - 1
  <2>1. i \in 1 .. n /\ i + 1 \in 1 .. n /\ i + 1 = k /\ (i + 1) + 1 = k + 1 /\ i # n
        /\ (i + 1) - 1 = i
    BY <1>1, <1>4
  <2>2. r = Chunk(a, i) /\ s = Chunk(a, i + 1)
    <3>1. \A j \in 1 .. n : load_m3(a)[j + 1] = Chunk(a, j)
      BY LoadM3Is
    <3> HIDE DEF i
    <3> QED
      BY <2>1, <3>1
  <2> HIDE DEF i
  <2>3. s[1] = 7 /\ s[2] = ((i + 1) - 1) * ChunkSize
    BY <2>1, <2>2, ChunkOfImage
  <2>4. r[1] = 7 /\ r[2] = (i - 1) * ChunkSize
        /\ ChunkEnd(a, i) <= (i - 1) * ChunkSize + Len(r) - 2
    BY <2>1, <2>2, ChunkOfImage
  <2>5. ChunkEnd(a, i) = i * ChunkSize
    BY <2>1 DEF ChunkEnd
  <2>6. Before(s, a) = i * ChunkSize /\ Beyond(r, a) = (i - 1) * ChunkSize + Len(r) - 2
    BY <2>1, <2>3, <2>4 DEF Before, Beyond
  <2>7. r # M3Control(1)
    BY <2>4, SmallRequests
  <2>8. i * ChunkSize \in Int /\ (i - 1) * ChunkSize + Len(r) - 2 \in Int
    <3>1. (i - 1) * ChunkSize \in Nat /\ Len(r) \in Nat
      BY <2>1, <2>2, ChunkOfImage
    <3>2. i \in Int /\ ChunkSize \in Int
      BY <2>1, ControlAssumption
    <3> QED
      BY <3>1, <3>2
  <2> QED
    BY <2>4, <2>5, <2>6, <2>7, <2>8
<1>5. CASE k = n + 1
  <2>1. r = Chunk(a, n) /\ n \in 1 .. n
    BY <1>1, <1>5, LoadM3Is
  <2>2. r[1] = 7 /\ r[2] = (n - 1) * ChunkSize /\ r[2] \in Nat /\ Len(r) \in Nat
        /\ ChunkEnd(a, n) <= (n - 1) * ChunkSize + Len(r) - 2
    BY <2>1, ChunkOfImage
  <2>3. Len(a) <= Beyond(r, a) /\ Beyond(r, a) \in Int
    BY <2>2 DEF ChunkEnd, Beyond
  <2>4. M3Control(1)[1] = 9
    BY SmallRequests
  <2>5. r # M3Control(1)
    BY <2>2, <2>4
  <2> QED
    BY <1>1, <2>3, <2>5
<1>6. CASE k = n + 2
  <2>1. PICK m \in Nat : r = ReadM3Bram(0, m)
    BY <1>6, LoadM3Is
  <2>2. r[1] = 8 /\ r # M3Control(0) /\ r # M3Control(1)
    BY <2>1, SmallRequests
  <2>3. Beyond(r, a) = Len(a)
    BY <2>2 DEF Beyond, Before
  <2> QED
    BY <1>1, <2>2, <2>3
<1> QED
  BY <1>2, <1>3, <1>4, <1>5, <1>6

\* The accesses of the requests about the M3 and the statistics.
AccessSet == [to : {"bram", "read", "pl", "counter"},
              register : Nat \cup {"M3_CONTROL"} \cup STRING, value : Nat \cup {"LO", "HI"}]

LEMMA AccessesOf ==
  /\ \A r \in Requests : r[1] = 7 /\ r[2] \in Nat /\ Len(r) >= 2 =>
       /\ Accesses(r) \in Seq(AccessSet) /\ Len(Accesses(r)) = Len(r) - 2
       /\ \A i \in 1 .. Len(r) - 2 : Accesses(r)[i] = W("bram", r[2] + i, r[i + 2])
  /\ \A n \in Nat : LET r == ReadM3Bram(0, n) IN
       /\ Accesses(r) \in Seq(AccessSet) /\ Len(Accesses(r)) = n
       /\ \A i \in 1 .. n : Accesses(r)[i] = W("read", i, 0)
  /\ \A b \in Nat : LET r == M3Control(b) IN
       /\ Accesses(r) \in Seq(AccessSet) /\ Len(Accesses(r)) = 1
       /\ Accesses(r)[1] = W("pl", "M3_CONTROL", b)
  /\ \A r : r[1] = 6 =>
       /\ Accesses(r) \in Seq(AccessSet) /\ Len(Accesses(r)) = 2 * Len(Counters)
       /\ \A i \in 1 .. 2 * Len(Counters) : Accesses(r)[i] = CounterHalf(i)
<1>1. ASSUME NEW r \in Requests, r[1] = 7, r[2] \in Nat, Len(r) >= 2
      PROVE  /\ Accesses(r) \in Seq(AccessSet) /\ Len(Accesses(r)) = Len(r) - 2
             /\ \A i \in 1 .. Len(r) - 2 : Accesses(r)[i] = W("bram", r[2] + i, r[i + 2])
  <2> DEFINE acc == [i \in 1 .. Len(r) - 2 |-> W("bram", r[2] + i, r[i + 2])]
  <2>1. Len(r) - 2 \in Nat
    BY <1>1, LenProperties DEF Requests
  <2>2. \A i \in 1 .. Len(r) - 2 : W("bram", r[2] + i, r[i + 2]) \in AccessSet
    <3> SUFFICES ASSUME NEW i \in 1 .. Len(r) - 2
                 PROVE W("bram", r[2] + i, r[i + 2]) \in AccessSet
      OBVIOUS
    <3>1. i + 2 \in 1 .. Len(r)
      BY <2>1
    <3>2. r[i + 2] \in Nat
      BY <3>1, ElementOfSeq DEF Requests
    <3>3. r[2] + i \in Nat
      BY <1>1
    <3> QED
      BY <3>2, <3>3 DEF W, AccessSet
  <2>3. acc \in Seq(AccessSet) /\ Len(acc) = Len(r) - 2
    BY <2>1, <2>2
  <2>4. Accesses(r) = acc
    BY <1>1 DEF Accesses
  <2> QED
    BY <2>3, <2>4
<1>2. ASSUME NEW n \in Nat
      PROVE  LET r == ReadM3Bram(0, n) IN
             /\ Accesses(r) \in Seq(AccessSet) /\ Len(Accesses(r)) = n
             /\ \A i \in 1 .. n : Accesses(r)[i] = W("read", i, 0)
  <2> DEFINE r == ReadM3Bram(0, n)
             acc == [i \in 1 .. n |-> W("read", i, 0)]
  <2>1. r[1] = 8 /\ r[2] = 0 /\ r[3] = n
    BY SmallRequests
  <2>2. Accesses(r) = [i \in 1 .. r[3] |-> W("read", r[2] + i, 0)]
    BY <2>1 DEF Accesses
  <2>3. Accesses(r) = acc
    BY <2>1, <2>2
  <2>4. acc \in Seq(AccessSet) /\ Len(acc) = n
    BY DEF W, AccessSet
  <2> QED
    BY <2>3, <2>4
<1>3. ASSUME NEW b \in Nat
      PROVE  LET r == M3Control(b) IN
             /\ Accesses(r) \in Seq(AccessSet) /\ Len(Accesses(r)) = 1
             /\ Accesses(r)[1] = W("pl", "M3_CONTROL", b)
  <2> DEFINE r == M3Control(b)
  <2>1. r[1] = 9 /\ r[2] = b
    BY SmallRequests
  <2>2. Accesses(r) = <<W("pl", "M3_CONTROL", r[2])>>
    BY <2>1 DEF Accesses
  <2>3. W("pl", "M3_CONTROL", b) \in AccessSet
    BY DEF W, AccessSet
  <2> HIDE DEF r
  <2> QED
    BY <2>1, <2>2, <2>3 DEF r
<1>4. ASSUME NEW r, r[1] = 6
      PROVE  /\ Accesses(r) \in Seq(AccessSet) /\ Len(Accesses(r)) = 2 * Len(Counters)
             /\ \A i \in 1 .. 2 * Len(Counters) : Accesses(r)[i] = CounterHalf(i)
  <2> DEFINE acc == [i \in 1 .. 2 * Len(Counters) |-> CounterHalf(i)]
  <2>1. Len(Counters) \in Nat /\ 2 * Len(Counters) \in Nat
    BY ControlAssumption, LenProperties
  <2>2. \A i \in 1 .. 2 * Len(Counters) : CounterHalf(i) \in AccessSet
    <3> SUFFICES ASSUME NEW i \in 1 .. 2 * Len(Counters) PROVE CounterHalf(i) \in AccessSet
      OBVIOUS
    <3>1. (i + 1) \div 2 \in 1 .. Len(Counters)
      BY <2>1
    <3>2. Counters[(i + 1) \div 2] \in STRING
      BY <3>1, ControlAssumption, ElementOfSeq
    <3> QED
      BY <3>2 DEF CounterHalf, W, AccessSet
  <2>3. acc \in Seq(AccessSet) /\ Len(acc) = 2 * Len(Counters)
    BY <2>1, <2>2
  <2>4. Accesses(r) = acc
    BY <1>4 DEF Accesses
  <2> QED
    BY <2>3, <2>4
<1> QED
  BY <1>1, <1>2, <1>3, <1>4

-----------------------------------------------------------------------------
(***************************************************************************)
(* Sequences and programs                                                  *)
(***************************************************************************)
LEMMA SuffixIs ==
  \A S : \A s \in Seq(S) : \A m \in 1 .. Len(s) + 1 :
    /\ SubSeq(s, m, Len(s)) \in Seq(S) /\ Len(SubSeq(s, m, Len(s))) = Len(s) - m + 1
    /\ m <= Len(s) => /\ SubSeq(s, m, Len(s)) # <<>> /\ Head(SubSeq(s, m, Len(s))) = s[m]
                      /\ Tail(SubSeq(s, m, Len(s))) = SubSeq(s, m + 1, Len(s))
    /\ m = Len(s) + 1 => SubSeq(s, m, Len(s)) = <<>>
<1> SUFFICES ASSUME NEW S, NEW s \in Seq(S), NEW m \in 1 .. Len(s) + 1
             PROVE  /\ SubSeq(s, m, Len(s)) \in Seq(S)
                    /\ Len(SubSeq(s, m, Len(s))) = Len(s) - m + 1
                    /\ m <= Len(s) =>
                         /\ SubSeq(s, m, Len(s)) # <<>> /\ Head(SubSeq(s, m, Len(s))) = s[m]
                         /\ Tail(SubSeq(s, m, Len(s))) = SubSeq(s, m + 1, Len(s))
                    /\ m = Len(s) + 1 => SubSeq(s, m, Len(s)) = <<>>
  OBVIOUS
<1>1. Len(s) \in Nat /\ m \in Int
  BY LenProperties
<1>2. \A i \in m .. Len(s) : s[i] \in S
  BY <1>1, ElementOfSeq
<1>3. /\ SubSeq(s, m, Len(s)) \in Seq(S)
      /\ Len(SubSeq(s, m, Len(s))) = IF m <= Len(s) THEN Len(s) - m + 1 ELSE 0
  BY <1>1, <1>2, SubSeqProperties
<1>4. Len(SubSeq(s, m, Len(s))) = Len(s) - m + 1
  BY <1>1, <1>3
<1>5. ASSUME m <= Len(s)
      PROVE  /\ SubSeq(s, m, Len(s)) # <<>> /\ Head(SubSeq(s, m, Len(s))) = s[m]
             /\ Tail(SubSeq(s, m, Len(s))) = SubSeq(s, m + 1, Len(s))
  <2>1. m \in 1 .. Len(s) /\ Len(s) \in m .. Len(s)
    BY <1>1, <1>5
  <2>2. Head(SubSeq(s, m, Len(s))) = s[m] /\ Tail(SubSeq(s, m, Len(s))) = SubSeq(s, m + 1, Len(s))
    BY <2>1, HeadTailOfSubSeq
  <2>3. SubSeq(s, m, Len(s)) # <<>>
    BY <1>1, <1>4, <1>5, EmptySeq
  <2> QED
    BY <2>2, <2>3
<1>6. ASSUME m = Len(s) + 1 PROVE SubSeq(s, m, Len(s)) = <<>>
  BY <1>1, <1>6, SubSeqEmpty
<1> QED
  BY <1>3, <1>4, <1>5, <1>6

LEMMA RemovedIs ==
  ASSUME NEW S, NEW s \in Seq(S), NEW i \in 1 .. Len(s)
  PROVE  /\ RemoveAt(s, i) \in Seq(S) /\ Len(RemoveAt(s, i)) = Len(s) - 1
         /\ \A j \in 1 .. Len(s) - 1 :
              RemoveAt(s, i)[j] = IF j < i THEN s[j] ELSE s[j + 1]
<1> DEFINE u == SubSeq(s, 1, i - 1)
           v == SubSeq(s, i + 1, Len(s))
<1>1. Len(s) \in Nat /\ i \in Nat /\ i - 1 \in Nat
  BY LenProperties
<1>2. \A j \in 1 .. Len(s) : s[j] \in S
  BY ElementOfSeq
<1>3. u \in Seq(S) /\ Len(u) = i - 1 /\ \A j \in 1 .. i - 1 : u[j] = s[j]
  <2>1. \A j \in 1 .. i - 1 : s[j] \in S
    BY <1>1, <1>2
  <2>2. /\ u \in Seq(S) /\ Len(u) = (IF 1 <= i - 1 THEN (i - 1) - 1 + 1 ELSE 0)
        /\ \A j \in 1 .. (i - 1) - 1 + 1 : u[j] = s[1 + j - 1]
    BY <1>1, <2>1, SubSeqProperties
  <2> HIDE DEF u
  <2>3. (i - 1) - 1 + 1 = i - 1 /\ \A j \in 1 .. i - 1 : 1 + j - 1 = j
    BY <1>1
  <2> QED
    BY <1>1, <2>2, <2>3
<1>4. v \in Seq(S) /\ Len(v) = Len(s) - i /\ \A j \in 1 .. Len(s) - i : v[j] = s[i + j]
  <2>1. \A j \in i + 1 .. Len(s) : s[j] \in S
    BY <1>1, <1>2
  <2>2. /\ v \in Seq(S) /\ Len(v) = (IF i + 1 <= Len(s) THEN Len(s) - (i + 1) + 1 ELSE 0)
        /\ \A j \in 1 .. Len(s) - (i + 1) + 1 : v[j] = s[(i + 1) + j - 1]
    BY <1>1, <2>1, SubSeqProperties
  <2> HIDE DEF v
  <2>3. Len(s) - (i + 1) + 1 = Len(s) - i /\ \A j \in 1 .. Len(s) - i : (i + 1) + j - 1 = i + j
    BY <1>1
  <2>4. Len(v) = Len(s) - i
    BY <1>1, <2>2
  <2>5. \A j \in 1 .. Len(s) - i : v[j] = s[i + j]
    BY <2>2, <2>3
  <2> QED
    BY <2>2, <2>4, <2>5
<1>5. RemoveAt(s, i) = u \o v
  BY DEF RemoveAt
<1> HIDE DEF u, v
<1>6. /\ u \o v \in Seq(S) /\ Len(u \o v) = Len(u) + Len(v)
      /\ \A j \in 1 .. Len(u) + Len(v) : (u \o v)[j] = IF j <= Len(u) THEN u[j] ELSE v[j - Len(u)]
  BY <1>3, <1>4, ConcatProperties
<1>7. Len(u) + Len(v) = Len(s) - 1
  BY <1>1, <1>3, <1>4
<1>8. ASSUME NEW j \in 1 .. Len(s) - 1
      PROVE  (u \o v)[j] = IF j < i THEN s[j] ELSE s[j + 1]
  <2>1. CASE j < i
    <3>1. j \in 1 .. i - 1 /\ j <= Len(u)
      BY <1>1, <1>3, <2>1
    <3> QED
      BY <1>3, <1>6, <1>7, <2>1, <3>1
  <2>2. CASE ~(j < i)
    <3>1. j - (i - 1) \in 1 .. Len(s) - i /\ ~(j <= Len(u)) /\ i + (j - (i - 1)) = j + 1
      BY <1>1, <1>3, <2>2
    <3>2. (u \o v)[j] = v[j - (i - 1)]
      BY <1>3, <1>6, <1>7, <3>1
    <3> QED
      BY <1>4, <2>2, <3>1, <3>2
  <2> QED
    BY <2>1, <2>2
<1> QED
  BY <1>5, <1>6, <1>7, <1>8

CliType == [left : Seq(Requests), image : Seq(Nat), waiting : BOOLEAN]

LEMMA ProgramsAre ==
  ASSUME NEW h \in {"load", "configure", "observe"}, NEW c \in Programs[h]
  PROVE  /\ c \in CliType /\ c.left # <<>> /\ ~c.waiting
         /\ h = "load" =>
              \/ c.image \in Loadable /\ c.left = load_m3(c.image)
              \/ c.image = <<>> /\ \E b \in {0, 1, 3} : c.left = <<M3Control(b)>>
         /\ h # "load" => c.image = <<>> /\ Len(c.left) = 1
<1>1. \A r \in Requests : /\ <<r>> \in Seq(Requests) /\ <<r>> # <<>> /\ Len(<<r>>) = 1
  OBVIOUS
<1>2. <<>> \in Seq(Nat)
  BY EmptySeq
<1>3. \A r \in Requests : LET p == Plan(<<r>>, <<>>) IN
        /\ p \in CliType /\ p.left = <<r>> /\ p.image = <<>> /\ ~p.waiting
  BY <1>1, <1>2 DEF Plan, CliType
<1>4. CASE h = "load"
  <2>1. \/ \E i \in Loadable : c = Plan(load_m3(i), i)
        \/ \E b \in {0, 1, 3} : c = Plan(<<M3Control(b)>>, <<>>)
    BY <1>4 DEF Programs, Loadable
  <2>2. CASE \E b \in {0, 1, 3} : c = Plan(<<M3Control(b)>>, <<>>)
    <3>1. PICK b \in {0, 1, 3} : c = Plan(<<M3Control(b)>>, <<>>)
      BY <2>2
    <3>2. M3Control(b) \in Requests
      BY SmallRequests
    <3>3. c \in CliType /\ c.left = <<M3Control(b)>> /\ c.image = <<>> /\ ~c.waiting
      BY <1>3, <3>1, <3>2
    <3> QED
      BY <1>1, <1>4, <3>2, <3>3
  <2>3. CASE \E i \in Loadable : c = Plan(load_m3(i), i)
    <3>1. PICK i \in Loadable : c = Plan(load_m3(i), i)
      BY <2>3
    <3>2. load_m3(i) \in Seq(Requests) /\ load_m3(i) # <<>> /\ i \in Seq(Nat)
      <4>1. Len(load_m3(i)) = Chunks(i) + 3 /\ Chunks(i) \in Nat
        BY LoadM3Is
      <4> QED
        BY <4>1, LoadM3Is, ControlAssumption, EmptySeq DEF Loadable
    <3>3. c.left = load_m3(i) /\ c.image = i /\ ~c.waiting /\ c \in CliType
      BY <3>1, <3>2 DEF Plan, CliType
    <3> QED
      BY <1>4, <3>2, <3>3
  <2> QED
    BY <2>1, <2>2, <2>3
<1>5. CASE h # "load"
  <2>1. \E r \in Requests : c = Plan(<<r>>, <<>>)
    <3>1. CASE h = "configure"
      <4>1. \/ \E s \in 0 .. 2 : c = Plan(<<Configure(s, 2, 1)>>, <<>>)
            \/ \E n \in 3 .. 5 : c = Plan(<< <<n>> >>, <<>>)
        BY <3>1 DEF Programs
      <4>2. \A s \in 0 .. 2 : Configure(s, 2, 1) \in Requests
        BY DEF Configure, Requests
      <4>3. \A n \in 3 .. 5 : <<n>> \in Requests
        BY DEF Requests
      <4> QED
        BY <4>1, <4>2, <4>3
    <3>2. CASE h = "observe"
      <4>1. \E r \in {GetInfo, GetStats, <<2, 1>>, <<7, BramSize, 0>>, ReadM3Bram(1, BramSize), <<10>>} :
              c = Plan(<<r>>, <<>>)
        BY <3>2 DEF Programs
      <4>2. BramSize \in Nat
        BY ControlAssumption
      <4>3. {GetInfo, GetStats, <<2, 1>>, <<7, BramSize, 0>>, ReadM3Bram(1, BramSize), <<10>>}
              \subseteq Requests
        BY <4>2 DEF Requests, GetInfo, GetStats, ReadM3Bram
      <4> QED
        BY <4>1, <4>3
    <3> QED
      BY <1>5, <3>1, <3>2
  <2> QED
    BY <1>1, <1>3, <1>5, <2>1
<1> QED
  BY <1>4, <1>5

-----------------------------------------------------------------------------
(***************************************************************************)
(* The steps, as far as the proofs need them                               *)
(***************************************************************************)
LEMMA BusyIs ==
  \A l, r, i, t, w, b : [live |-> l, request |-> r, image |-> i, todo |-> t, answer |-> w,
                         before |-> b] # Nothing
<1> SUFFICES ASSUME NEW l, NEW r, NEW i, NEW t, NEW w, NEW b,
                    [live |-> l, request |-> r, image |-> i, todo |-> t, answer |-> w,
                     before |-> b] = Nothing
             PROVE FALSE
  OBVIOUS
<1>1. DOMAIN Nothing = {"live"}
  BY DEF Nothing
<1>2. "request" \in DOMAIN [live |-> l, request |-> r, image |-> i, todo |-> t, answer |-> w,
                             before |-> b]
  OBVIOUS
<1> QED
  BY <1>1, <1>2

\* Giving up marks the requests, and changes nothing else of them.
LEMMA GiveUpIs ==
  ASSUME TypeOK, GiveUp
  PROVE  /\ Busy' <=> Busy
         /\ ~serving'.live
         /\ Busy => /\ serving' = [live |-> FALSE, request |-> serving.request,
                                   image |-> serving.image, todo |-> serving.todo,
                                   answer |-> serving.answer, before |-> serving.before]
         /\ pending' \in Seq(Entries) /\ Len(pending') = Len(pending)
         /\ \A i \in 1 .. Len(pending) :
              /\ pending'[i].request = pending[i].request /\ pending'[i].image = pending[i].image
              /\ ~pending'[i].live
<1>1. serving' = [serving EXCEPT !.live = FALSE]
      /\ pending' = [i \in DOMAIN pending |-> [pending[i] EXCEPT !.live = FALSE]]
  BY DEF GiveUp
<1>4. /\ pending \in Seq(Entries) /\ DOMAIN pending = 1 .. Len(pending) /\ Len(pending) \in Nat
      /\ \A i \in 1 .. Len(pending) : pending[i] \in Entries
  BY LenProperties, ElementOfSeq DEF TypeOK
<1>5. \A i \in 1 .. Len(pending) :
        /\ [pending[i] EXCEPT !.live = FALSE] \in Entries
        /\ [pending[i] EXCEPT !.live = FALSE].request = pending[i].request
        /\ [pending[i] EXCEPT !.live = FALSE].image = pending[i].image
        /\ ~[pending[i] EXCEPT !.live = FALSE].live
  BY <1>4 DEF Entries
<1>6. pending' \in Seq(Entries) /\ Len(pending') = Len(pending)
  BY <1>1, <1>4, <1>5
<1>7. \A i \in 1 .. Len(pending) : pending'[i] = [pending[i] EXCEPT !.live = FALSE]
  BY <1>1, <1>4
<1>8. \A i \in 1 .. Len(pending) :
        /\ pending'[i].request = pending[i].request /\ pending'[i].image = pending[i].image
        /\ ~pending'[i].live
  BY <1>5, <1>7
<1>9. /\ Busy' <=> Busy
      /\ ~serving'.live
      /\ Busy => serving' = [live |-> FALSE, request |-> serving.request,
                             image |-> serving.image, todo |-> serving.todo,
                             answer |-> serving.answer, before |-> serving.before]
  <2>1. CASE Busy
    <3>1. serving = [live |-> serving.live, request |-> serving.request,
                     image |-> serving.image, todo |-> serving.todo,
                     answer |-> serving.answer, before |-> serving.before]
      BY <2>1 DEF TypeOK
    <3>2. serving' = [live |-> FALSE, request |-> serving.request,
                      image |-> serving.image, todo |-> serving.todo,
                      answer |-> serving.answer, before |-> serving.before]
      BY <1>1, <3>1
    <3>3. ~serving'.live
      BY <3>2
    <3>4. serving' # Nothing
      BY <3>2, BusyIs
    <3> QED
      BY <2>1, <3>2, <3>3, <3>4 DEF Busy
  <2>2. CASE ~Busy
    <3>1. serving = [live |-> FALSE]
      BY <2>2 DEF Busy, Nothing
    <3>2. serving' = [live |-> FALSE]
      BY <1>1, <3>1
    <3>3. ~serving'.live /\ serving' = Nothing
      BY <3>2 DEF Nothing
    <3> QED
      BY <2>2, <3>3 DEF Busy
  <2> QED
    BY <2>1, <2>2
<1> QED
  BY <1>6, <1>8, <1>9

LEMMA SendIs ==
  ASSUME TypeOK, Send
  PROVE  /\ cli.left # <<>> /\ ~cli.waiting
         /\ cli' \in CliType /\ cli'.left = cli.left /\ cli'.image = cli.image /\ cli'.waiting
         /\ pending' \in Seq(Entries) /\ Len(pending') = Len(pending) + 1
         /\ \A i \in 1 .. Len(pending) : pending'[i] = pending[i]
         /\ pending'[Len(pending) + 1] =
              [live |-> TRUE, request |-> Head(cli.left), image |-> cli.image]
<1>1. cli.left # <<>> /\ ~cli.waiting /\ cli' = [cli EXCEPT !.waiting = TRUE]
      /\ pending' = Append(pending, [live |-> TRUE, request |-> Head(cli.left), image |-> cli.image])
  BY DEF Send
<1>2. cli \in CliType /\ cli.left \in Seq(Requests) /\ cli.image \in Seq(Nat)
  BY DEF TypeOK, CliType
<1>3. cli' \in CliType /\ cli'.left = cli.left /\ cli'.image = cli.image /\ cli'.waiting
  BY <1>1, <1>2 DEF CliType
<1>4. Head(cli.left) \in Requests
  BY <1>1, <1>2, HeadTailProperties
<1> DEFINE e == [live |-> TRUE, request |-> Head(cli.left), image |-> cli.image]
<1>5. e \in Entries
  BY <1>2, <1>4 DEF Entries
<1>6. pending \in Seq(Entries)
  BY DEF TypeOK
<1> HIDE DEF e
<1>7. /\ Append(pending, e) \in Seq(Entries) /\ Len(Append(pending, e)) = Len(pending) + 1
      /\ \A i \in 1 .. Len(pending) : Append(pending, e)[i] = pending[i]
      /\ Append(pending, e)[Len(pending) + 1] = e
  BY <1>5, <1>6, AppendProperties
<1> QED
  BY <1>1, <1>3, <1>7 DEF e

LEMMA ServeIs ==
  ASSUME TypeOK, Serve
  PROVE  /\ ~Busy /\ Len(pending) \in Nat \ {0} /\ pending[1] \in Entries
         /\ pending' \in Seq(Entries) /\ Len(pending') = Len(pending) - 1
         /\ \A i \in 1 .. Len(pending) - 1 : pending'[i] = pending[i + 1]
         /\ ~Busy' => serving' = Nothing
         /\ Busy' => serving' = [live |-> pending[1].live, request |-> pending[1].request,
                                 image |-> pending[1].image, todo |-> Accesses(pending[1].request),
                                 answer |-> <<>>, before |-> counter]
<1>1. /\ ~Busy /\ pending # <<>> /\ pending' = Tail(pending)
      /\ LET e == Head(pending) IN
         serving' = IF Refused(e.request) THEN Nothing
                    ELSE [live |-> e.live, request |-> e.request, image |-> e.image,
                          todo |-> Accesses(e.request), answer |-> <<>>, before |-> counter]
  BY DEF Serve, Busy
<1>2. /\ Len(pending) \in Nat \ {0} /\ Head(pending) = pending[1]
      /\ pending' \in Seq(Entries) /\ Len(pending') = Len(pending) - 1
      /\ \A i \in 1 .. Len(pending') : pending'[i] = pending[i + 1]
  BY <1>1, HeadTailProperties, EmptySeq DEF TypeOK
<1>3. pending[1] \in Entries
  BY <1>2, ElementOfSeq DEF TypeOK
<1> QED
  BY <1>1, <1>2, <1>3 DEF Busy

LEMMA LoseIs ==
  ASSUME TypeOK, LoseAnswer
  PROVE  \E i \in 1 .. Len(pending) :
           /\ ~pending[i].live
           /\ pending' \in Seq(Entries) /\ Len(pending') = Len(pending) - 1
           /\ \A j \in 1 .. Len(pending) - 1 :
                pending'[j] = IF j < i THEN pending[j] ELSE pending[j + 1]
<1>1. pending \in Seq(Entries) /\ DOMAIN pending = 1 .. Len(pending)
  BY LenProperties DEF TypeOK
<1>2. PICK i \in 1 .. Len(pending) : ~pending[i].live /\ pending' = RemoveAt(pending, i)
  BY <1>1 DEF LoseAnswer
<1> QED
  BY <1>1, <1>2, RemovedIs

LEMMA AccessIs ==
  ASSUME TypeOK, Access
  PROVE  LET a == Head(serving.todo) IN
         /\ Busy /\ Busy' /\ serving.todo # <<>>
         /\ serving' = [live |-> serving.live, request |-> serving.request,
                        image |-> serving.image, todo |-> Tail(serving.todo),
                        answer |-> serving.answer \o ReadOut(a), before |-> serving.before]
         /\ bram' = IF a.to = "bram" THEN [bram EXCEPT ![a.register] = a.value] ELSE bram
         /\ bram' = [i \in 1 .. BramSize |-> bram'[i]]
         /\ releasedFor' = IF a.to # "pl" \/ a.register # "M3_CONTROL" THEN releasedFor
                           ELSE IF a.value % 2 = 1 THEN serving.image ELSE <<>>
<1> DEFINE a == Head(serving.todo)
<1>1. /\ Busy /\ serving.todo # <<>>
      /\ serving' = [serving EXCEPT !.todo = Tail(@), !.answer = @ \o ReadOut(a)]
      /\ IF a.to = "pl" THEN PlTakes(a) ELSE UNCHANGED <<pl, releasedFor>>
      /\ bram' = IF a.to = "bram" THEN [bram EXCEPT ![a.register] = a.value] ELSE bram
  BY DEF Access, Busy
<1> HIDE DEF a
<1>2. serving = [live |-> serving.live, request |-> serving.request,
                 image |-> serving.image, todo |-> serving.todo,
                 answer |-> serving.answer, before |-> serving.before]
  BY <1>1 DEF TypeOK
<1>3. serving' = [live |-> serving.live, request |-> serving.request,
                  image |-> serving.image, todo |-> Tail(serving.todo),
                  answer |-> serving.answer \o ReadOut(a), before |-> serving.before]
  BY <1>1, <1>2
<1>4. Busy'
  BY <1>3, BusyIs DEF Busy
<1>5. releasedFor' = IF a.to # "pl" \/ a.register # "M3_CONTROL" THEN releasedFor
                     ELSE IF a.value % 2 = 1 THEN serving.image ELSE <<>>
  BY <1>1 DEF PlTakes
<1>6. bram' = [i \in 1 .. BramSize |-> bram'[i]]
  <2>1. bram = [i \in 1 .. BramSize |-> bram[i]]
    BY DEF TypeOK
  <2> QED
    BY <1>1, <2>1
<1> QED
  BY <1>1, <1>3, <1>4, <1>5, <1>6 DEF a

\* An answer that is waited for takes the program on, or ends it.
LEMMA ReplyIs ==
  ASSUME TypeOK, OneIsLive, Reply
  PROVE  /\ Busy /\ ~Busy' /\ serving.todo = <<>> /\ serving' = Nothing
         /\ ~serving.live => UNCHANGED <<cli, report>>
         /\ serving.live =>
              /\ cli.left # <<>> /\ serving.request = Head(cli.left)
              /\ \/ cli' = Idle
                 \/ /\ Len(cli.left) # 1 /\ cli' \in CliType /\ cli'.left = Tail(cli.left)
                    /\ cli'.image = cli.image /\ ~cli'.waiting
              /\ report' = IF serving.request[1] = 6
                             THEN [live |-> TRUE, value |-> Stats(serving.answer),
                                   before |-> serving.before, after |-> counter]
                             ELSE report
<1>1. /\ Busy /\ serving.todo = <<>> /\ serving' = Nothing
      /\ IF serving.live THEN Answered ELSE UNCHANGED <<cli, report>>
  BY DEF Reply, Busy
<1>2. ~Busy'
  BY <1>1 DEF Busy
<1>3. ASSUME serving.live
      PROVE /\ cli.left # <<>> /\ serving.request = Head(cli.left)
            /\ \/ cli' = Idle
               \/ /\ Len(cli.left) # 1 /\ cli' \in CliType /\ cli'.left = Tail(cli.left)
                  /\ cli'.image = cli.image /\ ~cli'.waiting
            /\ report' = IF serving.request[1] = 6
                           THEN [live |-> TRUE, value |-> Stats(serving.answer),
                                 before |-> serving.before, after |-> counter]
                           ELSE report
  <2>1. cli.left # <<>> /\ serving.request = Head(cli.left)
    BY <1>3 DEF OneIsLive
  <2>2. Answered
    BY <1>1, <1>3
  <2>3. \/ cli' = Idle
        \/ Len(cli.left) # 1 /\ cli' = [cli EXCEPT !.left = Tail(@), !.waiting = FALSE]
    BY <2>2 DEF Answered
  <2>4. cli \in CliType /\ Tail(cli.left) \in Seq(Requests)
    BY <2>1, HeadTailProperties DEF TypeOK, CliType
  <2>5. report' = IF serving.request[1] = 6
                    THEN [live |-> TRUE, value |-> Stats(serving.answer),
                          before |-> serving.before, after |-> counter]
                    ELSE report
    BY <2>1, <2>2 DEF Answered
  <2>6. ASSUME cli' = [cli EXCEPT !.left = Tail(@), !.waiting = FALSE]
        PROVE /\ cli' \in CliType /\ cli'.left = Tail(cli.left)
              /\ cli'.image = cli.image /\ ~cli'.waiting
    BY <2>4, <2>6 DEF CliType
  <2> QED
    BY <2>1, <2>3, <2>5, <2>6
<1> QED
  BY <1>1, <1>2, <1>3

-----------------------------------------------------------------------------
LEMMA InitType == ControlInit => TypeOK /\ OneIsLive
<1> SUFFICES ASSUME ControlInit PROVE TypeOK /\ OneIsLive
  OBVIOUS
<1>1. /\ \A S : <<>> \in Seq(S)
      /\ Len(<<>>) = 0
  BY EmptySeq
<1>2. habit \in {"load", "configure", "observe"}
  BY DEF ControlInit, Programs
<1>3. ~Busy /\ ~serving.live
  BY DEF ControlInit, Busy, Nothing
<1>4. cli = Idle /\ cli \in CliType
  BY <1>1 DEF ControlInit, Idle, CliType
<1>5. bram = [i \in 1 .. BramSize |-> bram[i]] /\ counter \in [Range(Counters) -> Nat]
  BY DEF ControlInit
<1>6. TypeOK
  BY <1>1, <1>2, <1>3, <1>4, <1>5 DEF ControlInit, TypeOK, CliType
<1>7. OneIsLive
  <2>1. pending = <<>>
    BY DEF ControlInit
  <2> QED
    BY <1>1, <1>3, <1>4, <2>1 DEF OneIsLive
<1> QED
  BY <1>6, <1>7

LEMMA TypeStep == ASSUME TypeOK, OneIsLive, [ControlNext]_controlVars PROVE TypeOK'
<1>0. cli \in CliType /\ Idle \in CliType /\ <<>> \in Seq(Nat)
  BY EmptySeq DEF TypeOK, CliType, Idle
<1>1. CASE Run
  <2>1. cli' \in CliType
    BY <1>1, ProgramsAre DEF Run, TypeOK
  <2> QED
    BY <1>1, <2>1 DEF Run, boardVars, TypeOK, CliType, Busy
<1>2. CASE Send
  <2>1. cli' \in CliType /\ pending' \in Seq(Entries)
    BY <1>2, SendIs
  <2> QED
    BY <1>2, <2>1 DEF Send, boardVars, TypeOK, CliType, Busy
<1>3. CASE GiveUp
  <2>1. /\ Busy' <=> Busy
        /\ Busy => /\ serving' = [live |-> FALSE, request |-> serving.request,
                                  image |-> serving.image, todo |-> serving.todo,
                                  answer |-> serving.answer, before |-> serving.before]
        /\ pending' \in Seq(Entries)
    BY <1>3, GiveUpIs
  <2>2. cli' \in CliType
    BY <1>0, <1>3 DEF GiveUp
  <2>3. ASSUME Busy'
        PROVE  /\ serving' = [live |-> serving'.live, request |-> serving'.request,
                              image |-> serving'.image, todo |-> serving'.todo,
                              answer |-> serving'.answer, before |-> serving'.before]
               /\ serving'.live \in BOOLEAN /\ serving'.request \in Requests
               /\ serving'.image \in Seq(Nat)
               /\ serving'.before \in [Range(Counters) -> Nat]
    <3>1. /\ serving' = [live |-> FALSE, request |-> serving.request,
                         image |-> serving.image, todo |-> serving.todo,
                         answer |-> serving.answer, before |-> serving.before]
          /\ serving.request \in Requests /\ serving.image \in Seq(Nat)
          /\ serving.before \in [Range(Counters) -> Nat]
      BY <2>1, <2>3 DEF TypeOK
    <3> QED
      BY <3>1
  <2> QED
    BY <1>3, <2>1, <2>2, <2>3 DEF GiveUp, TypeOK, CliType
<1>4. CASE LoseAnswer
  <2>1. pending' \in Seq(Entries)
    BY <1>4, LoseIs
  <2>2. UNCHANGED <<habit, cli, report, boardVars>>
    BY <1>4 DEF LoseAnswer
  <2> QED
    BY <2>1, <2>2 DEF boardVars, TypeOK, Busy
<1>5. CASE Serve
  <2>1. /\ pending[1] \in Entries /\ pending' \in Seq(Entries)
        /\ Busy' => serving' = [live |-> pending[1].live, request |-> pending[1].request,
                                image |-> pending[1].image, todo |-> Accesses(pending[1].request),
                                answer |-> <<>>, before |-> counter]
    BY <1>5, ServeIs
  <2>2. ASSUME Busy'
        PROVE  /\ serving' = [live |-> serving'.live, request |-> serving'.request,
                              image |-> serving'.image, todo |-> serving'.todo,
                              answer |-> serving'.answer, before |-> serving'.before]
               /\ serving'.live \in BOOLEAN /\ serving'.request \in Requests
               /\ serving'.image \in Seq(Nat)
               /\ serving'.before \in [Range(Counters) -> Nat]
    <3>1. counter \in [Range(Counters) -> Nat]
      BY DEF TypeOK
    <3> QED
      BY <2>1, <2>2, <3>1 DEF Entries
  <2> QED
    BY <1>5, <2>1, <2>2 DEF Serve, TypeOK
<1>6. CASE Access
  <2>1. /\ Busy /\ serving' = [live |-> serving.live, request |-> serving.request,
                               image |-> serving.image, todo |-> serving'.todo,
                               answer |-> serving'.answer, before |-> serving.before]
        /\ bram' = [i \in 1 .. BramSize |-> bram'[i]]
        /\ releasedFor' \in {releasedFor, serving.image, <<>>}
    <3> DEFINE a == Head(serving.todo)
    <3>1. /\ Busy
          /\ serving' = [live |-> serving.live, request |-> serving.request,
                         image |-> serving.image, todo |-> Tail(serving.todo),
                         answer |-> serving.answer \o ReadOut(a), before |-> serving.before]
          /\ bram' = [i \in 1 .. BramSize |-> bram'[i]]
          /\ releasedFor' = IF a.to # "pl" \/ a.register # "M3_CONTROL" THEN releasedFor
                            ELSE IF a.value % 2 = 1 THEN serving.image ELSE <<>>
      BY <1>6, AccessIs
    <3> HIDE DEF a
    <3> QED
      BY <3>1
  <2>2. serving.live \in BOOLEAN /\ serving.request \in Requests /\ serving.image \in Seq(Nat)
        /\ serving.before \in [Range(Counters) -> Nat] /\ releasedFor \in Seq(Nat)
    BY <2>1 DEF TypeOK
  <2>3. releasedFor' \in Seq(Nat)
    BY <1>0, <2>1, <2>2
  <2>4. /\ serving' = [live |-> serving'.live, request |-> serving'.request,
                       image |-> serving'.image, todo |-> serving'.todo,
                       answer |-> serving'.answer, before |-> serving'.before]
        /\ serving'.live \in BOOLEAN /\ serving'.request \in Requests
        /\ serving'.image \in Seq(Nat)
        /\ serving'.before \in [Range(Counters) -> Nat]
    BY <2>1, <2>2
  <2> QED
    BY <1>6, <2>1, <2>3, <2>4 DEF Access, TypeOK
<1>7. CASE Reply
  <2>1. ~Busy' /\ cli' \in CliType
    BY <1>0, <1>7, ReplyIs
  <2> QED
    BY <1>7, <2>1 DEF Reply, TypeOK, CliType
<1>8. CASE \E c \in DOMAIN counter : Count(c)
  <2>1. PICK c \in DOMAIN counter : Count(c)
    BY <1>8
  <2>2. counter' \in [Range(Counters) -> Nat]
    BY <2>1 DEF Count, TypeOK
  <2> QED
    BY <2>1, <2>2 DEF Count, TypeOK, Busy
<1>9. CASE UNCHANGED controlVars
  BY <1>9 DEF controlVars, TypeOK, Busy
<1> QED
  BY <1>1, <1>2, <1>3, <1>4, <1>5, <1>6, <1>7, <1>8, <1>9 DEF ControlNext

\* Steps keep the one live request the last of the queue.
LEMMA LiveStep == ASSUME TypeOK, OneIsLive, [ControlNext]_controlVars PROVE OneIsLive'
<1>0. /\ Len(<<>>) = 0 /\ Len(pending) \in Nat /\ \A s \in Seq(Entries) : Len(s) = 0 => s = <<>>
      /\ pending \in Seq(Entries) /\ ~Nothing.live
  BY EmptySeq, LenProperties DEF TypeOK, Nothing
<1>1. CASE Run
  <2>1. cli = Idle /\ cli'.left # <<>> /\ UNCHANGED <<pending, serving>>
    BY <1>1, ProgramsAre DEF Run, TypeOK, boardVars
  <2>2. ~cli.waiting
    BY <2>1 DEF Idle
  <2> QED
    BY <2>1, <2>2 DEF OneIsLive, Busy
<1>2. CASE Send
  <2>1. /\ cli.left # <<>> /\ ~cli.waiting /\ cli'.left = cli.left /\ cli'.image = cli.image
        /\ cli'.waiting /\ Len(pending') = Len(pending) + 1
        /\ \A i \in 1 .. Len(pending) : pending'[i] = pending[i]
        /\ pending'[Len(pending) + 1] =
              [live |-> TRUE, request |-> Head(cli.left), image |-> cli.image]
    BY <1>2, SendIs
  <2>2. serving' = serving /\ ~serving.live /\ \A i \in 1 .. Len(pending) : ~pending[i].live
    BY <1>2, <2>1 DEF Send, boardVars, OneIsLive
  <2>3. ASSUME NEW i \in 1 .. Len(pending'), pending'[i].live
        PROVE  i = Len(pending') /\ pending'[i].request = Head(cli'.left)
               /\ pending'[i].image = cli'.image
    <3>1. i = Len(pending) + 1
      BY <1>0, <2>1, <2>2, <2>3
    <3>2. pending'[i] = [live |-> TRUE, request |-> Head(cli.left), image |-> cli.image]
      BY <2>1, <3>1
    <3> QED
      BY <2>1, <3>1, <3>2
  <2> QED
    BY <2>1, <2>2, <2>3 DEF OneIsLive
<1>3. CASE GiveUp
  <2>1. cli' = Idle /\ Len(pending') = Len(pending) /\ ~serving'.live
        /\ \A i \in 1 .. Len(pending) : ~pending'[i].live
    BY <1>3, GiveUpIs DEF GiveUp
  <2> QED
    BY <2>1 DEF OneIsLive
<1>4. CASE LoseAnswer
  <2>1. PICK i \in 1 .. Len(pending) :
           /\ ~pending[i].live
           /\ pending' \in Seq(Entries) /\ Len(pending') = Len(pending) - 1
           /\ \A j \in 1 .. Len(pending) - 1 :
                pending'[j] = IF j < i THEN pending[j] ELSE pending[j + 1]
    BY <1>4, LoseIs
  <2>2. UNCHANGED <<cli, serving>>
    BY <1>4 DEF LoseAnswer, boardVars
  <2>3. ~serving.live
    BY <1>0, <2>1 DEF OneIsLive
  <2>4. ASSUME NEW j \in 1 .. Len(pending'), pending'[j].live
        PROVE  /\ j = Len(pending') /\ ~serving.live /\ cli.waiting /\ cli.left # <<>>
               /\ pending'[j].request = Head(cli.left) /\ pending'[j].image = cli.image
    <3>1. PICK k \in 1 .. Len(pending) :
            pending'[j] = pending[k] /\ (k = j \/ k = j + 1) /\ (k = j => j < i)
      <4>1. j \in 1 .. Len(pending) /\ j + 1 \in 1 .. Len(pending) /\ j \in 1 .. Len(pending) - 1
        BY <1>0, <2>1
      <4>2. CASE j < i
        BY <2>1, <4>1, <4>2
      <4>3. CASE ~(j < i)
        BY <2>1, <4>1, <4>3
      <4> QED
        BY <4>2, <4>3
    <3>2. pending[k].live
      BY <2>4, <3>1
    <3>3. k = Len(pending) /\ cli.waiting /\ cli.left # <<>>
          /\ pending[k].request = Head(cli.left) /\ pending[k].image = cli.image
      BY <3>2 DEF OneIsLive
    <3>4. k # j
      BY <1>0, <3>1, <3>3
    <3>5. j = Len(pending')
      BY <1>0, <2>1, <3>1, <3>3, <3>4
    <3> QED
      BY <2>3, <3>1, <3>3, <3>5
  <2> QED
    BY <2>2, <2>3, <2>4 DEF OneIsLive
<1>5. CASE Serve
  <2>1. /\ ~Busy /\ Len(pending) \in Nat \ {0} /\ pending' \in Seq(Entries)
        /\ Len(pending') = Len(pending) - 1
        /\ \A i \in 1 .. Len(pending) - 1 : pending'[i] = pending[i + 1]
        /\ ~Busy' => serving' = Nothing
        /\ Busy' => serving' = [live |-> pending[1].live, request |-> pending[1].request,
                                 image |-> pending[1].image, todo |-> Accesses(pending[1].request),
                                 answer |-> <<>>, before |-> counter]
    BY <1>5, ServeIs
  <2>2. cli' = cli
    BY <1>5 DEF Serve
  <2>3. ASSUME serving'.live
        PROVE  /\ Busy' /\ pending' = <<>> /\ cli.waiting /\ cli.left # <<>>
               /\ serving'.request = Head(cli.left) /\ serving'.image = cli.image
    <3>1. Busy'
      BY <1>0, <2>1, <2>3
    <3>2. serving'.live = pending[1].live /\ serving'.request = pending[1].request
          /\ serving'.image = pending[1].image
      BY <2>1, <3>1
    <3>3. 1 = Len(pending) /\ cli.waiting /\ cli.left # <<>>
          /\ pending[1].request = Head(cli.left) /\ pending[1].image = cli.image
      BY <2>1, <2>3, <3>2 DEF OneIsLive
    <3>4. pending' = <<>>
      BY <1>0, <2>1, <3>3
    <3> QED
      BY <3>1, <3>2, <3>3, <3>4
  <2>4. ASSUME NEW j \in 1 .. Len(pending'), pending'[j].live
        PROVE  /\ j = Len(pending') /\ ~serving'.live /\ cli.waiting /\ cli.left # <<>>
               /\ pending'[j].request = Head(cli.left) /\ pending'[j].image = cli.image
    <3>1. j + 1 \in 1 .. Len(pending) /\ pending'[j] = pending[j + 1]
      BY <2>1
    <3>2. j + 1 = Len(pending) /\ cli.waiting /\ cli.left # <<>>
          /\ pending[j + 1].request = Head(cli.left) /\ pending[j + 1].image = cli.image
      BY <2>4, <3>1 DEF OneIsLive
    <3>3. j = Len(pending') /\ Len(pending') # 0
      BY <2>1, <3>2
    <3>4. ~serving'.live
      BY <1>0, <2>3, <3>3
    <3> QED
      BY <3>1, <3>2, <3>3, <3>4
  <2> QED
    BY <2>2, <2>3, <2>4 DEF OneIsLive
<1>6. CASE Access
  <2>1. UNCHANGED <<cli, pending>> /\ Busy /\ Busy' /\ serving'.live = serving.live
        /\ serving'.request = serving.request /\ serving'.image = serving.image
    BY <1>6, AccessIs DEF Access
  <2> QED
    BY <2>1 DEF OneIsLive
<1>7. CASE Reply
  <2>1. pending' = pending /\ Busy /\ ~serving'.live
    BY <1>0, <1>7, ReplyIs DEF Reply
  <2>2. CASE ~serving.live
    <3>1. cli' = cli
      BY <1>7, <2>2, ReplyIs
    <3> QED
      BY <2>1, <3>1 DEF OneIsLive
  <2>3. CASE serving.live
    <3>1. pending = <<>>
      BY <2>3 DEF OneIsLive
    <3>2. cli'.left = <<>> => cli' = Idle
      <4>1. CASE cli' = Idle
        BY <4>1
      <4>2. CASE Len(cli.left) # 1 /\ cli'.left = Tail(cli.left)
        <5>1. cli.left # <<>> /\ cli.left \in Seq(Requests)
          BY <2>3 DEF OneIsLive, TypeOK
        <5>2. Len(Tail(cli.left)) = Len(cli.left) - 1 /\ Len(cli.left) \in Nat
          BY <5>1, HeadTailProperties, LenProperties
        <5>3. Len(cli'.left) # 0
          BY <4>2, <5>2
        <5> QED
          BY <1>0, <5>3
      <4> QED
        BY <1>7, <2>3, <4>1, <4>2, ReplyIs
    <3> QED
      BY <1>0, <2>1, <3>1, <3>2 DEF OneIsLive
  <2> QED
    BY <2>2, <2>3
<1>8. CASE \E c \in DOMAIN counter : Count(c)
  BY <1>8 DEF Count, OneIsLive, Busy
<1>9. CASE UNCHANGED controlVars
  BY <1>9 DEF controlVars, OneIsLive, Busy
<1> QED
  BY <1>1, <1>2, <1>3, <1>4, <1>5, <1>6, <1>7, <1>8, <1>9 DEF ControlNext

-----------------------------------------------------------------------------
\* A memory that has all words of an image begins with it.
LEMMA PrefixIs ==
  \A b : b = [i \in 1 .. BramSize |-> b[i]] =>
    /\ IsPrefix(<<>>, b)
    /\ \A a \in Seq(Nat) : Len(a) <= BramSize /\ (\A p \in 1 .. Len(a) : b[p] = a[p])
                             => IsPrefix(a, b)
<1> SUFFICES ASSUME NEW b, b = [i \in 1 .. BramSize |-> b[i]]
             PROVE  /\ IsPrefix(<<>>, b)
                    /\ \A a \in Seq(Nat) :
                         Len(a) <= BramSize /\ (\A p \in 1 .. Len(a) : b[p] = a[p])
                           => IsPrefix(a, b)
  OBVIOUS
<1>1. Len(b) = BramSize
  BY ControlAssumption
<1>2. IsPrefix(<<>>, b)
  <2>1. \A s : SubSeq(s, 1, 0) = <<>>
    BY SubSeqEmpty
  <2>2. Len(<<>>) = 0 /\ Len(b) >= 0
    BY <1>1, EmptySeq, ControlAssumption
  <2> QED
    BY <2>1, <2>2 DEF IsPrefix
<1>3. ASSUME NEW a \in Seq(Nat), Len(a) <= BramSize, \A p \in 1 .. Len(a) : b[p] = a[p]
      PROVE  IsPrefix(a, b)
  <2>2. /\ Len(a) \in Nat /\ \A i \in 1 .. Len(a) : a[i] \in Nat /\ b[i] = a[i]
    BY <1>3, LenProperties, ElementOfSeq
  <2>3. /\ SubSeq(a, 1, Len(a)) \in Seq(Nat) /\ SubSeq(b, 1, Len(a)) \in Seq(Nat)
        /\ Len(SubSeq(a, 1, Len(a))) = Len(SubSeq(b, 1, Len(a)))
        /\ \A i \in 1 .. Len(a) - 1 + 1 :
             /\ SubSeq(a, 1, Len(a))[i] = a[1 + i - 1]
             /\ SubSeq(b, 1, Len(a))[i] = b[1 + i - 1]
        /\ Len(SubSeq(a, 1, Len(a))) = IF 1 <= Len(a) THEN Len(a) - 1 + 1 ELSE 0
    <3>1. \A i \in 1 .. Len(a) : a[i] \in Nat
      BY <2>2
    <3>2. \A i \in 1 .. Len(a) : b[i] \in Nat
      BY <2>2
    <3> QED
      BY <2>2, <3>1, <3>2, SubSeqProperties
  <2>4. \A i \in 1 .. Len(SubSeq(a, 1, Len(a))) :
          SubSeq(a, 1, Len(a))[i] = SubSeq(b, 1, Len(a))[i]
    <3>1. \A n \in Nat : n - 1 + 1 = n /\ \A i \in 1 .. n : 1 + i - 1 = i
      OBVIOUS
    <3>2. Len(SubSeq(a, 1, Len(a))) = Len(a)
      BY <2>2, <2>3
    <3>3. \A i \in 1 .. Len(a) : /\ SubSeq(a, 1, Len(a))[i] = a[i]
                                 /\ SubSeq(b, 1, Len(a))[i] = b[i]
      BY <2>2, <2>3, <3>1
    <3> QED
      BY <2>2, <3>2, <3>3
  <2>5. SubSeq(a, 1, Len(a)) = SubSeq(b, 1, Len(a))
    BY <2>3, <2>4, SeqEqual
  <2> QED
    BY <1>1, <1>3, <2>5 DEF IsPrefix
<1> QED
  BY <1>2, <1>3

LEMMA HabitStays == [ControlNext]_controlVars => habit' = habit
  BY DEF ControlNext, Run, Send, GiveUp, LoseAnswer, Serve, Access, Reply, Count, controlVars

LEMMA InitLoad == ControlInit => LoadInv /\ ReleasedImageIsWhole
<1> SUFFICES ASSUME ControlInit PROVE LoadInv /\ ReleasedImageIsWhole
  OBVIOUS
<1>1. /\ pending = <<>> /\ ~Busy /\ cli = Idle /\ releasedFor = <<>> /\ Len(<<>>) = 0
  BY EmptySeq DEF ControlInit, Busy
<1>2. cli.left = <<>> /\ cli.image = <<>>
  BY <1>1 DEF Idle
<1>3. QueueIsOrdered /\ ServingIsOrdered /\ CliIsOrdered /\ OthersLoadNothing
  BY <1>1, <1>2 DEF QueueIsOrdered, ServingIsOrdered, CliIsOrdered, OthersLoadNothing
<1>4. bram = [i \in 1 .. BramSize |-> bram[i]]
  BY DEF ControlInit
<1> QED
  BY <1>1, <1>3, <1>4, PrefixIs DEF LoadInv, ReleasedImageIsWhole

\* Without load-m3 no image is released.
LEMMA OthersStep ==
  ASSUME TypeOK, OneIsLive, habit # "load", OthersLoadNothing, [ControlNext]_controlVars
  PROVE  OthersLoadNothing'
<1>0. /\ Idle.image = <<>> /\ Idle.left = <<>> /\ Len(<<>>) = 0 /\ Len(pending) \in Nat
      /\ habit \in {"load", "configure", "observe"}
  BY EmptySeq, LenProperties DEF Idle, TypeOK
<1>1. CASE Run
  <2>1. cli'.image = <<>> /\ Len(cli'.left) = 1
    BY <1>0, <1>1, ProgramsAre DEF Run
  <2> QED
    BY <1>1, <2>1 DEF Run, boardVars, OthersLoadNothing, Busy
<1>2. CASE Send
  <2>1. /\ cli'.left = cli.left /\ cli'.image = cli.image
        /\ Len(pending') = Len(pending) + 1
        /\ \A i \in 1 .. Len(pending) : pending'[i] = pending[i]
        /\ pending'[Len(pending) + 1].image = cli.image
    BY <1>2, SendIs
  <2>2. \A i \in 1 .. Len(pending') : pending'[i].image = <<>>
    <3>1. \A i \in 1 .. Len(pending') : i \in 1 .. Len(pending) \/ i = Len(pending) + 1
      BY <1>0, <2>1
    <3> QED
      BY <2>1, <3>1 DEF OthersLoadNothing
  <2> QED
    BY <1>2, <2>1, <2>2 DEF Send, boardVars, OthersLoadNothing, Busy
<1>3. CASE GiveUp
  <2>1. /\ Busy' <=> Busy
        /\ Busy => serving'.image = serving.image
        /\ Len(pending') = Len(pending)
        /\ \A i \in 1 .. Len(pending) : pending'[i].image = pending[i].image
    BY <1>3, GiveUpIs
  <2> QED
    BY <1>0, <1>3, <2>1 DEF GiveUp, OthersLoadNothing
<1>4. CASE LoseAnswer
  <2>1. PICK i \in 1 .. Len(pending) :
           /\ Len(pending') = Len(pending) - 1
           /\ \A j \in 1 .. Len(pending) - 1 :
                pending'[j] = IF j < i THEN pending[j] ELSE pending[j + 1]
    BY <1>4, LoseIs
  <2>2. \A j \in 1 .. Len(pending') : pending'[j].image = <<>>
    <3>1. \A j \in 1 .. Len(pending) - 1 : j \in 1 .. Len(pending) /\ j + 1 \in 1 .. Len(pending)
      BY <1>0
    <3> QED
      BY <2>1, <3>1 DEF OthersLoadNothing
  <2>3. UNCHANGED <<cli, serving, releasedFor>>
    BY <1>4 DEF LoseAnswer, boardVars
  <2> QED
    BY <2>2, <2>3 DEF OthersLoadNothing, Busy
<1>5. CASE Serve
  <2>1. /\ Len(pending) \in Nat \ {0} /\ Len(pending') = Len(pending) - 1
        /\ \A i \in 1 .. Len(pending) - 1 : pending'[i] = pending[i + 1]
        /\ Busy' => serving'.image = pending[1].image
    BY <1>5, ServeIs
  <2>2. \A j \in 1 .. Len(pending') : pending'[j].image = <<>>
    <3>1. \A j \in 1 .. Len(pending) - 1 : j + 1 \in 1 .. Len(pending)
      BY <1>0
    <3> QED
      BY <2>1, <3>1 DEF OthersLoadNothing
  <2>3. UNCHANGED <<cli, releasedFor>>
    BY <1>5 DEF Serve
  <2> QED
    BY <2>1, <2>2, <2>3 DEF OthersLoadNothing
<1>6. CASE Access
  <2> DEFINE a == Head(serving.todo)
  <2>1. /\ Busy /\ serving'.image = serving.image
        /\ releasedFor' = IF a.to # "pl" \/ a.register # "M3_CONTROL" THEN releasedFor
                          ELSE IF a.value % 2 = 1 THEN serving.image ELSE <<>>
    BY <1>6, AccessIs
  <2> HIDE DEF a
  <2>2. UNCHANGED <<cli, pending>>
    BY <1>6 DEF Access
  <2> QED
    BY <2>1, <2>2 DEF OthersLoadNothing
<1>7. CASE Reply
  <2>1. ~Busy' /\ UNCHANGED <<pending, releasedFor>>
    BY <1>7, ReplyIs DEF Reply
  <2>2. cli' = cli \/ cli' = Idle
    <3>1. CASE ~serving.live
      BY <1>7, <3>1, ReplyIs
    <3>2. CASE serving.live
      <4>1. cli.left # <<>> /\ cli.left \in Seq(Requests)
        BY <3>2 DEF OneIsLive, TypeOK
      <4>2. Len(cli.left) = 1
        <5>1. Len(cli.left) \in Nat \ {0} /\ Len(cli.left) <= 1
          BY <4>1, EmptySeq DEF OthersLoadNothing
        <5>2. \A n \in Nat \ {0} : n <= 1 => n = 1
          OBVIOUS
        <5> QED
          BY <5>1, <5>2
      <4> QED
        BY <1>7, <3>2, <4>2, ReplyIs
    <3> QED
      BY <3>1, <3>2
  <2> QED
    BY <1>0, <2>1, <2>2 DEF OthersLoadNothing
<1>8. CASE (\E c \in DOMAIN counter : Count(c)) \/ UNCHANGED controlVars
  BY <1>8 DEF Count, controlVars, OthersLoadNothing, Busy
<1> QED
  BY <1>1, <1>2, <1>3, <1>4, <1>5, <1>6, <1>7, <1>8 DEF ControlNext

-----------------------------------------------------------------------------
LEMMA SameQueue ==
  ASSUME UNCHANGED <<pending, serving, bram, releasedFor>>
  PROVE  /\ QueueIsOrdered => QueueIsOrdered'
         /\ ServingIsOrdered => ServingIsOrdered'
BY DEF QueueIsOrdered, ServingIsOrdered, Busy, Full, Made

\* The next request of load-m3 is one of its requests.
LEMMA HeadIsOf ==
  ASSUME CliIsOrdered, cli.left # <<>>
  PROVE  IsOf(Head(cli.left), cli.image)
<1>1. CASE cli.image = <<>> /\ \E b \in {0, 1, 3} : cli.left = <<M3Control(b)>>
  BY <1>1 DEF IsOf
<1>2. CASE /\ cli.image \in Loadable
           /\ \E k \in 1 .. Len(load_m3(cli.image)) :
                cli.left = SubSeq(load_m3(cli.image), k, Len(load_m3(cli.image)))
  <2> DEFINE l == load_m3(cli.image)
  <2>1. PICK k \in 1 .. Len(l) : cli.left = SubSeq(l, k, Len(l))
    BY <1>2
  <2>2. l \in Seq(Requests) /\ Len(l) \in Nat
    BY <1>2, LoadM3Is, LenProperties
  <2>3. k \in 1 .. Len(l) + 1 /\ k <= Len(l)
    BY <2>2
  <2> HIDE DEF l
  <2>4. Head(cli.left) = l[k]
    BY <2>1, <2>2, <2>3, SuffixIs
  <2> QED
    BY <1>2, <2>1, <2>4 DEF IsOf, l
<1> QED
  BY <1>1, <1>2 DEF CliIsOrdered

LEMMA LoadRun ==
  ASSUME TypeOK, habit = "load", QueueIsOrdered, ServingIsOrdered, CliIsOrdered, Run
  PROVE  QueueIsOrdered' /\ ServingIsOrdered' /\ CliIsOrdered'
<1>1. UNCHANGED <<pending, serving, bram, releasedFor>>
  BY DEF Run, boardVars
<1>2. \/ cli'.image \in Loadable /\ cli'.left = load_m3(cli'.image)
      \/ cli'.image = <<>> /\ \E b \in {0, 1, 3} : cli'.left = <<M3Control(b)>>
  BY ProgramsAre DEF Run
<1>3. CASE cli'.image = <<>> /\ \E b \in {0, 1, 3} : cli'.left = <<M3Control(b)>>
  <2>1. ~Late(Head(cli'.left), cli'.image)
    BY <1>3 DEF Late
  <2> QED
    BY <1>1, <1>3, <2>1, SameQueue DEF CliIsOrdered
<1>4. CASE cli'.image \in Loadable /\ cli'.left = load_m3(cli'.image)
  <2> DEFINE l == load_m3(cli'.image)
  <2>1. l \in Seq(Requests) /\ Len(l) \in Nat /\ Len(l) >= 1 /\ l[1] = M3Control(0)
    BY <1>4, LoadM3Is, LenProperties
  <2>2. 1 \in 1 .. Len(l) /\ l = SubSeq(l, 1, Len(l)) /\ Head(l) = l[1]
    BY <2>1, SubSeqFull
  <2>3. ~Late(Head(cli'.left), cli'.image)
    BY <1>4, <2>1, <2>2 DEF Late
  <2>4. \E k \in 1 .. Len(l) : cli'.left = SubSeq(l, k, Len(l))
    BY <1>4, <2>2
  <2> QED
    BY <1>1, <1>4, <2>3, <2>4, SameQueue DEF CliIsOrdered
<1> QED
  BY <1>2, <1>3, <1>4

LEMMA LoadSend ==
  ASSUME TypeOK, QueueIsOrdered, ServingIsOrdered, CliIsOrdered, Send
  PROVE  QueueIsOrdered' /\ ServingIsOrdered' /\ CliIsOrdered'
<1>1. /\ cli.left # <<>> /\ ~cli.waiting
      /\ cli'.left = cli.left /\ cli'.image = cli.image /\ cli'.waiting
      /\ Len(pending') = Len(pending) + 1
      /\ \A i \in 1 .. Len(pending) : pending'[i] = pending[i]
      /\ pending'[Len(pending) + 1] =
              [live |-> TRUE, request |-> Head(cli.left), image |-> cli.image]
  BY SendIs
<1>2. UNCHANGED <<serving, bram, releasedFor>> /\ (Busy' <=> Busy) /\ Len(pending) \in Nat
      /\ Len(<<>>) = 0
  BY LenProperties, EmptySeq DEF Send, boardVars, Busy, TypeOK
<1>3. ServingIsOrdered'
  BY <1>2 DEF ServingIsOrdered, Busy, Full, Made
<1>4. CliIsOrdered'
  BY <1>1 DEF CliIsOrdered
<1>5. ASSUME NEW i \in 1 .. Len(pending')
      PROVE  /\ IsOf(pending'[i].request, pending'[i].image)
             /\ Late(pending'[i].request, pending'[i].image) =>
                  /\ i = 1 /\ ~Busy
                  /\ Full(pending'[i].image, Before(pending'[i].request, pending'[i].image))
                  /\ releasedFor = <<>>
  <2>1. CASE i \in 1 .. Len(pending)
    <3>1. pending'[i] = pending[i]
      BY <1>1, <2>1
    <3>2. /\ IsOf(pending[i].request, pending[i].image)
          /\ Late(pending[i].request, pending[i].image) =>
               /\ i = 1 /\ ~Busy
               /\ Full(pending[i].image, Before(pending[i].request, pending[i].image))
               /\ releasedFor = <<>>
      BY <2>1 DEF QueueIsOrdered
    <3> QED
      BY <3>1, <3>2
  <2>2. CASE i = Len(pending) + 1
    <3>1. pending'[i].request = Head(cli.left) /\ pending'[i].image = cli.image
      BY <1>1, <2>2
    <3>2. IsOf(pending'[i].request, pending'[i].image)
      BY <1>1, <3>1, HeadIsOf
    <3>3. Late(Head(cli.left), cli.image) =>
            /\ ~Busy /\ pending = <<>> /\ releasedFor = <<>>
            /\ Full(cli.image, Before(Head(cli.left), cli.image))
      BY <1>1 DEF CliIsOrdered
    <3>4. pending = <<>> => i = 1
      BY <1>2, <2>2
    <3> QED
      BY <3>1, <3>2, <3>3, <3>4
  <2>3. i \in 1 .. Len(pending) \/ i = Len(pending) + 1
    BY <1>1, <1>2
  <2> QED
    BY <2>1, <2>2, <2>3
<1>6. QueueIsOrdered'
  BY <1>2, <1>5 DEF QueueIsOrdered, Full
<1> QED
  BY <1>3, <1>4, <1>6

LEMMA LoadGiveUp ==
  ASSUME TypeOK, QueueIsOrdered, ServingIsOrdered, CliIsOrdered, GiveUp
  PROVE  QueueIsOrdered' /\ ServingIsOrdered' /\ CliIsOrdered'
<1>1. /\ Busy' <=> Busy
      /\ Busy => serving'.request = serving.request /\ serving'.image = serving.image
                   /\ serving'.todo = serving.todo
      /\ Len(pending') = Len(pending)
      /\ \A i \in 1 .. Len(pending) :
           pending'[i].request = pending[i].request /\ pending'[i].image = pending[i].image
  BY GiveUpIs
<1>2. cli' = Idle /\ UNCHANGED <<bram, releasedFor>>
  BY DEF GiveUp
<1>3. CliIsOrdered'
  BY <1>2 DEF CliIsOrdered, Idle
<1>4. Busy => Made' = Made
  BY <1>1 DEF Made
<1>5. ServingIsOrdered'
  <2> SUFFICES ASSUME Busy' PROVE ServingIsOrdered'
    BY DEF ServingIsOrdered
  <2>1. Busy
    BY <1>1
  <2> DEFINE r == serving.request
             a == serving.image
  <2>2. /\ IsOf(r, a) /\ Made \in 0 .. Len(Accesses(r))
        /\ serving.todo = SubSeq(Accesses(r), Made + 1, Len(Accesses(r)))
        /\ Late(r, a) =>
             /\ Full(a, IF r[1] = 7 THEN r[2] + Made ELSE Before(r, a))
             /\ r # M3Control(1) \/ serving.todo # <<>> => releasedFor = <<>>
        /\ ~Late(r, a) /\ serving.todo = <<>> => releasedFor = <<>>
    BY <2>1 DEF ServingIsOrdered
  <2> HIDE DEF r, a
  <2>3. serving'.request = r /\ serving'.image = a /\ serving'.todo = serving.todo /\ Made' = Made
    BY <1>1, <1>4, <2>1 DEF r, a
  <2> QED
    BY <1>2, <2>2, <2>3 DEF ServingIsOrdered, Full
<1>6. QueueIsOrdered'
  BY <1>1, <1>2 DEF QueueIsOrdered, Full
<1> QED
  BY <1>3, <1>5, <1>6

LEMMA LoadLose ==
  ASSUME TypeOK, QueueIsOrdered, ServingIsOrdered, CliIsOrdered, LoseAnswer
  PROVE  QueueIsOrdered' /\ ServingIsOrdered' /\ CliIsOrdered'
<1>1. PICK i \in 1 .. Len(pending) :
        /\ Len(pending') = Len(pending) - 1
        /\ \A j \in 1 .. Len(pending) - 1 :
             pending'[j] = IF j < i THEN pending[j] ELSE pending[j + 1]
  BY LoseIs
<1>2. UNCHANGED <<cli, serving, bram, releasedFor>> /\ (Busy' <=> Busy) /\ Len(pending) \in Nat
      /\ Len(<<>>) = 0
  BY LenProperties, EmptySeq DEF LoseAnswer, boardVars, Busy, TypeOK
<1>3. ServingIsOrdered'
  BY <1>2 DEF ServingIsOrdered, Busy, Full, Made
<1>4. CliIsOrdered'
  <2>1. pending # <<>>
    BY <1>1, <1>2
  <2> QED
    BY <1>2, <2>1 DEF CliIsOrdered
<1>5. ASSUME NEW j \in 1 .. Len(pending')
      PROVE  /\ IsOf(pending'[j].request, pending'[j].image)
             /\ Late(pending'[j].request, pending'[j].image) =>
                  /\ j = 1 /\ ~Busy
                  /\ Full(pending'[j].image, Before(pending'[j].request, pending'[j].image))
                  /\ releasedFor = <<>>
  <2>1. j \in 1 .. Len(pending) /\ j + 1 \in 1 .. Len(pending) /\ j \in 1 .. Len(pending) - 1
        /\ j + 1 # 1
    BY <1>1, <1>2
  <2>2. pending'[j] = pending[j] \/ pending'[j] = pending[j + 1]
    BY <1>1, <2>1
  <2>3. \A k \in 1 .. Len(pending) :
          /\ IsOf(pending[k].request, pending[k].image)
          /\ Late(pending[k].request, pending[k].image) =>
               /\ k = 1 /\ ~Busy
               /\ Full(pending[k].image, Before(pending[k].request, pending[k].image))
               /\ releasedFor = <<>>
    BY DEF QueueIsOrdered
  <2> QED
    BY <2>1, <2>2, <2>3
<1>6. QueueIsOrdered'
  BY <1>2, <1>5 DEF QueueIsOrdered, Full
<1> QED
  BY <1>3, <1>4, <1>6

\* The accesses of a request for the M3 are a sequence, and a hold has one.
LEMMA AccessesAreSeq ==
  ASSUME NEW r, NEW a, IsOf(r, a)
  PROVE  /\ Accesses(r) \in Seq(AccessSet) /\ Len(Accesses(r)) \in Nat
         /\ r[1] = 9 => \E b \in {0, 1, 3} :
              /\ r = M3Control(b) /\ Len(Accesses(r)) = 1
              /\ Accesses(r)[1] = W("pl", "M3_CONTROL", b)
<1>1. r[1] \in {7, 8, 9} /\ r \in Requests
  BY RequestShape
<1>2. CASE r[1] = 7
  <2>1. r[2] \in Nat /\ Len(r) >= 2
    BY <1>2, RequestShape
  <2>2. Accesses(r) \in Seq(AccessSet)
    BY <1>1, <1>2, <2>1, AccessesOf
  <2> QED
    BY <1>2, <2>2, LenProperties
<1>3. CASE r[1] = 8
  <2>1. PICK n \in Nat : r = ReadM3Bram(0, n)
    BY <1>3, RequestShape
  <2>2. Accesses(r) \in Seq(AccessSet)
    BY <2>1, AccessesOf
  <2> QED
    BY <1>3, <2>2, LenProperties
<1>4. CASE r[1] = 9
  <2>1. PICK b \in {0, 1, 3} : r = M3Control(b)
    BY <1>4, RequestShape
  <2>2. b \in Nat
    OBVIOUS
  <2>3. Accesses(r) \in Seq(AccessSet) /\ Len(Accesses(r)) = 1
        /\ Accesses(r)[1] = W("pl", "M3_CONTROL", b)
    BY <2>1, <2>2, AccessesOf
  <2> QED
    BY <2>1, <2>3
<1> QED
  BY <1>1, <1>2, <1>3, <1>4

LEMMA LoadServe ==
  ASSUME TypeOK, QueueIsOrdered, ServingIsOrdered, CliIsOrdered, Serve
  PROVE  QueueIsOrdered' /\ ServingIsOrdered' /\ CliIsOrdered'
<1> DEFINE r == pending[1].request
           a == pending[1].image
<1>1. /\ ~Busy /\ Len(pending) \in Nat \ {0}
      /\ Len(pending') = Len(pending) - 1
      /\ \A i \in 1 .. Len(pending) - 1 : pending'[i] = pending[i + 1]
      /\ Busy' => serving' = [live |-> pending[1].live, request |-> r,
                              image |-> a, todo |-> Accesses(r),
                              answer |-> <<>>, before |-> counter]
  BY ServeIs
<1>2. /\ UNCHANGED <<cli, bram, releasedFor>> /\ pending # <<>>
  BY DEF Serve
<1>3. CliIsOrdered'
  BY <1>2 DEF CliIsOrdered
<1>4. \A i \in 1 .. Len(pending) :
        /\ IsOf(pending[i].request, pending[i].image)
        /\ Late(pending[i].request, pending[i].image) =>
             /\ i = 1 /\ Full(pending[i].image, Before(pending[i].request, pending[i].image))
             /\ releasedFor = <<>>
  BY DEF QueueIsOrdered
<1>5. QueueIsOrdered'
  <2>1. ASSUME NEW j \in 1 .. Len(pending')
        PROVE  /\ IsOf(pending'[j].request, pending'[j].image)
               /\ ~Late(pending'[j].request, pending'[j].image)
    <3>1. j + 1 \in 1 .. Len(pending) /\ j + 1 # 1 /\ pending'[j] = pending[j + 1]
      BY <1>1
    <3> QED
      BY <1>4, <3>1
  <2> QED
    BY <2>1 DEF QueueIsOrdered
<1>6. ServingIsOrdered'
  <2> SUFFICES ASSUME Busy' PROVE ServingIsOrdered'
    BY DEF ServingIsOrdered
  <2>1. /\ IsOf(r, a)
        /\ Late(r, a) => Full(a, Before(r, a)) /\ releasedFor = <<>>
    <3>1. 1 \in 1 .. Len(pending)
      BY <1>1
    <3> QED
      BY <1>4, <3>1
  <2> HIDE DEF r, a
  <2>2. serving'.request = r /\ serving'.image = a /\ serving'.todo = Accesses(r)
    BY <1>1
  <2>3. Accesses(r) \in Seq(AccessSet) /\ Len(Accesses(r)) \in Nat
    BY <2>1, AccessesAreSeq
  <2>4. Made' = 0 /\ SubSeq(Accesses(r), 0 + 1, Len(Accesses(r))) = Accesses(r)
    BY <2>2, <2>3, SubSeqFull DEF Made
  <2>5. ASSUME ~Late(r, a) PROVE Accesses(r) # <<>>
    <3>1. r[1] = 9
      BY <2>1, <2>5, RequestShape
    <3>2. Len(Accesses(r)) = 1
      BY <2>1, <3>1, AccessesAreSeq
    <3> QED
      BY <3>2, EmptySeq
  <2>6. ASSUME Late(r, a) PROVE Full(a, IF r[1] = 7 THEN r[2] + 0 ELSE Before(r, a))
    <3>1. CASE r[1] = 7
      <4>1. r[2] \in Nat
        BY <2>1, <3>1, RequestShape
      <4>2. r[2] + 0 = Before(r, a)
        BY <3>1, <4>1 DEF Before
      <4> QED
        BY <2>1, <2>6, <3>1, <4>2
    <3> QED
      BY <2>1, <2>6, <3>1
  <2> QED
    BY <1>2, <2>1, <2>2, <2>3, <2>4, <2>5, <2>6 DEF ServingIsOrdered, Full
<1> QED
  BY <1>3, <1>5, <1>6

LEMMA LoadAccess ==
  ASSUME TypeOK, QueueIsOrdered, ServingIsOrdered, CliIsOrdered, ReleasedImageIsWhole, Access
  PROVE  QueueIsOrdered' /\ ServingIsOrdered' /\ CliIsOrdered' /\ ReleasedImageIsWhole'
<1> DEFINE r == serving.request
           a == serving.image
           acc == Accesses(r)
           m == Made
           x == Head(serving.todo)
<1>1. /\ Busy /\ Busy' /\ serving.todo # <<>>
      /\ serving'.request = r /\ serving'.image = a /\ serving'.todo = Tail(serving.todo)
      /\ bram' = IF x.to = "bram" THEN [bram EXCEPT ![x.register] = x.value] ELSE bram
      /\ releasedFor' = IF x.to # "pl" \/ x.register # "M3_CONTROL" THEN releasedFor
                        ELSE IF x.value % 2 = 1 THEN a ELSE <<>>
  BY AccessIs
<1>2. UNCHANGED <<cli, pending>> /\ Len(<<>>) = 0
  BY EmptySeq DEF Access
<1>3. /\ IsOf(r, a) /\ m \in 0 .. Len(acc)
      /\ serving.todo = SubSeq(acc, m + 1, Len(acc))
      /\ Late(r, a) =>
           /\ Full(a, IF r[1] = 7 THEN r[2] + m ELSE Before(r, a)) /\ releasedFor = <<>>
  BY <1>1 DEF ServingIsOrdered
<1>4. acc \in Seq(AccessSet) /\ Len(acc) \in Nat
  BY <1>3, AccessesAreSeq
<1> HIDE DEF acc, m, x, r, a
<1>5. m < Len(acc)
  <2>1. m # Len(acc)
    <3> SUFFICES ASSUME m = Len(acc) PROVE FALSE
      OBVIOUS
    <3>1. m + 1 \in 1 .. Len(acc) + 1 /\ m + 1 = Len(acc) + 1
      BY <1>4
    <3>2. SubSeq(acc, m + 1, Len(acc)) = <<>>
      BY <1>4, <3>1, SuffixIs
    <3> QED
      BY <1>1, <1>3, <3>2
  <2> QED
    BY <1>3, <1>4, <2>1
<1>6. m + 1 \in 1 .. Len(acc) /\ m + 1 \in 0 .. Len(acc) /\ m \in Nat
  BY <1>3, <1>4, <1>5
<1>7. x = acc[m + 1] /\ Tail(serving.todo) = SubSeq(acc, (m + 1) + 1, Len(acc))
      /\ Len(Tail(serving.todo)) = Len(acc) - (m + 1)
  <2>1. m + 1 \in 1 .. Len(acc) + 1 /\ (m + 1) + 1 \in 1 .. Len(acc) + 1 /\ m + 1 <= Len(acc)
    BY <1>4, <1>6
  <2>2. Head(SubSeq(acc, m + 1, Len(acc))) = acc[m + 1]
        /\ Tail(SubSeq(acc, m + 1, Len(acc))) = SubSeq(acc, (m + 1) + 1, Len(acc))
    BY <1>4, <2>1, SuffixIs
  <2>3. Len(SubSeq(acc, (m + 1) + 1, Len(acc))) = Len(acc) - ((m + 1) + 1) + 1
    BY <1>4, <2>1, SuffixIs
  <2>4. Len(acc) - ((m + 1) + 1) + 1 = Len(acc) - (m + 1)
    BY <1>4, <1>6
  <2> QED
    BY <1>3, <2>2, <2>3, <2>4 DEF x
<1>8. Made' = m + 1
  <2>1. Made' = Len(Accesses(serving'.request)) - Len(serving'.todo)
    BY DEF Made
  <2>2. Made' = Len(acc) - (Len(acc) - (m + 1))
    BY <1>1, <1>7, <2>1 DEF acc
  <2> QED
    BY <1>4, <1>6, <2>2
<1>9. \A i \in 1 .. Len(pending) :
        IsOf(pending[i].request, pending[i].image)
          /\ ~Late(pending[i].request, pending[i].image)
  BY <1>1 DEF QueueIsOrdered
<1>10. QueueIsOrdered'
  BY <1>2, <1>9 DEF QueueIsOrdered
<1>11. CliIsOrdered'
  BY <1>1, <1>2 DEF CliIsOrdered
<1>12. ASSUME \/ /\ r[1] = 7 /\ releasedFor' = <<>>
                 /\ \A p \in 1 .. Len(a) : p <= r[2] + (m + 1) => bram'[p] = a[p]
              \/ r[1] = 8 /\ UNCHANGED <<bram, releasedFor>>
              \/ /\ r[1] = 9 /\ bram' = bram /\ Len(acc) = 1
                 /\ (r # M3Control(1) \/ a = <<>>) => releasedFor' = <<>>
       PROVE  ServingIsOrdered'
  <2>1. Made' \in 0 .. Len(acc) /\ serving'.todo = SubSeq(acc, Made' + 1, Len(acc))
    BY <1>1, <1>6, <1>7, <1>8
  <2>2. CASE /\ r[1] = 7 /\ releasedFor' = <<>>
             /\ \A p \in 1 .. Len(a) : p <= r[2] + (m + 1) => bram'[p] = a[p]
    BY <1>1, <1>3, <1>8, <2>1, <2>2 DEF ServingIsOrdered, Full, acc
  <2>3. CASE r[1] = 8 /\ UNCHANGED <<bram, releasedFor>>
    <3>1. Late(r, a)
      BY <1>3, <2>3, RequestShape
    <3>2. Full(a, Before(r, a)) /\ releasedFor = <<>>
      BY <1>3, <2>3, <3>1
    <3> QED
      BY <1>1, <1>3, <1>8, <2>1, <2>3, <3>1, <3>2 DEF ServingIsOrdered, Full, acc
  <2>4. CASE /\ r[1] = 9 /\ bram' = bram /\ Len(acc) = 1
             /\ (r # M3Control(1) \/ a = <<>>) => releasedFor' = <<>>
    <3>1. m = 0
      <4>1. \A n \in Nat : n < 1 => n = 0
        OBVIOUS
      <4> QED
        BY <1>5, <1>6, <2>4, <4>1
    <3>2. serving'.todo = <<>>
      <4>1. SubSeq(acc, 2, 1) = <<>>
        BY SubSeqEmpty
      <4>2. (m + 1) + 1 = 2
        BY <3>1
      <4> QED
        BY <1>1, <1>7, <2>4, <4>1, <4>2
    <3>3. Late(r, a) => Full(a, Before(r, a))
      BY <1>3, <2>4
    <3>4. M3Control(1) # M3Control(0)
      BY DEF M3Control
    <3>5. ~Late(r, a) => releasedFor' = <<>>
      BY <2>4, <3>4 DEF Late
    <3>6. Late(r, a) /\ r # M3Control(1) => releasedFor' = <<>>
      BY <2>4
    <3>7. r[1] # 7
      BY <2>4
    <3>8. Late(r, a) => \A p \in 1 .. Len(a) : p <= Before(r, a) => bram'[p] = a[p]
      BY <2>4, <3>3 DEF Full
    <3> QED
      BY <1>1, <1>3, <2>1, <3>2, <3>5, <3>6, <3>7, <3>8 DEF ServingIsOrdered, Full, acc
  <2> QED
    BY <1>12, <2>2, <2>3, <2>4
<1>13. /\ r \in Requests /\ r[1] \in {7, 8, 9} /\ a \in Seq(Nat) /\ (a = <<>> \/ a \in Loadable)
       /\ bram = [i \in 1 .. BramSize |-> bram[i]]
  BY <1>3, RequestShape DEF TypeOK
<1>14. bram' = [i \in 1 .. BramSize |-> bram'[i]]
  BY AccessIs
<1>15. releasedFor' = <<>> => ReleasedImageIsWhole'
  BY <1>14, PrefixIs DEF ReleasedImageIsWhole
<1>16. CASE r[1] = 7
  <2>1. /\ a \in Loadable /\ Late(r, a) /\ r[2] \in Nat /\ Len(r) \in Nat /\ Len(r) >= 2
        /\ \A j \in 1 .. Len(r) - 2 : r[j + 2] = a[r[2] + j]
    BY <1>3, <1>16, RequestShape
  <2>2. /\ Len(acc) = Len(r) - 2
        /\ \A i \in 1 .. Len(r) - 2 : acc[i] = W("bram", r[2] + i, r[i + 2])
    BY <1>13, <1>16, <2>1, AccessesOf DEF acc
  <2>3. x = W("bram", r[2] + (m + 1), a[r[2] + (m + 1)])
    <3>1. m + 1 \in 1 .. Len(r) - 2
      BY <1>6, <2>2
    <3> QED
      BY <1>7, <2>1, <2>2, <3>1
  <2>4. /\ bram' = [bram EXCEPT ![r[2] + (m + 1)] = a[r[2] + (m + 1)]]
        /\ releasedFor' = releasedFor
    BY <1>1, <2>3 DEF W
  <2>5. releasedFor = <<>> /\ \A p \in 1 .. Len(a) : p <= r[2] + m => bram[p] = a[p]
    BY <1>3, <1>16, <2>1 DEF Full
  <2>6. ASSUME NEW p \in 1 .. Len(a), p <= r[2] + (m + 1) PROVE bram'[p] = a[p]
    <3>1. p \in 1 .. BramSize /\ p \in Nat
      <4>1. Len(a) <= BramSize /\ Len(a) \in Nat
        BY <1>13, <2>1, LenProperties DEF Loadable
      <4> QED
        BY <4>1, ControlAssumption
    <3>2. CASE p = r[2] + (m + 1)
      BY <1>13, <2>4, <3>1, <3>2
    <3>3. CASE p <= r[2] + m
      <4>1. p # r[2] + (m + 1)
        BY <1>6, <2>1, <3>1, <3>3
      <4>2. bram'[p] = bram[p]
        BY <1>13, <2>4, <3>1, <4>1
      <4> QED
        BY <2>5, <3>3, <4>2
    <3>4. p = r[2] + (m + 1) \/ p <= r[2] + m
      BY <1>6, <2>1, <2>6, <3>1
    <3> QED
      BY <3>2, <3>3, <3>4
  <2>7. ServingIsOrdered'
    BY <1>12, <1>16, <2>4, <2>5, <2>6
  <2> QED
    BY <1>10, <1>11, <1>15, <2>4, <2>5, <2>7
<1>17. CASE r[1] = 8
  <2>1. PICK n \in Nat : r = ReadM3Bram(0, n)
    BY <1>3, <1>17, RequestShape
  <2>2. Len(acc) = n /\ \A i \in 1 .. n : acc[i] = W("read", i, 0)
    BY <2>1, AccessesOf DEF acc
  <2>3. x.to = "read"
    BY <1>6, <1>7, <2>2 DEF W
  <2>4. UNCHANGED <<bram, releasedFor>>
    BY <1>1, <2>3
  <2> QED
    BY <1>10, <1>11, <1>12, <1>17, <2>4 DEF ReleasedImageIsWhole
<1>18. CASE r[1] = 9
  <2>1. PICK b \in {0, 1, 3} : r = M3Control(b) /\ Len(acc) = 1
                               /\ acc[1] = W("pl", "M3_CONTROL", b)
    BY <1>3, <1>18, AccessesAreSeq DEF acc
  <2>2. x = W("pl", "M3_CONTROL", b)
    <3>1. \A n \in Nat : n < 1 => n + 1 = 1
      OBVIOUS
    <3> QED
      BY <1>5, <1>6, <1>7, <2>1, <3>1
  <2>3. bram' = bram /\ releasedFor' = IF b % 2 = 1 THEN a ELSE <<>>
    BY <1>1, <2>2 DEF W
  <2>4. CASE Late(r, a)
    <3>1. r = M3Control(1) /\ a \in Loadable
      BY <1>3, <1>13, <1>18, <2>4, RequestShape DEF Late
    <3>2. \A p \in 1 .. Len(a) : p <= Len(a) => bram[p] = a[p]
      <4>1. M3Control(1)[1] = 9 /\ M3Control(1) # M3Control(0)
        BY DEF M3Control
      <4>2. Before(r, a) = Len(a)
        BY <3>1, <4>1 DEF Before
      <4> QED
        BY <1>3, <1>18, <2>4, <4>2 DEF Full
    <3>3. \A p \in 1 .. Len(a) : p <= Len(a)
      <4>1. Len(a) \in Nat
        BY <1>13, LenProperties
      <4> QED
        BY <4>1
    <3>4. IsPrefix(a, bram) /\ IsPrefix(<<>>, bram)
      <4>1. Len(a) <= BramSize
        <5>1. Len(a) \in 2 .. BramSize
          BY <3>1 DEF Loadable
        <5> QED
          BY <5>1, ControlAssumption
      <4> QED
        BY <1>13, <3>2, <3>3, <4>1, PrefixIs
    <3>5. ReleasedImageIsWhole'
      BY <2>3, <3>4 DEF ReleasedImageIsWhole
    <3>6. ~(r # M3Control(1) \/ a = <<>>)
      BY <2>4, <3>1 DEF Late
    <3> QED
      BY <1>10, <1>11, <1>12, <1>18, <2>1, <2>3, <3>5, <3>6
  <2>5. CASE ~Late(r, a)
    <3>1. a = <<>> \/ r = M3Control(0)
      BY <2>5 DEF Late
    <3>2. r = M3Control(0) => b = 0
      BY <2>1 DEF M3Control
    <3>3. releasedFor' = <<>>
      BY <2>3, <3>1, <3>2
    <3> QED
      BY <1>10, <1>11, <1>12, <1>15, <1>18, <2>1, <2>3, <3>3
  <2> QED
    BY <2>4, <2>5
<1> QED
  BY <1>13, <1>16, <1>17, <1>18

\* When the board has done a request, it has the words the next one builds on.
LEMMA DoneIsBeyond ==
  ASSUME NEW r, NEW a, a # <<>>, IsOf(r, a), serving.request = r, serving.image = a, Busy,
         serving.todo = <<>>, ServingIsOrdered, r # M3Control(1)
  PROVE  releasedFor = <<>> /\ Full(a, Beyond(r, a))
<1>1. Accesses(r) \in Seq(AccessSet) /\ Len(Accesses(r)) \in Nat /\ Len(<<>>) = 0
  BY AccessesAreSeq, EmptySeq
<1>2. Made = Len(Accesses(r))
  BY <1>1 DEF Made
<1>3. /\ Late(r, a) => /\ Full(a, IF r[1] = 7 THEN r[2] + Len(Accesses(r)) ELSE Before(r, a))
                       /\ releasedFor = <<>>
      /\ ~Late(r, a) => releasedFor = <<>>
  BY <1>2 DEF ServingIsOrdered
<1>4. CASE r[1] = 7
  <2>1. /\ Late(r, a) /\ r[2] \in Nat /\ Len(r) \in Nat /\ Len(r) >= 2 /\ r \in Requests
    BY <1>4, RequestShape
  <2>2. Len(Accesses(r)) = Len(r) - 2
    BY <1>4, <2>1, AccessesOf
  <2>3. r[2] + Len(Accesses(r)) = Beyond(r, a)
    BY <1>4, <2>1, <2>2 DEF Beyond
  <2> QED
    BY <1>3, <1>4, <2>1, <2>3
<1>5. CASE r[1] # 7 /\ Late(r, a)
  BY <1>3, <1>5 DEF Beyond
<1>6. CASE ~Late(r, a)
  <2>1. r = M3Control(0) /\ r[1] = 9
    BY <1>6, SmallRequests DEF Late
  <2>2. Beyond(r, a) = 0
    BY <2>1 DEF Beyond, Before
  <2>3. Full(a, 0)
    <3>1. a \in Seq(Nat)
      BY RequestShape
    <3>2. Len(a) \in Nat
      BY <3>1, LenProperties
    <3> QED
      BY <3>2 DEF Full
  <2> QED
    BY <1>3, <1>6, <2>2, <2>3
<1> QED
  BY <1>4, <1>5, <1>6

LEMMA LoadReply ==
  ASSUME TypeOK, OneIsLive, QueueIsOrdered, ServingIsOrdered, CliIsOrdered, Reply
  PROVE  QueueIsOrdered' /\ ServingIsOrdered' /\ CliIsOrdered'
<1>1. Busy /\ ~Busy' /\ serving.todo = <<>> /\ UNCHANGED <<pending, bram, releasedFor>>
  BY ReplyIs DEF Reply
<1>2. QueueIsOrdered' /\ ServingIsOrdered'
  BY <1>1 DEF QueueIsOrdered, ServingIsOrdered
<1>3. CASE ~serving.live
  <2>1. cli' = cli
    BY <1>3, ReplyIs
  <2>2. cli.left # <<>> /\ ~cli.waiting => ~Late(Head(cli.left), cli.image)
    BY <1>1 DEF CliIsOrdered
  <2>3. CliIsOrdered'
    BY <2>1, <2>2 DEF CliIsOrdered
  <2> QED
    BY <1>2, <2>3
<1>4. CASE serving.live
  <2>1. CASE cli' = Idle
    BY <1>2, <2>1 DEF CliIsOrdered, Idle
  <2>2. CASE /\ Len(cli.left) # 1 /\ cli'.left = Tail(cli.left)
             /\ cli'.image = cli.image
    <3> DEFINE a == cli.image
               l == load_m3(a)
    <3>1. /\ cli.left # <<>> /\ serving.request = Head(cli.left) /\ serving.image = a
          /\ pending = <<>>
      BY <1>4 DEF OneIsLive
    <3>2. ~\E b \in {0, 1, 3} : cli.left = <<M3Control(b)>>
      <4>1. \A b \in {0, 1, 3} : Len(<<M3Control(b)>>) = 1
        OBVIOUS
      <4> QED
        BY <2>2, <4>1
    <3>3. /\ a \in Loadable
          /\ \E k \in 1 .. Len(l) : cli.left = SubSeq(l, k, Len(l))
      BY <3>1, <3>2 DEF CliIsOrdered
    <3>4. PICK k \in 1 .. Len(l) : cli.left = SubSeq(l, k, Len(l))
      BY <3>3
    <3>5. l \in Seq(Requests) /\ Len(l) \in Nat
      BY <3>3, LoadM3Is, LenProperties
    <3>6. a # <<>>
      BY <3>3, ControlAssumption, EmptySeq DEF Loadable
    <3>7. IsOf(Head(cli.left), a)
      BY <3>1, HeadIsOf
    <3> HIDE DEF l
    <3>8. k \in 1 .. Len(l) + 1 /\ k <= Len(l)
      BY <3>5
    <3>9. Len(cli.left) = Len(l) - k + 1 /\ Head(cli.left) = l[k]
          /\ Tail(cli.left) = SubSeq(l, k + 1, Len(l))
      BY <3>4, <3>5, <3>8, SuffixIs
    <3>10. k < Len(l) /\ k + 1 \in 1 .. Len(l) /\ k + 1 \in 1 .. Len(l) + 1 /\ k + 1 <= Len(l)
      BY <2>2, <3>5, <3>9
    <3>11. Head(cli'.left) = l[k + 1]
      BY <2>2, <3>5, <3>9, <3>10, SuffixIs
    <3>12. /\ l[k] # M3Control(1)
           /\ \A p \in 1 .. Len(a) : p <= Before(l[k + 1], a) => p <= Beyond(l[k], a)
      BY <3>3, <3>10, NextIsLate DEF l
    <3> HIDE DEF a
    <3>13. releasedFor = <<>> /\ Full(a, Beyond(l[k], a))
      <4> DEFINE r == l[k]
      <4>1. IsOf(r, a) /\ serving.request = r /\ r # M3Control(1) /\ serving.image = a
        BY <3>1, <3>7, <3>9, <3>12
      <4> HIDE DEF r
      <4>2. releasedFor = <<>> /\ Full(a, Beyond(r, a))
        BY <1>1, <3>6, <4>1, DoneIsBeyond
      <4> QED
        BY <4>2 DEF r
    <3>14. \A p \in 1 .. Len(a) : p <= Before(l[k + 1], a) => bram'[p] = a[p]
      BY <1>1, <3>12, <3>13 DEF Full
    <3>15. a \in Loadable /\ cli'.image = a
           /\ \E j \in 1 .. Len(load_m3(a)) : cli'.left = SubSeq(load_m3(a), j, Len(load_m3(a)))
      BY <2>2, <3>3, <3>9, <3>10 DEF l, a
    <3>16. CliIsOrdered'
      BY <1>1, <3>1, <3>11, <3>13, <3>14, <3>15 DEF CliIsOrdered, Full
    <3> QED
      BY <1>2, <3>16
  <2> QED
    BY <1>4, <2>1, <2>2, ReplyIs
<1> QED
  BY <1>3, <1>4

\* The loading of the M3 stays in order, and a released image is whole.
LEMMA LoadStep ==
  ASSUME TypeOK, OneIsLive, LoadInv, ReleasedImageIsWhole, [ControlNext]_controlVars
  PROVE  LoadInv' /\ ReleasedImageIsWhole'
<1>1. CASE habit = "load"
  <2>1. QueueIsOrdered /\ ServingIsOrdered /\ CliIsOrdered
    BY <1>1 DEF LoadInv
  <2>2. habit' = "load"
    BY <1>1, HabitStays
  <2>3. ASSUME UNCHANGED <<bram, releasedFor>> PROVE ReleasedImageIsWhole'
    BY <2>3 DEF ReleasedImageIsWhole
  <2> SUFFICES QueueIsOrdered' /\ ServingIsOrdered' /\ CliIsOrdered' /\ ReleasedImageIsWhole'
    BY <2>2 DEF LoadInv
  <2>4. CASE Run
    BY <1>1, <2>1, <2>3, <2>4, LoadRun DEF Run, boardVars
  <2>5. CASE Send
    BY <2>1, <2>3, <2>5, LoadSend DEF Send, boardVars
  <2>6. CASE GiveUp
    BY <2>1, <2>3, <2>6, LoadGiveUp DEF GiveUp
  <2>7. CASE LoseAnswer
    BY <2>1, <2>3, <2>7, LoadLose DEF LoseAnswer, boardVars
  <2>8. CASE Serve
    BY <2>1, <2>3, <2>8, LoadServe DEF Serve
  <2>9. CASE Access
    BY <2>1, <2>9, LoadAccess
  <2>10. CASE Reply
    BY <2>1, <2>3, <2>10, LoadReply DEF Reply
  <2>11. CASE (\E c \in DOMAIN counter : Count(c)) \/ UNCHANGED controlVars
    <3>1. UNCHANGED <<cli, pending, serving, bram, releasedFor>>
      BY <2>11 DEF Count, controlVars
    <3>2. CliIsOrdered'
      BY <2>1, <3>1 DEF CliIsOrdered, Busy, Full
    <3> QED
      BY <2>1, <2>3, <3>1, <3>2, SameQueue
  <2> QED
    BY <2>4, <2>5, <2>6, <2>7, <2>8, <2>9, <2>10, <2>11 DEF ControlNext
<1>2. CASE habit # "load"
  <2>1. OthersLoadNothing'
    BY <1>2, OthersStep DEF LoadInv
  <2>2. habit' # "load"
    BY <1>2, HabitStays
  <2>3. TypeOK'
    BY TypeStep
  <2>4. ReleasedImageIsWhole'
    <3>1. releasedFor' = <<>> /\ bram' = [i \in 1 .. BramSize |-> bram'[i]]
      BY <2>1, <2>3 DEF OthersLoadNothing, TypeOK
    <3> QED
      BY <3>1, PrefixIs DEF ReleasedImageIsWhole
  <2> QED
    BY <2>1, <2>2, <2>4 DEF LoadInv
<1> QED
  BY <1>1, <1>2

-----------------------------------------------------------------------------
(***************************************************************************)
(* Reading the statistics in order                                         *)
(***************************************************************************)
LEMMA WordsOf ==
  \A l \in Nat :
    /\ l \div WordEnd \in Nat /\ l % WordEnd \in Nat /\ l % WordEnd < WordEnd
    /\ WordEnd * (l \div WordEnd) \in Nat
    /\ WordEnd * (l \div WordEnd) <= l /\ l < WordEnd * (l \div WordEnd) + WordEnd
    /\ l % WordEnd = l - WordEnd * (l \div WordEnd)
<1>1. WordEnd \in Nat \ {0}
  BY ControlAssumption
<1> SUFFICES ASSUME NEW l \in Nat
             PROVE  /\ l \div WordEnd \in Nat /\ l % WordEnd \in Nat /\ l % WordEnd < WordEnd
                    /\ WordEnd * (l \div WordEnd) \in Nat
                    /\ WordEnd * (l \div WordEnd) <= l /\ l < WordEnd * (l \div WordEnd) + WordEnd
                    /\ l % WordEnd = l - WordEnd * (l \div WordEnd)
  OBVIOUS
<1>2. l \div WordEnd \in Nat /\ l % WordEnd \in 0 .. WordEnd - 1
  BY <1>1
<1>3. WordEnd * (l \div WordEnd) <= l /\ l < WordEnd * (l \div WordEnd) + WordEnd
  BY <1>1
<1>4. l % WordEnd = l - WordEnd * (l \div WordEnd)
  BY <1>1
<1>5. \A n \in Nat : WordEnd * n \in Nat
  BY <1>1
<1> QED
  BY <1>1, <1>2, <1>3, <1>4, <1>5

LEMMA HighWordGrows == \A l, h \in Nat : l <= h => l \div WordEnd <= h \div WordEnd
<1> SUFFICES ASSUME NEW l \in Nat, NEW h \in Nat, l <= h, ~(l \div WordEnd <= h \div WordEnd)
             PROVE  FALSE
  OBVIOUS
<1> DEFINE p == l \div WordEnd
           q == h \div WordEnd
<1>1. /\ p \in Nat /\ q \in Nat /\ WordEnd * p <= l /\ h < WordEnd * q + WordEnd
      /\ WordEnd * p \in Nat /\ WordEnd * q \in Nat
  BY WordsOf
<1> HIDE DEF p, q
<1>2. q + 1 <= p
  BY <1>1 DEF p, q
<1>3. WordEnd \in Nat
  BY ControlAssumption
<1>4. WordEnd * (q + 1) <= WordEnd * p
  BY <1>1, <1>2, <1>3
<1>5. WordEnd * (q + 1) = WordEnd * q + WordEnd
  BY <1>1, <1>3
<1> QED
  BY <1>1, <1>3, <1>4, <1>5

\* A low word and the high word of a later moment.
LEMMA LowThenHigh ==
  ASSUME NEW b \in Nat, NEW low \in Nat, NEW high \in Nat, NEW after \in Nat,
         b <= low, low <= high, high <= after
  PROVE  LET v == (low % WordEnd) + WordEnd * (high \div WordEnd) IN
         /\ b <= v
         /\ \/ v <= after
            \/ b \div WordEnd # after \div WordEnd /\ v < after + WordEnd
<1> DEFINE p == low \div WordEnd
           q == high \div WordEnd
           s == low % WordEnd
<1>1. /\ p \in Nat /\ q \in Nat /\ s \in Nat /\ s < WordEnd /\ WordEnd * q \in Nat
      /\ WordEnd * p \in Nat /\ s = low - WordEnd * p /\ WordEnd * q <= high
  BY WordsOf
<1>2. p <= q /\ b \div WordEnd <= p /\ q <= after \div WordEnd
      /\ b \div WordEnd \in Nat /\ after \div WordEnd \in Nat
  BY HighWordGrows, WordsOf
<1>3. WordEnd \in Nat
  BY ControlAssumption
<1> HIDE DEF p, q, s
<1>4. WordEnd * p <= WordEnd * q
  BY <1>1, <1>2, <1>3
<1>5. b <= s + WordEnd * q
  BY <1>1, <1>4
<1>6. CASE p = q
  <2>1. s + WordEnd * q <= after
    BY <1>1, <1>6
  <2> QED
    BY <1>5, <2>1 DEF q, s
<1>7. CASE p # q
  <2>1. b \div WordEnd # after \div WordEnd
    BY <1>1, <1>2, <1>7
  <2>2. s + WordEnd * q < after + WordEnd
    BY <1>1, <1>3
  <2> QED
    BY <1>5, <2>1, <2>2 DEF q, s
<1> QED
  BY <1>6, <1>7

LEMMA CounterOf ==
  \A i \in 1 .. Len(Counters) : Counters[i] \in Range(Counters)
<1>1. DOMAIN Counters = 1 .. Len(Counters)
  BY ControlAssumption, LenProperties
<1> QED
  BY <1>1 DEF Range

LEMMA InitRead == ControlInit => ReadInOrder /\ StatsNearTheTruth
  BY DEF ControlInit, ReadInOrder, StatsNearTheTruth, Busy

\* The access that is next reads a half of a counter.
LEMMA NextHalf ==
  ASSUME TypeOK, ReadInOrder, Access, serving.request[1] = 6
  PROVE  LET j == Len(serving.answer) + 1
             c == Counters[(j + 1) \div 2]
             v == IF j % 2 = 1 THEN counter[c] % WordEnd ELSE counter[c] \div WordEnd IN
         /\ j \in 1 .. 2 * Len(Counters) /\ v \in Nat
         /\ serving'.answer = serving.answer \o <<v>>
         /\ serving'.todo = SubSeq(Accesses(serving.request), j + 1, 2 * Len(Counters))
<1> DEFINE n == 2 * Len(Counters)
           acc == Accesses(serving.request)
           j == Len(serving.answer) + 1
           c == Counters[(j + 1) \div 2]
           v == IF j % 2 = 1 THEN counter[c] % WordEnd ELSE counter[c] \div WordEnd
           x == Head(serving.todo)
<1>1. /\ Busy /\ serving.todo # <<>> /\ serving'.todo = Tail(serving.todo)
      /\ serving'.answer = serving.answer \o ReadOut(x)
  <2>1. /\ Busy /\ serving.todo # <<>>
        /\ serving' = [live |-> serving.live, request |-> serving.request,
                       image |-> serving.image, todo |-> Tail(serving.todo),
                       answer |-> serving.answer \o ReadOut(x), before |-> serving.before]
    BY AccessIs
  <2> HIDE DEF x
  <2> QED
    BY <2>1
<1>2. /\ serving.answer \in Seq(Nat) /\ Len(serving.answer) <= n
      /\ serving.todo = SubSeq(acc, j, n)
  BY <1>1 DEF ReadInOrder
<1>3. Len(serving.answer) \in Nat /\ Len(Counters) \in Nat /\ n \in Nat
  BY <1>2, ControlAssumption, LenProperties
<1>4. /\ acc \in Seq(AccessSet) /\ Len(acc) = n
      /\ \A i \in 1 .. n : acc[i] = CounterHalf(i)
  BY AccessesOf
<1> HIDE DEF acc, x
<1>5. j \in 1 .. n + 1 /\ j \in Nat
  BY <1>2, <1>3
<1> HIDE DEF n, j
<1>6. j # n + 1
  <2> SUFFICES ASSUME j = n + 1 PROVE FALSE
    OBVIOUS
  <2>1. SubSeq(acc, j, n) = <<>>
    BY <1>4, <1>5, SuffixIs
  <2> QED
    BY <1>1, <1>2, <2>1
<1>7. j \in 1 .. n /\ j <= n
  BY <1>3, <1>5, <1>6
<1>8. x = acc[j] /\ serving'.todo = SubSeq(acc, j + 1, n)
  BY <1>1, <1>2, <1>4, <1>5, <1>7, SuffixIs DEF x
<1>9. x = W("counter", c, IF j % 2 = 1 THEN "LO" ELSE "HI")
  BY <1>4, <1>7, <1>8 DEF CounterHalf
<1>10. counter[c] \in Nat
  <2>1. (j + 1) \div 2 \in 1 .. Len(Counters)
    BY <1>3, <1>7 DEF n
  <2>2. c \in Range(Counters)
    BY <2>1, CounterOf
  <2> QED
    BY <2>2 DEF TypeOK
<1>11. v \in Nat
  BY <1>10, WordsOf
<1>12. ReadOut(x) = <<v>>
  BY <1>9 DEF ReadOut, W
<1> QED
  BY <1>1, <1>7, <1>8, <1>11, <1>12 DEF acc, n, j

LEMMA ReadAccess ==
  ASSUME TypeOK, ReadInOrder, Access
  PROVE  ReadInOrder'
<1>1. /\ Busy /\ counter' = counter
      /\ serving'.request = serving.request /\ serving'.before = serving.before
  <2>1. /\ Busy
        /\ serving' = [live |-> serving.live, request |-> serving.request,
                       image |-> serving.image, todo |-> Tail(serving.todo),
                       answer |-> serving.answer \o ReadOut(Head(serving.todo)),
                       before |-> serving.before]
    BY AccessIs
  <2> QED
    BY <2>1 DEF Access
<1> SUFFICES ASSUME serving.request[1] = 6 PROVE ReadInOrder'
  BY <1>1 DEF ReadInOrder
<1> DEFINE w == serving.answer
           j == Len(w) + 1
           c == Counters[(j + 1) \div 2]
           v == IF j % 2 = 1 THEN counter[c] % WordEnd ELSE counter[c] \div WordEnd
<1>2. /\ w \in Seq(Nat) /\ \A i \in 1 .. Len(Counters) : Seen(i)
  BY <1>1 DEF ReadInOrder
<1>3. /\ j \in 1 .. 2 * Len(Counters) /\ v \in Nat
      /\ serving'.answer = w \o <<v>>
      /\ serving'.todo = SubSeq(Accesses(serving.request), j + 1, 2 * Len(Counters))
  BY NextHalf
<1>4. Len(w) \in Nat /\ j \in Nat /\ Len(Counters) \in Nat
  BY <1>2, ControlAssumption, LenProperties
<1> HIDE DEF w, v
<1>5. /\ w \o <<v>> \in Seq(Nat) /\ Len(w \o <<v>>) = j
      /\ \A i \in 1 .. Len(w) : (w \o <<v>>)[i] = w[i]
      /\ (w \o <<v>>)[j] = v
  <2>1. w \o <<v>> = Append(w, v)
    BY <1>2, <1>3, AppendIsConcat
  <2>2. /\ Append(w, v) \in Seq(Nat) /\ Len(Append(w, v)) = Len(w) + 1
        /\ \A i \in 1 .. Len(w) : Append(w, v)[i] = w[i]
        /\ Append(w, v)[Len(w) + 1] = v
    BY <1>2, <1>3, AppendProperties
  <2> QED
    BY <2>1, <2>2
<1> DEFINE u == serving'.answer
<1>6. /\ u \in Seq(Nat) /\ Len(u) = j /\ (\A i \in 1 .. Len(w) : u[i] = w[i]) /\ u[j] = v
  BY <1>3, <1>5
<1> HIDE DEF u
<1>7. j = Len(w) + 1
  OBVIOUS
<1> HIDE DEF j
<1>8. ASSUME NEW i \in 1 .. Len(Counters)
      PROVE  LET d == Counters[i] IN
             \E low, high \in serving.before[d] .. counter[d] :
               /\ low <= high
               /\ 2 * i - 1 <= Len(u) => u[2 * i - 1] = low % WordEnd
               /\ 2 * i <= Len(u) => u[2 * i] = high \div WordEnd
  <2> DEFINE d == Counters[i]
  <2>1. /\ serving.before[d] \in Nat /\ counter[d] \in Nat
    BY <1>1, CounterOf DEF TypeOK
  <2>2. PICK low, high \in serving.before[d] .. counter[d] :
          /\ low <= high
          /\ 2 * i - 1 <= Len(w) => w[2 * i - 1] = low % WordEnd
          /\ 2 * i <= Len(w) => w[2 * i] = high \div WordEnd
    BY <1>2 DEF Seen, w
  <2> HIDE DEF d
  <2>3. /\ 2 * i - 1 \in Nat \ {0} /\ 2 * i \in Nat \ {0}
        /\ counter[d] \in serving.before[d] .. counter[d]
    BY <2>1, <2>2
  <2>4. CASE j = 2 * i - 1
    <3>1. j % 2 = 1 /\ (j + 1) \div 2 = i /\ ~(2 * i <= Len(u))
      <4>1. \A n \in Nat : (2 * n - 1) % 2 = 1 /\ ((2 * n - 1) + 1) \div 2 = n /\ ~(2 * n <= 2 * n - 1)
        OBVIOUS
      <4>2. i \in Nat
        OBVIOUS
      <4> QED
        BY <1>6, <2>4, <4>1, <4>2
    <3>2. u[2 * i - 1] = counter[d] % WordEnd
      BY <1>6, <2>4, <3>1 DEF v, d
    <3>3. /\ counter[d] <= counter[d]
          /\ 2 * i - 1 <= Len(u) => u[2 * i - 1] = counter[d] % WordEnd
          /\ 2 * i <= Len(u) => u[2 * i] = counter[d] \div WordEnd
      BY <2>1, <3>1, <3>2
    <3> QED
      BY <2>3, <3>3 DEF d
  <2>5. CASE j = 2 * i
    <3>1. j % 2 = 0 /\ (j + 1) \div 2 = i /\ 2 * i - 1 \in 1 .. Len(w) /\ 2 * i - 1 <= Len(w)
      <4>1. \A n \in Nat : (2 * n) % 2 = 0 /\ (2 * n + 1) \div 2 = n
        OBVIOUS
      <4>2. i \in Nat
        OBVIOUS
      <4>3. 2 * i - 1 = Len(w)
        BY <1>4, <1>7, <2>3, <2>5
      <4> QED
        BY <1>4, <2>3, <2>5, <4>1, <4>2, <4>3
    <3>2. u[2 * i] = counter[d] \div WordEnd
      BY <1>6, <2>5, <3>1 DEF v, d
    <3>3. u[2 * i - 1] = low % WordEnd
      BY <1>6, <2>2, <3>1
    <3>4. low <= counter[d]
      BY <2>1, <2>2
    <3> QED
      BY <2>2, <2>3, <3>2, <3>3, <3>4 DEF d
  <2>6. CASE j # 2 * i - 1 /\ j # 2 * i
    <3>1. /\ 2 * i - 1 <= Len(u) => 2 * i - 1 \in 1 .. Len(w) /\ 2 * i - 1 <= Len(w)
          /\ 2 * i <= Len(u) => 2 * i \in 1 .. Len(w) /\ 2 * i <= Len(w)
      <4>1. \A k \in Nat \ {0} : k <= j /\ k # j => k \in 1 .. Len(w) /\ k <= Len(w)
        BY <1>4, <1>7
      <4> QED
        BY <1>6, <2>3, <2>6, <4>1
    <3>2. /\ 2 * i - 1 <= Len(u) => u[2 * i - 1] = low % WordEnd
          /\ 2 * i <= Len(u) => u[2 * i] = high \div WordEnd
      BY <1>6, <2>2, <3>1
    <3> QED
      BY <2>2, <3>2 DEF d
  <2> QED
    BY <2>4, <2>5, <2>6
<1>9. Len(u) <= 2 * Len(Counters)
  BY <1>3, <1>6
<1>10. \A i \in 1 .. Len(Counters) : Seen(i)'
  BY <1>1, <1>8 DEF Seen, u
<1>11. serving'.todo = SubSeq(Accesses(serving'.request), Len(u) + 1, 2 * Len(Counters))
  BY <1>1, <1>3, <1>6
<1> QED
  BY <1>6, <1>9, <1>10, <1>11 DEF ReadInOrder, u

LEMMA ReadServe ==
  ASSUME TypeOK, Serve
  PROVE  ReadInOrder'
<1> SUFFICES ASSUME Busy', serving'.request[1] = 6 PROVE ReadInOrder'
  BY DEF ReadInOrder
<1> DEFINE r == pending[1].request
<1>1. serving' = [live |-> pending[1].live, request |-> r, image |-> pending[1].image,
                  todo |-> Accesses(r), answer |-> <<>>, before |-> counter]
  BY ServeIs
<1>2. counter' = counter
  BY DEF Serve
<1> HIDE DEF r
<1>3. serving'.request = r /\ serving'.todo = Accesses(r) /\ serving'.answer = <<>>
      /\ serving'.before = counter
  BY <1>1
<1>4. Accesses(r) \in Seq(AccessSet) /\ Len(Accesses(r)) = 2 * Len(Counters)
  BY <1>3, AccessesOf
<1>5. Len(Counters) \in Nat /\ <<>> \in Seq(Nat) /\ Len(<<>>) = 0
  BY ControlAssumption, LenProperties, EmptySeq
<1>6. SubSeq(Accesses(r), 0 + 1, 2 * Len(Counters)) = Accesses(r)
  BY <1>4, SubSeqFull
<1>7. ASSUME NEW i \in 1 .. Len(Counters) PROVE Seen(i)'
  <2>1. counter[Counters[i]] \in Nat
    BY CounterOf DEF TypeOK
  <2>2. ~(2 * i - 1 <= 0) /\ ~(2 * i <= 0)
    BY <1>5
  <2>3. counter[Counters[i]] \in counter[Counters[i]] .. counter[Counters[i]]
    BY <2>1
  <2> QED
    BY <1>2, <1>3, <1>5, <2>1, <2>2, <2>3 DEF Seen
<1>8. Len(serving'.answer) <= 2 * Len(Counters)
  BY <1>3, <1>5
<1> QED
  BY <1>3, <1>5, <1>6, <1>7, <1>8 DEF ReadInOrder

LEMMA ReadCount ==
  ASSUME TypeOK, ReadInOrder, \E c \in DOMAIN counter : Count(c)
  PROVE  ReadInOrder'
<1>1. PICK c \in DOMAIN counter : Count(c)
  OBVIOUS
<1>2. serving' = serving /\ counter' = [counter EXCEPT ![c] = @ + 1] /\ Busy
  BY <1>1 DEF Count, Busy
<1> SUFFICES ASSUME serving.request[1] = 6 PROVE ReadInOrder'
  BY <1>2 DEF ReadInOrder
<1>3. ASSUME NEW i \in 1 .. Len(Counters) PROVE Seen(i)'
  <2> DEFINE d == Counters[i]
  <2>1. d \in Range(Counters) /\ serving.before[d] \in Nat /\ counter[d] \in Nat
    BY <1>2, CounterOf DEF TypeOK
  <2>2. counter'[d] \in Nat /\ counter[d] <= counter'[d]
    BY <1>2, <2>1 DEF TypeOK
  <2>3. serving.before[d] .. counter[d] \subseteq serving.before[d] .. counter'[d]
    BY <2>1, <2>2
  <2>4. Seen(i)
    BY <1>2 DEF ReadInOrder
  <2> QED
    BY <1>2, <2>3, <2>4 DEF Seen
<1> QED
  BY <1>2, <1>3 DEF ReadInOrder

LEMMA ReadStep ==
  ASSUME TypeOK, ReadInOrder, [ControlNext]_controlVars
  PROVE  ReadInOrder'
<1>1. ASSUME UNCHANGED <<serving, counter>> PROVE ReadInOrder'
  BY <1>1 DEF ReadInOrder, Seen, Busy
<1>2. CASE Run \/ Send \/ LoseAnswer \/ UNCHANGED controlVars
  BY <1>1, <1>2 DEF Run, Send, LoseAnswer, boardVars, controlVars
<1>3. CASE GiveUp
  <2>1. /\ Busy' <=> Busy
        /\ Busy => /\ serving'.request = serving.request /\ serving'.todo = serving.todo
                   /\ serving'.answer = serving.answer /\ serving'.before = serving.before
    BY <1>3, GiveUpIs
  <2>2. counter' = counter
    BY <1>3 DEF GiveUp
  <2> QED
    BY <2>1, <2>2 DEF ReadInOrder, Seen
<1>4. CASE Reply
  BY <1>4 DEF Reply, ReadInOrder, Busy
<1> QED
  BY <1>2, <1>3, <1>4, ReadAccess, ReadServe, ReadCount DEF ControlNext

LEMMA StatsReply ==
  ASSUME TypeOK, OneIsLive, ReadInOrder, StatsNearTheTruth, Reply
  PROVE  StatsNearTheTruth'
<1> SUFFICES ASSUME serving.live, serving.request[1] = 6 PROVE StatsNearTheTruth'
  BY ReplyIs DEF StatsNearTheTruth
<1>1. /\ Busy /\ serving.todo = <<>>
      /\ report' = [live |-> TRUE, value |-> Stats(serving.answer),
                    before |-> serving.before, after |-> counter]
  BY ReplyIs
<1> DEFINE w == serving.answer
           n == 2 * Len(Counters)
           acc == Accesses(serving.request)
<1>2. /\ w \in Seq(Nat) /\ Len(w) <= n /\ SubSeq(acc, Len(w) + 1, n) = <<>>
      /\ \A i \in 1 .. Len(Counters) : Seen(i)
  BY <1>1 DEF ReadInOrder
<1>3. Len(w) \in Nat /\ Len(Counters) \in Nat
  BY <1>2, ControlAssumption, LenProperties
<1>4. Len(w) = n
  <2>1. acc \in Seq(AccessSet) /\ Len(acc) = n
    BY AccessesOf
  <2> HIDE DEF acc, w
  <2>2. Len(w) + 1 \in 1 .. n + 1
    BY <1>2, <1>3
  <2>3. ~(Len(w) + 1 <= n)
    BY <1>2, <2>1, <2>2, SuffixIs
  <2> QED
    BY <1>2, <1>3, <2>3
<1>5. ASSUME NEW i \in 1 .. Len(Counters)
      PROVE  LET v == Stats(w)[i]
                 b == serving.before[Counters[i]]
                 after == counter[Counters[i]] IN
             /\ b <= v
             /\ \/ v <= after
                \/ b \div WordEnd # after \div WordEnd /\ v < after + WordEnd
  <2> DEFINE d == Counters[i]
  <2>1. /\ serving.before[d] \in Nat /\ counter[d] \in Nat
    BY <1>1, CounterOf DEF TypeOK
  <2>2. 2 * i - 1 <= Len(w) /\ 2 * i <= Len(w)
    BY <1>3, <1>4
  <2>3. PICK low, high \in serving.before[d] .. counter[d] :
          low <= high /\ w[2 * i - 1] = low % WordEnd /\ w[2 * i] = high \div WordEnd
    BY <1>2, <2>2 DEF Seen
  <2>4. Stats(w)[i] = (low % WordEnd) + WordEnd * (high \div WordEnd)
    BY <2>3 DEF Stats
  <2>5. /\ low \in Nat /\ high \in Nat /\ serving.before[d] <= low /\ high <= counter[d]
    BY <2>1, <2>3
  <2> HIDE DEF w
  <2> QED
    BY <2>1, <2>3, <2>4, <2>5, LowThenHigh
<1>6. DOMAIN Stats(w) = 1 .. Len(Counters)
  BY DEF Stats
<1>7. /\ report'.value = Stats(w) /\ report'.before = serving.before /\ report'.after = counter
  BY <1>1
<1> QED
  BY <1>5, <1>6, <1>7 DEF StatsNearTheTruth

LEMMA StatsStep ==
  ASSUME TypeOK, OneIsLive, ReadInOrder, StatsNearTheTruth, [ControlNext]_controlVars
  PROVE  StatsNearTheTruth'
<1>1. ASSUME report' = report \/ report' = Nothing PROVE StatsNearTheTruth'
  BY <1>1 DEF StatsNearTheTruth
<1>2. CASE Reply
  BY <1>2, StatsReply
<1>3. CASE ~Reply
  BY <1>1, <1>3 DEF ControlNext, Run, Send, GiveUp, LoseAnswer, Serve, Access, Count,
                    boardVars, controlVars
<1> QED
  BY <1>2, <1>3

-----------------------------------------------------------------------------
(***************************************************************************)
(* Following the source with the CoreSight set-up                          *)
(***************************************************************************)
CoreOf(source) == IF source = 1 THEN "r5" ELSE "a53"
Follows == pl.source \in {1, 2} => Delivers(CoreOf(pl.source))

ConfigurationSet(core) == {Configuration(core)[i] : i \in 1 .. 13}

CoreSightType ==
  /\ coresight = [open |-> coresight.open, inputs |-> coresight.inputs,
                  locked |-> coresight.locked, on |-> coresight.on,
                  programmed |-> coresight.programmed, stopped |-> coresight.stopped,
                  flushed |-> coresight.flushed, formatter |-> coresight.formatter]
  /\ coresight.inputs = [f \in Funnel |-> coresight.inputs[f]]
  /\ coresight.programmed = [c \in Core |-> coresight.programmed[c]]
  /\ \A c \in Core : coresight.programmed[c] \subseteq ConfigurationSet(c)

Unlocks(core) == <<core, "rpu", "apu", "system", "tpiu">>

\* What the first k accesses of a Configure have brought about, whatever state
\* they found.
SetUp(core, k) ==
  /\ \A i \in 1 .. 5 : i <= k => Unlocks(core)[i] \in coresight.open
  /\ \A i \in 1 .. 3 : 5 + i <= k => coresight.inputs[Route(core)[i].to] = Route(core)[i].value
  /\ 9 <= k => core \notin coresight.locked
  /\ 10 <= k /\ k <= 23 => core \notin coresight.on
  /\ \A i \in 1 .. 13 : 10 + i <= k => Configuration(core)[i] \in coresight.programmed[core]
  /\ 24 <= k => core \in coresight.on
  /\ k = 26 => coresight.stopped = TRUE /\ coresight.flushed = TRUE
  /\ k = 27 => coresight.stopped = FALSE /\ coresight.formatter = "framing"

\* The other accesses leave the CoreSight alone, and set no source but the wire.
QuietAccess ==
  [to : {"bram", "read", "counter"}, register : Nat \cup STRING, value : Nat \cup {"LO", "HI"}]
  \cup [to : {"pl"}, register : {"CONTROL", "M3_CONTROL", "SWO_BAUD"}, value : Nat]
  \cup {W("pl", "SOURCE_FORMAT", <<0, 2>>)}

\* The requests that occur: a Configure that is not refused is one of three.
Known == {r \in Requests : r[1] = 2 /\ Len(r) = 4 => \E s \in 0 .. 2 : r = Configure(s, 2, 1)}

\* Either the board is in the midst of a Configure that starts a trace unit, and
\* has come so far; or the unit of the current source delivers.
SetUpInv ==
  /\ CoreSightType
  /\ pl = [source |-> pl.source, format |-> pl.format, baud |-> pl.baud,
           running |-> pl.running, m3 |-> pl.m3]
  /\ ~Busy => Follows
  /\ Busy =>
       \/ \E s \in {1, 2}, k \in 0 .. 27 :
            /\ serving.todo = SubSeq(Accesses(Configure(s, 2, 1)), k + 1, 29)
            /\ SetUp(CoreOf(s), k)
       \/ serving.todo \in Seq(QuietAccess) /\ Follows

OnlyKnown == cli.left \in Seq(Known) /\ \A i \in 1 .. Len(pending) : pending[i].request \in Known

-----------------------------------------------------------------------------
(***************************************************************************)
(* The accesses of a Configure                                             *)
(***************************************************************************)
IsTuple(s, n) == s = [i \in 1 .. n |-> s[i]]

\* A name keeps the concatenation out of the provers' sight.
Joined(s, t) == s \o t

LEMMA JoinAt ==
  ASSUME NEW s, NEW t, NEW m \in Nat, NEW n \in Nat, IsTuple(s, m), IsTuple(t, n)
  PROVE  LET u == Joined(s, t) IN
         /\ IsTuple(u, m + n)
         /\ \A i \in 1 .. m : u[i] = s[i]
         /\ \A i \in 1 .. n : u[m + i] = t[i]
<1> DEFINE S == {s[i] : i \in 1 .. m} \cup {t[i] : i \in 1 .. n}
           u == Joined(s, t)
<1>1. s \in Seq(S) /\ Len(s) = m
  <2>1. s = [i \in 1 .. m |-> s[i]] /\ \A i \in 1 .. m : s[i] \in S
    BY DEF IsTuple
  <2> HIDE DEF S
  <2> QED
    BY <2>1
<1>2. t \in Seq(S) /\ Len(t) = n
  <2>1. t = [i \in 1 .. n |-> t[i]] /\ \A i \in 1 .. n : t[i] \in S
    BY DEF IsTuple
  <2> HIDE DEF S
  <2> QED
    BY <2>1
<1> HIDE DEF S
<1>3. /\ u \in Seq(S) /\ Len(u) = m + n
      /\ \A i \in 1 .. m + n : u[i] = IF i <= m THEN s[i] ELSE t[i - m]
  BY <1>1, <1>2, ConcatProperties DEF Joined
<1> HIDE DEF u
<1>4. IsTuple(u, m + n)
  BY <1>3, LenProperties DEF IsTuple
<1>5. \A i \in 1 .. n : m + i \in 1 .. m + n /\ ~(m + i <= m) /\ m + i - m = i
  OBVIOUS
<1>6. \A i \in 1 .. m : i \in 1 .. m + n /\ i <= m
  OBVIOUS
<1> QED
  BY <1>3, <1>4, <1>5, <1>6 DEF u

LEMMA ConfigureIs ==
  ASSUME NEW s \in {1, 2}
  PROVE  LET core == CoreOf(s)
             a == Accesses(Configure(s, 2, 1)) IN
         /\ IsTuple(a, 29)
         /\ \A i \in 1 .. 5 : a[i] = W(Unlocks(core)[i], "LAR", 0)
         /\ \A i \in 1 .. 3 : a[5 + i] = Route(core)[i]
         /\ a[9] = W(core, "TRCOSLAR", 0) /\ a[10] = W(core, "TRCPRGCTLR", 0)
         /\ \A i \in 1 .. 13 :
              a[10 + i] = W(core, Configuration(core)[i][1], Configuration(core)[i][2])
         /\ a[24] = W(core, "TRCPRGCTLR", 1)
         /\ \A i \in 1 .. 3 : a[24 + i] = enable_tpiu_formatter[i]
         /\ a[28] = W("pl", "SOURCE_FORMAT", <<s, 2>>) /\ a[29] = W("pl", "SWO_BAUD", 1)
<1> DEFINE core == CoreOf(s)
           a == Accesses(Configure(s, 2, 1))
           c == Configuration(core)
           unlock == [i \in 1 .. 5 |-> W(Unlocks(core)[i], "LAR", 0)]
           off == <<W(core, "TRCOSLAR", 0), W(core, "TRCPRGCTLR", 0)>>
           config == [i \in 1 .. 13 |-> W(core, c[i][1], c[i][2])]
           on == <<W(core, "TRCPRGCTLR", 1)>>
           source == <<W("pl", "SOURCE_FORMAT", <<s, 2>>), W("pl", "SWO_BAUD", 1)>>
<1>1. DOMAIN c = 1 .. 13
  BY DEF Configuration
<1>2. select(core) = unlock \o Route(core)
  BY DEF select, Unlocks
<1>3. enable_trace(core) = off \o config \o on \o enable_tpiu_formatter
  BY <1>1 DEF enable_trace
<1>4. a = (select(core) \o enable_trace(core)) \o source
  <2>1. CoreSightOf(s) = select(core) \o enable_trace(core)
    BY DEF CoreSightOf, CoreOf
  <2>2. Configure(s, 2, 1)[1] = 2 /\ Configure(s, 2, 1)[2] = s /\ Configure(s, 2, 1)[3] = 2
        /\ Configure(s, 2, 1)[4] = 1
    BY DEF Configure
  <2> HIDE DEF core
  <2>3. \A r : r[1] = 2 => Accesses(r) = CoreSightOf(r[2]) \o
                     <<W("pl", "SOURCE_FORMAT", <<r[2], r[3]>>), W("pl", "SWO_BAUD", r[4])>>
    BY DEF Accesses
  <2> QED
    BY <2>1, <2>2, <2>3
<1>5. IsTuple(unlock, 5) /\ IsTuple(config, 13)
  BY DEF IsTuple
<1>6. IsTuple(Route(core), 3)
  BY DEF IsTuple, Route
<1>7. IsTuple(off, 2) /\ IsTuple(on, 1) /\ IsTuple(source, 2)
  BY DEF IsTuple
<1>8. IsTuple(enable_tpiu_formatter, 3)
  BY DEF IsTuple, enable_tpiu_formatter
<1>9. /\ \A i \in 1 .. 5 : unlock[i] = W(Unlocks(core)[i], "LAR", 0)
      /\ \A i \in 1 .. 13 : config[i] = W(core, c[i][1], c[i][2])
  OBVIOUS
<1>10. off[1] = W(core, "TRCOSLAR", 0) /\ off[2] = W(core, "TRCPRGCTLR", 0)
       /\ on[1] = W(core, "TRCPRGCTLR", 1)
       /\ source[1] = W("pl", "SOURCE_FORMAT", <<s, 2>>) /\ source[2] = W("pl", "SWO_BAUD", 1)
  OBVIOUS
<1> HIDE DEF unlock, off, config, on, source
<1> DEFINE first == select(core)
           second == off \o config
           third == second \o on
           fourth == third \o enable_tpiu_formatter
           all == first \o fourth
<1>10a. /\ first = unlock \o Route(core) /\ second = off \o config /\ third = second \o on
        /\ fourth = third \o enable_tpiu_formatter /\ all = first \o fourth
  BY <1>2, Zenon
<1>10b. a = all \o source
  BY <1>3, <1>4
<1> HIDE DEF first, second, third, fourth, all, a
<1>11. /\ IsTuple(first, 8)
       /\ \A i \in 1 .. 5 : first[i] = unlock[i]
       /\ \A i \in 1 .. 3 : first[5 + i] = Route(core)[i]
  <2>1. /\ IsTuple(first, 8)
        /\ \A i \in 1 .. 5 : first[i] = unlock[i]
        /\ \A i \in 1 .. 3 : first[5 + i] = Route(core)[i]
    <3>1. 8 = 5 + 3 /\ 5 \in Nat /\ 3 \in Nat
      OBVIOUS
    <3>2. first = Joined(unlock, Route(core))
      BY <1>10a DEF Joined
    <3> QED
      BY <1>5, <1>6, <3>1, <3>2, JoinAt
  <2> QED
    BY <2>1
<1>12. /\ IsTuple(second, 15) /\ second[1] = off[1] /\ second[2] = off[2]
       /\ \A i \in 1 .. 13 : second[2 + i] = config[i]
  <2>1. /\ IsTuple(second, 15)
        /\ \A i \in 1 .. 2 : second[i] = off[i]
        /\ \A i \in 1 .. 13 : second[2 + i] = config[i]
    <3>1. 15 = 2 + 13 /\ 2 \in Nat /\ 13 \in Nat
      OBVIOUS
    <3>2. second = Joined(off, config)
      BY <1>10a DEF Joined
    <3> QED
      BY <1>5, <1>7, <3>1, <3>2, JoinAt
  <2> QED
    BY <2>1
<1>13. /\ IsTuple(third, 16) /\ \A i \in 1 .. 15 : third[i] = second[i]
       /\ third[16] = on[1]
  <2>1. /\ IsTuple(third, 16)
        /\ \A i \in 1 .. 15 : third[i] = second[i]
        /\ \A i \in 1 .. 1 : third[15 + i] = on[i]
    <3>1. 16 = 15 + 1 /\ 15 \in Nat /\ 1 \in Nat
      OBVIOUS
    <3>2. third = Joined(second, on)
      BY <1>10a DEF Joined
    <3> QED
      BY <1>7, <1>12, <3>1, <3>2, JoinAt
  <2> QED
    BY <2>1
<1>14. /\ IsTuple(fourth, 19) /\ \A i \in 1 .. 16 : fourth[i] = third[i]
       /\ \A i \in 1 .. 3 : fourth[16 + i] = enable_tpiu_formatter[i]
  <2>1. /\ IsTuple(fourth, 19)
        /\ \A i \in 1 .. 16 : fourth[i] = third[i]
        /\ \A i \in 1 .. 3 : fourth[16 + i] = enable_tpiu_formatter[i]
    <3>1. 19 = 16 + 3 /\ 16 \in Nat /\ 3 \in Nat
      OBVIOUS
    <3>2. fourth = Joined(third, enable_tpiu_formatter)
      BY <1>10a DEF Joined
    <3> QED
      BY <1>8, <1>13, <3>1, <3>2, JoinAt
  <2> QED
    BY <2>1
<1>15. /\ IsTuple(all, 27) /\ \A i \in 1 .. 8 : all[i] = first[i]
       /\ \A i \in 1 .. 19 : all[8 + i] = fourth[i]
  <2>1. /\ IsTuple(all, 27)
        /\ \A i \in 1 .. 8 : all[i] = first[i]
        /\ \A i \in 1 .. 19 : all[8 + i] = fourth[i]
    <3>1. 27 = 8 + 19 /\ 8 \in Nat /\ 19 \in Nat
      OBVIOUS
    <3>2. all = Joined(first, fourth)
      BY <1>10a DEF Joined
    <3> QED
      BY <1>11, <1>14, <3>1, <3>2, JoinAt
  <2> QED
    BY <2>1
<1>17. /\ IsTuple(a, 29) /\ \A i \in 1 .. 27 : a[i] = all[i]
       /\ a[28] = source[1] /\ a[29] = source[2]
  <2>1. /\ IsTuple(a, 29)
        /\ \A i \in 1 .. 27 : a[i] = all[i]
        /\ \A i \in 1 .. 2 : a[27 + i] = source[i]
    <3>1. 29 = 27 + 2 /\ 27 \in Nat /\ 2 \in Nat
      OBVIOUS
    <3>2. a = Joined(all, source)
      BY <1>10b DEF Joined
    <3> QED
      BY <1>7, <1>15, <3>1, <3>2, JoinAt
  <2> QED
    BY <2>1
<1>18. \A i \in 1 .. 5 : a[i] = W(Unlocks(core)[i], "LAR", 0)
  BY <1>9, <1>11, <1>15, <1>17
<1>19. \A i \in 1 .. 3 : a[5 + i] = Route(core)[i]
  BY <1>11, <1>15, <1>17
<1>20. \A i \in 1 .. 19 : a[8 + i] = fourth[i]
  BY <1>15, <1>17
<1>21. \A i \in 1 .. 15 : a[8 + i] = second[i]
  BY <1>13, <1>14, <1>20
<1>22. a[9] = off[1] /\ a[10] = off[2]
  <2>1. a[8 + 1] = second[1] /\ a[8 + 2] = second[2]
    BY <1>21
  <2> QED
    BY <1>12, <2>1
<1>23. \A i \in 1 .. 13 : a[10 + i] = config[i]
  <2> SUFFICES ASSUME NEW i \in 1 .. 13 PROVE a[10 + i] = config[i]
    OBVIOUS
  <2>1. 2 + i \in 1 .. 15 /\ 8 + (2 + i) = 10 + i
    OBVIOUS
  <2>2. a[8 + (2 + i)] = second[2 + i]
    BY <1>21, <2>1
  <2> QED
    BY <1>12, <2>1, <2>2
<1>24. a[24] = on[1]
  <2>1. a[8 + 16] = fourth[16]
    BY <1>20
  <2> QED
    BY <1>13, <1>14, <2>1
<1>25. \A i \in 1 .. 3 : a[24 + i] = enable_tpiu_formatter[i]
  <2> SUFFICES ASSUME NEW i \in 1 .. 3 PROVE a[24 + i] = enable_tpiu_formatter[i]
    OBVIOUS
  <2>1. 16 + i \in 1 .. 19 /\ 8 + (16 + i) = 24 + i
    OBVIOUS
  <2>2. a[8 + (16 + i)] = fourth[16 + i]
    BY <1>20, <2>1
  <2> QED
    BY <1>14, <2>1, <2>2
<1> QED
  BY <1>9, <1>10, <1>17, <1>18, <1>19, <1>22, <1>23, <1>24, <1>25 DEF a

-----------------------------------------------------------------------------
(***************************************************************************)
(* What one access of a Configure does                                     *)
(***************************************************************************)
LEMMA ConfigurationIs ==
  ASSUME NEW core \in Core
  PROVE  LET c == Configuration(core) IN
         /\ DOMAIN c = 1 .. 13
         /\ \A i \in 1 .. 13 : /\ c[i] = <<c[i][1], c[i][2]>>
                               /\ c[i][1] \notin {"LAR", "TRCOSLAR", "TRCPRGCTLR"}
         /\ \A i, j \in 1 .. 13 : c[i][1] = c[j][1] => i = j
<1> DEFINE c == Configuration(core)
<1>1. DOMAIN c = 1 .. 13
  BY DEF Configuration
<1>2. /\ c[1] = <<"TRCCONFIGR", 0>> /\ c[2] = <<"TRCAUXCTLR", 8>>
      /\ c[3] = <<"TRCEVENTCTL0R", 0>> /\ c[4] = <<"TRCEVENTCTL1R", 0>>
      /\ c[5] = <<"TRCSTALLCTLR", 0>> /\ c[6] = <<"TRCTSCTLR", 0>>
      /\ c[7] = <<"TRCSYNCPR", 8>> /\ c[8] = <<"TRCCCCTLR", 0>>
      /\ c[9] = <<"TRCBBCTLR", 0>> /\ c[10] = <<"TRCTRACEIDR", TraceId(core)>>
      /\ c[11] = <<"TRCVIIECTLR", 0>> /\ c[12] = <<"TRCVISSCTLR", 0>>
      /\ c[13] = <<"TRCVICTLR", 1>>
  BY DEF Configuration
<1> HIDE DEF c
<1>3. \A i \in 1 .. 13 : \/ i = 1 \/ i = 2 \/ i = 3 \/ i = 4 \/ i = 5 \/ i = 6 \/ i = 7
                         \/ i = 8 \/ i = 9 \/ i = 10 \/ i = 11 \/ i = 12 \/ i = 13
  OBVIOUS
<1>4. \A i \in 1 .. 13 : /\ c[i] = <<c[i][1], c[i][2]>>
                         /\ c[i][1] \notin {"LAR", "TRCOSLAR", "TRCPRGCTLR"}
  BY <1>2, <1>3
<1>5. \A i, j \in 1 .. 13 : c[i][1] = c[j][1] => i = j
  BY <1>2, <1>3
<1> QED
  BY <1>1, <1>4, <1>5 DEF c

LEMMA RouteIs ==
  ASSUME NEW core \in Core
  PROVE  /\ Route(core)[1].to = "rpu" /\ Route(core)[2].to = "apu"
         /\ Route(core)[3].to = "system"
         /\ Route(core)[1].value = (IF core = "r5" THEN {0} ELSE {})
         /\ Route(core)[2].value = (IF core = "a53" THEN {1} ELSE {})
         /\ Route(core)[3].value = (IF core = "a53" THEN {1} ELSE {0})
         /\ \A i \in 1 .. 3 : Route(core)[i].register = "CONTROL"
  BY DEF Route, W

LEMMA UnlockDoes ==
  ASSUME CoreSightType, NEW x, CoreSightTakes(W(x, "LAR", 0))
  PROVE  /\ CoreSightType'
         /\ coresight'.open = coresight.open \cup {x}
         /\ coresight'.inputs = coresight.inputs /\ coresight'.locked = coresight.locked
         /\ coresight'.on = coresight.on /\ coresight'.programmed = coresight.programmed
         /\ coresight'.stopped = coresight.stopped /\ coresight'.flushed = coresight.flushed
         /\ coresight'.formatter = coresight.formatter
<1>1. coresight' = [coresight EXCEPT !.open = @ \cup {x}]
  BY DEF CoreSightTakes, W
<1>2. coresight' = [open |-> coresight.open \cup {x}, inputs |-> coresight.inputs,
                  locked |-> coresight.locked, on |-> coresight.on,
                  programmed |-> coresight.programmed, stopped |-> coresight.stopped,
                  flushed |-> coresight.flushed, formatter |-> coresight.formatter]
  BY <1>1 DEF CoreSightType
<1> QED
  BY <1>2 DEF CoreSightType

LEMMA RouteDoes ==
  ASSUME CoreSightType, NEW f \in Funnel, NEW v, f \in coresight.open,
         CoreSightTakes(W(f, "CONTROL", v))
  PROVE  /\ CoreSightType'
         /\ coresight'.inputs[f] = v
         /\ \A g \in Funnel \ {f} : coresight'.inputs[g] = coresight.inputs[g]
         /\ coresight'.open = coresight.open /\ coresight'.locked = coresight.locked
         /\ coresight'.on = coresight.on /\ coresight'.programmed = coresight.programmed
         /\ coresight'.stopped = coresight.stopped /\ coresight'.flushed = coresight.flushed
         /\ coresight'.formatter = coresight.formatter
<1>1. f \notin Core
  BY DEF Core, Funnel
<1>2. coresight' = [coresight EXCEPT !.inputs[f] = v]
  BY <1>1 DEF CoreSightTakes, W
<1>3. coresight' = [open |-> coresight.open, inputs |-> [coresight.inputs EXCEPT ![f] = v],
                    locked |-> coresight.locked, on |-> coresight.on,
                    programmed |-> coresight.programmed, stopped |-> coresight.stopped,
                    flushed |-> coresight.flushed, formatter |-> coresight.formatter]
  BY <1>2 DEF CoreSightType
<1>4. [coresight.inputs EXCEPT ![f] = v] = [g \in Funnel |-> IF g = f THEN v ELSE coresight.inputs[g]]
  BY DEF CoreSightType
<1> QED
  BY <1>3, <1>4 DEF CoreSightType

LEMMA UnitDoes ==
  ASSUME CoreSightType, NEW core \in Core, NEW r, NEW v, core \in coresight.open, r # "LAR",
         CoreSightTakes(W(core, r, v))
  PROVE  coresight' = UnitTakes(core, W(core, r, v))
BY DEF CoreSightTakes, W

LEMMA LockDoes ==
  ASSUME CoreSightType, NEW core \in Core, core \in coresight.open,
         CoreSightTakes(W(core, "TRCOSLAR", 0))
  PROVE  /\ CoreSightType'
         /\ coresight'.locked = coresight.locked \ {core}
         /\ coresight'.inputs = coresight.inputs /\ coresight'.open = coresight.open
         /\ coresight'.on = coresight.on /\ coresight'.programmed = coresight.programmed
         /\ coresight'.stopped = coresight.stopped /\ coresight'.flushed = coresight.flushed
         /\ coresight'.formatter = coresight.formatter
<1>1. coresight' = UnitTakes(core, W(core, "TRCOSLAR", 0))
  BY UnitDoes
<1>2. coresight' = [coresight EXCEPT !.locked = @ \ {core}]
  BY <1>1 DEF UnitTakes, W
<1>3. coresight' = [open |-> coresight.open, inputs |-> coresight.inputs,
                    locked |-> coresight.locked \ {core}, on |-> coresight.on,
                    programmed |-> coresight.programmed, stopped |-> coresight.stopped,
                    flushed |-> coresight.flushed, formatter |-> coresight.formatter]
  BY <1>2 DEF CoreSightType
<1> QED
  BY <1>3 DEF CoreSightType

LEMMA SwitchDoes ==
  ASSUME CoreSightType, NEW core \in Core, NEW v \in {0, 1}, core \in coresight.open,
         core \notin coresight.locked, CoreSightTakes(W(core, "TRCPRGCTLR", v))
  PROVE  /\ CoreSightType'
         /\ coresight'.on = IF v = 1 THEN coresight.on \cup {core} ELSE coresight.on \ {core}
         /\ coresight'.inputs = coresight.inputs /\ coresight'.open = coresight.open
         /\ coresight'.locked = coresight.locked /\ coresight'.programmed = coresight.programmed
         /\ coresight'.stopped = coresight.stopped /\ coresight'.flushed = coresight.flushed
         /\ coresight'.formatter = coresight.formatter
<1>1. coresight' = UnitTakes(core, W(core, "TRCPRGCTLR", v))
  BY UnitDoes
<1> DEFINE on == IF v = 1 THEN coresight.on \cup {core} ELSE coresight.on \ {core}
<1>2. coresight' = [coresight EXCEPT !.on = on]
  BY <1>1 DEF UnitTakes, W
<1> HIDE DEF on
<1>3. coresight' = [open |-> coresight.open, inputs |-> coresight.inputs,
                    locked |-> coresight.locked, on |-> on,
                    programmed |-> coresight.programmed, stopped |-> coresight.stopped,
                    flushed |-> coresight.flushed, formatter |-> coresight.formatter]
  BY <1>2 DEF CoreSightType
<1>4. coresight'.on = on
  BY <1>3
<1> QED
  BY <1>3, <1>4 DEF CoreSightType, on

LEMMA ProgramDoes ==
  ASSUME CoreSightType, NEW core \in Core, NEW i \in 1 .. 13, core \in coresight.open,
         core \notin coresight.locked, core \notin coresight.on,
         CoreSightTakes(W(core, Configuration(core)[i][1], Configuration(core)[i][2]))
  PROVE  /\ CoreSightType'
         /\ Configuration(core)[i] \in coresight'.programmed[core]
         /\ \A j \in 1 .. 13 : Configuration(core)[j] \in coresight.programmed[core]
                                 => Configuration(core)[j] \in coresight'.programmed[core]
         /\ coresight'.inputs = coresight.inputs /\ coresight'.open = coresight.open
         /\ coresight'.locked = coresight.locked /\ coresight'.on = coresight.on
         /\ coresight'.stopped = coresight.stopped /\ coresight'.flushed = coresight.flushed
         /\ coresight'.formatter = coresight.formatter
<1> DEFINE c == Configuration(core)
           r == c[i][1]
           new == {p \in coresight.programmed[core] : p[1] # r} \cup {c[i]}
<1>1. /\ \A j \in 1 .. 13 : /\ c[j] = <<c[j][1], c[j][2]>>
                            /\ c[j][1] \notin {"LAR", "TRCOSLAR", "TRCPRGCTLR"}
      /\ \A j, l \in 1 .. 13 : c[j][1] = c[l][1] => j = l
  BY ConfigurationIs
<1> HIDE DEF c
<1>2. coresight' = UnitTakes(core, W(core, r, c[i][2]))
  BY <1>1, UnitDoes DEF c
<1>3. coresight' = [coresight EXCEPT !.programmed[core] =
                      {p \in @ : p[1] # r} \cup {<<r, c[i][2]>>}]
  BY <1>1, <1>2 DEF UnitTakes, W
<1>4. <<r, c[i][2]>> = c[i]
  BY <1>1
<1>5. coresight' = [open |-> coresight.open, inputs |-> coresight.inputs,
                    locked |-> coresight.locked, on |-> coresight.on,
                    programmed |-> [coresight.programmed EXCEPT ![core] = new],
                    stopped |-> coresight.stopped,
                    flushed |-> coresight.flushed, formatter |-> coresight.formatter]
  BY <1>3, <1>4 DEF CoreSightType
<1>6. /\ \A j \in 1 .. 13 : c[j] \in coresight.programmed[core] => c[j] \in new
      /\ c[i] \in new
  BY <1>1
<1>7. new \subseteq ConfigurationSet(core)
  BY DEF CoreSightType, ConfigurationSet, c
<1> HIDE DEF new
<1>8. [coresight.programmed EXCEPT ![core] = new]
        = [d \in Core |-> IF d = core THEN new ELSE coresight.programmed[d]]
  BY DEF CoreSightType
<1>9. coresight'.programmed = [d \in Core |-> IF d = core THEN new ELSE coresight.programmed[d]]
  BY <1>5, <1>8
<1>10. /\ coresight'.programmed[core] = new
       /\ coresight'.programmed = [d \in Core |-> coresight'.programmed[d]]
       /\ \A d \in Core : coresight'.programmed[d] \subseteq ConfigurationSet(d)
  BY <1>7, <1>9 DEF CoreSightType
<1> QED
  BY <1>5, <1>6, <1>10 DEF CoreSightType, c

\* The three writes to the formatter, the second one with traffic in flight.
LEMMA FormatterDoes ==
  ASSUME CoreSightType, NEW i \in 1 .. 3, "tpiu" \in coresight.open,
         CoreSightTakes(enable_tpiu_formatter[i])
  PROVE  /\ CoreSightType'
         /\ coresight'.inputs = coresight.inputs /\ coresight'.open = coresight.open
         /\ coresight'.locked = coresight.locked /\ coresight'.on = coresight.on
         /\ coresight'.programmed = coresight.programmed
         /\ i = 2 /\ Traffic => coresight'.stopped = TRUE /\ coresight'.flushed = TRUE
         /\ i = 3 /\ coresight.stopped = TRUE /\ coresight.flushed = TRUE =>
              coresight'.stopped = FALSE /\ coresight'.formatter = "framing"
<1> DEFINE v == enable_tpiu_formatter[i].value
<1>1. coresight' = FormatterTakes(v)
  <2>1. /\ enable_tpiu_formatter[i].register = "FFCR" /\ enable_tpiu_formatter[i].to = "tpiu"
    BY DEF enable_tpiu_formatter, W
  <2>2. "tpiu" \notin Core \cup Funnel
    BY DEF Core, Funnel
  <2> QED
    BY <2>1, <2>2 DEF CoreSightTakes
<1>2. /\ i = 1 => v = {"StopFl"}
      /\ i = 2 => v = {"StopFl", "FOnMan"}
      /\ i = 3 => v = {"EnFCont"}
  BY DEF enable_tpiu_formatter, W
<1> HIDE DEF v
<1>2a. /\ i = 1 => ~({"StopFl", "FOnMan"} \subseteq v) /\ "EnFCont" \notin v
       /\ i = 2 => {"StopFl", "FOnMan"} \subseteq v
       /\ i = 3 => ~({"StopFl", "FOnMan"} \subseteq v) /\ "EnFCont" \in v
  <2>1. "FOnMan" \in {"StopFl", "FOnMan"}
    OBVIOUS
  <2>2. /\ i = 1 => "FOnMan" \notin v /\ "EnFCont" \notin v
        /\ i = 2 => {"StopFl", "FOnMan"} \subseteq v
        /\ i = 3 => "FOnMan" \notin v /\ "EnFCont" \in v
    BY <1>2
  <2> QED
    BY <2>1, <2>2
<1>3. CASE i = 1
  <2>1. coresight' = coresight
    BY <1>1, <1>2a, <1>3 DEF FormatterTakes
  <2> QED
    BY <1>3, <2>1 DEF CoreSightType
<1>4. CASE i = 2
  <2>1. coresight' = [coresight EXCEPT !.stopped = TRUE, !.flushed = Traffic]
    BY <1>1, <1>2a, <1>4 DEF FormatterTakes
  <2>2. coresight' = [open |-> coresight.open, inputs |-> coresight.inputs,
                      locked |-> coresight.locked, on |-> coresight.on,
                      programmed |-> coresight.programmed, stopped |-> TRUE,
                      flushed |-> Traffic, formatter |-> coresight.formatter]
    BY <2>1 DEF CoreSightType
  <2>3. Traffic \in BOOLEAN
    BY DEF Traffic
  <2> QED
    BY <1>4, <2>2, <2>3 DEF CoreSightType
<1>5. CASE i = 3
  <2>1. coresight' = IF coresight.stopped
                       THEN [coresight EXCEPT !.stopped = FALSE,
                               !.formatter = IF coresight.flushed THEN "framing" ELSE "silent"]
                       ELSE coresight
    BY <1>1, <1>2a, <1>5 DEF FormatterTakes
  <2>2. CASE coresight.stopped
    <3>1. coresight' = [open |-> coresight.open, inputs |-> coresight.inputs,
                        locked |-> coresight.locked, on |-> coresight.on,
                        programmed |-> coresight.programmed, stopped |-> FALSE,
                        flushed |-> coresight.flushed,
                        formatter |-> IF coresight.flushed THEN "framing" ELSE "silent"]
      BY <2>1, <2>2 DEF CoreSightType
    <3> QED
      BY <1>5, <3>1 DEF CoreSightType
  <2>3. CASE ~coresight.stopped
    <3>1. coresight' = coresight
      BY <2>1, <2>3
    <3> QED
      BY <1>5, <2>3, <3>1 DEF CoreSightType
  <2> QED
    BY <2>2, <2>3
<1>6. i = 1 \/ i = 2 \/ i = 3
  OBVIOUS
<1> QED
  BY <1>3, <1>4, <1>5, <1>6

-----------------------------------------------------------------------------
(***************************************************************************)
(* The whole of a Configure                                                *)
(***************************************************************************)
\* The funnels lead the unit, and no other, to the TPIU.
LEMMA RoutedIs ==
  ASSUME NEW core \in Core, NEW k \in 8 .. 27, SetUp(core, k)
  PROVE  Reaches(core) /\ \A other \in Core \ {core} : ~Reaches(other)
<1>1. \A i \in 1 .. 3 : coresight.inputs[Route(core)[i].to] = Route(core)[i].value
  BY DEF SetUp
<1>2. /\ coresight.inputs["rpu"] = (IF core = "r5" THEN {0} ELSE {})
      /\ coresight.inputs["apu"] = (IF core = "a53" THEN {1} ELSE {})
      /\ coresight.inputs["system"] = (IF core = "a53" THEN {1} ELSE {0})
  <2>1. 1 \in 1 .. 3 /\ 2 \in 1 .. 3 /\ 3 \in 1 .. 3
    OBVIOUS
  <2> QED
    BY <1>1, <2>1, RouteIs
<1>3. CASE core = "r5"
  BY <1>2, <1>3 DEF Reaches, Core
<1>4. CASE core = "a53"
  BY <1>2, <1>4 DEF Reaches, Core
<1> QED
  BY <1>3, <1>4 DEF Core

LEMMA SetUpDelivers ==
  ASSUME CoreSightType, NEW core \in Core, SetUp(core, 27)
  PROVE  Delivers(core)
<1> DEFINE c == Configuration(core)
<1>1. Reaches(core) /\ \A other \in Core \ {core} : ~Reaches(other)
  <2>1. 27 \in 8 .. 27
    OBVIOUS
  <2> QED
    BY <2>1, RoutedIs
<1>2. DOMAIN c = 1 .. 13
  BY ConfigurationIs
<1>3. coresight.programmed[core] = {c[i] : i \in 1 .. 13}
  <2>1. coresight.programmed[core] \subseteq {c[i] : i \in 1 .. 13}
    BY DEF CoreSightType, ConfigurationSet
  <2>2. \A i \in 1 .. 13 : c[i] \in coresight.programmed[core]
    BY DEF SetUp
  <2> HIDE DEF c
  <2> QED
    BY <2>1, <2>2
<1>4. core \in coresight.on /\ coresight.stopped = FALSE /\ coresight.formatter = "framing"
  BY DEF SetUp
<1> HIDE DEF c
<1> QED
  BY <1>1, <1>2, <1>3, <1>4 DEF Delivers, c

\* One access brings the set-up one access further.
LEMMA SetUpStep ==
  ASSUME CoreSightType, NEW s \in {1, 2}, NEW k \in 0 .. 26, SetUp(CoreOf(s), k),
         CoreSightTakes(Accesses(Configure(s, 2, 1))[k + 1])
  PROVE  CoreSightType' /\ SetUp(CoreOf(s), k + 1)'
<1> DEFINE core == CoreOf(s)
           a == Accesses(Configure(s, 2, 1))
<1>1. core \in Core
  BY DEF CoreOf, Core
<1>2. /\ \A i \in 1 .. 5 : a[i] = W(Unlocks(core)[i], "LAR", 0)
      /\ \A i \in 1 .. 3 : a[5 + i] = Route(core)[i]
      /\ a[9] = W(core, "TRCOSLAR", 0) /\ a[10] = W(core, "TRCPRGCTLR", 0)
      /\ \A i \in 1 .. 13 :
           a[10 + i] = W(core, Configuration(core)[i][1], Configuration(core)[i][2])
      /\ a[24] = W(core, "TRCPRGCTLR", 1)
      /\ \A i \in 1 .. 3 : a[24 + i] = enable_tpiu_formatter[i]
  BY ConfigureIs
<1> HIDE DEF a, core
<1>3. CoreSightTakes(a[k + 1]) /\ SetUp(core, k)
  BY DEF a, core
<1>4. k >= 5 => {core, "rpu", "apu", "system", "tpiu"} \subseteq coresight.open
  <2> SUFFICES ASSUME k >= 5
               PROVE  {core, "rpu", "apu", "system", "tpiu"} \subseteq coresight.open
    OBVIOUS
  <2>1. \A i \in 1 .. 5 : Unlocks(core)[i] \in coresight.open
    BY <1>3 DEF SetUp
  <2>2. Unlocks(core)[1] = core /\ Unlocks(core)[2] = "rpu" /\ Unlocks(core)[3] = "apu"
        /\ Unlocks(core)[4] = "system" /\ Unlocks(core)[5] = "tpiu"
    BY DEF Unlocks
  <2>3. 1 \in 1 .. 5 /\ 2 \in 1 .. 5 /\ 3 \in 1 .. 5 /\ 4 \in 1 .. 5 /\ 5 \in 1 .. 5
    OBVIOUS
  <2> QED
    BY <2>1, <2>2, <2>3
<1>5. CASE k \in 0 .. 4
  <2> DEFINE x == Unlocks(core)[k + 1]
  <2>1. a[k + 1] = W(x, "LAR", 0)
    <3>1. k + 1 \in 1 .. 5
      BY <1>5
    <3> QED
      BY <1>2, <3>1
  <2>2. /\ CoreSightType'
        /\ coresight'.open = coresight.open \cup {x}
    BY <1>3, <2>1, UnlockDoes
  <2> HIDE DEF x
  <2>3. \A i \in 1 .. 5 : i <= k + 1 => Unlocks(core)[i] \in coresight'.open
    <3> SUFFICES ASSUME NEW i \in 1 .. 5, i <= k + 1 PROVE Unlocks(core)[i] \in coresight'.open
      OBVIOUS
    <3>1. CASE i = k + 1
      BY <2>2, <3>1 DEF x
    <3>2. CASE i # k + 1
      <4>1. Unlocks(core)[i] \in coresight.open
        BY <1>3, <3>2 DEF SetUp
      <4> QED
        BY <2>2, <4>1
    <3> QED
      BY <3>1, <3>2
  <2>4. SetUp(core, k + 1)'
    BY <1>5, <2>3 DEF SetUp
  <2> QED
    BY <2>2, <2>4 DEF core
<1>6. CASE k \in 5 .. 7
  <2> DEFINE j == k - 4
             f == Route(core)[j].to
             v == Route(core)[j].value
  <2>1. j \in 1 .. 3 /\ 5 + j = k + 1
    BY <1>6
  <2> HIDE DEF j
  <2>2. /\ Route(core)[1].to = "rpu" /\ Route(core)[2].to = "apu"
        /\ Route(core)[3].to = "system"
        /\ \A i \in 1 .. 3 : Route(core)[i] = W(Route(core)[i].to, "CONTROL", Route(core)[i].value)
    BY <1>1 DEF Route, W
  <2>3. f \in Funnel /\ f \in coresight.open
    BY <1>4, <1>6, <2>1, <2>2 DEF Funnel
  <2>4. a[k + 1] = W(f, "CONTROL", v)
    BY <1>2, <2>1, <2>2
  <2>5. /\ CoreSightType'
        /\ coresight'.inputs[f] = v /\ coresight'.open = coresight.open
        /\ \A g \in Funnel \ {f} : coresight'.inputs[g] = coresight.inputs[g]
    BY <1>3, <2>3, <2>4, RouteDoes
  <2>6. \A i \in 1 .. 3 : 5 + i <= k + 1 =>
           coresight'.inputs[Route(core)[i].to] = Route(core)[i].value
    <3> SUFFICES ASSUME NEW i \in 1 .. 3, 5 + i <= k + 1
                 PROVE  coresight'.inputs[Route(core)[i].to] = Route(core)[i].value
      OBVIOUS
    <3>1. CASE i = j
      BY <2>5, <3>1
    <3>2. CASE i # j
      <4>1. coresight.inputs[Route(core)[i].to] = Route(core)[i].value
        BY <1>3, <2>1, <3>2 DEF SetUp
      <4>2. Route(core)[i].to \in Funnel \ {f}
        BY <2>1, <2>2, <3>2 DEF Funnel
      <4> QED
        BY <2>5, <4>1, <4>2
    <3> QED
      BY <3>1, <3>2
  <2>7. \A i \in 1 .. 5 : i <= k + 1 => Unlocks(core)[i] \in coresight'.open
    BY <1>3, <1>6, <2>5 DEF SetUp
  <2>8. SetUp(core, k + 1)'
    BY <1>6, <2>6, <2>7 DEF SetUp
  <2> QED
    BY <2>5, <2>8 DEF core
<1> DEFINE Opened == \A i \in 1 .. 5 : Unlocks(core)[i] \in coresight.open
           Routed == \A i \in 1 .. 3 : coresight.inputs[Route(core)[i].to] = Route(core)[i].value
           Written(n) == \A i \in 1 .. 13 :
                           10 + i <= n => Configuration(core)[i] \in coresight.programmed[core]
<1>7. k >= 8 => Opened /\ Routed
  BY <1>3 DEF SetUp
<1>8. k >= 9 => core \notin coresight.locked
  BY <1>3 DEF SetUp
<1>9. Written(k)
  BY <1>3 DEF SetUp
<1>10. CASE k = 8
  <2>1. a[k + 1] = W(core, "TRCOSLAR", 0)
    BY <1>2, <1>10
  <2>2. /\ CoreSightType' /\ coresight'.locked = coresight.locked \ {core}
        /\ coresight'.open = coresight.open /\ coresight'.inputs = coresight.inputs
    BY <1>1, <1>3, <1>4, <1>10, <2>1, LockDoes
  <2>3. Opened' /\ Routed'
    BY <1>7, <1>10, <2>2
  <2>4. SetUp(core, k + 1)'
    BY <1>10, <2>2, <2>3 DEF SetUp
  <2> QED
    BY <2>2, <2>4 DEF core
<1>11. CASE k = 9
  <2>1. a[k + 1] = W(core, "TRCPRGCTLR", 0)
    BY <1>2, <1>11
  <2>2. /\ CoreSightType' /\ coresight'.on = coresight.on \ {core}
        /\ coresight'.open = coresight.open /\ coresight'.inputs = coresight.inputs
        /\ coresight'.locked = coresight.locked
    BY <1>1, <1>3, <1>4, <1>8, <1>11, <2>1, SwitchDoes
  <2>3. Opened' /\ Routed'
    BY <1>7, <1>11, <2>2
  <2>4. SetUp(core, k + 1)'
    BY <1>8, <1>11, <2>2, <2>3 DEF SetUp
  <2> QED
    BY <2>2, <2>4 DEF core
<1>12. CASE k \in 10 .. 22
  <2> DEFINE j == k - 9
  <2>1. j \in 1 .. 13 /\ 10 + j = k + 1
    BY <1>12
  <2> HIDE DEF j
  <2>2. a[k + 1] = W(core, Configuration(core)[j][1], Configuration(core)[j][2])
    BY <1>2, <2>1
  <2>3. core \notin coresight.on
    BY <1>3, <1>12 DEF SetUp
  <2>4. /\ CoreSightType'
        /\ Configuration(core)[j] \in coresight'.programmed[core]
        /\ \A i \in 1 .. 13 : Configuration(core)[i] \in coresight.programmed[core]
                               => Configuration(core)[i] \in coresight'.programmed[core]
        /\ coresight'.inputs = coresight.inputs /\ coresight'.open = coresight.open
        /\ coresight'.locked = coresight.locked /\ coresight'.on = coresight.on
    BY <1>1, <1>3, <1>4, <1>8, <1>12, <2>1, <2>2, <2>3, ProgramDoes
  <2>5. Opened' /\ Routed'
    BY <1>7, <1>12, <2>4
  <2>6. Written(k + 1)'
    <3> SUFFICES ASSUME NEW i \in 1 .. 13, 10 + i <= k + 1
                 PROVE  Configuration(core)[i] \in coresight'.programmed[core]
      OBVIOUS
    <3>1. CASE i = j
      BY <2>4, <3>1
    <3>2. CASE i # j
      BY <1>9, <2>1, <2>4, <3>2
    <3> QED
      BY <3>1, <3>2
  <2>7. SetUp(core, k + 1)'
    BY <1>8, <1>12, <2>3, <2>4, <2>5, <2>6 DEF SetUp
  <2> QED
    BY <2>4, <2>7 DEF core
<1>13. CASE k = 23
  <2>1. a[k + 1] = W(core, "TRCPRGCTLR", 1)
    BY <1>2, <1>13
  <2>2. /\ CoreSightType' /\ coresight'.on = coresight.on \cup {core}
        /\ coresight'.open = coresight.open /\ coresight'.inputs = coresight.inputs
        /\ coresight'.locked = coresight.locked
        /\ coresight'.programmed = coresight.programmed
    BY <1>1, <1>3, <1>4, <1>8, <1>13, <2>1, SwitchDoes
  <2>3. Opened' /\ Routed'
    BY <1>7, <1>13, <2>2
  <2>4. Written(k + 1)'
    BY <1>9, <1>13, <2>2
  <2>5. SetUp(core, k + 1)'
    BY <1>8, <1>13, <2>2, <2>3, <2>4 DEF SetUp
  <2> QED
    BY <2>2, <2>5 DEF core
<1>14. CASE k \in 24 .. 26
  <2> DEFINE j == k - 23
  <2>1. j \in 1 .. 3 /\ 24 + j = k + 1
    BY <1>14
  <2>2. core \in coresight.on
    BY <1>3, <1>14 DEF SetUp
  <2>3. Traffic
    <3>1. k \in 8 .. 27
      BY <1>14
    <3>2. Reaches(core)
      BY <1>1, <1>3, <3>1, RoutedIs
    <3> QED
      BY <2>2, <3>2 DEF Traffic
  <2> HIDE DEF j
  <2>4. a[k + 1] = enable_tpiu_formatter[j]
    BY <1>2, <2>1
  <2>5. /\ CoreSightType'
        /\ coresight'.inputs = coresight.inputs /\ coresight'.open = coresight.open
        /\ coresight'.locked = coresight.locked /\ coresight'.on = coresight.on
        /\ coresight'.programmed = coresight.programmed
        /\ j = 2 => coresight'.stopped = TRUE /\ coresight'.flushed = TRUE
        /\ j = 3 /\ coresight.stopped = TRUE /\ coresight.flushed = TRUE =>
             coresight'.stopped = FALSE /\ coresight'.formatter = "framing"
    <3>1. "tpiu" \in coresight.open
      BY <1>4, <1>14
    <3>2. CoreSightTakes(enable_tpiu_formatter[j])
      BY <1>3, <2>4
    <3> QED
      BY <2>1, <2>3, <3>1, <3>2, FormatterDoes
  <2>6. Opened' /\ Routed' /\ Written(k + 1)'
    <3>1. \A i \in 1 .. 13 : 10 + i <= k
      BY <1>14
    <3> QED
      BY <1>7, <1>9, <1>14, <2>5, <3>1
  <2>7. core \notin coresight'.locked /\ core \in coresight'.on
    BY <1>8, <1>14, <2>2, <2>5
  <2>8. k + 1 = 26 => coresight'.stopped = TRUE /\ coresight'.flushed = TRUE
    BY <2>1, <2>5
  <2>9. k + 1 = 27 => coresight'.stopped = FALSE /\ coresight'.formatter = "framing"
    <3>1. k = 26 => coresight.stopped = TRUE /\ coresight.flushed = TRUE
      BY <1>3 DEF SetUp
    <3> QED
      BY <2>1, <2>5, <3>1
  <2>10. SetUp(core, k + 1)'
    BY <1>14, <2>6, <2>7, <2>8, <2>9 DEF SetUp
  <2> QED
    BY <2>5, <2>10 DEF core
<1>15. \/ k \in 0 .. 4 \/ k \in 5 .. 7 \/ k = 8 \/ k = 9
       \/ k \in 10 .. 22 \/ k = 23 \/ k \in 24 .. 26
  OBVIOUS
<1> QED
  BY <1>5, <1>6, <1>10, <1>11, <1>12, <1>13, <1>14, <1>15

-----------------------------------------------------------------------------
(***************************************************************************)
(* The other requests                                                      *)
(***************************************************************************)
LEMMA SeqOfOther ==
  ASSUME NEW S, NEW T, NEW s \in Seq(S), \A i \in 1 .. Len(s) : s[i] \in T
  PROVE  s \in Seq(T)
<1>1. Len(s) \in Nat /\ s = [i \in 1 .. Len(s) |-> s[i]]
  BY LenProperties
<1> QED
  BY <1>1

LEMMA AccessesQuiet ==
  ASSUME NEW r \in Known, ~Refused(r), \A s \in {1, 2} : r # Configure(s, 2, 1)
  PROVE  Accesses(r) \in Seq(QuietAccess)
<1>1. r \in Requests /\ r \in Seq(Nat) /\ Len(r) \in Nat
  BY LenProperties DEF Known, Requests
<1>2. CASE r[1] = 2
  <2>1. Len(r) = 4
    BY <1>2 DEF Refused
  <2>2. r = Configure(0, 2, 1)
    <3>1. PICK s \in 0 .. 2 : r = Configure(s, 2, 1)
      BY <1>2, <2>1 DEF Known
    <3>2. s = 0 \/ s \in {1, 2}
      OBVIOUS
    <3> QED
      BY <3>1, <3>2
  <2>3. r[1] = 2 /\ r[2] = 0 /\ r[3] = 2 /\ r[4] = 1
    BY <2>2 DEF Configure
  <2> DEFINE last == <<W("pl", "SOURCE_FORMAT", <<0, 2>>), W("pl", "SWO_BAUD", 1)>>
  <2>4. Accesses(r) = CoreSightOf(r[2]) \o
                        <<W("pl", "SOURCE_FORMAT", <<r[2], r[3]>>), W("pl", "SWO_BAUD", r[4])>>
    BY <1>2 DEF Accesses
  <2>5. CoreSightOf(0) = <<>>
    BY DEF CoreSightOf
  <2>6. Accesses(r) = <<>> \o last
    BY <2>3, <2>4, <2>5
  <2>7. W("pl", "SOURCE_FORMAT", <<0, 2>>) \in QuietAccess /\ W("pl", "SWO_BAUD", 1) \in QuietAccess
    BY DEF QuietAccess, W
  <2>8. last \in Seq(QuietAccess)
    BY <2>7
  <2> HIDE DEF last
  <2> QED
    BY <2>6, <2>8
<1>3. CASE r[1] \in 3 .. 5
  <2>1. Accesses(r) = <<W("pl", "CONTROL", r[1])>>
    BY <1>3 DEF Accesses
  <2>2. W("pl", "CONTROL", r[1]) \in QuietAccess
    BY <1>3 DEF QuietAccess, W
  <2> QED
    BY <2>1, <2>2
<1>4. CASE r[1] = 6
  <2>1. /\ Accesses(r) \in Seq(AccessSet) /\ Len(Accesses(r)) = 2 * Len(Counters)
        /\ \A i \in 1 .. 2 * Len(Counters) : Accesses(r)[i] = CounterHalf(i)
    BY <1>4, AccessesOf
  <2>2. ASSUME NEW i \in 1 .. 2 * Len(Counters) PROVE CounterHalf(i) \in QuietAccess
    <3>1. (i + 1) \div 2 \in 1 .. Len(Counters)
      BY ControlAssumption, LenProperties
    <3>2. Counters[(i + 1) \div 2] \in STRING
      BY <3>1, ControlAssumption, ElementOfSeq
    <3> QED
      BY <3>2 DEF CounterHalf, W, QuietAccess
  <2> QED
    BY <2>1, <2>2, SeqOfOther
<1>5. CASE r[1] = 7
  <2>1. Len(r) >= 2
    BY <1>1, <1>5 DEF Refused
  <2>2. \A i \in 1 .. Len(r) : r[i] \in Nat
    BY <1>1, ElementOfSeq
  <2>3. r[2] \in Nat
    BY <1>1, <2>1, <2>2
  <2>4. /\ Accesses(r) \in Seq(AccessSet) /\ Len(Accesses(r)) = Len(r) - 2
        /\ \A i \in 1 .. Len(r) - 2 : Accesses(r)[i] = W("bram", r[2] + i, r[i + 2])
    BY <1>1, <1>5, <2>1, <2>3, AccessesOf
  <2>5. ASSUME NEW i \in 1 .. Len(r) - 2 PROVE W("bram", r[2] + i, r[i + 2]) \in QuietAccess
    <3>1. i + 2 \in 1 .. Len(r) /\ r[2] + i \in Nat
      BY <1>1, <2>3
    <3>2. r[i + 2] \in Nat
      BY <2>2, <3>1
    <3> QED
      BY <3>1, <3>2 DEF W, QuietAccess
  <2> QED
    BY <2>4, <2>5, SeqOfOther
<1>6. CASE r[1] = 8
  <2>1. Len(r) = 3
    BY <1>1, <1>6 DEF Refused
  <2>2. r[2] \in Nat /\ r[3] \in Nat
    <3>1. 2 \in 1 .. Len(r) /\ 3 \in 1 .. Len(r)
      BY <2>1
    <3> QED
      BY <1>1, <3>1, ElementOfSeq
  <2>3. Accesses(r) = [i \in 1 .. r[3] |-> W("read", r[2] + i, 0)]
    BY <1>6 DEF Accesses
  <2>4. \A i \in 1 .. r[3] : W("read", r[2] + i, 0) \in QuietAccess
    BY <2>2 DEF W, QuietAccess
  <2> QED
    BY <2>2, <2>3, <2>4
<1>7. CASE r[1] = 9
  <2>1. Len(r) = 2
    BY <1>1, <1>7 DEF Refused
  <2>2. r[2] \in Nat
    BY <1>1, <2>1, ElementOfSeq
  <2>3. Accesses(r) = <<W("pl", "M3_CONTROL", r[2])>>
    BY <1>7 DEF Accesses
  <2>4. W("pl", "M3_CONTROL", r[2]) \in QuietAccess
    BY <2>2 DEF W, QuietAccess
  <2> QED
    BY <2>3, <2>4
<1>8. CASE r[1] \notin {2, 6, 7, 8, 9} \cup 3 .. 5
  <2>1. Accesses(r) = <<>>
    BY <1>8 DEF Accesses
  <2> QED
    BY <2>1
<1> QED
  BY <1>2, <1>3, <1>4, <1>5, <1>6, <1>7, <1>8

-----------------------------------------------------------------------------
(***************************************************************************)
(* The steps                                                               *)
(***************************************************************************)
LEMMA ProgramsKnown ==
  ASSUME NEW h \in {"load", "configure", "observe"}, NEW c \in Programs[h]
  PROVE  c.left \in Seq(Known)
<1>1. \A r \in Known : <<r>> \in Seq(Known) /\ Plan(<<r>>, <<>>).left = <<r>>
  BY DEF Plan
<1>2. \A r \in Requests : r[1] # 2 => r \in Known
  BY DEF Known
<1>3. CASE h = "load"
  <2>1. CASE \E b \in {0, 1, 3} : c.left = <<M3Control(b)>>
    <3>1. PICK b \in {0, 1, 3} : c.left = <<M3Control(b)>>
      BY <2>1
    <3>2. b \in Nat
      OBVIOUS
    <3>3. M3Control(b) \in Requests /\ M3Control(b)[1] = 9
      BY <3>2, SmallRequests
    <3>4. M3Control(b) \in Known
      BY <1>2, <3>3
    <3> QED
      BY <1>1, <3>1, <3>4
  <2>2. CASE c.image \in Loadable /\ c.left = load_m3(c.image)
    <3> DEFINE s == load_m3(c.image)
    <3>1. s \in Seq(Requests)
      BY <2>2, LoadM3Is
    <3>2. \A k \in 1 .. Len(s) : s[k] \in Requests /\ s[k][1] \in {7, 8, 9}
      <4> SUFFICES ASSUME NEW k \in 1 .. Len(s)
                   PROVE  s[k] \in Requests /\ s[k][1] \in {7, 8, 9}
        OBVIOUS
      <4>1. IsOf(s[k], c.image)
        BY <2>2 DEF IsOf
      <4> QED
        BY <4>1, RequestShape
    <3> HIDE DEF s
    <3>3. \A k \in 1 .. Len(s) : s[k] \in Known
      BY <1>2, <3>2
    <3>4. s \in Seq(Known)
      BY <3>1, <3>3, SeqOfOther
    <3> QED
      BY <2>2, <3>4 DEF s
  <2> QED
    BY <1>3, <2>1, <2>2, ProgramsAre
<1>4. CASE h = "configure"
  <2>1. \/ \E s \in 0 .. 2 : c = Plan(<<Configure(s, 2, 1)>>, <<>>)
        \/ \E n \in 3 .. 5 : c = Plan(<< <<n>> >>, <<>>)
    BY <1>4 DEF Programs
  <2>2. ASSUME NEW s \in 0 .. 2 PROVE Configure(s, 2, 1) \in Known
    <3>1. Configure(s, 2, 1) \in Requests
      BY DEF Configure, Requests
    <3> QED
      BY <3>1 DEF Known
  <2>3. ASSUME NEW n \in 3 .. 5 PROVE <<n>> \in Known
    <3>1. <<n>> \in Requests /\ <<n>>[1] = n /\ n # 2
      BY DEF Requests
    <3> QED
      BY <1>2, <3>1
  <2>4. \E r \in Known : c = Plan(<<r>>, <<>>)
    BY <2>1, <2>2, <2>3
  <2> QED
    BY <1>1, <2>4
<1>5. CASE h = "observe"
  <2>1. PICK r \in {GetInfo, GetStats, <<2, 1>>, <<7, BramSize, 0>>, ReadM3Bram(1, BramSize), <<10>>} :
          c = Plan(<<r>>, <<>>)
    BY <1>5 DEF Programs
  <2>2. BramSize \in Nat
    BY ControlAssumption
  <2>3. {GetInfo, GetStats, <<2, 1>>, <<7, BramSize, 0>>, ReadM3Bram(1, BramSize), <<10>>}
          \subseteq Requests
    BY <2>2 DEF Requests, GetInfo, GetStats, ReadM3Bram
  <2>4. r \in Known
    <3>1. CASE r = <<2, 1>>
      <4>1. Len(r) = 2 /\ r \in Requests
        BY <2>3, <3>1
      <4> QED
        BY <4>1 DEF Known
    <3>2. CASE r \in {GetInfo, GetStats, <<7, BramSize, 0>>, ReadM3Bram(1, BramSize), <<10>>}
      <4>1. GetInfo[1] = 1 /\ GetStats[1] = 6 /\ <<7, BramSize, 0>>[1] = 7
            /\ ReadM3Bram(1, BramSize)[1] = 8 /\ <<10>>[1] = 10
        BY DEF GetInfo, GetStats, ReadM3Bram
      <4> HIDE DEF GetInfo, GetStats, ReadM3Bram
      <4>2. r[1] # 2
        BY <3>2, <4>1
      <4> QED
        BY <1>2, <2>3, <4>2
    <3> QED
      BY <3>1, <3>2
  <2> QED
    BY <1>1, <2>1, <2>4
<1> QED
  BY <1>3, <1>4, <1>5

LEMMA InitFollow == ControlInit => SetUpInv /\ OnlyKnown
<1> SUFFICES ASSUME ControlInit PROVE SetUpInv /\ OnlyKnown
  OBVIOUS
<1>1. <<>> \in Seq(Known) /\ Len(<<>>) = 0
  BY EmptySeq
<1>2. CoreSightType
  BY DEF ControlInit, CoreSightInit, CoreSightType
<1>3. ~Busy /\ Follows
  BY DEF ControlInit, Busy, Follows
<1>4. SetUpInv
  BY <1>2, <1>3 DEF ControlInit, SetUpInv
<1>5. OnlyKnown
  BY <1>1 DEF ControlInit, OnlyKnown, Idle
<1> QED
  BY <1>4, <1>5

LEMMA KnownStep ==
  ASSUME TypeOK, OneIsLive, OnlyKnown, [ControlNext]_controlVars
  PROVE  OnlyKnown'
<1>0. <<>> \in Seq(Known) /\ Idle.left = <<>> /\ pending \in Seq(Entries) /\ Len(pending) \in Nat
  BY EmptySeq, LenProperties DEF Idle, TypeOK
<1>1. CASE Run
  BY <1>1, ProgramsKnown DEF Run, TypeOK, OnlyKnown
<1>2. CASE Send
  <2>1. /\ cli.left # <<>> /\ cli'.left = cli.left /\ Len(pending') = Len(pending) + 1
        /\ \A i \in 1 .. Len(pending) : pending'[i] = pending[i]
        /\ pending'[Len(pending) + 1].request = Head(cli.left)
    BY <1>2, SendIs
  <2>2. Head(cli.left) \in Known
    BY <2>1, HeadTailProperties DEF OnlyKnown
  <2>3. ASSUME NEW i \in 1 .. Len(pending') PROVE pending'[i].request \in Known
    <3>1. i \in 1 .. Len(pending) \/ i = Len(pending) + 1
      BY <1>0, <2>1
    <3> QED
      BY <2>1, <2>2, <3>1 DEF OnlyKnown
  <2> QED
    BY <2>1, <2>3 DEF OnlyKnown
<1>3. CASE GiveUp
  <2>1. /\ Len(pending') = Len(pending)
        /\ \A i \in 1 .. Len(pending) : pending'[i].request = pending[i].request
    BY <1>3, GiveUpIs
  <2> QED
    BY <1>0, <1>3, <2>1 DEF GiveUp, OnlyKnown
<1>4. CASE LoseAnswer
  <2>1. PICK i \in 1 .. Len(pending) :
           /\ Len(pending') = Len(pending) - 1
           /\ \A j \in 1 .. Len(pending) - 1 :
                pending'[j] = IF j < i THEN pending[j] ELSE pending[j + 1]
    BY <1>4, LoseIs
  <2>2. ASSUME NEW j \in 1 .. Len(pending') PROVE pending'[j].request \in Known
    <3>1. j \in 1 .. Len(pending) /\ j + 1 \in 1 .. Len(pending) /\ j \in 1 .. Len(pending) - 1
      BY <1>0, <2>1
    <3>2. pending'[j] = pending[j] \/ pending'[j] = pending[j + 1]
      BY <2>1, <3>1
    <3> QED
      BY <3>1, <3>2 DEF OnlyKnown
  <2> QED
    BY <1>4, <2>2 DEF LoseAnswer, OnlyKnown
<1>5. CASE Serve
  <2>1. /\ Len(pending') = Len(pending) - 1
        /\ \A i \in 1 .. Len(pending) - 1 : pending'[i] = pending[i + 1]
    BY <1>5, ServeIs
  <2>2. ASSUME NEW i \in 1 .. Len(pending') PROVE pending'[i].request \in Known
    <3>1. i \in 1 .. Len(pending) - 1 /\ i + 1 \in 1 .. Len(pending)
      BY <1>0, <2>1
    <3> QED
      BY <2>1, <3>1 DEF OnlyKnown
  <2> QED
    BY <1>5, <2>2 DEF Serve, OnlyKnown
<1>6. CASE Reply
  <2>1. \/ cli' = cli \/ cli' = Idle
        \/ cli.left # <<>> /\ cli'.left = Tail(cli.left)
    BY <1>6, ReplyIs
  <2>2. cli'.left \in Seq(Known)
    BY <1>0, <2>1, HeadTailProperties DEF OnlyKnown
  <2> QED
    BY <1>6, <2>2 DEF Reply, OnlyKnown
<1>7. CASE Access \/ (\E c \in DOMAIN counter : Count(c)) \/ UNCHANGED controlVars
  BY <1>7 DEF Access, Count, controlVars, OnlyKnown
<1> QED
  BY <1>1, <1>2, <1>3, <1>4, <1>5, <1>6, <1>7 DEF ControlNext

\* The accesses of a Configure, as far as they are still to be made.
LEMMA ConfigureTodo ==
  ASSUME NEW s \in {1, 2}, NEW k \in 0 .. 27
  PROVE  LET a == Accesses(Configure(s, 2, 1))
             todo == SubSeq(a, k + 1, 29) IN
         /\ SubSeq(a, 1, 29) = a
         /\ todo # <<>> /\ Head(todo) = a[k + 1] /\ Tail(todo) = SubSeq(a, k + 2, 29)
         /\ k < 27 => a[k + 1].to \notin {"pl", "bram", "counter", "read"}
         /\ k = 27 => /\ Head(todo) = W("pl", "SOURCE_FORMAT", <<s, 2>>)
                      /\ Tail(todo) \in Seq(QuietAccess)
<1> DEFINE a == Accesses(Configure(s, 2, 1))
           core == CoreOf(s)
           S == {a[i] : i \in 1 .. 29}
           todo == SubSeq(a, k + 1, 29)
<1>1. /\ IsTuple(a, 29)
      /\ \A i \in 1 .. 5 : a[i] = W(Unlocks(core)[i], "LAR", 0)
      /\ \A i \in 1 .. 3 : a[5 + i] = Route(core)[i]
      /\ a[9] = W(core, "TRCOSLAR", 0) /\ a[10] = W(core, "TRCPRGCTLR", 0)
      /\ \A i \in 1 .. 13 :
           a[10 + i] = W(core, Configuration(core)[i][1], Configuration(core)[i][2])
      /\ a[24] = W(core, "TRCPRGCTLR", 1)
      /\ \A i \in 1 .. 3 : a[24 + i] = enable_tpiu_formatter[i]
      /\ a[28] = W("pl", "SOURCE_FORMAT", <<s, 2>>) /\ a[29] = W("pl", "SWO_BAUD", 1)
  BY ConfigureIs
<1> HIDE DEF a
<1>2. a \in Seq(S) /\ Len(a) = 29
  <2>1. a = [i \in 1 .. 29 |-> a[i]] /\ \A i \in 1 .. 29 : a[i] \in S
    BY <1>1 DEF IsTuple
  <2> HIDE DEF S
  <2> QED
    BY <2>1
<1> HIDE DEF S
<1>3. k + 1 \in 1 .. 29 /\ k + 1 \in 1 .. Len(a) + 1 /\ k + 1 <= Len(a) /\ (k + 1) + 1 = k + 2
  BY <1>2
<1>4. todo # <<>> /\ Head(todo) = a[k + 1] /\ Tail(todo) = SubSeq(a, k + 2, 29)
  <2> DEFINE m == k + 1
  <2>1. m \in 1 .. Len(a) + 1 /\ m <= Len(a) /\ m + 1 = k + 2
    BY <1>2, <1>3
  <2> HIDE DEF m
  <2>2. SubSeq(a, m, Len(a)) # <<>> /\ Head(SubSeq(a, m, Len(a))) = a[m]
        /\ Tail(SubSeq(a, m, Len(a))) = SubSeq(a, m + 1, Len(a))
    BY <1>2, <2>1, SuffixIs
  <2> QED
    BY <1>2, <2>1, <2>2 DEF m
<1>5. SubSeq(a, 1, 29) = a
  BY <1>2, SubSeqFull
<1>6. ASSUME k < 27 PROVE a[k + 1].to \notin {"pl", "bram", "counter", "read"}
  <2> DEFINE Bus == {"r5", "a53", "rpu", "apu", "system", "tpiu"}
  <2>1. core \in Bus
    BY DEF CoreOf
  <2>2. \A i \in 1 .. 5 : a[i].to \in Bus
    <3>1. \A i \in 1 .. 5 : Unlocks(core)[i] \in Bus
      BY <2>1 DEF Unlocks
    <3> QED
      BY <1>1, <3>1 DEF W
  <2>3. \A i \in 1 .. 3 : a[5 + i].to \in Bus
    <3>1. \A i \in 1 .. 3 : Route(core)[i].to \in Bus
      BY DEF Route, W
    <3> QED
      BY <1>1, <3>1
  <2>4. a[9].to \in Bus /\ a[10].to \in Bus /\ a[24].to \in Bus
    BY <1>1, <2>1 DEF W
  <2>5. \A i \in 1 .. 13 : a[10 + i].to \in Bus
    BY <1>1, <2>1 DEF W
  <2>6. \A i \in 1 .. 3 : a[24 + i].to \in Bus
    <3>1. \A i \in 1 .. 3 : enable_tpiu_formatter[i].to \in Bus
      BY DEF enable_tpiu_formatter, W
    <3> QED
      BY <1>1, <3>1
  <2> HIDE DEF Bus
  <2>7. \/ k + 1 \in 1 .. 5 \/ k + 1 \in {9, 10, 24}
        \/ k - 4 \in 1 .. 3 /\ 5 + (k - 4) = k + 1
        \/ k - 9 \in 1 .. 13 /\ 10 + (k - 9) = k + 1
        \/ k - 23 \in 1 .. 3 /\ 24 + (k - 23) = k + 1
    BY <1>6
  <2>8. a[k + 1].to \in Bus
    BY <2>2, <2>3, <2>4, <2>5, <2>6, <2>7
  <2> QED
    BY <2>8 DEF Bus
<1>7. ASSUME k = 27
      PROVE  /\ Head(todo) = W("pl", "SOURCE_FORMAT", <<s, 2>>)
             /\ Tail(todo) \in Seq(QuietAccess)
  <2>1. W("pl", "SWO_BAUD", 1) \in QuietAccess
    BY DEF QuietAccess, W
  <2>2. \A i \in 29 .. 29 : a[i] \in QuietAccess
    BY <1>1, <2>1
  <2>3. SubSeq(a, 29, 29) \in Seq(QuietAccess)
    BY <2>2, SubSeqProperties
  <2>4. k + 2 = 29 /\ k + 1 = 28
    BY <1>7
  <2> QED
    BY <1>1, <1>4, <2>3, <2>4
<1> QED
  BY <1>4, <1>5, <1>6, <1>7 DEF a

LEMMA SameCoreSight ==
  ASSUME UNCHANGED coresight
  PROVE  /\ CoreSightType' <=> CoreSightType
         /\ \A c : Delivers(c)' <=> Delivers(c)
         /\ \A c, k : SetUp(c, k)' <=> SetUp(c, k)
<1>1. CoreSightType' <=> CoreSightType
  BY DEF CoreSightType
<1>2. ASSUME NEW c PROVE Delivers(c)' <=> Delivers(c)
  <2>1. \A d : Reaches(d)' <=> Reaches(d)
    BY DEF Reaches
  <2> QED
    BY <2>1 DEF Delivers
<1>3. ASSUME NEW c, NEW k PROVE SetUp(c, k)' <=> SetUp(c, k)
  BY DEF SetUp
<1> QED
  BY <1>1, <1>2, <1>3

\* A step that leaves the registers alone and the accesses to make.
LEMMA SameBoard ==
  ASSUME SetUpInv, UNCHANGED <<pl, coresight>>,
         Busy' <=> Busy, Busy => serving'.todo = serving.todo
  PROVE  SetUpInv'
<1>1. CoreSightType' /\ (Follows' <=> Follows)
      /\ \A c, k : SetUp(c, k)' <=> SetUp(c, k)
  BY SameCoreSight DEF SetUpInv, Follows
<1> QED
  BY <1>1 DEF SetUpInv

LEMMA FollowServe ==
  ASSUME TypeOK, OnlyKnown, SetUpInv, Serve
  PROVE  SetUpInv'
<1> DEFINE r == pending[1].request
<1>1. /\ ~Busy /\ Len(pending) \in Nat \ {0}
      /\ Busy' => serving' = [live |-> pending[1].live, request |-> r,
                              image |-> pending[1].image, todo |-> Accesses(r),
                              answer |-> <<>>, before |-> counter]
  BY ServeIs
<1>2. Busy' => ~Refused(r)
  <2>1. Head(pending) = pending[1]
    BY <1>1 DEF TypeOK
  <2> QED
    BY <2>1 DEF Serve, Busy
<1>3. r \in Known
  BY <1>1 DEF OnlyKnown
<1>4. CoreSightType' /\ Follows' /\ pl' = pl
      /\ \A c, k : SetUp(c, k)' <=> SetUp(c, k)
  BY <1>1, SameCoreSight DEF Serve, SetUpInv, Follows
<1> HIDE DEF r
<1>5. Busy' => serving'.todo = Accesses(r)
  BY <1>1
<1>6. CASE \E s \in {1, 2} : r = Configure(s, 2, 1)
  <2>1. PICK s \in {1, 2} : r = Configure(s, 2, 1)
    BY <1>6
  <2>2. 0 \in 0 .. 27 /\ 0 + 1 = 1
    OBVIOUS
  <2>3. Accesses(r) = SubSeq(Accesses(Configure(s, 2, 1)), 0 + 1, 29)
    BY <2>1, <2>2, ConfigureTodo
  <2>4. SetUp(CoreOf(s), 0)
    BY DEF SetUp
  <2>5. Busy' => \E t \in {1, 2}, k \in 0 .. 27 :
            /\ serving'.todo = SubSeq(Accesses(Configure(t, 2, 1)), k + 1, 29)
            /\ SetUp(CoreOf(t), k)'
    BY <1>4, <1>5, <2>2, <2>3, <2>4
  <2> QED
    BY <1>4, <2>5 DEF SetUpInv
<1>7. CASE ~\E s \in {1, 2} : r = Configure(s, 2, 1)
  <2>1. Busy' => serving'.todo \in Seq(QuietAccess)
    BY <1>2, <1>3, <1>5, <1>7, AccessesQuiet
  <2> QED
    BY <1>4, <2>1 DEF SetUpInv
<1> QED
  BY <1>6, <1>7

\* An access of the set-up, and the one that switches the source at its end.
LEMMA ConfigureAccess ==
  ASSUME TypeOK, SetUpInv, Access, NEW s \in {1, 2}, NEW k \in 0 .. 27,
         serving.todo = SubSeq(Accesses(Configure(s, 2, 1)), k + 1, 29), SetUp(CoreOf(s), k)
  PROVE  SetUpInv'
<1> DEFINE acc == Accesses(Configure(s, 2, 1))
           a == Head(serving.todo)
<1>1. /\ SubSeq(acc, k + 1, 29) # <<>> /\ Head(SubSeq(acc, k + 1, 29)) = acc[k + 1]
      /\ Tail(SubSeq(acc, k + 1, 29)) = SubSeq(acc, k + 2, 29)
      /\ k < 27 => acc[k + 1].to \notin {"pl", "bram", "counter", "read"}
      /\ k = 27 => /\ Head(SubSeq(acc, k + 1, 29)) = W("pl", "SOURCE_FORMAT", <<s, 2>>)
                   /\ Tail(SubSeq(acc, k + 1, 29)) \in Seq(QuietAccess)
  BY ConfigureTodo
<1>2. /\ Busy' /\ serving'.todo = Tail(serving.todo)
  <2>1. /\ Busy'
        /\ serving' = [live |-> serving.live, request |-> serving.request,
                       image |-> serving.image, todo |-> Tail(serving.todo),
                       answer |-> serving.answer \o ReadOut(a), before |-> serving.before]
    BY AccessIs
  <2> HIDE DEF a
  <2> QED
    BY <2>1
<1> HIDE DEF acc
<1>3. /\ IF a.to = "pl" THEN PlTakes(a) ELSE UNCHANGED <<pl, releasedFor>>
      /\ IF a.to \in {"pl", "bram", "counter", "read"} THEN UNCHANGED coresight
                                                       ELSE CoreSightTakes(a)
  BY DEF Access
<1>4. a = Head(SubSeq(acc, k + 1, 29)) /\ serving'.todo = Tail(SubSeq(acc, k + 1, 29))
  BY <1>2 DEF acc
<1> HIDE DEF a
<1>5. CASE k < 27
  <2>1. a = acc[k + 1] /\ a.to \notin {"pl", "bram", "counter", "read"}
    BY <1>1, <1>4, <1>5
  <2>2. pl' = pl /\ CoreSightTakes(acc[k + 1])
    BY <1>3, <2>1
  <2>3. k \in 0 .. 26 /\ k + 1 \in 0 .. 27 /\ (k + 1) + 1 = k + 2
    BY <1>5
  <2>4. CoreSightType' /\ SetUp(CoreOf(s), k + 1)'
    BY <2>2, <2>3, SetUpStep DEF SetUpInv, acc
  <2>5. serving'.todo = SubSeq(acc, (k + 1) + 1, 29)
    BY <1>1, <1>4, <2>3
  <2>6. \E t \in {1, 2}, n \in 0 .. 27 :
            /\ serving'.todo = SubSeq(Accesses(Configure(t, 2, 1)), n + 1, 29)
            /\ SetUp(CoreOf(t), n)'
    BY <2>3, <2>4, <2>5 DEF acc
  <2> QED
    BY <1>2, <2>2, <2>4, <2>6 DEF SetUpInv
<1>6. CASE k = 27
  <2>1. a = W("pl", "SOURCE_FORMAT", <<s, 2>>) /\ serving'.todo \in Seq(QuietAccess)
    BY <1>1, <1>4, <1>6
  <2>2. a.to = "pl" /\ a.register = "SOURCE_FORMAT" /\ a.value[1] = s /\ a.value[2] = 2
    BY <2>1 DEF W
  <2>3. UNCHANGED coresight /\ pl' = [pl EXCEPT !.source = s, !.format = 2]
    BY <1>3, <2>2 DEF PlTakes
  <2>4. pl' = [source |-> s, format |-> 2, baud |-> pl.baud,
               running |-> pl.running, m3 |-> pl.m3]
    BY <2>3 DEF SetUpInv
  <2>5. Delivers(CoreOf(s))
    <3>1. CoreOf(s) \in Core
      BY DEF CoreOf, Core
    <3> QED
      BY <1>6, <3>1, SetUpDelivers DEF SetUpInv
  <2>6. CoreSightType' /\ Delivers(CoreOf(s))'
    BY <2>3, <2>5, SameCoreSight DEF SetUpInv
  <2>7. pl'.source = s /\ Follows'
    BY <2>4, <2>6 DEF Follows
  <2> QED
    BY <1>2, <2>1, <2>4, <2>6, <2>7 DEF SetUpInv
<1> QED
  BY <1>5, <1>6

\* Any other access.
LEMMA FollowAccess ==
  ASSUME TypeOK, SetUpInv, Access
  PROVE  SetUpInv'
<1> DEFINE a == Head(serving.todo)
<1>1. /\ Busy /\ Busy' /\ serving.todo # <<>> /\ serving'.todo = Tail(serving.todo)
  <2>1. /\ Busy /\ Busy' /\ serving.todo # <<>>
        /\ serving' = [live |-> serving.live, request |-> serving.request,
                       image |-> serving.image, todo |-> Tail(serving.todo),
                       answer |-> serving.answer \o ReadOut(a), before |-> serving.before]
    BY AccessIs
  <2> HIDE DEF a
  <2> QED
    BY <2>1
<1> SUFFICES ASSUME serving.todo \in Seq(QuietAccess), Follows PROVE SetUpInv'
  BY <1>1, ConfigureAccess DEF SetUpInv
<1>2. a \in QuietAccess /\ serving'.todo \in Seq(QuietAccess)
  BY <1>1, HeadTailProperties
<1>3. /\ IF a.to = "pl" THEN PlTakes(a) ELSE UNCHANGED <<pl, releasedFor>>
      /\ IF a.to \in {"pl", "bram", "counter", "read"} THEN UNCHANGED coresight
                                                       ELSE CoreSightTakes(a)
  BY DEF Access
<1> HIDE DEF a
<1>4. /\ a.to \in {"pl", "bram", "counter", "read"}
      /\ a.to = "pl" => \/ a.register \in {"CONTROL", "M3_CONTROL", "SWO_BAUD"}
                        \/ a.register = "SOURCE_FORMAT" /\ a.value[1] = 0
  BY <1>2 DEF QuietAccess, W
<1>5. UNCHANGED coresight
  BY <1>3, <1>4
<1>6. /\ pl' = [source |-> pl'.source, format |-> pl'.format, baud |-> pl'.baud,
                running |-> pl'.running, m3 |-> pl'.m3]
      /\ pl'.source \in {pl.source, 0}
  <2>1. pl = [source |-> pl.source, format |-> pl.format, baud |-> pl.baud,
              running |-> pl.running, m3 |-> pl.m3]
    BY DEF SetUpInv
  <2>2. CASE a.to # "pl"
    BY <1>3, <2>1, <2>2
  <2>3. CASE a.to = "pl" /\ a.register = "SOURCE_FORMAT"
    <3>1. pl' = [pl EXCEPT !.source = a.value[1], !.format = a.value[2]] /\ a.value[1] = 0
      BY <1>3, <1>4, <2>3 DEF PlTakes
    <3> QED
      BY <2>1, <3>1
  <2>4. CASE a.to = "pl" /\ a.register = "SWO_BAUD"
    <3>1. pl' = [pl EXCEPT !.baud = a.value]
      BY <1>3, <2>4 DEF PlTakes
    <3> QED
      BY <2>1, <3>1
  <2>5. CASE a.to = "pl" /\ a.register = "CONTROL"
    <3>1. pl' = [pl EXCEPT !.running = a.value = 3]
      BY <1>3, <2>5 DEF PlTakes
    <3> QED
      BY <2>1, <3>1
  <2>6. CASE a.to = "pl" /\ a.register = "M3_CONTROL"
    <3>1. pl' = [pl EXCEPT !.m3 = a.value]
      BY <1>3, <2>6 DEF PlTakes
    <3> QED
      BY <2>1, <3>1
  <2> QED
    BY <1>4, <2>2, <2>3, <2>4, <2>5, <2>6
<1>7. CoreSightType' /\ Follows'
  BY <1>5, <1>6, SameCoreSight DEF SetUpInv, Follows
<1> QED
  BY <1>1, <1>2, <1>6, <1>7 DEF SetUpInv

LEMMA FollowReply ==
  ASSUME TypeOK, OneIsLive, SetUpInv, Reply
  PROVE  SetUpInv'
<1>1. Busy /\ ~Busy' /\ serving.todo = <<>>
  BY ReplyIs
<1>2. Follows
  BY <1>1, ConfigureTodo DEF SetUpInv
<1>3. UNCHANGED <<pl, coresight>>
  BY DEF Reply
<1>4. CoreSightType' /\ Follows'
  BY <1>2, <1>3, SameCoreSight DEF SetUpInv, Follows
<1> QED
  BY <1>1, <1>3, <1>4 DEF SetUpInv

LEMMA FollowStep ==
  ASSUME TypeOK, OneIsLive, OnlyKnown, SetUpInv, [ControlNext]_controlVars
  PROVE  SetUpInv'
<1>1. CASE Run \/ Send \/ LoseAnswer \/ (\E c \in DOMAIN counter : Count(c)) \/ UNCHANGED controlVars
  <2>1. UNCHANGED <<pl, coresight, serving>>
    BY <1>1 DEF Run, Send, LoseAnswer, Count, boardVars, controlVars
  <2> QED
    BY <2>1, SameBoard DEF Busy
<1>2. CASE GiveUp
  <2>1. Busy' <=> Busy
    BY <1>2, GiveUpIs
  <2>2. Busy => serving'.todo = serving.todo
    BY <1>2, GiveUpIs
  <2> QED
    BY <1>2, <2>1, <2>2, SameBoard DEF GiveUp
<1> QED
  BY <1>1, <1>2, FollowServe, FollowAccess, FollowReply DEF ControlNext

-----------------------------------------------------------------------------
\* Type correctness: the board serves requests whose fields are words, and the
\* command line holds requests of one program (Controller::command, main.rs).
THEOREM TypeCorrect == ControlSpec => []TypeOK
<1>1. ControlInit => TypeOK /\ OneIsLive
  BY InitType
<1>2. TypeOK /\ OneIsLive /\ [ControlNext]_controlVars => TypeOK' /\ OneIsLive'
  BY TypeStep, LiveStep
<1> QED
  BY <1>1, <1>2, PTL DEF ControlSpec

LEMMA Inductive == ControlSpec => []IInv
<1>1. ControlInit => IInv
  BY InitType, InitLoad, InitRead DEF IInv
<1>2. IInv /\ [ControlNext]_controlVars => IInv'
  BY TypeStep, LiveStep, LoadStep, ReadStep, StatsStep DEF IInv
<1> QED
  BY <1>1, <1>2, PTL DEF ControlSpec

\* When load-m3 has released the M3, the memory begins with the whole image it
\* was given, for images and chunks of any size, whatever requests of programs
\* that timed out the board still executes (main.rs:243-298, lib.rs:292-320).
THEOREM ReleasedIsWhole == ControlSpec => []ReleasedImageIsWhole
<1>1. IInv => ReleasedImageIsWhole
  BY DEF IInv
<1> QED
  BY <1>1, Inductive, PTL

\* A 64-bit counter read as two words is never reported below the truth, and
\* above it by less than one high word, only across a carry (lib.rs:282-291),
\* for any word size and any number of counters.
THEOREM StatsAreNear == ControlSpec => []StatsNearTheTruth
<1>1. IInv => StatsNearTheTruth
  BY DEF IInv
<1> QED
  BY <1>1, Inductive, PTL

\* Whenever the board is at rest with the R5 or the A53 as its source, that
\* core's trace unit is on, programmed and alone on its way to a formatter that
\* frames, in whatever order sources were switched before and whether or not
\* anyone waited for the answers (lib.rs:243-257, 1037-1051).
THEOREM CoreSightFollows == ControlSpec => []CoreSightFollowsSource
<1> DEFINE Inv == TypeOK /\ OneIsLive /\ OnlyKnown /\ SetUpInv
<1>1. ControlInit => Inv
  BY InitType, InitFollow
<1>2. Inv /\ [ControlNext]_controlVars => Inv'
  BY TypeStep, LiveStep, KnownStep, FollowStep
<1>3. Inv => CoreSightFollowsSource
  BY DEF SetUpInv, Follows, CoreOf, Busy, CoreSightFollowsSource
<1> QED
  BY <1>1, <1>2, <1>3, PTL DEF ControlSpec
-----------------------------------------------------------------------------
(***************************************************************************)
(* Scheduler: the threads the services run in, for every length of a feed  *)
(* call, every depth of the transmit queue and any number of requests and  *)
(* frames.                                                                 *)
(***************************************************************************)
\* Where a thread can be.
ThreadPc ==
  {"idle", "work", "receive", "lock", "feed", "send", "sendwait",
   "accept", "start", "poll", "sleep", "closing"}

ThreadTypeOK ==
  /\ ready \in [Levels -> Seq(Threads)]
  /\ pc \in [Threads -> ThreadPc]
  /\ lock \in Services \cup {"none"}
  /\ work \in [Services -> 0 .. FeedSteps]
  /\ requests \in SUBSET Services /\ arrived \in 0 .. MaxRequests
  /\ frames \in 0 .. MaxFrames /\ queued \in 0 .. TxQueue /\ count \in 0 .. SleepEvery - 1

\* The lock is held by the service that is in its feed call, and that service
\* is the first of the ready list it shares with the other one.
HolderIsFirst ==
  \A t \in Services :
    /\ pc[t] = "feed" <=> lock = t
    /\ lock = t => ready[2] # <<>> /\ Head(ready[2]) = t

\* The inductive invariant.
ThreadInv == ThreadTypeOK /\ HolderIsFirst

-----------------------------------------------------------------------------
\* A thread has a ready list of its own priority.
LEMMA PriorityType ==
  /\ \A t \in Threads : Priority(t) \in Levels
  /\ \A t \in Services : Priority(t) = 2
  /\ Priority("ip") = 1 /\ Priority("trace") = 3 /\ Priority("diag") = 4
  BY DEF Priority, Threads, Services, Levels

\* What the kernel does to the ready lists keeps them lists of threads.
LEMMA ReadyType ==
  ASSUME NEW r \in [Levels -> Seq(Threads)], NEW t \in Threads
  PROVE  /\ Wake(r, t) \in [Levels -> Seq(Threads)]
         /\ r[Priority(t)] # <<>> =>
              [r EXCEPT ![Priority(t)] = Tail(@)] \in [Levels -> Seq(Threads)]
<1>1. Priority(t) \in Levels
  BY PriorityType
<1>2. r[Priority(t)] \in Seq(Threads)
  BY <1>1
<1>3. Append(r[Priority(t)], t) \in Seq(Threads)
  BY <1>2, AppendProperties
<1>4. r[Priority(t)] # <<>> => Tail(r[Priority(t)]) \in Seq(Threads)
  BY <1>2, HeadTailProperties
<1> QED
  BY <1>1, <1>3, <1>4 DEF Wake

\* A thread that joins a list does not change who is first in a list that is
\* not empty.
LEMMA WakeKeepsFirst ==
  ASSUME NEW r \in [Levels -> Seq(Threads)], NEW t \in Threads, r[2] # <<>>
  PROVE  Wake(r, t)[2] # <<>> /\ Head(Wake(r, t)[2]) = Head(r[2])
<1>1. r[2] \in Seq(Threads)
  BY DEF Levels
<1>2. Append(r[2], t) # <<>> /\ Head(Append(r[2], t)) = Head(r[2])
  BY <1>1, AppendProperties, HeadTailAppend
<1> QED
  BY <1>2, PriorityType DEF Wake

\* The IP thread's own list is not the services'.
LEMMA IpDoneKeepsServices ==
  ASSUME NEW r \in [Levels -> Seq(Threads)], IpDone(r)
  PROVE  ready'[2] = r[2]
  BY DEF IpDone, Levels

\* A list that is not empty stays so when a thread joins it.
LEMMA WakeKeepsOthers ==
  ASSUME NEW r \in [Levels -> Seq(Threads)], NEW t \in Threads, NEW p \in Levels, r[p] # <<>>
  PROVE  Wake(r, t)[p] # <<>>
<1>1. r[p] \in Seq(Threads)
  OBVIOUS
<1>2. Append(r[p], t) # <<>>
  BY <1>1, AppendProperties
<1> QED
  BY <1>2 DEF Wake

-----------------------------------------------------------------------------
LEMMA ThreadsBegin == Init => ThreadInv
<1> SUFFICES ASSUME Init PROVE ThreadInv
  OBVIOUS
<1>1. ready \in [Levels -> Seq(Threads)]
  BY DEF Init
<1>2. pc \in [Threads -> ThreadPc]
  BY DEF Init, ThreadPc, Threads, Services
<1>3. work \in [Services -> 0 .. FeedSteps] /\ lock \in Services \cup {"none"}
  BY SizesAssumption DEF Init
<1>4. /\ requests \in SUBSET Services /\ arrived \in 0 .. MaxRequests
      /\ frames \in 0 .. MaxFrames /\ queued \in 0 .. TxQueue /\ count \in 0 .. SleepEvery - 1
  BY SizesAssumption, SleepEveryAssumption DEF Init
<1>5. ThreadTypeOK
  BY <1>1, <1>2, <1>3, <1>4 DEF ThreadTypeOK
<1>6. HolderIsFirst
  BY DEF Init, HolderIsFirst, Services, Threads
<1> QED
  BY <1>5, <1>6 DEF ThreadInv

\* The running thread is the first of its list.
LEMMA RunningIsFirst ==
  ASSUME NEW t \in Services, Running(t)
  PROVE  ready[2] # <<>> /\ Head(ready[2]) = t
  BY PriorityType DEF Running

\* A service that runs and is not in its feed call runs while the lock is free.
LEMMA FreeWhileOthersRun ==
  ASSUME ThreadInv, NEW t \in Services, Running(t), pc[t] # "feed"
  PROVE  lock = "none"
<1>1. \A u \in Services : lock = u => u = t
  BY RunningIsFirst DEF ThreadInv, HolderIsFirst
<1> QED
  BY <1>1 DEF ThreadInv, HolderIsFirst, ThreadTypeOK

-----------------------------------------------------------------------------
\* Types are preserved by every step.
LEMMA ThreadTypeStep == ThreadTypeOK /\ [Next]_vars => ThreadTypeOK'
<1> SUFFICES ASSUME ThreadTypeOK, [Next]_vars PROVE ThreadTypeOK'
  OBVIOUS
<1> USE SizesAssumption, SleepEveryAssumption DEF ThreadTypeOK
<1>0. "ip" \in Threads /\ "trace" \in Threads /\ "diag" \in Threads /\ Services \subseteq Threads
  BY DEF Threads
<1>1. \A t \in Threads, where \in ThreadPc : Goto(t, where) => pc' \in [Threads -> ThreadPc]
  BY DEF Goto
<1>2. \A t \in Threads : Running(t) => ready[Priority(t)] # <<>>
  BY DEF Running
<1>3. \A t \in Threads : Running(t) =>
        /\ Block(t) \in [Levels -> Seq(Threads)] /\ Relinquish(t) \in [Levels -> Seq(Threads)]
  <2>1. ASSUME NEW t \in Threads, Running(t)
        PROVE  Block(t) \in [Levels -> Seq(Threads)]
    BY <2>1, <1>2, ReadyType DEF Block
  <2>2. ASSUME NEW t \in Threads, Running(t)
        PROVE  Relinquish(t) \in [Levels -> Seq(Threads)]
    <3>1. Relinquish(t) = Wake(Block(t), t)
      BY PriorityType DEF Relinquish, Wake, Block
    <3> QED
      BY <2>1, <2>2, <3>1, ReadyType
  <2> QED
    BY <2>1, <2>2
<1>4. \A t \in Threads : Wake(ready, t) \in [Levels -> Seq(Threads)]
  BY ReadyType
<1>5. ASSUME NEW r \in [Levels -> Seq(Threads)], r[1] # <<>>, IpDone(r)
      PROVE  ready' \in [Levels -> Seq(Threads)]
  BY <1>0, <1>5, ReadyType, PriorityType DEF IpDone
<1>6. Running("ip") => ready[1] # <<>> /\ \A t \in Threads : Wake(ready, t)[1] # <<>>
  BY <1>0, <1>2, PriorityType, WakeKeepsOthers DEF Levels
<1>7. CASE UNCHANGED vars
  BY <1>7 DEF vars
<1>8. ASSUME NEW t \in Services, Service(t) PROVE ThreadTypeOK'
  <2>1. CASE ReceiveRequest(t)
    BY <2>1, <1>0, <1>1 DEF ReceiveRequest, ThreadPc
  <2>2. CASE ReceiveBlocks(t)
    BY <2>2, <1>0, <1>3 DEF ReceiveBlocks
  <2>3. CASE AcquireLock(t)
    BY <2>3, <1>0, <1>1 DEF AcquireLock, ThreadPc
  <2>4. CASE FeedStep(t)
    BY <2>4 DEF FeedStep
  <2>5. CASE ReleaseLock(t)
    BY <2>5, <1>0, <1>1 DEF ReleaseLock, ThreadPc
  <2>6. CASE SendReply(t)
    BY <2>6, <1>0, <1>1, <1>3 DEF SendReply, ThreadPc
  <2> QED
    BY <1>8, <2>1, <2>2, <2>3, <2>4, <2>5, <2>6 DEF Service
<1>9. CASE Trace
  <2>1. CASE PollEmpty
    BY <2>1, <1>0, <1>3 DEF PollEmpty
  <2>2. CASE PollFrame
    BY <2>2, <1>0, <1>1 DEF PollFrame, ThreadPc
  <2>3. CASE SendBlocks
    BY <2>3, <1>0, <1>1, <1>3 DEF SendBlocks, ThreadPc
  <2>4. CASE SendFrame
    BY <2>4, <1>0, <1>1, <1>3 DEF SendFrame, ThreadPc
  <2>5. CASE StreamEnds
    BY <2>5, <1>0, <1>1, <1>3 DEF StreamEnds, ThreadPc
  <2>6. CASE StreamStarts
    BY <2>6, <1>0, <1>1 DEF StreamStarts, ThreadPc
  <2> QED
    BY <1>9, <2>1, <2>2, <2>3, <2>4, <2>5, <2>6 DEF Trace
<1>10. CASE DiagWork
  BY <1>10, <1>0, <1>1, <1>3 DEF DiagWork, ThreadPc
<1>11. CASE Ip
  <2>1. CASE IpNothing
    BY <2>1, <1>0, <1>1, <1>5, <1>6 DEF IpNothing, ThreadPc
  <2>2. CASE IpDelivers
    <3>1. ready' \in [Levels -> Seq(Threads)]
      <4>1. PICK t \in Services :
              IpDone(IF pc[t] = "receive" /\ ~IsReady(t) THEN Wake(ready, t) ELSE ready)
        BY <2>2 DEF IpDelivers
      <4> QED
        BY <2>2, <4>1, <1>0, <1>4, <1>5, <1>6 DEF IpDelivers
    <3>2. pc' \in [Threads -> ThreadPc]
      BY <2>2, <1>0, <1>1 DEF IpDelivers, ThreadPc
    <3> QED
      BY <2>2, <3>1, <3>2 DEF IpDelivers
  <2>3. CASE IpUnblocksReply
    BY <2>3, <1>0, <1>4, <1>5, <1>6 DEF IpUnblocksReply, ThreadPc
  <2>4. CASE IpConnects
    BY <2>4, <1>0, <1>4, <1>5, <1>6 DEF IpConnects, ThreadPc
  <2>5. CASE IpAcks
    <3>1. ready' \in [Levels -> Seq(Threads)]
      BY <2>5, <1>0, <1>4, <1>5, <1>6 DEF IpAcks
    <3>2. pc' \in [Threads -> ThreadPc]
      BY <2>5, <1>0, <1>1 DEF IpAcks, ThreadPc
    <3> QED
      BY <2>5, <3>1, <3>2 DEF IpAcks
  <2>6. CASE IpResets
    BY <2>6, <1>0, <1>4, <1>5, <1>6 DEF IpResets, ThreadPc
  <2> QED
    BY <1>11, <2>1, <2>2, <2>3, <2>4, <2>5, <2>6 DEF Ip
<1>12. CASE NetworkInterrupt
  BY <1>12, <1>0, <1>1, <1>4 DEF NetworkInterrupt, ThreadPc
<1>13. CASE TickTrace
  BY <1>13, <1>0, <1>1, <1>4 DEF TickTrace, ThreadPc
<1>14. CASE TickDiag
  BY <1>14, <1>0, <1>1, <1>4 DEF TickDiag, ThreadPc
<1>15. CASE DmaCompletes
  BY <1>15 DEF DmaCompletes
<1> QED
  BY <1>7, <1>8, <1>9, <1>10, <1>11, <1>12, <1>13, <1>14, <1>15 DEF Next

-----------------------------------------------------------------------------
\* Every step leaves the lock with the first of the services, if with anyone.
LEMMA HolderStep == ThreadInv /\ [Next]_vars => HolderIsFirst'
<1> SUFFICES ASSUME ThreadInv, [Next]_vars PROVE HolderIsFirst'
  OBVIOUS
<1> USE DEF ThreadInv, ThreadTypeOK
<1>0. /\ "ip" \in Threads /\ "trace" \in Threads /\ "diag" \in Threads
      /\ Services \subseteq Threads /\ "ip" \notin Services /\ "trace" \notin Services
      /\ "diag" \notin Services /\ "none" \notin Services /\ 2 \in Levels
  BY DEF Threads, Services, Levels
\* Steps that leave the lock, the services' list and who is in a feed call alone.
<1>1. ASSUME UNCHANGED lock, ready'[2] = ready[2],
             \A t \in Services : pc'[t] = "feed" <=> pc[t] = "feed"
      PROVE  HolderIsFirst'
  BY <1>1 DEF HolderIsFirst
\* The same, but a thread has joined a list.
<1>2. ASSUME UNCHANGED lock, NEW u \in Threads, ready'[2] = Wake(ready, u)[2],
             \A t \in Services : pc'[t] = "feed" <=> pc[t] = "feed"
      PROVE  HolderIsFirst'
  BY <1>2, WakeKeepsFirst DEF HolderIsFirst
\* A service that is not in its feed call blocks: nobody holds the lock.
<1>3. ASSUME lock = "none", UNCHANGED lock, \A t \in Services : pc'[t] # "feed"
      PROVE  HolderIsFirst'
  BY <1>0, <1>3 DEF HolderIsFirst
<1>4. CASE UNCHANGED vars
  BY <1>4, <1>1 DEF vars
<1>5. ASSUME NEW t \in Services, Service(t) PROVE HolderIsFirst'
  <2>1. CASE ReceiveRequest(t)
    BY <2>1, <1>1, <1>0 DEF ReceiveRequest, Goto
  <2>2. CASE ReceiveBlocks(t)
    <3>1. lock = "none"
      BY <2>2, FreeWhileOthersRun DEF ReceiveBlocks
    <3> QED
      BY <2>2, <3>1, <1>3, <1>0 DEF ReceiveBlocks, HolderIsFirst
  <2>3. CASE AcquireLock(t)
    <3>1. ready[2] # <<>> /\ Head(ready[2]) = t
      BY <2>3, RunningIsFirst DEF AcquireLock
    <3>2. lock' = t /\ UNCHANGED ready /\ pc' = [pc EXCEPT ![t] = "feed"] /\ lock = "none"
      BY <2>3 DEF AcquireLock, Goto
    <3> QED
      BY <3>1, <3>2, <1>0 DEF HolderIsFirst
  <2>4. CASE FeedStep(t)
    BY <2>4, <1>1 DEF FeedStep
  <2>5. CASE ReleaseLock(t)
    <3>1. lock' = "none" /\ pc' = [pc EXCEPT ![t] = "send"] /\ pc[t] = "feed"
      BY <2>5 DEF ReleaseLock, Goto
    <3> QED
      BY <3>1, <1>0 DEF HolderIsFirst
  <2>6. CASE SendReply(t)
    <3>1. lock = "none"
      BY <2>6, FreeWhileOthersRun DEF SendReply
    <3>2. \A u \in Services : pc'[u] # "feed"
      BY <2>6, <3>1, <1>0 DEF SendReply, Goto, HolderIsFirst
    <3> QED
      BY <2>6, <3>1, <3>2, <1>3 DEF SendReply
  <2> QED
    BY <1>5, <2>1, <2>2, <2>3, <2>4, <2>5, <2>6 DEF Service
<1>6. CASE Trace
  <2>1. UNCHANGED lock /\ ready'[2] = ready[2]
    BY <1>6, <1>0, PriorityType
       DEF Trace, PollEmpty, PollFrame, SendBlocks, SendFrame, StreamEnds, StreamStarts,
           Block, Relinquish
  <2>2. \A t \in Services : pc'[t] = pc[t]
    BY <1>6, <1>0
       DEF Trace, PollEmpty, PollFrame, SendBlocks, SendFrame, StreamEnds, StreamStarts, Goto
  <2> QED
    BY <2>1, <2>2, <1>1
<1>7. CASE DiagWork
  BY <1>7, <1>0, <1>1, PriorityType DEF DiagWork, Goto, Block
<1>8. CASE Ip
  <2>1. UNCHANGED lock
    BY <1>8 DEF Ip, IpNothing, IpDelivers, IpUnblocksReply, IpConnects, IpAcks, IpResets
  <2>2. \A t \in Services : pc'[t] = "feed" <=> pc[t] = "feed"
    BY <1>8, <1>0
       DEF Ip, IpNothing, IpDelivers, IpUnblocksReply, IpConnects, IpAcks, IpResets, Goto
  <2>3. ready'[2] = ready[2] \/ \E t \in Threads : ready'[2] = Wake(ready, t)[2]
    <3>1. IpDone(ready) \/ \E t \in Threads : IpDone(Wake(ready, t))
      BY <1>8, <1>0
         DEF Ip, IpNothing, IpDelivers, IpUnblocksReply, IpConnects, IpAcks, IpResets
    <3> QED
      BY <3>1, IpDoneKeepsServices, ReadyType
  <2> QED
    BY <2>1, <2>2, <2>3, <1>1, <1>2
<1>9. CASE NetworkInterrupt
  BY <1>9, <1>0, <1>2 DEF NetworkInterrupt, Goto
<1>10. CASE TickTrace
  BY <1>10, <1>0, <1>2 DEF TickTrace, Goto
<1>11. CASE TickDiag
  BY <1>11, <1>0, <1>2 DEF TickDiag, Goto
<1>12. CASE DmaCompletes
  BY <1>12, <1>1 DEF DmaCompletes
<1> QED
  BY <1>4, <1>5, <1>6, <1>7, <1>8, <1>9, <1>10, <1>11, <1>12 DEF Next

LEMMA ThreadsHold == Spec => []ThreadInv
<1>1. ThreadInv /\ [Next]_vars => ThreadInv'
  BY ThreadTypeStep, HolderStep DEF ThreadInv
<1> QED
  BY ThreadsBegin, <1>1, PTL DEF Spec

-----------------------------------------------------------------------------
\* The variables keep their types.
THEOREM ThreadTypeCorrect == Spec => []ThreadTypeOK
<1>1. ThreadInv => ThreadTypeOK
  BY DEF ThreadInv
<1> QED
  BY ThreadsHold, <1>1, PTL

\* A service that is about to take the spinlock of ffi.rs finds it free, for
\* whatever the other service does and the interrupts do: compare_exchange_weak
\* is never repeated (ffi.rs:123-131, main.c:885-888).
THEOREM LockIsFree == Spec => []NobodySpins
<1>1. ThreadInv => NobodySpins
  <2> SUFFICES ASSUME ThreadInv, NEW t \in Services, Running(t), pc[t] = "lock" PROVE lock = "none"
    BY DEF NobodySpins
  <2> QED
    BY FreeWhileOthersRun
<1> QED
  BY ThreadsHold, <1>1, PTL
=============================================================================
