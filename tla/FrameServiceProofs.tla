------------------------- MODULE FrameServiceProofs -------------------------
(***************************************************************************)
(* Proofs about FrameService, for any requests, clients, sizes of the pool *)
(* and of a payload, and however the network cuts the stream.              *)
(***************************************************************************)
EXTENDS FrameService, SequenceTheorems, TLAPS

Points == {"accept", "receive", "feed", "reply"}
Decoder == [length : Seq(Bytes), expected : Nat, payload : Seq(Bytes), ready : BOOLEAN]

TypeOK ==
  /\ pc \in Points /\ decoder \in Decoder
  /\ data \in Seq(Bytes) /\ index \in 0 .. Len(data) /\ response \in Seq(Bytes)
  /\ free \in Nat /\ queued \in Nat /\ failedSends \in Nat
  /\ orderly \in BOOLEAN /\ conn \in {"none", "open", "closed"}
  /\ wire \in Seq(Bytes) /\ unsent \in Seq(Bytes) /\ connections \in Nat
  /\ sent \in Seq(Frames) /\ received \in Nat
  /\ executed \in Seq(Accepted) /\ replied \in Seq(Seq(Bytes)) /\ clean \in BOOLEAN

\* The inductive invariant: each part needs the types only.
IInv == TypeOK /\ DecoderHasRoom /\ PoolAccounted

-----------------------------------------------------------------------------
LEMMA ResetType == ResetDecoder \in Decoder /\ ResetDecoder.length = <<>>
                     /\ ResetDecoder.payload = <<>> /\ ~ResetDecoder.ready
<1>1. <<>> \in Seq(Bytes)
  BY EmptySeq
<1> QED
  BY <1>1 DEF ResetDecoder, Decoder

\* A byte that push accepts leaves the decoder with room for the next one,
\* unless it completes the frame.
LEMMA PushType ==
  ASSUME NEW d \in Decoder, NEW b \in Bytes PROVE Push(d, b) \in Decoder
<1>1. /\ Append(d.length, b) \in Seq(Bytes) /\ Append(d.payload, b) \in Seq(Bytes)
      /\ d.length \in Seq(Bytes) /\ Len(d.length) \in Nat
      /\ Len(Append(d.length, b)) = Len(d.length) + 1
      /\ \A i \in 1 .. Len(d.length) + 1 : Append(d.length, b)[i] \in Nat
  <2>1. d.length \in Seq(Bytes) /\ d.payload \in Seq(Bytes)
    BY DEF Decoder
  <2>2. \A s \in Seq(Bytes) :
          Append(s, b) \in Seq(Bytes) /\ Len(Append(s, b)) = Len(s) + 1 /\ Len(s) \in Nat
    BY AppendProperties, LenProperties
  <2>3. \A s \in Seq(Bytes) : \A i \in 1 .. Len(s) + 1 : Append(s, b)[i] \in Bytes
    BY AppendProperties, ElementOfSeq, LenProperties
  <2>4. \A x \in Bytes : x \in Nat
    BY BytesAssumption
  <2>5. \A i \in 1 .. Len(d.length) + 1 : Append(d.length, b)[i] \in Nat
    BY <2>1, <2>3, <2>4
  <2> QED
    BY <2>1, <2>2, <2>5
<1>2. CASE Len(d.length) < 4
  <2>1. CASE Len(Append(d.length, b)) < 4
    BY <1>1, <1>2, <2>1 DEF Push, PushHeader, Decoder
  <2>2. CASE ~(Len(Append(d.length, b)) < 4)
    <3>1. Len(d.length) + 1 = 4
      BY <1>1, <1>2, <2>2
    <3>2. Declared(Append(d.length, b)) \in Nat
      <4> DEFINE h == Append(d.length, b)
      <4>1. h[1] \in Nat /\ h[2] \in Nat /\ h[3] \in Nat /\ h[4] \in Nat
        BY <1>1, <3>1
      <4> HIDE DEF h
      <4>2. Declared(h) \in Nat
        BY <4>1 DEF Declared
      <4> QED
        BY <4>2 DEF h
    <3> QED
      BY <1>1, <1>2, <2>2, <3>2 DEF Push, PushHeader, Decoder
  <2> QED
    BY <2>1, <2>2
<1>3. CASE ~(Len(d.length) < 4)
  BY <1>1, <1>3 DEF Push, PushPayload, Decoder
<1> QED
  BY <1>2, <1>3

LEMMA PushKeepsRoom ==
  ASSUME TypeOK, DecoderHasRoom, NEW b \in Bytes, ~PushFails(decoder, b),
         ~Push(decoder, b).ready, decoder' = Push(decoder, b)
  PROVE  DecoderHasRoom'
<1> DEFINE d == decoder
<1>1. /\ d \in Decoder /\ d.length \in Seq(Bytes) /\ d.payload \in Seq(Bytes)
      /\ Len(d.length) \in Nat /\ Len(d.payload) \in Nat /\ d.expected \in Nat
      /\ Len(Append(d.length, b)) = Len(d.length) + 1
      /\ Len(Append(d.payload, b)) = Len(d.payload) + 1
  BY AppendProperties, LenProperties DEF TypeOK, Decoder
<1>2. /\ ~Push(d, b).ready /\ Push(d, b).expected <= MaxPayload /\ Push(d, b) \in Decoder
      /\ Push(d, b).expected \in Nat
  <2>1. Push(d, b) \in Decoder
    BY <1>1, PushType
  <2> QED
    BY <2>1, PayloadAssumption DEF PushFails, Decoder
<1>3. CASE Len(d.length) + 1 < 4
  <2>1. Push(d, b) = [d EXCEPT !.length = Append(d.length, b)]
    BY <1>1, <1>3 DEF Push, PushHeader
  <2> QED
    BY <1>1, <1>2, <1>3, <2>1 DEF DecoderHasRoom, Decoder
<1>4. CASE Len(d.length) + 1 = 4
  <2> DEFINE h == Append(d.length, b)
  <2>1. Push(d, b) = [d EXCEPT !.length = h, !.expected = Declared(h), !.ready = (Declared(h) = 0)]
    BY <1>1, <1>4 DEF Push, PushHeader
  <2>2. /\ Push(d, b).length = h /\ Push(d, b).expected = Declared(h)
        /\ Push(d, b).ready = (Declared(h) = 0) /\ Push(d, b).payload = d.payload
    BY <1>1, <2>1 DEF Decoder
  <2>3. d.payload = <<>> /\ Len(h) = 4 /\ Declared(h) # 0
    <3>1. Len(d.length) < 4
      BY <1>1, <1>4
    <3>2. d.payload = <<>>
      BY <3>1 DEF DecoderHasRoom
    <3> QED
      BY <1>1, <1>2, <1>4, <2>2, <3>2
  <2> QED
    <3> HIDE DEF h
    <3>1. Len(decoder'.payload) < decoder'.expected
      BY <1>2, <2>2, <2>3
    <3> QED
      BY <1>2, <2>2, <2>3, <3>1 DEF DecoderHasRoom
<1>5. CASE Len(d.length) = 4
  <2> DEFINE p == Append(d.payload, b)
  <2>1. Push(d, b) = [d EXCEPT !.payload = p, !.ready = (Len(p) = d.expected)]
    BY <1>5 DEF Push, PushPayload
  <2>2. /\ Push(d, b).length = d.length /\ Push(d, b).expected = d.expected
        /\ Push(d, b).ready = (Len(p) = d.expected) /\ Push(d, b).payload = p
    BY <1>1, <2>1 DEF Decoder
  <2> QED
    <3>1. Len(d.payload) < d.expected
      BY <1>5 DEF DecoderHasRoom
    <3>2. Len(p) \in Nat /\ Len(p) <= d.expected /\ Len(p) # d.expected
      <4>1. Len(p) # d.expected
        BY <1>2, <2>2
      <4>2. Len(p) = Len(d.payload) + 1 /\ Len(d.payload) \in Nat /\ d.expected \in Nat
        BY <1>1
      <4> HIDE DEF p, d
      <4> QED
        BY <3>1, <4>1, <4>2
    <3> HIDE DEF p
    <3> QED
      BY <1>1, <1>2, <1>5, <2>2, <3>2 DEF DecoderHasRoom
<1>6. Len(d.length) + 1 < 4 \/ Len(d.length) + 1 = 4 \/ Len(d.length) = 4
  <2>1. Len(d.length) <= 4
    BY DEF DecoderHasRoom
  <2>2. Len(d.length) \in Nat
    BY <1>1
  <2>3. \A n \in Nat : n <= 4 => n + 1 < 4 \/ n + 1 = 4 \/ n = 4
    OBVIOUS
  <2> QED
    BY <2>1, <2>2, <2>3
<1> QED
  BY <1>3, <1>4, <1>5, <1>6

-----------------------------------------------------------------------------
LEMMA PartType ==
  ASSUME NEW S, NEW s \in Seq(S), NEW m \in 1 .. Len(s) + 1, NEW n \in 0 .. Len(s)
  PROVE  SubSeq(s, m, n) \in Seq(S)
<1>1. Len(s) \in Nat /\ m \in Int /\ n \in Int
  BY LenProperties
<1>2. \A i \in m .. n : s[i] \in S
  BY <1>1, ElementOfSeq
<1> QED
  BY <1>1, <1>2, SubSeqProperties

\* The bytes that are left of a sequence when n of them are gone.
LEMMA RestType ==
  ASSUME NEW s \in Seq(Bytes), NEW n \in 0 .. Len(s)
  PROVE  SubSeq(s, n + 1, Len(s)) \in Seq(Bytes) /\ SubSeq(s, 1, n) \in Seq(Bytes)
<1>1. Len(s) \in Nat
  BY LenProperties
<1>2. n + 1 \in 1 .. Len(s) + 1 /\ 1 \in 1 .. Len(s) + 1 /\ Len(s) \in 0 .. Len(s)
  BY <1>1
<1> QED
  BY <1>2, PartType

LEMMA InitInv == Init => IInv
<1> SUFFICES ASSUME Init PROVE IInv
  OBVIOUS
<1>1. \A S : <<>> \in Seq(S) /\ Len(<<>>) = 0
  BY EmptySeq
<1>2. TypeOK
  BY <1>1, ResetType, BoundsAssumption DEF Init, TypeOK, Points
<1>3. DecoderHasRoom
  BY ResetType DEF Init, DecoderHasRoom
<1>4. PoolAccounted
  BY BoundsAssumption DEF Init, PoolAccounted
<1> QED
  BY <1>2, <1>3, <1>4 DEF IInv

LEMMA TypeStep == ASSUME TypeOK, [Next]_vars PROVE TypeOK'
<1>0. /\ \A S : <<>> \in Seq(S) /\ Len(<<>>) = 0
      /\ Len(data) \in Nat /\ Len(wire) \in Nat /\ Len(unsent) \in Nat
  BY EmptySeq, LenProperties DEF TypeOK
<1>1. CASE Accept
  BY <1>1 DEF Accept, TypeOK, Points, clientVars, history
<1>2. CASE Receive
  <2>1. PICK n \in 1 .. Len(wire) :
          data' = SubSeq(wire, 1, n) /\ wire' = SubSeq(wire, n + 1, Len(wire))
    BY <1>2 DEF Receive
  <2>2. data' \in Seq(Bytes) /\ wire' \in Seq(Bytes)
    BY <1>0, <2>1, RestType DEF TypeOK
  <2>3. Len(data') \in Nat /\ index' = 0 /\ received' = received + Len(data') /\ free' = free - 1
        /\ free > 0 /\ pc' = "feed"
    BY <1>2, <2>2, LenProperties DEF Receive
  <2> QED
    BY <1>2, <2>2, <2>3 DEF Receive, TypeOK, Points
<1>3. CASE Disconnect
  <2>1. (decoder = ResetDecoder) \in BOOLEAN
    OBVIOUS
  <2> QED
    BY <1>0, <1>3, <2>1 DEF Disconnect, TypeOK, Points
<1>4. CASE FeedByte
  <2>1. index < Len(data) /\ index' = index + 1 /\ decoder' = Push(decoder, data[index + 1])
    BY <1>4 DEF FeedByte
  <2>2. data[index + 1] \in Bytes /\ index' \in 0 .. Len(data)
    BY <1>0, <2>1, ElementOfSeq DEF TypeOK
  <2>3. decoder' \in Decoder
    BY <2>1, <2>2, PushType DEF TypeOK
  <2> QED
    BY <1>4, <2>2, <2>3 DEF FeedByte, TypeOK, clientVars
<1>5. CASE FeedFrame \/ FeedError
  <2>1. index < Len(data) /\ decoder' = ResetDecoder /\ index' = 0
    BY <1>5 DEF FeedFrame, FeedError, Consume
  <2>2. PICK n \in 1 .. Len(data) : data' = SubSeq(data, n + 1, Len(data))
    <3>1. index + 1 \in 1 .. Len(data) /\ 1 \in 1 .. Len(data)
      BY <1>0, <2>1 DEF TypeOK
    <3> QED
      BY <1>5, <3>1 DEF FeedFrame, FeedError, Consume
  <2>3. data' \in Seq(Bytes) /\ decoder' \in Decoder /\ 0 \in 0 .. Len(data')
    BY <1>0, <2>1, <2>2, RestType, ResetType, LenProperties DEF TypeOK
  <2>4. CASE FeedFrame
    <3> DEFINE d == Push(decoder, data[index + 1])
    <3>1. d.payload \in Accepted /\ executed' = Append(executed, d.payload)
          /\ response' = d.payload
      BY <2>4 DEF FeedFrame
    <3>2. executed' \in Seq(Accepted) /\ response' \in Seq(Bytes)
      BY <3>1, FramesAssumption, AppendProperties DEF TypeOK
    <3> QED
      BY <2>1, <2>3, <2>4, <3>2 DEF FeedFrame, TypeOK, Points, clientVars
  <2>5. CASE FeedError
    BY <2>1, <2>3, <2>5 DEF FeedError, TypeOK, clientVars
  <2> QED
    BY <1>5, <2>4, <2>5
<1>6. CASE FeedEnd
  BY <1>0, <1>6 DEF FeedEnd, TypeOK, Points, clientVars, history
<1>7. CASE SendReply
  <2>1. replied' \in Seq(Seq(Bytes))
    BY <1>7, AppendProperties DEF SendReply, TypeOK
  <2> QED
    BY <1>0, <1>7, <2>1 DEF SendReply, TypeOK, Points, clientVars
<1>8. CASE SendReplyFails
  BY <1>0, <1>8 DEF SendReplyFails, TypeOK, Points, clientVars, history
<1>9. CASE ClientConnect
  BY <1>0, <1>9 DEF ClientConnect, TypeOK, threadVars, history
<1>10. CASE ClientBegin
  <2>1. PICK f \in Frames : sent' = Append(sent, f) /\ unsent' = f
    BY <1>10, FramesAssumption DEF ClientBegin
  <2>2. sent' \in Seq(Frames) /\ unsent' \in Seq(Bytes)
    BY <2>1, FramesAssumption, AppendProperties DEF TypeOK
  <2> QED
    BY <1>10, <2>2 DEF ClientBegin, TypeOK, threadVars, history
<1>11. CASE ClientSend
  <2>1. PICK n \in (IF orderly THEN Len(unsent) ELSE 1) .. Len(unsent) :
          /\ wire' = wire \o SubSeq(unsent, 1, n)
          /\ unsent' = SubSeq(unsent, n + 1, Len(unsent))
    BY <1>11 DEF ClientSend
  <2>2. n \in 0 .. Len(unsent)
    BY <1>0, <2>1
  <2>3. unsent' \in Seq(Bytes) /\ wire' \in Seq(Bytes)
    BY <2>1, <2>2, RestType, ConcatProperties DEF TypeOK
  <2> QED
    BY <1>11, <2>3 DEF ClientSend, TypeOK, threadVars, history
<1>12. CASE ClientClose
  BY <1>0, <1>12 DEF ClientClose, TypeOK, threadVars, history
<1>13. CASE ClientAck
  BY <1>13 DEF ClientAck, TypeOK, threadVars, clientVars, history
<1>14. CASE UNCHANGED vars
  BY <1>14 DEF vars, TypeOK
<1> QED
  BY <1>1, <1>2, <1>3, <1>4, <1>5, <1>6, <1>7, <1>8, <1>9, <1>10, <1>11, <1>12, <1>13, <1>14
  DEF Next, ServiceThread, Client

\* Only FeedByte leaves the decoder in the middle of a frame.
LEMMA RoomStep == ASSUME IInv, [Next]_vars PROVE DecoderHasRoom'
<1>1. CASE FeedByte
  <2>1. data[index + 1] \in Bytes
    <3>1. data \in Seq(Bytes) /\ index + 1 \in 1 .. Len(data)
      BY <1>1, LenProperties DEF IInv, TypeOK, FeedByte
    <3> QED
      BY <3>1, ElementOfSeq
  <2> QED
    BY <1>1, <2>1, PushKeepsRoom DEF FeedByte, IInv
<1>2. CASE FeedFrame \/ FeedError
  <2>1. decoder' = ResetDecoder
    BY <1>2 DEF FeedFrame, FeedError
  <2> QED
    BY <2>1, ResetType DEF DecoderHasRoom
<1>3. CASE ~(FeedByte \/ FeedFrame \/ FeedError)
  <2>1. decoder' = decoder
    BY <1>3 DEF Next, ServiceThread, Client, Accept, Receive, Disconnect, FeedEnd, SendReply,
       SendReplyFails, ClientConnect, ClientBegin, ClientSend, ClientClose, ClientAck,
       threadVars, vars
  <2> QED
    BY <2>1 DEF IInv, DecoderHasRoom
<1> QED
  BY <1>1, <1>2, <1>3

\* Each step moves a packet, or none.
LEMMA PoolStep == ASSUME IInv, [Next]_vars PROVE PoolAccounted'
<1>0. /\ free \in Nat /\ queued \in Nat /\ failedSends \in Nat
      /\ PoolSize = free + queued + failedSends + (IF pc \in {"feed", "reply"} THEN 1 ELSE 0)
  BY DEF IInv, TypeOK, PoolAccounted
<1>1. CASE Accept \/ FeedByte \/ FeedFrame \/ FeedError \/ ClientConnect \/ ClientBegin
             \/ ClientSend \/ ClientClose \/ UNCHANGED vars
  <2>1. UNCHANGED <<free, queued, failedSends>> /\ (pc' \in {"feed", "reply"} <=> pc \in {"feed", "reply"})
    BY <1>1 DEF Accept, FeedByte, FeedFrame, FeedError, ClientConnect, ClientBegin,
       ClientSend, ClientClose, threadVars, vars
  <2> QED
    BY <1>0, <2>1 DEF PoolAccounted
<1>2. CASE Receive
  BY <1>0, <1>2 DEF Receive, PoolAccounted
<1>3. CASE Disconnect
  BY <1>0, <1>3 DEF Disconnect, PoolAccounted
<1>4. CASE FeedEnd
  BY <1>0, <1>4 DEF FeedEnd, PoolAccounted
<1>5. CASE SendReply
  BY <1>0, <1>5 DEF SendReply, PoolAccounted
<1>6. CASE SendReplyFails
  BY <1>0, <1>6 DEF SendReplyFails, PoolAccounted
<1>7. CASE ClientAck
  BY <1>0, <1>7 DEF ClientAck, PoolAccounted, threadVars
<1> QED
  BY <1>1, <1>2, <1>3, <1>4, <1>5, <1>6, <1>7 DEF Next, ServiceThread, Client

LEMMA Inductive == IInv /\ [Next]_vars => IInv'
  BY TypeStep, RoomStep, PoolStep DEF IInv

LEMMA ServiceInvariant == Spec => []IInv
  BY InitInv, Inductive, PTL DEF Spec

-----------------------------------------------------------------------------
\* For any payload size and any bytes that come in, cut anywhere: push never
\* writes past the payload buffer and never finds a frame pending.
THEOREM NoOverrun == Spec => []DecoderHasRoom
  BY ServiceInvariant, PTL DEF IInv

\* For any size of the pool: a packet is lost by a failed send and by nothing
\* else, in receiving, replying, closing and acknowledging in any order.
THEOREM PoolIsAccounted == Spec => []PoolAccounted
  BY ServiceInvariant, PTL DEF IInv

-----------------------------------------------------------------------------
(***************************************************************************)
(* The refinement.  Without recursion, a stream is cut into frames by the  *)
(* streams that are left behind each of them.                              *)
(***************************************************************************)
Parses(s, fs) ==
  \E rest \in [0 .. Len(fs) -> Seq(Bytes)] :
    /\ rest[0] = s /\ rest[Len(fs)] = <<>>
    /\ \A k \in 1 .. Len(fs) : rest[k - 1] = fs[k] \o rest[k]

Rest(s, n) == SubSeq(s, n + 1, Len(s))

\* What the decoder has of the frame it is in, and what is still to come.
Held(d) == d.length \o d.payload
Coming == Rest(data, index) \o (wire \o unsent)
Pending == Rest(sent, Len(executed))

DecoderTrue(d) ==
  /\ Len(d.length) <= 4
  /\ Len(d.length) < 4 => d.payload = <<>> /\ d.expected = 0
  /\ Len(d.length) = 4 => d.expected = Declared(d.length)

\* Between two connections nothing is left of the first.
NothingLeft ==
  /\ pc \in {"accept", "receive"} => data = <<>> /\ index = 0
  /\ pc = "accept" => executed = <<>> /\ replied = <<>>
  /\ conn = "none" => pc = "accept" /\ wire = <<>> /\ sent = <<>>
  /\ conn # "open" => unsent = <<>>

\* Each request is answered, with the reply to it, before the next is executed.
OneReplyEach ==
  conn = "open" =>
    /\ pc = "reply" => executed = Append(replied, response)
    /\ pc # "reply" => executed = replied

\* The bytes the decoder holds and those under way are the requests that were
\* sent and not executed.
StreamTrue ==
  orderly =>
    /\ sent \in Seq(GoodFrames) /\ Len(executed) <= Len(sent)
    /\ Parses(Held(decoder) \o Coming, Pending)

\* The inductive invariant of the refinement.
RInv == IInv /\ DecoderTrue(decoder) /\ NothingLeft /\ OneReplyEach /\ StreamTrue

-----------------------------------------------------------------------------
LEMMA Associative == \A u, v, w \in Seq(Bytes) : (u \o v) \o w = u \o (v \o w)
  BY ConcatAssociative

LEMMA ConcatType ==
  \A u, v \in Seq(Bytes) : u \o v \in Seq(Bytes) /\ Len(u \o v) = Len(u) + Len(v)
  BY ConcatProperties

LEMMA ParsesNothing == Parses(<<>>, <<>>) /\ \A s : Parses(s, <<>>) => s = <<>>
<1>1. Len(<<>>) = 0 /\ <<>> \in Seq(Bytes)
  BY EmptySeq
<1>2. Parses(<<>>, <<>>)
  <2> DEFINE rest == [k \in 0 .. 0 |-> <<>>]
  <2>1. rest \in [0 .. 0 -> Seq(Bytes)] /\ rest[0] = <<>> /\ \A k \in 1 .. 0 : FALSE
    BY <1>1
  <2> HIDE DEF rest
  <2> QED
    BY <1>1, <2>1 DEF Parses
<1> QED
  BY <1>1, <1>2 DEF Parses

LEMMA ParsesHead ==
  ASSUME NEW s, NEW fs \in Seq(Seq(Bytes)), fs # <<>>, Parses(s, fs)
  PROVE  \E t \in Seq(Bytes) : s = Head(fs) \o t /\ Parses(t, Tail(fs))
<1>1. PICK rest \in [0 .. Len(fs) -> Seq(Bytes)] :
        /\ rest[0] = s /\ rest[Len(fs)] = <<>>
        /\ \A k \in 1 .. Len(fs) : rest[k - 1] = fs[k] \o rest[k]
  BY DEF Parses
<1>2. /\ Len(fs) \in Nat /\ 0 < Len(fs) /\ Len(Tail(fs)) = Len(fs) - 1
      /\ \A k \in 1 .. Len(fs) - 1 : Tail(fs)[k] = fs[k + 1]
      /\ Head(fs) = fs[1]
  BY HeadTailProperties, EmptySeq, LenProperties
<1> DEFINE after == [k \in 0 .. Len(fs) - 1 |-> rest[k + 1]]
<1>3. after \in [0 .. Len(Tail(fs)) -> Seq(Bytes)]
  BY <1>2
<1>4. after[0] = rest[1] /\ after[Len(Tail(fs))] = <<>>
  BY <1>1, <1>2
<1>5. \A k \in 1 .. Len(Tail(fs)) : after[k - 1] = Tail(fs)[k] \o after[k]
  <2> SUFFICES ASSUME NEW k \in 1 .. Len(fs) - 1 PROVE after[k - 1] = Tail(fs)[k] \o after[k]
    BY <1>2
  <2>1. k + 1 \in 1 .. Len(fs) /\ k - 1 \in 0 .. Len(fs) - 1 /\ k \in 0 .. Len(fs) - 1
    BY <1>2
  <2>2. after[k - 1] = rest[k] /\ after[k] = rest[k + 1] /\ (k + 1) - 1 = k
    BY <1>2, <2>1
  <2>3. rest[k] = fs[k + 1] \o rest[k + 1]
    BY <1>1, <2>1, <2>2
  <2> QED
    BY <1>2, <2>2, <2>3
<1>6. Parses(rest[1], Tail(fs))
  <2> HIDE DEF after
  <2> QED
    BY <1>3, <1>4, <1>5 DEF Parses
<1>7. 1 \in 1 .. Len(fs) /\ 1 - 1 = 0 /\ 1 \in 0 .. Len(fs)
  BY <1>2
<1>8. s = Head(fs) \o rest[1] /\ rest[1] \in Seq(Bytes)
  BY <1>1, <1>2, <1>7
<1> QED
  BY <1>6, <1>8

LEMMA ParsesMore ==
  ASSUME NEW s, NEW fs \in Seq(Seq(Bytes)), NEW f \in Seq(Bytes), Parses(s, fs)
  PROVE  Parses(s \o f, Append(fs, f))
<1>1. PICK rest \in [0 .. Len(fs) -> Seq(Bytes)] :
        /\ rest[0] = s /\ rest[Len(fs)] = <<>>
        /\ \A k \in 1 .. Len(fs) : rest[k - 1] = fs[k] \o rest[k]
  BY DEF Parses
<1> DEFINE n == Len(fs)
           longer == [k \in 0 .. n + 1 |-> IF k <= n THEN rest[k] \o f ELSE <<>>]
<1>2. /\ n \in Nat /\ Len(Append(fs, f)) = n + 1 /\ Append(fs, f)[n + 1] = f
      /\ \A k \in 1 .. n : Append(fs, f)[k] = fs[k] /\ fs[k] \in Seq(Bytes)
  BY AppendProperties, LenProperties, ElementOfSeq
<1>3. longer \in [0 .. n + 1 -> Seq(Bytes)]
  BY <1>2, ConcatProperties, EmptySeq
<1>4. /\ \A k \in 0 .. n : longer[k] = rest[k] \o f
      /\ longer[n + 1] = <<>>
  BY <1>2
<1>5. longer[0] = s \o f
  BY <1>1, <1>2, <1>4
<1>6. ASSUME NEW k \in 1 .. n + 1 PROVE longer[k - 1] = Append(fs, f)[k] \o longer[k]
  <2>1. CASE k = n + 1
    <3>1. longer[k - 1] = <<>> \o f /\ longer[k] = <<>> /\ Append(fs, f)[k] = f
      BY <1>1, <1>2, <1>4, <2>1
    <3> QED
      BY <3>1, ConcatEmptySeq
  <2>2. CASE k # n + 1
    <3>1. k \in 1 .. n /\ k - 1 \in 0 .. n /\ k \in 0 .. n
      BY <1>2, <2>2
    <3>2. longer[k - 1] = (fs[k] \o rest[k]) \o f /\ longer[k] = rest[k] \o f
      BY <1>1, <1>4, <3>1
    <3>3. (fs[k] \o rest[k]) \o f = fs[k] \o (rest[k] \o f)
      <4>1. rest[k] \in Seq(Bytes) /\ fs[k] \in Seq(Bytes)
        BY <1>2, <3>1
      <4> QED
        BY <4>1, Associative
    <3> QED
      BY <1>2, <3>1, <3>2, <3>3
  <2> QED
    BY <2>1, <2>2
<1> QED
  <2> HIDE DEF longer
  <2> QED
    BY <1>2, <1>3, <1>4, <1>5, <1>6 DEF Parses

-----------------------------------------------------------------------------
\* Of two equal concatenations the one that starts with as much starts the same.
LEMMA SameStart ==
  ASSUME NEW f \in Seq(Bytes), NEW t \in Seq(Bytes), NEW u \in Seq(Bytes), NEW v \in Seq(Bytes),
         f \o t = u \o v
  PROVE  /\ \A i \in 1 .. Len(u) : i <= Len(f) => u[i] = f[i]
         /\ Len(u) = Len(f) => u = f /\ v = t
<1>1. Len(f) \in Nat /\ Len(t) \in Nat /\ Len(u) \in Nat /\ Len(v) \in Nat
  BY LenProperties
<1>2. ASSUME NEW i \in 1 .. Len(u), i <= Len(f) PROVE u[i] = f[i]
  <2>1. i \in 1 .. Len(f) + Len(t) /\ i \in 1 .. Len(u) + Len(v) /\ i <= Len(u)
    BY <1>1, <1>2
  <2>2. (f \o t)[i] = f[i]
    BY <1>2, <2>1, ConcatProperties
  <2>3. (u \o v)[i] = u[i]
    BY <2>1, ConcatProperties
  <2> QED
    BY <2>2, <2>3
<1>3. ASSUME Len(u) = Len(f) PROVE u = f /\ v = t
  <2>1. u = f
    BY <1>1, <1>2, <1>3, SeqEqual
  <2> QED
    BY <2>1, ConcatSimplifications
<1> QED
  BY <1>2, <1>3

LEMMA GoodFrameType ==
  ASSUME NEW f \in GoodFrames
  PROVE  /\ f \in Seq(Bytes) /\ Len(f) \in Nat /\ Len(f) >= 4
         /\ Declared(f) = Len(f) - 4 /\ Len(f) - 4 <= MaxPayload
         /\ SubSeq(f, 5, Len(f)) \in Accepted
  BY FramesAssumption, GoodFramesAssumption, LenProperties

LEMMA HeldType ==
  ASSUME NEW d \in Decoder
  PROVE  /\ d.length \in Seq(Bytes) /\ d.payload \in Seq(Bytes) /\ Held(d) \in Seq(Bytes)
         /\ Len(d.length) \in Nat /\ Len(d.payload) \in Nat
         /\ Len(Held(d)) = Len(d.length) + Len(d.payload)
<1>1. d.length \in Seq(Bytes) /\ d.payload \in Seq(Bytes)
  BY DEF Decoder
<1> QED
  BY <1>1, ConcatType, LenProperties DEF Held

\* While the decoder is in a frame, what it has of the header is that frame's.
LEMMA HeaderIsTrue ==
  ASSUME NEW d \in Decoder, DecoderTrue(d), Len(d.length) = 4,
         NEW f \in GoodFrames, NEW t \in Seq(Bytes), NEW x \in Seq(Bytes),
         Held(d) \o x = f \o t
  PROVE  d.expected = Len(f) - 4
<1>1. /\ d.length \in Seq(Bytes) /\ d.payload \in Seq(Bytes) /\ Held(d) \in Seq(Bytes)
      /\ Len(Held(d)) = 4 + Len(d.payload) /\ Len(d.payload) \in Nat
      /\ \A i \in 1 .. 4 : Held(d)[i] = d.length[i]
  <2>1. \A i \in 1 .. 4 : Held(d)[i] = d.length[i]
    <3> SUFFICES ASSUME NEW i \in 1 .. 4 PROVE (d.length \o d.payload)[i] = d.length[i]
      BY DEF Held
    <3>1. i \in 1 .. Len(d.length) + Len(d.payload) /\ i <= Len(d.length)
      BY HeldType
    <3> QED
      BY <3>1, HeldType, ConcatProperties
  <2> QED
    BY <2>1, HeldType
<1>2. \A i \in 1 .. 4 : d.length[i] = f[i]
  <2>1. \A i \in 1 .. Len(Held(d)) : i <= Len(f) => Held(d)[i] = f[i]
    BY <1>1, GoodFrameType, SameStart
  <2>2. \A i \in 1 .. 4 : i \in 1 .. Len(Held(d)) /\ i <= Len(f)
    BY <1>1, GoodFrameType
  <2> QED
    BY <1>1, <2>1, <2>2
<1>3. 1 \in 1 .. 4 /\ 2 \in 1 .. 4 /\ 3 \in 1 .. 4 /\ 4 \in 1 .. 4
  OBVIOUS
<1>4. Declared(d.length) = Declared(f)
  BY <1>2, <1>3 DEF Declared
<1> QED
  BY <1>4, GoodFrameType DEF DecoderTrue

\* A byte goes to the end of what the decoder holds; the frame is ready when it
\* has as many bytes as were declared.
LEMMA PushIsTrue ==
  ASSUME NEW d \in Decoder, DecoderTrue(d), ~d.ready, NEW b \in Bytes
  PROVE  /\ Push(d, b) \in Decoder /\ DecoderTrue(Push(d, b))
         /\ Held(Push(d, b)) = Held(d) \o <<b>>
         /\ Push(d, b).ready => Len(Push(d, b).length) = 4
              /\ Len(Push(d, b).payload) = Push(d, b).expected
         /\ Len(Push(d, b).length) < 4 => Push(d, b).expected = 0
<1> DEFINE h == Append(d.length, b)
           p == Append(d.payload, b)
<1>1. /\ d.length \in Seq(Bytes) /\ d.payload \in Seq(Bytes) /\ <<b>> \in Seq(Bytes)
      /\ Len(d.length) \in Nat /\ Len(d.length) <= 4 /\ Len(h) = Len(d.length) + 1
  BY AppendProperties, LenProperties DEF Decoder, DecoderTrue
<1>2. h = d.length \o <<b>> /\ p = d.payload \o <<b>>
  BY <1>1, AppendIsConcat
<1>3. Push(d, b) \in Decoder
  BY PushType
<1>4. CASE Len(d.length) < 4
  <2>1. /\ Push(d, b).length = h /\ Push(d, b).payload = d.payload
        /\ Len(h) < 4 => Push(d, b).expected = d.expected /\ Push(d, b).ready = d.ready
        /\ ~(Len(h) < 4) => Push(d, b).expected = Declared(h)
             /\ Push(d, b).ready = (Declared(h) = 0)
    BY <1>4 DEF Push, PushHeader, Decoder
  <2>2. d.payload = <<>> /\ d.expected = 0 /\ Len(<<>>) = 0
    BY <1>4, EmptySeq DEF DecoderTrue
  <2>3. Held(Push(d, b)) = Held(d) \o <<b>>
    <3>1. <<>> \in Seq(Bytes) /\ h \in Seq(Bytes)
      BY <1>1, EmptySeq, AppendProperties
    <3>2. Held(Push(d, b)) = h /\ Held(d) = d.length
      BY <1>1, <2>1, <2>2, <3>1, ConcatEmptySeq DEF Held
    <3> QED
      BY <1>2, <3>2
  <2>4. Len(h) \in Nat /\ Len(h) <= 4
    <3>1. \A n \in Nat : n < 4 => n + 1 \in Nat /\ n + 1 <= 4
      OBVIOUS
    <3> HIDE DEF h
    <3> QED
      BY <1>1, <1>4, <3>1
  <2>5. CASE Len(h) < 4
    <3>1. /\ Push(d, b).length = h /\ Push(d, b).payload = <<>> /\ Push(d, b).expected = 0
          /\ ~Push(d, b).ready
      BY <2>1, <2>2, <2>5
    <3>2. Len(h) # 4
      BY <2>4, <2>5
    <3> HIDE DEF h
    <3> QED
      BY <1>3, <2>3, <2>5, <3>1, <3>2 DEF DecoderTrue
  <2>6. CASE Len(h) = 4
    <3>1. /\ Push(d, b).length = h /\ Push(d, b).payload = <<>>
          /\ Push(d, b).expected = Declared(h)
          /\ Push(d, b).ready => Declared(h) = 0
      <4>1. ~(Len(h) < 4)
        <5> HIDE DEF h
        <5> QED
          BY <2>6
      <4> QED
        BY <2>1, <2>2, <4>1
    <3> HIDE DEF h
    <3>2. ~(Len(h) < 4)
      BY <2>6
    <3>3. Len(h) <= 4 /\ Len(h) # 0
      BY <2>6
    <3>4. DecoderTrue(Push(d, b))
      BY <2>6, <3>1, <3>2, <3>3 DEF DecoderTrue
    <3>5. Push(d, b).ready => Len(Push(d, b).payload) = Push(d, b).expected
      BY <2>2, <3>1
    <3> QED
      BY <1>3, <2>3, <2>6, <3>1, <3>2, <3>4, <3>5
  <2>7. Len(h) < 4 \/ Len(h) = 4
    <3> HIDE DEF h
    <3> QED
      BY <2>4
  <2> QED
    BY <2>5, <2>6, <2>7
<1>5. CASE ~(Len(d.length) < 4)
  <2>1. /\ Push(d, b).length = d.length /\ Push(d, b).payload = p
        /\ Push(d, b).expected = d.expected /\ Push(d, b).ready = (Len(p) = d.expected)
    BY <1>5 DEF Push, PushPayload, Decoder
  <2>2. Len(d.length) = 4
    <3>1. \A n \in Nat : n <= 4 /\ ~(n < 4) => n = 4
      OBVIOUS
    <3> HIDE DEF h
    <3> QED
      BY <1>1, <1>5, <3>1
  <2>3. Held(Push(d, b)) = Held(d) \o <<b>>
    <3>1. Held(Push(d, b)) = d.length \o (d.payload \o <<b>>)
      BY <1>2, <2>1 DEF Held
    <3> QED
      BY <1>1, <3>1, Associative DEF Held
  <2>4. DecoderTrue(Push(d, b))
    BY <2>1, <2>2 DEF DecoderTrue
  <2>5. ~(4 < 4) /\ Push(d, b).ready => Len(Push(d, b).payload) = Push(d, b).expected
    BY <2>1
  <2> QED
    BY <1>3, <2>1, <2>2, <2>3, <2>4, <2>5
<1> QED
  BY <1>4, <1>5

-----------------------------------------------------------------------------
\* What is left of a sequence when its first n elements are gone.
LEMMA RestIs ==
  \A S : \A s \in Seq(S) : \A n \in 0 .. Len(s) :
    /\ Rest(s, n) \in Seq(S) /\ Len(Rest(s, n)) = Len(s) - n
    /\ SubSeq(s, 1, n) \in Seq(S) /\ Len(SubSeq(s, 1, n)) = n
    /\ \A i \in 1 .. Len(s) - n : Rest(s, n)[i] = s[n + i]
    /\ \A i \in 1 .. n : SubSeq(s, 1, n)[i] = s[i]
    /\ s = SubSeq(s, 1, n) \o Rest(s, n)
<1> SUFFICES ASSUME NEW S, NEW s \in Seq(S), NEW n \in 0 .. Len(s)
             PROVE  /\ Rest(s, n) \in Seq(S) /\ Len(Rest(s, n)) = Len(s) - n
                    /\ SubSeq(s, 1, n) \in Seq(S) /\ Len(SubSeq(s, 1, n)) = n
                    /\ \A i \in 1 .. Len(s) - n : Rest(s, n)[i] = s[n + i]
                    /\ \A i \in 1 .. n : SubSeq(s, 1, n)[i] = s[i]
                    /\ s = SubSeq(s, 1, n) \o Rest(s, n)
  OBVIOUS
<1>1. Len(s) \in Nat /\ n \in Nat /\ n <= Len(s)
  BY LenProperties
<1>2. \A i \in 1 .. Len(s) : s[i] \in S
  BY ElementOfSeq
<1>3. /\ SubSeq(s, n + 1, Len(s)) \in Seq(S)
      /\ Len(SubSeq(s, n + 1, Len(s))) = Len(s) - n
      /\ \A i \in 1 .. Len(s) - n : SubSeq(s, n + 1, Len(s))[i] = s[n + i]
  <2>1. \A i \in n + 1 .. Len(s) : s[i] \in S
    BY <1>1, <1>2
  <2>2. /\ SubSeq(s, n + 1, Len(s)) \in Seq(S)
        /\ Len(SubSeq(s, n + 1, Len(s))) = IF n + 1 <= Len(s) THEN Len(s) - (n + 1) + 1 ELSE 0
        /\ \A i \in 1 .. Len(s) - (n + 1) + 1 : SubSeq(s, n + 1, Len(s))[i] = s[(n + 1) + i - 1]
    BY <1>1, <2>1, SubSeqProperties
  <2>3. Len(s) - (n + 1) + 1 = Len(s) - n
    BY <1>1
  <2>4. Len(SubSeq(s, n + 1, Len(s))) = Len(s) - n
    BY <1>1, <2>2
  <2>5. ASSUME NEW i \in 1 .. Len(s) - n PROVE SubSeq(s, n + 1, Len(s))[i] = s[n + i]
    <3>1. (n + 1) + i - 1 = n + i
      BY <1>1
    <3> QED
      BY <2>2, <2>3, <3>1
  <2> QED
    BY <2>2, <2>4, <2>5
<1>4. /\ SubSeq(s, 1, n) \in Seq(S) /\ Len(SubSeq(s, 1, n)) = n
      /\ \A i \in 1 .. n : SubSeq(s, 1, n)[i] = s[i]
  <2>1. \A i \in 1 .. n : s[i] \in S
    BY <1>1, <1>2
  <2>2. /\ SubSeq(s, 1, n) \in Seq(S)
        /\ Len(SubSeq(s, 1, n)) = IF 1 <= n THEN n - 1 + 1 ELSE 0
        /\ \A i \in 1 .. n - 1 + 1 : SubSeq(s, 1, n)[i] = s[1 + i - 1]
    BY <1>1, <2>1, SubSeqProperties
  <2> QED
    BY <1>1, <2>2
<1>5. SubSeq(s, 1, n) \o SubSeq(s, n + 1, Len(s)) = s
  <2>1. 1 \in 1 .. Len(s) + 1 /\ n \in 1 - 1 .. Len(s) /\ Len(s) \in n .. Len(s)
    BY <1>1
  <2> QED
    BY <2>1, ConcatAdjacentSubSeq, SubSeqFull
<1> QED
  BY <1>3, <1>4, <1>5 DEF Rest

LEMMA RestWhole ==
  \A S : \A s \in Seq(S) : Rest(s, 0) = s /\ Rest(s, Len(s)) = <<>>
<1> SUFFICES ASSUME NEW S, NEW s \in Seq(S) PROVE Rest(s, 0) = s /\ Rest(s, Len(s)) = <<>>
  OBVIOUS
<1>1. Len(s) \in Nat /\ Len(s) + 1 > Len(s)
  BY LenProperties
<1>2. SubSeq(s, 1, Len(s)) = s
  BY SubSeqFull
<1>3. SubSeq(s, Len(s) + 1, Len(s)) = <<>>
  BY <1>1, SubSeqEmpty
<1> QED
  BY <1>2, <1>3 DEF Rest

LEMMA RestHead ==
  \A S : \A s \in Seq(S) : \A n \in 0 .. Len(s) : n < Len(s) =>
    /\ Rest(s, n) # <<>> /\ Head(Rest(s, n)) = s[n + 1] /\ Tail(Rest(s, n)) = Rest(s, n + 1)
    /\ Rest(s, n) = <<s[n + 1]>> \o Rest(s, n + 1)
    /\ SubSeq(s, 1, n + 1) = Append(SubSeq(s, 1, n), s[n + 1])
<1> SUFFICES ASSUME NEW S, NEW s \in Seq(S), NEW n \in 0 .. Len(s), n < Len(s)
             PROVE  /\ Rest(s, n) # <<>> /\ Head(Rest(s, n)) = s[n + 1]
                    /\ Tail(Rest(s, n)) = Rest(s, n + 1)
                    /\ Rest(s, n) = <<s[n + 1]>> \o Rest(s, n + 1)
                    /\ SubSeq(s, 1, n + 1) = Append(SubSeq(s, 1, n), s[n + 1])
  OBVIOUS
<1>1. /\ Len(s) \in Nat /\ n \in Nat /\ n + 1 \in 1 .. Len(s) /\ 1 \in 1 .. Len(s)
      /\ Len(s) \in n + 1 .. Len(s) /\ n + 1 \in 0 .. Len(s) /\ n + 1 \in 1 .. Len(s)
  BY LenProperties
<1>2. Rest(s, n) # <<>>
  BY <1>1, RestIs, EmptySeq
<1>3. Head(SubSeq(s, n + 1, Len(s))) = s[n + 1]
      /\ Tail(SubSeq(s, n + 1, Len(s))) = SubSeq(s, (n + 1) + 1, Len(s))
  BY <1>1, HeadTailOfSubSeq
<1>4. SubSeq(s, n + 1, Len(s)) = <<s[n + 1]>> \o SubSeq(s, (n + 1) + 1, Len(s))
  BY <1>1, SubSeqRecursiveFirst
<1>5. SubSeq(s, 1, n + 1) = Append(SubSeq(s, 1, n), s[n + 1])
  <2>1. SubSeq(s, 1, n + 1) \in Seq(S) /\ Len(SubSeq(s, 1, n + 1)) = n + 1
        /\ \A i \in 1 .. n + 1 : SubSeq(s, 1, n + 1)[i] = s[i]
    BY <1>1, RestIs
  <2>2. SubSeq(s, 1, n) \in Seq(S) /\ Len(SubSeq(s, 1, n)) = n
        /\ \A i \in 1 .. n : SubSeq(s, 1, n)[i] = s[i]
    BY <1>1, RestIs
  <2>3. s[n + 1] \in S
    BY <1>1, ElementOfSeq
  <2> DEFINE u == SubSeq(s, 1, n)
             v == Append(u, s[n + 1])
  <2>4. v \in Seq(S) /\ Len(v) = n + 1 /\ (\A i \in 1 .. n : v[i] = u[i]) /\ v[n + 1] = s[n + 1]
    BY <2>2, <2>3, AppendProperties
  <2>5. \A i \in 1 .. n + 1 : v[i] = s[i]
    <3>1. \A i \in 1 .. n + 1 : i \in 1 .. n \/ i = n + 1
      BY <1>1
    <3> QED
      BY <2>2, <2>4, <3>1
  <2> QED
    BY <2>1, <2>4, <2>5, SeqEqual
<1> QED
  BY <1>2, <1>3, <1>4, <1>5 DEF Rest

LEMMA RestAppend ==
  \A S : \A s \in Seq(S) : \A e \in S : \A n \in 0 .. Len(s) :
    /\ Rest(Append(s, e), n) = Append(Rest(s, n), e)
    /\ SubSeq(Append(s, e), 1, n) = SubSeq(s, 1, n)
<1> SUFFICES ASSUME NEW S, NEW s \in Seq(S), NEW e \in S, NEW n \in 0 .. Len(s)
             PROVE  /\ Rest(Append(s, e), n) = Append(Rest(s, n), e)
                    /\ SubSeq(Append(s, e), 1, n) = SubSeq(s, 1, n)
  OBVIOUS
<1> DEFINE t == Append(s, e)
           r == Rest(s, n)
<1>1. Len(s) \in Nat /\ n \in Nat /\ n <= Len(s)
  BY LenProperties
<1>2. /\ t \in Seq(S) /\ Len(t) = Len(s) + 1 /\ t[Len(s) + 1] = e
      /\ \A i \in 1 .. Len(s) : t[i] = s[i]
  BY AppendProperties
<1>3. n \in 0 .. Len(t)
  BY <1>1, <1>2
<1>4. /\ r \in Seq(S) /\ Len(r) = Len(s) - n /\ \A i \in 1 .. Len(s) - n : r[i] = s[n + i]
      /\ SubSeq(s, 1, n) \in Seq(S) /\ Len(SubSeq(s, 1, n)) = n
      /\ \A i \in 1 .. n : SubSeq(s, 1, n)[i] = s[i]
  BY RestIs
<1>5. /\ Append(r, e) \in Seq(S) /\ Len(Append(r, e)) = Len(s) - n + 1
      /\ Append(r, e)[Len(s) - n + 1] = e
      /\ \A i \in 1 .. Len(s) - n : Append(r, e)[i] = s[n + i]
  BY <1>4, AppendProperties
<1> HIDE DEF r, t
<1>6. /\ Rest(t, n) \in Seq(S) /\ Len(Rest(t, n)) = Len(s) + 1 - n
      /\ \A i \in 1 .. Len(s) + 1 - n : Rest(t, n)[i] = t[n + i]
      /\ SubSeq(t, 1, n) \in Seq(S) /\ Len(SubSeq(t, 1, n)) = n
      /\ \A i \in 1 .. n : SubSeq(t, 1, n)[i] = t[i]
  <2>1. /\ Rest(t, n) \in Seq(S) /\ Len(Rest(t, n)) = Len(t) - n
        /\ \A i \in 1 .. Len(t) - n : Rest(t, n)[i] = t[n + i]
        /\ SubSeq(t, 1, n) \in Seq(S) /\ Len(SubSeq(t, 1, n)) = n
        /\ \A i \in 1 .. n : SubSeq(t, 1, n)[i] = t[i]
    BY <1>2, <1>3, RestIs
  <2> QED
    BY <1>2, <2>1
<1>7. Rest(t, n) = Append(r, e)
  <2>1. \A i \in 1 .. Len(s) + 1 - n : Rest(t, n)[i] = Append(r, e)[i]
    <3> SUFFICES ASSUME NEW i \in 1 .. Len(s) + 1 - n PROVE Rest(t, n)[i] = Append(r, e)[i]
      OBVIOUS
    <3>1. CASE i \in 1 .. Len(s) - n
      <4>1. n + i \in 1 .. Len(s)
        BY <1>1, <3>1
      <4> QED
        BY <1>2, <1>5, <1>6, <3>1, <4>1
    <3>2. CASE i = Len(s) - n + 1
      <4>1. n + i = Len(s) + 1
        BY <1>1, <3>2
      <4> QED
        BY <1>2, <1>5, <1>6, <3>2, <4>1
    <3>3. i \in 1 .. Len(s) - n \/ i = Len(s) - n + 1
      BY <1>1
    <3> QED
      BY <3>1, <3>2, <3>3
  <2>2. Len(s) - n + 1 = Len(s) + 1 - n
    BY <1>1
  <2> QED
    BY <1>5, <1>6, <2>1, <2>2, SeqEqual
<1>8. SubSeq(t, 1, n) = SubSeq(s, 1, n)
  <2>1. \A i \in 1 .. n : SubSeq(t, 1, n)[i] = SubSeq(s, 1, n)[i]
    BY <1>1, <1>2, <1>4, <1>6
  <2> QED
    BY <1>4, <1>6, <2>1, SeqEqual
<1> QED
  BY <1>7, <1>8 DEF t, r

-----------------------------------------------------------------------------
\* The byte the feed loop is at, what push makes of it, and what comes after.
NextByte == data[index + 1]
Pushed == Push(decoder, NextByte)
After == Rest(data, index + 1) \o (wire \o unsent)

LEMMA StreamTypes ==
  ASSUME RInv, orderly
  PROVE  /\ sent \in Seq(GoodFrames) /\ Len(executed) \in 0 .. Len(sent)
         /\ Pending \in Seq(GoodFrames) /\ Pending \in Seq(Seq(Bytes))
         /\ wire \o unsent \in Seq(Bytes) /\ Held(decoder) \in Seq(Bytes)
         /\ Coming \in Seq(Bytes) /\ Parses(Held(decoder) \o Coming, Pending)
<1>1. /\ sent \in Seq(GoodFrames) /\ Len(executed) <= Len(sent)
      /\ Parses(Held(decoder) \o Coming, Pending)
  BY DEF RInv, StreamTrue
<1>2. Len(executed) \in 0 .. Len(sent)
  <2>1. Len(executed) \in Nat /\ Len(sent) \in Nat
    BY <1>1, LenProperties DEF RInv, IInv, TypeOK
  <2> QED
    BY <1>1, <2>1
<1>3. Pending \in Seq(GoodFrames)
  BY <1>1, <1>2, RestIs DEF Pending
<1>4. Pending \in Seq(Seq(Bytes))
  <2>1. GoodFrames \subseteq Seq(Bytes)
    BY FramesAssumption
  <2> QED
    BY <1>3, <2>1, SeqMonotonic
<1>5. wire \o unsent \in Seq(Bytes)
  BY ConcatType DEF RInv, IInv, TypeOK
<1>6. Coming \in Seq(Bytes)
  <2>1. Rest(data, index) \in Seq(Bytes)
    BY RestIs DEF RInv, IInv, TypeOK
  <2> QED
    BY <1>5, <2>1, ConcatType DEF Coming
<1>7. Held(decoder) \in Seq(Bytes)
  BY HeldType DEF RInv, IInv, TypeOK
<1> QED
  BY <1>1, <1>2, <1>3, <1>4, <1>5, <1>6, <1>7

\* A push moves one byte from those to come to those the decoder holds.
LEMMA PushKeepsStream ==
  ASSUME RInv, index < Len(data)
  PROVE  /\ NextByte \in Bytes /\ index + 1 \in 0 .. Len(data)
         /\ Pushed \in Decoder /\ DecoderTrue(Pushed)
         /\ Held(Pushed) \in Seq(Bytes) /\ After \in Seq(Bytes)
         /\ Held(Pushed) \o After = Held(decoder) \o Coming
         /\ Pushed.ready => Len(Pushed.length) = 4 /\ Len(Pushed.payload) = Pushed.expected
         /\ Len(Pushed.length) < 4 => Pushed.expected = 0
<1>1. /\ data \in Seq(Bytes) /\ index \in 0 .. Len(data) /\ decoder \in Decoder
      /\ DecoderTrue(decoder) /\ ~decoder.ready /\ wire \in Seq(Bytes) /\ unsent \in Seq(Bytes)
  BY DEF RInv, IInv, TypeOK, DecoderHasRoom
<1>2. index + 1 \in 1 .. Len(data) /\ index + 1 \in 0 .. Len(data)
  BY <1>1, LenProperties
<1>3. NextByte \in Bytes
  BY <1>1, <1>2, ElementOfSeq DEF NextByte
<1>4. /\ Pushed \in Decoder /\ DecoderTrue(Pushed) /\ Held(Pushed) = Held(decoder) \o <<NextByte>>
      /\ Pushed.ready => Len(Pushed.length) = 4 /\ Len(Pushed.payload) = Pushed.expected
      /\ Len(Pushed.length) < 4 => Pushed.expected = 0
  BY <1>1, <1>3, PushIsTrue DEF Pushed
<1>5. Rest(data, index) = <<NextByte>> \o Rest(data, index + 1)
  BY <1>1, RestHead DEF NextByte
<1>6. /\ Rest(data, index + 1) \in Seq(Bytes) /\ wire \o unsent \in Seq(Bytes)
      /\ Held(decoder) \in Seq(Bytes) /\ Held(Pushed) \in Seq(Bytes) /\ <<NextByte>> \in Seq(Bytes)
      /\ After \in Seq(Bytes)
  <2>1. Rest(data, index + 1) \in Seq(Bytes)
    BY <1>1, <1>2, RestIs
  <2>2. wire \o unsent \in Seq(Bytes)
    BY <1>1, ConcatType
  <2>3. <<NextByte>> \in Seq(Bytes)
    BY <1>3
  <2>4. After \in Seq(Bytes)
    BY <2>1, <2>2, ConcatType DEF After
  <2> QED
    BY <1>1, <1>4, <2>1, <2>2, <2>3, <2>4, HeldType
<1>7. Coming = <<NextByte>> \o After
  <2>1. Coming = (<<NextByte>> \o Rest(data, index + 1)) \o (wire \o unsent)
    BY <1>5 DEF Coming
  <2> QED
    BY <1>6, <2>1, Associative DEF After
<1>8. (Held(decoder) \o <<NextByte>>) \o After = Held(decoder) \o (<<NextByte>> \o After)
  BY <1>6, Associative
<1> QED
  BY <1>2, <1>3, <1>4, <1>6, <1>7, <1>8

\* With clients that stick to the protocol push takes every byte, and a frame
\* that is ready is the oldest request not executed yet.
LEMMA OrderlyPush ==
  ASSUME RInv, orderly, index < Len(data)
  PROVE  /\ ~PushFails(decoder, NextByte)
         /\ Pushed.ready => Pending # <<>> /\ Pushed.payload \in Accepted
                              /\ Pushed.payload = Payload(Head(Pending))
                              /\ Parses(After, Tail(Pending))
<1> DEFINE d == Pushed
<1>1. /\ d \in Decoder /\ DecoderTrue(d) /\ Held(d) \in Seq(Bytes) /\ After \in Seq(Bytes)
      /\ Held(d) \o After = Held(decoder) \o Coming
      /\ d.ready => Len(d.length) = 4 /\ Len(d.payload) = d.expected
      /\ Len(d.length) < 4 => d.expected = 0
      /\ NextByte \in Bytes
  BY PushKeepsStream
<1>2. Pending \in Seq(GoodFrames) /\ Pending \in Seq(Seq(Bytes))
      /\ Parses(Held(d) \o After, Pending)
  BY <1>1, StreamTypes
<1>3. Pending # <<>>
  <2> SUFFICES ASSUME Pending = <<>> PROVE FALSE
    OBVIOUS
  <2>1. Held(decoder) \o Coming = <<>>
    BY <1>1, <1>2, ParsesNothing
  <2>2. Held(decoder) \in Seq(Bytes) /\ Coming \in Seq(Bytes)
    BY StreamTypes
  <2>3. Coming = <<>>
    BY <2>1, <2>2, ConcatSimplifications
  <2>4. Rest(data, index) \in Seq(Bytes) /\ wire \o unsent \in Seq(Bytes)
    BY StreamTypes, RestIs DEF RInv, IInv, TypeOK
  <2>5. Rest(data, index) = <<>>
    BY <2>3, <2>4, ConcatSimplifications DEF Coming
  <2> QED
    BY <2>5, RestHead DEF RInv, IInv, TypeOK
<1> DEFINE f == Head(Pending)
<1>4. f \in GoodFrames
  BY <1>2, <1>3, HeadTailProperties
<1>5. PICK t \in Seq(Bytes) : Held(d) \o After = f \o t /\ Parses(t, Tail(Pending))
  BY <1>2, <1>3, ParsesHead
<1>6. f \in Seq(Bytes) /\ Len(f) \in Nat /\ Len(f) >= 4 /\ Len(f) - 4 <= MaxPayload
      /\ SubSeq(f, 5, Len(f)) \in Accepted
  BY <1>4, GoodFrameType
<1> HIDE DEF d, f
<1>7. Len(d.length) \in Nat /\ Len(d.length) <= 4 /\ Len(d.payload) \in Nat
      /\ d.length \in Seq(Bytes) /\ d.payload \in Seq(Bytes)
      /\ Len(Held(d)) = Len(d.length) + Len(d.payload)
  BY <1>1, HeldType DEF DecoderTrue
<1>8. Len(d.length) = 4 => d.expected = Len(f) - 4
  BY <1>1, <1>4, <1>5, HeaderIsTrue
<1>9. ~(d.expected > MaxPayload)
  <2>1. CASE Len(d.length) = 4
    BY <1>6, <1>8, <2>1, PayloadAssumption
  <2>2. CASE Len(d.length) < 4
    BY <1>1, <2>2, PayloadAssumption
  <2>3. \A n \in Nat : n <= 4 => n = 4 \/ n < 4
    OBVIOUS
  <2> QED
    BY <1>7, <2>1, <2>2, <2>3
<1>10. ~PushFails(decoder, NextByte)
  BY <1>9 DEF PushFails, RInv, IInv, DecoderHasRoom, d, Pushed
<1>11. ASSUME d.ready
       PROVE  d.payload \in Accepted /\ d.payload = Payload(f) /\ Parses(After, Tail(Pending))
  <2>1. Len(Held(d)) = Len(f) /\ Len(d.length) = 4 /\ Len(d.payload) = Len(f) - 4
    <3>1. Len(d.length) = 4 /\ Len(d.payload) = d.expected
      BY <1>1, <1>11
    <3>2. Len(d.payload) = Len(f) - 4
      BY <1>8, <3>1
    <3>3. Len(Held(d)) = 4 + (Len(f) - 4)
      BY <1>7, <3>1, <3>2
    <3> QED
      BY <1>6, <3>1, <3>2, <3>3
  <2>2. Held(d) = f /\ After = t
    <3>1. f \o t = Held(d) \o After
      BY <1>5
    <3>2. Held(d) \in Seq(Bytes) /\ After \in Seq(Bytes) /\ Len(Held(d)) = Len(f)
      BY <1>1, <2>1
    <3> QED
      BY <1>5, <1>6, <3>1, <3>2, SameStart
  <2>3. d.payload = Rest(f, 4)
    <3>1. 4 \in 0 .. Len(f)
      BY <1>6
    <3>2. Rest(f, 4) \in Seq(Bytes) /\ Len(Rest(f, 4)) = Len(f) - 4
          /\ \A i \in 1 .. Len(f) - 4 : Rest(f, 4)[i] = f[4 + i]
      BY <1>6, <3>1, RestIs
    <3>3. ASSUME NEW i \in 1 .. Len(f) - 4 PROVE d.payload[i] = f[4 + i]
      <4>1. 4 + i \in 1 .. Len(d.length) + Len(d.payload) /\ ~(4 + i <= Len(d.length))
            /\ (4 + i) - Len(d.length) = i
        BY <1>6, <2>1
      <4>2. (d.length \o d.payload)[4 + i] = d.payload[(4 + i) - Len(d.length)]
        BY <1>7, <4>1, ConcatProperties
      <4> QED
        BY <2>2, <4>1, <4>2 DEF Held
    <3>4. Len(d.payload) = Len(Rest(f, 4))
          /\ \A i \in 1 .. Len(d.payload) : d.payload[i] = Rest(f, 4)[i]
      BY <2>1, <3>2, <3>3
    <3> QED
      BY <1>7, <3>2, <3>4, SeqEqual
  <2>4. Rest(f, 4) = SubSeq(f, 5, Len(f)) /\ Payload(f) = SubSeq(f, 5, Len(f))
    BY DEF Rest, Payload
  <2> QED
    BY <1>5, <1>6, <2>2, <2>3, <2>4
<1> QED
  BY <1>3, <1>10, <1>11 DEF d, f

-----------------------------------------------------------------------------
LEMMA InitRInv == Init => RInv
<1> SUFFICES ASSUME Init PROVE RInv
  OBVIOUS
<1>1. /\ \A S : <<>> \in Seq(S)
      /\ Len(<<>>) = 0
  BY EmptySeq
<1>2. IInv
  BY InitInv
<1>3. DecoderTrue(decoder)
  BY <1>1 DEF Init, DecoderTrue, ResetDecoder
<1>4. NothingLeft
  BY DEF Init, NothingLeft
<1>5. OneReplyEach
  BY DEF Init, OneReplyEach
<1>6. StreamTrue
  <2>1. Rest(<<>>, 0) = <<>>
    BY <1>1, RestWhole
  <2>2. <<>> \o <<>> = <<>>
    BY <1>1, ConcatEmptySeq
  <2>3. Held(decoder) = <<>> /\ Coming = <<>> /\ Pending = <<>>
    BY <1>1, <2>1, <2>2 DEF Init, Held, ResetDecoder, Coming, Pending
  <2>4. sent = <<>> /\ executed = <<>>
    BY DEF Init
  <2> QED
    BY <1>1, <2>2, <2>3, <2>4, ParsesNothing DEF StreamTrue
<1> QED
  BY <1>2, <1>3, <1>4, <1>5, <1>6 DEF RInv

LEMMA DecoderStep == ASSUME RInv, [Next]_vars PROVE DecoderTrue(decoder)'
<1>1. CASE FeedByte
  <2>1. decoder' = Pushed /\ index < Len(data)
    BY <1>1 DEF FeedByte, Pushed, NextByte
  <2>2. DecoderTrue(Pushed)
    BY <2>1, PushKeepsStream
  <2> QED
    BY <2>1, <2>2 DEF DecoderTrue
<1>2. CASE FeedFrame \/ FeedError
  <2>1. decoder' = ResetDecoder
    BY <1>2 DEF FeedFrame, FeedError
  <2>2. Len(<<>>) = 0
    BY EmptySeq
  <2> QED
    BY <2>1, <2>2 DEF DecoderTrue, ResetDecoder
<1>3. CASE ~(FeedByte \/ FeedFrame \/ FeedError)
  <2>1. decoder' = decoder
    BY <1>3 DEF Next, ServiceThread, Client, Accept, Receive, Disconnect, FeedEnd, SendReply,
       SendReplyFails, ClientConnect, ClientBegin, ClientSend, ClientClose, ClientAck,
       threadVars, vars
  <2> QED
    BY <2>1 DEF RInv, DecoderTrue
<1> QED
  BY <1>1, <1>2, <1>3

LEMMA NothingLeftStep == ASSUME RInv, [Next]_vars PROVE NothingLeft'
<1>1. NothingLeft
  BY DEF RInv
<1>2. CASE ServiceThread
  BY <1>1, <1>2 DEF ServiceThread, NothingLeft, Accept, Receive, Disconnect, FeedByte, FeedFrame,
     FeedError, FeedEnd, SendReply, SendReplyFails, threadVars, clientVars, history
<1>3. CASE Client
  BY <1>1, <1>3 DEF Client, NothingLeft, ClientConnect, ClientBegin, ClientSend, ClientClose,
     ClientAck, threadVars, clientVars, history
<1>4. CASE UNCHANGED vars
  BY <1>1, <1>4 DEF vars, NothingLeft
<1> QED
  BY <1>2, <1>3, <1>4 DEF Next

LEMMA OneReplyStep == ASSUME RInv, [Next]_vars PROVE OneReplyEach'
<1>0. NothingLeft /\ OneReplyEach
  BY DEF RInv
<1>1. CASE FeedFrame
  BY <1>0, <1>1 DEF FeedFrame, OneReplyEach, clientVars
<1>2. CASE SendReply
  BY <1>0, <1>2 DEF SendReply, OneReplyEach, clientVars
<1>3. CASE Disconnect \/ SendReplyFails \/ ClientClose
  <2>1. conn' # "open"
    BY <1>3 DEF Disconnect, SendReplyFails, ClientClose, clientVars
  <2> QED
    BY <2>1 DEF OneReplyEach
<1>4. CASE ClientConnect
  BY <1>0, <1>4 DEF ClientConnect, OneReplyEach, NothingLeft, threadVars, history
<1>5. CASE Accept \/ Receive \/ FeedByte \/ FeedError \/ FeedEnd \/ ClientBegin \/ ClientSend
             \/ ClientAck \/ UNCHANGED vars
  <2>1. UNCHANGED <<conn, executed, replied, response>> /\ (pc' = "reply" <=> pc = "reply")
    BY <1>5 DEF Accept, Receive, FeedByte, FeedError, FeedEnd, ClientBegin, ClientSend, ClientAck,
       vars, threadVars, clientVars, history
  <2> QED
    BY <1>0, <2>1 DEF OneReplyEach
<1> QED
  BY <1>1, <1>2, <1>3, <1>4, <1>5 DEF Next, ServiceThread, Client

\* Most steps move bytes on their way, or none.
LEMMA StreamKept ==
  ASSUME RInv, orderly, Held(decoder') = Held(decoder), Coming' = Coming,
         UNCHANGED <<sent, executed>>
  PROVE  StreamTrue'
<1>1. Pending' = Pending
  BY DEF Pending
<1>2. /\ sent \in Seq(GoodFrames) /\ Len(executed) <= Len(sent)
      /\ Parses(Held(decoder) \o Coming, Pending)
  BY StreamTypes, LenProperties DEF RInv, StreamTrue
<1> QED
  BY <1>1, <1>2 DEF StreamTrue

\* An orderly client that has closed got an answer to everything it sent.
LEMMA ClosedIsDrained ==
  ASSUME RInv, orderly, Coming = <<>>
  PROVE  Held(decoder) = <<>>
<1>1. /\ decoder \in Decoder /\ DecoderTrue(decoder) /\ DecoderHasRoom
      /\ Held(decoder) \in Seq(Bytes) /\ Pending \in Seq(GoodFrames) /\ Pending \in Seq(Seq(Bytes))
      /\ <<>> \in Seq(Bytes) /\ Len(<<>>) = 0
      /\ Held(decoder) \o <<>> = Held(decoder)
      /\ Parses(Held(decoder) \o <<>>, Pending)
  BY StreamTypes, ConcatEmptySeq, EmptySeq DEF RInv, IInv, TypeOK
<1>2. CASE Pending = <<>>
  BY <1>1, <1>2, ParsesNothing
<1>3. CASE Pending # <<>>
  <2> DEFINE f == Head(Pending)
             d == decoder
  <2>1. f \in GoodFrames
    BY <1>1, <1>3, HeadTailProperties
  <2>2. PICK t \in Seq(Bytes) : Held(d) \o <<>> = f \o t
    BY <1>1, <1>3, ParsesHead
  <2>3. f \in Seq(Bytes) /\ Len(f) \in Nat /\ Len(f) >= 4
    BY <2>1, GoodFrameType
  <2>4. Len(Held(d)) = Len(f) + Len(t) /\ Len(t) \in Nat
    BY <1>1, <2>2, <2>3, ConcatType, LenProperties
  <2>5. /\ Len(d.length) \in Nat /\ Len(d.payload) \in Nat /\ Len(d.length) <= 4
        /\ Len(Held(d)) = Len(d.length) + Len(d.payload)
        /\ Len(d.length) < 4 => d.payload = <<>>
        /\ Len(d.length) = 4 => Len(d.payload) < d.expected
    BY <1>1, HeldType DEF DecoderHasRoom
  <2>6. Len(d.length) = 4 => d.expected = Len(f) - 4
    BY <1>1, <2>1, <2>2, HeaderIsTrue
  <2> HIDE DEF f, d
  <2>7. Len(d.length) = 4 \/ Len(d.length) < 4
    <3>1. \A n \in Nat : n <= 4 => n = 4 \/ n < 4
      OBVIOUS
    <3> QED
      BY <2>5, <3>1
  <2>8. CASE Len(d.length) = 4
    <3>1. Len(d.payload) < Len(f) - 4 /\ Len(Held(d)) = 4 + Len(d.payload)
      BY <2>5, <2>6, <2>8
    <3> QED
      BY <2>3, <2>4, <2>5, <3>1
  <2>9. CASE Len(d.length) < 4
    <3>1. Len(d.payload) = 0
      BY <1>1, <2>5, <2>9
    <3> QED
      BY <2>3, <2>4, <2>5, <2>9, <3>1
  <2> QED
    BY <2>7, <2>8, <2>9
<1> QED
  BY <1>2, <1>3

LEMMA StreamStep == ASSUME RInv, [Next]_vars PROVE StreamTrue'
<1>0. orderly' = orderly
  BY DEF Next, ServiceThread, Client, Accept, Receive, Disconnect, FeedByte, FeedFrame, FeedError,
     FeedEnd, SendReply, SendReplyFails, ClientConnect, ClientBegin, ClientSend, ClientClose,
     ClientAck, threadVars, clientVars, vars
<1> SUFFICES ASSUME orderly PROVE StreamTrue'
  BY <1>0 DEF StreamTrue
<1> DEFINE way == wire \o unsent
<1>1. /\ data \in Seq(Bytes) /\ index \in 0 .. Len(data) /\ wire \in Seq(Bytes)
      /\ unsent \in Seq(Bytes) /\ way \in Seq(Bytes) /\ <<>> \in Seq(Bytes) /\ Len(<<>>) = 0
      /\ Held(decoder) \in Seq(Bytes) /\ NothingLeft
  BY StreamTypes, EmptySeq DEF RInv, IInv, TypeOK
<1>2. \A u \in Seq(Bytes) : u \o <<>> = u /\ <<>> \o u = u /\ Rest(u, 0) = u
  BY ConcatEmptySeq, RestWhole
<1>3. CASE Accept \/ SendReply \/ SendReplyFails \/ ClientAck \/ ClientClose \/ ClientConnect
             \/ UNCHANGED vars
  <2>1. UNCHANGED <<decoder, data, index, wire, unsent, sent, executed>>
    BY <1>1, <1>3 DEF Accept, SendReply, SendReplyFails, ClientAck, ClientClose, ClientConnect,
       NothingLeft, threadVars, clientVars, history, vars
  <2> QED
    BY <2>1, StreamKept DEF Coming
<1>4. CASE Receive
  <2>1. PICK n \in 1 .. Len(wire) :
          data' = SubSeq(wire, 1, n) /\ wire' = SubSeq(wire, n + 1, Len(wire))
    BY <1>4 DEF Receive
  <2>2. n \in 0 .. Len(wire)
    BY <1>1, <2>1, LenProperties
  <2>3. data' \in Seq(Bytes) /\ wire' \in Seq(Bytes) /\ wire = data' \o wire'
    BY <1>1, <2>1, <2>2, RestIs DEF Rest
  <2>4. data = <<>> /\ index = 0 /\ index' = 0 /\ UNCHANGED <<decoder, unsent, sent, executed>>
    BY <1>1, <1>4 DEF Receive, NothingLeft
  <2>5. Coming = way
    BY <1>1, <1>2, <2>4 DEF Coming
  <2>6. Coming' = data' \o (wire' \o unsent)
    BY <1>2, <2>3, <2>4 DEF Coming
  <2>7. data' \o (wire' \o unsent) = (data' \o wire') \o unsent
    <3>1. data' \in Seq(Bytes) /\ wire' \in Seq(Bytes) /\ unsent \in Seq(Bytes)
      BY <1>1, <2>3
    <3> QED
      BY <3>1, Associative
  <2>8. Coming' = Coming
    BY <2>3, <2>5, <2>6, <2>7
  <2> QED
    BY <2>4, <2>8, StreamKept
<1>5. CASE Disconnect
  <2>1. data = <<>> /\ index = 0 /\ wire = <<>> /\ unsent = <<>>
    BY <1>1, <1>5 DEF Disconnect, NothingLeft
  <2>2. Coming = <<>>
    BY <1>1, <1>2, <2>1 DEF Coming
  <2>3. Held(decoder) = <<>>
    BY <2>2, ClosedIsDrained
  <2>4. /\ UNCHANGED <<decoder, data, index, unsent>>
        /\ wire' = <<>> /\ sent' = <<>> /\ executed' = <<>>
    BY <1>5, <2>1 DEF Disconnect
  <2>5. Coming' = <<>> /\ Held(decoder') = <<>>
    BY <1>1, <1>2, <2>1, <2>2, <2>3, <2>4 DEF Coming
  <2>6. Pending' = <<>>
    BY <1>1, <1>2, <2>4 DEF Pending
  <2>7. sent' \in Seq(GoodFrames) /\ Len(executed') <= Len(sent')
    BY <1>1, <2>4, EmptySeq
  <2> QED
    BY <1>1, <1>2, <2>5, <2>6, <2>7, ParsesNothing DEF StreamTrue
<1>6. CASE FeedByte
  <2>1. /\ index < Len(data) /\ decoder' = Pushed /\ index' = index + 1
        /\ UNCHANGED <<data, wire, unsent, sent, executed>>
    BY <1>6 DEF FeedByte, Pushed, NextByte, clientVars
  <2>2. Coming' = After
    BY <2>1 DEF Coming, After
  <2>3. Pending' = Pending
    BY <2>1 DEF Pending
  <2>4. Held(Pushed) \o After = Held(decoder) \o Coming
    BY <2>1, PushKeepsStream
  <2>5. /\ sent \in Seq(GoodFrames) /\ Len(executed) <= Len(sent)
        /\ Parses(Held(decoder) \o Coming, Pending)
    BY DEF RInv, StreamTrue
  <2> QED
    BY <2>1, <2>2, <2>3, <2>4, <2>5 DEF StreamTrue
<1>7. CASE FeedFrame
  <2>1. /\ index < Len(data) /\ Pushed.ready /\ decoder' = ResetDecoder
        /\ data' = Rest(data, index + 1) /\ index' = 0
        /\ UNCHANGED <<wire, unsent, sent>>
        /\ executed' = Append(executed, Pushed.payload) /\ Pushed.payload \in Accepted
    BY <1>7 DEF FeedFrame, Pushed, NextByte, Consume, Rest, clientVars
  <2>2. Pending # <<>> /\ Parses(After, Tail(Pending))
    BY <2>1, OrderlyPush
  <2>3. /\ After \in Seq(Bytes)
        /\ index + 1 \in 0 .. Len(data)
    BY <2>1, PushKeepsStream
  <2>4. Coming' = After
    <3>1. data' \in Seq(Bytes)
      BY <1>1, <2>1, <2>3, RestIs
    <3> QED
      BY <1>2, <2>1, <3>1 DEF Coming, After
  <2>5. Held(decoder') = <<>>
    BY <1>1, <1>2, <2>1 DEF Held, ResetDecoder
  <2>6. /\ sent \in Seq(GoodFrames) /\ Len(executed) \in 0 .. Len(sent)
        /\ Len(executed') = Len(executed) + 1 /\ Len(sent) \in Nat
    BY <2>1, StreamTypes, AppendProperties, LenProperties DEF RInv, IInv, TypeOK
  <2>7. Len(executed) < Len(sent)
    <3>1. Len(executed) # Len(sent)
      BY <2>2, <2>6, RestWhole DEF Pending
    <3> QED
      BY <2>6, <3>1
  <2>8. Pending' = Tail(Pending)
    BY <2>1, <2>6, <2>7, RestHead DEF Pending
  <2>9. sent' \in Seq(GoodFrames) /\ Len(executed') <= Len(sent')
    BY <2>1, <2>6, <2>7
  <2> QED
    BY <1>2, <2>2, <2>3, <2>4, <2>5, <2>8, <2>9 DEF StreamTrue
<1>8. CASE FeedError
  <2>1. index < Len(data) /\ (PushFails(decoder, NextByte)
                                \/ (Pushed.ready /\ Pushed.payload \notin Accepted))
    BY <1>8 DEF FeedError, Pushed, NextByte
  <2> QED
    BY <2>1, OrderlyPush
<1>9. CASE FeedEnd
  <2>1. /\ index = Len(data) /\ data' = <<>> /\ index' = 0
        /\ UNCHANGED <<decoder, wire, unsent, sent, executed>>
    BY <1>9 DEF FeedEnd, clientVars, history
  <2>2. Rest(data, index) = <<>> /\ Rest(data', index') = <<>>
    BY <1>1, <1>2, <2>1, RestWhole
  <2>3. Coming' = Coming
    BY <2>1, <2>2 DEF Coming
  <2> QED
    BY <2>1, <2>3, StreamKept
<1>10. CASE ClientBegin
  <2>1. PICK f \in GoodFrames : sent' = Append(sent, f) /\ unsent' = f
    BY <1>10 DEF ClientBegin
  <2>2. unsent = <<>> /\ UNCHANGED <<decoder, data, index, wire, executed>>
    BY <1>10 DEF ClientBegin, threadVars, history
  <2>3. /\ sent \in Seq(GoodFrames) /\ Len(executed) \in 0 .. Len(sent) /\ Len(sent) \in Nat
        /\ Pending \in Seq(Seq(Bytes)) /\ Parses(Held(decoder) \o Coming, Pending)
        /\ Rest(data, index) \in Seq(Bytes) /\ f \in Seq(Bytes) /\ Coming \in Seq(Bytes)
    BY <1>1, <2>1, StreamTypes, RestIs, FramesAssumption, LenProperties
  <2>4. Coming = Rest(data, index) \o wire
    BY <1>1, <1>2, <2>2 DEF Coming
  <2>5. Coming' = Coming \o f
    <3>1. Coming' = Rest(data, index) \o (wire \o f)
      BY <2>1, <2>2 DEF Coming
    <3>2. Rest(data, index) \in Seq(Bytes) /\ wire \in Seq(Bytes) /\ f \in Seq(Bytes)
      BY <1>1, <2>3
    <3>3. Rest(data, index) \o (wire \o f) = (Rest(data, index) \o wire) \o f
      BY <3>2, Associative
    <3> QED
      BY <2>4, <3>1, <3>3
  <2>6. Held(decoder) \o Coming' = (Held(decoder) \o Coming) \o f
    BY <1>1, <2>3, <2>5, Associative
  <2>7. Pending' = Append(Pending, f)
    BY <2>1, <2>2, <2>3, RestAppend DEF Pending
  <2>8. sent' \in Seq(GoodFrames) /\ Len(sent') = Len(sent) + 1
    BY <2>1, <2>3, AppendProperties
  <2>9. Parses((Held(decoder) \o Coming) \o f, Append(Pending, f))
    BY <2>3, ParsesMore
  <2> QED
    BY <2>2, <2>3, <2>6, <2>7, <2>8, <2>9 DEF StreamTrue
<1>11. CASE ClientSend
  <2>1. PICK n \in Len(unsent) .. Len(unsent) :
          /\ wire' = wire \o SubSeq(unsent, 1, n)
          /\ unsent' = SubSeq(unsent, n + 1, Len(unsent))
    BY <1>11 DEF ClientSend
  <2>2. n \in 0 .. Len(unsent) /\ UNCHANGED <<decoder, data, index, sent, executed>>
    BY <1>1, <1>11, <2>1, LenProperties DEF ClientSend, threadVars, history
  <2>3. /\ SubSeq(unsent, 1, n) \in Seq(Bytes) /\ unsent' \in Seq(Bytes)
        /\ unsent = SubSeq(unsent, 1, n) \o unsent'
    BY <1>1, <2>1, <2>2, RestIs DEF Rest
  <2>4. wire' \o unsent' = wire \o unsent
    <3> DEFINE u == SubSeq(unsent, 1, n)
    <3>1. wire \in Seq(Bytes) /\ u \in Seq(Bytes) /\ unsent' \in Seq(Bytes)
      BY <1>1, <2>3
    <3> HIDE DEF u
    <3>2. (wire \o u) \o unsent' = wire \o (u \o unsent')
      BY <3>1, Associative
    <3> QED
      BY <2>1, <2>3, <3>2 DEF u
  <2>5. Coming' = Coming
    BY <2>2, <2>4 DEF Coming
  <2> QED
    BY <2>2, <2>5, StreamKept
<1> QED
  BY <1>3, <1>4, <1>5, <1>6, <1>7, <1>8, <1>9, <1>10, <1>11 DEF Next, ServiceThread, Client

LEMMA StreamInvariant == Spec => []RInv
<1>1. RInv /\ [Next]_vars => RInv'
  BY Inductive, DecoderStep, NothingLeftStep, OneReplyStep, StreamStep DEF RInv
<1> QED
  BY <1>1, InitRInv, PTL DEF Spec

-----------------------------------------------------------------------------
\* Asked, for the requests fs.
Payloads(fs) == [i \in 1 .. Len(fs) |-> Payload(fs[i])]

LEMMA PayloadsAre ==
  ASSUME NEW fs \in Seq(GoodFrames)
  PROVE  /\ Payloads(fs) \in Seq({Payload(f) : f \in GoodFrames})
         /\ Len(Payloads(fs)) = Len(fs)
         /\ \A i \in 1 .. Len(fs) : Payloads(fs)[i] = Payload(fs[i])
<1> DEFINE S == {Payload(f) : f \in GoodFrames}
<1>1. Len(fs) \in Nat /\ \A i \in 1 .. Len(fs) : fs[i] \in GoodFrames
  BY LenProperties
<1>2. \A i \in 1 .. Len(fs) : Payload(fs[i]) \in S
  BY <1>1
<1> HIDE DEF S
<1>4. Payloads(fs) \in Seq(S)
  BY <1>1, <1>2, IsASeq DEF Payloads
<1>5. Len(Payloads(fs)) = Len(fs)
  <2>1. DOMAIN Payloads(fs) = 1 .. Len(fs)
    BY DEF Payloads
  <2>2. Len(Payloads(fs)) \in Nat /\ DOMAIN Payloads(fs) = 1 .. Len(Payloads(fs))
    BY <1>4, LenProperties
  <2> QED
    BY <1>1, <2>1, <2>2
<1> QED
  BY <1>4, <1>5 DEF Payloads, S

LEMMA PayloadsGrow ==
  ASSUME NEW fs \in Seq(GoodFrames), NEW f \in GoodFrames
  PROVE  Payloads(Append(fs, f)) = Append(Payloads(fs), Payload(f))
<1> DEFINE S == {Payload(g) : g \in GoodFrames}
           t == Append(fs, f)
           u == Append(Payloads(fs), Payload(f))
<1>1. /\ t \in Seq(GoodFrames) /\ Len(t) = Len(fs) + 1 /\ Len(fs) \in Nat
      /\ t[Len(fs) + 1] = f /\ \A i \in 1 .. Len(fs) : t[i] = fs[i]
  BY AppendProperties, LenProperties
<1>2. /\ Payloads(fs) \in Seq(S) /\ Len(Payloads(fs)) = Len(fs)
      /\ \A i \in 1 .. Len(fs) : Payloads(fs)[i] = Payload(fs[i])
  BY PayloadsAre
<1>3. /\ Payloads(t) \in Seq(S) /\ Len(Payloads(t)) = Len(t)
      /\ \A i \in 1 .. Len(t) : Payloads(t)[i] = Payload(t[i])
  BY <1>1, PayloadsAre
<1>4. Payload(f) \in S
  OBVIOUS
<1> HIDE DEF S, t
<1>5. /\ u \in Seq(S) /\ Len(u) = Len(fs) + 1 /\ u[Len(fs) + 1] = Payload(f)
      /\ \A i \in 1 .. Len(fs) : u[i] = Payloads(fs)[i]
  BY <1>2, <1>4, AppendProperties
<1> HIDE DEF u
<1>6. \A i \in 1 .. Len(fs) + 1 : i \in 1 .. Len(fs) \/ i = Len(fs) + 1
  BY <1>1
<1>7. \A i \in 1 .. Len(fs) + 1 : Payloads(t)[i] = u[i]
  BY <1>1, <1>2, <1>3, <1>5, <1>6
<1>8. Payloads(t) = u
  BY <1>1, <1>3, <1>5, <1>7, SeqEqual
<1> QED
  BY <1>8 DEF t, u

LEMMA InitSimulation == Init => R!Init
<1> SUFFICES ASSUME Init PROVE R!Init
  OBVIOUS
<1>1. ~Served
  BY DEF Init, Served
<1> QED
  BY <1>1 DEF R!Init

LEMMA StepSimulation == ASSUME RInv, [Next]_vars PROVE [R!Next]_(R!vars)
<1>1. orderly' = orderly
  BY DEF Next, ServiceThread, Client, Accept, Receive, Disconnect, FeedByte, FeedFrame, FeedError,
     FeedEnd, SendReply, SendReplyFails, ClientConnect, ClientBegin, ClientSend, ClientClose,
     ClientAck, threadVars, clientVars, vars
<1>2. CASE ~Served /\ ~Served'
  BY <1>2 DEF R!vars, Served
<1>3. CASE ~Served /\ Served'
  <2>1. ClientConnect
    BY <1>1, <1>3 DEF Served, Next, ServiceThread, Client, Accept, Receive, Disconnect, FeedByte,
       FeedFrame, FeedError, FeedEnd, SendReply, SendReplyFails, ClientBegin, ClientSend,
       ClientClose, ClientAck, threadVars, clientVars, vars
  <2>2. executed' = <<>> /\ replied' = <<>> /\ sent' = <<>>
    BY <2>1 DEF ClientConnect, RInv, NothingLeft, history
  <2>3. Len(<<>>) = 0 /\ \A s : SubSeq(s, 1, 0) = <<>>
    BY EmptySeq, SubSeqEmpty
  <2>4. SubSeq(Asked', Len(executed') + 1, Len(sent')) = <<>>
    BY <2>2, <2>3
  <2>5. R!Connect
    BY <1>3, <2>2, <2>4 DEF R!Connect
  <2> QED
    BY <2>5 DEF R!Next
<1>4. CASE Served /\ ~Served'
  BY <1>4 DEF R!Close, R!Next
<1>5. CASE Served /\ Served'
  <2> DEFINE n == Len(executed)
             S == {Payload(f) : f \in GoodFrames}
  <2>1. /\ orderly /\ conn = "open" /\ conn' = "open"
        /\ sent \in Seq(GoodFrames) /\ n \in 0 .. Len(sent) /\ Len(sent) \in Nat
        /\ OneReplyEach
    BY <1>5, StreamTypes, LenProperties DEF Served, RInv
  <2>2. /\ Asked = Payloads(sent) /\ Asked' = Payloads(sent')
        /\ Asked \in Seq(S) /\ Len(Asked) = Len(sent) /\ n \in 0 .. Len(Asked)
        /\ \A i \in 1 .. Len(sent) : Asked[i] = Payload(sent[i])
    BY <2>1, PayloadsAre DEF Asked, Payloads
  <2>3. R!vars = <<TRUE, Rest(Asked, n), executed, replied>>
    BY <1>5, <2>2 DEF R!vars, Rest
  <2>4. CASE ClientBegin
    <3>1. PICK f \in GoodFrames : sent' = Append(sent, f)
      BY <2>1, <2>4 DEF ClientBegin
    <3>2. UNCHANGED <<executed, replied>>
      BY <2>4 DEF ClientBegin, history
    <3>3. Asked' = Append(Asked, Payload(f)) /\ Payload(f) \in S
      BY <2>1, <2>2, <3>1, PayloadsGrow
    <3>4. Len(sent') = Len(Asked')
      <4>1. sent' \in Seq(GoodFrames)
        BY <2>1, <3>1, AppendProperties
      <4> QED
        BY <2>2, <4>1, PayloadsAre
    <3> HIDE DEF S
    <3>5. Rest(Append(Asked, Payload(f)), n) = Append(Rest(Asked, n), Payload(f))
      BY <2>2, <3>3, RestAppend
    <3>6. R!Request
      BY <1>5, <2>2, <3>2, <3>3, <3>4, <3>5 DEF R!Request, Rest, S
    <3> QED
      BY <3>6 DEF R!Next
  <2>5. CASE FeedFrame
    <3>1. /\ index < Len(data) /\ Pushed.ready /\ pc = "feed"
          /\ UNCHANGED <<sent, replied>>
          /\ executed' = Append(executed, Pushed.payload) /\ Pushed.payload \in Accepted
      BY <2>5 DEF FeedFrame, Pushed, NextByte, clientVars
    <3>2. Pending # <<>> /\ Pushed.payload = Payload(Head(Pending))
      BY <2>1, <3>1, OrderlyPush
    <3>3. Len(executed') = n + 1
      BY <3>1, AppendProperties DEF RInv, IInv, TypeOK
    <3>4. n < Len(sent)
      <4>1. n # Len(sent)
        BY <2>1, <3>2, RestWhole DEF Pending
      <4> QED
        BY <2>1, <4>1
    <3>5. Head(Pending) = sent[n + 1]
      BY <2>1, <3>4, RestHead DEF Pending
    <3>6. Asked[n + 1] = Payload(sent[n + 1])
      <4>1. n + 1 \in 1 .. Len(sent)
        BY <2>1, <3>4
      <4> QED
        BY <2>2, <4>1
    <3> HIDE DEF S
    <3>7. /\ Rest(Asked, n) # <<>> /\ Head(Rest(Asked, n)) = Asked[n + 1]
          /\ Tail(Rest(Asked, n)) = Rest(Asked, n + 1)
      BY <2>2, <3>4, RestHead
    <3>8. executed = replied
      BY <2>1, <3>1 DEF OneReplyEach
    <3>9. executed' = Append(executed, Head(Rest(Asked, n)))
      BY <3>1, <3>2, <3>5, <3>6, <3>7
    <3>10. Asked' = Asked
      BY <2>2, <3>1
    <3>11. R!Execute
      BY <1>5, <2>2, <3>1, <3>3, <3>7, <3>8, <3>9, <3>10 DEF R!Execute, Rest
    <3> QED
      BY <3>11 DEF R!Next
  <2>6. CASE SendReply
    <3>1. /\ pc = "reply" /\ UNCHANGED <<sent, executed>>
          /\ replied' = Append(replied, response)
      BY <2>6 DEF SendReply, clientVars
    <3>2. replied' = executed
      BY <2>1, <3>1 DEF OneReplyEach
    <3>3. replied # executed
      <4>1. Len(replied') = Len(replied) + 1 /\ Len(replied) \in Nat
        BY <3>1, AppendProperties, LenProperties DEF RInv, IInv, TypeOK
      <4> QED
        BY <3>2, <4>1
    <3>4. R!Answer
      BY <1>5, <2>2, <3>1, <3>2, <3>3 DEF R!Answer
    <3> QED
      BY <3>4 DEF R!Next
  <2>7. CASE ~(ClientBegin \/ FeedFrame \/ SendReply)
    <3>1. UNCHANGED <<sent, executed, replied>>
      BY <2>1, <2>7 DEF Next, ServiceThread, Client, Accept, Receive, Disconnect, FeedByte,
         FeedError, FeedEnd, SendReplyFails, ClientConnect, ClientSend, ClientClose, ClientAck,
         threadVars, clientVars, history, vars
    <3> QED
      BY <1>5, <2>2, <3>1 DEF R!vars
  <2> QED
    BY <2>4, <2>5, <2>6, <2>7
<1> QED
  BY <1>2, <1>3, <1>4, <1>5

\* For any requests, any sizes and any way the network cuts the stream: for
\* clients that stick to the protocol Controller gets the payloads that were
\* sent, each once and in the order sent, and each is answered, with the reply
\* to it, before the next is executed; a connection starts from nothing,
\* whatever the one before it left.
THEOREM RefinesRequestService == Spec => ImplementsRequestService
<1>1. Init => R!Init
  BY InitSimulation
<1>2. RInv /\ [Next]_vars => [R!Next]_(R!vars)
  BY StepSimulation
<1> QED
  BY <1>1, <1>2, StreamInvariant, PTL DEF Spec, ImplementsRequestService, R!Spec
=============================================================================
