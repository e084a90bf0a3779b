---------------------------- MODULE FrameService ----------------------------
(***************************************************************************)
(* One framed TCP service of the A53 firmware, from the client's byte      *)
(* stream to its replies: FrameDecoder (firmware/common), the feed loop of *)
(* ControlConnection and DapConnection (firmware/a53), the C boundary      *)
(* orbtrace_control_feed / orbtrace_dap_feed (ffi.rs) and the accept,      *)
(* receive and send loops of main.c.  The two services share this code     *)
(* shape line for line; the map names the control service's lines.         *)
(*                                                                         *)
(* A request is the record of its bytes on the wire and of the outcome     *)
(* Controller gives it; the network may cut the stream into received       *)
(* anywhere.                                                               *)
(***************************************************************************)
EXTENDS Naturals, Sequences

CONSTANTS
  Bytes,          \* byte values that occur
  MaxPayload,     \* N of FrameDecoder: MAX_CONTROL_PAYLOAD, MAX_DAP_PACKET
  Accepted,       \* payloads Controller answers
  Frames,         \* byte sequences a client sends as one request
  GoodFrames,     \* those of a client that sticks to the protocol
  PoolSize,       \* packets of the general pool
  MaxSent,        \* bound: requests of the first connection; each later one sends one less
  MaxConnections  \* bound: connections in one behaviour

ASSUME BytesAssumption == Bytes \subseteq 0 .. 255
ASSUME PayloadAssumption == MaxPayload \in Nat \ {0}
ASSUME FramesAssumption ==
  Frames \subseteq Seq(Bytes) /\ GoodFrames \subseteq Frames /\ Accepted \subseteq Seq(Bytes)
ASSUME BoundsAssumption == PoolSize \in Nat /\ MaxSent \in Nat /\ MaxConnections \in Nat

VARIABLES
  pc,        \* where the service thread is
  decoder,   \* CONTROL_CONN.decoder
  data,      \* the fragment's bytes from data + offset on
  index,     \* how many of them the current feed call has pushed
  response,  \* the payload a reply is being sent for
  free,      \* packets available in the pool
  queued,    \* replies TCP holds until they are acknowledged
  orderly,   \* do clients stick to the protocol, and close between requests only?
  conn,      \* "none", "open", or "closed" by the client
  wire,      \* bytes sent and not received yet
  unsent,    \* rest of a request the client has begun to send
  connections, \* connections so far
  \* history of this connection
  sent,      \* requests the client has begun to send
  received,  \* number of bytes received
  executed,  \* payloads handed to Controller and answered
  replied,   \* payloads whose reply was sent
  clean,     \* no error, and the decoder started from its reset state
  \* history of the behaviour
  failedSends

threadVars == <<pc, decoder, data, index, response>>
clientVars == <<orderly, conn, wire, unsent, connections, sent>>
history    == <<received, executed, replied, clean>>
vars == <<pc, decoder, data, index, response, free, queued, orderly, conn, wire,
          unsent, connections, sent, received, executed, replied, clean, failedSends>>

-----------------------------------------------------------------------------
(***************************************************************************)
(* FrameDecoder                                                            *)
(***************************************************************************)

\* length[0 .. length_used-1] and payload[0 .. payload_used-1] are the two
\* sequences; expected is the declared length once the header is complete.
ResetDecoder == [length |-> <<>>, expected |-> 0, payload |-> <<>>, ready |-> FALSE]

\* u32::from_le_bytes
Declared(h) == h[1] + 256 * h[2] + 65536 * h[3] + 16777216 * h[4]

\* To stick to the protocol is to declare what is sent, and what fits, and to
\* ask for what Controller answers.
ASSUME GoodFramesAssumption ==
  \A f \in GoodFrames :
    /\ Len(f) >= 4 /\ Declared(f) = Len(f) - 4 /\ Len(f) - 4 <= MaxPayload
    /\ SubSeq(f, 5, Len(f)) \in Accepted

\* Mutant: a frame without payload is not ready.
PushHeaderOnly(d, b) ==
  LET h == Append(d.length, b) IN
  IF Len(h) < 4 THEN [d EXCEPT !.length = h]
  ELSE [d EXCEPT !.length = h, !.expected = Declared(h)]

\* A header byte: the fourth one fixes the expected length, and a frame
\* without payload is ready at once.
PushHeader(d, b) ==
  LET h == Append(d.length, b) IN
  IF Len(h) < 4 THEN [d EXCEPT !.length = h]
  ELSE [d EXCEPT !.length = h, !.expected = Declared(h), !.ready = (Declared(h) = 0)]

PushPayload(d, b) ==
  LET p == Append(d.payload, b) IN
  [d EXCEPT !.payload = p, !.ready = (Len(p) = d.expected)]

Push(d, b) == IF Len(d.length) < 4 THEN PushHeader(d, b) ELSE PushPayload(d, b)

\* Mutant: a frame that just fits is refused.
PushFailsAtLimit(d, b) == d.ready \/ Push(d, b).expected >= MaxPayload

\* The errors of push: a frame is still pending, or a header declares more
\* than fits (the decoder is then reset).
PushFails(d, b) == d.ready \/ Push(d, b).expected > MaxPayload

-----------------------------------------------------------------------------
Init ==
  /\ pc = "accept" /\ decoder = ResetDecoder /\ data = <<>> /\ index = 0
  /\ response = <<>> /\ free = PoolSize /\ queued = 0
  /\ orderly \in BOOLEAN
  /\ conn = "none" /\ wire = <<>> /\ unsent = <<>> /\ connections = 0
  /\ sent = <<>> /\ received = 0 /\ executed = <<>>
  /\ replied = <<>> /\ clean = TRUE /\ failedSends = 0

(***************************************************************************)
(* The service thread                                                      *)
(***************************************************************************)

\* nx_tcp_server_socket_accept returns.
Accept ==
  /\ pc = "accept" /\ conn # "none"
  /\ pc' = "receive"
  /\ UNCHANGED <<decoder, data, index, response, free, queued, clientVars, history,
                 failedSends>>

\* nx_tcp_socket_receive returns a packet with any prefix of the bytes
\* under way.  The driver took the packet from the pool.
Receive ==
  /\ pc = "receive" /\ wire # <<>> /\ free > 0
  /\ \E n \in 1 .. Len(wire) :
       /\ data' = SubSeq(wire, 1, n)
       /\ wire' = SubSeq(wire, n + 1, Len(wire))
  /\ received' = received + Len(data')
  /\ free' = free - 1
  /\ pc' = "feed" /\ index' = 0
  /\ UNCHANGED <<decoder, response, queued, orderly, conn, unsent, connections, sent,
                 executed, replied, clean, failedSends>>

\* Receive fails once the client has closed and everything was delivered:
\* disconnect, unaccept, relisten.  CONTROL_CONN is a static: the decoder
\* keeps whatever this connection left in it.
Disconnect ==
  /\ pc = "receive" /\ conn = "closed" /\ wire = <<>>
  /\ pc' = "accept" /\ conn' = "none"
  /\ free' = free + queued /\ queued' = 0
  /\ clean' = (decoder = ResetDecoder)
  /\ sent' = <<>> /\ received' = 0 /\ executed' = <<>> /\ replied' = <<>>
  /\ UNCHANGED <<decoder, data, index, response, orderly, wire, unsent, connections,
                 failedSends>>

\* orbtrace_control_feed returns the number of bytes it consumed; the loop
\* of serve_control goes on from there with a new call.
Consume(n) ==
  /\ data' = SubSeq(data, n + 1, Len(data))
  /\ index' = 0

\* The next byte of the input is pushed and no frame is complete.
FeedByte ==
  /\ pc = "feed" /\ index < Len(data)
  /\ LET b == data[index + 1] IN
       /\ ~PushFails(decoder, b)
       /\ ~Push(decoder, b).ready
       /\ decoder' = Push(decoder, b)
  /\ index' = index + 1
  /\ UNCHANGED <<pc, data, response, free, queued, clientVars, received, executed,
                 replied, clean, failedSends>>

\* Mutant: the whole input counts as consumed, pipelined requests included.
FeedFrameConsumingAll ==
  /\ pc = "feed" /\ index < Len(data)
  /\ LET b == data[index + 1]
         d == Push(decoder, b) IN
       /\ ~PushFails(decoder, b)
       /\ d.ready /\ d.payload \in Accepted
       /\ executed' = Append(executed, d.payload)
       /\ response' = d.payload
  /\ decoder' = ResetDecoder
  /\ Consume(Len(data))
  /\ pc' = "reply"
  /\ UNCHANGED <<free, queued, clientVars, received, replied, clean, failedSends>>

\* A frame is complete and Controller answers it.
FeedFrame ==
  /\ pc = "feed" /\ index < Len(data)
  /\ LET b == data[index + 1]
         d == Push(decoder, b) IN
       /\ ~PushFails(decoder, b)
       /\ d.ready /\ d.payload \in Accepted
       /\ executed' = Append(executed, d.payload)
       /\ response' = d.payload
  /\ decoder' = ResetDecoder
  /\ Consume(index + 1)
  /\ pc' = "reply"
  /\ UNCHANGED <<free, queued, clientVars, received, replied, clean, failedSends>>

\* Mutant: no byte at all is consumed.
FeedErrorConsumingNothing ==
  /\ pc = "feed" /\ index < Len(data)
  /\ LET b == data[index + 1]
         d == Push(decoder, b) IN
       PushFails(decoder, b) \/ (d.ready /\ d.payload \notin Accepted)
  /\ decoder' = ResetDecoder
  /\ Consume(0)
  /\ clean' = FALSE
  /\ UNCHANGED <<pc, response, free, queued, clientVars, received, executed, replied,
                 failedSends>>

\* A header declares too much, or Controller rejects the frame: the decoder
\* is reset and the call consumes one byte, whichever byte was at fault.
FeedError ==
  /\ pc = "feed" /\ index < Len(data)
  /\ LET b == data[index + 1]
         d == Push(decoder, b) IN
       /\ PushFails(decoder, b) \/ (d.ready /\ d.payload \notin Accepted)
  /\ decoder' = ResetDecoder
  /\ Consume(1)
  /\ clean' = FALSE
  /\ UNCHANGED <<pc, response, free, queued, clientVars, received, executed, replied,
                 failedSends>>

\* Mutant: the packet is not released.
FeedEndKeepingPacket ==
  /\ pc = "feed" /\ index = Len(data)
  /\ data' = <<>> /\ index' = 0
  /\ pc' = "receive"
  /\ UNCHANGED <<decoder, response, free, queued, clientVars, history, failedSends>>

\* The whole input was pushed (or nothing was left): the packet is released.
FeedEnd ==
  /\ pc = "feed" /\ index = Len(data)
  /\ data' = <<>> /\ index' = 0
  /\ free' = free + 1
  /\ pc' = "receive"
  /\ UNCHANGED <<decoder, response, queued, clientVars, history, failedSends>>

\* nx_packet_allocate waits while the pool is empty, and TCP takes the
\* reply and keeps its packet until the client acknowledges it.
SendReply ==
  /\ pc = "reply" /\ free > 0
  /\ free' = free - 1 /\ queued' = queued + 1
  /\ replied' = Append(replied, response)
  /\ response' = <<>> /\ pc' = "feed"
  /\ UNCHANGED <<decoder, data, index, clientVars, received, executed, clean,
                 failedSends>>

\* The client has closed and nx_tcp_socket_send fails: its status is ignored
\* and nobody releases the packet.
SendReplyFails ==
  /\ pc = "reply" /\ free > 0 /\ conn = "closed"
  /\ free' = free - 1
  /\ failedSends' = failedSends + 1
  /\ response' = <<>> /\ pc' = "feed"
  /\ UNCHANGED <<decoder, data, index, queued, clientVars, history>>

ServiceThread ==
  \/ Accept \/ Receive \/ Disconnect
  \/ FeedByte \/ FeedFrame \/ FeedError \/ FeedEnd
  \/ SendReply \/ SendReplyFails

-----------------------------------------------------------------------------
(***************************************************************************)
(* The client and the network (external)                                   *)
(***************************************************************************)
ClientConnect ==
  /\ conn = "none" /\ pc = "accept" /\ connections < MaxConnections
  /\ conn' = "open" /\ connections' = connections + 1
  /\ unsent' = <<>> /\ wire' = <<>> /\ sent' = <<>>
  /\ UNCHANGED <<threadVars, free, queued, orderly, history, failedSends>>

\* The client begins a request (pipelined ones included) ...
ClientBegin ==
  /\ conn = "open" /\ unsent = <<>> /\ Len(sent) + connections <= MaxSent
  /\ \E f \in IF orderly THEN GoodFrames ELSE Frames : sent' = Append(sent, f) /\ unsent' = f
  /\ UNCHANGED <<threadVars, free, queued, orderly, conn, wire, connections, history,
                 failedSends>>

\* ... and its bytes get on their way, all of them or, if the client may be
\* cut off inside a request, only some.
ClientSend ==
  /\ conn = "open" /\ unsent # <<>>
  /\ \E n \in (IF orderly THEN Len(unsent) ELSE 1) .. Len(unsent) :
       /\ wire' = wire \o SubSeq(unsent, 1, n)
       /\ unsent' = SubSeq(unsent, n + 1, Len(unsent))
  /\ UNCHANGED <<threadVars, free, queued, orderly, conn, connections, sent, history,
                 failedSends>>

\* The client closes; a reset may discard bytes not received yet, and so cut
\* a request short as well.
ClientClose ==
  /\ conn = "open" /\ (orderly => unsent = <<>>)
  /\ conn' = "closed" /\ unsent' = <<>>
  /\ wire' \in (IF orderly THEN {wire} ELSE {wire, <<>>})
  /\ UNCHANGED <<threadVars, free, queued, orderly, connections, sent, history, failedSends>>

\* A reply is acknowledged and its packet goes back to the pool.
ClientAck ==
  /\ queued > 0
  /\ queued' = queued - 1 /\ free' = free + 1
  /\ UNCHANGED <<threadVars, clientVars, history, failedSends>>

Client == ClientConnect \/ ClientBegin \/ ClientSend \/ ClientClose \/ ClientAck

Next == ServiceThread \/ Client

\* ThreadX runs the service thread whenever it can run, a client that began
\* a request sends all of it or closes, and replies are acknowledged.
Fairness ==
  /\ WF_vars(ServiceThread)
  /\ WF_vars(ClientSend)
  /\ WF_vars(ClientAck)

Spec == Init /\ [][Next]_vars
FairSpec == Spec /\ Fairness

-----------------------------------------------------------------------------
(***************************************************************************)
(* Properties                                                              *)
(***************************************************************************)
\* Between two pushes the decoder never holds a finished frame (push would
\* answer FramePending) and, past the header, always has room for the next
\* byte: payload[payload_used] cannot index out of bounds, which would
\* panic and stop the service for good.
DecoderHasRoom ==
  /\ ~decoder.ready
  /\ Len(decoder.length) <= 4
  /\ Len(decoder.length) < 4 => decoder.payload = <<>>
  /\ Len(decoder.length) = 4 =>
       /\ Len(decoder.payload) < decoder.expected
       /\ decoder.expected <= MaxPayload

Payload(f) == SubSeq(f, 5, Len(f))

\* Every packet of the pool is accounted for: each failed send costs one,
\* nothing else does.
PoolAccounted ==
  PoolSize = free + queued + failedSends + (IF pc \in {"feed", "reply"} THEN 1 ELSE 0)

\* The feed loop always comes to an end, on garbage too: the thread goes
\* back to receiving, unless failed sends have emptied the pool.
FeedReturns == pc = "feed" ~> (pc = "receive" \/ failedSends + 1 >= PoolSize)

\* A client that keeps its connection open and does nothing wrong gets a
\* reply to each of its requests, unless failed sends have emptied the pool.
RequestsAnswered ==
  \A n \in 1 .. MaxSent :
    (conn = "open" /\ pc # "accept" /\ Len(sent) >= n)
      ~> (Len(replied) >= n \/ conn # "open" \/ ~clean \/ failedSends + 1 >= PoolSize)

\* What lib.rs says of ControlConnection: its state is per connection, so a
\* connection starts with a decoder in its reset state.
DecoderIsPerConnection == pc = "receive" /\ received = 0 => decoder = ResetDecoder

(***************************************************************************)
(* Refinement: for clients that stick to the protocol, the service is a    *)
(* RequestService.  Its pending requests are the payloads the client sent  *)
(* and that are still to be executed; what it executes and answers are the *)
(* payloads Controller got and those whose replies went out.               *)
(***************************************************************************)
Served == orderly /\ conn = "open"

Asked == [i \in 1 .. Len(sent) |-> Payload(sent[i])]

R == INSTANCE RequestService WITH
  Requests <- {Payload(f) : f \in GoodFrames},
  open     <- Served,
  pending  <- IF Served THEN SubSeq(Asked, Len(executed) + 1, Len(sent)) ELSE <<>>,
  executed <- IF Served THEN executed ELSE <<>>,
  answered <- IF Served THEN replied ELSE <<>>

\* Every step of the service is a step of RequestService or changes nothing
\* a client can see: the payload Controller gets is, byte for byte, that of
\* the oldest request not executed, and the reply sent is the one to it.
ImplementsRequestService == R!Spec
=============================================================================
