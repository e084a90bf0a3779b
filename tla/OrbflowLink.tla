----------------------------- MODULE OrbflowLink -----------------------------
(***************************************************************************)
(* The end of the stream in the fabric: orbtrace_orbflow_encoder.sv, fed   *)
(* with packets of any channel and of lengths up to beyond the limit, and  *)
(* behind it orbtrace_axis_packer.sv, as orbtrace_pl.v connects them.      *)
(***************************************************************************)
EXTENDS OrbflowEncoder

CONSTANTS
  Data,     \* payload bytes that occur
  Channels, \* channels that occur
  Longest,  \* bound: the longest packet offered
  BeatBytes, FramesPerTransfer

ASSUME LinkAssumption ==
  /\ Data \subseteq Byte /\ Channels \subseteq Channel /\ Longest \in Nat \ {0}
  /\ BeatBytes \in Nat \ {0} /\ FramesPerTransfer \in Nat \ {0}

VARIABLES
  offered,   \* the packet coming in, so far (an observation)
  frame,     \* the bytes that left since the latest delimiter (an observation)
  delivered, \* the frames that ended at this edge, decoded (an observation)
  leaving,   \* packets in the packer to their last byte (an observation)
  buffer, frameCount, beat, packed, framesSent, sent \* the packer's

P == INSTANCE AxisPacker WITH Data <- Byte, pending <- packed

linkVars == <<encoderVars, offered, frame, delivered, leaving,
              buffer, frameCount, beat, packed, framesSent, sent>>

NoByte == [valid |-> FALSE, last |-> FALSE, channel |-> 0, data |-> 0]
Offers ==
  {NoByte} \cup [valid : {TRUE}, last : BOOLEAN, channel : Channels, data : Data]

\* The channel of a packet stays the same, and it ends after Longest bytes.
Offerable(in) ==
  in.valid /\ offered # <<>> => in.channel = offered[1] /\ (Len(offered) = Longest => in.last)

Come(in) ==
  LET now == IF offered = <<>> THEN <<in.channel, in.data>> ELSE Append(offered, in.data)
  IN offered' = IF ~(in.valid /\ EncoderReady) THEN offered
                ELSE IF in.last THEN <<>> ELSE now

Decoded(bytes) ==
  LET p == orbflow_unframe(bytes) IN IF p = <<>> THEN <<>> ELSE <<p[1]>> \o p[2]

\* Where frames end in the bytes, in order.
Ends(bytes) == SelectSeq([i \in 1 .. Len(bytes) |-> i], LAMBDA i : bytes[i] = 0)

\* The host's end: the bytes of the beats, cut at the delimiters and decoded; and
\* the packets whose delimiter the packer has taken in.  A beat may end several.
Leave(ready) ==
  LET bytes == frame \o IF P!Sends(ready) THEN beat[1] ELSE <<>>
      end == <<0>> \o Ends(bytes)
      count == Len(end) - 1
  IN /\ frame' = SubSeq(bytes, end[count + 1] + 1, Len(bytes))
     /\ delivered' = [k \in 1 .. count |-> Decoded(SubSeq(bytes, end[k] + 1, end[k + 1]))]
     /\ leaving' = SubSeq(leaving, count + 1, Len(leaving)) \o
                   (IF OutputLast /\ P!InputReady(ready) THEN <<Front(packet[encodeBank])>> ELSE <<>>)

\* What the encoder offers the packer.
Output == [valid |-> OutputValid, data |-> OutputData, last |-> OutputLast]

Edge(in, ready) ==
  /\ Offerable(in)
  /\ EncoderEdge(in, P!InputReady(ready))
  /\ P!Edge(Output, ready)
  /\ Come(in) /\ Leave(ready)

LinkInit ==
  /\ EncoderInit /\ P!Init
  /\ offered = <<>> /\ frame = <<>> /\ delivered = <<>> /\ leaving = <<>>

LinkNext == \E in \in Offers, ready \in BOOLEAN : Edge(in, ready)

LinkSpec == LinkInit /\ [][LinkNext]_linkVars

-----------------------------------------------------------------------------
InBank(b) == IF full[b] THEN <<Front(packet[b])>> ELSE <<>>

\* The packet whose last byte has come in but whose bank is not full yet.
Closing ==
  LET raw == SubSeq(packet[loadBank], 1, rawLength)
  IN CASE load = "L_FIRST_DATA" /\ pending.last -> <<Append(raw, pending.data)>>
       [] load = "L_CHECKSUM" -> <<raw>>
       [] load = "L_FINALIZE" -> <<Front(raw)>>
       [] OTHER -> <<>>

L == INSTANCE PacketLink WITH
  Channel <- Channels, Byte <- Data,
  queue <- leaving \o InBank(nextEncodeBank) \o InBank(1 - nextEncodeBank) \o Closing

\* The encoder's promise in its header: "a too-large packet is consumed and
\* discarded as a unit, never emitted as a corrupt partial frame", and all
\* others come out whole, in order, decoding to what came in.
ImplementsPacketLink == L!Spec

\* What the packer does with the encoder's frames: every byte leaves once and in
\* order, a transfer ends with its FramesPerTransfer-th frame and nowhere else,
\* and only its last beat may be short (orbtrace_axis_packer.sv:3-5,
\* orbtrace_pl.v:254-255), over every stall of the DMA.
ImplementsTransferQueue == P!T!Spec

=============================================================================
