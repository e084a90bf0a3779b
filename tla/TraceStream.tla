----------------------------- MODULE TraceStream -----------------------------
(***************************************************************************)
(* orbtrace_core.sv from the formatter's output on: the packetizer, which  *)
(* cuts the byte stream into packets of one channel, and the encoder.      *)
(*                                                                         *)
(* An edge sees the byte the formatter offers, if any, and the readiness   *)
(* of the AXI packer.  An offer may change from edge to edge: sources are  *)
(* switched and stopped at any time.                                       *)
(***************************************************************************)
EXTENDS OrbflowEncoder

CONSTANTS
  Data,       \* payload bytes that occur
  IdleCycles  \* IDLE_CYCLES

ASSUME StreamAssumption == Data \subseteq Byte /\ IdleCycles \in Nat \ {0, 1}

VARIABLES
  held,       \* the packetizer holds a byte ...
  heldData, heldChannel, \* held_data, channel
  count,      \* bytes of the packet up to the held one
  idle,       \* edges until the packet is closed
  endPending, \* end_pending
  frame,      \* the bytes emitted since the latest delimiter (an observation)
  delivered   \* what the frame that ended at this edge decodes to (an observation)

packetizerVars == <<held, heldData, heldChannel, count, idle, endPending>>
vars == <<encoderVars, packetizerVars, frame, delivered>>

NoByte == [valid |-> FALSE, channel |-> 0, data |-> 0]
Offers == {NoByte} \cup [valid : {TRUE}, channel : Channel, data : Data]

SizeBoundary == held /\ count = MaxPayload

\* Mutant: the channel is not looked at.
ChannelBoundaryIgnored(in) == FALSE

ChannelBoundary(in) == held /\ in.valid /\ in.channel # heldChannel

PacketValid(in) == held /\ (in.valid \/ endPending \/ SizeBoundary)
PacketLast(in) == endPending \/ ChannelBoundary(in) \/ SizeBoundary
PacketByte(in) ==
  [valid |-> PacketValid(in), last |-> PacketLast(in), channel |-> heldChannel, data |-> heldData]

Sent(in) == PacketValid(in) /\ EncoderReady
InputReady(in) == ~held \/ Sent(in)

Hold(in, n) ==
  /\ held' = TRUE /\ heldData' = in.data /\ heldChannel' = in.channel /\ count' = n
  /\ idle' = IdleCycles

\* The held byte goes to the encoder, and the offered one, if any, takes its
\* place.
SendHeld(in) ==
  /\ Sent(in)
  /\ endPending' = FALSE
  /\ IF in.valid
       THEN Hold(in, IF PacketLast(in) THEN 1 ELSE count + 1)
       ELSE held' = FALSE /\ count' = 0 /\ idle' = 0 /\ UNCHANGED <<heldData, heldChannel>>

HoldFirst(in) ==
  /\ ~held /\ in.valid
  /\ Hold(in, 1)
  /\ UNCHANGED endPending

\* Mutant: the idle counter is not looked at.
WaitForever(in) ==
  /\ ~Sent(in) /\ (held \/ ~in.valid)
  /\ UNCHANGED packetizerVars

\* Neither: a held byte waits, and its packet is closed after IdleCycles.
Wait(in) ==
  /\ ~Sent(in) /\ (held \/ ~in.valid)
  /\ idle' = IF held /\ idle # 0 THEN idle - 1 ELSE idle
  /\ endPending' = (endPending \/ (held /\ idle = 1))
  /\ UNCHANGED <<held, heldData, heldChannel, count>>

Packetizer(in) == SendHeld(in) \/ HoldFirst(in) \/ Wait(in)

\* The bytes that leave: a zero ends a frame.
Observe(ready) ==
  LET ends == OutputLast /\ ready
  IN /\ frame' = IF ends THEN <<>>
                 ELSE IF OutputValid /\ ready THEN Append(frame, OutputData) ELSE frame
     /\ delivered' = IF ends THEN orbflow_unframe(Append(frame, OutputData)) ELSE <<>>

Edge(in, ready) ==
  /\ Packetizer(in)
  /\ EncoderEdge(PacketByte(in), ready)
  /\ Observe(ready)

Init ==
  /\ EncoderInit
  /\ held = FALSE /\ heldData = 0 /\ heldChannel = 0 /\ count = 0 /\ idle = 0
  /\ endPending = FALSE /\ frame = <<>> /\ delivered = <<>>

Next == \E in \in Offers, ready \in BOOLEAN : Edge(in, ready)

Spec == Init /\ [][Next]_vars

-----------------------------------------------------------------------------
(***************************************************************************)
(* What is in the path                                                     *)
(***************************************************************************)
ItemsOf(channel, payload) == [k \in DOMAIN payload |-> [channel |-> channel, data |-> payload[k]]]

\* The packet of a full bank: channel, payload, checksum.
InBank(b) ==
  IF full[b] THEN ItemsOf(packet[b][1], SubSeq(packet[b], 2, Len(packet[b]) - 1)) ELSE <<>>

\* The packet being loaded, with the first byte that waits for its channel's.
Loading ==
  LET raw == SubSeq(packet[loadBank], 1, rawLength)
  IN IF payloadCount = 0 THEN <<>> ELSE
     CASE load = "L_FIRST_DATA" -> ItemsOf(raw[1], <<pending.data>>)
       [] load = "L_FINALIZE" -> ItemsOf(raw[1], SubSeq(raw, 2, rawLength - 1))
       [] OTHER -> ItemsOf(raw[1], SubSeq(raw, 2, rawLength))

Holding == IF held THEN <<[channel |-> heldChannel, data |-> heldData]>> ELSE <<>>

Contents == InBank(nextEncodeBank) \o InBank(1 - nextEncodeBank) \o Loading \o Holding

(***************************************************************************)
(* Properties                                                              *)
(***************************************************************************)
\* The frame on its way out agrees, byte by byte, with the host library's
\* encoding of its packet.
FrameIsReference ==
  emit # "E_IDLE" =>
    LET p == packet[encodeBank]
    IN IsPrefix(frame, orbflow_frame(p[1], SubSeq(p, 2, Len(p) - 1)))

Q == INSTANCE ChannelQueue WITH MaxPacket <- MaxPayload, items <- Contents

\* Every byte accepted comes out once, in order, in packets of one channel that
\* the host decodes to just these bytes, whatever the stalls and pauses.
ImplementsChannelQueue == Q!Spec

\* What was accepted is delivered even if nothing follows it: once another edge
\* with a ready packer and a silent source changes nothing, the path is empty.
NothingStranded == ~ENABLED <<Edge(NoByte, TRUE)>>_vars => Contents = <<>>
=============================================================================
