----------------------------- MODULE AxisPacker -----------------------------
(***************************************************************************)
(* orbtrace_axis_packer.sv as orbtrace_pl.v builds it: the encoder's bytes *)
(* packed into the beats of the AXI DMA's stream, FramesPerTransfer frames *)
(* to a transfer.  One step is one clock edge; `pending', `framesSent' and *)
(* `sent' are observations.                                                *)
(***************************************************************************)
EXTENDS Naturals, Sequences, FiniteSets

CONSTANTS
  Data,              \* bytes that occur
  BeatBytes,         \* bytes of a beat (8 in the RTL)
  FramesPerTransfer  \* FRAMES_PER_TRANSFER (2 in the build)

VARIABLES
  buffer,     \* bytes of the beat being filled; its length is count
  frameCount,
  beat,       \* the beat on offer: its bytes and output_last, or <<>>
  pending, framesSent, sent

vars == <<buffer, frameCount, beat, pending, framesSent, sent>>

None == [valid |-> FALSE, data |-> 0, last |-> FALSE]
Offers == {None} \cup [valid : {TRUE}, data : Data, last : BOOLEAN]

\* A fault to check the properties with: a beat that is overwritten while it
\* is stalled.
InputReadyAlways(ready) == TRUE

InputReady(ready) == beat = <<>> \/ ready

TransferLast(in) ==
  in.last /\ (FramesPerTransfer = 1 \/ frameCount = FramesPerTransfer - 1)

BeatFull == Len(buffer) = BeatBytes - 1

\* The byte joins the buffer; it may complete the beat.
PackByte(in) ==
  /\ IF TransferLast(in) \/ BeatFull
       THEN beat' = <<Append(buffer, in.data), TransferLast(in)>> /\ buffer' = <<>>
       ELSE beat' = <<>> /\ buffer' = Append(buffer, in.data)
  /\ frameCount' = IF ~in.last THEN frameCount
                   ELSE IF TransferLast(in) THEN 0 ELSE frameCount + 1

NoByte(ready) ==
  /\ beat' = IF ready THEN <<>> ELSE beat
  /\ UNCHANGED <<buffer, frameCount>>

-----------------------------------------------------------------------------
Taken(in, ready) == in.valid /\ InputReady(ready)
Sends(ready) == beat # <<>> /\ ready

FramesIn(n) == Cardinality({k \in 1 .. n : pending[k].last})

Observe(in, ready) ==
  LET n == IF Sends(ready) THEN Len(beat[1]) ELSE 0
  IN /\ pending' = SubSeq(pending, n + 1, Len(pending)) \o
                   IF Taken(in, ready) THEN <<[data |-> in.data, last |-> in.last]>> ELSE <<>>
     /\ sent' = IF Sends(ready) THEN beat ELSE <<>>
     /\ framesSent' = IF Sends(ready) /\ beat[2] THEN 0 ELSE framesSent + FramesIn(n)

Edge(in, ready) ==
  /\ \/ Taken(in, ready) /\ PackByte(in)
     \/ ~Taken(in, ready) /\ NoByte(ready)
  /\ Observe(in, ready)

Init ==
  /\ buffer = <<>> /\ frameCount = 0 /\ beat = <<>>
  /\ pending = <<>> /\ framesSent = 0 /\ sent = <<>>

Next == \E in \in Offers, ready \in BOOLEAN : Edge(in, ready)

Spec == Init /\ [][Next]_vars

T == INSTANCE TransferQueue
=============================================================================
