------------------------------ MODULE TpiuDemux ------------------------------
(***************************************************************************)
(* orbtrace_tpiu_demux.sv: finds the sync packet in the byte stream of a   *)
(* trace port, collects the frames that follow and emits their bytes with  *)
(* the channel the frame's ID bytes select.                                *)
(*                                                                         *)
(* A byte has ByteBits bits and a frame FrameBytes bytes (8 and 16 in the  *)
(* RTL); one step is one clock edge.  source_select is a register that a   *)
(* Configure writes at any time, so the source may change at any edge.     *)
(* `expected' and `settled' are observations: what model/src/lib.rs makes  *)
(* of the frame in hand, less what has been output; and how far the M3's   *)
(* stream has replaced what another source left in channel and delayed:    *)
(* 1 after a data byte, 2 after an ID byte next, 3 after a data byte then. *)
(***************************************************************************)
EXTENDS Integers, Sequences

CONSTANTS
  ByteBits,   \* width of a byte
  FrameBytes, \* bytes of a frame, the auxiliary one included
  Data,       \* bytes that occur on the wire
  Expected,   \* M3_EXPECTED_CHANNEL
  LossEnd     \* sync_loss_count wraps at this value

ASSUME DemuxAssumption ==
  /\ ByteBits \in Nat \ {0, 1} /\ FrameBytes \in {2 * n : n \in 1 .. ByteBits}
  /\ Data \subseteq 0 .. 2 ^ ByteBits - 1
  /\ Expected \in 1 .. 2 ^ (ByteBits - 1) - 1 /\ LossEnd \in Nat \ {0}

VARIABLES
  m3,       \* m3_source: the M3's stream is selected
  synced,
  ones,     \* how many bytes of all ones end sync_window, at most three
  frame,    \* the bytes of the frame in hand; its length is fill
  emit, emitting,
  channel,
  delayed,  \* delayed_channel, or NoChannel when delayed_valid is low
  losses,   \* sync_loss_count
  expected, settled

demuxVars == <<m3, synced, ones, frame, emit, emitting, channel, delayed, losses, expected,
               settled>>

AllOnes == 2 ^ ByteBits - 1
SyncEnd == 2 ^ (ByteBits - 1) - 1   \* 7f: all ones but the topmost
Channel == 0 .. 2 ^ (ByteBits - 1) - 1
NoChannel == -1
None == [valid |-> FALSE, data |-> 0]
Offers == {None} \cup [valid : {TRUE}, data : Data]

-----------------------------------------------------------------------------
\* Byte number k of the frame f: an even one is an ID byte if its lowest bit
\* is set, and gets that bit from the auxiliary byte.
IsId(f, k) == k % 2 = 0 /\ f[k + 1] % 2 = 1
AuxBit(f, k) == (f[FrameBytes] \div 2 ^ (k \div 2)) % 2
Unmangled(f, k) == IF k % 2 = 0 THEN 2 * (f[k + 1] \div 2) + AuxBit(f, k) ELSE f[k + 1]

\* What the host library makes of byte number k of the frame f.
DecodeByte(s, f, k) ==
  LET byte == Unmangled(f, k) IN
  IF IsId(f, k)
    THEN IF AuxBit(f, k) = 1 THEN [s EXCEPT !.delayed = byte \div 2]
                             ELSE [s EXCEPT !.channel = byte \div 2]
    ELSE [out |-> IF s.channel # 0 THEN Append(s.out, <<s.channel, byte>>) ELSE s.out,
          channel |-> IF s.delayed # NoChannel THEN s.delayed ELSE s.channel,
          delayed |-> NoChannel]

\* Where it is after each of the bytes but the auxiliary one, from channel c with
\* the delayed channel d.
TpiuDecoder(f, c, d) ==
  LET after[k \in 0 .. FrameBytes - 1] ==
        IF k = 0 THEN [out |-> <<>>, channel |-> c, delayed |-> d]
                 ELSE DecodeByte(after[k - 1], f, k - 1)
  IN after

-----------------------------------------------------------------------------
InputReady == ~emitting
OutputValid == emitting /\ ~IsId(frame, emit) /\ channel # 0
Output == <<channel, Unmangled(frame, emit)>>

\* A fault to check the properties with: delayed channel changes are not looked at.
FalseLockAtOnceOnly ==
  m3 /\ IsId(frame, emit) /\ AuxBit(frame, emit) = 0 /\ Unmangled(frame, emit) \div 2 # Expected

FalseLock == m3 /\ IsId(frame, emit) /\ Unmangled(frame, emit) \div 2 # Expected

\* Nothing is emitting: the next byte of the stream comes in.
Search(byte) ==
  /\ synced' = (byte = SyncEnd /\ ones = 3)
  /\ frame' = IF synced' THEN <<>> ELSE frame
  /\ UNCHANGED <<emit, emitting>>

Collect(byte, reset) ==
  /\ synced' = ~reset
  /\ frame' = Append(frame, byte)
  /\ IF Len(frame) = FrameBytes - 1 THEN emitting' = TRUE /\ emit' = 0
                                    ELSE UNCHANGED <<emitting, emit>>

TakeByte(byte, reset) ==
  /\ ones' = IF byte = AllOnes THEN IF ones = 3 THEN 3 ELSE ones + 1 ELSE 0
  /\ IF synced THEN Collect(byte, reset) ELSE Search(byte)
  /\ expected' = IF emitting' THEN TpiuDecoder(frame', channel, delayed)[FrameBytes - 1].out ELSE <<>>
  /\ losses' = (losses + IF reset /\ synced THEN 1 ELSE 0) % LossEnd
  /\ UNCHANGED <<channel, delayed>>

\* One byte of the frame in hand is done with.
SelectChannel ==
  LET id == Unmangled(frame, emit) \div 2 IN
  /\ IsId(frame, emit)
  /\ IF AuxBit(frame, emit) = 1 THEN delayed' = id /\ UNCHANGED channel
                                ELSE channel' = id /\ UNCHANGED delayed

\* A fault to check the properties with: a delayed channel change that is made again and again.
PassDataFirst ==
  /\ ~IsId(frame, emit)
  /\ channel' = IF delayed # NoChannel THEN delayed ELSE channel
  /\ UNCHANGED delayed

PassData ==
  /\ ~IsId(frame, emit)
  /\ channel' = IF delayed # NoChannel THEN delayed ELSE channel
  /\ delayed' = NoChannel

ByteDone(ready) == emitting /\ (IsId(frame, emit) \/ channel = 0 \/ ready) /\ ~FalseLock

EmitByte(ready, reset) ==
  /\ ByteDone(ready)
  /\ SelectChannel \/ PassData
  /\ synced' = (synced /\ ~reset)
  /\ emitting' = (emit # FrameBytes - 2 /\ ~reset)
  /\ emit' = IF emit = FrameBytes - 2 THEN emit ELSE emit + 1
  /\ frame' = IF emitting' THEN frame ELSE <<>>
  /\ expected' = IF reset THEN <<>> ELSE IF OutputValid THEN Tail(expected) ELSE expected
  /\ losses' = (losses + IF reset /\ synced THEN 1 ELSE 0) % LossEnd
  /\ UNCHANGED ones

\* The M3 has one channel, so another one tells that the lock was a false one.
DropLock ==
  /\ FalseLock
  /\ synced' = FALSE /\ emitting' = FALSE /\ frame' = <<>> /\ expected' = <<>>
  /\ losses' = (losses + 1) % LossEnd
  /\ UNCHANGED <<ones, emit, channel, delayed>>

\* No byte moves at this edge.
Idle(reset) ==
  /\ synced' = (synced /\ ~reset)
  /\ IF reset THEN emitting' = FALSE /\ frame' = <<>> /\ expected' = <<>>
              ELSE UNCHANGED <<emitting, frame, expected>>
  /\ losses' = (losses + IF reset /\ synced THEN 1 ELSE 0) % LossEnd
  /\ UNCHANGED <<ones, emit, channel, delayed>>

\* Neither a change of the source nor reset_sync clears channel or delayed.
Settle(ready) ==
  settled' = IF ~(m3 /\ m3') THEN 0
             ELSE IF ByteDone(ready) /\ (IF IsId(frame, emit) THEN settled = 1 ELSE settled \in {0, 2})
               THEN settled + 1 ELSE settled

Edge(in, ready, reset) ==
  /\ \/ InputReady /\ in.valid /\ TakeByte(in.data, reset)
     \/ InputReady /\ ~in.valid /\ Idle(reset)
     \/ EmitByte(ready, reset)
     \/ emitting /\ DropLock
     \/ emitting /\ OutputValid /\ ~ready /\ Idle(reset)
  /\ m3' \in BOOLEAN /\ Settle(ready)

DemuxInit ==
  /\ m3 \in BOOLEAN
  /\ synced = FALSE /\ ones = 0 /\ frame = <<>> /\ emit = 0 /\ emitting = FALSE
  /\ channel = 0 /\ delayed = NoChannel /\ losses = 0 /\ expected = <<>>
  /\ settled = IF m3 THEN 3 ELSE 0

DemuxNext == \E in \in Offers, ready, reset \in BOOLEAN : Edge(in, ready, reset)


-----------------------------------------------------------------------------
\* Byte by byte, with stalls at any of them, the RTL's output is what the
\* byte-exact software reference (model/src/lib.rs:1) decodes from the whole
\* frame with the channel state it starts from; a frame is output to its end.
EmitsReference ==
  /\ OutputValid => expected # <<>> /\ Head(expected) = Output
  /\ ~emitting => expected = <<>>

\* With the M3 as the source from reset on, nothing leaves on any channel but
\* the M3's, whatever garbage the search locked onto, delayed changes included.
\* After a switch to the M3 at run time the channel of the source before and
\* its delayed change survive: bytes do leave on those until the stream has
\* had a data byte, an ID byte and a data byte; from then on none does.
M3ChannelOnly == settled = 3 /\ OutputValid => channel = Expected
=============================================================================
