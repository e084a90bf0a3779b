----------------------------- MODULE TraceDecode -----------------------------
(***************************************************************************)
(* orbtrace decode-trace: the trace of the M3's workload, from the events  *)
(* the workload emits to the tracks and the gap counter of the viewer.     *)
(*                                                                         *)
(* Between the two the ITM makes packets of the events, the PL cuts them   *)
(* into frames, and frames are lost or arrive damaged; frames of another   *)
(* channel may come in between.  A frame of the file is what orbflow_unframe *)
(* makes of it, so the payload or a failure.  A value is its bytes, the    *)
(* lowest first.                                                           *)
(***************************************************************************)
EXTENDS Integers, Sequences, SequencesExt, FiniteSetsExt

CONSTANTS
  Cycle,      \* the workload repeats after so many events (16 in the code)
  Spins,      \* values of Idle that occur, of 1 to IdleEnd (1024)
  IdleEnd,
  FrameBytes, \* payload of a frame
  First,      \* sequence number of the event the capture begins with
  LastEvent,  \* bound: events emitted
  SyncAfter,  \* bound: after how many events the ITM may synchronise, once
  MaxLosses,  \* bound: frames lost or damaged
  M3Channel, OtherChannel

ASSUME DecodeAssumption ==
  /\ Cycle \in Nat \ (0 .. 4) /\ First \in Nat \ {0} /\ LastEvent \in Nat /\ IdleEnd < 65536
  /\ Spins \subseteq 1 .. IdleEnd /\ FrameBytes \in Nat \ {0} /\ M3Channel # OtherChannel

VARIABLES
  emitted,  \* the packets of the workload so far
  wire,     \* bytes not in a frame yet, each with the number of its event
  file,     \* the frames captured
  lost,     \* the bytes of lost and damaged frames
  synchronised \* the ITM has sent a synchronisation packet

decodeVars == <<emitted, wire, file, lost, synchronised>>

Word(n) == <<n % 256, n \div 256, 0, 0>>
Number(bytes) == bytes[1] + 256 * bytes[2]

-----------------------------------------------------------------------------
\* Workload::next.  The sequence number counts from 1; what is random is free.
Workload(sequence) ==
  LET n == sequence % Cycle IN
  CASE n = 0 -> {[port |-> 0, value |-> Word(sequence)]}
    [] n = 1 -> {[port |-> 0, value |-> Word(v)] : v \in Spins}
    [] n = 2 -> {[port |-> 0, value |-> <<9>>]}
    [] n = 3 -> {[port |-> 0, value |-> <<sequence % 256, sequence \div 256, 1, 240>>]}
    [] OTHER -> {[port |-> (n % 7) + 1, value |-> SubSeq(<<17, 2, 1, 9>>, 1, <<1, 2, 4>>[(n % 3) + 1])]}

Header(p) == 8 * p.port + (CASE Len(p.value) = 1 -> 1 [] Len(p.value) = 2 -> 2 [] OTHER -> 3)

Tagged(bytes, event) == [i \in DOMAIN bytes |-> [byte |-> bytes[i], event |-> event]]

-----------------------------------------------------------------------------
reconstruct_channel_stream(capture, channel) ==
  FlattenSeq([i \in DOMAIN capture |->
                IF capture[i].ok /\ capture[i].channel = channel THEN capture[i].bytes ELSE <<>>])

\* How many valid frames each channel has, and the first of those with the most.
channel_histogram(capture) ==
  [c \in {capture[i].channel : i \in {j \in DOMAIN capture : capture[j].ok}} |->
     Quantify(DOMAIN capture, LAMBDA i : capture[i].ok /\ capture[i].channel = c)]

Busiest(histogram) ==
  Min({c \in DOMAIN histogram : \A d \in DOMAIN histogram : histogram[d] <= histogram[c]})

Width(header) ==
  CASE header % 8 = 1 -> 1 [] header % 8 = 2 -> 2 [] header % 8 = 3 -> 4 [] OTHER -> 0

\* Mutant: a packet that ends with the stream is taken for a truncated one.
CompleteTooStrict(bytes, pos) == Width(bytes[pos]) > 0 /\ pos + Width(bytes[pos]) < Len(bytes)

\* At pos is the header of a packet that is all there.
Complete(bytes, pos) == Width(bytes[pos]) > 0 /\ pos + Width(bytes[pos]) <= Len(bytes)

\* decode_itm_stream, the packets it recognises: any other header is skipped.
decode_itm_stream(bytes) ==
  LET From[pos \in 1 .. Len(bytes) + 1] ==
        IF pos > Len(bytes) THEN <<>>
        ELSE IF ~Complete(bytes, pos) THEN From[pos + 1]
        ELSE LET next == pos + 1 + Width(bytes[pos]) IN
             <<[port |-> bytes[pos] \div 8, value |-> SubSeq(bytes, pos + 1, next - 1)]>> \o From[next]
  IN From[1]

classify_port0(value) ==
  CASE Len(value) = 1 -> "Malformed"
    [] Len(value) = 4 /\ SubSeq(value, 3, 4) = <<1, 240>> -> "Fault"
    [] Len(value) = 4 /\ SubSeq(value, 3, 4) = <<0, 0>> /\ Number(value) > 0 ->
         IF Number(value) % Cycle = 0 THEN "Timestamp"
         ELSE IF Number(value) <= IdleEnd THEN "Idle" ELSE "Unknown"
    [] OTHER -> "Unknown"

IsTimestamp(p) == p.port = 0 /\ classify_port0(p.value) = "Timestamp"

\* Mutant: after a gap the old timestamp is kept.
LastTimestampKept(previous, value, gap) == IF gap THEN previous ELSE value

LastTimestamp(previous, value, gap) == value

\* build_perfetto_trace: the gaps, each by the index of the event that shows it.
sequence_gaps(packets) ==
  LET Step(s, i) ==
        LET p == packets[i]
            value == Number(p.value)
            gap == s.last # 0 /\ value # s.last + Cycle
        IN IF ~IsTimestamp(p) THEN s
           ELSE [last |-> LastTimestamp(s.last, value, gap),
                 gaps |-> IF gap THEN Append(s.gaps, i) ELSE s.gaps]
  IN FoldLeft(Step, [last |-> 0, gaps |-> <<>>], [i \in DOMAIN packets |-> i]).gaps

\* The user names the channel, or it is the one with the most frames.
decode_trace(capture, channel) ==
  LET bytes == reconstruct_channel_stream(capture, channel)
      packets == decode_itm_stream([i \in DOMAIN bytes |-> bytes[i].byte])
  IN [events |-> packets, gaps |-> sequence_gaps(packets)]

-----------------------------------------------------------------------------
\* The file may begin with a frame of another channel.
DecodeInit ==
  /\ emitted = <<>> /\ wire = <<>> /\ lost = <<>> /\ synchronised = FALSE
  /\ file \in {<<>>, <<[ok |-> TRUE, channel |-> OtherChannel, bytes |-> Tagged(<<1, 9>>, 0)]>>}

Emit ==
  /\ Len(wire) < FrameBytes /\ Len(emitted) < LastEvent
  /\ \E p \in Workload(First + Len(emitted)) :
       /\ emitted' = Append(emitted, p)
       /\ wire' = wire \o Tagged(<<Header(p)>> \o p.value, Len(emitted) + 1)
  /\ UNCHANGED <<file, lost, synchronised>>

\* The ITM's synchronisation packet; event 0 is none.
Synchronise ==
  /\ Len(wire) < FrameBytes /\ ~synchronised /\ Len(emitted) \in SyncAfter
  /\ wire' = wire \o Tagged(<<0, 0, 0, 0, 0, 128>>, 0)
  /\ synchronised' = TRUE
  /\ UNCHANGED <<emitted, file, lost>>

\* A full frame, or what there is when the source pauses.
Leaves == SubSeq(wire, 1, Min({FrameBytes, Len(wire)}))
CanLeave == Len(wire) >= FrameBytes \/ (wire # <<>> /\ Len(emitted) = LastEvent)

capture ==
  /\ CanLeave
  /\ file' = Append(file, [ok |-> TRUE, channel |-> M3Channel, bytes |-> Leaves])
  /\ wire' = SubSeq(wire, FrameBytes + 1, Len(wire))
  /\ UNCHANGED <<emitted, lost, synchronised>>

\* The checksum of a frame does not hold; one that the board drops does the same.
LoseFrame ==
  /\ CanLeave /\ Len(lost) < MaxLosses * FrameBytes
  /\ file' = Append(file, [ok |-> FALSE])
  /\ lost' = lost \o Leaves
  /\ wire' = SubSeq(wire, FrameBytes + 1, Len(wire))
  /\ UNCHANGED <<emitted, synchronised>>

DecodeNext == Emit \/ Synchronise \/ capture \/ LoseFrame

DecodeSpec == DecodeInit /\ [][DecodeNext]_decodeVars

-----------------------------------------------------------------------------
Captured == reconstruct_channel_stream(file, M3Channel)
Events(bytes) == {bytes[i].event : i \in DOMAIN bytes} \ {0}
InLosses == Events(lost)
Recovered == Events(Captured) \ (InLosses \cup Events(wire))

SequenceOf(i) == First + i - 1

\* The events of the capture before anything of one is missing.
Intact == LET recovered == Recovered
          IN Min({i \in 1 .. LastEvent + 1 : i \notin recovered}) - 1

\* Until the first loss the tracks show the events of the workload, in order,
\* with their ports, values and widths, wherever the frames cut the packets and
\* the file ends (lib.rs:641-645), and with them no gap unless an Idle looks
\* like a timestamp, as the comment of classify_port0 admits (lib.rs:698-701).
DecodesWhatWasSent ==
  LET trace == decode_trace(file, M3Channel)
      intact == Intact IN
  /\ Len(trace.events) >= intact
  /\ SubSeq(trace.events, 1, intact) = SubSeq(emitted, 1, intact)
  /\ (\A i \in 1 .. intact : SequenceOf(i) % Cycle = 1 => ~IsTimestamp(emitted[i])) =>
       \A g \in DOMAIN trace.gaps : trace.gaps[g] > intact

\* "Stepped once each time consecutive recovered ... values don't differ" by a
\* cycle (lib.rs:759-762): where whole packets are lost, every run of missing
\* timestamps between two that are there is one gap, and nothing else is.
GapsAreLosses ==
  LET trace == decode_trace(file, Busiest(channel_histogram(file)))
      whole == Events(Captured) \cap (InLosses \cup Events(wire)) = {}
      misread == \E i \in Recovered : SequenceOf(i) % Cycle = 1 /\ IsTimestamp(emitted[i])
      stamps == {i \in Recovered : SequenceOf(i) % Cycle = 0}
      gaps == {i \in stamps : i - Cycle \notin stamps /\ \E j \in stamps : j < i}
  IN Captured # <<>> /\ whole /\ ~misread
       /\ Busiest(channel_histogram(file)) = M3Channel => Len(trace.gaps) = Cardinality(gaps)
=============================================================================
