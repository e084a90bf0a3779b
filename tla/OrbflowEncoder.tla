--------------------------- MODULE OrbflowEncoder ---------------------------
(***************************************************************************)
(* orbtrace_orbflow_encoder.sv: packets of one channel in, COBS frames     *)
(* out.  Two banks take turns: one is loaded with a packet (channel byte,  *)
(* payload, checksum) and the lengths of its COBS groups while the other   *)
(* is emitted.                                                             *)
(*                                                                         *)
(* Every step is one clock edge: Load with the byte offered at it, if any, *)
(* and Emit with output_ready.  Bytes have ByteBits bits, 8 in the code;   *)
(* the longest COBS group follows from them (254 in the code).             *)
(***************************************************************************)
EXTENDS Naturals, Sequences, SequencesExt

CONSTANTS
  ByteBits,   \* bits of a byte
  MaxPayload, \* MAX_PAYLOAD
  CounterEnd  \* where dropped_bytes wraps (2 ^ 64 in the code)

ASSUME EncoderAssumption == ByteBits \in Nat \ {0, 1} /\ MaxPayload \in Nat \ {0}
                              /\ CounterEnd \in Nat \ {0}

Bytes == 2 ^ ByteBits
Byte == 0 .. Bytes - 1
Channel == 0 .. Bytes \div 2 - 1
GroupMax == Bytes - 2          \* 8'hfe
Bank == {0, 1}

VARIABLES
  packet,     \* packet0, packet1: the raw bytes of each bank
  groups,     \* groups0, groups1: the group lengths of each bank
  full,       \* bank_full
  loadBank, encodeBank, nextEncodeBank,
  load,       \* load_state
  payloadCount, rawLength, groupIndex, groupLength, \* load_...
  checksum,
  pending,    \* pending_data and pending_last
  dropping,
  emit,       \* emit_state
  rawIndex, emitGroup, remaining, \* emit_raw_index, emit_group_index, ..._remaining
  overrun,
  dropped     \* dropped_bytes

loadVars == <<loadBank, load, payloadCount, rawLength, groupIndex, groupLength, checksum,
              pending, dropping, overrun, dropped>>
emitVars == <<encodeBank, nextEncodeBank, emit, rawIndex, emitGroup, remaining>>
bankVars == <<packet, groups, full>>
encoderVars == <<loadVars, emitVars, bankVars>>

EncoderInit ==
  /\ packet = [b \in Bank |-> <<>>] /\ groups = [b \in Bank |-> <<>>]
  /\ full = [b \in Bank |-> FALSE]
  /\ loadBank = 0 /\ encodeBank = 0 /\ nextEncodeBank = 0
  /\ load = "L_ACCEPT" /\ emit = "E_IDLE"
  /\ payloadCount = 0 /\ rawLength = 0 /\ groupIndex = 0 /\ groupLength = 0
  /\ checksum = 0 /\ pending = [data |-> 0, last |-> FALSE] /\ dropping = FALSE
  /\ rawIndex = 0 /\ emitGroup = 0 /\ remaining = 0 /\ overrun = FALSE /\ dropped = 0

(***************************************************************************)
(* Loading                                                                 *)
(***************************************************************************)
EncoderReady == load = "L_ACCEPT" /\ ~full[loadBank]

\* A memory written at position i (from 0); what is beyond it is stale.
Written(s, i, v) == Append(SubSeq(s, 1, i), v)

\* A zero ends a COBS group, and so does the last byte that fits into it.
EndsGroup(v) == v = 0 \/ groupLength = GroupMax - 1

\* One raw byte is incorporated.
AppendRaw(v) ==
  /\ packet' = [packet EXCEPT ![loadBank] = Written(@, rawLength, v)]
  /\ rawLength' = rawLength + 1
  /\ IF EndsGroup(v)
       THEN /\ groups' = [groups EXCEPT ![loadBank] =
                            Written(@, groupIndex, IF v = 0 THEN groupLength ELSE GroupMax)]
            /\ groupIndex' = groupIndex + 1 /\ groupLength' = 0
       ELSE groupLength' = groupLength + 1 /\ UNCHANGED <<groups, groupIndex>>

ClearLoad ==
  /\ payloadCount' = 0 /\ rawLength' = 0 /\ groupIndex' = 0 /\ groupLength' = 0
  /\ checksum' = 0

Minus(a, b) == (a + Bytes - b) % Bytes

\* The first byte of a packet is held while the channel byte goes in.
AcceptFirst(in) ==
  /\ payloadCount = 0
  /\ AppendRaw(in.channel)
  /\ pending' = [data |-> in.data, last |-> in.last]
  /\ checksum' = Minus(Minus(0, in.channel), in.data)
  /\ payloadCount' = 1 /\ load' = "L_FIRST_DATA"
  /\ UNCHANGED <<dropping, overrun, dropped>>

AcceptNext(in) ==
  /\ payloadCount \in 1 .. MaxPayload - 1 /\ ~dropping
  /\ AppendRaw(in.data)
  /\ checksum' = Minus(checksum, in.data)
  /\ payloadCount' = payloadCount + 1
  /\ load' = IF in.last THEN "L_CHECKSUM" ELSE load
  /\ UNCHANGED <<pending, dropping, overrun, dropped>>

Counted(n) == dropped' = (dropped + n) % CounterEnd

\* Mutant: the packet that does not fit is cut off and sent.
AcceptTooMuchCut(in) ==
  /\ payloadCount >= MaxPayload \/ dropping
  /\ overrun' = TRUE
  /\ Counted(1)
  /\ load' = IF in.last THEN "L_CHECKSUM" ELSE load
  /\ UNCHANGED <<dropping, payloadCount, rawLength, groupIndex, groupLength, checksum,
                 pending, packet, groups>>

\* The packet does not fit: it is dropped as a whole, to its end.
AcceptTooMuch(in) ==
  /\ payloadCount >= MaxPayload \/ dropping
  /\ dropping' = ~in.last
  /\ overrun' = TRUE
  /\ Counted(IF dropping THEN 1 ELSE payloadCount + 1)
  /\ IF in.last THEN ClearLoad
                ELSE UNCHANGED <<payloadCount, rawLength, groupIndex, groupLength, checksum>>
  /\ UNCHANGED <<load, pending, packet, groups>>

Accept(in) ==
  /\ load = "L_ACCEPT"
  /\ IF in.valid /\ EncoderReady
       THEN AcceptFirst(in) \/ AcceptNext(in) \/ AcceptTooMuch(in)
       ELSE UNCHANGED <<load, payloadCount, rawLength, groupIndex, groupLength, checksum,
                        pending, dropping, overrun, dropped, packet, groups>>
  /\ UNCHANGED loadBank

FirstData ==
  /\ load = "L_FIRST_DATA"
  /\ AppendRaw(pending.data)
  /\ load' = IF pending.last THEN "L_CHECKSUM" ELSE "L_ACCEPT"
  /\ UNCHANGED <<loadBank, payloadCount, checksum, pending, dropping, overrun, dropped>>

Checksum ==
  /\ load = "L_CHECKSUM"
  /\ AppendRaw(checksum)
  /\ load' = "L_FINALIZE"
  /\ UNCHANGED <<loadBank, payloadCount, checksum, pending, dropping, overrun, dropped>>

Finalize ==
  /\ load = "L_FINALIZE"
  /\ groups' = [groups EXCEPT ![loadBank] = Written(@, groupIndex, groupLength)]
  /\ loadBank' = 1 - loadBank
  /\ ClearLoad
  /\ load' = "L_ACCEPT"
  /\ UNCHANGED <<pending, dropping, overrun, dropped, packet>>

Load(in) == Accept(in) \/ FirstData \/ Checksum \/ Finalize

(***************************************************************************)
(* Emitting                                                                *)
(***************************************************************************)
At(s, i) == IF i < Len(s) THEN s[i + 1] ELSE 0

GroupLength == At(groups[encodeBank], emitGroup)
LastGroup == emitGroup + 1 = Len(groups[encodeBank])

OutputValid == emit # "E_IDLE"
OutputLast == emit = "E_DELIMITER"
OutputData ==
  CASE emit = "E_CODE" -> GroupLength + 1
    [] emit = "E_DATA" -> At(packet[encodeBank], rawIndex)
    [] OTHER -> 0

StartFrame ==
  /\ emit = "E_IDLE"
  /\ IF full[nextEncodeBank]
       THEN encodeBank' = nextEncodeBank /\ rawIndex' = 0 /\ emitGroup' = 0 /\ emit' = "E_CODE"
       ELSE UNCHANGED <<encodeBank, rawIndex, emitGroup, emit>>
  /\ UNCHANGED <<nextEncodeBank, remaining>>

EmitCode ==
  /\ emit = "E_CODE"
  /\ IF GroupLength > 0
       THEN remaining' = GroupLength /\ emit' = "E_DATA" /\ UNCHANGED <<rawIndex, emitGroup>>
       ELSE /\ UNCHANGED remaining
            /\ IF LastGroup
                 THEN emit' = "E_DELIMITER" /\ UNCHANGED <<rawIndex, emitGroup>>
                 ELSE rawIndex' = rawIndex + 1 /\ emitGroup' = emitGroup + 1 /\ UNCHANGED emit
  /\ UNCHANGED <<encodeBank, nextEncodeBank>>

\* Mutant: a zero is taken to follow every group.
EmitDataSkipping ==
  /\ emit = "E_DATA"
  /\ IF remaining > 1
       THEN rawIndex' = rawIndex + 1 /\ remaining' = remaining - 1 /\ UNCHANGED <<emit, emitGroup>>
       ELSE /\ UNCHANGED remaining
            /\ IF LastGroup
                 THEN emit' = "E_DELIMITER" /\ UNCHANGED <<rawIndex, emitGroup>>
                 ELSE /\ rawIndex' = rawIndex + 2
                      /\ emitGroup' = emitGroup + 1 /\ emit' = "E_CODE"
  /\ UNCHANGED <<encodeBank, nextEncodeBank>>

\* After the last byte of a group that is not a longest one comes a zero, which
\* is skipped.
EmitData ==
  /\ emit = "E_DATA"
  /\ IF remaining > 1
       THEN rawIndex' = rawIndex + 1 /\ remaining' = remaining - 1 /\ UNCHANGED <<emit, emitGroup>>
       ELSE /\ UNCHANGED remaining
            /\ IF LastGroup
                 THEN emit' = "E_DELIMITER" /\ UNCHANGED <<rawIndex, emitGroup>>
                 ELSE /\ rawIndex' = rawIndex + (IF GroupLength = GroupMax THEN 1 ELSE 2)
                      /\ emitGroup' = emitGroup + 1 /\ emit' = "E_CODE"
  /\ UNCHANGED <<encodeBank, nextEncodeBank>>

EmitDelimiter ==
  /\ emit = "E_DELIMITER"
  /\ nextEncodeBank' = 1 - encodeBank /\ emit' = "E_IDLE"
  /\ UNCHANGED <<encodeBank, rawIndex, emitGroup, remaining>>

Emit(ready) ==
  \/ StartFrame
  \/ ready /\ (EmitCode \/ EmitData \/ EmitDelimiter)
  \/ ~ready /\ OutputValid /\ UNCHANGED emitVars

\* The two sides set and clear a bank's flag.
BankFlags(ready) ==
  full' = [b \in Bank |->
            \/ load = "L_FINALIZE" /\ b = loadBank
            \/ full[b] /\ ~(OutputLast /\ ready /\ b = encodeBank)]

EncoderEdge(in, ready) == Load(in) /\ Emit(ready) /\ BankFlags(ready)

-----------------------------------------------------------------------------
(***************************************************************************)
(* Reference: orbflow_frame and orbflow_unframe of model/src/lib.rs        *)
(***************************************************************************)
\* Wrapping sum of bytes.
SumOf(s) ==
  LET sum[k \in 0 .. Len(s)] == IF k = 0 THEN 0 ELSE (sum[k - 1] + s[k]) % Bytes
  IN sum[Len(s)]

WithChecksum(s) == Append(s, Minus(0, SumOf(s)))

\* cobs_encode, one byte: out is what is written so far, open the bytes of the
\* group whose code is not known yet.
EncodeByte(acc, b) ==
  IF b = 0 THEN [out |-> acc.out \o <<Len(acc.open) + 1>> \o acc.open, open |-> <<>>]
  ELSE IF Len(acc.open) = GroupMax - 1
    THEN [out |-> acc.out \o <<Bytes - 1>> \o Append(acc.open, b), open |-> <<>>]
    ELSE [acc EXCEPT !.open = Append(@, b)]

\* Where cobs_encode is after each of the bytes.
Encoding(s) ==
  LET acc[k \in 0 .. Len(s)] ==
        IF k = 0 THEN [out |-> <<>>, open |-> <<>>] ELSE EncodeByte(acc[k - 1], s[k])
  IN acc

cobs_encode(s) ==
  LET end == Encoding(s)[Len(s)] IN end.out \o <<Len(end.open) + 1>> \o end.open

orbflow_frame(channel, payload) == Append(cobs_encode(WithChecksum(<<channel>> \o payload)), 0)

\* cobs_decode, one byte: left counts the bytes to the end of a group; after a
\* group with a code below the longest, a zero is due if anything follows.
DecodeByte(acc, b) ==
  IF acc.left = 0
    THEN [out |-> IF acc.zero THEN Append(acc.out, 0) ELSE acc.out,
          left |-> b - 1, zero |-> b < Bytes - 1]
    ELSE [acc EXCEPT !.out = Append(@, b), !.left = @ - 1]

cobs_decode(s) ==
  LET acc[k \in 0 .. Len(s)] ==
        IF k = 0 THEN [out |-> <<>>, left |-> 0, zero |-> FALSE]
                 ELSE DecodeByte(acc[k - 1], s[k])
  IN acc[Len(s)].out

\* Channel and payload of a frame; <<>> if it is damaged.
orbflow_unframe(frame) ==
  LET raw == cobs_decode(Front(frame))
  IN IF Len(raw) < 2 \/ SumOf(raw) # 0 THEN <<>>
     ELSE <<raw[1], SubSeq(raw, 2, Len(raw) - 1)>>
=============================================================================
