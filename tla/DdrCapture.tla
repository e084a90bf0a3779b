----------------------------- MODULE DdrCapture -----------------------------
(***************************************************************************)
(* The parallel trace port: the host's Configure, Start, Stop and Reset    *)
(* commands set registers in the AXI clock's domain, these cross into the  *)
(* trace clock's domain bit by bit, and orbtrace_ddr_capture.sv puts the   *)
(* samples of both edges of that clock together into bytes.                *)
(*                                                                         *)
(* A sample is its time, counted in half periods and modulo Stamps; a byte *)
(* is the sequence of its samples, least significant lanes first.          *)
(***************************************************************************)
EXTENDS Naturals, Sequences

CONSTANTS
  Formats,  \* values of trace_format the host writes; 0, 1, 2: 1, 2, 4 lanes
  Stamps    \* bound: sample times wrap here

ASSUME CaptureAssumption == Formats \subseteq 0 .. 7 /\ Stamps \in {n \in Nat : n > 8}

VARIABLES
  running, trace_format,       \* the registers, in the AXI clock's domain
  runningBefore, formatBefore, \* what they were before a change that is so recent
                               \* that the next edge may still see it
  running_m, running_s, format_m, format_s, \* the two synchroniser stages
  rise, fall,                  \* rise_sample, fall_sample
  partial, phase, activeWidth, primed,
  byte,                        \* byte_data while byte_valid is set, or <<>>
  now,                         \* the time of the next rising edge
  lastWidth, window, due,      \* the reference, see Reference
  mixed_m, mixed_s, widthMixed \* a stage, or the latest edge's format, is a mixture of
                               \* two (an observation)

registerVars == <<running, trace_format, runningBefore, formatBefore>>
traceVars == <<running_m, running_s, format_m, format_s, rise, fall, partial, phase,
               activeWidth, primed, byte, now, lastWidth, window, due, mixed_m, mixed_s, widthMixed>>
captureVars == <<registerVars, traceVars>>

CaptureInit ==
  /\ running = FALSE /\ trace_format = 0 /\ runningBefore = FALSE /\ formatBefore = 0
  /\ running_m = FALSE /\ running_s = FALSE /\ format_m = 0 /\ format_s = 0
  /\ rise = 0 /\ fall = 0 /\ partial = <<>> /\ phase = 0 /\ activeWidth = 0
  /\ primed = FALSE /\ byte = <<>> /\ now = 0
  /\ lastWidth = 7 /\ window = <<>> /\ due = <<>>
  /\ mixed_m = FALSE /\ mixed_s = FALSE /\ widthMixed = FALSE

(***************************************************************************)
(* Commands of the control service, as register writes                     *)
(***************************************************************************)
SetRunning(on) ==
  /\ running' = on /\ runningBefore' = running
  /\ UNCHANGED <<trace_format, formatBefore, traceVars>>

Start == SetRunning(TRUE)
Stop == SetRunning(FALSE)    \* Reset clears it just so

\* A command is a round trip over the network: the trace clock, if it runs, has
\* sampled the change before it unmixed by then.
Settled == format_m = trace_format

Configure(f) ==
  /\ Settled
  /\ trace_format' = f /\ formatBefore' = trace_format
  /\ UNCHANGED <<running, runningBefore, traceVars>>

(***************************************************************************)
(* The trace clock                                                         *)
(***************************************************************************)
Bit(f, i) == (f \div 2 ^ i) % 2

\* What a register of three bits reads as while it goes from a to b.
Between(a, b) == {f \in 0 .. 7 : \A i \in 0 .. 2 : Bit(f, i) \in {Bit(a, i), Bit(b, i)}}

Synchronise ==
  /\ running_m' \in {running, runningBefore} /\ running_s' = running_m
  /\ format_m' \in Between(formatBefore, trace_format) /\ format_s' = format_m
  /\ mixed_m' = (format_m' \notin {formatBefore, trace_format}) /\ mixed_s' = mixed_m
  /\ widthMixed' = mixed_s
  /\ runningBefore' = running /\ formatBefore' = trace_format
  /\ UNCHANGED <<running, trace_format>>

Enable == running_s /\ format_s <= 2
LastPhase(width) == CASE width = 2 -> 0 [] width = 1 -> 1 [] OTHER -> 3

Disabled ==
  /\ ~Enable
  /\ primed' = FALSE /\ phase' = 0 /\ byte' = <<>>
  /\ UNCHANGED <<partial, activeWidth>>

\* Mutant: the samples held from before count.
PrimeAtOnce ==
  /\ Enable /\ (~primed \/ activeWidth # format_s)
  /\ primed' = TRUE /\ activeWidth' = format_s
  /\ IF LastPhase(format_s) = 0
       THEN byte' = <<rise, fall>> /\ UNCHANGED <<phase, partial>>
       ELSE phase' = 1 /\ partial' = <<rise, fall>> /\ byte' = <<>>

\* The first edge at a width takes no sample, and drops a part of a byte.
Prime ==
  /\ Enable /\ (~primed \/ activeWidth # format_s)
  /\ primed' = TRUE /\ activeWidth' = format_s /\ phase' = 0 /\ partial' = <<>>
  /\ byte' = <<>>

Shift ==
  /\ Enable /\ primed /\ activeWidth = format_s
  /\ LET samples == SubSeq(partial, 1, 2 * phase) \o <<rise, fall>>
     IN IF phase = LastPhase(activeWidth)
          THEN byte' = samples /\ phase' = 0 /\ UNCHANGED partial
          ELSE partial' = samples /\ phase' = phase + 1 /\ byte' = <<>>
  /\ UNCHANGED <<activeWidth, primed>>

\* The rising edge, and the falling edge after it.
Sample ==
  /\ rise' = now
  /\ fall' = IF running_s' /\ format_s' <= 2 THEN (now + 1) % Stamps ELSE fall
  /\ now' = (now + 2) % Stamps

(***************************************************************************)
(* Reference: while the port is enabled at one width, the samples from the *)
(* first such edge on, in groups of eight bits (decode_parallel_ddr of         *)
(* model/src/lib.rs, chunks_exact).                                        *)
(***************************************************************************)
Reference ==
  LET width == IF Enable THEN format_s ELSE 7
      all == window \o <<(now + Stamps - 2) % Stamps, (now + Stamps - 1) % Stamps>>
  IN /\ lastWidth' = width
     /\ IF width = 7 \/ width # lastWidth THEN window' = <<>> /\ due' = <<>>
        ELSE IF Len(all) * 2 ^ width = 8 THEN window' = <<>> /\ due' = all
        ELSE window' = all /\ due' = <<>>

TraceEdge == Synchronise /\ (Disabled \/ Prime \/ Shift) /\ Sample /\ Reference

CaptureNext == Start \/ Stop \/ (\E f \in Formats : Configure(f)) \/ TraceEdge

-----------------------------------------------------------------------------
\* "Samples are packed in wire order"; "width changes discard a partial byte"
\* (orbtrace_ddr_capture.sv:3-5): over every start, stop and change of the
\* width, and whatever mixture of an old and a new format is seen on the way,
\* the bytes are those of the reference, none is missing, and none is taken at
\* a width that is such a mixture.
BytesOfTheWire == byte = due /\ (byte # <<>> => ~widthMixed)
=============================================================================
