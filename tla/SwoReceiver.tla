---------------------------- MODULE SwoReceiver ----------------------------
(***************************************************************************)
(* The serial trace pin: the tick generator orbtrace_baud_tick.sv and the  *)
(* receivers orbtrace_swo_nrz.sv and orbtrace_swo_manchester.sv, one of    *)
(* them selected by trace_format, against a target that sends bytes with a *)
(* start and a stop bit at exactly Baud.  One step is one clock edge.      *)
(***************************************************************************)
EXTENDS Naturals, Sequences

CONSTANTS
  ClockHz, Baud, \* CLOCK_HZ and swo_baud; a bit lasts ClockHz \div Baud edges
  DataBits,      \* bits of a byte (8 in the code)
  CounterEnd,    \* where malformed_count wraps (2 ^ 64 in the code)
  Patience       \* bound: edges until the core takes an offered byte

\* A bit, and half a bit of Manchester coding, is a whole number of edges: other
\* ratios, which swo_baud may well ask for, are not covered.
\* At ten edges to a bit the free-running tick may come so late that a byte in
\* Manchester coding is put out after the next one has begun; the registers come
\* up with 2 MBaud, which is 50 edges of CLOCK_HZ.
ASSUME SwoAssumption ==
  /\ Baud \in Nat \ {0} /\ ClockHz \in {n \in Nat : n % (2 * Baud) = 0 /\ n > 10 * Baud}
  /\ DataBits \in Nat \ {0} /\ CounterEnd \in Nat \ {0, 1}
\* The core keeps up: it takes a byte before the next one may begin.  A receiver
\* with a byte on offer looks for no start bit.
ASSUME PatienceAssumption == Patience \in Nat /\ 2 * (Patience + 4) <= ClockHz \div Baud

VARIABLES
  coding,                \* what the target sends: "nrz" or "manchester"
  swo, left, rest,       \* the level on the pin, the edges it lasts, what follows it
  accumulator, tick,     \* the tick generator
  swo_meta, swo_sync,
  active, first_half, quarter, bit_index, shift, \* the selected receiver
  output_valid, output_data, malformed_count,
  \* Observations: the edges the byte on offer has waited; the bytes begun on the
  \* line and not put out; whether one was put out wrong; whether one was put out
  \* before this edge.
  waited, begun, wrong, earlier

swoVars == <<coding, swo, left, rest, accumulator, tick, swo_meta, swo_sync, active,
             first_half, quarter, bit_index, shift, output_valid, output_data,
             malformed_count, waited, begun, wrong, earlier>>

Values == [1 .. DataBits -> {0, 1}]

SwoInit ==
  /\ coding \in {"nrz", "manchester"}
  /\ swo = 1 /\ left = 0 /\ rest = <<>> /\ begun = <<>>
  /\ accumulator = 0 /\ tick = FALSE /\ swo_meta = 1 /\ swo_sync = 1
  /\ active = FALSE /\ first_half = 0 /\ quarter = 0 /\ bit_index = 0
  /\ shift = [i \in 1 .. DataBits |-> 0]
  /\ output_valid = FALSE /\ output_data = shift /\ malformed_count = 0
  /\ waited = 0 /\ wrong = FALSE /\ earlier = FALSE

(***************************************************************************)
(* The target sends what decode_swo_nrz and decode_swo_manchester of       *)
(* model/src/lib.rs decode: start bit 0, data bits, stop bit 1; in         *)
(* Manchester coding a zero is low/high and a one is high/low.  The line   *)
(* idles high.                                                             *)
(***************************************************************************)
Frame(value) == <<0>> \o value \o <<1>>
Levels(value) ==
  IF coding = "nrz" THEN Frame(value)
  ELSE [k \in 1 .. 2 * (DataBits + 2) |->
          LET bit == Frame(value)[(k + 1) \div 2] IN IF k % 2 = 1 THEN bit ELSE 1 - bit]
Lasts == (ClockHz \div Baud) \div (IF coding = "nrz" THEN 1 ELSE 2)

\* The line goes on, or a byte begins once the one before it is through.
SendOn ==
  \/ left > 1 /\ left' = left - 1 /\ UNCHANGED <<swo, rest>>
  \/ left <= 1 /\ rest # <<>> /\ swo' = Head(rest) /\ rest' = Tail(rest) /\ left' = Lasts
  \/ left <= 1 /\ rest = <<>> /\ swo' = 1 /\ left' = 0 /\ UNCHANGED rest

\* Bound: nothing more is sent once two bytes are missing.
SendByte(value) ==
  /\ left <= 1 /\ rest = <<>> /\ Len(begun) < 2
  /\ swo' = Head(Levels(value)) /\ rest' = Tail(Levels(value)) /\ left' = Lasts

(***************************************************************************)
(* The tick, four to a bit                                                 *)
(***************************************************************************)
NextAccumulator == accumulator + 4 * Baud

\* Mutant: the accumulator is not taken back by a tick.
BaudTickUnwrapped ==
  /\ tick' = (NextAccumulator >= ClockHz)
  /\ accumulator' = NextAccumulator

BaudTick ==
  /\ tick' = (NextAccumulator >= ClockHz)
  /\ accumulator' = IF tick' THEN NextAccumulator - ClockHz ELSE NextAccumulator

(***************************************************************************)
(* The receivers                                                           *)
(***************************************************************************)
\* The quarter at which an NRZ bit is read.
NrzQuarter == 1

\* What a bit, as it is read, does: begin, store, put out or give up.
Outcome(bit) ==
  CASE bit_index = 0 -> IF bit = 0 THEN "begun" ELSE "malformed"
    [] bit_index \in 1 .. DataBits -> "stored"
    [] OTHER -> IF bit = 1 THEN "out" ELSE "malformed"

NrzOutcome == IF quarter = NrzQuarter THEN Outcome(swo_sync) ELSE "none"
ManchesterOutcome ==
  IF quarter # 2 THEN "none"
  ELSE IF first_half = swo_sync THEN "malformed" ELSE Outcome(first_half)

StartBit ==
  /\ ~active /\ ~output_valid /\ swo_sync = 0
  /\ active' = TRUE /\ quarter' = 0 /\ bit_index' = 0
  /\ UNCHANGED <<first_half, shift, output_valid, output_data, malformed_count>>

Quiet(ready) ==
  /\ IF active THEN ~tick ELSE output_valid \/ swo_sync = 1
  /\ output_valid' = (output_valid /\ ~ready)
  /\ UNCHANGED <<active, first_half, quarter, bit_index, shift, output_data, malformed_count>>

SampleTick(ready) ==
  LET outcome == IF coding = "nrz" THEN NrzOutcome ELSE ManchesterOutcome
      bit == IF coding = "nrz" THEN swo_sync ELSE first_half
  IN /\ active /\ tick
     /\ first_half' = IF coding = "manchester" /\ quarter = 0 THEN swo_sync ELSE first_half
     /\ active' = (outcome \notin {"out", "malformed"})
     /\ shift' = IF outcome = "stored" THEN [shift EXCEPT ![bit_index] = bit] ELSE shift
     /\ output_valid' = (outcome = "out" \/ (output_valid /\ ~ready))
     /\ output_data' = IF outcome = "out" THEN shift ELSE output_data
     /\ malformed_count' = IF outcome = "malformed" THEN (malformed_count + 1) % CounterEnd
                                                    ELSE malformed_count
     /\ quarter' = (quarter + 1) % 4
     /\ bit_index' = IF quarter = 3 THEN bit_index + 1 ELSE bit_index

Receive(ready) == StartBit \/ Quiet(ready) \/ SampleTick(ready)

\* new is the byte that begins at this edge, if one does.
Observe(ready, new) ==
  LET out == output_valid' /\ ~output_valid
  IN /\ waited' = IF output_valid /\ ~ready THEN waited + 1 ELSE 0
     /\ begun' = (IF out /\ begun # <<>> THEN Tail(begun) ELSE begun) \o new
     /\ wrong' = (wrong \/ (out /\ (begun = <<>> \/ output_data' # Head(begun))))
     /\ earlier' = (earlier \/ output_valid)

ClockEdge(ready) ==
  /\ waited = Patience => ready
  /\ swo_meta' = swo /\ swo_sync' = swo_meta
  /\ BaudTick /\ Receive(ready)
  /\ UNCHANGED coding

SwoNext ==
  \E ready \in BOOLEAN :
    /\ ClockEdge(ready)
    /\ \/ SendOn /\ Observe(ready, <<>>)
       \/ \E value \in Values : SendByte(value) /\ Observe(ready, <<value>>)

SwoSpec == SwoInit /\ [][SwoNext]_swoVars

-----------------------------------------------------------------------------
\* Every byte is out before the next one begins, as it was sent, and nothing
\* else is, nor is anything counted as malformed.
Decoded == malformed_count = 0 /\ ~wrong /\ Len(begun) <= 1

\* What the receivers get right: any sequence of bytes in NRZ, however close
\* together, for every phase of the free-running tick; and in Manchester coding
\* the first byte.  Decoded is false after that one: its stop bit, "high/low" as
\* any other one, ends low, and the receiver takes the low half for a start bit.
SwoDecodes == coding = "nrz" \/ ~earlier => Decoded
=============================================================================
