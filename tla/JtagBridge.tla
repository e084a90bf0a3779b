----------------------------- MODULE JtagBridge -----------------------------
(***************************************************************************)
(* orbtrace remote-bitbang: a client (OpenOCD) writes the levels of the    *)
(* JTAG pins, one byte a change, and the bridge makes one CMSIS-DAP request *)
(* of every clock.  The engine on the board and the target are external,   *)
(* as orbtrace_dap_engine.sv clocks a target: TDO is sampled while TCK is  *)
(* high and changes when TCK falls.                                        *)
(***************************************************************************)
EXTENDS Integers, Sequences

CONSTANT Window   \* bound: bytes of the client that the bridge has not read

ASSUME BridgeAssumption == Window \in Nat

VARIABLES
  stream,   \* bytes the client has sent
  bridge,   \* "reading", "waiting" for the engine, or "ended"
  last_tdo,
  request,  \* the CMSIS-DAP request being executed, or NoRequest
  tck, tms, tdi, tdo, ntrst, nreset, \* the pins
  owed,     \* clocks and reset levels asked for and not on the pins yet (an observation)
  sample    \* what an R was answered, and the level of TDO then (an observation)

bridgeVars ==
  <<stream, bridge, last_tdo, request, tck, tms, tdi, tdo, ntrst, nreset, owed, sample>>

NoRequest == [op |-> "none"]
Level == {0, 1}

\* A byte 0 to 7 is the levels of TCK, TMS and TDI; r to u say which resets the
\* client wants asserted; a byte Q, one that is unknown and the end of the
\* connection end the bridge.  B and b, for a lamp, change nothing and are left out.
Levels(clock, mode, data) == [op |-> "levels", clock |-> clock, mode |-> mode, data |-> data]
Sample == [op |-> "R"]
Resets(srst, trst) == [op |-> "resets", srst |-> srst, trst |-> trst]
Quit == [op |-> "Q"]

\* CMSIS-DAP requests: a JTAG sequence of one clock, and DAP_SWJ_Pins.
Sequence(mode, data) == [op |-> "sequence", mode |-> mode, data |-> data]
Pins(trst, reset) == [op |-> "pins", ntrst |-> trst, nreset |-> reset]

BridgeInit ==
  /\ stream = <<>> /\ bridge = "reading" /\ last_tdo = 0 /\ request = NoRequest
  /\ tck = 0 /\ tms = 0 /\ tdi = 0 /\ tdo = 0 /\ ntrst = 1 /\ nreset = 1
  /\ owed = <<>> /\ sample = <<>>

pinVars == <<tck, tms, tdi, tdo, ntrst, nreset>>

\* One bit of a scan, with or without a look at TDO: the client lowers TCK,
\* samples, and raises it.
ClientClocks(mode, data, look) ==
  /\ Len(stream) + 3 <= Window
  /\ stream' = stream \o <<Levels(0, mode, data)>>
                      \o (IF look THEN <<Sample>> ELSE <<>>) \o <<Levels(1, mode, data)>>
  /\ owed' = Append(owed, Sequence(mode, data))
  /\ UNCHANGED <<bridge, last_tdo, request, pinVars, sample>>

ClientResets(srst, trst) ==
  /\ Len(stream) + 3 <= Window
  /\ stream' = Append(stream, Resets(srst, trst))
  /\ owed' = Append(owed, Pins(1 - trst, 1 - srst))
  /\ UNCHANGED <<bridge, last_tdo, request, pinVars, sample>>

ClientQuits ==
  /\ Quit \notin {stream[i] : i \in DOMAIN stream}
  /\ stream' = Append(stream, Quit)
  /\ UNCHANGED <<bridge, last_tdo, request, pinVars, owed, sample>>

-----------------------------------------------------------------------------
\* Mutant: both edges make a clock.
RequestForBoth(byte) ==
  CASE byte.op = "levels" -> Sequence(byte.mode, byte.data)
    [] byte.op = "resets" -> Pins(1 - byte.trst, 1 - byte.srst)
    [] OTHER -> NoRequest

\* A clock for a byte that has TCK high; the pins for a change of the resets.
Request(byte) ==
  CASE byte.op = "levels" /\ byte.clock = 1 -> Sequence(byte.mode, byte.data)
    [] byte.op = "resets" -> Pins(1 - byte.trst, 1 - byte.srst)
    [] OTHER -> NoRequest

\* The loop of remote_bitbang takes the next byte.
TakeByte ==
  /\ bridge = "reading" /\ stream # <<>>
  /\ stream' = Tail(stream)
  /\ request' = Request(Head(stream))
  /\ bridge' = IF Head(stream) = Quit THEN "ended"
               ELSE IF request' # NoRequest THEN "waiting" ELSE "reading"
  /\ sample' = IF Head(stream) = Sample THEN <<last_tdo, tdo>> ELSE <<>>
  /\ UNCHANGED <<last_tdo, pinVars, owed>>

\* The answer of the engine: for a clock, the level it sampled.
Answer(bit) ==
  /\ bridge = "waiting"
  /\ request' = NoRequest /\ bridge' = "reading"
  /\ last_tdo' = bit

\* No answer within five seconds, or to a clock not the one expected; that to the
\* pins is not looked at.
EngineFails ==
  /\ bridge = "waiting"
  /\ bridge' = "ended" /\ request' = NoRequest
  /\ UNCHANGED <<stream, last_tdo, pinVars, owed, sample>>

-----------------------------------------------------------------------------
\* The engine.
\* What is still owed when the pins have changed once.
Paid(debts) == IF debts = <<>> THEN debts ELSE Tail(debts)

ClockRises ==
  /\ request.op = "sequence" /\ tck = 0
  /\ tms' = request.mode /\ tdi' = request.data /\ tck' = 1
  /\ owed' = Paid(owed)
  /\ UNCHANGED <<stream, bridge, last_tdo, request, tdo, ntrst, nreset, sample>>

ClockFalls ==
  /\ request.op = "sequence" /\ tck = 1
  /\ Answer(tdo)
  /\ tck' = 0 /\ tdo' \in Level
  /\ UNCHANGED <<stream, tms, tdi, ntrst, nreset, owed, sample>>

PinsChange ==
  /\ request.op = "pins"
  /\ Answer(last_tdo)
  /\ ntrst' = request.ntrst /\ nreset' = request.nreset
  /\ owed' = Paid(owed)
  /\ UNCHANGED <<stream, tck, tms, tdi, tdo, sample>>

BridgeNext ==
  \/ \E mode, data \in Level, look \in BOOLEAN : ClientClocks(mode, data, look)
  \/ \E srst, trst \in Level : ClientResets(srst, trst)
  \/ ClientQuits \/ TakeByte \/ EngineFails
  \/ ClockRises \/ ClockFalls \/ PinsChange

BridgeSpec == BridgeInit /\ [][BridgeNext]_bridgeVars

-----------------------------------------------------------------------------
\* The target sees every clock and reset the client asks for exactly once, in
\* order and with the levels asked for (main.rs:171-173, 188-189, 204-225).
InLockstep ==
  [][/\ tck' > tck => owed # <<>> /\ Head(owed) = Sequence(tms', tdi')
     /\ <<ntrst, nreset>>' # <<ntrst, nreset>> =>
          owed # <<>> /\ Head(owed) = Pins(ntrst', nreset')]_bridgeVars

\* "OpenOCD remote-bitbang ... bridge", whose lockstep operation "is useful for
\* debug correctness" (main.rs:171-173): an R is answered with the level of TDO.
\* It is not: the answer is the level sampled at the clock before, which TCK's
\* falling edge has replaced since.
SamplesThePin == sample # <<>> => sample[1] = sample[2]
=============================================================================
