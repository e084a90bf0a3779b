----------------------------- MODULE DapMailbox -----------------------------
(***************************************************************************)
(* One CMSIS-DAP request at a time, from the A53 through the byte-wide     *)
(* mailbox of orbtrace_axi_regs.sv into orbtrace_dap_engine.sv and back.   *)
(*                                                                         *)
(* The programmable logic does one step per clock edge (Edge), with the    *)
(* register access the firmware completes at that edge, if any.  Every     *)
(* access takes at least one edge; edges without one come in between.      *)
(* dap_exchange runs under the lock of ffi.rs, so there is one at a time.  *)
(***************************************************************************)
EXTENDS Naturals, Sequences

CONSTANTS
  Requests,      \* the requests clients send (sequences of bytes)
  MaxPacket,     \* MAX_PACKET
  MaxTransfers,  \* MAX_TRANSFERS
  HalfPeriod,    \* JTAG_HALF_PERIOD
  PollBudget,    \* DAP_POLL_BUDGET
  MaxReply       \* room for the reply in serve_dap's buffer

Byte == 0 .. 255

ASSUME SizeAssumption ==
  /\ {MaxPacket, MaxTransfers, HalfPeriod} \subseteq Nat \ {0}
  /\ {PollBudget, MaxReply} \subseteq Nat
\* The longest pause of the engine is that of a full transfer or of a clock of
\* the target, the longest replies are those of a full transfer and of DAP_Info.
ASSUME BudgetAssumption ==
  /\ PollBudget >= 2 * MaxTransfers + 4 /\ PollBudget >= 2 * HalfPeriod + 5
  /\ MaxReply >= 4 * MaxTransfers + 3 /\ MaxReply >= 9
ASSUME RequestAssumption == \A r \in Requests : r \in Seq(Byte) /\ Len(r) <= MaxPacket

VARIABLES
  \* dap_exchange
  fw,        \* "idle", "offer", "write", "await", "read"
  current,   \* the request being exchanged
  sent,      \* how many of its bytes are written
  remaining, \* the poll budget that is left
  reply,     \* the bytes of the reply so far
  result,    \* of the latest exchange: "none", "ok", "Timeout", "EmptyRequest", ...
  \* the mailbox registers
  cmd,       \* dap_command_data, _last, _valid
  hold,      \* dap_response_hold, _last, _valid
  real,      \* m3_dap_real
  force,     \* dap_force_...: "no", "wait", "fault", "parity"
  \* the engine
  state,     \* CAPTURE, PREPARE, ...
  request,   \* the bytes captured
  header,    \* header_command, _argument, _count, _data
  response,  \* response_mem up to response_length
  responsePos,
  index,     \* transfer_index
  requestPos, \* transfer_request_pos
  completed, \* completed_transfers
  address, data, \* request_read_address, request_read_data
  wait,      \* jtag_wait
  pins,      \* jtag_tck, jtag_tms, jtag_tdi and the sampled TDO
  clocks,    \* rising edges of TCK in this exchange (an observation)
  promised   \* what this exchange may end with (an observation)

fwVars == <<fw, current, sent, remaining, reply, result, promised>>
configVars == <<real, force>>
transferVars == <<index, requestPos, completed, address>>
engineVars == <<state, request, header, response, responsePos, transferVars, data, wait,
                pins, clocks>>
vars == <<fwVars, configVars, cmd, hold, engineVars>>

NoByte == [byte |-> 0, last |-> FALSE, valid |-> FALSE]

\* Bit i of byte b.
Bit(b, i) == (b \div 2 ^ i) % 2

Command == header[1]
Argument == header[2]
Count == header[3]
Value == header[4]

(***************************************************************************)
(* The engine                                                              *)
(***************************************************************************)
CommandReady == state = "CAPTURE" /\ Len(request) < MaxPacket
ResponseValid == state = "RESPOND"
Taken == cmd.valid /\ CommandReady
Given == ResponseValid /\ ~hold.valid

\* The synchronous read port: what is at the address before the edge.
ReadPort == data' = IF address < Len(request) THEN request[address + 1] ELSE 0

Capture ==
  /\ state = "CAPTURE"
  /\ IF Taken
       THEN /\ request' = Append(request, cmd.byte)
            /\ header' = IF Len(request) < 4
                           THEN [header EXCEPT ![Len(request) + 1] = cmd.byte] ELSE header
            /\ state' = IF cmd.last THEN "PREPARE" ELSE state
       ELSE UNCHANGED <<request, header, state>>
  /\ UNCHANGED <<response, responsePos, transferVars, wait, pins, clocks>>

\* PREPARE of a command that is answered from the header.
Answer(rest) ==
  /\ response' = <<Command>> \o rest
  /\ responsePos' = 0
  /\ state' = "RESPOND"
  /\ UNCHANGED <<request, header, transferVars, wait, clocks>>

InfoName == <<79, 114, 98, 99, 111, 100, 101>>

PrepareInfo ==
  /\ Command = 0
  /\ Answer(IF Len(request) > 1 /\ Argument = 1 THEN <<7>> \o InfoName ELSE <<0>>)
  /\ UNCHANGED pins

PrepareConnect ==
  /\ Command = 2
  /\ Answer(<<IF Len(request) > 1 THEN Argument % 4 ELSE 0>>)
  /\ UNCHANGED pins

TransferRefused == Len(request) < 3 \/ Count > MaxTransfers

PrepareTransfer ==
  /\ Command = 5
  /\ UNCHANGED pins
  /\ IF TransferRefused \/ force \in {"wait", "fault"}
       THEN Answer(<<0, IF ~TransferRefused /\ force = "wait" THEN 2 ELSE 4>>)
       ELSE /\ response' = <<5, 0, IF force = "parity" THEN 9 ELSE 1>>
            /\ responsePos' = 0
            /\ index' = 0 /\ requestPos' = 3 /\ address' = 3 /\ completed' = 0
            /\ state' = "FETCH_TRANSFER"
            /\ UNCHANGED <<request, header, wait, clocks>>

PrepareAbort ==
  /\ Command \in {7, 8}
  /\ Answer(<<0>>)
  /\ UNCHANGED pins

\* DAP_SWJ_Pins: nTRST and nRESET are not modelled as pins; they are driven
\* from the argument and read by nobody here.
PreparePins ==
  /\ Command = 16
  /\ Answer(<<IF Len(request) > 1 THEN Argument ELSE 0>>)
  /\ UNCHANGED pins

Flipped(b) == IF b % 2 = 0 THEN b + 1 ELSE b - 1

\* Mutant: TCK rises together with TMS and TDI.
PrepareSequenceNoSetup ==
  /\ Command = 20
  /\ IF real
       THEN /\ response' = <<Command, 0>>
            /\ responsePos' = 0
            /\ pins' = [pins EXCEPT !.tms = Bit(Count, 7), !.tdi = Bit(Value, 0), !.tck = 1]
            /\ wait' = 0 /\ clocks' = clocks + 1
            /\ state' = "JTAG_HOLD"
            /\ UNCHANGED <<request, header, transferVars>>
       ELSE /\ Answer(<<0, IF Len(request) > 3 THEN Flipped(Value) ELSE 0>>)
            /\ UNCHANGED pins

PrepareSequence ==
  /\ Command = 20
  /\ IF real
       THEN /\ response' = <<Command, 0>>
            /\ responsePos' = 0
            /\ pins' = [pins EXCEPT !.tms = Bit(Count, 7), !.tdi = Bit(Value, 0), !.tck = 0]
            /\ wait' = 0
            /\ state' = "JTAG_SETUP"
            /\ UNCHANGED <<request, header, transferVars, clocks>>
       ELSE /\ Answer(<<0, IF Len(request) > 3 THEN Flipped(Value) ELSE 0>>)
            /\ UNCHANGED pins

PrepareUnknown ==
  /\ Command \notin {0, 2, 5, 7, 8, 16, 20}
  /\ Answer(<<255>>)
  /\ UNCHANGED pins

Prepare ==
  /\ state = "PREPARE"
  /\ \/ PrepareInfo \/ PrepareConnect \/ PrepareTransfer \/ PrepareAbort
     \/ PreparePins \/ PrepareSequence \/ PrepareUnknown

\* TCK low, so that TMS and TDI are stable before it rises.
JtagSetup ==
  /\ state = "JTAG_SETUP"
  /\ IF wait >= HalfPeriod
       THEN /\ pins' = [pins EXCEPT !.tck = 1] /\ clocks' = clocks + 1
            /\ wait' = 0 /\ state' = "JTAG_HOLD"
       ELSE wait' = wait + 1 /\ UNCHANGED <<pins, clocks, state>>
  /\ UNCHANGED <<request, header, response, responsePos, transferVars>>

\* TCK high; TDO is whatever the target drives.
JtagHold ==
  /\ state = "JTAG_HOLD"
  /\ IF wait >= HalfPeriod
       THEN /\ pins' = [pins EXCEPT !.tck = 0]
            /\ response' = Append(response, pins.tdo)
            /\ state' = "RESPOND" /\ wait' = wait + 1
       ELSE /\ \E bit \in {0, 1} :
                 pins' = [pins EXCEPT !.tdo = IF wait = HalfPeriod - 1 THEN bit ELSE @]
            /\ wait' = wait + 1 /\ UNCHANGED <<response, state>>
  /\ UNCHANGED <<request, header, responsePos, transferVars, clocks>>

FetchTransfer ==
  /\ state = "FETCH_TRANSFER"
  /\ state' = "BUILD_TRANSFER"
  /\ UNCHANGED <<request, header, response, responsePos, transferVars, wait, pins, clocks>>

\* Mutant: the next transfer is built without waiting for the read port.
AdvanceAtOnce(length, bytes) ==
  /\ completed' = completed + 1 /\ index' = index + 1
  /\ requestPos' = requestPos + length /\ address' = requestPos + length
  /\ response' = response \o bytes
  /\ UNCHANGED state

\* The transfer at requestPos, and where the next one starts.
Advance(length, bytes) ==
  /\ completed' = completed + 1 /\ index' = index + 1
  /\ requestPos' = requestPos + length /\ address' = requestPos + length
  /\ response' = response \o bytes
  /\ state' = IF index + 1 < Count THEN "FETCH_TRANSFER" ELSE state

\* All transfers are done, or the request ends inside one.
Finish(ack) ==
  /\ response' = [response EXCEPT ![2] = completed, ![3] = ack]
  /\ state' = "RESPOND"

BuildTransfer ==
  /\ state = "BUILD_TRANSFER"
  /\ CASE index >= Count -> Finish(response[3]) /\ UNCHANGED transferVars
       [] index < Count /\ requestPos >= Len(request) -> Finish(4) /\ UNCHANGED transferVars
       [] index < Count /\ requestPos < Len(request) /\ Bit(data, 1) = 1 ->
            Advance(1, <<data, 0, 165, 165>>)
       [] OTHER ->
            IF requestPos + 4 < Len(request)
              THEN Advance(5, <<>>)
              ELSE /\ Finish(4)
                   /\ completed' = completed + 1 /\ index' = index + 1
                   /\ UNCHANGED <<requestPos, address>>
  /\ UNCHANGED <<request, header, responsePos, wait, pins, clocks>>

\* response_last
ResponseLast == responsePos + 1 = Len(response)

Respond ==
  /\ state = "RESPOND"
  /\ IF ~Given
       THEN UNCHANGED <<state, request, responsePos>>
       ELSE IF ResponseLast
         THEN state' = "CAPTURE" /\ request' = <<>> /\ responsePos' = 0
         ELSE responsePos' = responsePos + 1 /\ UNCHANGED <<state, request>>
  /\ UNCHANGED <<header, response, transferVars, wait, pins, clocks>>

Engine ==
  /\ ReadPort
  /\ \/ Capture \/ Prepare \/ JtagSetup \/ JtagHold
     \/ FetchTransfer \/ BuildTransfer \/ Respond

-----------------------------------------------------------------------------
(***************************************************************************)
(* The mailbox, at the same edge                                           *)
(***************************************************************************)
\* Without a write the command register only empties.
CommandOut == cmd' = [cmd EXCEPT !.valid = @ /\ ~Taken]

\* A write is ignored while the register is full.
CommandIn(b, last) ==
  cmd' = IF cmd.valid THEN [cmd EXCEPT !.valid = ~Taken]
                      ELSE [byte |-> b, last |-> last, valid |-> TRUE]

HoldLoaded ==
  IF Given THEN [byte |-> response[responsePos + 1], last |-> ResponseLast, valid |-> TRUE] ELSE hold

HoldIn == hold' = HoldLoaded

\* A read empties the register, even if a byte is loaded at the same edge.
HoldOut == hold' = [HoldLoaded EXCEPT !.valid = FALSE]

\* An edge without a register access of the firmware.
Edge ==
  /\ Engine /\ CommandOut /\ HoldIn
  /\ UNCHANGED <<fwVars, configVars>>

-----------------------------------------------------------------------------
(***************************************************************************)
(* Reference: what a request is answered with, as a whole                  *)
(***************************************************************************)
IsRead(r, p) == p <= Len(r) /\ Bit(r[p], 1) = 1

\* Where the k-th transfer of request r (from 0) would start.
TransferStart(r) ==
  LET start[k \in 0 .. MaxTransfers] ==
        IF k = 0 THEN 4
        ELSE LET p == start[k - 1]
             IN p + (IF IsRead(r, p) THEN 1 ELSE 5)
  IN start

\* What the first k transfers of request r are answered with.
TransferBytes(r) ==
  LET bytes[k \in 0 .. MaxTransfers] ==
        IF k = 0 THEN <<>>
        ELSE LET p == TransferStart(r)[k - 1]
             IN bytes[k - 1] \o (IF IsRead(r, p) THEN <<r[p], 0, 165, 165>> ELSE <<>>)
  IN bytes

TransferReply(r, f) ==
  LET whole == {k \in 0 .. r[3] : TransferStart(r)[k] <= Len(r) + 1}
      done == CHOOSE k \in whole : \A j \in whole : j <= k
      ack == IF done < r[3] THEN 4 ELSE IF f = "parity" THEN 9 ELSE 1
  IN <<5, done, ack>> \o TransferBytes(r)[done]

\* The answers request r may get when the target is t and the forced fault f.
Answers(r, t, f) ==
  CASE r[1] = 0 -> {IF Len(r) > 1 /\ r[2] = 1 THEN <<0, 7>> \o InfoName ELSE <<0, 0>>}
    [] r[1] = 2 -> {<<2, IF Len(r) > 1 THEN r[2] % 4 ELSE 0>>}
    [] r[1] = 5 -> {IF Len(r) < 3 \/ r[3] > MaxTransfers \/ f = "fault" THEN <<5, 0, 4>>
                    ELSE IF f = "wait" THEN <<5, 0, 2>> ELSE TransferReply(r, f)}
    [] r[1] \in {7, 8} -> {<<r[1], 0>>}
    [] r[1] = 16 -> {<<16, IF Len(r) > 1 THEN r[2] ELSE 0>>}
    [] r[1] = 20 -> IF t THEN {<<20, 0, 0>>, <<20, 0, 1>>}
                    ELSE {<<20, 0, IF Len(r) > 3 THEN Flipped(r[4]) ELSE 0>>}
    [] OTHER -> {<<r[1], 255>>}

Promise(r) ==
  [replies |-> Answers(r, real, force), clocks |-> IF r[1] = 20 /\ real THEN 1 ELSE 0]

-----------------------------------------------------------------------------
(***************************************************************************)
(* dap_exchange                                                            *)
(***************************************************************************)
End(r) == fw' = "idle" /\ result' = r

\* The status bit polled is clear: one poll of the budget is used up, or the
\* exchange is given up.
Poll ==
  IF remaining = 0
    THEN End("Timeout") /\ UNCHANGED remaining
    ELSE remaining' = remaining - 1 /\ UNCHANGED <<fw, result>>

Begin ==
  /\ fw = "idle"
  /\ \E r \in Requests :
       /\ current' = r
       /\ IF r = <<>>
            THEN result' = "EmptyRequest" /\ UNCHANGED fw
            ELSE result' = "none" /\ fw' = "offer"
       /\ promised' = IF r = <<>> THEN promised ELSE Promise(r)
  /\ sent' = 0 /\ remaining' = PollBudget /\ reply' = <<>> /\ clocks' = 0
  /\ UNCHANGED <<configVars, cmd, hold, state, request, header, response, responsePos,
                 transferVars, data, wait, pins>>

PollCommand ==
  /\ fw = "offer"
  /\ Engine /\ CommandOut /\ HoldIn
  /\ IF ~cmd.valid THEN fw' = "write" /\ UNCHANGED <<remaining, result>> ELSE Poll
  /\ UNCHANGED <<current, sent, reply, promised, configVars>>

WriteByte ==
  /\ fw = "write"
  /\ Engine /\ CommandIn(current[sent + 1], sent + 1 = Len(current)) /\ HoldIn
  /\ sent' = sent + 1 /\ remaining' = PollBudget
  /\ fw' = IF sent + 1 = Len(current) THEN "await" ELSE "offer"
  /\ UNCHANGED <<current, reply, result, promised, configVars>>

PollReply ==
  /\ fw = "await"
  /\ Engine /\ CommandOut /\ HoldIn
  /\ IF hold.valid THEN fw' = "read" /\ UNCHANGED <<remaining, result>> ELSE Poll
  /\ UNCHANGED <<current, sent, reply, promised, configVars>>

ReadByte ==
  /\ fw = "read"
  /\ Engine /\ CommandOut /\ HoldOut
  /\ IF Len(reply) = MaxReply
       THEN End("ResponseTooLarge") /\ UNCHANGED reply
       ELSE /\ reply' = Append(reply, hold.byte)
            /\ IF hold.last THEN End("ok") ELSE fw' = "await" /\ UNCHANGED result
  /\ remaining' = PollBudget
  /\ UNCHANGED <<current, sent, promised, configVars>>

(***************************************************************************)
(* What else changes the configuration                                     *)
(***************************************************************************)
\* Control command 9, under the same lock.
SetTarget ==
  /\ fw = "idle"
  /\ real' = ~real
  /\ UNCHANGED <<fwVars, force, cmd, hold, engineVars>>

\* A script or a test bench, between exchanges.
SetForce ==
  /\ fw = "idle"
  /\ force' \in {"no", "wait", "fault", "parity"} \ {force}
  /\ UNCHANGED <<fwVars, real, cmd, hold, engineVars>>

Init ==
  /\ fw = "idle" /\ current = <<>> /\ sent = 0 /\ remaining = 0 /\ reply = <<>>
  /\ result = "none" /\ cmd = NoByte /\ hold = NoByte
  /\ real = FALSE /\ force = "no"
  /\ state = "CAPTURE" /\ request = <<>> /\ header = <<0, 0, 0, 0>>
  /\ response = <<>> /\ responsePos = 0
  /\ index = 0 /\ requestPos = 0 /\ completed = 0 /\ address = 0 /\ data = 0
  /\ wait = 0 /\ clocks = 0 /\ promised = [replies |-> {}, clocks |-> 0]
  /\ pins = [tck |-> 0, tms |-> 1, tdi |-> 0, tdo |-> 0]

Firmware == PollCommand \/ WriteByte \/ PollReply \/ ReadByte

Next ==
  \/ Edge \/ Begin \/ Firmware
  \/ SetTarget \/ SetForce

Spec == Init /\ [][Next]_vars

-----------------------------------------------------------------------------
(***************************************************************************)
(* Properties                                                              *)
(***************************************************************************)
\* The reply the firmware returns is the answer to its own request, byte by
\* byte: nothing is lost or read twice in the mailbox, nothing is left over
\* from earlier requests, and a request that ends early is not read past. A
\* JTAG sequence is one clock of the target, every other request none. The
\* polls of the budget outlast every pause of an engine that works.
RepliesMatch ==
  /\ result = "ok" => reply \in promised.replies /\ clocks = promised.clocks
  /\ result \notin {"Timeout", "ResponseTooLarge"}

\* TMS and TDI never change while TCK is high, rises or falls.
PinsStable ==
  [][pins.tck = 1 \/ pins'.tck = 1 => pins'.tms = pins.tms /\ pins'.tdi = pins.tdi]_vars
=============================================================================
