# Orbtrace on the ZUBoard: a TLA+ verification project

This directory models `applications/orbtrace` and the tools around it in TLA+: the firmware that
runs on the A53 under ThreadX and NetX Duo, the RTL that turns a trace port into network frames, the
command line on the host that controls the board and decodes what it sends, the tool that runs tests
on the board, the fault record of the R5 with its decoder, and the converter of the documentation.
TLC checks every module on small instances, and TLAPS proves for every size the safety of the trace
DMA path, the framed services, the thread scheduling, the DAP mailbox, the control commands, the input side, the
encoder's frames, the DMA ring, the test tool and the converter, and the refinements of the framed services, the DMA ring,
the clock-crossing FIFO, the packetizer with the encoder, and the stream packer. Paths below are relative to `src/applications/orbtrace/` unless they
begin with one of the directories of `src/` (`sdk`, `tooling`, `internal`, `third_party`).

## 1. The system and its parts

```
 trace port --> DDR capture --> clock-crossing FIFO --+
 M3 trace port --------------> clock-crossing FIFO ---+--> TPIU demultiplexer --> packetizer
 SWO / synthetic source ------------------------------+                              |
                                                                             Orbflow encoder
 TCP 3402 client <-- NetX <-- trace thread <-- AXI DMA ring <-- AXI stream packer <--+
 TCP 3401 client <-> control thread --\
                                        spinlock -> Controller -> PL registers -> DAP engine -> JTAG
 TCP 3240 client <-> DAP thread ------/
```

| part | source | state it keeps | operations | hard behaviour |
|---|---|---|---|---|
| Trace DMA path | `firmware/a53_app/src/main.c` 130-340, 697-754 | descriptor ring, slot packets, consumer index, packet pool, socket | reset, fill, start, poll, replace, send, stop | the engine runs concurrently, stop does not wait for it, every call can fail |
| Framed services | `firmware/common/src/lib.rs` 1-90, `firmware/a53/src/lib.rs` 105-225, `firmware/a53/src/ffi.rs`, `main.c` 600-810 | frame decoder (static), TCP connection, packet pool | accept, receive, feed, reply, disconnect | segmentation, pipelining, garbage, clients that vanish |
| Threads and lock | `main.c` 815-923, `ffi.rs` 110-133 | ready lists, spinlock, transmit queue | schedule, block, relinquish, sleep | priorities without time slices and a spinlock |
| Clock-crossing FIFO | `rtl/orbtrace_async_fifo.sv`, its use in `rtl/orbtrace_pl.v` | memory, binary and Gray pointers, synchronisers | write, read, drop | pointers sampled while they change |
| DAP mailbox and engine | `a53/src/lib.rs` 323-370, `rtl/orbtrace_axi_regs.sv`, `rtl/orbtrace_dap_engine.sv` | command and reply registers, request and response memory, JTAG pins | poll, write byte, read byte, one state per command | register accesses at any edge, synchronous memory, requests cut short |
| TPIU demultiplexer | `rtl/orbtrace_tpiu_demux.sv`, `rtl/orbtrace_test_source.sv` | sync window, frame, channel, delayed channel | search, collect, emit, drop lock, reset | delayed IDs, false locks, stalls |
| Packetizer and encoder | `rtl/orbtrace_channel_packetizer.sv`, `rtl/orbtrace_orbflow_encoder.sv`, `rtl/orbtrace_core.sv` | held byte, idle counter; two banks, COBS groups | hold, send, load, emit, drop | two banks that take turns, size limits, pauses |
| Stream packer | `rtl/orbtrace_axis_packer.sv` | beat, frame count | pack, close a transfer | stalls, partial beats |
| Control commands, CoreSight | `firmware/a53/src/lib.rs` 226-322, 976-1160, `ffi.rs` 1-96, `model/src/main.rs` | PL registers, M3 memory, trace units, funnels, formatter | nine commands, each a series of register accesses | requests that outlive the program that sent them, counters read in two halves, the order of the set-up |
| DDR capture | `rtl/orbtrace_ddr_capture.sv`, the registers behind it in `rtl/orbtrace_pl.v` | samples, partial byte, width | sample, start, stop, configure | settings that cross clock domains while samples come in |
| SWO receivers | `rtl/orbtrace_swo_*.sv`, `rtl/orbtrace_baud_tick.sv` | accumulator, bit and quarter counters, shift register | tick, sample, put out | a free-running tick against the bits on the line |
| Rust DMA ring, S2MM driver | `common/src/lib.rs` 86-226, `a53/src/lib.rs` 430-465 | descriptors, producer, consumer | enqueue, poll, reset, submit | tail pointer in two registers; not used by `main.c` |
| Host command line | `model/src/main.rs`, `model/src/lib.rs` | image being loaded, OpenOCD's pins, a capture | control requests, load-m3, remote-bitbang, capture, decode-trace | time-outs, lossy captures, lockstep |
| M3 workload | `firmware/m3/src/lib.rs` | sequence number | next event | none; the source of a capture |
| Board test tool | `tooling/zub_ctl/src` | line being read, patterns left, boot tool | doctor, serial-watch, watch-r5, watch-a53 | a serial thread, a time limit and a tool that end in any order |
| Fault record | `sdk/bsp/rpu/postmortem.c`, `startup_pm.S`, `tooling/pm_decode/src/main.rs` | one record in memory that survives a warm reset | save, seal, print, clear; scan a dump | resets between any two stores |
| Documentation converter | `internal/docs_tool/src/lib.rs` | output files, manifest of hashes | convert, find tables | cut runs, PDFs replaced meanwhile |
| GEM2 driver | `src/third_party/os_abstraction_layer/ThreadX` | BD rings, recovery counters | receive, send, recover | recovery against the IP thread |
| Everything else | SDK, board support, demos, tools, build rules | | | see `PROJECT.json` |

What makes each part correct:

- **Trace DMA**: a packet has one owner; none is lost; the engine never writes what TCP holds; a
  client gets its frames in order and without a gap; the thread never hangs.
- **Framed services**: a client's requests are executed once, in order, and answered, however TCP
  cuts the stream; garbage neither stops the service nor overruns the decoder; packets are accounted for.
- **Threads**: nobody spins for a lock whose holder cannot run; requests and maintenance get their turn.
- **FIFO**: a queue, whatever the clocks do.
- **DAP**: a request gets its own answer; the poll budget is enough; JTAG pins are stable at the clock.
- **Capture, SWO**: the bytes are those on the pins; none is lost, doubled or taken from two bytes.
- **Demultiplexer, packetizer, encoder, packer**: what comes out is what the host library decodes
  back to what went in; nothing is left behind for good.
- **Control, CoreSight**: the M3 is released with the whole image in its memory; statistics are the
  counters; after a Configure the selected core is the one that is traced.
- **Command line**: OpenOCD's clocks and resets reach the pins once each; a decoded capture shows
  what was sent, and its gaps are the losses.
- **DMA ring**: a buffer comes back once, in its turn, and the engine has only what it was given.
- **Test tool**: the exit code is the verdict on what the board printed; nothing is left running.
- **Fault record**: what is reported as good is all of one exception.
- **Converter**: a PDF that a run skips has all its files, made from it, unless a disturbed run came before
  and the PDF went back to an earlier version; tables keep their words.

## 2. The modules

| module | models | how state and actions correspond |
|---|---|---|
| `TraceDma` | trace thread, ring, pool, socket, engine | `pc` is the point of the trace thread between two calls another party can observe; `slots`, `bds`, `consumer` are the statics of `main.c`; `DmaFetch`, `DmaComplete`, `DmaFault`, `DmaSettle` are the AXI DMA (external), `Client...` the network (external) |
| `TraceDmaProofs`, `FrameServiceProofs`, `TraceInputProofs`, `ControlPlaneProofs`, `FabricQueuesProofs`, `DapMailboxProofs`, `TraceStreamProofs` | theorems about the module each is named after; `ControlPlaneProofs` also about `Scheduler` | section 5 |
| `ToolsProofs` | theorems about `DmaRing`, `DocsConvert`, `Postmortem`, `JtagBridge` and `WatchBoard` | section 5 |
| `RequestService` | what a framed service promises | abstract: requests pending, executed, answered |
| `FrameService` | decoder, feed loop, FFI boundary, accept / receive / send loops | `decoder` is `FrameDecoder`; `data` and `index` the fragment the C loop is feeding; `orderly`, chosen at the start, says whether the clients stick to the protocol |
| `MCFrameService` | its instance | frames whose payload looks like another frame, so that misaligned bytes matter |
| `Scheduler` | ThreadX threads, spinlock, trace loop's sleep | one action per step of the running thread; `ready` is the kernel's ready lists (external) |
| `BoundedFifo` | what the FIFO promises | abstract: a sequence of at most `Capacity` items |
| `FabricQueues` | `AsyncFifo` and `OrbflowLink` in one run | an initial state chooses which of the two moves |
| `AsyncFifo` | `orbtrace_async_fifo.sv` and the drop path of `orbtrace_pl.v` | one action per edge of either clock; `Sample` gives a synchroniser any mixture of old and new bits |
| `DapMailbox`, `MCDapMailbox` | `dap_exchange`, mailbox registers, engine | every step is one clock edge, with at most one register access; `Answers` is the answer to a request as a whole |
| `OrbflowEncoder` | the encoder, and `orbflow_frame` / `orbflow_unframe` of the host library | `EncoderEdge` is one edge: load side, emit side and bank flags |
| `PacketLink`, `TransferQueue` | what the encoder and the packer promise | abstract: packets kept or dropped whole; transfers of whole frames |
| `AxisPacker` | `orbtrace_axis_packer.sv` | one action per edge; `framesSent`, `sent` are observations |
| `OrbflowLink` | encoder and packer, fed with packets of any length | one clock for both; the refinement maps full banks and the packet being closed to `PacketLink`'s queue, and the bytes in the packer to `TransferQueue`'s |
| `ChannelQueue`, `TraceStream` | what packetizer and encoder promise together, and their composition (`orbtrace_core.sv`) | the refinement maps held byte, loading bank and full banks to the queue |
| `TpiuDemux` | the demultiplexer and the host library's `TpiuDecoder` | `expected` holds what the reference makes of the frame being emitted |
| `TestPattern` | synthetic source in front of the demultiplexer | `index` is the source's |
| `DdrCapture` | the commands that set `running` and `trace_format`, their crossing into the trace clock's domain, and the capture | `TraceEdge` is a rising edge and the falling one after it; a sample is its time, so that a byte shows which samples it is made of |
| `SwoReceiver` | tick generator and both receivers, behind a target | one action per clock edge; the target holds each level for its number of edges |
| `TraceInput` | the input side: port, serial pin, demultiplexer | `stage` says which of them this behaviour is about; the target drives the shared pins as one of the first two |
| `CoreSight` | `coresight::select`, `enable_trace`, and how the components answer each write (external) | `coresight` is their registers with the traffic of each unit; `CoreSightTakes` is one write |
| `ControlPlane` | command line, request queue, `Controller::command`, the registers it reaches | `cli` is the program at work, `pending` and `serving` the board's requests; `Access` makes one register access of the request being served, `GiveUp` is the time-out |
| `JtagBridge` | `remote_bitbang` with its client and the engine behind it | `TakeByte` is one turn of the loop; `request` the CMSIS-DAP transaction it waits for |
| `DmaRing` | `AxiDmaRing`, `S2mmDma`, a caller and an engine (external) | `enqueue`, `submit_tail`, `poll_completed` are the functions; refines `BoundedFifo` |
| `TraceDecode` | M3 workload, ITM, frames on a lossy way, `decode_trace` with all it calls | the decoders are operators on `file`, the capture; the actions emit, cut, lose and interleave |
| `WatchBoard` | `zub_ctl`: main thread, serial thread, boot tool | `main` and `thread` are the points of the two threads; `Receive` is a read of any size |
| `Postmortem` | the exception handler, the hook, `pm_decode` | one action per store; `decode` is the tool, on the dump of the moment |
| `DocsConvert` | `convert`: clean, list, extract, write, manifest | one action per file operation, each of which a kill may follow; `fs::write` truncates first |
| `DocTables` | `extract_tables`, `normalize_rows` | operators on the lines of a page |
| `Toolbox`, `MCToolbox` | the eight modules above in one run | `part` says which one this behaviour is about |

Widths are parameters where the code's would be out of TLC's reach and the behaviour depends only
on their relation: `DataBits` (8), `ByteBits` (the longest COBS group and the all-ones sync byte follow from it),
`FrameBytes` (16 in the code, even), `DepthLog2` (5 and 10 in the code), `MaxPayload`, `HalfPeriod`,
`BramSize`, `WordEnd` and `HalfEnd` (2^32), `Cycle` (16), `Ahead` (4).

`TraceInput`, `FabricQueues` and `Toolbox` put parts that do not interact into one specification: an
initial state chooses one, the others keep their only initial state, so the states add up and do not
multiply. Where parts do interact they are composed in steps of their own: packetizer and encoder in
`TraceStream`, encoder and packer in `OrbflowLink`, source and demultiplexer in `TestPattern`,
command line, controller, registers and CoreSight in `ControlPlane`.

In each module a definition named in a comment as a mutant, or fault, is a plausible slip of the
definition after it; it is not used by the specification. `PROJECT.json` pairs each property with
one of them, which breaks it.

## 3. The runs

| run | checks | bounds, and why they are enough |
|---|---|---|
| `TraceDma` | `ExclusiveOwnership`, `NoPacketLeak`, `DmaNeverWritesSentPacket`, `DmaWritesItsSlot`, `FramesInOrder`, `ThreadNeverStuck` | two descriptors, four packets, queue of two, four frames: the ring wraps twice, pool and queue both run empty and full, every call fails at every point. The first five hold for all sizes (section 5) |
| `FrameService` | `DecoderHasRoom`, `PoolAccounted`, `ImplementsRequestService`, `RequestsAnswered`, `FeedReturns` | two connections with two and one requests, payloads of up to five bytes, five kinds of frames, all segmentations: pipelining, errors inside a segment, cut-off requests and what they leave to the next connection all occur |
| `FrameReconnect` | `DecoderIsPerConnection` is violated | finding 1 |
| `Scheduler` | `NobodySpins`, `RequestsServed`, `MaintenanceRuns` | three requests, a sleep after two frames (4096 in the code; only that the number is finite matters), a transmit queue of one |
| `FabricQueues` | `ImplementsBoundedFifo`, `RoomReturns`, `ImplementsPacketLink`, `ImplementsTransferQueue` | FIFO: four entries, pointers of three bits, the smallest with the full test's two inverted bits and one below; two kinds of items. Encoder and packer: packets of one to four bytes with a limit of two; bytes of two bits, so that a longest group has two bytes and all its boundaries occur; a counter that wraps at four; beats of eight bytes and two frames to a transfer, as built, so that frames of five and six bytes end inside a beat, short last beats of two to four bytes occur, and the packer stalls with any beat on offer |
| `AsyncFifoLevel` | `LevelMaxRisesByOne` is violated | finding 2 |
| `DapMailbox` | `RepliesMatch`, `PinsStable` | fourteen requests of every command, whole and cut short, any number of exchanges in any order, any alignment of the accesses to the edges |
| `TraceStream` | `FrameIsReference`, `NothingStranded`, `ImplementsChannelQueue` | two channels, packets of up to two bytes, an idle time of two edges, any stalls and pauses |
| `TraceInput` | `BytesOfTheWire`, `SwoDecodes`, `EmitsReference`, `M3ChannelOnly` | Port: all three widths and both SWO formats, starts, stops and changes between any two edges; sample times modulo ten, more than a byte's eight. SWO: any sequence of bytes of two bits, any pause, 14 clock edges to a bit and a tick every 3.5 of them, so that every phase and the accumulator's carry occur. Demultiplexer: bytes of three bits, frames of six, three data values with both auxiliary-bit cases; streams without bound, resets, stalls and changes of the source at any edge |
| `TestPattern` | `PatternLocks` is violated | finding 3 |
| `JtagBridge` | `SamplesThePin` is violated | finding 4 |
| `Toolbox` | `ReleasedImageIsWhole`, `StatsNearTheTruth`, `CoreSightFollowsSource`, `InLockstep`, `EngineKeepsToTheRing`, `RingIsAQueue`, `DecodesWhatWasSent`, `GapsAreLosses`, `VerdictRight`, `NothingLeftBehind`, `ReportsOneException`, `SkipIsSafe`, `TablesKeepWords` | see below |

The bounds of `Toolbox`, part by part:

- Control: two images, of two chunks and of three, so that one leaves words of the other behind and a
  last chunk is short; one request that nobody waits for any more, which is enough to put a request
  of one program between any two of the next; counters that carry out of their low word.
- Bridge: three bytes under way, so that the client is ahead by a whole clock and a reset.
- Ring: four descriptors, four buffers, any number of rounds; descriptors on both sides of the
  address where the high half of the tail changes.
- Decoding: twelve events, a cycle of five, frames of five bytes (packets are of two, three and five
  bytes, so every cut inside a packet occurs), one synchronisation, two losses.
- Test tool: four bytes (two lines) in reads of any size, of one character of a byte and one of two, which a
  read may cut; a list of no pattern, of one, and of one that must come on two lines, one failure
  pattern, of two bytes; a time limit of one tick.  Lists of different patterns are left to the proof.
- Fault record: three exceptions of two types, two link registers, three contents before the record.
- Converter: two PDFs of two versions, replaced any number of times, so that they go back to what they were
  before; two runs, each killed anywhere.  Two runs are enough for the cache to lie, and a PDF may change
  once without going back; longer histories are left to the proof.
- Tables: all pages of up to five lines of six kinds, with a look-ahead of two lines.

No run checks a type invariant on its own; the type invariants of the modules with proofs are proved,
as theorems or as parts of their inductive invariants.

`TraceStream`'s `NothingStranded` says with `ENABLED` what a liveness property would: once another
edge with a silent source and a ready sink changes nothing, the path is empty.

`DdrCapture` assumes one thing of time, named `Settled`: two Configure commands, each a round trip
over the network, are further apart than an edge of a running trace clock. Bits of a value on its
way may still be seen mixed, at any edge. `SwoReceiver`'s target sends at exactly the configured
rate, with an even whole number of edges above ten to a bit (other ratios are not covered), and the core takes a byte before the next one may begin
(`Patience`); it stops when two bytes are missing (`Len(begun) < 2`), which `SwoDecodes` says never
happens in NRZ.

### What is assumed of the surroundings

- `ControlPlane`: a request arrives whole (its framing is `FrameService`), one connection is served
  after the other, and one user works with the board at a time: what a program that gave up left
  behind may be executed among the requests of the next one, but two load-m3 do not run together.
- `CoreSight`: the components answer a write as the comments record it of the hardware
  (`a53/src/lib.rs` 995-1012, 1037-1051). A second Configure writes FFCR.StopFl together with a
  cleared EnFCont while the formatter has not stopped; the model takes that as without effect.
- `JtagBridge`: the target changes TDO at the falling edge, the client is OpenOCD's: it lowers TCK,
  samples, and raises it.
- `DmaRing`: the caller does what the comments ask for: it enqueues and then writes the tail.
- `Postmortem`: two records with the same CRC are the same record.
- `DocsConvert`: a write is a truncation and a fill, in the order of the program; two versions of a PDF
  have different hashes, and make different text.

### Fairness

- `TraceDma`: the trace thread runs (higher priorities wait for the network); a transfer the engine
  has begun ends; a queued packet is acknowledged or, after NetX's retries, the connection reset.
  Nothing is assumed of failures or of the arrival of frames.
- `FrameService`: the service thread runs, a client that began a request sends all of it or closes,
  TCP acknowledges replies.
- `Scheduler`: `FairSpec` lets a thread that is again and again the running one get on; `BusySpec`
  adds a trace source that keeps producing frames. `MaintenanceRuns` needs the latter.
- `FabricQueues`: in the clock crossing both clocks run, and the sink is ready again and again.
  Nothing is assumed of the source, and nothing of the link behind it, of which no liveness is claimed:
  the DMA may stall it for as long as it likes.
- `TestPattern`: the clock runs and the sink is ready again and again.

Deadlock is checked everywhere but in `FrameService`, where a bounded number of connections ends and
where a pool emptied by failed sends really stops the service, and in `Toolbox`, whose programs end.

## 4. What the code does otherwise than it says

Four disagreements have a run:

1. `FrameReconnect`: the decoders are statics that nothing resets, so a client that goes away
   inside a request leaves its partial frame to the next one; `a53/src/lib.rs:107` and `:158` call
   the state "per-connection".
2. `AsyncFifoLevel`: `write_level` undoes the Gray code with one shift. `orbtrace_pl.v:65-71`
   relies on the maximum of it rising by at most one per edge; it jumps, past the depth.
   `M3_TRACE_VERIFICATION_PLAN.md:1585` records 63 for a FIFO of 32 entries.
3. `TestPattern`: the synthetic source sends `7f ff ff ff`, the demultiplexer looks for
   `ff ff ff 7f`, so the synthetic TPIU stream never locks.
4. `JtagBridge`: the bridge answers a sample of TDO with the level of the clock before
   (`model/src/main.rs:201`, `:204`), although its comment says that it works in lockstep
   (`:171-173`). OpenOCD samples after TCK has fallen; a scan comes back shifted by one bit, which
   `M3_TRACE_VERIFICATION_PLAN.md` records as an unresolved "1-cycle scan offset".

Seen while modelling, and visible in the models, without a run of their own:

- `ffi.rs:171` says the error path drops the byte that triggered the error. It returns 1, the first
  byte of the input, after the decoder has been reset: action `FeedError`.
- A failed `nx_tcp_socket_send` of a reply (`main.c:641`, `:776`) leaks its packet: action
  `SendReplyFails`; `PoolAccounted` says that this is the only leak, and `RequestsAnswered` and
  `FeedReturns` make an exception for a pool that such sends have emptied.
- With a connected client and a silent source the trace loop only relinquishes (`main.c:723`), and
  the diagnostics thread, of a lower priority, never runs: `MaintenanceRuns` is false under `FairSpec`.
- The FIFO's full test compares the next pointer, so a FIFO of 32 entries holds 31:
  `ImplementsBoundedFifo` is stated with `Capacity <- Depth - 1`.
- The Manchester receiver (`orbtrace_swo_manchester.sv:28`) begins a frame at the first low level.
  A stop bit is a one, "high/low" (`:3-4`), so its second half is low, and is taken for the start
  of another frame: of two bytes in a row, the second is lost or counted as malformed. The bench
  (`rtl/tb/orbtrace_capture_tb.sv`) sends a single Manchester byte. `SwoDecodes` therefore speaks of
  the first byte only when the coding is Manchester; `coding = "manchester" => Decoded` is false.
- A change of `source_select` to the M3 (`orbtrace_core.sv:28`, a register any Configure writes) clears neither `channel` nor
  `delayed_channel` nor the lock (`orbtrace_tpiu_demux.sv:49-111`), and neither does `reset_sync`. Bytes then leave on the
  channel of the source before, or on the one its delayed change names, until the M3's stream has had a data byte, an ID byte
  and a data byte again. `M3ChannelOnly` speaks of the time from there on (`settled = 3`), and of all the time if the M3 is the source
  from reset on; `m3 /\ OutputValid => channel = Expected` is false.
- A reset of the demultiplexer at the edge of a frame's last byte does not keep that frame from
  being emitted (`orbtrace_tpiu_demux.sv:54-57` against `:81`); the host library drops it.
- A capture that is cut inside an ITM packet may decode to false events at its end, and after a loss
  the decoder may resynchronise wrongly; `DecodesWhatWasSent` speaks of the part before the first loss.
  The `Fault` event's high half, which `model/src/lib.rs:694-695` calls fixed, changes once the
  sequence number reaches 0x20000. An `Idle` event whose value is a multiple of 16 is taken for a
  timestamp; the comment of `classify_port0` admits it. A timestamp of zero, where the counter wraps,
  is classified as unknown and gives a false gap.
- After a serial read error `watch-r5` returns before it has reaped OpenOCD
  (`tooling/zub_ctl/src/main.rs:416`), and a script for xsct that cannot be written to its end stays, since the
  guard that unlinks it is made after `fs::write` (`:460`, `:461`): the two exceptions in `NothingLeftBehind`.
  `watch-a53` waits for xsct without a time limit, and a last line without a newline is never matched.
- `push_bytes_to_lines` applies `from_utf8_lossy` to each read alone (`tooling/zub_ctl/src/lib.rs:26`), so a
  character of several bytes that a read cuts becomes U+FFFD twice, and a pattern that needs it, or
  the failure it means, is missed: `VerdictRight` speaks of the text less those characters (`Legible`).
- A reset after the magic of a new fault record is stored, and before any other field differs, lets a
  record that has been printed be printed again; `postmortem.c:116` says it must not be replayed. And
  since both hooks clear the magic after printing, a dump taken later has no record to decode.
- `pm_decode` prints a record with the magic and the version in full before it says whether the checksum is right
  (`tooling/pm_decode/src/main.rs:132-163`). A torn one, registers of one exception under the program counter of
  another, is thus on the screen, tagged BAD, and only then does the scan go on: `ReportsOneException` speaks of what is tagged OK.
- The cache of `docs_tool` can lie. The manifest has the hash of v1; the PDF becomes v2; a run writes
  `document.md` from v2 and is killed; the PDF is put back to v1. The next run finds the hash (`lib.rs:539-543`)
  and skips the document, with files of v2. The same comes of a PDF replaced between its hash and `pdftotext`,
  which reads it again, and put back. `SkipIsSafe` names exactly this as its exception (`restored[d] /\ disturbed`; without
  it the run finds the counterexample), and shows that either one alone is harmless. A run with `--clean` heals it.
- `docs_tool --clean` that is killed inside `remove_dir_all` can leave a manifest whose documents are
  gone, which the next run skips: the exception in `SkipIsSafe` (`halfClean`). `a.pdf` and `a.PDF`
  share an output directory. Files of an earlier category stay.
- `compact_cell` is case-insensitive where its pattern looks for capitals, so any two letters make a
  cell "compact" and two-column prose is taken for a table (`is_table_row` in `DocTables`).

## 5. What is proved

Every theorem is about the specification that a run checks, for every value of the constants its
assumptions allow. A property and its inductive invariant were model-checked before they were proved.

| module | theorem | statement |
|---|---|---|
| `TraceDmaProofs` | `TypeCorrect` | `Spec => []TypeOK` |
| | `PacketsExclusive` | `Spec => []ExclusiveOwnership` |
| | `PacketsConserved` | `Spec => []NoPacketLeak` |
| | `LateWritesHarmless` | `Spec => []DmaNeverWritesSentPacket` |
| | `EngineStaysInRing` | `Spec => []DmaWritesItsSlot` |
| | `ClientGetsFramesInOrder` | `Spec => []FramesInOrder` |
| `FrameServiceProofs` | `NoOverrun` | `Spec => []DecoderHasRoom` |
| | `PoolIsAccounted` | `Spec => []PoolAccounted` |
| | `RefinesRequestService` | `Spec => ImplementsRequestService` |
| `TraceInputProofs` | `EmitsWhatTheLibraryDecodes` | `Spec => []EmitsReference` |
| | `OnlyTheM3Gets` | `Spec => []M3ChannelOnly` |
| | `CapturesTheWire` | `Spec => []BytesOfTheWire` |
| | `DecodesWhatIsSent` | `Spec => []SwoDecodes` |
| `ControlPlaneProofs` | `TypeCorrect` | `ControlSpec => []TypeOK` |
| | `ReleasedIsWhole` | `ControlSpec => []ReleasedImageIsWhole` |
| | `StatsAreNear` | `ControlSpec => []StatsNearTheTruth` |
| | `CoreSightFollows` | `ControlSpec => []CoreSightFollowsSource` |
| | `ThreadTypeCorrect`, `LockIsFree` (of `Scheduler`) | `Spec => []TypeOK`, `Spec => []NobodySpins` |
| `DapMailboxProofs` | `TypeCorrect` | `Spec => []TypeOK` |
| | `OwnReplies` | `Spec => []RepliesMatch` |
| | `PinsHold` | `Spec => PinsStable` |
| `TraceStreamProofs` | `FrameAgrees` | `Spec => []FrameIsReference` |
| | `PathIsAQueue` | `Spec => ImplementsChannelQueue` |
| `FabricQueuesProofs` | `CrossingIsAQueue` | `Spec => ImplementsBoundedFifo` |
| | `PackerIsAQueue` | `Spec => ImplementsTransferQueue` |
| `ToolsProofs` | `ConvertTypeCorrect`, `CacheIsSafe` | `ConvertSpec => []ConvertTypeOK`, `ConvertSpec => []SkipIsSafe` |
| | `OneException` | `FaultSpec => []ReportsOneException` |
| | `PinsInLockstep` | `BridgeSpec => InLockstep` |
| | `LeftBehind`, `VerdictIsRight` | `WatchSpec => []NothingLeftBehind`, `WatchSpec => []VerdictRight` |
| | `RingTypeCorrect`, `OwnershipIsKept` | `RingSpec => []RingTypeOK`, `RingSpec => []EngineKeepsToTheRing` |
| | `RefinesBoundedFifo` | `RingSpec => RingIsAQueue` |

None of the properties but the type invariants is inductive. What each proof adds, and why:

- **Trace DMA, ownership.** From the four named assumptions of `TraceDma`, for every set of packets,
  every `BdCount` of at least two, every `TxQueue` of at least one and any number of frames. `IInv` adds `ThreadInv`
  (which locals are set at which point of the thread; the slots are empty before
  `trace_dma_initialize` and filled up to `fill` during it; while streaming every descriptor names its
  slot's packet) and `EngineInv` (which engine states go with which point of the thread, and where an
  engine that is halting or resetting may still write: only into a packet of the pool). The latter is
  the heart of it: `trace_dma_stop` releases the packets without waiting for the engine, and nobody
  takes one out of the pool before `trace_dma_initialize` has seen the reset end.
- **Trace DMA, order.** `OrderInv` relates the contents of everything under way: going back from the
  client, what was received, the transmit queue, the packet in the thread's hand and the completed
  descriptors hold consecutive frames, and the engine stands behind them (`Filled`). `NotWritten` uses
  the ownership invariant: what is under way is not what the engine writes.
- **Trace DMA, engine.** `TailInv`: from the oldest descriptor on, some are complete and all others up to the one at
  TAILDESC are pending, and the engine is at the first of these, or idle because there is none. That the engine goes
  idle exactly there is `TailIsLast`; rearming takes the oldest out of the complete ones and publishing adds it to the pending.
- **Framed services.** From the assumptions of `FrameService`; `GoodFramesAssumption` says that an
  orderly client's frames have the length they declare. The decoder's room and the pool hold for all bytes whatever.
  The refinement needs `RInv`: the bytes the decoder holds, followed by those under way, parse
  into exactly the requests sent and not executed (`StreamTrue`, `Parses`); and what was executed is what was answered,
  plus the request whose reply is about to be sent (`OneReplyEach`). The mapping compares contents: `executed` and `replied`
  are the payloads themselves, and `OrderlyPush` shows that the frame the decoder completes carries the payload of the oldest request. `PushIsTrue` and `OrderlyPush` say what one byte does
  to a decoder that holds the first part of a frame.
- **Scheduler.** `HolderIsFirst`: the holder of the spinlock is the service in its feed call and heads the
  ready list it shares with the other service, so that nobody who wants the lock is ever the running thread.
- **Demultiplexer.** From `DemuxAssumption`. `EmitsAlong`: while a frame is emitted there are the channels it was
  begun with, such that the RTL is where `TpiuDecoder` is after as many bytes, and what the
  decoder puts out from there on is what is expected. The library's channels are existentially
  quantified, for the RTL does not keep them. `TakesOver` says what the channel registers may hold at each stage of a switch
  to the M3, the delayed channel included: `M3ChannelOnly` is not inductive without it.
- **Parallel port.** From `CaptureAssumption`. `FollowsReference`: the partial byte is the reference's
  window. `MixturesAreNew`: a mixture of an old and a new format differs from the format of the edge
  before, so it takes one edge, which primes and takes no sample. This rests on `Settled` and on
  `NothingBetween`: a register that does not change cannot be seen mixed.
- **SWO receivers.** From `SwoAssumption` and `PatienceAssumption`. `SwoInv` says at each edge what the line and the receiver are
  doing together (`Waiting`, `Starting`, `Receiving`, `Ending`) and keeps the distance in clock edges between the bit bounds of the
  two (`Abreast`): the receiver starts at a tick, up to a quarter of a bit late and two edges behind the pin because of its
  synchroniser, and from then on both advance one edge at a time, so that the distance never changes and every sample falls
  inside the half bit it is meant for (`SeenIs`). `TickIs` keeps the accumulator's fraction, for a bit need not be a whole multiple of four
  edges. Both assumptions came out of the proof. With ten edges to a bit or fewer the tick may come so late
  that a Manchester byte is put out after the next one has begun, which TLC then showed to violate `SwoDecodes`; the registers come up with
  50 edges. And a receiver with a byte on offer looks for no start bit, so the core has to take a byte within half a bit (`TakenInTime`).
- **Control commands.** From `ControlAssumption`. `LoadInv` says where each request of a load-m3 may
  be (queued, served, still to be sent), what of the image is in the memory by then, and that what
  programs that gave up have left behind can only hold the core or write the same words again; a late
  request (a chunk, the release) is sent only when the board has done the one before. `ReadInOrder`
  keeps, for the words read so far, moments of which they are the halves, the low one's not after the high one's.
- **CoreSight set-up.** `SetUp(core, k)` is what the first `k` of the 27 writes of a Configure have brought about,
  whatever state they found; `SetUpStep` shows that each write keeps what those before it did
  and adds its own, the flush with the unit's trace in flight included, and `SetUpDelivers` that after the last one the
  unit delivers. `SetUpInv` says that the board either is that far in a Configure, or makes accesses that leave the
  CoreSight alone while the unit of its source delivers.
- **DAP mailbox.** From the three assumptions of `DapMailbox`. `BudgetAssumption` is what the code chooses: a poll
  budget of 1000000 (`main.c:58`) against at most 32 transfers and 8 edges to half a clock, and `serve_dap`'s buffer
  against the longest reply; the run takes the smallest values that meet it. The invariant `Phase` says which of four things an exchange is
  at, on both sides of the mailbox at once: nothing (`Resting`, with nothing left over in either register), the request on its
  way in (`Loading`: what was captured, then what is in the command register, is what was written), the engine at work
  (`Working`), the reply on its way out (`Answering`: what was read, then what is in the holding register, then
  what is at `responsePos`, is the response). `Busy` carries the poll budget through each state of the engine: what is left
  outlasts what is still to do. `Transferring` says that after `index` transfers the engine is
  where the answer to the whole request begins its next one and has built that answer so far; `TransferStart` and
  `TransferBytes`, of which the answer is made, are recursive functions, unfolded by least element
  (`RecursiveFunction`). `WorkingEnds` is the theorem's core: when the engine is done, what it has built is what was
  promised. `PinsHold` needs `TckHigh` and the bit time: TCK falls only in JTAG_HOLD, which leaves TMS and TDI alone.
- **DMA ring.** From `RingAssumption` (a power of two, as `new` demands). `StatusTrue` ties the complete
  flags to what was filled, `EmptyAtFirst` and `AtFirstUnfilled` place the engine, and `StopsInTime` with `TailIsLast` keeps the tail behind
  what is enqueued, also between the two halves of the tail register. The refinement maps the
  descriptors from the consumer on to the queue.
- **Clock crossing.** From `DepthAssumption` and `ItemAssumption`. The inductive invariant `Counts` says
  that every pointer register, the stages of the synchronisers included, holds the Gray code of a count of
  items written or read that was once true, and orders these counts: what a side knows of the other is late
  and never wrong. It rests on what the comparison of bits does in general: from one pointer to the next one bit of
  the Gray code changes (`GrayStep`), so that a sample with each bit old or new is the old or the new
  pointer (`SampleIsOneOfBoth`), and inverting two bits finds the pointer `Depth` ahead (`FullTestFinds`). The
  refinement maps the memory between the two counts to the queue (`WriteAppends`, `ReadTakesFirst`).
- **Packetizer and encoder.** From `EncoderAssumption` and `StreamAssumption`. The encoder never has a packet's COBS encoding: it
  notes group lengths while it loads, and makes the code bytes of them while it emits. `Grouped` says that the
  lengths noted so far cut what is loaded into COBS groups, `Cut` says it of a finished packet, and `CutEncodes` that the codes
  and bytes of such groups are what `cobs_encode` writes; `Decodes`, that `cobs_decode` gives the packet back, a
  packet that ends with a longest group included. `SentInv` places the emitting side in that encoding (`AtCode`, `AtData`,
  `AtEnd`). `LoadSum` is the running checksum, `BankOrder` the turns of the two banks: which one is loaded follows from which are
  full. The refinement also needs `CountInv`: the packetizer's count is what the encoder has and the held byte, so that it
  ends every packet before the encoder would drop it. A byte then moves along (held, waiting for the
  channel byte, loading, in a bank) without any order changing (`HoldingMoves`, `LoadingMoves`, `BankMoves`), and a frame that ends
  decodes to the first items of the queue (`DeliveredIs`, `PacketInFront`).
- **Stream packer.** From `LinkAssumption` and `EncoderAssumption`, for beats of any length, the eight bytes of the RTL included; of the encoder only that it offers bytes (`EncoderType`).
  `PackerInv`: what has not left is either the beat being filled or the beat on offer, never
  both, and `frameCount` is the number of frames that ended since the last whole transfer, reset together
  with the beat that ends one.
- **Converter.** From `PdfsAssumption` and `VersionsAssumption`. `EntriesTrue`: what the manifest says, and what it is
  going to say, of a PDF that has not changed is true, as long as the history does not excuse it
  (`Trusted`); `WrittenForAReason`: a document is written only when the manifest does not have its PDF as it
  is, so that a kill in the midst of it leaves no true-looking entry. An edit keeps both for one of two
  reasons: the version is new, and all that was taken down is of the past (`OnlyOfThePast`); or no run was
  disturbed, and then it falls between two runs, where the files are those of the manifest whatever the PDF is now
  (`FilesAreTheManifests`). `NoneForgotten`, `FilesSoFar` and `CacheIsManifest` carry this along the loop.
- **Fault record.** From `DumpAssumption`: nothing before the record in a dump is a checksum. Without it a
  sealed record elsewhere would be reported, rightly. `SealIsOfOne`: the checksum is that of an exception that was
  taken, and no other field is one; `StoredSoFar`: up to the store at hand the fields are those of the exception
  being saved. The words the decoder finds sealed are therefore those of one exception, be it an earlier one whose
  fields the new one has only repeated so far (`SealedIsOne`). `DecodeIs` shows what the decoder prints: the record, with
  its tag, if it has the magic and the version, and of what else it prints nothing is sealed.
- **JTAG bridge.** `OwedIsAsked`: what the client is owed is the engine's request, unless the pins
  have changed for it already, and then what the bytes not yet read ask for, in order. `Matches` says the
  last without recursion, by the places of the bytes that ask for something.
- **Test tool.** `WhereTheyAre`: at which points of the main thread a tool may run or the script exist. For the verdict, from
  `WatchAssumption`: `RestIs` says that the buffer holds what follows the last newline, `Going` that of the patterns those not left have been
  found in the text and no more. `FoundAt` is the step: a list is found up to the end of a line if it was found before, or all but
  its last pattern was and the line has that one; so taking the first line that matches loses nothing. `VerdictStays` says that what the board
  prints after a verdict does not change it, and `ReadJudged` carries this over the characters of a read. `ShownOn` says that what a read
  shows depends on its own bytes only, so that the characters read so far are `Legible`, with the cuts counted in `torn`.

The proofs have one lemma per action or group of actions (`...Step`), and lemmas about the operators the models
are built from: what a decoder does with a byte (`PushIsTrue`, `DecodeByteIs`), how positions go round a ring
(`Walk`, `PlaceIs`, `RingPlaces`), what the requests of an image are (`LoadM3Is`). Where a proof needs induction
(a recursive function over the bytes of a frame, powers of two) it takes the least element of a set
(`LeastOne`, `UpTo`), because the library's induction theorems have an operator as a parameter. Models were changed for a
proof, none in what it says: `TpiuDecoder` is a recursive function
over the bytes of a frame, and two definitions (`DdrCapture`'s reference, `TraceStream`'s loading
packet) no longer have a `CASE` whose arms overlap, which TLC takes in order and TLA+ does not. `Postmortem` now
names what it assumes of a dump, and `DapMailbox` what it assumes of the poll budget; its reference for a transfer is
two recursive functions, one for where a transfer begins and one for what it is answered with; `WatchBoard` reads bytes and lines
with recursive functions, and its reference no longer uses them; `SwoReceiver` names how many edges a bit has at least;
`OrbflowEncoder` writes the sum of bytes, `cobs_encode` and `cobs_decode` as recursive functions.

Model-checked only:

- liveness (`ThreadNeverStuck`, `RequestsAnswered`, `FeedReturns`, `RequestsServed`, `MaintenanceRuns`,
  `RoomReturns`) and `NothingStranded`, which says `ENABLED`: both are outside the prover's reach;
- `ImplementsPacketLink`: the encoder on its own, fed with packets of any length, dropped ones included. What it
  emits for the packets it keeps is what `FrameAgrees` and `Decodes` are about, behind the packetizer, which never sends one
  that is too long;
- `DecodesWhatWasSent`, `GapsAreLosses` (`TraceDecode`) and `TablesKeepWords` (`DocTables`): the decoders are operators that
  fold over a whole file or page, and what they compute for all of them is an induction over data.

## 6. What is not modelled, and why

`PROJECT.json` lists every component with its status.

Left out for good: vendored kernels and libraries (modelled from their use, as external actions),
board support, loader and start-up code (straight-line register code), demo applications, build and
laboratory scripts (sequences of tool calls), `elf_check` (one decision over one file, without
state), the four-lane DDR capture (two samples of state, used by no top level), the workload of the
R5 (it computes without a protocol).

Left out so far, with what it could go wrong about:

- the GEM2 driver's recovery from a stalled receiver, which rewrites ring bases and indices from the
  diagnostics thread while the IP thread may receive (`ThreadXGEM2Driver.c:1393`);
- the register block's interrupt status, where a write-one-to-clear overrides an event of the same
  edge (`rtl/orbtrace_axi_regs.sv:83`), and the counters' way between clocks;
- the FIFO level that the PS side compares without a synchroniser (`rtl/orbtrace_pl.v:161`);
- JTAG sequences shorter than four bytes, which take TMS and TDI from the header of the request before
  (`rtl/orbtrace_dap_engine.sv:157`): `DapMailbox` offers none.

Within the modelled parts: `DapMailbox` does not drive nTRST and nRESET as pins (`JtagBridge` does, with
an engine of one step), and its engine never stops; `TraceStream` does not count `received_bytes`;
`SwoReceiver` models the receiver that `trace_format` selects, the other one's output is not selected;
`AxisPacker` claims nothing of a last odd frame, which by design waits for the next; `DmaRing` leaves
out `acknowledge_interrupts`; `ControlPlane` leaves out the command line's replay, dap and
gen-registers, which send a file, a packet and a table and keep nothing; `TraceDecode` leaves out the
JSON it is written as; `WatchBoard` leaves out what the tools print, characters of more than two bytes, and
more than one missing prerequisite; `Postmortem` leaves out symbol look-up and the message about a record of another version; `DocsConvert` leaves out titles,
categories and the top-level README.md.

## 7. Plan

The path a trace byte takes, the services a user talks to, what configures and observes them, and
the tools around the board are modelled. What is left, most useful first:

1. `GemRecovery`: receive-stall recovery of the GEM2 driver against the IP thread's receive path.
2. The interrupt status and the counters of the register block, with an abstract register block of
   atomic reads and writes that it implements up to the torn counters.
