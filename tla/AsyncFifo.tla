------------------------------ MODULE AsyncFifo ------------------------------
(***************************************************************************)
(* orbtrace_async_fifo.sv: the FIFO between a trace clock and the AXI      *)
(* clock, and the high-water mark orbtrace_pl.v takes from it.             *)
(*                                                                         *)
(* Each side keeps its pointer in binary and in Gray code and samples the  *)
(* other side's Gray pointer through two flip-flops.  The clocks are       *)
(* unrelated: an edge of one may fall into the moment the other's register *)
(* changes, and then every bit of the sample is the old or the new one,    *)
(* independently.  ...GrayOld is the value a Gray register had before its  *)
(* latest edge, until the other side has sampled it: the register settles  *)
(* within one period of either clock.                                      *)
(***************************************************************************)
EXTENDS Naturals, Sequences

CONSTANTS
  Item,      \* what is written
  DepthLog2  \* DEPTH_LOG2; below 2 the slice [PTR_W-3:0] is not a range

ASSUME DepthAssumption == DepthLog2 \in Nat \ {0, 1}
ASSUME ItemAssumption == Item # {}

VARIABLES
  mem,       \* the memory
  wr,        \* wr_bin
  wrGray,    \* wr_gray
  wrGrayOld, \* its value before the latest write_clk edge, if not sampled yet
  rdW1, rdW2, \* rd_gray_w1, rd_gray_w2
  rd,        \* rd_bin
  rdGray,    \* rd_gray
  rdGrayOld, \* its value before the latest read_clk edge, if not sampled yet
  wrR1, wrR2, \* wr_gray_r1, wr_gray_r2
  output,    \* the item read last
  levelMax,  \* m3_level_max_w of orbtrace_pl.v
  drops      \* a byte was presented while write_ready was low (cdc_overrun)

writeVars == <<wr, wrGray, rdW1, rdW2, levelMax, drops>>
readVars  == <<rd, rdGray, wrR1, wrR2, output>>
fifoVars == <<mem, wr, wrGray, wrGrayOld, rdW1, rdW2, rd, rdGray, rdGrayOld, wrR1, wrR2,
          output, levelMax, drops>>

PtrW == DepthLog2 + 1
Depth == 2 ^ DepthLog2
Pointers == 0 .. 2 ^ PtrW - 1

\* A register of PtrW bits as the set of its bits that are 1.
Bits == 0 .. PtrW - 1
Register == SUBSET Bits
Binary(v) == {i \in Bits : (v \div 2 ^ i) % 2 = 1}
Shifted(s) == {i \in Bits : i + 1 \in s}
Xor(s, t) == (s \ t) \cup (t \ s)
Value(s) == CHOOSE v \in Pointers : Binary(v) = s

\* (v >> 1) ^ v
Gray(v) == Xor(Shifted(Binary(v)), Binary(v))

Plus1(v) == (v + 1) % 2 ^ PtrW

\* What a flip-flop of the other clock may take from a register that
\* changes from old to new.
Sample(old, new) == {s \in Register : old \cap new \subseteq s /\ s \subseteq old \cup new}

\* The full test: the next write pointer against the read pointer as seen,
\* with its two top bits inverted.
FullTest(next, seen) == next = Xor(seen, {PtrW - 1, PtrW - 2})

WriteReady == ~FullTest(Gray(Plus1(wr)), rdW2)
ReadValid == rdGray # wrR2

\* write_level: the read pointer is taken out of its Gray code by one shift.
WriteLevel == (wr + 2 ^ PtrW - Value(Xor(Shifted(rdW2), rdW2))) % 2 ^ PtrW

-----------------------------------------------------------------------------
FifoInit ==
  /\ mem \in [0 .. Depth - 1 -> Item]
  /\ wr = 0 /\ wrGray = {} /\ wrGrayOld = {} /\ rdW1 = {} /\ rdW2 = {}
  /\ rd = 0 /\ rdGray = {} /\ rdGrayOld = {} /\ wrR1 = {} /\ wrR2 = {}
  /\ output \in Item /\ levelMax = 0 /\ drops = FALSE

\* Mutant: the synchronizer is enabled only while there is room.
WriteEdgeGated ==
  /\ wrGrayOld' = wrGray /\ rdGrayOld' = rdGray
  /\ IF WriteReady THEN rdW1' \in Sample(rdGrayOld, rdGray) /\ rdW2' = rdW1
                   ELSE UNCHANGED <<rdW1, rdW2>>
  /\ levelMax' = IF WriteLevel > levelMax THEN WriteLevel ELSE levelMax
  /\ UNCHANGED readVars

\* What every write_clk edge does besides a write.
WriteEdge ==
  /\ wrGrayOld' = wrGray /\ rdGrayOld' = rdGray
  /\ rdW1' \in Sample(rdGrayOld, rdGray)
  /\ rdW2' = rdW1
  /\ levelMax' = IF WriteLevel > levelMax THEN WriteLevel ELSE levelMax
  /\ UNCHANGED readVars

\* A write_clk edge with a byte accepted.
Write ==
  /\ WriteEdge
  /\ WriteReady
  /\ \E x \in Item : mem' = [mem EXCEPT ![wr % Depth] = x]
  /\ wr' = Plus1(wr) /\ wrGray' = Gray(Plus1(wr))
  /\ UNCHANGED drops

\* A write_clk edge without write_valid.
WriteNothing ==
  /\ WriteEdge
  /\ UNCHANGED <<mem, wr, wrGray, drops>>

\* A write_clk edge with a byte that finds the FIFO full: it is dropped.
WriteDropped ==
  /\ WriteEdge
  /\ ~WriteReady
  /\ drops' = TRUE
  /\ UNCHANGED <<mem, wr, wrGray>>

\* What every read_clk edge does besides a read.
ReadEdge ==
  /\ wrGrayOld' = wrGray /\ rdGrayOld' = rdGray
  /\ wrR1' \in Sample(wrGrayOld, wrGray)
  /\ wrR2' = wrR1
  /\ UNCHANGED <<mem, writeVars>>

\* Mutant: the memory is addressed by the pointer that is being advanced.
ReadAhead ==
  /\ ReadEdge
  /\ ReadValid
  /\ output' = mem[Plus1(rd) % Depth]
  /\ rd' = Plus1(rd) /\ rdGray' = Gray(Plus1(rd))

\* A read_clk edge with an item taken.
Read ==
  /\ ReadEdge
  /\ ReadValid
  /\ output' = mem[rd % Depth]
  /\ rd' = Plus1(rd) /\ rdGray' = Gray(Plus1(rd))

\* A read_clk edge without one.
ReadNothing ==
  /\ ReadEdge
  /\ UNCHANGED <<rd, rdGray, output>>

FifoNext == Write \/ WriteNothing \/ WriteDropped \/ Read \/ ReadNothing

\* Both clocks run, and the sink takes what is there.
FifoFairness ==
  /\ WF_fifoVars(Write \/ WriteNothing \/ WriteDropped)
  /\ WF_fifoVars(Read) /\ WF_fifoVars(ReadNothing)

FifoSpec == FifoInit /\ [][FifoNext]_fifoVars

-----------------------------------------------------------------------------
(***************************************************************************)
(* Properties                                                              *)
(***************************************************************************)
Fill == (wr + 2 ^ PtrW - rd) % 2 ^ PtrW

\* A full FIFO takes bytes again: the reads cross back to the write side even
\* while it is refusing bytes.
RoomReturns == []<>WriteReady

\* What orbtrace_pl.v says of the high-water mark it sends across in Gray code:
\* it rises by at most one at an edge.
LevelMaxRisesByOne == [][levelMax' <= levelMax + 1]_fifoVars

(***************************************************************************)
(* Refinement: the memory from the read to the write pointer is the queue. *)
(***************************************************************************)
F == INSTANCE BoundedFifo WITH
  Capacity <- Depth - 1,
  queue <- [i \in 1 .. Fill |-> mem[(rd + i - 1) % Depth]],
  last  <- output

\* Whatever the clocks do, the FIFO is a queue of Depth - 1 items: none is lost,
\* repeated, reordered or read before it is there.
ImplementsBoundedFifo == F!Spec
=============================================================================
