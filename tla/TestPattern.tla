----------------------------- MODULE TestPattern -----------------------------
(***************************************************************************)
(* The synthetic trace source (orbtrace_test_source.sv, TPIU mode) driving *)
(* the demultiplexer through orbtrace_source_mux.sv, as source_select = 3  *)
(* does.                                                                   *)
(***************************************************************************)
EXTENDS TpiuDemux

VARIABLE index   \* which byte of the pattern the source offers

\* A sync packet, an immediate ID byte for channel 2, data that counts up and
\* the auxiliary byte.
DataByte(i) == 2 ^ (ByteBits - 1) + (i - 5)   \* from RAW_BASE, 80
PatternByte(i) ==
  IF i = 0 THEN SyncEnd
  ELSE IF i \in 1 .. 3 THEN AllOnes
  ELSE IF i = 4 THEN 5
  ELSE IF i = FrameBytes + 3 THEN 0
  ELSE DataByte(i)

NextIndex == IF index = FrameBytes + 3 THEN 0 ELSE index + 1

\* One edge with the source enabled; the DMA side is ready or not.
PatternEdge(ready) ==
  /\ Edge([valid |-> TRUE, data |-> PatternByte(index)], ready, FALSE)
  /\ UNCHANGED m3
  /\ index' = IF InputReady THEN NextIndex ELSE index

PatternInit == DemuxInit /\ m3 = FALSE /\ index = 0
PatternNext == \E ready \in BOOLEAN : PatternEdge(ready)
PatternSpec ==
  /\ PatternInit /\ [][PatternNext]_<<demuxVars, index>>
  /\ WF_<<demuxVars, index>>(PatternEdge(TRUE))

\* "TPIU modes emit sync plus a formatter frame" "for pipeline validation"
\* (orbtrace_test_source.sv:2-5): the demultiplexer behind it gets in step.
\* It never does: the source sends 7f before the three ff bytes, as the host
\* library and its test have it, and the demultiplexer looks for it after them.
PatternLocks == <>synced
=============================================================================
