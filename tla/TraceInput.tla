----------------------------- MODULE TraceInput -----------------------------
(***************************************************************************)
(* The input side of orbtrace_pl.v.  The trace pins are shared: a target   *)
(* drives them as a parallel port with its clock, or drives the first of   *)
(* them as SWO and no clock; and what comes in is a TPIU stream for the    *)
(* demultiplexer.  One initial state is about one of the three; the stages *)
(* have nothing but bytes between them, so the others stand still.         *)
(***************************************************************************)
EXTENDS DdrCapture, SwoReceiver, TpiuDemux

VARIABLE stage  \* "port", "serial" or "formatter"

vars == <<stage, captureVars, swoVars, demuxVars>>

Init ==
  /\ stage \in {"port", "serial", "formatter"}
  /\ CaptureInit
  /\ SwoInit /\ (stage # "serial" => coding = "nrz")
  /\ DemuxInit /\ (stage # "formatter" => ~m3)

Next ==
  /\ \/ stage = "port" /\ CaptureNext /\ UNCHANGED <<swoVars, demuxVars>>
     \/ stage = "serial" /\ SwoNext /\ UNCHANGED <<captureVars, demuxVars>>
     \/ stage = "formatter" /\ DemuxNext /\ UNCHANGED <<captureVars, swoVars>>
  /\ UNCHANGED stage

Spec == Init /\ [][Next]_vars
=============================================================================
