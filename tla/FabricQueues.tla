---------------------------- MODULE FabricQueues ----------------------------
(***************************************************************************)
(* The two queues of orbtrace_pl.v that keep the order of the trace: the   *)
(* FIFO that takes its bytes into the AXI clock domain, and the encoder    *)
(* with the AXI packer that takes its packets to the DMA.  They have       *)
(* nothing but bytes between them; an initial state is about one of them.  *)
(***************************************************************************)
EXTENDS AsyncFifo, OrbflowLink

VARIABLE crossing  \* this behaviour is about the clock crossing

vars == <<crossing, fifoVars, linkVars>>

Init ==
  /\ crossing \in BOOLEAN
  /\ FifoInit /\ (~crossing => \A i \in DOMAIN mem : mem[i] = output)
  /\ LinkInit

Next ==
  /\ \/ crossing /\ FifoNext /\ UNCHANGED linkVars
     \/ ~crossing /\ LinkNext /\ UNCHANGED fifoVars
  /\ UNCHANGED crossing

Spec == Init /\ [][Next]_vars

\* The clocks of the crossing run.  No liveness of the link is claimed: the
\* DMA may stop it for as long as it likes.
FairSpec == Spec /\ (crossing => FifoFairness)
=============================================================================
