--------------------------- MODULE TransferQueue ---------------------------
(* What the AXI stream packer promises: the bytes of the frames leave in    *)
(* order, in transfers of FramesPerTransfer whole frames, and every beat    *)
(* but the last of a transfer is full.                                      *)
EXTENDS Naturals, Sequences, FiniteSets

CONSTANTS Data, BeatBytes, FramesPerTransfer

VARIABLES
  pending,    \* bytes not sent yet, each with the mark of the end of a frame
  framesSent, \* whole frames of the current transfer that were sent
  sent        \* the beat the latest step sent, or <<>>

vars == <<pending, framesSent, sent>>

Byte == [data : Data, last : BOOLEAN]
More == {<<>>} \cup {<<b>> : b \in Byte}

FramesIn(n) == framesSent + Cardinality({k \in 1 .. n : pending[k].last})
EndsTransfer(n) == pending[n].last /\ FramesIn(n) = FramesPerTransfer

Init == pending = <<>> /\ framesSent = 0 /\ sent = <<>>

Beat(n) ==
  /\ n \in 1 .. Len(pending)
  /\ EndsTransfer(n) \/ n = BeatBytes
  /\ \A k \in 1 .. n - 1 : ~EndsTransfer(k)
  /\ framesSent' = IF EndsTransfer(n) THEN 0 ELSE FramesIn(n)
  /\ sent' = <<[k \in 1 .. n |-> pending[k].data], EndsTransfer(n)>>
  /\ \E more \in More : pending' = SubSeq(pending, n + 1, Len(pending)) \o more

Send == \E n \in 1 .. BeatBytes : Beat(n)

Accept ==
  /\ \E more \in More : pending' = pending \o more
  /\ sent' = <<>> /\ UNCHANGED framesSent

Next == Send \/ Accept

Spec == Init /\ [][Next]_vars
=============================================================================
