----------------------------- MODULE PacketLink -----------------------------
(* What the Orbflow encoder promises for packets of any length: those of up *)
(* to MaxPayload bytes are delivered whole and in order, a longer one is    *)
(* dropped whole.  A packet is its channel followed by its payload.         *)
EXTENDS Naturals, Sequences

CONSTANTS Channel, Byte, MaxPayload

VARIABLES
  offered,   \* the part of a packet that has come in
  queue,     \* packets that have come in whole and are not delivered yet
  delivered  \* the packets the latest step delivered, oldest first

vars == <<offered, queue, delivered>>

Init == offered = <<>> /\ queue = <<>> /\ delivered = <<>>

\* What offered is after one more byte.
With(channel, data) ==
  IF offered = <<>> THEN <<channel, data>> ELSE Append(offered, data)

\* The packet p is complete: it is queued, or dropped as too long.
Kept(p) == IF Len(p) - 1 <= MaxPayload THEN <<p>> ELSE <<>>

\* The queue moves: some packets leave at its head, and more comes in at its end.
Moves(more) ==
  /\ queue \o more = delivered' \o queue'
  /\ Len(delivered') <= Len(queue)

Rest == offered' = offered /\ Moves(<<>>)

Continue ==
  /\ \E c \in Channel, d \in Byte : offered' = With(c, d)
  /\ Moves(<<>>)

End ==
  /\ \E c \in Channel, d \in Byte : Moves(Kept(With(c, d)))
  /\ offered' = <<>>

Next == Rest \/ Continue \/ End

Spec == Init /\ [][Next]_vars
=============================================================================
