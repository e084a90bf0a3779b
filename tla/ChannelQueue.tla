---------------------------- MODULE ChannelQueue ----------------------------
(* What the trace path from the formatter to the DMA promises: every byte   *)
(* is delivered once, in order, in packets of one channel and at most       *)
(* MaxPacket bytes.                                                         *)
EXTENDS Naturals, Sequences

CONSTANTS Channel, Data, MaxPacket

Item == [channel : Channel, data : Data]

VARIABLES
  items,     \* accepted and not delivered yet
  delivered  \* the packet the latest step delivered: its channel and payload; or <<>>

vars == <<items, delivered>>

Init == items = <<>> /\ delivered = <<>>

Accepted == {<<>>} \cup {<<i>> : i \in Item}

\* The first n items are delivered as one packet, while more may come in.
DeliverFirst(n) ==
  /\ \A k \in 1 .. n : items[k].channel = items[1].channel
  /\ delivered' = <<items[1].channel, [k \in 1 .. n |-> items[k].data]>>
  /\ \E more \in Accepted : items' = SubSeq(items, n + 1, Len(items)) \o more

Deliver == \E n \in 1 .. MaxPacket : n <= Len(items) /\ DeliverFirst(n)

Accept ==
  /\ \E more \in Accepted : items' = items \o more
  /\ delivered' = <<>>

Next == Accept \/ Deliver

Spec == Init /\ [][Next]_vars
=============================================================================
