----------------------------- MODULE BoundedFifo -----------------------------
(* What a clock-crossing FIFO promises: the items read are the items         *)
(* written, in order, none lost or repeated, at most Capacity in between.    *)
EXTENDS Naturals, Sequences

CONSTANTS Item, Capacity

VARIABLES
  queue,  \* items written and not read yet
  last    \* the item read last

vars == <<queue, last>>

Init == queue = <<>> /\ last \in Item

Write ==
  /\ Len(queue) < Capacity
  /\ \E x \in Item : queue' = Append(queue, x)
  /\ UNCHANGED last

Read ==
  /\ queue # <<>>
  /\ last' = Head(queue)
  /\ queue' = Tail(queue)

Next == Write \/ Read

Spec == Init /\ [][Next]_vars
=============================================================================
