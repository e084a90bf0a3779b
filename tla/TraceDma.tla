------------------------------ MODULE TraceDma ------------------------------
(***************************************************************************)
(* The zero-copy trace path of the A53 firmware: the trace thread, its     *)
(* ring of AXI DMA S2MM descriptors, the dedicated NetX packet pool and    *)
(* the TCP 3402 socket (a53_app/src/main.c).                               *)
(*                                                                         *)
(* Three parties run concurrently: the trace thread (one action per step   *)
(* between two points where another party can observe it), the AXI DMA     *)
(* engine, and NetX with the client behind it.  The last two are external: *)
(* they are modelled from how the firmware programs and uses them.         *)
(*                                                                         *)
(* A DMA transfer is one numbered frame; what a packet holds is the number *)
(* of the frame last written into it.                                      *)
(***************************************************************************)
EXTENDS Naturals, Sequences

CONSTANTS
  Packets,    \* packets of trace_pool
  NoPacket,   \* NX_NULL
  BdCount,    \* TRACE_DMA_BD_COUNT
  TxQueue,    \* ORBTRACE_TRACE_TX_QUEUE, depth of the socket's transmit queue
  MaxFrames   \* bound: frames the PL produces in one behaviour

ASSUME BdCountAssumption == BdCount \in Nat \ {0, 1}
ASSUME TxQueueAssumption == TxQueue \in Nat \ {0}
ASSUME MaxFramesAssumption == MaxFrames \in Nat
ASSUME NoPacketAssumption == NoPacket \notin Packets

VARIABLES
  pc,          \* where the trace thread is
  fill,        \* loop index of trace_dma_initialize
  free,        \* packets available in trace_pool
  slots,       \* trace_dma_packet_slots
  bds,         \* trace_descriptors: buffer address and status
  consumer,    \* trace_dma_consumer
  replacement, \* local variable of trace_dma_send_completed
  packet,      \* local variable of trace_dma_send_completed
  active,      \* what gem2_set_trace_active was last called with
  dma,         \* the S2MM engine
  content,     \* frame number last written into each packet's buffer
  produced,    \* frames the PL has produced
  conn,        \* the client's view of the TCP connection
  txq,         \* packets in the socket's transmit queue
  base,        \* number of the first frame of this connection
  received     \* frames the client of this connection has got

threadVars == <<pc, fill, consumer, replacement, packet, active>>
dmaVars    == <<dma, content, produced>>
tcpVars    == <<conn, txq, base, received>>
vars == <<pc, fill, free, slots, bds, consumer, replacement, packet, active,
          dma, content, produced, conn, txq, base, received>>

Slots == 0 .. BdCount - 1
\* Mutant: the index forgets to wrap.
NextSlotNoWrap(i) == i + 1

NextSlot(i) == (i + 1) % BdCount

Bd(p, s) == [buf |-> p, status |-> s]

(***************************************************************************)
(* The statuses a descriptor can show: not complete, complete with a       *)
(* usable length, or complete with an error bit or an impossible length.   *)
(***************************************************************************)
BdStatus == {"pending", "complete", "bad"}

(***************************************************************************)
(* The S2MM engine.  state: off after a reset, resetting while CR_RESET is *)
(* pending, running, or halting once DMACR.RUN was cleared and the current *)
(* transfer still completes.  cur and tail are CURDESC and TAILDESC, idle  *)
(* is set when the descriptor at tail was processed, and xfer is the       *)
(* buffer of the transfer in progress (NoPacket between transfers).        *)
(***************************************************************************)
DmaStates == {"off", "resetting", "running", "halting", "error"}

Init ==
  /\ pc = "accept" /\ fill = 0 /\ consumer = 0 /\ active = FALSE
  /\ replacement = NoPacket /\ packet = NoPacket
  /\ free = Packets
  /\ slots = [i \in Slots |-> NoPacket]
  /\ bds = [i \in Slots |-> Bd(NoPacket, "pending")]
  /\ dma = [state |-> "off", cur |-> 0, tail |-> 0, idle |-> TRUE, xfer |-> NoPacket]
  /\ content = [p \in Packets |-> 0]
  /\ produced = 0
  /\ conn = "none" /\ txq = <<>> /\ base = 1 /\ received = <<>>

-----------------------------------------------------------------------------
(***************************************************************************)
(* The trace thread                                                        *)
(***************************************************************************)

\* nx_tcp_server_socket_accept returns; trace_dma_initialize writes CR_RESET.
AcceptClient ==
  /\ pc = "accept" /\ conn = "open"
  /\ pc' = "reset"
  /\ dma' = [dma EXCEPT !.state = "resetting"]
  /\ UNCHANGED <<fill, free, slots, bds, consumer, replacement, packet, active,
                 content, produced, tcpVars>>

\* The client gave up first: accept fails, the socket is relistened.
AcceptFailed ==
  /\ pc = "accept" /\ conn = "reset"
  /\ conn' = "none"
  /\ UNCHANGED <<threadVars, free, slots, bds, dmaVars, txq, base, received>>

\* Mutant: the ring is refilled without waiting for CR_RESET to clear.
ResetNotAwaited ==
  /\ pc = "reset"
  /\ pc' = "fill" /\ fill' = 0
  /\ UNCHANGED <<free, slots, bds, consumer, replacement, packet, active, dmaVars, tcpVars>>

\* The reset poll sees CR_RESET clear.
ResetDone ==
  /\ pc = "reset" /\ dma.state = "off"
  /\ pc' = "fill" /\ fill' = 0
  /\ UNCHANGED <<free, slots, bds, consumer, replacement, packet, active, dmaVars, tcpVars>>

\* The reset budget runs out with CR_RESET still set.
ResetTimeout ==
  /\ pc = "reset" /\ dma.state = "resetting"
  /\ pc' = "stop"
  /\ UNCHANGED <<fill, free, slots, bds, consumer, replacement, packet, active, dmaVars, tcpVars>>

\* trace_dma_rearm
Rearm(i, p) ==
  /\ bds' = [bds EXCEPT ![i] = Bd(p, "pending")]
  /\ slots' = [slots EXCEPT ![i] = p]

\* One turn of the loop that gives every descriptor a packet.  The
\* allocation waits while the pool is empty (NX_WAIT_FOREVER).
FillSlot ==
  /\ pc = "fill" /\ fill < BdCount
  /\ \E p \in free :
       /\ free' = free \ {p}
       /\ Rearm(fill, p)
  /\ fill' = fill + 1
  /\ UNCHANGED <<pc, consumer, replacement, packet, active, dmaVars, tcpVars>>

\* trace_dma_allocate_packet fails in trace_dma_initialize: the descriptor
\* was already zeroed and the slots filled so far stay for trace_dma_stop.
FillError ==
  /\ pc = "fill" /\ fill < BdCount
  /\ bds' = [bds EXCEPT ![fill] = Bd(NoPacket, "pending")]
  /\ pc' = "stop"
  /\ UNCHANGED <<fill, free, slots, consumer, replacement, packet, active, dmaVars, tcpVars>>

\* CURDESC, RUN and TAILDESC are written, the consumer index is cleared and
\* the link monitor is armed.
StartDma ==
  /\ pc = "fill" /\ fill = BdCount
  /\ dma' = [dma EXCEPT !.state = "running", !.cur = 0, !.tail = BdCount - 1, !.idle = FALSE]
  /\ consumer' = 0 /\ active' = TRUE /\ pc' = "poll"
  /\ base' = produced + 1
  /\ UNCHANGED <<fill, free, slots, bds, replacement, packet, content, produced,
                 conn, txq, received>>

\* The checks of trace_dma_send_completed that end the stream.  (Mutant
\* first: the error bits and the length are not looked at.)
RejectedOnlyNull(i) == slots[i] = NoPacket
Rejected(i) == bds[i].status = "bad" \/ slots[i] = NoPacket

\* Nothing completed: tx_thread_relinquish and poll again.
PollNotReady ==
  /\ pc = "poll" /\ bds[consumer].status = "pending"
  /\ UNCHANGED vars

\* A completed descriptor fails a check: the loop ends.
PollRejected ==
  /\ pc = "poll" /\ bds[consumer].status # "pending" /\ Rejected(consumer)
  /\ pc' = "stop" /\ active' = FALSE
  /\ UNCHANGED <<fill, free, slots, bds, consumer, replacement, packet, dmaVars, tcpVars>>

\* A completed descriptor is good: its packet gets the frame's length.
PollCompleted ==
  /\ pc = "poll" /\ bds[consumer].status # "pending" /\ ~Rejected(consumer)
  /\ pc' = "alloc"
  /\ UNCHANGED <<fill, free, slots, bds, consumer, replacement, packet, active, dmaVars, tcpVars>>

\* A replacement comes from the pool, waiting while it is empty.
AllocateReplacement ==
  /\ pc = "alloc"
  /\ \E p \in free :
       /\ free' = free \ {p}
       /\ replacement' = p
  /\ pc' = "rearm"
  /\ UNCHANGED <<fill, slots, bds, consumer, packet, active, dmaVars, tcpVars>>

\* No replacement: the slot keeps its packet and the stream ends.
AllocateError ==
  /\ pc = "alloc"
  /\ pc' = "stop" /\ active' = FALSE
  /\ UNCHANGED <<fill, free, slots, bds, consumer, replacement, packet, dmaVars, tcpVars>>

\* Mutant: the descriptor keeps the address of the packet being sent.
RearmKeepingBuffer ==
  /\ pc = "rearm"
  /\ packet' = slots[consumer]
  /\ slots' = [slots EXCEPT ![consumer] = replacement]
  /\ bds' = [bds EXCEPT ![consumer].status = "pending"]
  /\ replacement' = NoPacket
  /\ pc' = "tail"
  /\ UNCHANGED <<fill, free, consumer, active, dmaVars, tcpVars>>

\* Mutant: TAILDESC is written before the descriptor.
RearmAfterTail ==
  /\ pc = "rearm"
  /\ \/ /\ dma.tail # consumer
        /\ dma' = [dma EXCEPT !.tail = consumer, !.idle = FALSE]
        /\ UNCHANGED <<pc, packet, replacement, bds, slots>>
     \/ /\ dma.tail = consumer
        /\ packet' = slots[consumer]
        /\ Rearm(consumer, replacement)
        /\ replacement' = NoPacket
        /\ pc' = "tail"
        /\ UNCHANGED dma
  /\ UNCHANGED <<fill, free, consumer, active, content, produced, tcpVars>>

\* The completed packet leaves the slot, the replacement enters it.
RearmSlot ==
  /\ pc = "rearm"
  /\ packet' = slots[consumer]
  /\ Rearm(consumer, replacement)
  /\ replacement' = NoPacket
  /\ pc' = "tail"
  /\ UNCHANGED <<fill, free, consumer, active, dmaVars, tcpVars>>

\* Writing TAILDESC lets the engine use every descriptor up to this slot.
SetTail(i) == dma' = [dma EXCEPT !.tail = i, !.idle = FALSE]

PublishTail ==
  /\ pc = "tail"
  /\ SetTail(consumer)
  /\ consumer' = NextSlot(consumer)
  /\ pc' = "send"
  /\ UNCHANGED <<fill, free, slots, bds, replacement, packet, active, content, produced, tcpVars>>

\* nx_tcp_socket_send queues the packet, waiting while the queue is full.
SendAccepted ==
  /\ pc = "send" /\ conn = "open" /\ Len(txq) < TxQueue
  /\ txq' = Append(txq, packet)
  /\ packet' = NoPacket /\ pc' = "poll"
  /\ UNCHANGED <<fill, free, slots, bds, consumer, replacement, active, dmaVars,
                 conn, base, received>>

\* Mutant: the rejected packet is not released.
SendRejectedLeaking ==
  /\ pc = "send" /\ conn # "open"
  /\ packet' = NoPacket /\ pc' = "stop" /\ active' = FALSE
  /\ UNCHANGED <<fill, free, slots, bds, consumer, replacement, dmaVars, tcpVars>>

\* The connection is gone: the caller still owns the packet and releases it.
SendRejected ==
  /\ pc = "send" /\ conn # "open"
  /\ free' = free \cup {packet}
  /\ packet' = NoPacket /\ pc' = "stop" /\ active' = FALSE
  /\ UNCHANGED <<fill, slots, bds, consumer, replacement, dmaVars, tcpVars>>

SlotPackets == {slots[i] : i \in Slots} \ {NoPacket}

\* Mutant: the slots still name the packets that were released.
StopKeepingSlots ==
  /\ pc = "stop"
  /\ dma' = [dma EXCEPT !.state = IF @ = "off" THEN "off" ELSE "halting"]
  /\ free' = free \cup SlotPackets
  /\ pc' = "close"
  /\ UNCHANGED <<fill, slots, bds, consumer, replacement, packet, active, content,
                 produced, tcpVars>>

\* trace_dma_stop clears DMACR.RUN, without waiting for DMASR.HALTED, and
\* releases every packet the slots still hold.
StopDma ==
  /\ pc = "stop"
  /\ dma' = [dma EXCEPT !.state = IF @ = "off" THEN "off" ELSE "halting"]
  /\ free' = free \cup SlotPackets
  /\ slots' = [i \in Slots |-> NoPacket]
  /\ pc' = "close"
  /\ UNCHANGED <<fill, bds, consumer, replacement, packet, active, content, produced, tcpVars>>

QueuedPackets == {txq[i] : i \in 1 .. Len(txq)}

\* disconnect without waiting, unaccept and relisten: the transmit queue is
\* flushed back to the pool and the thread waits for the next client.
CloseConnection ==
  /\ pc = "close"
  /\ free' = free \cup QueuedPackets
  /\ txq' = <<>> /\ conn' = "none" /\ received' = <<>>
  /\ pc' = "accept"
  /\ UNCHANGED <<fill, slots, bds, consumer, replacement, packet, active, dmaVars, base>>

ThreadStep ==
  \/ AcceptClient \/ AcceptFailed \/ ResetDone \/ ResetTimeout
  \/ FillSlot \/ StartDma
  \/ PollNotReady \/ PollRejected \/ PollCompleted
  \/ AllocateReplacement
  \/ RearmSlot \/ PublishTail \/ SendAccepted \/ SendRejected
  \/ StopDma \/ CloseConnection

TraceThread == ThreadStep \/ FillError \/ AllocateError

-----------------------------------------------------------------------------
(***************************************************************************)
(* The AXI DMA engine (external)                                           *)
(***************************************************************************)

\* It fetches the descriptor at cur and starts to fill that buffer.  One whose
\* complete bit is still set it cannot use; DmaWritesItsSlot says that it never
\* meets one.
DmaFetch ==
  /\ dma.state = "running" /\ ~dma.idle /\ dma.xfer = NoPacket
  /\ produced < MaxFrames
  /\ bds[dma.cur].status = "pending"
  /\ dma' = [dma EXCEPT !.xfer = bds[dma.cur].buf]
  /\ UNCHANGED <<threadVars, free, slots, bds, content, produced, tcpVars>>

\* It finishes the transfer, writes the descriptor's status and moves on,
\* going idle after the descriptor at tail.  A halting or resetting engine
\* finishes the transfer it had started.
DmaComplete ==
  /\ dma.xfer # NoPacket
  /\ content' = [content EXCEPT ![dma.xfer] = produced + 1]
  /\ produced' = produced + 1
  /\ bds' = [bds EXCEPT ![dma.cur].status = "complete"]
  /\ dma' = [dma EXCEPT !.xfer = NoPacket, !.cur = NextSlot(@), !.idle = (@ \/ dma.cur = dma.tail)]
  /\ UNCHANGED <<threadVars, free, slots, tcpVars>>

\* A transfer fails: the status shows it and the engine stops by itself.
DmaFault ==
  /\ dma.state = "running" /\ dma.xfer # NoPacket
  /\ bds' = [bds EXCEPT ![dma.cur].status = "bad"]
  /\ dma' = [dma EXCEPT !.xfer = NoPacket, !.state = "error"]
  /\ UNCHANGED <<threadVars, free, slots, content, produced, tcpVars>>

\* CR_RESET clears once no transfer is in progress; a cleared RUN bit halts.
DmaSettle ==
  /\ dma.state \in {"resetting", "halting"} /\ dma.xfer = NoPacket
  /\ dma' = [dma EXCEPT !.state = "off", !.idle = TRUE]
  /\ UNCHANGED <<threadVars, free, slots, bds, content, produced, tcpVars>>

Engine == DmaFetch \/ DmaComplete \/ DmaFault \/ DmaSettle

-----------------------------------------------------------------------------
(***************************************************************************)
(* NetX and the client (external)                                          *)
(***************************************************************************)

ClientConnect ==
  /\ pc = "accept" /\ conn = "none"
  /\ conn' = "open"
  /\ UNCHANGED <<threadVars, free, slots, bds, dmaVars, txq, base, received>>

\* The client acknowledges the oldest queued packet; NetX releases it.
ClientAck ==
  /\ conn = "open" /\ txq # <<>>
  /\ received' = Append(received, content[Head(txq)])
  /\ free' = free \cup {Head(txq)}
  /\ txq' = Tail(txq)
  /\ UNCHANGED <<threadVars, slots, bds, dmaVars, conn, base>>

\* A reset from the client, or retries exhausted: NetX flushes the queue.
ClientReset ==
  /\ conn = "open"
  /\ conn' = "reset"
  /\ free' = free \cup QueuedPackets
  /\ txq' = <<>>
  /\ UNCHANGED <<threadVars, slots, bds, dmaVars, base, received>>

Network == ClientConnect \/ ClientAck \/ ClientReset

Next == TraceThread \/ Engine \/ Network

(***************************************************************************)
(* ThreadX keeps running the trace thread (the higher-priority threads     *)
(* wait for the network), an allocation from an empty pool waits rather    *)
(* than fails (so no fairness on the failures), the engine finishes a      *)
(* transfer it started and settles, and a queued packet is either          *)
(* acknowledged or, after NX_TCP_MAXIMUM_RETRIES, the connection dropped.  *)
(***************************************************************************)
Fairness ==
  /\ WF_vars(ThreadStep)
  /\ WF_vars(DmaComplete \/ DmaSettle)
  /\ WF_vars(txq # <<>> /\ (ClientAck \/ ClientReset))

Spec == Init /\ [][Next]_vars
FairSpec == Spec /\ Fairness

-----------------------------------------------------------------------------
(***************************************************************************)
(* Properties                                                              *)
(***************************************************************************)
OptPacket == Packets \cup {NoPacket}
PcValues == {"accept", "reset", "fill", "poll", "alloc", "rearm", "tail",
             "send", "stop", "close"}

\* Type invariant of the thread, the ring, the engine and the socket.
TypeOK ==
  /\ pc \in PcValues
  /\ fill \in 0 .. BdCount
  /\ free \subseteq Packets
  /\ slots \in [Slots -> OptPacket]
  /\ bds \in [Slots -> [buf : OptPacket, status : BdStatus]]
  /\ consumer \in Slots
  /\ replacement \in OptPacket
  /\ packet \in OptPacket
  /\ active \in BOOLEAN
  /\ dma \in [state : DmaStates, cur : Slots, tail : Slots,
              idle : BOOLEAN, xfer : OptPacket]
  /\ content \in [Packets -> Nat]
  /\ produced \in Nat
  /\ conn \in {"none", "open", "reset"}
  /\ txq \in Seq(Packets)
  /\ base \in Nat
  /\ received \in Seq(Nat)

Held == {replacement, packet} \ {NoPacket}

\* No two places own the same packet: the pool, the slots, the locals of
\* trace_dma_send_completed and the transmit queue never overlap, and no
\* packet is in two slots or twice in the queue.
ExclusiveOwnership ==
  /\ free \cap (SlotPackets \cup Held \cup QueuedPackets) = {}
  /\ SlotPackets \cap (Held \cup QueuedPackets) = {}
  /\ Held \cap QueuedPackets = {}
  /\ replacement # NoPacket => replacement # packet
  /\ \A i, j \in Slots : slots[i] # NoPacket /\ slots[i] = slots[j] => i = j
  /\ \A i, j \in 1 .. Len(txq) : txq[i] = txq[j] => i = j

\* No packet is lost on any path, the error paths included: what the ring,
\* the locals and the socket do not own is back in trace_pool.
NoPacketLeak ==
  Packets = free \cup SlotPackets \cup Held \cup QueuedPackets

\* The engine never writes a packet that TCP or the thread owns: stopping
\* does not wait for DMASR.HALTED, so a late write must land in a packet
\* that nobody has taken out of the pool yet.
DmaNeverWritesSentPacket ==
  dma.xfer # NoPacket => dma.xfer \notin Held \cup QueuedPackets

\* Stronger while streaming: the buffer being filled is the one the slot of
\* the current descriptor owns.  And TAILDESC never lets the engine get to a
\* descriptor that has not been rearmed, however far it is ahead.
DmaWritesItsSlot ==
  dma.state = "running" =>
    /\ dma.xfer # NoPacket => dma.xfer = slots[dma.cur]
    /\ ~dma.idle => bds[dma.cur].status = "pending"

\* The client of a connection gets the frames in order, with no gap, no
\* duplicate and no overwritten frame, from the first one captured for it.
FramesInOrder ==
  \A i \in 1 .. Len(received) : received[i] = base + i - 1

\* The thread never waits forever for a packet, for room in the transmit
\* queue or for the engine's reset: it gets back to polling or accepting.
ThreadNeverStuck == (pc # "poll") ~> (pc \in {"poll", "accept"})
=============================================================================
