------------------------------ MODULE Scheduler ------------------------------
(***************************************************************************)
(* The five ThreadX threads of the A53 firmware on one core: the NetX IP   *)
(* thread, the control and DAP services with the spinlock of ffi.rs around *)
(* every feed, the trace loop and the diagnostics thread (main.c).         *)
(*                                                                         *)
(* ThreadX runs the first thread of the most urgent non-empty ready list;  *)
(* nothing is time-sliced, so a thread loses the core only to a more       *)
(* urgent one, by blocking, or to an equal one by relinquishing.  Each     *)
(* action of a thread is guarded by its being the running one; interrupts  *)
(* may come between any two.                                               *)
(***************************************************************************)
EXTENDS Naturals, Sequences, FiniteSets

CONSTANTS
  SleepEvery,  \* 4096: completed transfers between two sleeps of the trace loop
  TxQueue,     \* ORBTRACE_TRACE_TX_QUEUE
  FeedSteps,   \* register accesses of one feed call
  MaxFrames,   \* bound: completed descriptors waiting for the trace loop
  MaxRequests  \* bound: requests to the services in one behaviour

ASSUME SleepEveryAssumption == SleepEvery \in Nat \ {0}
ASSUME SizesAssumption == TxQueue \in Nat \ {0} /\ FeedSteps \in Nat \ {0} /\ MaxFrames \in Nat \ {0} /\ MaxRequests \in Nat

Services == {"control", "dap"}
Threads == {"ip", "trace", "diag"} \cup Services

\* Mutant: the two services do not have the same priority.
PriorityDapLast(t) ==
  CASE t = "ip" -> 1 [] t = "control" -> 2 [] t = "dap" -> 3 [] t = "trace" -> 4 [] t = "diag" -> 5

\* The priorities of tx_application_define; 1 is the most urgent.
Priority(t) ==
  CASE t = "ip" -> 1 [] t \in Services -> 2 [] t = "trace" -> 3 [] t = "diag" -> 4

Levels == 1 .. 5

VARIABLES
  ready,    \* ThreadX ready lists, one sequence of threads per priority
  pc,       \* where each thread is
  lock,     \* who holds LOCK of ffi.rs, "none" if nobody
  work,     \* register accesses left in the feed call of each service
  requests, \* services with a request waiting in their socket
  arrived,  \* requests so far
  frames,   \* completed descriptors the trace loop has not seen
  queued,   \* packets in the trace socket's transmit queue
  count     \* completed_since_sleep

vars == <<ready, pc, lock, work, requests, arrived, frames, queued, count>>

IsReady(t) == \E p \in Levels : \E i \in 1 .. Len(ready[p]) : ready[p][i] = t

Running(t) ==
  /\ ready[Priority(t)] # <<>> /\ Head(ready[Priority(t)]) = t
  /\ \A p \in 1 .. Priority(t) - 1 : ready[p] = <<>>

\* The running thread t blocks (it is at the head of its list).
Block(t) == [ready EXCEPT ![Priority(t)] = Tail(@)]

\* Thread t becomes ready: it joins the end of its list.
Wake(r, t) == [r EXCEPT ![Priority(t)] = Append(@, t)]

\* tx_thread_relinquish: t goes behind the threads of its own priority.
Relinquish(t) == [ready EXCEPT ![Priority(t)] = Append(Tail(@), t)]

Goto(t, where) == pc' = [pc EXCEPT ![t] = where]

\* Every thread has started, and waits for its first event.
Init ==
  /\ ready = [p \in Levels |-> <<>>]
  /\ pc = [t \in Threads |-> CASE t = "ip" -> "idle" [] t \in Services -> "receive"
                               [] t = "trace" -> "accept" [] t = "diag" -> "sleep"]
  /\ lock = "none" /\ work = [t \in Services |-> 0] /\ requests = {} /\ arrived = 0
  /\ frames = 0 /\ queued = 0 /\ count = 0

-----------------------------------------------------------------------------
(***************************************************************************)
(* The control and DAP threads                                             *)
(***************************************************************************)

\* nx_tcp_socket_receive: a waiting packet is taken, or the thread blocks.
ReceiveRequest(t) ==
  /\ Running(t) /\ pc[t] = "receive" /\ t \in requests
  /\ requests' = requests \ {t}
  /\ Goto(t, "lock")
  /\ UNCHANGED <<ready, lock, work, arrived, frames, queued, count>>

ReceiveBlocks(t) ==
  /\ Running(t) /\ pc[t] = "receive" /\ t \notin requests
  /\ ready' = Block(t)
  /\ UNCHANGED <<pc, lock, work, requests, arrived, frames, queued, count>>

\* compare_exchange_weak succeeds.  When it fails the thread would spin here
\* without giving up the core: NobodySpins says this never happens.
AcquireLock(t) ==
  /\ Running(t) /\ pc[t] = "lock" /\ lock = "none"
  /\ lock' = t
  /\ work' = [work EXCEPT ![t] = FeedSteps]
  /\ Goto(t, "feed")
  /\ UNCHANGED <<ready, requests, arrived, frames, queued, count>>

\* A register access of Controller::command or a mailbox poll of
\* dap_exchange (bounded by its poll budget): feed never blocks.
FeedStep(t) ==
  /\ Running(t) /\ pc[t] = "feed" /\ work[t] > 0
  /\ work' = [work EXCEPT ![t] = @ - 1]
  /\ UNCHANGED <<ready, pc, lock, requests, arrived, frames, queued, count>>

\* Mutant: the guard lives on until the reply was sent.
ReleaseLockLate(t) ==
  /\ Running(t) /\ pc[t] = "feed" /\ work[t] = 0
  /\ Goto(t, "send")
  /\ UNCHANGED <<ready, lock, work, requests, arrived, frames, queued, count>>

\* The guard is dropped when the feed call returns.
ReleaseLock(t) ==
  /\ Running(t) /\ pc[t] = "feed" /\ work[t] = 0
  /\ lock' = "none"
  /\ Goto(t, "send")
  /\ UNCHANGED <<ready, work, requests, arrived, frames, queued, count>>

\* The reply is sent at once, or the thread waits for a packet or for room
\* in the transmit window.
SendReply(t) ==
  /\ Running(t) /\ pc[t] = "send"
  /\ \/ Goto(t, "receive") /\ UNCHANGED ready
     \/ Goto(t, "sendwait") /\ ready' = Block(t)
  /\ UNCHANGED <<lock, work, requests, arrived, frames, queued, count>>

Service(t) ==
  \/ ReceiveRequest(t) \/ ReceiveBlocks(t) \/ AcquireLock(t)
  \/ FeedStep(t) \/ ReleaseLock(t) \/ SendReply(t)

-----------------------------------------------------------------------------
(***************************************************************************)
(* The trace thread                                                        *)
(***************************************************************************)

\* Nothing completed: the loop relinquishes, to threads of its own priority
\* only.
PollEmpty ==
  /\ Running("trace") /\ pc["trace"] = "poll" /\ frames = 0
  /\ ready' = Relinquish("trace")
  /\ UNCHANGED <<pc, lock, work, requests, arrived, frames, queued, count>>

PollFrame ==
  /\ Running("trace") /\ pc["trace"] = "poll" /\ frames > 0
  /\ frames' = frames - 1
  /\ Goto("trace", "send")
  /\ UNCHANGED <<ready, lock, work, requests, arrived, queued, count>>

\* nx_tcp_socket_send waits while the transmit queue is full.
SendBlocks ==
  /\ Running("trace") /\ pc["trace"] = "send" /\ queued = TxQueue
  /\ ready' = Block("trace")
  /\ Goto("trace", "sendwait")
  /\ UNCHANGED <<lock, work, requests, arrived, frames, queued, count>>

\* Mutant: the count starts again but the thread does not sleep.
SendFrameNoSleep ==
  /\ Running("trace") /\ pc["trace"] = "send" /\ queued < TxQueue
  /\ queued' = queued + 1
  /\ count' = (count + 1) % SleepEvery
  /\ Goto("trace", "poll")
  /\ UNCHANGED <<ready, lock, work, requests, arrived, frames>>

\* The frame is queued; after SleepEvery of them the loop sleeps one tick.
SendFrame ==
  /\ Running("trace") /\ pc["trace"] = "send" /\ queued < TxQueue
  /\ queued' = queued + 1
  /\ \/ /\ count + 1 < SleepEvery
        /\ count' = count + 1
        /\ Goto("trace", "poll")
        /\ UNCHANGED ready
     \/ /\ count + 1 >= SleepEvery
        /\ count' = 0
        /\ Goto("trace", "sleep")
        /\ ready' = Block("trace")
  /\ UNCHANGED <<lock, work, requests, arrived, frames>>

\* The stream ends on an error (the connection is gone): the thread waits
\* for the next client.
StreamEnds ==
  /\ Running("trace") /\ pc["trace"] = "closing"
  /\ ready' = Block("trace")
  /\ Goto("trace", "accept")
  /\ queued' = 0 /\ frames' = 0
  /\ UNCHANGED <<lock, work, requests, arrived, count>>

\* A client was accepted: trace_dma_initialize, completed_since_sleep = 0.
StreamStarts ==
  /\ Running("trace") /\ pc["trace"] = "start"
  /\ count' = 0
  /\ Goto("trace", "poll")
  /\ UNCHANGED <<ready, lock, work, requests, arrived, frames, queued>>

Trace == PollEmpty \/ PollFrame \/ SendBlocks \/ SendFrame \/ StreamEnds \/ StreamStarts

-----------------------------------------------------------------------------
(***************************************************************************)
(* The diagnostics thread: recovery and telemetry, then sleep again        *)
(***************************************************************************)
DiagWork ==
  /\ Running("diag") /\ pc["diag"] = "work"
  /\ Goto("diag", "sleep")
  /\ ready' = Block("diag")
  /\ UNCHANGED <<lock, work, requests, arrived, frames, queued, count>>

-----------------------------------------------------------------------------
(***************************************************************************)
(* The IP thread and the interrupts (external)                             *)
(***************************************************************************)

\* The GEM interrupt wakes the IP thread.
NetworkInterrupt ==
  /\ pc["ip"] = "idle"
  /\ Goto("ip", "work") /\ ready' = Wake(ready, "ip")
  /\ UNCHANGED <<lock, work, requests, arrived, frames, queued, count>>

\* The IP thread deals with what arrived and waits again.  It wakes at most
\* one thread: a service (a request arrived, or its reply could be sent) or
\* the trace thread (a client connected, frames were acknowledged, or the
\* connection was reset).
IpDone(r) == ready' = [r EXCEPT ![1] = Tail(@)]

IpDelivers ==
  /\ Running("ip") /\ pc["ip"] = "work"
  /\ arrived < MaxRequests /\ arrived' = arrived + 1
  /\ \E t \in Services :
       /\ requests' = requests \cup {t}
       /\ IpDone(IF pc[t] = "receive" /\ ~IsReady(t) THEN Wake(ready, t) ELSE ready)
  /\ Goto("ip", "idle")
  /\ UNCHANGED <<lock, work, frames, queued, count>>

IpUnblocksReply ==
  /\ Running("ip") /\ pc["ip"] = "work"
  /\ \E t \in Services :
       /\ pc[t] = "sendwait"
       /\ pc' = [pc EXCEPT ![t] = "receive", !["ip"] = "idle"]
       /\ IpDone(Wake(ready, t))
  /\ UNCHANGED <<lock, work, requests, arrived, frames, queued, count>>

IpConnects ==
  /\ Running("ip") /\ pc["ip"] = "work" /\ pc["trace"] = "accept"
  /\ pc' = [pc EXCEPT !["trace"] = "start", !["ip"] = "idle"]
  /\ IpDone(Wake(ready, "trace"))
  /\ UNCHANGED <<lock, work, requests, arrived, frames, queued, count>>

IpAcks ==
  /\ Running("ip") /\ pc["ip"] = "work" /\ queued > 0
  /\ queued' = queued - 1
  /\ IF pc["trace"] = "sendwait"
       THEN /\ pc' = [pc EXCEPT !["trace"] = "send", !["ip"] = "idle"]
            /\ IpDone(Wake(ready, "trace"))
       ELSE Goto("ip", "idle") /\ IpDone(ready)
  /\ UNCHANGED <<lock, work, requests, arrived, frames, count>>

\* A reset is noticed by the send that is waiting or comes next.
IpResets ==
  /\ Running("ip") /\ pc["ip"] = "work" /\ pc["trace"] \in {"send", "sendwait"}
  /\ pc' = [pc EXCEPT !["trace"] = "closing", !["ip"] = "idle"]
  /\ IpDone(IF pc["trace"] = "sendwait" THEN Wake(ready, "trace") ELSE ready)
  /\ UNCHANGED <<lock, work, requests, arrived, frames, queued, count>>

\* Nothing for these threads (ARP, a duplicate, a transmit completion).
IpNothing ==
  /\ Running("ip") /\ pc["ip"] = "work"
  /\ Goto("ip", "idle") /\ IpDone(ready)
  /\ UNCHANGED <<lock, work, requests, arrived, frames, queued, count>>

Ip == IpNothing \/ IpDelivers \/ IpUnblocksReply \/ IpConnects \/ IpAcks \/ IpResets

\* A timer tick wakes the trace loop and, when its second is over, diag.
TickTrace ==
  /\ pc["trace"] = "sleep"
  /\ Goto("trace", "poll") /\ ready' = Wake(ready, "trace")
  /\ UNCHANGED <<lock, work, requests, arrived, frames, queued, count>>

TickDiag ==
  /\ pc["diag"] = "sleep"
  /\ Goto("diag", "work") /\ ready' = Wake(ready, "diag")
  /\ UNCHANGED <<lock, work, requests, arrived, frames, queued, count>>

\* The DMA engine completes a descriptor.
DmaCompletes ==
  /\ pc["trace"] \in {"poll", "send", "sendwait", "sleep"} /\ frames < MaxFrames
  /\ frames' = frames + 1
  /\ UNCHANGED <<ready, pc, lock, work, requests, arrived, queued, count>>

Next ==
  \/ \E t \in Services : Service(t)
  \/ Trace \/ DiagWork \/ Ip
  \/ NetworkInterrupt \/ TickTrace \/ TickDiag \/ DmaCompletes

(***************************************************************************)
(* Interrupts and the IP thread do not eat the whole core, so a thread     *)
(* that is again and again the running one gets on (strong fairness), and  *)
(* neither do the services (MaxRequests is finite);                        *)
(* ticks keep coming, the IP thread's work ends, and what a blocked send   *)
(* waits for arrives.  Whether frames keep coming is up to the trace       *)
(* source.                                                                 *)
(***************************************************************************)
Fairness ==
  /\ \A t \in Services : SF_vars(Service(t))
  /\ SF_vars(Trace) /\ SF_vars(DiagWork)
  /\ WF_vars(Ip) /\ SF_vars(IpUnblocksReply) /\ SF_vars(IpAcks)
  /\ WF_vars(NetworkInterrupt)
  /\ WF_vars(TickTrace) /\ WF_vars(TickDiag)

Spec == Init /\ [][Next]_vars
FairSpec == Spec /\ Fairness

\* A trace source that keeps producing frames.
BusySpec == FairSpec /\ SF_vars(DmaCompletes)

-----------------------------------------------------------------------------
(***************************************************************************)
(* Properties                                                              *)
(***************************************************************************)
\* The reason tx_application_define gives for equal priorities: a thread
\* that wants the spinlock always finds it free, so nobody spins on a lock
\* whose holder cannot run.
NobodySpins == \A t \in Services : Running(t) /\ pc[t] = "lock" => lock = "none"

\* Every request is served: a service that took one gets back to receiving.
RequestsServed == \A t \in Services : (pc[t] = "lock") ~> (pc[t] = "receive")

\* The recovery and telemetry work of the diagnostics thread gets its turn
\* again and again: true under BusySpec, but not under FairSpec, since a trace
\* loop that finds nothing relinquishes without ever sleeping.
MaintenanceRuns == (pc["diag"] = "work") ~> (pc["diag"] = "sleep")
=============================================================================
