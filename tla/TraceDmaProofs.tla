--------------------------- MODULE TraceDmaProofs ---------------------------
(***************************************************************************)
(* Proofs about TraceDma, for every number of packets and descriptors and  *)
(* every depth of the transmit queue.                                      *)
(***************************************************************************)
EXTENDS TraceDma, TLAPS

Streaming == {"poll", "alloc", "rearm", "tail", "send"}

(***************************************************************************)
(* What the position of the trace thread says of its locals, of the slots  *)
(* and of the engine.                                                      *)
(***************************************************************************)
ThreadInv ==
  /\ replacement # NoPacket <=> pc = "rearm"
  /\ packet # NoPacket <=> pc \in {"tail", "send"}
  /\ pc \in {"accept", "reset", "close"} => \A i \in Slots : slots[i] = NoPacket
  /\ pc = "fill" => \A i \in Slots : slots[i] # NoPacket => i < fill
  /\ pc \in Streaming => \A i \in Slots : slots[i] # NoPacket /\ bds[i].buf = slots[i]
  /\ pc = "fill" => \A i \in Slots : i < fill => slots[i] # NoPacket /\ bds[i].buf = slots[i]
  /\ pc \in {"alloc", "rearm"} => bds[consumer].status # "pending"

EngineInv ==
  /\ pc \in {"accept", "close"} => dma.state \in {"off", "halting"}
  /\ pc = "reset" => dma.state \in {"off", "resetting"}
  /\ pc = "fill" => dma.state = "off"
  /\ pc \in Streaming => dma.state \in {"running", "error"}
  /\ pc = "stop" => dma.state # "halting"
  /\ dma.state = "running" => \A i \in Slots : slots[i] # NoPacket /\ bds[i].buf = slots[i]
  /\ dma.state \in {"off", "error"} => dma.xfer = NoPacket
  /\ dma.state = "running" /\ dma.xfer # NoPacket =>
       dma.xfer = slots[dma.cur] /\ bds[dma.cur].status = "pending"
  /\ dma.state \in {"resetting", "halting"} /\ dma.xfer # NoPacket => dma.xfer \in free

\* The values of the engine's record, as in TypeOK.
DmaType == [state : DmaStates, cur : Slots, tail : Slots, idle : BOOLEAN, xfer : OptPacket]

\* The inductive invariant.
IInv == TypeOK /\ ThreadInv /\ EngineInv /\ ExclusiveOwnership /\ NoPacketLeak

-----------------------------------------------------------------------------
LEMMA NextSlotType == ASSUME NEW i \in Slots PROVE NextSlot(i) \in Slots
  BY BdCountAssumption DEF NextSlot, Slots

LEMMA SlotEnds == 0 \in Slots /\ BdCount - 1 \in Slots /\ 0 \in 0 .. BdCount
  BY BdCountAssumption DEF Slots

\* The initial state satisfies the invariant: the whole pool is free.
LEMMA InitInv == Init => IInv
<1> SUFFICES ASSUME Init PROVE IInv
  OBVIOUS
<1>1. TypeOK
  <2>1. dma \in DmaType
    BY SlotEnds DEF Init, DmaType, OptPacket, DmaStates
  <2>2. bds \in [Slots -> [buf : OptPacket, status : BdStatus]]
    BY DEF Init, OptPacket, Bd, BdStatus
  <2>3. consumer \in Slots /\ fill \in 0 .. BdCount
    BY SlotEnds DEF Init
  <2> QED
    BY <2>1, <2>2, <2>3 DEF Init, TypeOK, DmaType, OptPacket, PcValues
<1>2. ThreadInv
  BY DEF Init, ThreadInv, Streaming
<1>3. EngineInv
  BY DEF Init, EngineInv, Streaming
<1>4. SlotPackets = {} /\ Held = {} /\ QueuedPackets = {}
  BY DEF Init, SlotPackets, Held, QueuedPackets
<1>5. ExclusiveOwnership /\ NoPacketLeak
  BY <1>4 DEF Init, ExclusiveOwnership, NoPacketLeak
<1> QED
  BY <1>1, <1>2, <1>3, <1>5 DEF IInv

-----------------------------------------------------------------------------
\* Types are preserved by every step.
LEMMA TypeStep == TypeOK /\ ThreadInv /\ [Next]_vars => TypeOK'
<1> SUFFICES ASSUME TypeOK, ThreadInv, [Next]_vars PROVE TypeOK'
  OBVIOUS
<1> USE DEF TypeOK, OptPacket, PcValues
<1>1. CASE UNCHANGED vars
  BY <1>1 DEF vars
<1>2. CASE AcceptClient
  BY <1>2 DEF AcceptClient, DmaStates, tcpVars
<1>3. CASE AcceptFailed
  BY <1>3 DEF AcceptFailed, threadVars, dmaVars
<1>4. CASE ResetDone
  BY <1>4, SlotEnds DEF ResetDone, dmaVars, tcpVars
<1>5. CASE ResetTimeout
  BY <1>5 DEF ResetTimeout, dmaVars, tcpVars
<1>6. CASE FillSlot
  <2>1. fill \in Slots /\ fill + 1 \in 0 .. BdCount
    BY <1>6, BdCountAssumption DEF FillSlot, Slots
  <2> QED
    BY <1>6, <2>1 DEF FillSlot, Rearm, Bd, BdStatus, dmaVars, tcpVars
<1>7. CASE FillError
  <2>1. fill \in Slots
    BY <1>7, BdCountAssumption DEF FillError, Slots
  <2> QED
    BY <1>7, <2>1 DEF FillError, Bd, BdStatus, dmaVars, tcpVars
<1>8. CASE StartDma
  <2>1. dma' \in DmaType
    BY <1>8, SlotEnds DEF StartDma, DmaType, DmaStates
  <2> QED
    BY <1>8, <2>1, SlotEnds DEF StartDma, DmaType
<1>9. CASE PollNotReady
  BY <1>9 DEF PollNotReady, vars
<1>10. CASE PollRejected
  BY <1>10 DEF PollRejected, dmaVars, tcpVars
<1>11. CASE PollCompleted
  BY <1>11 DEF PollCompleted, dmaVars, tcpVars
<1>12. CASE AllocateReplacement
  BY <1>12 DEF AllocateReplacement, dmaVars, tcpVars
<1>13. CASE AllocateError
  BY <1>13 DEF AllocateError, dmaVars, tcpVars
<1>14. CASE RearmSlot
  BY <1>14 DEF RearmSlot, Rearm, Bd, BdStatus, dmaVars, tcpVars
<1>15. CASE PublishTail
  BY <1>15, NextSlotType DEF PublishTail, SetTail, tcpVars
<1>16. CASE SendAccepted
  <2>1. packet \in Packets
    BY <1>16 DEF SendAccepted, ThreadInv
  <2> QED
    BY <1>16, <2>1 DEF SendAccepted, dmaVars
<1>17. CASE SendRejected
  <2>1. packet \in Packets
    BY <1>17 DEF SendRejected, ThreadInv
  <2> QED
    BY <1>17, <2>1 DEF SendRejected, dmaVars, tcpVars
<1>18. CASE StopDma
  BY <1>18 DEF StopDma, SlotPackets, DmaStates, tcpVars
<1>19. CASE CloseConnection
  BY <1>19 DEF CloseConnection, QueuedPackets, dmaVars
<1>20. CASE DmaFetch
  BY <1>20 DEF DmaFetch, threadVars, tcpVars
<1>21. CASE DmaComplete
  <2>1. dma' \in DmaType
    BY <1>21, NextSlotType DEF DmaComplete, DmaType
  <2>2. bds' \in [Slots -> [buf : OptPacket, status : BdStatus]]
    BY <1>21 DEF DmaComplete, BdStatus
  <2> QED
    BY <1>21, <2>1, <2>2 DEF DmaComplete, DmaType, threadVars, tcpVars
<1>22. CASE DmaFault
  BY <1>22 DEF DmaFault, DmaStates, BdStatus, threadVars, tcpVars
<1>23. CASE DmaSettle
  BY <1>23 DEF DmaSettle, DmaStates, threadVars, tcpVars
<1>24. CASE ClientConnect
  BY <1>24 DEF ClientConnect, threadVars, dmaVars
<1>25. CASE ClientAck
  BY <1>25 DEF ClientAck, threadVars, dmaVars
<1>26. CASE ClientReset
  BY <1>26 DEF ClientReset, QueuedPackets, threadVars, dmaVars
<1> QED
  BY <1>1, <1>2, <1>3, <1>4, <1>5, <1>6, <1>7, <1>8, <1>9, <1>10, <1>11, <1>12, <1>13,
     <1>14, <1>15, <1>16, <1>17, <1>18, <1>19, <1>20, <1>21, <1>22, <1>23, <1>24, <1>25,
     <1>26
  DEF Next, TraceThread, ThreadStep, Engine, Network

\* What the thread's position says is preserved by every step.
LEMMA ThreadInvStep == TypeOK /\ ThreadInv /\ [Next]_vars => ThreadInv'
<1> SUFFICES ASSUME TypeOK, ThreadInv, [Next]_vars PROVE ThreadInv'
  OBVIOUS
<1> USE NoPacketAssumption DEF ThreadInv, Streaming
<1>1. CASE UNCHANGED vars
  BY <1>1 DEF vars
<1>2. CASE AcceptClient \/ AcceptFailed
  BY <1>2 DEF AcceptClient, AcceptFailed, threadVars
<1>3. CASE ResetDone \/ ResetTimeout
  BY <1>3 DEF ResetDone, ResetTimeout, Slots
<1>4. CASE FillSlot
  <2>1. fill \in Nat /\ (\A i \in Slots : i \in Nat)
    BY DEF TypeOK, Slots
  <2>2. PICK p \in free : Rearm(fill, p)
    BY <1>4 DEF FillSlot
  <2> QED
    BY <1>4, <2>1 DEF FillSlot, Rearm, Bd, TypeOK
<1>5. CASE FillError
  BY <1>5 DEF FillError
<1>6. CASE StartDma
  BY <1>6, BdCountAssumption DEF StartDma, Slots
<1>7. CASE PollNotReady \/ PollRejected \/ PollCompleted
  BY <1>7 DEF PollNotReady, PollRejected, PollCompleted, vars
<1>8. CASE AllocateReplacement \/ AllocateError
  BY <1>8 DEF AllocateReplacement, AllocateError, TypeOK
<1>9. CASE RearmSlot
  BY <1>9 DEF RearmSlot, Rearm, Bd, TypeOK
<1>10. CASE PublishTail
  BY <1>10 DEF PublishTail
<1>11. CASE SendAccepted \/ SendRejected
  BY <1>11 DEF SendAccepted, SendRejected
<1>12. CASE StopDma
  BY <1>12 DEF StopDma
<1>13. CASE CloseConnection
  BY <1>13 DEF CloseConnection
<1>14. CASE DmaComplete \/ DmaFault
  <2>1. \A i \in Slots : /\ bds'[i].buf = bds[i].buf
                         /\ bds[i].status # "pending" => bds'[i].status # "pending"
    <3>1. CASE DmaComplete
      BY <3>1 DEF DmaComplete, TypeOK
    <3>2. CASE DmaFault
      BY <3>2 DEF DmaFault, TypeOK
    <3> QED
      BY <1>14, <3>1, <3>2
  <2>2. UNCHANGED <<threadVars, slots>>
    BY <1>14 DEF DmaComplete, DmaFault
  <2> QED
    BY <2>1, <2>2 DEF threadVars, TypeOK
<1>15. CASE DmaFetch \/ DmaSettle
  BY <1>15 DEF DmaFetch, DmaSettle, threadVars
<1>16. CASE Network
  BY <1>16 DEF Network, ClientConnect, ClientAck, ClientReset, threadVars
<1> QED
  BY <1>1, <1>2, <1>3, <1>4, <1>5, <1>6, <1>7, <1>8, <1>9, <1>10, <1>11, <1>12, <1>13,
     <1>14, <1>15, <1>16
  DEF Next, TraceThread, ThreadStep, Engine

\* Where the engine may be writing is preserved by every step: StopDma
\* leaves a transfer in a released packet, and only a settled engine lets
\* the thread allocate again.
LEMMA EngineInvStep == TypeOK /\ ThreadInv /\ EngineInv /\ [Next]_vars => EngineInv'
<1> SUFFICES ASSUME TypeOK, ThreadInv, EngineInv, [Next]_vars PROVE EngineInv'
  OBVIOUS
<1> USE DEF EngineInv, Streaming
<1>0. dma \in DmaType
  BY DEF TypeOK, DmaType
<1>1. CASE UNCHANGED vars
  BY <1>1 DEF vars
<1>2. CASE AcceptClient
  BY <1>0, <1>2 DEF AcceptClient, DmaType
<1>3. CASE AcceptFailed
  BY <1>3 DEF AcceptFailed, threadVars, dmaVars
<1>4. CASE ResetDone \/ ResetTimeout
  BY <1>4 DEF ResetDone, ResetTimeout, dmaVars
<1>5. CASE FillSlot \/ FillError
  BY <1>5 DEF FillSlot, FillError, dmaVars
<1>6. CASE StartDma
  <2>1. \A i \in Slots : i < fill
    BY <1>6, BdCountAssumption DEF StartDma, Slots
  <2> QED
    BY <1>0, <1>6, <2>1 DEF StartDma, DmaType, ThreadInv
<1>7. CASE PollNotReady \/ PollRejected \/ PollCompleted
  BY <1>7 DEF PollNotReady, PollRejected, PollCompleted, vars, dmaVars
<1>8. CASE AllocateReplacement \/ AllocateError
  BY <1>8 DEF AllocateReplacement, AllocateError, dmaVars
<1>9. CASE RearmSlot
  <2>1. dma.state = "running" /\ dma.xfer # NoPacket => dma.cur # consumer
    BY <1>9 DEF RearmSlot, ThreadInv
  <2> QED
    BY <1>0, <1>9, <2>1, NoPacketAssumption
    DEF RearmSlot, Rearm, Bd, dmaVars, ThreadInv, TypeOK, DmaType
<1>10. CASE PublishTail
  BY <1>0, <1>10 DEF PublishTail, SetTail, DmaType
<1>11. CASE SendAccepted \/ SendRejected
  BY <1>11 DEF SendAccepted, SendRejected, dmaVars
<1>12. CASE StopDma
  BY <1>0, <1>12 DEF StopDma, SlotPackets, DmaType, DmaStates
<1>13. CASE CloseConnection
  BY <1>13 DEF CloseConnection, dmaVars
<1>14. CASE DmaFetch
  BY <1>0, <1>14 DEF DmaFetch, threadVars, DmaType
<1>15. CASE DmaComplete
  BY <1>0, <1>15 DEF DmaComplete, threadVars, TypeOK, DmaType
<1>16. CASE DmaFault
  BY <1>0, <1>16 DEF DmaFault, threadVars, TypeOK, DmaType
<1>17. CASE DmaSettle
  BY <1>0, <1>17 DEF DmaSettle, threadVars, DmaType
<1>18. CASE Network
  BY <1>18 DEF Network, ClientConnect, ClientAck, ClientReset, threadVars, dmaVars
<1> QED
  BY <1>1, <1>2, <1>3, <1>4, <1>5, <1>6, <1>7, <1>8, <1>9, <1>10, <1>11, <1>12, <1>13,
     <1>14, <1>15, <1>16, <1>17, <1>18
  DEF Next, TraceThread, ThreadStep, Engine

-----------------------------------------------------------------------------
\* Every packet stays in exactly one place.
LEMMA OwnershipStep ==
  TypeOK /\ ThreadInv /\ ExclusiveOwnership /\ NoPacketLeak /\ [Next]_vars
    => ExclusiveOwnership' /\ NoPacketLeak'
<1> SUFFICES ASSUME TypeOK, ThreadInv, ExclusiveOwnership, NoPacketLeak, [Next]_vars
             PROVE ExclusiveOwnership' /\ NoPacketLeak'
  OBVIOUS
<1> USE NoPacketAssumption
\* A step that moves no packet.
<1>0. ASSUME UNCHANGED <<free, slots, replacement, packet, txq>>
      PROVE ExclusiveOwnership' /\ NoPacketLeak'
  <2>1. SlotPackets' = SlotPackets /\ Held' = Held /\ QueuedPackets' = QueuedPackets
    BY <1>0 DEF SlotPackets, Held, QueuedPackets
  <2> QED
    BY <1>0, <2>1 DEF ExclusiveOwnership, NoPacketLeak
<1>1. CASE UNCHANGED vars
  BY <1>0, <1>1 DEF vars
<1>2. CASE AcceptClient \/ AcceptFailed \/ ResetDone \/ ResetTimeout \/ FillError \/ StartDma
  BY <1>0, <1>2 DEF AcceptClient, AcceptFailed, ResetDone, ResetTimeout, FillError, StartDma,
     threadVars, tcpVars
<1>3. CASE PollNotReady \/ PollRejected \/ PollCompleted \/ AllocateError \/ PublishTail
  BY <1>0, <1>3 DEF PollNotReady, PollRejected, PollCompleted, AllocateError, PublishTail,
     vars, tcpVars
<1>4. CASE Engine \/ ClientConnect
  BY <1>0, <1>4 DEF Engine, DmaFetch, DmaComplete, DmaFault, DmaSettle, ClientConnect,
     threadVars, tcpVars
<1>5. CASE FillSlot
  <2>1. PICK p \in free : free' = free \ {p} /\ Rearm(fill, p)
    BY <1>5 DEF FillSlot
  <2>2. fill \in Slots /\ slots[fill] = NoPacket
    <3>1. fill \in Slots /\ fill \in Nat /\ pc = "fill"
      BY <1>5, BdCountAssumption DEF FillSlot, Slots, TypeOK
    <3>2. ~(fill < fill)
      BY <3>1
    <3> QED
      BY <3>1, <3>2 DEF ThreadInv
  <2>3. SlotPackets' = SlotPackets \cup {p} /\ p # NoPacket
    BY <2>1, <2>2 DEF Rearm, SlotPackets, TypeOK
  <2>4. Held' = Held /\ QueuedPackets' = QueuedPackets
    BY <1>5 DEF FillSlot, Held, QueuedPackets, tcpVars
  <2>5. \A i, j \in Slots : slots'[i] # NoPacket /\ slots'[i] = slots'[j] => i = j
    BY <2>1, <2>2 DEF Rearm, SlotPackets, TypeOK, ExclusiveOwnership
  <2> QED
    BY <1>5, <2>1, <2>3, <2>4, <2>5 DEF ExclusiveOwnership, NoPacketLeak, FillSlot, tcpVars
<1>6. CASE AllocateReplacement
  <2>1. PICK p \in free : free' = free \ {p} /\ replacement' = p
    BY <1>6 DEF AllocateReplacement
  <2>2. replacement = NoPacket /\ packet = NoPacket /\ packet' = NoPacket
    BY <1>6 DEF AllocateReplacement, ThreadInv
  <2>3. Held = {} /\ Held' = {p}
    BY <2>1, <2>2 DEF Held, TypeOK
  <2>4. SlotPackets' = SlotPackets /\ QueuedPackets' = QueuedPackets
    BY <1>6 DEF AllocateReplacement, SlotPackets, QueuedPackets, tcpVars
  <2> QED
    BY <1>6, <2>1, <2>2, <2>3, <2>4
    DEF ExclusiveOwnership, NoPacketLeak, AllocateReplacement, tcpVars, TypeOK
<1>7. CASE RearmSlot
  <2> DEFINE out == slots[consumer]
  <2>1. /\ packet = NoPacket /\ replacement \in Packets /\ out \in Packets
        /\ packet' = out /\ replacement' = NoPacket
    BY <1>7 DEF RearmSlot, ThreadInv, TypeOK, OptPacket, Streaming
  <2>7. out \in SlotPackets
    BY <2>1 DEF SlotPackets, TypeOK
  <2>2. Held = {replacement} /\ Held' = {out} /\ replacement # out
    BY <2>1, <2>7 DEF Held, ExclusiveOwnership
  <2>3. slots' = [slots EXCEPT ![consumer] = replacement]
    BY <1>7 DEF RearmSlot, Rearm
  <2>4. SlotPackets' = (SlotPackets \ {out}) \cup {replacement}
    BY <2>1, <2>3 DEF SlotPackets, ExclusiveOwnership, TypeOK
  <2>5. QueuedPackets' = QueuedPackets /\ free' = free /\ txq' = txq
    BY <1>7 DEF RearmSlot, QueuedPackets, tcpVars
  <2>6. \A i, j \in Slots : slots'[i] # NoPacket /\ slots'[i] = slots'[j] => i = j
    BY <2>2, <2>3 DEF SlotPackets, TypeOK, ExclusiveOwnership
  <2> QED
    BY <2>1, <2>2, <2>4, <2>5, <2>6, <2>7 DEF ExclusiveOwnership, NoPacketLeak
<1>8. CASE SendAccepted
  <2>1. /\ packet \in Packets /\ packet' = NoPacket
        /\ replacement = NoPacket /\ replacement' = NoPacket
    BY <1>8 DEF SendAccepted, ThreadInv, TypeOK, OptPacket
  <2>2. Held = {packet} /\ Held' = {}
    BY <2>1 DEF Held
  <2>3. txq' = Append(txq, packet) /\ txq \in Seq(Packets)
    BY <1>8 DEF SendAccepted, TypeOK
  <2>4. Len(txq') = Len(txq) + 1 /\ Len(txq) \in Nat
    BY <2>3, <2>1
  <2>5. \A i \in 1 .. Len(txq) : txq'[i] = txq[i]
    BY <2>3, <2>1
  <2>6. txq'[Len(txq) + 1] = packet
    BY <2>3, <2>1
  <2>7. QueuedPackets' = QueuedPackets \cup {packet}
    BY <2>4, <2>5, <2>6 DEF QueuedPackets
  <2>8. \A i, j \in 1 .. Len(txq') : txq'[i] = txq'[j] => i = j
    BY <2>2, <2>4, <2>5, <2>6 DEF ExclusiveOwnership, QueuedPackets
  <2>9. SlotPackets' = SlotPackets /\ slots' = slots /\ free' = free
    BY <1>8 DEF SendAccepted, SlotPackets
  <2> QED
    BY <2>1, <2>2, <2>7, <2>8, <2>9 DEF ExclusiveOwnership, NoPacketLeak
<1>9. CASE SendRejected
  <2>1. /\ packet \in Packets /\ packet' = NoPacket /\ free' = free \cup {packet}
        /\ replacement = NoPacket /\ replacement' = NoPacket
    BY <1>9 DEF SendRejected, ThreadInv, TypeOK, OptPacket
  <2>2. Held = {packet} /\ Held' = {}
    BY <2>1 DEF Held
  <2>3. SlotPackets' = SlotPackets /\ QueuedPackets' = QueuedPackets /\ UNCHANGED <<slots, txq>>
    BY <1>9 DEF SendRejected, SlotPackets, QueuedPackets, tcpVars
  <2> QED
    BY <2>1, <2>2, <2>3 DEF ExclusiveOwnership, NoPacketLeak
<1>10. CASE StopDma
  <2>1. SlotPackets' = {}
    BY <1>10 DEF StopDma, SlotPackets
  <2>2. free' = free \cup SlotPackets /\ Held' = Held /\ QueuedPackets' = QueuedPackets
    BY <1>10 DEF StopDma, Held, QueuedPackets, tcpVars
  <2>3. \A i \in Slots : slots'[i] = NoPacket
    BY <1>10 DEF StopDma
  <2> QED
    BY <1>10, <2>1, <2>2, <2>3 DEF ExclusiveOwnership, NoPacketLeak, StopDma, tcpVars
<1>11. CASE CloseConnection \/ ClientReset
  <2>1. QueuedPackets' = {} /\ txq' = <<>>
    BY <1>11 DEF CloseConnection, ClientReset, QueuedPackets
  <2>2. /\ free' = free \cup QueuedPackets /\ UNCHANGED <<slots, replacement, packet>>
        /\ Held' = Held /\ SlotPackets' = SlotPackets
    BY <1>11 DEF CloseConnection, ClientReset, Held, SlotPackets, threadVars
  <2> QED
    BY <2>1, <2>2 DEF ExclusiveOwnership, NoPacketLeak
<1>12. CASE ClientAck
  <2>1. txq \in Seq(Packets) /\ txq # <<>> /\ txq' = Tail(txq)
    BY <1>12 DEF ClientAck, TypeOK
  <2>2. Len(txq') = Len(txq) - 1 /\ Len(txq) \in Nat \ {0}
    BY <2>1
  <2>3. \A i \in 1 .. Len(txq') : txq'[i] = txq[i + 1]
    BY <2>1
  <2>4. Head(txq) = txq[1] /\ free' = free \cup {txq[1]}
    BY <1>12, <2>1 DEF ClientAck
  <2>5. QueuedPackets' = QueuedPackets \ {txq[1]} /\ txq[1] \in QueuedPackets
    <3>1. \A x \in QueuedPackets' : x \in QueuedPackets /\ x # txq[1]
      BY <2>2, <2>3 DEF QueuedPackets, ExclusiveOwnership
    <3>2. \A i \in 2 .. Len(txq) : txq[i] = txq'[i - 1] /\ i - 1 \in 1 .. Len(txq')
      BY <2>2, <2>3
    <3>3. \A x \in QueuedPackets : x = txq[1] \/ x \in QueuedPackets'
      <4> SUFFICES ASSUME NEW i \in 1 .. Len(txq), i # 1 PROVE txq[i] \in QueuedPackets'
        BY DEF QueuedPackets
      <4>1. i \in 2 .. Len(txq)
        BY <2>2
      <4> QED
        BY <3>2, <4>1 DEF QueuedPackets
    <3>4. txq[1] \in QueuedPackets
      BY <2>2 DEF QueuedPackets
    <3> QED
      BY <3>1, <3>3, <3>4
  <2>6. \A i, j \in 1 .. Len(txq') : txq'[i] = txq'[j] => i = j
    BY <2>2, <2>3 DEF ExclusiveOwnership
  <2>7. UNCHANGED <<slots, replacement, packet>> /\ Held' = Held /\ SlotPackets' = SlotPackets
    BY <1>12 DEF ClientAck, Held, SlotPackets, threadVars
  <2> QED
    BY <2>4, <2>5, <2>6, <2>7 DEF ExclusiveOwnership, NoPacketLeak
<1> QED
  BY <1>1, <1>2, <1>3, <1>4, <1>5, <1>6, <1>7, <1>8, <1>9, <1>10, <1>11, <1>12
  DEF Next, TraceThread, ThreadStep, Network

-----------------------------------------------------------------------------
\* The inductive invariant holds in every reachable state.
LEMMA Inductive == Spec => []IInv
<1>1. IInv /\ [Next]_vars => IInv'
  BY TypeStep, ThreadInvStep, EngineInvStep, OwnershipStep DEF IInv
<1> QED
  BY InitInv, <1>1, PTL DEF Spec

\* Every variable keeps its type.
THEOREM TypeCorrect == Spec => []TypeOK
<1>1. IInv => TypeOK
  BY DEF IInv
<1> QED
  BY Inductive, <1>1, PTL

\* trace_pool, the ring, the locals and the transmit queue never share a
\* packet, whatever the order of completions, acknowledgements and errors.
THEOREM PacketsExclusive == Spec => []ExclusiveOwnership
<1>1. IInv => ExclusiveOwnership
  BY DEF IInv
<1> QED
  BY Inductive, <1>1, PTL

\* No path of the trace thread loses a packet.
THEOREM PacketsConserved == Spec => []NoPacketLeak
<1>1. IInv => NoPacketLeak
  BY DEF IInv
<1> QED
  BY Inductive, <1>1, PTL

\* Although trace_dma_stop does not wait for the engine to halt, a late
\* transfer never lands in a packet that TCP or the thread owns.
THEOREM LateWritesHarmless == Spec => []DmaNeverWritesSentPacket
<1>1. IInv => DmaNeverWritesSentPacket
  <2> SUFFICES ASSUME IInv, dma.xfer # NoPacket
               PROVE dma.xfer \notin Held \cup QueuedPackets
    BY DEF DmaNeverWritesSentPacket
  <2>1. dma.state \in DmaStates /\ dma.cur \in Slots
    BY DEF IInv, TypeOK
  <2>2. CASE dma.state = "running"
    <3>1. dma.xfer \in SlotPackets
      BY <2>1, <2>2 DEF IInv, EngineInv, SlotPackets
    <3> QED
      BY <3>1 DEF IInv, ExclusiveOwnership
  <2>3. CASE dma.state \in {"resetting", "halting"}
    BY <2>3 DEF IInv, EngineInv, ExclusiveOwnership
  <2> QED
    BY <2>1, <2>2, <2>3 DEF IInv, EngineInv, DmaStates
<1> QED
  BY Inductive, <1>1, PTL

-----------------------------------------------------------------------------
(***************************************************************************)
(* The order of the frames.  From the client back to the engine: received, *)
(* the transmit queue, the packet in the thread's hand and the completed   *)
(* descriptors hold consecutive frames, the last of which is the last one  *)
(* produced.                                                               *)
(***************************************************************************)

\* Descriptor number j after descriptor h, round the ring.
After(h, j) == IF h + j < BdCount THEN h + j ELSE h + j - BdCount

\* The descriptor whose frame is next: the consumer's, unless it was rearmed already.
Oldest == IF pc = "tail" THEN NextSlot(consumer) ELSE consumer

InHand == IF pc \in {"tail", "send"} THEN 1 ELSE 0
NextFrame == base + Len(received) + Len(txq) + InHand

\* The c descriptors from the oldest on hold a frame each, the engine is at
\* the one behind them.
Filled(c) ==
  /\ dma.cur = After(Oldest, c)
  /\ produced + 1 = NextFrame + c
  /\ \A j \in 0 .. BdCount - 1 :
       IF j < c THEN /\ bds[After(Oldest, j)].status = "complete"
                     /\ content[slots[After(Oldest, j)]] = NextFrame + j
                ELSE bds[After(Oldest, j)].status # "complete"

RingInOrder == pc \in Streaming /\ conn = "open" => \E c \in 0 .. BdCount : Filled(c)

QueueInOrder == \A i \in 1 .. Len(txq) : content[txq[i]] = base + Len(received) + i - 1

HandInOrder ==
  pc \in {"tail", "send"} /\ conn = "open" => content[packet] = base + Len(received) + Len(txq)

FreshStart ==
  /\ pc \in {"accept", "reset", "fill"} => received = <<>> /\ txq = <<>>
  /\ pc = "fill" => \A i \in Slots : i < fill => bds[i].status = "pending"
  /\ pc \in {"alloc", "rearm"} => bds[consumer].status = "complete"

OrderInv == FramesInOrder /\ QueueInOrder /\ HandInOrder /\ FreshStart /\ RingInOrder

LEMMA RingPlaces ==
  /\ \A h \in Slots, j \in 0 .. BdCount - 1 : After(h, j) \in Slots /\ After(h, j + 1) \in Slots
  /\ \A h \in Slots : After(h, 0) = h /\ After(h, BdCount) = h
  /\ \A h \in Slots : NextSlot(h) = After(h, 1)
  /\ \A h \in Slots, j \in 0 .. BdCount - 1 : After(After(h, 1), j) = After(h, j + 1)
  /\ \A h \in Slots, j \in 0 .. BdCount - 1 : After(After(h, j), 1) = After(h, j + 1)
  /\ \A h \in Slots, j \in 0 .. BdCount - 1, k \in 0 .. BdCount - 1 :
       After(h, j) = After(h, k) => j = k
<1>1. \A h \in Slots : NextSlot(h) = IF h + 1 < BdCount THEN h + 1 ELSE 0
  BY BdCountAssumption DEF Slots, NextSlot
<1> QED
  BY <1>1, BdCountAssumption DEF Slots, After

\* The initial state: nothing is under way.
LEMMA InitOrder == Init => OrderInv
  BY DEF Init, OrderInv, FramesInOrder, QueueInOrder, HandInOrder, FreshStart, RingInOrder, Streaming

\* The packets that TCP, the thread or a slot has are not written by the engine.
LEMMA NotWritten ==
  ASSUME IInv, DmaComplete
  PROVE  /\ \A i \in 1 .. Len(txq) : content'[txq[i]] = content[txq[i]]
         /\ packet # NoPacket => content'[packet] = content[packet]
         /\ \A i \in Slots : pc \in Streaming /\ i # dma.cur => content'[slots[i]] = content[slots[i]]
         /\ pc \in Streaming =>
              /\ dma.xfer = slots[dma.cur] /\ content'[slots[dma.cur]] = produced + 1
              /\ bds[dma.cur].status = "pending"
<1> USE NoPacketAssumption
<1>1. dma.state \in DmaStates /\ dma.cur \in Slots /\ dma.xfer \in Packets
  BY DEF IInv, TypeOK, OptPacket, DmaComplete
<1>2. content' = [content EXCEPT ![dma.xfer] = produced + 1] /\ content \in [Packets -> Nat]
  BY DEF DmaComplete, IInv, TypeOK
<1>3. dma.xfer \notin Held \cup QueuedPackets
  <2>1. CASE dma.state = "running"
    <3>1. dma.xfer \in SlotPackets
      BY <1>1, <2>1 DEF IInv, EngineInv, SlotPackets
    <3> QED
      BY <3>1 DEF IInv, ExclusiveOwnership
  <2>2. CASE dma.state \in {"resetting", "halting"}
    BY <1>1, <2>2 DEF IInv, EngineInv, ExclusiveOwnership
  <2> QED
    BY <1>1, <2>1, <2>2 DEF IInv, EngineInv, DmaStates
<1>4. \A i \in 1 .. Len(txq) : txq[i] \in Packets /\ txq[i] # dma.xfer
  BY <1>3 DEF QueuedPackets, IInv, TypeOK
<1>5. packet # NoPacket => packet \in Packets /\ packet # dma.xfer
  BY <1>3 DEF Held, IInv, TypeOK, OptPacket
<1>6. pc \in Streaming =>
        dma.state = "running" /\ dma.xfer = slots[dma.cur] /\ bds[dma.cur].status = "pending"
  BY <1>1 DEF IInv, EngineInv, Streaming
<1>7. \A i \in Slots : pc \in Streaming => slots[i] \in Packets
  BY DEF IInv, ThreadInv, TypeOK, OptPacket
<1>8. \A i \in Slots : pc \in Streaming /\ i # dma.cur => slots[i] # dma.xfer
  BY <1>1, <1>6, <1>7 DEF IInv, ExclusiveOwnership
<1> QED
  BY <1>1, <1>2, <1>4, <1>5, <1>6, <1>7, <1>8

-----------------------------------------------------------------------------
\* A new client starts with nothing under way, its ring is pending, and what
\* is sent was complete.
LEMMA FreshStep == ASSUME IInv, OrderInv, [Next]_vars PROVE FreshStart'
<1>0. FreshStart /\ TypeOK /\ ThreadInv
  BY DEF OrderInv, IInv
<1> USE <1>0 DEF FreshStart
<1>1. CASE UNCHANGED vars
  BY <1>1 DEF vars
<1>2. CASE AcceptClient \/ AcceptFailed
  BY <1>2 DEF AcceptClient, AcceptFailed, threadVars, tcpVars
<1>3. CASE ResetDone \/ ResetTimeout
  BY <1>3 DEF ResetDone, ResetTimeout, Slots, tcpVars
<1>4. CASE FillSlot
  <2>1. fill \in Nat /\ (\A i \in Slots : i \in Nat)
    BY DEF TypeOK, Slots
  <2>2. PICK p \in free : Rearm(fill, p)
    BY <1>4 DEF FillSlot
  <2>3. \A i \in Slots : i < fill + 1 => bds'[i].status = "pending"
    BY <1>4, <2>1, <2>2 DEF FillSlot, Rearm, Bd, TypeOK
  <2> QED
    BY <1>4, <2>3 DEF FillSlot, tcpVars
<1>5. CASE FillError \/ StartDma
  BY <1>5 DEF FillError, StartDma, tcpVars
<1>6. CASE PollNotReady \/ PollRejected
  BY <1>6 DEF PollNotReady, PollRejected, vars
<1>7. CASE PollCompleted
  <2>1. bds[consumer].status \in BdStatus
    BY DEF TypeOK
  <2> QED
    BY <1>7, <2>1 DEF PollCompleted, Rejected, BdStatus, dmaVars
<1>8. CASE AllocateReplacement \/ AllocateError
  BY <1>8 DEF AllocateReplacement, AllocateError, dmaVars
<1>9. CASE RearmSlot \/ PublishTail \/ SendAccepted \/ SendRejected \/ StopDma \/ CloseConnection
  BY <1>9 DEF RearmSlot, PublishTail, SendAccepted, SendRejected, StopDma, CloseConnection
<1>10. CASE DmaComplete
  <2>1. pc # "fill"
    BY <1>10 DEF DmaComplete, IInv, EngineInv
  <2>2. \A i \in Slots : bds[i].status = "complete" => bds'[i].status = "complete"
    BY <1>10 DEF DmaComplete, TypeOK
  <2> QED
    BY <1>10, <2>1, <2>2 DEF DmaComplete, TypeOK, threadVars, tcpVars
<1>11. CASE DmaFault
  <2>1. pc # "fill"
    BY <1>11 DEF DmaFault, IInv, EngineInv
  <2>2. bds[dma.cur].status = "pending"
    BY <1>11 DEF DmaFault, IInv, EngineInv
  <2>3. \A i \in Slots : bds[i].status = "complete" => bds'[i].status = "complete"
    BY <1>11, <2>2 DEF DmaFault, TypeOK
  <2> QED
    BY <1>11, <2>1, <2>3 DEF DmaFault, TypeOK, threadVars, tcpVars
<1>12. CASE DmaFetch \/ DmaSettle
  BY <1>12 DEF DmaFetch, DmaSettle, threadVars, tcpVars
<1>13. CASE Network
  BY <1>13 DEF Network, ClientConnect, ClientAck, ClientReset, threadVars
<1> QED
  BY <1>1, <1>2, <1>3, <1>4, <1>5, <1>6, <1>7, <1>8, <1>9, <1>10, <1>11, <1>12, <1>13
  DEF Next, TraceThread, ThreadStep, Engine

\* What the client has, what TCP has and what the thread is about to send stay
\* in order.
LEMMA QueueStep ==
  ASSUME IInv, OrderInv, [Next]_vars
  PROVE  FramesInOrder' /\ QueueInOrder' /\ HandInOrder'
<1>0. /\ FramesInOrder /\ QueueInOrder /\ HandInOrder /\ FreshStart /\ RingInOrder
      /\ TypeOK /\ ThreadInv
  BY DEF OrderInv, IInv
<1>t. /\ txq \in Seq(Packets) /\ received \in Seq(Nat) /\ base \in Nat
      /\ Len(txq) \in Nat /\ Len(received) \in Nat /\ content \in [Packets -> Nat]
  BY <1>0 DEF TypeOK
<1> USE DEF FramesInOrder, QueueInOrder, HandInOrder
\* Steps after which all three read as before, or the thread has sent nothing new.
<1>a. ASSUME UNCHANGED <<content, txq, base, received>>,
             pc' \in {"tail", "send"} /\ conn' = "open" => pc \in {"tail", "send"} /\ conn = "open" /\ packet' = packet
      PROVE  FramesInOrder' /\ QueueInOrder' /\ HandInOrder'
  BY <1>0, <1>a
<1>1. CASE UNCHANGED vars
  BY <1>a, <1>1 DEF vars
<1>2. CASE AcceptClient \/ AcceptFailed \/ ResetDone \/ ResetTimeout \/ FillSlot \/ FillError
  BY <1>a, <1>2 DEF AcceptClient, AcceptFailed, ResetDone, ResetTimeout, FillSlot, FillError,
                    dmaVars, tcpVars, threadVars
<1>3. CASE StartDma
  <2>1. received = <<>> /\ txq = <<>>
    BY <1>0, <1>3 DEF StartDma, FreshStart
  <2> QED
    BY <1>3, <2>1 DEF StartDma
<1>4. CASE PollNotReady \/ PollRejected \/ PollCompleted \/ AllocateReplacement \/ AllocateError
  BY <1>a, <1>4 DEF PollNotReady, PollRejected, PollCompleted, AllocateReplacement,
                    AllocateError, vars, dmaVars, tcpVars
<1>5. CASE RearmSlot
  <2>1. /\ pc = "rearm" /\ packet' = slots[consumer]
        /\ UNCHANGED <<content, txq, base, received, conn>>
    BY <1>5 DEF RearmSlot, dmaVars, tcpVars
  <2>2. bds[consumer].status = "complete" /\ consumer \in Slots
    BY <1>0, <2>1 DEF FreshStart, TypeOK
  <2>3. ASSUME conn = "open"
        PROVE  content[slots[consumer]] = base + Len(received) + Len(txq)
    <3>1. PICK c \in 0 .. BdCount : Filled(c)
      BY <1>0, <2>1, <2>3 DEF RingInOrder, Streaming
    <3>2. Oldest = consumer /\ InHand = 0 /\ After(Oldest, 0) = consumer
      BY <2>1, <2>2, RingPlaces DEF Oldest, InHand
    <3>3. 0 \in 0 .. BdCount - 1
      BY BdCountAssumption
    <3>4. 0 < c
      BY <2>2, <3>1, <3>2, <3>3 DEF Filled
    <3>5. content[slots[consumer]] = NextFrame + 0
      BY <3>1, <3>2, <3>3, <3>4 DEF Filled
    <3> QED
      BY <1>t, <3>2, <3>5 DEF NextFrame
  <2> QED
    BY <1>0, <2>1, <2>3
<1>6. CASE PublishTail
  BY <1>a, <1>6 DEF PublishTail, tcpVars
<1>7. CASE SendAccepted
  <2>1. /\ packet \in Packets /\ conn = "open" /\ pc = "send" /\ pc' = "poll"
        /\ txq' = Append(txq, packet) /\ UNCHANGED <<content, base, received, conn>>
    BY <1>0, <1>7 DEF SendAccepted, ThreadInv, TypeOK, OptPacket, dmaVars
  <2>2. /\ Len(txq') = Len(txq) + 1 /\ txq'[Len(txq) + 1] = packet
        /\ \A i \in 1 .. Len(txq) : txq'[i] = txq[i]
    BY <1>t, <2>1
  <2>3. content[packet] = base + Len(received) + Len(txq)
    BY <1>0, <2>1
  <2>4. \A i \in 1 .. Len(txq') : content[txq'[i]] = base + Len(received) + i - 1
    <3> SUFFICES ASSUME NEW i \in 1 .. Len(txq') PROVE content[txq'[i]] = base + Len(received) + i - 1
      OBVIOUS
    <3>1. CASE i = Len(txq) + 1
      BY <1>t, <2>2, <2>3, <3>1
    <3>2. CASE i # Len(txq) + 1
      <4>1. i \in 1 .. Len(txq)
        BY <1>t, <2>2, <3>2
      <4> QED
        BY <1>0, <2>2, <4>1
    <3> QED
      BY <3>1, <3>2
  <2> QED
    BY <1>0, <2>1, <2>4
<1>8. CASE SendRejected \/ StopDma
  BY <1>a, <1>8 DEF SendRejected, StopDma, dmaVars, tcpVars
<1>9. CASE CloseConnection
  BY <1>9 DEF CloseConnection
<1>10. CASE DmaFetch \/ DmaFault \/ DmaSettle \/ ClientConnect
  <2>1. pc = pc' /\ packet = packet' /\ UNCHANGED <<content, txq, base, received>>
    BY <1>10 DEF DmaFetch, DmaFault, DmaSettle, ClientConnect, threadVars, tcpVars, dmaVars
  <2>2. conn' = "open" /\ pc \in {"tail", "send"} => conn = "open"
    BY <1>10 DEF DmaFetch, DmaFault, DmaSettle, ClientConnect, tcpVars
  <2> QED
    BY <1>a, <2>1, <2>2
<1>11. CASE DmaComplete
  <2>1. UNCHANGED <<pc, packet, txq, base, received, conn>>
    BY <1>11 DEF DmaComplete, threadVars, tcpVars
  <2>2. /\ \A i \in 1 .. Len(txq) : content'[txq[i]] = content[txq[i]]
        /\ packet # NoPacket => content'[packet] = content[packet]
    BY <1>11, NotWritten
  <2>3. pc \in {"tail", "send"} => packet # NoPacket
    BY <1>0 DEF ThreadInv
  <2> QED
    BY <1>0, <2>1, <2>2, <2>3
<1>12. CASE ClientAck
  <2>1. /\ txq # <<>> /\ txq' = Tail(txq) /\ received' = Append(received, content[Head(txq)])
        /\ UNCHANGED <<pc, packet, content, base, conn>>
    BY <1>12 DEF ClientAck, threadVars, dmaVars
  <2>2. /\ Len(txq) \in Nat \ {0} /\ Len(txq') = Len(txq) - 1 /\ Head(txq) = txq[1]
        /\ \A i \in 1 .. Len(txq') : txq'[i] = txq[i + 1]
    BY <1>t, <2>1
  <2>3. content[txq[1]] = base + Len(received)
    BY <1>0, <1>t, <2>2
  <2>4. /\ Len(received') = Len(received) + 1 /\ received'[Len(received) + 1] = base + Len(received)
        /\ \A i \in 1 .. Len(received) : received'[i] = received[i]
    BY <1>t, <2>1, <2>2, <2>3
  <2>5. FramesInOrder'
    <3> SUFFICES ASSUME NEW i \in 1 .. Len(received') PROVE received'[i] = base + i - 1
      BY <2>1
    <3>1. CASE i = Len(received) + 1
      BY <1>t, <2>4, <3>1
    <3>2. CASE i # Len(received) + 1
      BY <1>0, <1>t, <2>4, <3>2
    <3> QED
      BY <3>1, <3>2
  <2>6. QueueInOrder'
    <3> SUFFICES ASSUME NEW i \in 1 .. Len(txq')
                 PROVE  content[txq'[i]] = base + Len(received') + i - 1
      BY <2>1
    <3>1. i + 1 \in 1 .. Len(txq) /\ i \in Nat
      BY <2>2
    <3>2. content[txq'[i]] = base + Len(received) + (i + 1) - 1
      BY <1>0, <2>2, <3>1
    <3> QED
      BY <1>t, <2>4, <3>1, <3>2
  <2>7. HandInOrder'
    BY <1>0, <1>t, <2>1, <2>2, <2>4
  <2> QED
    BY <2>5, <2>6, <2>7
<1>13. CASE ClientReset
  BY <1>0, <1>13 DEF ClientReset, threadVars, dmaVars
<1> QED
  BY <1>1, <1>2, <1>3, <1>4, <1>5, <1>6, <1>7, <1>8, <1>9, <1>10, <1>11, <1>12, <1>13
  DEF Next, TraceThread, ThreadStep, Engine, Network

\* The completed descriptors stay in order, however far the engine is ahead of
\* the thread: it catches the consumer up after a whole round at most.
LEMMA RingStep == ASSUME IInv, OrderInv, [Next]_vars PROVE RingInOrder'
<1>0. RingInOrder /\ FreshStart /\ TypeOK /\ ThreadInv
  BY DEF OrderInv, IInv
<1>t. /\ txq \in Seq(Packets) /\ received \in Seq(Nat) /\ base \in Nat /\ produced \in Nat
      /\ Len(txq) \in Nat /\ Len(received) \in Nat
      /\ consumer \in Slots /\ dma.cur \in Slots
  BY <1>0 DEF TypeOK
<1>n. NextFrame \in Nat /\ InHand \in 0 .. 1 /\ Oldest \in Slots
  <2>1. After(consumer, 1) \in Slots /\ NextSlot(consumer) = After(consumer, 1)
    BY <1>t, RingPlaces, BdCountAssumption
  <2> QED
    BY <1>t, <2>1 DEF NextFrame, InHand, Oldest
\* Steps that leave the ring and the number of the next frame alone.
<1>a. ASSUME UNCHANGED <<produced, content, slots, bds>>, dma'.cur = dma.cur,
             pc' \in Streaming /\ conn' = "open" =>
               pc \in Streaming /\ conn = "open" /\ Oldest' = Oldest /\ NextFrame' = NextFrame
      PROVE  RingInOrder'
  <2> SUFFICES ASSUME pc' \in Streaming, conn' = "open"
               PROVE  \E c \in 0 .. BdCount : Filled(c)'
    BY DEF RingInOrder, Streaming
  <2>1. PICK c \in 0 .. BdCount : Filled(c)
    BY <1>0, <1>a DEF RingInOrder
  <2>2. Filled(c)'
    BY <1>a, <2>1 DEF Filled, After
  <2> QED
    BY <2>2
<1>b. ASSUME pc' \notin Streaming \/ conn' # "open" PROVE RingInOrder'
  BY <1>b DEF RingInOrder, Streaming
<1>1. CASE UNCHANGED vars
  BY <1>a, <1>1 DEF vars, Oldest, NextFrame, InHand, Streaming
<1>2. CASE AcceptClient \/ AcceptFailed \/ ResetDone \/ ResetTimeout \/ FillSlot \/ FillError
  BY <1>b, <1>2 DEF AcceptClient, AcceptFailed, ResetDone, ResetTimeout, FillSlot, FillError,
                    threadVars, Streaming
<1>3. CASE StartDma
  <2>1. received = <<>> /\ txq = <<>> /\ UNCHANGED <<received, txq, slots, bds, content, produced>>
    BY <1>0, <1>3 DEF StartDma, FreshStart
  <2>2. \A i \in Slots : bds[i].status = "pending"
    BY <1>0, <1>3, BdCountAssumption DEF StartDma, FreshStart, Slots
  <2>3. dma'.cur = 0 /\ consumer' = 0 /\ base' = produced + 1 /\ pc' = "poll"
    BY <1>0, <1>3 DEF StartDma, TypeOK
  <2>4. Oldest' = 0 /\ NextFrame' = produced + 1 /\ 0 \in Slots
    BY <1>t, <2>1, <2>3, SlotEnds DEF Oldest, NextFrame, InHand
  <2>5. \A j \in 0 .. BdCount - 1 : After(0, j) \in Slots
    BY <2>4, RingPlaces
  <2>6. Filled(0)'
    BY <1>t, <2>1, <2>2, <2>3, <2>4, <2>5, RingPlaces DEF Filled
  <2> QED
    BY <2>6, SlotEnds DEF RingInOrder
<1>4. CASE PollNotReady \/ PollRejected \/ PollCompleted \/ AllocateReplacement \/ AllocateError
  BY <1>a, <1>b, <1>4 DEF PollNotReady, PollRejected, PollCompleted, AllocateReplacement,
                    AllocateError, vars, dmaVars, tcpVars, Oldest, NextFrame, InHand, Streaming
<1>5. CASE RearmSlot
  <2>1. /\ pc = "rearm" /\ pc' = "tail" /\ slots' = [slots EXCEPT ![consumer] = replacement]
        /\ bds' = [bds EXCEPT ![consumer] = Bd(replacement, "pending")]
        /\ UNCHANGED <<dma, content, produced, txq, base, received, conn, consumer>>
    BY <1>5 DEF RearmSlot, Rearm, dmaVars, tcpVars
  <2>2. SUFFICES ASSUME conn = "open" PROVE \E c \in 0 .. BdCount : Filled(c)'
    BY <2>1 DEF RingInOrder
  <2>3. PICK c \in 0 .. BdCount : Filled(c)
    BY <1>0, <2>1, <2>2 DEF RingInOrder, Streaming
  <2>4. /\ Oldest = consumer /\ After(consumer, 0) = consumer /\ NextFrame' = NextFrame + 1
        /\ Oldest' = After(consumer, 1)
    BY <1>t, <2>1, RingPlaces DEF Oldest, NextFrame, InHand
  <2>5. 0 < c /\ c - 1 \in 0 .. BdCount - 1 /\ c - 1 \in 0 .. BdCount
    <3>1. 0 \in 0 .. BdCount - 1 /\ bds[consumer].status = "complete"
      BY <1>0, <2>1, BdCountAssumption DEF FreshStart
    <3> QED
      BY <2>3, <2>4, <3>1, BdCountAssumption DEF Filled
  <2>6. dma.cur = After(After(consumer, 1), c - 1)
    BY <1>t, <2>3, <2>4, <2>5, RingPlaces DEF Filled
  <2>7. ASSUME NEW j \in 0 .. BdCount - 1
        PROVE  LET i == After(After(consumer, 1), j) IN
               IF j < c - 1 THEN bds'[i].status = "complete" /\ content[slots'[i]] = NextFrame + 1 + j
                            ELSE bds'[i].status # "complete"
    <3>1. After(After(consumer, 1), j) = After(consumer, j + 1) /\ After(consumer, j + 1) \in Slots
      BY <1>t, RingPlaces
    <3>2. CASE j = BdCount - 1
      <4>1. After(consumer, j + 1) = consumer
        BY <1>t, <3>2, RingPlaces, BdCountAssumption
      <4> QED
        BY <1>0, <1>t, <2>1, <2>5, <3>1, <3>2, <4>1 DEF Bd, TypeOK
    <3>3. CASE j # BdCount - 1
      <4>1. j + 1 \in 0 .. BdCount - 1 /\ j + 1 # 0 /\ 0 \in 0 .. BdCount - 1
        BY <3>3, BdCountAssumption
      <4>2. After(consumer, j + 1) # consumer
        BY <1>t, <2>4, <4>1, RingPlaces
      <4>3. /\ bds'[After(consumer, j + 1)] = bds[After(consumer, j + 1)]
            /\ slots'[After(consumer, j + 1)] = slots[After(consumer, j + 1)]
        BY <1>0, <2>1, <3>1, <4>2 DEF TypeOK
      <4>4. IF j + 1 < c THEN /\ bds[After(consumer, j + 1)].status = "complete"
                              /\ content[slots[After(consumer, j + 1)]] = NextFrame + (j + 1)
                         ELSE bds[After(consumer, j + 1)].status # "complete"
        BY <2>3, <2>4, <4>1 DEF Filled
      <4> QED
        BY <1>n, <2>5, <3>1, <4>3, <4>4
    <3> QED
      BY <3>2, <3>3
  <2>8. produced + 1 = NextFrame + 1 + (c - 1)
    BY <1>n, <2>3, <2>5 DEF Filled
  <2>9. Filled(c - 1)'
    BY <1>n, <2>1, <2>4, <2>6, <2>7, <2>8 DEF Filled
  <2> QED
    BY <2>5, <2>9
<1>6. CASE PublishTail
  <2>1. /\ pc = "tail" /\ pc' = "send" /\ consumer' = NextSlot(consumer) /\ dma'.cur = dma.cur
        /\ UNCHANGED <<slots, bds, content, produced, txq, base, received, conn>>
    BY <1>0, <1>6 DEF PublishTail, SetTail, tcpVars, TypeOK
  <2>2. Oldest' = Oldest /\ NextFrame' = NextFrame
    BY <2>1 DEF Oldest, NextFrame, InHand
  <2> QED
    BY <1>a, <2>1, <2>2 DEF Streaming
<1>7. CASE SendAccepted
  <2>1. /\ pc = "send" /\ pc' = "poll" /\ packet \in Packets /\ txq' = Append(txq, packet)
        /\ UNCHANGED <<slots, bds, dma, content, produced, base, received, conn, consumer>>
    BY <1>0, <1>7 DEF SendAccepted, ThreadInv, TypeOK, OptPacket, dmaVars
  <2>2. Len(txq') = Len(txq) + 1
    BY <1>t, <2>1
  <2>3. Oldest' = Oldest /\ NextFrame' = NextFrame
    BY <1>t, <2>1, <2>2 DEF Oldest, NextFrame, InHand
  <2> QED
    BY <1>a, <2>1, <2>3 DEF Streaming
<1>8. CASE SendRejected \/ StopDma \/ CloseConnection \/ ClientReset
  BY <1>b, <1>8 DEF SendRejected, StopDma, CloseConnection, ClientReset, Streaming
<1>9. CASE DmaFetch \/ DmaSettle
  <2>1. /\ dma'.cur = dma.cur
        /\ UNCHANGED <<pc, consumer, slots, bds, content, produced, txq, base, received, conn>>
    BY <1>0, <1>9 DEF DmaFetch, DmaSettle, TypeOK, threadVars, tcpVars
  <2> QED
    BY <1>a, <2>1 DEF Oldest, NextFrame, InHand, Streaming
<1>10. CASE ClientConnect
  BY <1>b, <1>10 DEF ClientConnect, threadVars, Streaming
<1>11. CASE DmaComplete
  <2>1. /\ UNCHANGED <<pc, packet, consumer, slots, txq, base, received, conn>>
        /\ produced' = produced + 1 /\ dma'.cur = NextSlot(dma.cur)
        /\ bds' = [bds EXCEPT ![dma.cur].status = "complete"]
    BY <1>0, <1>11 DEF DmaComplete, threadVars, tcpVars, TypeOK
  <2>2. Oldest' = Oldest /\ NextFrame' = NextFrame
    BY <2>1 DEF Oldest, NextFrame, InHand
  <2> SUFFICES ASSUME pc \in Streaming, conn = "open" PROVE \E c \in 0 .. BdCount : Filled(c)'
    BY <2>1 DEF RingInOrder, Streaming
  <2>3. PICK c \in 0 .. BdCount : Filled(c)
    BY <1>0 DEF RingInOrder
  <2>4. /\ \A i \in Slots : i # dma.cur => content'[slots[i]] = content[slots[i]]
        /\ content'[slots[dma.cur]] = produced + 1 /\ bds[dma.cur].status = "pending"
    BY <1>11, NotWritten
  <2>5. c # BdCount
    <3>1. ASSUME c = BdCount PROVE FALSE
      <4>1. After(Oldest, 0) = dma.cur /\ 0 \in 0 .. BdCount - 1 /\ 0 < c
        BY <1>n, <2>3, <3>1, RingPlaces, BdCountAssumption DEF Filled
      <4>2. bds[dma.cur].status = "complete"
        BY <2>3, <4>1 DEF Filled
      <4> QED
        BY <2>4, <4>2
    <3> QED
      BY <3>1
  <2>6. c \in 0 .. BdCount - 1 /\ c + 1 \in 0 .. BdCount /\ dma.cur = After(Oldest, c)
    BY <2>3, <2>5, BdCountAssumption DEF Filled
  <2>7. dma'.cur = After(Oldest, c + 1)
    BY <1>n, <1>t, <2>1, <2>6, RingPlaces
  <2>8. ASSUME NEW j \in 0 .. BdCount - 1
        PROVE  LET i == After(Oldest, j) IN
               IF j < c + 1 THEN bds'[i].status = "complete" /\ content'[slots[i]] = NextFrame + j
                            ELSE bds'[i].status # "complete"
    <3>1. After(Oldest, j) \in Slots
      BY <1>n, RingPlaces
    <3>2. CASE j = c
      <4>1. content'[slots[dma.cur]] = NextFrame + j
        BY <2>3, <2>4, <3>2 DEF Filled
      <4>2. bds'[dma.cur].status = "complete"
        BY <1>0, <1>t, <2>1 DEF TypeOK
      <4> QED
        BY <2>6, <3>2, <4>1, <4>2
    <3>3. CASE j # c
      <4>1. After(Oldest, j) # dma.cur
        BY <1>n, <2>6, <3>3, RingPlaces
      <4>2. /\ bds'[After(Oldest, j)].status = bds[After(Oldest, j)].status
            /\ content'[slots[After(Oldest, j)]] = content[slots[After(Oldest, j)]]
        BY <1>0, <2>1, <2>4, <3>1, <4>1 DEF TypeOK
      <4>3. j < c + 1 <=> j < c
        BY <2>6, <3>3
      <4>4. IF j < c THEN /\ bds[After(Oldest, j)].status = "complete"
                          /\ content[slots[After(Oldest, j)]] = NextFrame + j
                     ELSE bds[After(Oldest, j)].status # "complete"
        BY <2>3 DEF Filled
      <4> QED
        BY <4>2, <4>3, <4>4
    <3> QED
      BY <3>2, <3>3
  <2>9. Filled(c + 1)'
    BY <1>n, <1>t, <2>1, <2>2, <2>3, <2>6, <2>7, <2>8 DEF Filled
  <2> QED
    BY <2>6, <2>9
<1>12. CASE DmaFault
  <2>1. /\ UNCHANGED <<pc, consumer, slots, txq, base, received, conn, content, produced>>
        /\ dma'.cur = dma.cur /\ bds' = [bds EXCEPT ![dma.cur].status = "bad"]
        /\ bds[dma.cur].status = "pending"
    BY <1>0, <1>12 DEF DmaFault, threadVars, tcpVars, TypeOK, IInv, EngineInv
  <2>2. Oldest' = Oldest /\ NextFrame' = NextFrame
    BY <2>1 DEF Oldest, NextFrame, InHand
  <2> SUFFICES ASSUME pc \in Streaming, conn = "open" PROVE \E c \in 0 .. BdCount : Filled(c)'
    BY <2>1 DEF RingInOrder, Streaming
  <2>3. PICK c \in 0 .. BdCount : Filled(c)
    BY <1>0 DEF RingInOrder
  <2>4. \A i \in Slots : bds'[i].status = "complete" <=> bds[i].status = "complete"
    BY <1>0, <1>t, <2>1 DEF TypeOK
  <2>5. \A j \in 0 .. BdCount - 1 : After(Oldest, j) \in Slots
    BY <1>n, RingPlaces
  <2>6. Filled(c)'
    BY <2>1, <2>2, <2>3, <2>4, <2>5 DEF Filled
  <2> QED
    BY <2>6
<1>13. CASE ClientAck
  <2>1. /\ txq # <<>> /\ txq' = Tail(txq) /\ received' = Append(received, content[Head(txq)])
        /\ UNCHANGED <<pc, consumer, slots, bds, dma, content, produced, base, conn>>
    BY <1>13 DEF ClientAck, threadVars, dmaVars
  <2>2. Len(txq') = Len(txq) - 1 /\ Len(received') = Len(received) + 1
    <3>1. Len(Tail(txq)) = Len(txq) - 1
      BY <1>t, <2>1
    <3>2. content[Head(txq)] \in Nat
      BY <1>0, <1>t, <2>1 DEF TypeOK
    <3> QED
      BY <1>t, <2>1, <3>1, <3>2
  <2>3. Oldest' = Oldest /\ NextFrame' = NextFrame
    BY <1>t, <2>1, <2>2 DEF Oldest, NextFrame, InHand
  <2> QED
    BY <1>a, <2>1, <2>3 DEF Streaming
<1> QED
  BY <1>1, <1>2, <1>3, <1>4, <1>5, <1>6, <1>7, <1>8, <1>9, <1>10, <1>11, <1>12, <1>13
  DEF Next, TraceThread, ThreadStep, Engine, Network

\* A client gets consecutive frames, from the first one captured after it was
\* accepted: none is left out, doubled or overwritten, for any ring, pool and
\* queue and any order of completions, acknowledgements and faults (main.c:288-340).
THEOREM ClientGetsFramesInOrder == Spec => []FramesInOrder
<1>1. IInv /\ OrderInv /\ [Next]_vars => OrderInv'
  BY FreshStep, QueueStep, RingStep DEF OrderInv
<1>2. OrderInv => FramesInOrder
  BY DEF OrderInv
<1> QED
  BY InitOrder, Inductive, <1>1, <1>2, PTL DEF Spec
-----------------------------------------------------------------------------
(***************************************************************************)
(* The engine stays behind TAILDESC: from the oldest descriptor on, some   *)
(* are complete, all up to the one at tail are pending, and the engine is  *)
(* at the first of these, or idle because there is none.                   *)
(***************************************************************************)

\* The descriptors the engine may fill from the oldest on: all, but for the one
\* that was rearmed and not yet published.
Room == IF pc = "tail" THEN BdCount - 1 ELSE BdCount

Ahead(c) ==
  /\ dma.cur = After(Oldest, c)
  /\ dma.idle <=> c = Room
  /\ \A j \in 0 .. BdCount - 1 : bds[After(Oldest, j)].status = "pending" <=> c <= j

TailInv ==
  dma.state = "running" =>
    /\ NextSlot(dma.tail) = consumer
    /\ dma.xfer # NoPacket => ~dma.idle
    /\ \E c \in 0 .. Room : Ahead(c)

\* What TailInv is for: an engine that is not idle is at a pending descriptor.
LEMMA PendingAtCur ==
  ASSUME TypeOK, TailInv, dma.state = "running", ~dma.idle
  PROVE  bds[dma.cur].status = "pending"
<1>1. PICK c \in 0 .. Room : Ahead(c)
  BY DEF TailInv
<1>2. c # Room /\ Room \in {BdCount - 1, BdCount}
  BY <1>1 DEF Ahead, Room
<1>3. c \in 0 .. BdCount - 1
  BY <1>2, BdCountAssumption
<1> QED
  BY <1>1, <1>3 DEF Ahead

\* The engine is about to go past tail exactly when it fills the last pending one.
LEMMA TailIsLast ==
  ASSUME TypeOK, dma.state = "running", NextSlot(dma.tail) = consumer,
         NEW c \in 0 .. Room - 1, dma.cur = After(Oldest, c)
  PROVE  dma.cur = dma.tail <=> c + 1 = Room
<1>1. consumer \in Slots /\ dma.tail \in Slots
  BY DEF TypeOK
<1>2. NextSlot(dma.tail) = IF dma.tail + 1 < BdCount THEN dma.tail + 1 ELSE 0
  BY <1>1, BdCountAssumption DEF NextSlot, Slots
<1>3. NextSlot(consumer) = IF consumer + 1 < BdCount THEN consumer + 1 ELSE 0
  BY <1>1, BdCountAssumption DEF NextSlot, Slots
<1> QED
  BY <1>1, <1>2, <1>3, BdCountAssumption DEF Slots, After, Oldest, Room

\* The steps of the thread and of the engine keep it so.
LEMMA TailStep == ASSUME IInv, OrderInv, TailInv, [Next]_vars PROVE TailInv'
<1>0. TypeOK /\ ThreadInv /\ EngineInv /\ FreshStart
  BY DEF IInv, OrderInv
<1>t. consumer \in Slots /\ dma.cur \in Slots /\ dma.tail \in Slots /\ dma.idle \in BOOLEAN
  BY <1>0 DEF TypeOK
<1>n. Oldest \in Slots
  BY <1>t, NextSlotType DEF Oldest
\* Steps that leave the ring and the registers alone.
<1>a. ASSUME dma'.state = "running" =>
               /\ dma.state = "running" /\ UNCHANGED <<bds, consumer>>
               /\ dma'.cur = dma.cur /\ dma'.tail = dma.tail /\ dma'.idle = dma.idle
               /\ dma'.xfer # NoPacket => ~dma.idle
               /\ pc' = "tail" <=> pc = "tail"
      PROVE  TailInv'
  <2> SUFFICES ASSUME dma'.state = "running" PROVE TailInv'
    BY DEF TailInv
  <2>1. PICK c \in 0 .. Room : Ahead(c)
    BY <1>a DEF TailInv
  <2>2. Oldest' = Oldest /\ Room' = Room
    BY <1>a DEF Oldest, Room
  <2>3. Ahead(c)'
    BY <1>a, <2>1, <2>2 DEF Ahead, After
  <2>4. NextSlot(dma'.tail) = consumer'
    BY <1>a DEF TailInv
  <2> QED
    BY <1>a, <2>1, <2>2, <2>3, <2>4 DEF TailInv, NextSlot
<1>1. CASE UNCHANGED vars
  BY <1>a, <1>1 DEF vars, TailInv
<1>2. CASE AcceptClient \/ StopDma
  BY <1>0, <1>a, <1>2 DEF AcceptClient, StopDma, TypeOK
<1>3. CASE StartDma
  <2>1. /\ dma' = [dma EXCEPT !.state = "running", !.cur = 0, !.tail = BdCount - 1, !.idle = FALSE]
        /\ dma.state = "off" /\ consumer' = 0 /\ pc' = "poll" /\ bds' = bds
    BY <1>0, <1>3 DEF StartDma, EngineInv
  <2>2. /\ dma'.cur = 0 /\ dma'.tail = BdCount - 1 /\ ~dma'.idle /\ dma'.xfer = NoPacket
    BY <1>0, <2>1 DEF TypeOK, EngineInv
  <2>3. \A i \in Slots : bds[i].status = "pending"
    BY <1>0, <1>3, BdCountAssumption DEF StartDma, FreshStart, Slots
  <2>4. Oldest' = 0 /\ Room' = BdCount
    BY <2>1 DEF Oldest, Room
  <2>5. After(0, 0) = 0 /\ \A j \in 0 .. BdCount - 1 : After(0, j) \in Slots
    BY SlotEnds, RingPlaces
  <2>6. Ahead(0)'
    BY <2>1, <2>2, <2>3, <2>4, <2>5, BdCountAssumption DEF Ahead
  <2>7. NextSlot(BdCount - 1) = 0
    BY BdCountAssumption DEF NextSlot
  <2>8. 0 \in 0 .. Room'
    BY <2>4, BdCountAssumption
  <2> QED
    BY <2>1, <2>2, <2>6, <2>7, <2>8 DEF TailInv, NextSlot
<1>4. CASE \/ AcceptFailed \/ ResetDone \/ ResetTimeout \/ FillSlot \/ FillError
           \/ CloseConnection
  BY <1>0, <1>a, <1>4 DEF AcceptFailed, ResetDone, ResetTimeout, FillSlot, FillError,
                          CloseConnection, EngineInv, TailInv, threadVars, dmaVars
<1>5. CASE \/ PollNotReady \/ PollRejected \/ PollCompleted
           \/ AllocateReplacement \/ AllocateError \/ SendAccepted \/ SendRejected
  <2>1. UNCHANGED <<dma, bds, consumer>> /\ (pc' = "tail" <=> pc = "tail")
    BY <1>5 DEF PollNotReady, PollRejected, PollCompleted, AllocateReplacement, AllocateError,
                SendAccepted, SendRejected, vars, dmaVars
  <2> QED
    BY <1>a, <2>1 DEF TailInv
<1>6. CASE RearmSlot
  <2>1. /\ pc = "rearm" /\ pc' = "tail"
        /\ bds' = [bds EXCEPT ![consumer] = Bd(replacement, "pending")]
        /\ UNCHANGED <<dma, consumer>>
    BY <1>6 DEF RearmSlot, Rearm, dmaVars
  <2> SUFFICES ASSUME dma.state = "running" PROVE TailInv'
    BY <2>1 DEF TailInv
  <2>2. PICK c \in 0 .. BdCount : Ahead(c)
    BY <2>1 DEF TailInv, Room
  <2>3. /\ Oldest = consumer /\ After(consumer, 0) = consumer
        /\ Oldest' = After(consumer, 1) /\ Room' = BdCount - 1
    BY <1>t, <2>1, RingPlaces DEF Oldest, Room
  <2>4. c # 0
    <3>1. bds[consumer].status # "pending" /\ 0 \in 0 .. BdCount - 1
      BY <1>0, <2>1, BdCountAssumption DEF ThreadInv
    <3> QED
      BY <2>2, <2>3, <3>1 DEF Ahead
  <2>5. c - 1 \in 0 .. BdCount - 1
    BY <2>4, BdCountAssumption
  <2>6. dma.cur = After(After(consumer, 1), c - 1)
    BY <1>t, <2>2, <2>3, <2>5, RingPlaces DEF Ahead
  <2>7. dma.idle <=> c - 1 = BdCount - 1
    BY <2>1, <2>2, BdCountAssumption DEF Ahead, Room
  <2>8. ASSUME NEW j \in 0 .. BdCount - 1
        PROVE  bds'[After(After(consumer, 1), j)].status = "pending" <=> c - 1 <= j
    <3>1. After(After(consumer, 1), j) = After(consumer, j + 1) /\ After(consumer, j + 1) \in Slots
      BY <1>t, RingPlaces
    <3>2. CASE j = BdCount - 1
      <4>1. After(consumer, j + 1) = consumer
        BY <1>t, <3>2, RingPlaces, BdCountAssumption
      <4> QED
        BY <1>0, <1>t, <2>1, <2>5, <3>1, <3>2, <4>1 DEF Bd, TypeOK
    <3>3. CASE j # BdCount - 1
      <4>1. j + 1 \in 0 .. BdCount - 1 /\ j + 1 # 0 /\ 0 \in 0 .. BdCount - 1
        BY <3>3, BdCountAssumption
      <4>2. After(consumer, j + 1) # consumer
        BY <1>t, <2>3, <4>1, RingPlaces
      <4>3. bds'[After(consumer, j + 1)] = bds[After(consumer, j + 1)]
        BY <1>0, <2>1, <3>1, <4>2 DEF TypeOK
      <4>4. bds[After(consumer, j + 1)].status = "pending" <=> c <= j + 1
        BY <2>2, <2>3, <4>1 DEF Ahead
      <4>5. c <= j + 1 <=> c - 1 <= j
        BY <2>5
      <4> QED
        BY <3>1, <4>3, <4>4, <4>5
    <3> QED
      BY <3>2, <3>3
  <2>9. Ahead(c - 1)'
    BY <2>1, <2>3, <2>6, <2>7, <2>8 DEF Ahead, After
  <2> QED
    BY <2>1, <2>3, <2>5, <2>9 DEF TailInv, NextSlot
<1>7. CASE PublishTail
  <2>1. /\ pc = "tail" /\ pc' = "send" /\ consumer' = NextSlot(consumer) /\ bds' = bds
        /\ dma'.state = dma.state /\ dma'.cur = dma.cur /\ dma'.tail = consumer /\ ~dma'.idle
    BY <1>0, <1>7 DEF PublishTail, SetTail, TypeOK
  <2> SUFFICES ASSUME dma.state = "running" PROVE TailInv'
    BY <2>1 DEF TailInv
  <2>2. Room = BdCount - 1 /\ Room' = BdCount /\ Oldest' = Oldest
    BY <2>1 DEF Oldest, Room
  <2>3. PICK c \in 0 .. BdCount - 1 : Ahead(c)
    BY <2>2 DEF TailInv
  <2>4. c # BdCount /\ c \in 0 .. BdCount
    BY <2>3, BdCountAssumption
  <2>5. Ahead(c)'
    BY <2>1, <2>2, <2>3, <2>4 DEF Ahead, After
  <2> QED
    BY <2>1, <2>2, <2>4, <2>5 DEF TailInv, NextSlot
<1>8. CASE DmaFetch
  BY <1>0, <1>a, <1>8 DEF DmaFetch, TypeOK, threadVars
<1>9. CASE DmaComplete
  <2>1. /\ UNCHANGED <<pc, consumer>> /\ dma.xfer # NoPacket
        /\ dma'.state = dma.state /\ dma'.cur = NextSlot(dma.cur) /\ dma'.xfer = NoPacket
        /\ dma'.tail = dma.tail /\ dma'.idle = (dma.idle \/ dma.cur = dma.tail)
        /\ bds' = [bds EXCEPT ![dma.cur].status = "complete"]
    BY <1>0, <1>9 DEF DmaComplete, threadVars, TypeOK
  <2> SUFFICES ASSUME dma.state = "running" PROVE TailInv'
    BY <2>1 DEF TailInv
  <2>2. Room' = Room /\ Oldest' = Oldest /\ Room \in {BdCount - 1, BdCount}
    BY <2>1 DEF Oldest, Room
  <2>3. PICK c \in 0 .. Room : Ahead(c)
    BY DEF TailInv
  <2>4. ~dma.idle /\ NextSlot(dma.tail) = consumer
    BY <2>1 DEF TailInv
  <2>5. c # Room
    BY <2>3, <2>4 DEF Ahead
  <2>6. c \in 0 .. Room - 1 /\ c \in 0 .. BdCount - 1 /\ c + 1 \in 0 .. Room
    BY <2>2, <2>5, BdCountAssumption
  <2>7. dma.cur = After(Oldest, c)
    BY <2>3 DEF Ahead
  <2>8. dma'.idle <=> c + 1 = Room
    BY <1>0, <2>1, <2>4, <2>6, <2>7, TailIsLast
  <2>9. dma'.cur = After(Oldest, c + 1)
    BY <1>n, <1>t, <2>1, <2>6, <2>7, RingPlaces
  <2>10. ASSUME NEW j \in 0 .. BdCount - 1
         PROVE  bds'[After(Oldest, j)].status = "pending" <=> c + 1 <= j
    <3>1. After(Oldest, j) \in Slots
      BY <1>n, RingPlaces
    <3>2. CASE j = c
      <4>1. bds'[dma.cur].status = "complete"
        BY <1>0, <1>t, <2>1 DEF TypeOK
      <4> QED
        BY <2>6, <2>7, <3>2, <4>1
    <3>3. CASE j # c
      <4>1. After(Oldest, j) # dma.cur
        BY <1>n, <2>6, <2>7, <3>3, RingPlaces
      <4>2. bds'[After(Oldest, j)].status = bds[After(Oldest, j)].status
        BY <1>0, <2>1, <3>1, <4>1 DEF TypeOK
      <4>3. c + 1 <= j <=> c <= j
        BY <2>6, <3>3
      <4>4. bds[After(Oldest, j)].status = "pending" <=> c <= j
        BY <2>3 DEF Ahead
      <4> QED
        BY <4>2, <4>3, <4>4
    <3> QED
      BY <3>2, <3>3
  <2>11. Ahead(c + 1)'
    BY <2>2, <2>8, <2>9, <2>10 DEF Ahead, After
  <2> QED
    BY <2>1, <2>2, <2>4, <2>6, <2>11 DEF TailInv, NextSlot
<1>10. CASE DmaFault \/ DmaSettle
  <2>1. dma'.state # "running"
    BY <1>0, <1>10 DEF DmaFault, DmaSettle, TypeOK
  <2> QED
    BY <2>1 DEF TailInv
<1>11. CASE Network
  BY <1>a, <1>11 DEF Network, ClientConnect, ClientAck, ClientReset, threadVars, dmaVars, TailInv
<1> QED
  BY <1>1, <1>2, <1>3, <1>4, <1>5, <1>6, <1>7, <1>8, <1>9, <1>10, <1>11
  DEF Next, TraceThread, ThreadStep, Engine

\* While streaming the engine only fills the buffer of its own slot, and never
\* gets to a descriptor before it is rearmed (main.c:318-324).
THEOREM EngineStaysInRing == Spec => []DmaWritesItsSlot
<1>1. IInv /\ OrderInv /\ [Next]_vars => OrderInv'
  BY FreshStep, QueueStep, RingStep DEF OrderInv
<1>2. Init => TailInv
  BY DEF Init, TailInv
<1>3. IInv /\ TailInv => DmaWritesItsSlot
  BY PendingAtCur DEF IInv, EngineInv, DmaWritesItsSlot
<1> QED
  BY InitOrder, Inductive, TailStep, <1>1, <1>2, <1>3, PTL DEF Spec
=============================================================================
