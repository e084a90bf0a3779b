------------------------------- MODULE DmaRing -------------------------------
(***************************************************************************)
(* AxiDmaRing, the ring of buffer descriptors that software and an AXI DMA *)
(* engine (S2MM, scatter/gather) share, and S2mmDma, which programs the    *)
(* engine.  The caller does what the comments ask for: it enqueues buffers *)
(* and writes the address of the last one's descriptor to the tail         *)
(* register.  The engine is external.  A descriptor's address is its index. *)
(***************************************************************************)
EXTENDS Integers, Sequences

CONSTANTS
  RingSize,    \* descriptors
  Buffers,  \* buffers the caller has
  Capacity, \* their size
  PollBudget,
  HalfEnd   \* the low half of an address is below this (2 ^ 32)

ASSUME RingAssumption ==
  /\ RingSize \in Nat /\ RingSize > 1 /\ \E n \in 1 .. 63 : RingSize = 2 ^ n   \* new refuses any other
  /\ Capacity \in Nat \ {0} /\ PollBudget \in Nat /\ HalfEnd \in Nat \ {0}

VARIABLES
  descriptors, \* of each its buffer, control and status; the links never change
  producer, consumer,
  ring,        \* what the caller does next, and with which descriptor
  tail,        \* TAILDESC: low and high half
  engine,      \* DMACR, the descriptor it is at and the tail it stops at
  filled,      \* what the engine put into the buffers not handed back (an observation)
  taken        \* what poll_completed returned last

descriptorVars == <<descriptors, producer, consumer>>
ringVars == <<descriptorVars, ring, tail, engine, filled, taken>>

Index == 0 .. RingSize - 1
Following(i) == (i + 1) % RingSize
NoBuffer == "no buffer"
Blank == [complete |-> FALSE, error |-> FALSE, length |-> 0]

\* The descriptors from the consumer up to the producer.
Enqueued == [i \in 1 .. (producer + RingSize - consumer) % RingSize |->
               descriptors[(consumer + i - 1) % RingSize]]

-----------------------------------------------------------------------------
\* AxiDmaRing::new; the engine may still be working for someone before.
RingInit ==
  /\ descriptors = [i \in Index |-> [buffer |-> NoBuffer, control |-> 0, status |-> Blank]]
  /\ producer = 0 /\ consumer = 0
  /\ ring = [do |-> "initialize", polls |-> 0, index |-> 0]
  /\ tail = <<0, 0>>
  /\ engine = [reset |-> FALSE, run |-> TRUE, going |-> FALSE, current |-> 0, stop |-> 0]
  /\ filled = <<>> /\ taken = [buffer |-> NoBuffer, length |-> 0]

\* initialize: ask for the reset ...
BeginReset ==
  /\ ring.do = "initialize"
  /\ ring' = [ring EXCEPT !.do = "resetting"]
  /\ engine' = [engine EXCEPT !.reset = TRUE, !.run = FALSE, !.going = FALSE]
  /\ UNCHANGED <<descriptorVars, tail, filled, taken>>

\* ... wait until it is over ...
PollReset ==
  /\ ring.do = "resetting" /\ engine.reset
  /\ ring' = IF ring.polls = PollBudget THEN [ring EXCEPT !.do = "ResetTimeout"]
                                        ELSE [ring EXCEPT !.polls = @ + 1]
  /\ UNCHANGED <<descriptorVars, tail, engine, filled, taken>>

\* ... and start at the descriptor that completes next.
StartEngine ==
  /\ ring.do = "resetting" /\ ~engine.reset
  /\ engine' = [engine EXCEPT !.current = consumer, !.run = TRUE]
  /\ ring' = [ring EXCEPT !.do = "ready"]
  /\ UNCHANGED <<descriptorVars, tail, filled, taken>>

\* Mutant: every descriptor may be used, and a full ring looks like an empty one.
FullNever == Len(Enqueued) = RingSize

Full == Following(producer) = consumer

\* A buffer that the caller owns goes into the ring.
enqueue(buffer) ==
  /\ ring.do \in {"ready", "submit"} /\ ~Full
  /\ \A i \in DOMAIN Enqueued : Enqueued[i].buffer # buffer
  /\ descriptors' = [descriptors EXCEPT ![producer] =
                       [buffer |-> buffer, control |-> Capacity, status |-> Blank]]
  /\ producer' = Following(producer)
  /\ ring' = [ring EXCEPT !.do = "submit", !.index = producer]
  /\ UNCHANGED <<consumer, tail, engine, filled, taken>>

\* Mutant: the halves in the other order.
LowHalfFirst(step) == step = "submit"

\* Whether this write of submit_tail is the one of the low half.
LowHalf(step) == step = "submit rest"

\* submit_tail: TAILDESC_HI, then TAILDESC_LO, which sets the engine going.
submit_tail ==
  /\ ring.do \in {"submit", "submit rest"}
  /\ ring' = [ring EXCEPT !.do = IF @ = "submit" THEN "submit rest" ELSE "ready"]
  /\ IF LowHalf(ring.do)
       THEN /\ tail' = <<ring.index % HalfEnd, tail[2]>>
            /\ engine' = [engine EXCEPT !.going = engine.run, !.stop = tail'[1] + HalfEnd * tail[2]]
       ELSE tail' = <<tail[1], ring.index \div HalfEnd>> /\ UNCHANGED engine
  /\ UNCHANGED <<descriptorVars, filled, taken>>

Completed == descriptors[consumer].status.complete /\ ~descriptors[consumer].status.error

\* The oldest buffer is handed back; one with an error never is, nor any behind it.
poll_completed ==
  /\ ring.do = "ready" /\ consumer # producer /\ Completed
  /\ taken' = [buffer |-> descriptors[consumer].buffer,
               length |-> descriptors[consumer].status.length]
  /\ descriptors' = [descriptors EXCEPT ![consumer].control = 0, ![consumer].status = Blank]
  /\ consumer' = Following(consumer)
  /\ filled' = Tail(filled)
  /\ UNCHANGED <<producer, ring, tail, engine>>

-----------------------------------------------------------------------------
\* The engine: its reset ends some time; it fills the buffers in order and
\* stops behind the tail, or at the first error.
ResetEnds ==
  /\ engine.reset
  /\ engine' = [engine EXCEPT !.reset = FALSE]
  /\ UNCHANGED <<descriptorVars, ring, tail, filled, taken>>

Fill(length, error) ==
  /\ engine.going
  /\ LET here == engine.current IN
     /\ descriptors' = [descriptors EXCEPT ![here].status =
                          [complete |-> TRUE, error |-> error, length |-> length]]
     /\ filled' = Append(filled, [buffer |-> descriptors[here].buffer, length |-> length,
                                  error |-> error])
     /\ engine' = [engine EXCEPT !.current = Following(here), !.run = ~error,
                                 !.going = here # engine.stop /\ ~error]
  /\ UNCHANGED <<producer, consumer, ring, tail, taken>>

RingNext ==
  \/ BeginReset \/ PollReset \/ StartEngine
  \/ \E b \in Buffers : enqueue(b)
  \/ submit_tail \/ poll_completed
  \/ ResetEnds \/ \E n \in 1 .. Capacity, error \in BOOLEAN : Fill(n, error)

RingSpec == RingInit /\ [][RingNext]_ringVars

-----------------------------------------------------------------------------
\* The engine works on buffers the caller has given up and not got back, once
\* each, and what a buffer's descriptor says of it is what was put there: the
\* "ownership state" of common/src/lib.rs:123-127.
EngineKeepsToTheRing ==
  /\ engine.going => engine.current = (consumer + Len(filled)) % RingSize
                     /\ Len(filled) < Len(Enqueued)
  /\ \A i \in DOMAIN filled :
       /\ i <= Len(Enqueued)
       /\ Enqueued[i].buffer = filled[i].buffer
       /\ Enqueued[i].status = [complete |-> TRUE, error |-> filled[i].error,
                                length |-> filled[i].length]

Fifo == INSTANCE BoundedFifo WITH
  Item <- Buffers \cup {NoBuffer}, Capacity <- RingSize - 1,
  queue <- [i \in DOMAIN Enqueued |-> Enqueued[i].buffer],
  last <- taken.buffer

\* Buffers come back once each in the order they were enqueued, and at most
\* RingSize - 1 of them are away (common/src/lib.rs:158-207).
RingIsAQueue == Fifo!Spec
=============================================================================
