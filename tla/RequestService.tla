--------------------------- MODULE RequestService ---------------------------
(***************************************************************************)
(* What TCP 3401 and TCP 3240 promise a client that speaks the protocol:   *)
(* every request of a connection is executed once, in the order sent, each *)
(* reply belongs to the request just executed and goes out before the next *)
(* request is executed, and a new connection starts from nothing.          *)
(***************************************************************************)
EXTENDS Naturals, Sequences

CONSTANT Requests   \* the requests a client may make

VARIABLES
  open,      \* a client is connected
  pending,   \* its requests not executed yet, oldest first
  executed,  \* its requests executed so far
  answered   \* its requests answered so far

vars == <<open, pending, executed, answered>>

Init == open = FALSE /\ pending = <<>> /\ executed = <<>> /\ answered = <<>>

Connect ==
  /\ ~open
  /\ open' = TRUE /\ pending' = <<>> /\ executed' = <<>> /\ answered' = <<>>

Request ==
  /\ open
  /\ \E r \in Requests : pending' = Append(pending, r)
  /\ UNCHANGED <<open, executed, answered>>

Execute ==
  /\ open /\ pending # <<>> /\ answered = executed
  /\ executed' = Append(executed, Head(pending))
  /\ pending' = Tail(pending)
  /\ UNCHANGED <<open, answered>>

Answer ==
  /\ open /\ answered # executed
  /\ answered' = executed
  /\ UNCHANGED <<open, pending, executed>>

Close ==
  /\ open
  /\ open' = FALSE /\ pending' = <<>> /\ executed' = <<>> /\ answered' = <<>>

Next == Connect \/ Request \/ Execute \/ Answer \/ Close

Spec == Init /\ [][Next]_vars
=============================================================================
