---------------------------- MODULE MCDapMailbox ----------------------------
(* One request of every command the host tools send, their boundary cases    *)
(* and the ways they can be cut short.                                       *)
EXTENDS DapMailbox, TLC

Read == <<2>>
Write == <<0, 17, 18, 19, 20>>

Short == {<<>>, <<0, 1>>, <<8>>, <<2, 3>>, <<16, 160>>, <<5, 0>>, <<99>>}

Transfers ==
  {<<5, 0, 0>>, <<5, 0, 1>> \o Read, <<5, 0, 2>> \o Read \o Write,
   <<5, 0, 2>> \o Write \o Read, <<5, 0, 3, 2, 2, 2>>}

\* Cut short inside and between transfers.
Truncated == {<<5, 0, 2>> \o Read, <<5, 0, 1, 0, 17, 18, 19>>}

Sequence == {<<20, 1, 129, 0>>, <<20, 1, 1, 1>>}

MCRequests == Short \cup Transfers \cup Truncated \cup Sequence
=============================================================================
