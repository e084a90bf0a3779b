--------------------------- MODULE MCFrameService ---------------------------
(***************************************************************************)
(* Frames of at most five payload bytes.  Controller answers Request1 and  *)
(* Request2, and rejects Rejected and the empty frame.  The payload of     *)
(* Request2 looks like Request1, so that bytes read at the wrong offset    *)
(* do get executed; the header of Oversize declares six bytes.             *)
(***************************************************************************)
EXTENDS FrameService

Request1 == <<1, 0, 0, 0, 1>>
Request2 == <<5, 0, 0, 0>> \o Request1
Rejected == <<1, 0, 0, 0, 2>>
Empty    == <<0, 0, 0, 0>>
Oversize == <<6, 0, 0, 0>>

MCBytes    == {0, 1, 2, 5, 6}
MCAccepted == {<<1>>, Request1}
AllFrames  == {Request1, Request2, Rejected, Empty, Oversize}
MCGoodFrames == {Request1, Request2}
=============================================================================
