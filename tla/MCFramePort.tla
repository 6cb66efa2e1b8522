---------------------------- MODULE MCFramePort ----------------------------
(* FramePort for TLC: two threads, one of which calls more often.          *)
EXTENDS FramePort, TLC

CONSTANTS t1, t2

Calls == t1 :> 3 @@ t2 :> 1
=============================================================================
