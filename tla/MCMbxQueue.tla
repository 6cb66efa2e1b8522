---------------------------- MODULE MCMbxQueue ----------------------------
(* MbxQueue for TLC: two threads, one of which calls more often.           *)
EXTENDS MbxQueue, TLC

CONSTANTS s1, s2, sl1, sl2

Calls == s1 :> 3 @@ s2 :> 1

Addressees == s1 :> {sl1} @@ s2 :> {sl2}

(* A bound on when the threads call, not on anything that follows: s1 is   *)
(* the one that starts, and it calls a third time only when it is alone    *)
(* with a full queue.                                                      *)
Paced == sends' # sends =>
           /\ sends'[s2] = 1 => sends'[s1] >= 1
           /\ sends'[s1] = 3 => listcount = PoolSize /\ spc[s2] = "idle"
===========================================================================
