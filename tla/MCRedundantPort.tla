-------------------------- MODULE MCRedundantPort --------------------------
(* RedundantPort for TLC: two threads, and every way to address slaves.    *)
EXTENDS RedundantPort

CONSTANTS t1, t2

Calls == t1 :> {BRD(2), APWR(2, 4), APRD(1, 2), ARMW(1, 8), FPWR(1, 2), LRWDC(4, 1)}
         @@ t2 :> {LRW(6), FPRD(2, 2)}
=============================================================================
