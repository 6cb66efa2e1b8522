-------------------------- MODULE MCSlaveRecovery --------------------------
(***************************************************************************)
(* SlaveRecovery for TLC: three slaves, the last two of the same product.  *)
(***************************************************************************)
EXTENDS SlaveRecovery

(* A lost read of the alias of the third is what the list has for the      *)
(* second, and revision zero is what a lost read of the revision brings.   *)
MCIdentity ==
  [s \in Slaves |-> [alias |-> IF s = 3 THEN 3 ELSE 0,
                     id    |-> IF s = 1 THEN 7 ELSE 8,
                     man   |-> 5,
                     rev   |-> IF s = 1 THEN 1 ELSE 0]]
=============================================================================
