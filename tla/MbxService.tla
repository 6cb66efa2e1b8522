----------------------------- MODULE MbxService -----------------------------
(***************************************************************************)
(* What ecx_mbxsend promises its caller, without queue, pool or handler.   *)
(* A message may reach the mailbox of its slave several times, for a write *)
(* whose confirmation is lost is repeated; but none is put into another    *)
(* slave's mailbox, and one whose write is confirmed is not written again: *)
(* no message is ever amiss.  A call that reports success has had its      *)
(* message confirmed.  A call that reports failure promises nothing: the   *)
(* message may have been received, even confirmed, may still be received   *)
(* later, or may be lost.                                                  *)
(***************************************************************************)

CONSTANT Messages

VARIABLES phase,               \* message -> how far its call has come
          accepted,            \* messages whose transmission was confirmed
          amiss                \* messages put where they should not be

vars == <<phase, accepted, amiss>>

Phases == {"unused", "pending", "ok", "failed"}

Init == /\ phase = [m \in Messages |-> "unused"]
        /\ accepted = {}
        /\ amiss = {}

Call(m) == /\ phase[m] = "unused"
           /\ phase' = [phase EXCEPT ![m] = "pending"]
           /\ UNCHANGED <<accepted, amiss>>

Accept(m) == /\ phase[m] \in {"pending", "failed"}
             /\ accepted' = accepted \cup {m}
             /\ UNCHANGED <<phase, amiss>>

Succeed(m) == /\ phase[m] = "pending"
              /\ m \in accepted
              /\ phase' = [phase EXCEPT ![m] = "ok"]
              /\ UNCHANGED <<accepted, amiss>>

Fail(m) == /\ phase[m] = "pending"
           /\ phase' = [phase EXCEPT ![m] = "failed"]
           /\ UNCHANGED <<accepted, amiss>>

Next == \E m \in Messages : Call(m) \/ Accept(m) \/ Succeed(m) \/ Fail(m)

Spec == Init /\ [][Next]_vars
=============================================================================
