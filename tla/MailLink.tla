------------------------------ MODULE MailLink ------------------------------
(***************************************************************************)
(* What the robust mailbox protocol promises of the mails of each slave:   *)
(* they are accepted one after the other.  A mail may be accepted again    *)
(* (a repetition of the last one), but the next one is passed over only    *)
(* after the slave was out of reach, was counted as lost or suspended,     *)
(* after a call that was reading the mailbox itself has given up, or when  *)
(* such a call and the handler have read it at the same time.              *)
(***************************************************************************)
EXTENDS Integers

CONSTANT NSlaves

VARIABLES posted,              \* mails each slave has sent
          accepted,            \* number of the mail accepted last
          excused,             \* mails may have been lost since
          islost,              \* the slave counts as lost
          suspended,           \* its mailbox is not handled for that reason
          reachable,           \* the slave answers
          waiting,             \* a caller reads its mailbox itself
          shared               \* and so does the handler

mailvars == <<posted, accepted, excused>>
vars == <<mailvars, islost, suspended, reachable, waiting, shared>>

Slaves == 0 .. NSlaves - 1

Init ==
  /\ posted = [s \in Slaves |-> 0]
  /\ accepted = [s \in Slaves |-> 0]
  /\ excused = [s \in Slaves |-> FALSE]

Post(s) ==
  /\ posted' = [posted EXCEPT ![s] = @ + 1]
  /\ UNCHANGED <<accepted, excused>>

Accept(s) ==
  /\ \E n \in 1 .. posted[s] :
       /\ n = accepted[s] + 1 \/ (excused[s] /\ n > accepted[s])
       /\ accepted' = [accepted EXCEPT ![s] = n]
  /\ excused' = [excused EXCEPT ![s] = shared[s]]
  /\ UNCHANGED posted

GivesUp(s) == waiting[s] /\ ~waiting'[s]

Excuse(s) ==
  /\ islost[s] \/ suspended[s] \/ ~reachable[s] \/ GivesUp(s)
  /\ excused' = [excused EXCEPT ![s] = TRUE]
  /\ UNCHANGED <<posted, accepted>>

(* The other variables change as they like. *)
Next == (\E s \in Slaves : Post(s) \/ Accept(s) \/ Excuse(s)) \/ UNCHANGED mailvars

Spec == Init /\ [][Next]_vars
=============================================================================
