------------------------------ MODULE MbxSlave ------------------------------
(***************************************************************************)
(* What SOEM meets at the other end of a slave's out mailbox: sync manager *)
(* 1 with its full bit, the firmware that fills it and repeats the last    *)
(* mail when the main device toggles the repeat request, and the wire.     *)
(* External: the code under src/ shows it through the registers it reads   *)
(* and writes.  The mails of a slave are numbered in the order the         *)
(* firmware produces them; a mail is its number and its kind.              *)
(***************************************************************************)
EXTENDS Integers

CONSTANTS NSlaves,             \* number of slaves with a mailbox
          Kinds,               \* kinds of mail they send
          MaxMail,             \* bound: mails a slave sends
          MaxLost,             \* bound: frames the wire loses
          MaxFaults            \* bound: disturbances of slaves and their marking

ASSUME MailAssumption == /\ NSlaves \in Nat \ {0}
                         /\ MaxMail \in Nat
                         /\ MaxLost \in Nat
                         /\ MaxFaults \in Nat

Slaves == 0 .. NSlaves - 1     \* a slave is its place in mbxstatuslookup

NoMail == [no |-> 0, kind |-> "none"]
Mail   == [no : 1 .. MaxMail, kind : Kinds]

VARIABLES outbox,              \* sync manager 1: the mail in it, or NoMail
          lastread,            \* the mail read last, kept for a repetition
          deferred,            \* a mail that waits for a repetition to be read
          repeatreq,           \* repeat request bit of SM1STAT (0x0200)
          repeatack,           \* repeat acknowledge bit of SM1CONTR (0x02)
          posted,              \* mails the slave has sent
          reachable,           \* it answers datagrams
          lost,                \* frames lost so far
          faults               \* faults so far

slavevars == <<outbox, lastread, deferred, repeatreq, repeatack, posted>>
linkvars  == <<reachable, faults>>

SlaveTypeOK ==
  /\ outbox \in [Slaves -> Mail \cup {NoMail}]
  /\ lastread \in [Slaves -> Mail \cup {NoMail}]
  /\ deferred \in [Slaves -> Mail \cup {NoMail}]
  /\ repeatreq \in [Slaves -> BOOLEAN]
  /\ repeatack \in [Slaves -> BOOLEAN]
  /\ posted \in [Slaves -> 0 .. MaxMail]
  /\ reachable \in [Slaves -> BOOLEAN]
  /\ lost \in 0 .. MaxLost
  /\ faults \in 0 .. MaxFaults

SlaveInit ==
  /\ outbox = [s \in Slaves |-> NoMail]
  /\ lastread = [s \in Slaves |-> NoMail]
  /\ deferred = [s \in Slaves |-> NoMail]
  /\ repeatreq = [s \in Slaves |-> FALSE]
  /\ repeatack = [s \in Slaves |-> FALSE]
  /\ posted = [s \in Slaves |-> 0]
  /\ reachable = [s \in Slaves |-> TRUE]
  /\ lost = 0
  /\ faults = 0

-----------------------------------------------------------------------------
(* The firmware. *)

(* It puts its next mail into the empty mailbox, a deferred one first; a   *)
(* repeat request is served before.                                        *)
Post(s, kind) ==
  /\ outbox[s] = NoMail
  /\ repeatreq[s] = repeatack[s]
  /\ IF deferred[s] # NoMail
     THEN /\ outbox' = [outbox EXCEPT ![s] = deferred[s]]
          /\ deferred' = [deferred EXCEPT ![s] = NoMail]
          /\ UNCHANGED posted
     ELSE /\ posted[s] < MaxMail
          /\ posted' = [posted EXCEPT ![s] = @ + 1]
          /\ outbox' = [outbox EXCEPT ![s] = [no |-> posted[s] + 1, kind |-> kind]]
          /\ UNCHANGED deferred
  /\ UNCHANGED <<lastread, repeatreq, repeatack, lost, linkvars>>

(* It sees the repeat request toggled, puts the last mail back and         *)
(* acknowledges; the mail that is in the mailbox is deferred.              *)
Repeat(s) ==
  /\ repeatreq[s] # repeatack[s]
  /\ repeatack' = [repeatack EXCEPT ![s] = repeatreq[s]]
  /\ IF lastread[s] = NoMail
     THEN UNCHANGED <<outbox, deferred>>
     ELSE /\ outbox' = [outbox EXCEPT ![s] = lastread[s]]
          /\ deferred' = IF outbox[s] \in {NoMail, lastread[s]}
                         THEN deferred
                         ELSE [deferred EXCEPT ![s] = outbox[s]]
  /\ UNCHANGED <<lastread, repeatreq, posted, lost, linkvars>>

-----------------------------------------------------------------------------
(* The wire.  A datagram is answered, lost on its way to the slave, or     *)
(* lost on its way back; a slave that is not reachable gets none.          *)

Outcomes == {"answered", "unanswered", "unsent"}

Datagram(s, outcome) ==
  IF reachable[s]
  THEN \/ outcome = "answered" /\ UNCHANGED lost
       \/ /\ outcome \in {"unanswered", "unsent"}
          /\ lost < MaxLost
          /\ lost' = lost + 1
  ELSE outcome = "unsent" /\ UNCHANGED lost

(* A read of the out mailbox that reaches it empties it.                   *)
ReadOutbox(s, outcome) ==
  IF outcome # "unsent" /\ outbox[s] # NoMail
  THEN /\ lastread' = [lastread EXCEPT ![s] = outbox[s]]
       /\ outbox' = [outbox EXCEPT ![s] = NoMail]
       /\ UNCHANGED <<deferred, repeatreq, repeatack, posted>>
  ELSE UNCHANGED slavevars

(* Only a full mailbox is read: the working counter of an empty one is 0. *)
GotMail(s, outcome) == outcome = "answered" /\ outbox[s] # NoMail

-----------------------------------------------------------------------------
(* Faults: a slave drops off the ring, and comes back with its mailboxes   *)
(* as they were or, after a restart, empty.                                *)

Disconnect(s) ==
  /\ reachable[s]
  /\ faults < MaxFaults
  /\ faults' = faults + 1
  /\ reachable' = [reachable EXCEPT ![s] = FALSE]
  /\ UNCHANGED <<slavevars, lost>>

Reconnect(s) ==
  /\ ~reachable[s]
  /\ reachable' = [reachable EXCEPT ![s] = TRUE]
  /\ UNCHANGED <<slavevars, faults, lost>>

Restart(s) ==
  /\ ~reachable[s]
  /\ outbox' = [outbox EXCEPT ![s] = NoMail]
  /\ lastread' = [lastread EXCEPT ![s] = NoMail]
  /\ deferred' = [deferred EXCEPT ![s] = NoMail]
  /\ repeatreq' = [repeatreq EXCEPT ![s] = FALSE]
  /\ repeatack' = [repeatack EXCEPT ![s] = FALSE]
  /\ UNCHANGED <<posted, linkvars, lost>>
=============================================================================
