------------------------------- MODULE Mails -------------------------------
(***************************************************************************)
(* Mailbox mails and the calls that exchange them, for the modules of the  *)
(* single protocols.  A mail keeps what the protocols look at: the         *)
(* protocol, the service, the object addressed, the payload, a number      *)
(* (toggle bit, packet, fragment or fragments left), a place (total size   *)
(* or offset), a frame number and whether it is the last.  Payloads are    *)
(* sequences of units.  Where a protocol does not number the parts of a    *)
(* transfer, the place still tells where a part belongs; nobody reads it.  *)
(***************************************************************************)
EXTENDS Integers, Sequences

CONSTANTS OutData,             \* units in a mailbox to the slave
          InData,              \* units in a mailbox from the slave
          Objects              \* <<index, subindex>> of what slaves offer

ASSUME MailSizes == OutData \in Nat \ {0} /\ InData \in Nat \ {0}
ASSUME ObjectsAssumption == Objects \subseteq Nat \X Nat

Blank == [type |-> "", kind |-> "", of |-> << >>, data |-> << >>,
          n |-> 0, at |-> 0, frame |-> 0, last |-> TRUE]
Mail(type, kind, of) ==
  [Blank EXCEPT !.type = type, !.kind = kind, !.of = of]

Largest(S) == CHOOSE n \in S : \A k \in S : k <= n
Least(a, b) == IF a < b THEN a ELSE b
First(s, k) == SubSeq(s, 1, Least(k, Len(s)))
After(s, k) == SubSeq(s, k + 1, Len(s))

(* The content of an object, unit by unit: which call wrote it, 0 for what  *)
(* the slave had.                                                          *)
Content(o, by, size) == [p \in 1 .. size |-> <<o, by, p>>]

(***************************************************************************)
(* A call: what is asked for, the room in the caller's buffer, what it has *)
(* read (data) or has yet to send (rest), NotLast or worktodo (more), a    *)
(* counter of packets or the toggle bit, and its program counter.          *)
(***************************************************************************)
NoCall == [op |-> "none", obj |-> << >>, room |-> 0, pc |-> "idle",
           out |-> Blank, kept |-> << >>, data |-> << >>, rest |-> << >>,
           more |-> FALSE, segments |-> FALSE, num |-> 0, frame |-> 0,
           zero |-> FALSE, wkc |-> 0, all |-> << >>]

Ask(c, m) == [c EXCEPT !.pc = "send", !.out = m, !.kept = m.of]
Await(c) == [c EXCEPT !.pc = "receive"]
Done(c, wkc) == [c EXCEPT !.pc = "return", !.wkc = wkc]
Over(c) == [NoCall EXCEPT !.op = c.op, !.obj = c.obj, !.room = c.room,
                          !.all = c.all, !.data = c.data, !.wkc = c.wkc]

(* What a slave's firmware does with a mail: its new state, the store and  *)
(* the mails it posts.                                                     *)
Served(srv, store, replies) == [srv |-> srv, store |-> store, replies |-> replies]
Resting == [op |-> "none", of |-> << >>, data |-> << >>, n |-> 0, size |-> 0]
=============================================================================
