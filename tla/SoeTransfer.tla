---------------------------- MODULE SoeTransfer ----------------------------
(***************************************************************************)
(* SoE: reading and writing an IDN in fragments that carry no number.      *)
(***************************************************************************)
EXTENDS Mails

Junk == <<"junk">>

(* ecx_SoEread.  The pointer the data is copied from was computed from the *)
(* mailbox held before the request was sent: what is copied is not the     *)
(* answer.  Data without room is dropped and the call succeeds.            *)
SoEread(c) == Ask(c, Mail("SoE", "readreq", c.obj))

CopiedWhole(c, m) == [k \in 1 .. Len(m.data) |-> Junk]
Copied(c, m) ==
  [k \in 1 .. Least(Len(m.data), c.room - Len(c.data)) |-> Junk]

SoEreadAnswer(c, m) ==
  LET got == [c EXCEPT !.data = @ \o Copied(c, m)]
  IN  IF ~(m.type = "SoE" /\ m.kind = "readres") THEN Done(c, 0)
      ELSE IF m.last THEN Done(got, 1) ELSE Await(got)

(* ecx_SoEwrite.  Between fragments it waits for the slave's mailbox to be *)
(* emptied (poll), and reads an answer only if that does not happen.       *)
SoEwrite(c) ==
  LET last == Len(c.rest) <= OutData
  IN  Ask([c EXCEPT !.rest = After(c.rest, OutData), !.more = ~last],
          [Mail("SoE", "writereq", c.obj) EXCEPT
             !.data = First(c.rest, OutData), !.last = last,
             !.at = Len(c.all) - Len(c.rest),
             !.n = IF last THEN 0 ELSE Len(c.rest) \div OutData])

SoEwriteSent(c) == IF c.more THEN [c EXCEPT !.pc = "poll"] ELSE Await(c)

SoEwriteAnswer(c, m) ==
  Done([c EXCEPT !.more = FALSE], IF m.type = "SoE" /\ m.kind = "writeres" THEN 1 ELSE 0)

SoEwriteFails(c) == IF c.more THEN SoEwrite(c) ELSE Done(c, 0)
-----------------------------------------------------------------------------
(* The IDN server of a slave, external. *)
ReadFragments(o, all) ==
  LET count == (Len(all) + InData - 1) \div InData
  IN  [k \in 1 .. count |->
         [Mail("SoE", "readres", o) EXCEPT
            !.data = First(After(all, (k - 1) * InData), InData),
            !.last = k = count]]

SoeServe(srv, store, m) ==
  LET all == (IF srv.op = "idn" /\ srv.of = m.of THEN srv.data ELSE << >>)
               \o m.data
  IN  CASE m.kind = "readreq" ->
             Served(Resting, store, ReadFragments(m.of, store[m.of]))
        [] m.kind = "writereq" ->
             IF m.last
             THEN Served(Resting, [store EXCEPT ![m.of] = all],
                         <<Mail("SoE", "writeres", m.of)>>)
             ELSE Served([op |-> "idn", of |-> m.of, data |-> all, n |-> 0,
                          size |-> 0], store, << >>)
=============================================================================
