---------------------------- MODULE FoeTransfer ----------------------------
(***************************************************************************)
(* FoE: reading and writing a file in numbered packets, each acknowledged. *)
(* The file ends with the first packet that is not full.                   *)
(***************************************************************************)
EXTENDS Mails

Packet(kind, n) == [Mail("FoE", kind, << >>) EXCEPT !.n = n]

(* ecx_FOEread: num is prevpacket, more is worktodo.  What counts as full  *)
(* is taken from the mailbox to the slave.                                 *)
FOEread(c) == Ask([c EXCEPT !.more = TRUE], Mail("FoE", "read", c.obj))

InOrder(c, m) == m.n = c.num + 1

FOEreadAnswer(c, m) ==
  IF /\ m.type = "FoE" /\ m.kind = "data"
     /\ InOrder(c, m) /\ Len(c.data) + Len(m.data) <= c.room
  THEN Ask([c EXCEPT !.data = @ \o m.data, !.num = @ + 1,
                     !.more = Len(m.data) = OutData],
           Packet("ack", m.n))
  ELSE Done(c, 0)

(* ecx_FOEwrite: num is sendpacket, zero is dofinalzero, out keeps the     *)
(* packet sent last.                                                       *)
FOEwrite(c) == Ask([c EXCEPT !.zero = TRUE], Mail("FoE", "write", c.obj))

FinalZero(left, chunk) == left = << >> /\ Len(chunk) = OutData

SendPacket(c) ==
  LET chunk == First(c.rest, OutData)
      left == After(c.rest, OutData)
  IN  IF chunk # << >> \/ c.zero
      THEN Ask([c EXCEPT !.rest = left, !.num = @ + 1,
                         !.zero = FinalZero(left, chunk)],
               [Packet("data", c.num + 1) EXCEPT !.data = chunk])
      ELSE Done(c, 1)

FOEwriteAnswer(c, m) ==
  IF m.type # "FoE" THEN Done(c, 0)
  ELSE CASE m.kind = "ack" -> IF m.n = c.num THEN SendPacket(c) ELSE Done(c, 0)
         [] m.kind = "busy" ->
              IF c.num = 0 THEN Done(c, 1)
              ELSE SendPacket([c EXCEPT !.rest = c.out.data \o @, !.num = @ - 1])
         [] OTHER -> Done(c, 0)
-----------------------------------------------------------------------------
(* The file server of a slave, external: it numbers the packets it sends,  *)
(* takes those it receives in order, and may be busy.                      *)
SendData(srv, store) ==
  LET chunk == First(srv.data, InData)
  IN  Served([srv EXCEPT !.data = After(@, InData), !.n = @ + 1,
                         !.op = IF Len(chunk) < InData THEN "none" ELSE "fread"],
             store,
             <<[Packet("data", srv.n + 1) EXCEPT !.data = chunk]>>)

Reject(store) == Served(Resting, store, <<Packet("error", 0)>>)

TakeData(srv, store, m) ==
  LET all == srv.data \o m.data
      end == Len(m.data) < OutData
  IN  IF srv.op # "fwrite" \/ m.n # srv.n + 1 THEN Reject(store)
      ELSE Served(IF end THEN Resting
                  ELSE [srv EXCEPT !.data = all, !.n = m.n],
                  IF end THEN [store EXCEPT ![srv.of] = all] ELSE store,
                  <<Packet("ack", m.n)>>)

FoeServe(srv, store, m) ==
  LET open(op, data) == [op |-> op, of |-> m.of, data |-> data, n |-> 0, size |-> 0]
  IN  CASE m.kind = "read" -> SendData(open("fread", store[m.of]), store)
        [] m.kind = "ack" -> IF srv.op = "fread" /\ m.n = srv.n
                             THEN SendData(srv, store)
                             ELSE Served(srv, store, << >>)
        [] m.kind = "write" -> Served(open("fwrite", << >>), store,
                                      <<Packet("ack", 0)>>)
        [] m.kind = "data" -> TakeData(srv, store, m)

(* A busy slave leaves the packet, or the request, to be sent again. *)
Busy(srv, store) == Served(srv, store, <<Packet("busy", 0)>>)
=============================================================================
