---------------------------- MODULE SdoTransfer ----------------------------
(***************************************************************************)
(* CoE: SDO upload and download, expedited, normal and segmented, and the  *)
(* services that ask one question (TxPDO, object dictionary).  First what  *)
(* the calls do with an answer, a missing answer and a failed send, then   *)
(* the SDO server of a slave.                                              *)
(***************************************************************************)
EXTENDS Mails

Expedited == 1                 \* units in an expedited transfer (4 bytes)
Segment(size) == size + 1      \* a segment has 7 bytes more room

NoFlip(toggle) == toggle
Flip(toggle) == 1 - toggle
SdoResponses == {"upexp", "upinit", "upseg", "downinit", "downseg"}
IsSdoResponse(m) == m.type = "CoE" /\ m.kind \in SdoResponses
Index(o) == IF o = << >> THEN 0 ELSE o[1]

(* ecx_SDOread *)
SDOread(c) == Ask(c, Mail("CoE", "upreq", c.obj))

AskSegment(c, toggle) ==
  Ask([c EXCEPT !.more = TRUE, !.num = toggle],
      [Mail("CoE", "upsegreq", c.obj) EXCEPT !.n = toggle])

UploadAnswer(c, m) ==
  IF ~(IsSdoResponse(m) /\ Index(m.of) = Index(c.kept)) THEN Done(c, 0)
  ELSE IF m.kind = "upexp" THEN
    IF Len(m.data) <= c.room THEN Done([c EXCEPT !.data = m.data], 1)
                             ELSE Done(c, 0)
  ELSE IF m.at > c.room THEN Done(c, 0)
  ELSE IF Len(m.data) < m.at THEN AskSegment([c EXCEPT !.data = m.data], 0)
  ELSE Done([c EXCEPT !.data = m.data], 1)

SegmentAnswer(c, m) ==
  LET more == [c EXCEPT !.data = @ \o m.data]
  IN  IF ~(m.type = "CoE" /\ m.kind = "upseg") THEN Done(c, 0)
      ELSE IF m.last THEN Done(more, 1)
      ELSE AskSegment(more, Flip(c.num))

SDOreadAnswer(c, m) == IF c.more THEN SegmentAnswer(c, m) ELSE UploadAnswer(c, m)

(* NotLast stays TRUE when a segment is not sent or not answered. *)
SDOreadFails(c) == IF c.more THEN AskSegment(c, Flip(c.num)) ELSE Done(c, 0)

(* ecx_SDOwrite *)
SDOwrite(c) ==
  IF Len(c.rest) <= Expedited
  THEN Ask([c EXCEPT !.rest = << >>],
           [Mail("CoE", "downexp", c.obj) EXCEPT !.data = c.rest])
  ELSE Ask([c EXCEPT !.rest = After(c.rest, OutData),
                     !.more = Len(c.rest) > OutData],
           [Mail("CoE", "downreq", c.obj) EXCEPT
              !.data = First(c.rest, OutData), !.at = Len(c.rest)])

SendSegment(c, toggle) ==
  LET size == Segment(OutData)
      last == Len(c.rest) <= size
  IN  Ask([c EXCEPT !.rest = After(c.rest, size), !.more = ~last,
                    !.segments = TRUE, !.num = toggle],
          [Mail("CoE", "downsegreq", c.obj) EXCEPT
             !.data = First(c.rest, size), !.n = toggle, !.last = last,
             !.at = Len(c.all) - Len(c.rest)])

NextSegment(c) ==
  SendSegment(c, IF c.segments THEN Flip(c.num) ELSE 0)

SDOwriteAnswer(c, m) ==
  LET ok == IF c.segments THEN m.type = "CoE" /\ m.kind = "downseg"
                          ELSE IsSdoResponse(m) /\ m.of = c.kept
  IN  IF ~ok THEN Done(c, 0)
      ELSE IF c.more THEN NextSegment(c) ELSE Done(c, 1)

SDOwriteFails(c) ==
  IF c.segments /\ c.more THEN NextSegment(c) ELSE Done(c, 0)

(* ecx_RxPDO, ecx_TxPDO *)
RxPDO(c) == Ask(c, [Mail("CoE", "rxpdo", c.obj) EXCEPT
                      !.data = First(c.rest, OutData)])
TxPDO(c) == Ask(c, Mail("CoE", "txpdoreq", c.obj))
TxPDOAnswer(c, m) ==
  IF m.type = "CoE" /\ m.kind = "txpdo" /\ Len(m.data) <= c.room
  THEN Done([c EXCEPT !.data = m.data], 1) ELSE Done(c, 0)

(* ecx_readODlist.  ecx_readODdescription and ecx_readOEsingle ask in the  *)
(* same way and read one answer.                                           *)
readODlist(c) == Ask(c, Mail("CoE", "odlistreq", c.obj))
readODlistAnswer(c, m) ==
  LET room == c.room - Len(c.data)
      got == [c EXCEPT !.data = @ \o First(m.data, room)]
  IN  IF ~(m.type = "CoE" /\ m.kind = "odlist") THEN Done(c, 0)
      ELSE IF m.n > 0 THEN Await(got) ELSE Done(got, 1)

readODdescription(c) == Ask(c, Mail("CoE", "odreq", c.obj))
readOEsingle(c) == Ask(c, Mail("CoE", "oereq", c.obj))
ODAnswer(c, m) ==
  IF m.type = "CoE" /\ m.kind = (IF c.op = "readOEsingle" THEN "oe" ELSE "od")
  THEN Done([c EXCEPT !.data = First(m.data, c.room)], 1) ELSE Done(c, 0)
-----------------------------------------------------------------------------
(* The SDO server of a slave, external: it answers requests as CANopen     *)
(* asks of it, and refuses a segment with the wrong toggle bit, without a  *)
(* transfer under way, or of the wrong total size.                         *)
Abort == Mail("CoE", "abort", << >>)

Upload(srv, store, m) ==
  LET all == store[m.of] IN
  IF Len(all) <= Expedited
  THEN Served(Resting, store, <<[Mail("CoE", "upexp", m.of) EXCEPT !.data = all]>>)
  ELSE Served([op |-> IF Len(all) > InData THEN "up" ELSE "none", of |-> m.of,
               data |-> After(all, InData), n |-> 0, size |-> Len(all)], store,
              <<[Mail("CoE", "upinit", m.of) EXCEPT !.data = First(all, InData),
                                                    !.at = Len(all)]>>)

UploadSegment(srv, store, m) ==
  LET size == Segment(InData)
      last == Len(srv.data) <= size
  IN  IF srv.op # "up" \/ m.n # srv.n THEN Served(Resting, store, <<Abort>>)
      ELSE Served(IF last THEN Resting
                  ELSE [srv EXCEPT !.data = After(@, size), !.n = 1 - @], store,
                  <<[Mail("CoE", "upseg", << >>) EXCEPT
                       !.data = First(srv.data, size), !.n = m.n, !.last = last,
                       !.at = srv.size - Len(srv.data)]>>)

Download(srv, store, m) ==
  LET all == m.kind = "downexp" \/ Len(m.data) = m.at
  IN  Served(IF all THEN Resting
             ELSE [op |-> "down", of |-> m.of, data |-> m.data, n |-> 0,
                   size |-> m.at],
             IF all THEN [store EXCEPT ![m.of] = m.data] ELSE store,
             <<Mail("CoE", "downinit", m.of)>>)

DownloadSegment(srv, store, m) ==
  LET all == srv.data \o m.data
      bad == \/ srv.op # "down" \/ m.n # srv.n
             \/ m.last /\ Len(all) # srv.size
  IN  IF bad THEN Served(Resting, store, <<Abort>>)
      ELSE Served(IF m.last THEN Resting
                  ELSE [srv EXCEPT !.data = all, !.n = 1 - @],
                  IF m.last THEN [store EXCEPT ![srv.of] = all] ELSE store,
                  <<Mail("CoE", "downseg", << >>)>>)

(* The object list comes in fragments, whose last one has zero left. *)
ListFragments(all) ==
  LET count == (Len(all) + InData - 1) \div InData
  IN  [k \in 1 .. count |->
         [Mail("CoE", "odlist", << >>) EXCEPT
            !.data = First(After(all, (k - 1) * InData), InData),
            !.at = (k - 1) * InData, !.n = count - k]]

CoeServe(srv, store, m) ==
  LET reply(kind) == <<[Mail("CoE", kind, m.of) EXCEPT
                          !.data = First(store[m.of], InData)]>>
  IN  CASE m.kind = "upreq" -> Upload(srv, store, m)
        [] m.kind = "upsegreq" -> UploadSegment(srv, store, m)
        [] m.kind \in {"downexp", "downreq"} -> Download(srv, store, m)
        [] m.kind = "downsegreq" -> DownloadSegment(srv, store, m)
        [] m.kind = "rxpdo" ->
             Served(srv, [store EXCEPT ![m.of] = m.data], << >>)
        [] m.kind = "txpdoreq" -> Served(srv, store, reply("txpdo"))
        [] m.kind = "odreq" -> Served(srv, store, reply("od"))
        [] m.kind = "oereq" -> Served(srv, store, reply("oe"))
        [] m.kind = "odlistreq" -> Served(srv, store, ListFragments(store[m.of]))
=============================================================================
