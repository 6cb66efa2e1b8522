--------------------------- MODULE MbxInvariants ---------------------------
(***************************************************************************)
(* What holds of the mails, the calls and the slave of MbxTransfers while  *)
(* a service is under way: their types, the buffers a call has, and for    *)
(* every service how far the slave and the caller are with its data.       *)
(***************************************************************************)
EXTENDS MbxTransfers

Units == (Objects \X Nat \X Nat) \cup {Junk, Stamp}
Data == Seq(Units)

Kinds == {"", "upreq", "upsegreq", "downexp", "downreq", "downsegreq", "rxpdo",
          "txpdoreq", "odreq", "oereq", "odlistreq", "upexp", "upinit", "upseg",
          "downinit", "downseg", "abort", "txpdo", "od", "oe", "odlist",
          "read", "write", "ack", "data", "busy", "error",
          "readreq", "readres", "writereq", "writeres",
          "initreq", "initresp", "getipreq", "getipresp", "frag", "stamped"}
Protocols == {"CoE", "FoE", "SoE", "EoE"}
AnyMail == [type : Protocols \cup {""}, kind : Kinds,
            of : Objects \cup {<< >>}, data : Data, n : Int, at : Int, frame : Nat,
            last : BOOLEAN]

CoeRequests == {"upreq", "upsegreq", "downexp", "downreq", "downsegreq", "rxpdo",
                "txpdoreq", "odreq", "oereq", "odlistreq"}
AnyRequest ==
  {m \in AnyMail :
     \/ m.type = "CoE" /\ m.kind \in CoeRequests /\ m.of \in Objects
     \/ m.type = "FoE" /\ m.kind \in {"read", "write"} /\ m.of \in Objects
     \/ m.type = "FoE" /\ m.kind \in {"ack", "data"}
     \/ m.type = "SoE" /\ m.kind \in {"readreq", "writereq"} /\ m.of \in Objects
     \/ m.type = "EoE" /\ m.kind \in {"initreq", "getipreq", "frag"} /\ m.of \in Objects}

Places == {"idle", "drain", "send", "receive", "poll", "return"}
AnyCall == [op : Services \cup {"none"}, obj : Objects \cup {<< >>}, room : Nat,
            pc : Places, out : AnyMail, kept : Objects \cup {<< >>, Foreign},
            data : Data, rest : Data, more : BOOLEAN, segments : BOOLEAN, num : Int,
            frame : Nat, zero : BOOLEAN, wkc : {0, 1}, all : Data]

(* A call under way, and what stays as it is in all its steps.             *)
Active(c) == c \in AnyCall /\ c.op \in Services /\ c.obj \in Objects
Keeps(c, d) == /\ d.op = c.op /\ d.obj = c.obj /\ d.room = c.room /\ d.all = c.all
               /\ DOMAIN d = DOMAIN c

(* Where a call can be: some send without waiting for an answer, only      *)
(* ecx_SoEwrite polls.                                                     *)
PlaceOK(c) == /\ c.pc \in {"send", "receive", "poll", "return"}
              /\ c.pc = "receive" => c.op \notin {"RxPDO", "EOEsend"}
              /\ c.pc = "poll" => c.op = "SoEwrite"
              /\ c.pc = "send" => c.out \in AnyRequest

StepOf(c, d) == d \in AnyCall /\ Keeps(c, d) /\ PlaceOK(d)

PlainMail(m, type, kind, of) ==
  /\ m.type = type /\ m.kind = kind /\ m.of = of
  /\ m.data = << >> /\ m.n = 0 /\ m.at = 0 /\ m.frame = 0 /\ m.last = TRUE

-----------------------------------------------------------------------------
(* Requests.  Their kind and object are those of the mail they start from, *)
(* whatever else is filled in.                                             *)
Like(m, r) == m.type = r.type /\ m.kind = r.kind /\ m.of = r.of

-----------------------------------------------------------------------------
(* The services together.  What a service has read of a list or an IDN     *)
(* fits its buffer at any time.                                            *)
InRoom(c) == c.op \in {"readODlist", "SoEread"} => Len(c.data) <= c.room

-----------------------------------------------------------------------------
(* What a slave does with a request keeps the types, whatever the request. *)
SlaveOps == {"none", "up", "down", "fread", "fwrite", "idn", "frame"}
Addressed == Objects \cup {<< >>} \cup {<<k>> : k \in Nat}
AnySlave == [op : SlaveOps, of : Addressed,
             data : Data, n : Int, size : Int]
SlaveSane(s) == s \in AnySlave /\ (s.op \in {"down", "fwrite"} => s.of \in Objects)
AnyStore == [Objects -> Data]
ServedOK(r) == /\ SlaveSane(r.srv) /\ r.store \in AnyStore
               /\ r.replies \in Seq(AnyMail)

AnyFrag == [n : Int, size : Int, frame : Nat, data : Data]

-----------------------------------------------------------------------------
(* What a service has read fits its buffer at any time; of an SDO this     *)
(* depends on the mails under way.                                         *)
Bounded == {"none", "TxPDO", "readODlist", "readODdescription", "readOEsingle", "FOEread",
            "SoEread", "EOErecv"}
Fits(c) == c.op \in Bounded => Len(c.data) <= c.room

(* Fields that asking, waiting and returning leave alone.                  *)
Same(c, d) == /\ d.data = c.data /\ d.rest = c.rest /\ d.more = c.more
              /\ d.segments = c.segments /\ d.num = c.num /\ d.frame = c.frame
              /\ d.zero = c.zero

-----------------------------------------------------------------------------
(* The invariant about types, places and buffers.                          *)
Control ==
  /\ call \in AnyCall
  /\ call.pc # "idle" => Active(call)
  /\ call.pc \notin {"idle", "drain"} => PlaceOK(call)
  /\ call.pc = "drain" => call.op \notin NoDrain
  /\ Fits(call)
UnderWay == toslave \in Seq(AnyRequest) /\ tomaster \in Seq(AnyMail)
SlaveState == SlaveSane(srv) /\ store \in AnyStore /\ sent \in Nat
HookState == frag \in AnyFrag /\ frames \in SUBSET Data
Counters == txframeno \in 0 .. FrameNumbers - 1 /\ calls \in Nat
Mine == IF mbxin = "held" THEN 1 ELSE 0
Balance ==
  /\ free \in Int /\ astray \in Int /\ mbxin \in {"null", "held", "dropped"}
  /\ free + Taken(call) + Mine = Pool + astray
  /\ call.pc \in {"idle", "drain"} => mbxin = "null"
Base == Control /\ UnderWay /\ SlaveState /\ HookState /\ Counters /\ Balance

(* A call as it begins.                                                    *)
Opened(op, o, room, all, frame) ==
  [NoCall EXCEPT !.op = op, !.obj = o, !.room = room, !.rest = all, !.all = all,
                 !.frame = frame]
Drains(c) == [c EXCEPT !.pc = "drain"]
Newborn(c, op, o, room, all, frame) ==
  /\ Active(c) /\ c.op = op /\ c.obj = o /\ c.room = room /\ c.data = << >>
  /\ c.rest = all /\ c.all = all /\ c.frame = frame /\ c.num = 0
  /\ c.more = FALSE /\ c.segments = FALSE /\ c.zero = FALSE /\ c.wkc = 0

-----------------------------------------------------------------------------
(* A call that begins when nothing is under way.                           *)
Starting(c) == /\ Active(c) /\ c.data = << >> /\ c.rest = c.all /\ c.num = 0
               /\ c.more = FALSE /\ c.segments = FALSE /\ c.zero = FALSE /\ c.wkc = 0
Born == call.pc = "drain" => Starting(call)

Frags == {m \in AnyMail : IsFragment(m)}

(* What can happen before and in such a call, as far as its mails, its     *)
(* slave and its own state go.                                             *)
Opening == /\ toslave' = << >> /\ tomaster' = << >> /\ srv.op # "idn"
           /\ UNCHANGED <<srv, store>>
           /\ \E c : Starting(c) /\ (call' = Drains(c) \/ call' = Begin(c))
Wire == /\ UNCHANGED <<call, toslave, srv, store>>
        /\ \/ tomaster' = tomaster
           \/ /\ tomaster # << >> /\ tomaster' = Tail(tomaster)
              /\ IsFragment(Head(tomaster)) \/ "lost" \in faults'
           \/ /\ tomaster # << >> /\ tomaster' = <<Head(tomaster)>> \o tomaster
              /\ "repeated" \in faults'
           \/ \E fs \in Seq(Frags) : tomaster' = tomaster \o fs
Ending == /\ call' = Over(call) /\ UNCHANGED <<toslave, srv, store>>
          /\ \/ call.pc = "return" /\ tomaster' = tomaster
             \/ /\ Starting(call)
                /\ tomaster' = tomaster \/ (tomaster # << >> /\ tomaster' = Tail(tomaster))
Sending == /\ call.pc = "send" /\ ~gone /\ toslave' = Append(toslave, call.out)
           /\ call' = Sent(call) /\ UNCHANGED <<tomaster, srv, store>>
NotSending == /\ call.pc = "send" /\ call' = Fails(call)
              /\ UNCHANGED <<tomaster, srv, store>>
              /\ \/ toslave' = toslave /\ ("unsent" \in faults' \/ gone)
                 \/ toslave' = Append(toslave, call.out) /\ "unconfirmed" \in faults'
Hearing == /\ call.pc = "receive" /\ tomaster # << >> /\ tomaster' = Tail(tomaster)
           /\ UNCHANGED <<toslave, srv, store>>
           /\ \/ call' = Answer(call, Head(tomaster))
              \/ /\ Segmented(Answer(call, Head(tomaster))) /\ "dry" \in faults'
                 /\ call' = Done([Answer(call, Head(tomaster)) EXCEPT !.more = FALSE], 1)
NotHearing == /\ call.pc = "receive" /\ call' = Fails(call)
              /\ UNCHANGED <<mailvars, srv, store>>
              /\ Unanswered \/ "late" \in faults'
Polling == /\ call.pc = "poll" /\ UNCHANGED <<mailvars, srv, store>>
           /\ \/ toslave = << >> /\ call' = SoEwrite(call)
              \/ call' = Await(call) /\ (gone \/ "late" \in faults')
Mixing == /\ call.pc = "receive" /\ UNCHANGED <<mailvars, srv, store>>
          /\ \E o \in Objects \cup {Foreign} : call' = [call EXCEPT !.kept = o]
Serving == /\ toslave # << >> /\ ~gone /\ UNCHANGED call
           /\ LET m == Head(toslave)
              IN  \/ Deliver(SlaveDoes(srv, store, m))
                  \/ /\ Deliver(Busy(srv, store)) /\ m.kind \in {"write", "data"}
                     /\ \/ "busyend" \in faults'
                        \/ m.kind = "data" /\ m.data # << >> /\ "busy" \in faults'
                  \/ /\ Deliver(Served(Resting, store, <<Abort>>))
                     /\ m.kind \in {"upreq", "downreq", "upsegreq", "downsegreq"}
                     /\ "refused" \in faults'
Turn == Wire \/ Ending \/ Sending \/ NotSending \/ Hearing \/ NotHearing \/ Polling
        \/ Mixing \/ Serving

-----------------------------------------------------------------------------
(* Services that ask once and read one mail: ecx_TxPDO, ecx_EOEgetIp.      *)
OneQuestion == {"TxPDO", "EOEgetIp"}
Readout(c, st) == IF c.op = "TxPDO" THEN First(st[c.obj], InData) ELSE st[c.obj]
Questions(c) ==
  {m \in AnyRequest :
     /\ m.type = (IF c.op = "TxPDO" THEN "CoE" ELSE "EoE")
     /\ m.kind = (IF c.op = "TxPDO" THEN "txpdoreq" ELSE "getipreq")
     /\ m.of = c.obj}
Replies(c, st) ==
  {m \in AnyMail :
     \/ IsFragment(m)
     \/ /\ m.kind = (IF c.op = "TxPDO" THEN "txpdo" ELSE "getipresp")
        /\ m.data = Readout(c, st)}
Asked(c, ts, tm, st) ==
  c.op \in OneQuestion =>
    /\ c.obj \in Objects /\ ts \in Seq(Questions(c)) /\ tm \in Seq(Replies(c, st))
    /\ c.pc = "send" => c.out \in Questions(c)
    /\ c.wkc = 1 => c.data = Readout(c, st)
AskedInv == quiet => Asked(call, toslave, tomaster, store)

(* What a successful read returns, where the answer is one mail.           *)
ExactAnswer == Success /\ quiet /\ call.op \in InOneMail => call.data = Readable
-----------------------------------------------------------------------------
(* Parts of an object: where they belong, and that they are right.         *)
Piece(all, a, d) == /\ a \in Nat /\ d \in Data /\ a + Len(d) <= Len(all)
                    /\ \A p \in 1 .. Len(d) : d[p] = all[a + p]
End(m) == m.at + Len(m.data)

(* Services whose answer comes in several mails: ecx_SDOread,              *)
(* ecx_readODlist.  A part is a segment or a fragment of the list.         *)
Several == {"SDOread", "readODlist"}
Inquiries(c) ==
  {m \in AnyRequest :
     /\ m.type = "CoE" /\ m.of = c.obj
     /\ m.kind \in (IF c.op = "SDOread" THEN {"upreq", "upsegreq"} ELSE {"odlistreq"})}
IsPart(m) == m.kind \in {"upseg", "odlist"}
LastPart(m) == IF m.kind = "upseg" THEN m.last ELSE m.n <= 0
Initial(all, m) ==
  \/ IsFragment(m) \/ m.kind = "abort"
  \/ m.kind = "upexp" /\ m.data = all
  \/ m.kind = "upinit" /\ m.data = First(all, InData) /\ m.at = Len(all)
PartOf(all, m) == /\ IsPart(m) /\ Piece(all, m.at, m.data)
                  /\ LastPart(m) => End(m) = Len(all)
Parts(all) == {m \in AnyMail : Initial(all, m) \/ PartOf(all, m)}

(* Parts come in order, after what was read; up to the room there is, and  *)
(* where none was lost, without a gap.                                     *)
InPlace(d, tm) ==
  \A i \in 1 .. Len(tm) : IsPart(tm[i]) =>
    /\ Len(d) <= tm[i].at
    /\ \A j \in 1 .. i - 1 : IsPart(tm[j]) => End(tm[j]) <= tm[i].at
Covered(tm, k, q) == \E j \in 1 .. k : IsPart(tm[j]) /\ tm[j].at <= q /\ q < End(tm[j])
Reached(d, tm, room, k, p) ==
  \A q \in Len(d) .. p - 1 : q < room => Covered(tm, k, q)
Gapless(d, tm, room) ==
  \A i \in 1 .. Len(tm) : IsPart(tm[i]) => Reached(d, tm, room, i - 1, tm[i].at)

(* The slave's transfer is this upload, past what was read and sent.       *)
Position(s) == s.size - Len(s.data)
Uploads(s, all) == /\ s.size = Len(all) /\ Piece(all, Position(s), s.data)
                   /\ s.data # << >> /\ Position(s) >= InData
Beyond(s, d, tm) == /\ Len(d) <= Position(s)
                    /\ \A i \in 1 .. Len(tm) : IsPart(tm[i]) => End(tm[i]) <= Position(s)

Pending(c, ts) == IF c.pc = "send" THEN Append(ts, c.out) ELSE ts
Openers == {m \in AnyRequest : m.kind \in {"upreq", "odlistreq"}}
Unheard(c, ts, tm) ==
  /\ c.data = << >> /\ c.more = FALSE /\ tm \in Seq(Frags)
  /\ Pending(c, ts) \in Seq(Openers) /\ Len(Pending(c, ts)) = 1
Going(c, tm, s, all, exact) ==
  /\ InPlace(c.data, tm)
  /\ exact => Piece(all, 0, c.data) /\ Gapless(c.data, tm, c.room)
  /\ c.op = "SDOread" =>
       /\ Len(all) <= c.room
       /\ s.op = "up" =>
            /\ Beyond(s, c.data, tm)
            /\ exact => Reached(c.data, tm, c.room, Len(tm), Position(s))
Told(c, ts, tm, s, all, exact) ==
  /\ Pending(c, ts) \in Seq({m \in AnyRequest : m.kind = "upsegreq"})
  /\ tm \in Seq(Parts(all))
  /\ c.op = "SDOread" /\ s.op = "up" => Uploads(s, all)
  /\ IF c.op = "SDOread" /\ ~c.more
     THEN /\ c.data = << >> /\ Pending(c, ts) = << >>
          /\ \A i \in 1 .. Len(tm) : ~IsPart(tm[i])
          /\ s.op = "up" => Position(s) = InData
     ELSE Going(c, tm, s, all, exact)
Whole(c, st) == IF c.op = "readODlist" THEN First(st[c.obj], c.room) ELSE st[c.obj]
Reading(c, ts, tm, s, st, exact) ==
  /\ c.obj \in Objects /\ ts \in Seq(Inquiries(c)) /\ Len(c.data) <= c.room
  /\ c.pc = "send" => c.out \in Inquiries(c)
  /\ c.wkc = 1 /\ exact => c.data = Whole(c, st)
  /\ c.pc \in {"send", "receive"} =>
       /\ c.wkc # 1
       /\ Unheard(c, ts, tm) \/ Told(c, ts, tm, s, st[c.obj], exact)
ReadingInv ==
  quiet /\ call.op \in Several /\ "repeated" \notin faults =>
    Reading(call, toslave, tomaster, srv, store, faults \cap {"lost", "dry"} = {})

-----------------------------------------------------------------------------
(* Reads in several mails, turn by turn.                                   *)
NoParts(tm) == \A i \in 1 .. Len(tm) : ~IsPart(tm[i])

Placed(s) == s.op = "up" => Position(s) \in Int
HasRead(c, tm, s, all, exact, e) ==
  /\ e \in Data /\ Len(e) <= c.room
  /\ c.op = "SDOread" => e = c.data \o Head(tm).data
  /\ exact => Piece(all, 0, e) /\ Len(e) = Least(c.room, End(Head(tm)))
  /\ \A d : Keeps(c, d) /\ d.data = e => Going(d, Tail(tm), s, all, exact)

AsksOn(c, e, d) ==
  /\ d.pc = "send" /\ d.more = TRUE /\ d.data = e /\ d.wkc = c.wkc /\ Keeps(c, d)
  /\ d.out \in Inquiries(c) /\ d.out \in AnyRequest /\ d.out.kind = "upsegreq"

-----------------------------------------------------------------------------
(* ecx_EOEsetIp: the slave says that it has the data after it has put it   *)
(* in its place, and every request has the same data.                      *)
Settings(c) == {m \in AnyRequest : /\ m.type = "EoE" /\ m.kind = "initreq"
                                   /\ m.of = c.obj /\ m.data = c.all}
Setting(c, ts, tm, st) ==
  c.op = "EOEsetIp" =>
    /\ c.obj \in Objects /\ ts \in Seq(Settings(c))
    /\ c.pc = "send" => c.out \in Settings(c)
    /\ c.wkc = 1 \/ tm \notin Seq(Frags) => st[c.obj] = c.all
SettingInv == quiet => Setting(call, toslave, tomaster, store)

-----------------------------------------------------------------------------
(* Requests that carry data: where one begins and where it ends, and the   *)
(* number that goes with it: a toggle bit or the number of a fragment, -1  *)
(* before a download has begun, 1 after the last of an IDN, 2 after that   *)
(* of a download.  A chain of them leaves no gap.                          *)
Spot(m) == IF m.kind \in {"writereq", "downsegreq"} THEN m.at
           ELSE IF m.kind = "frag" /\ m.n > 0 THEN m.at * Block ELSE 0
From(m) == <<Spot(m), IF m.kind \in {"downsegreq", "frag"} THEN m.n
                      ELSE IF m.kind \in {"downexp", "downreq"} THEN -1 ELSE 0>>
Ends(m) == \/ m.kind = "downexp"
           \/ m.kind = "downreq" /\ Len(m.data) = m.at
           \/ m.kind = "downsegreq" /\ m.last
Upto(m) == <<Spot(m) + Len(m.data),
             IF Ends(m) THEN 2
             ELSE IF m.kind = "downsegreq" THEN 1 - m.n
             ELSE IF m.kind = "frag" THEN m.n + 1
             ELSE IF m.kind = "writereq" /\ m.last THEN 1 ELSE 0>>
Chained(q, a, z) ==
  /\ \A i \in 1 .. Len(q) - 1 : Upto(q[i]) = From(q[i + 1])
  /\ IF q = << >> THEN a = z ELSE From(q[1]) = a /\ Upto(q[Len(q)]) = z

(* What is left to be written is the end of the data.                      *)
Place(c) == Len(c.all) - Len(c.rest)
Left(c) == Piece(c.all, Place(c), c.rest)

-----------------------------------------------------------------------------
(* ecx_SoEwrite: fragments without a number, which the slave puts one      *)
(* after the other.  Those under way continue what it has, up to what the  *)
(* call has written, as long as none was left out.  When the slave goes    *)
(* some are, but then none arrives any more.                               *)
Fragments(c) == {m \in AnyRequest :
  /\ m.type = "SoE" /\ m.kind = "writereq" /\ m.of = c.obj
  /\ Piece(c.all, m.at, m.data) /\ (m.last <=> End(m) = Len(c.all))}
Ahead(c) == <<Place(c), IF c.more \/ c.pc = "drain" THEN 0 ELSE 1>>
Behind(s) == <<IF s.op = "idn" THEN Len(s.data) ELSE 0, 0>>
Filling(c, ts, s) ==
  /\ s.op = "idn" => s.of = c.obj /\ Piece(c.all, 0, s.data)
  /\ Chained(Pending(c, ts), Behind(s), Ahead(c))
Finished(c, ts, st) ==
  /\ Pending(c, ts) = << >> /\ st[c.obj] = c.all
  /\ c.pc \in {"receive", "return", "idle"} /\ (c.pc = "receive" => ~c.more)
Growing(c, ts, tm, s, alive) ==
  /\ c.wkc # 1
  /\ c.pc \in {"return", "idle"}
     \/ (tm \in Seq(Frags) /\ (alive => Filling(c, ts, s)))
Writing(c, ts, tm, s, st, alive, exact) ==
  c.op = "SoEwrite" =>
    /\ c.obj \in Objects /\ Left(c) /\ ts \in Seq(Fragments(c))
    /\ c.pc = "send" => c.out \in Fragments(c)
    /\ c.pc = "poll" => c.more
    /\ exact => Finished(c, ts, st) \/ Growing(c, ts, tm, s, alive)
WritingInv ==
  quiet => Writing(call, toslave, tomaster, srv, store, ~gone, "unsent" \notin faults)

(* The next fragment is cut off.                                           *)
Follows(c, d) ==
  /\ d.out \in Fragments(c) /\ From(d.out) = <<Place(c), 0>> /\ Upto(d.out) = Ahead(d)
  /\ Left(d) /\ d.pc = "send" /\ d.wkc = c.wkc
-----------------------------------------------------------------------------
(* ecx_SDOwrite: one request, and segments with a toggle bit.  A slave     *)
(* that has been told the size takes the last segment only if it has had   *)
(* all others.                                                             *)
Downloads(c) == {m \in AnyRequest :
  /\ m.type = "CoE" /\ m.of = c.obj
  /\ m.kind \in {"downexp", "downreq", "downsegreq"}
  /\ m.kind = "downexp" => m.data = c.all
  /\ m.kind = "downreq" => m.at = Len(c.all) /\ Piece(c.all, 0, m.data)
  /\ m.kind = "downsegreq" => /\ Piece(c.all, m.at, m.data) /\ m.n \in {0, 1}
                              /\ m.last <=> End(m) = Len(c.all)}
NextToggle(c) == IF c.segments THEN Flip(c.num) ELSE 0
Onward(c) == IF c.pc = "drain" THEN <<0, -1>>
             ELSE IF c.more THEN <<Place(c), NextToggle(c)>> ELSE <<Len(c.all), 2>>

(* Where nothing is refused or left out, the slave gets all of it, whatever *)
(* is late or comes twice.                                                 *)
Taking(c, s) == /\ s.op = "down" /\ s.of = c.obj /\ s.size = Len(c.all)
                /\ Piece(c.all, 0, s.data) /\ s.n \in {0, 1}
Stage(c, a, s, st) == \/ a = <<0, -1>>
                      \/ Taking(c, s) /\ a = <<Len(s.data), s.n>>
                      \/ a = <<Len(c.all), 2>> /\ st[c.obj] = c.all
Streaming(c, ts, s, st) == \E a : Chained(Pending(c, ts), a, Onward(c)) /\ Stage(c, a, s, st)
Streamed(c, ts, s, st, alive) ==
  \/ c.wkc # 1 /\ (c.pc \in {"return", "idle"} \/ (c.pc = "send" /\ ~alive))
  \/ Streaming(c, ts, s, st)

(* Where nothing is late or comes twice, a request or its answer is under  *)
(* way, and not both; segments may be refused or left out, and then the    *)
(* slave has less than it should.                                          *)
Partial(c, s, p) ==
  s.op = "down" =>
    /\ s.of = c.obj /\ s.size = Len(c.all) /\ s.data \in Data /\ Len(s.data) <= p
    /\ Len(s.data) = p => Piece(c.all, 0, s.data)
Posed(c, m, s) == /\ ~c.more => Ends(m)
                  /\ Place(c) = Spot(m) + Len(m.data)
                  /\ m.kind = "downsegreq" => Partial(c, s, m.at)
Words(c, st) == {m \in AnyMail : m.kind \in SdoResponses => c.more \/ st[c.obj] = c.all}
Single(tm) == \A i, j \in 1 .. Len(tm) : i # j => IsFragment(tm[i]) \/ IsFragment(tm[j])
Lockstep(c, ts, tm, s, st, alive) ==
  /\ c.pc \in {"drain", "send"} =>
       tm \in Seq(Frags) /\ (alive => ts = << >>)
  /\ c.pc = "send" /\ alive => Posed(c, c.out, s)
  /\ c.pc = "receive" =>
       IF ts = << >>
       THEN /\ Single(tm) /\ tm \in Seq(Words(c, st))
            /\ alive => Partial(c, s, Place(c))
       ELSE /\ tm \in Seq(Frags)
            /\ alive => Tail(ts) = << >> /\ Posed(c, Head(ts), s)
  /\ c.pc \in {"return", "idle"} /\ c.wkc = 1 => ts = << >> /\ st[c.obj] = c.all

Loading(c, ts, tm, s, st, alive, stream, lock) ==
  c.op = "SDOwrite" =>
    /\ c.obj \in Objects /\ Left(c) /\ ts \in Seq(Downloads(c)) /\ c.num \in {0, 1}
    /\ c.pc = "send" => /\ c.out \in Downloads(c)
                        /\ c.segments => c.out.kind = "downsegreq"
    /\ IF c.pc \in {"return", "idle"} THEN c.wkc = 1 => ~c.more ELSE c.wkc # 1
    /\ stream => Streamed(c, ts, s, st, alive)
    /\ lock => Lockstep(c, ts, tm, s, st, alive)
Cut == {"refused", "unsent", "dry"}
Doubled == {"late", "unconfirmed", "repeated", "dry"}
LoadingInv ==
  quiet => Loading(call, toslave, tomaster, srv, store, ~gone,
                   faults \cap Cut = {}, faults \cap Doubled = {})

(* The first request, the next segment.                                    *)
Loads(c, d) ==
  /\ d.out \in Downloads(c) /\ Upto(d.out) = Onward(d) /\ Left(d)
  /\ d.pc = "send" /\ d.wkc = c.wkc /\ d.num \in {0, 1}
  /\ Place(d) = Spot(d.out) + Len(d.out.data) /\ (~d.more => Ends(d.out))
  /\ d.segments => d.out.kind = "downsegreq"

FirstEffect(c, m, r) ==
  /\ r.replies = <<Mail("CoE", "downinit", c.obj)>> /\ Spot(m) = 0
  /\ Piece(c.all, 0, m.data)
  /\ Ends(m) => /\ r.store[c.obj] = c.all /\ r.srv = Resting
                /\ Upto(m) = <<Len(c.all), 2>>
  /\ ~Ends(m) => /\ r.srv = [op |-> "down", of |-> c.obj, data |-> m.data, n |-> 0,
                             size |-> Len(c.all)]
                 /\ Upto(m) = <<Len(m.data), 0>>
Unfit(m, s) == \/ s.op # "down" \/ m.n # s.n
               \/ m.last /\ Len(s.data \o m.data) # s.size
SegmentEffect(c, m, s, st, r) ==
  /\ Spot(m) = m.at /\ (Ends(m) <=> m.last) /\ From(m) = <<m.at, m.n>>
  /\ Upto(m) = <<m.at + Len(m.data), IF m.last THEN 2 ELSE 1 - m.n>>
  /\ Piece(c.all, m.at, m.data) /\ m.n \in {0, 1} /\ (m.last <=> End(m) = Len(c.all))
  /\ Unfit(m, s) => r.srv = Resting /\ r.replies = <<Abort>>
  /\ ~Unfit(m, s) =>
       /\ r.replies = <<Mail("CoE", "downseg", << >>)>>
       /\ m.last => /\ r.srv = Resting /\ Len(s.data \o m.data) = s.size
                    /\ r.store = [st EXCEPT ![s.of] = s.data \o m.data]
       /\ ~m.last => /\ r.srv.op = "down" /\ r.srv.of = s.of /\ r.srv.size = s.size
                     /\ r.srv.data = s.data \o m.data /\ r.srv.n = 1 - s.n
(* The history of a step: what may be assumed of the slave and of faults,  *)
(* before and after it.                                                    *)
Recorded(alive, alive2, stream, stream2, lock, lock2) ==
  /\ alive <=> ~gone
  /\ alive2 => alive /\ ~gone'
  /\ gone => gone'
  /\ stream2 => stream /\ faults' \cap Cut = {}
  /\ lock2 => lock /\ faults' \cap Doubled = {}

-----------------------------------------------------------------------------
(* ecx_FOEread: packet n holds the file from InData * (n - 1) on, and is   *)
(* full unless the file ends with it.  What the slave still has goes on    *)
(* where the packet it sent last has ended.                                *)
Mark(n) == n * InData
Packed(all, m) == /\ Piece(all, Mark(m.n - 1), m.data)
                  /\ Len(m.data) # InData => Mark(m.n - 1) + Len(m.data) = Len(all)
FileMails(all) == {m \in AnyMail : m.type = "FoE" /\ m.kind = "data" => Packed(all, m)}
Acks == {m \in AnyRequest : m.type = "FoE" /\ m.kind = "ack"}
Orders(c) == {m \in AnyRequest : m.type = "FoE" /\ m.kind = "read" /\ m.of = c.obj} \cup Acks
Remains(s, all) ==
  s.op = "fread" => /\ Piece(all, Mark(s.n), s.data)
                    /\ Mark(s.n) + Len(s.data) = Len(all)
Acquired(c, all) == /\ Piece(all, 0, c.data)
                    /\ IF c.more THEN Len(c.data) = Mark(c.num) ELSE c.data = all

(* The request goes first: what an earlier call has left in the slave does *)
(* no harm.                                                                *)
Requesting(c, ts, tm) ==
  /\ tm \in Seq(Frags)
  /\ \/ c.pc = "send" /\ ts = << >> /\ c.out.kind = "read"
     \/ c.pc = "receive" /\ ts # << >> /\ Tail(ts) = << >> /\ Head(ts).kind = "read"
Confirming(c, ts, s, all) == /\ ts \in Seq(Acks) /\ (c.pc = "send" => c.out \in Acks)
                             /\ Remains(s, all)
Filing(c, ts, tm, s, st) ==
  c.op = "FOEread" /\ InData = OutData =>
    /\ c.obj \in Objects /\ ts \in Seq(Orders(c)) /\ (c.pc = "send" => c.out \in Orders(c))
    /\ c.pc = "receive" => c.more
    /\ c.pc \in {"send", "receive"} =>
         /\ Acquired(c, st[c.obj]) /\ tm \in Seq(FileMails(st[c.obj]))
         /\ Requesting(c, ts, tm) \/ Confirming(c, ts, s, st[c.obj])
    /\ c.pc \in {"return", "idle"} /\ c.wkc = 1 => c.data = st[c.obj]
FilingInv == quiet => Filing(call, toslave, tomaster, srv, store)

FileSent(s, st, all, r) ==
  /\ Remains(r.srv, all) /\ r.store = st
  /\ \E x \in FileMails(all) : r.replies = <<x>>
-----------------------------------------------------------------------------
(* ecx_FOEwrite: one packet at a time, and an acknowledgement with its     *)
(* number.  Either the slave has not yet taken the packet, and expects it, *)
(* or it has, and expects the next one.                                    *)
Short(c) == c.out.kind = "data" /\ Len(c.out.data) # OutData
Expects(c, s, n, k) == /\ s.op = "fwrite" /\ s.of = c.obj /\ s.n = n
                       /\ Piece(c.all, 0, s.data) /\ Len(s.data) = k
Missing(c, s) == c.out.kind = "data" =>
                   Expects(c, s, c.num - 1, Place(c) - Len(c.out.data))
Arrived(c, s, st) == IF Short(c) THEN st[c.obj] = c.all ELSE Expects(c, s, c.num, Place(c))
Numbered(c) ==
  /\ c.out \in AnyRequest /\ c.out.type = "FoE" /\ c.out.kind \in {"write", "data"}
  /\ Left(c)
  /\ c.out.kind = "write" => c.out.of = c.obj /\ c.num = 0 /\ c.zero /\ Place(c) = 0
  /\ c.out.kind = "data" =>
       /\ c.num > 0 /\ c.out.n = c.num
       /\ Piece(c.all, Place(c) - Len(c.out.data), c.out.data)
       /\ Short(c) => c.rest = << >> /\ Len(c.out.data) < OutData
       /\ c.zero <=> c.rest = << >> /\ ~Short(c)

(* Mails that acknowledge nothing beyond packet n; a slave that is busy.   *)
UpTo(n) == {m \in AnyMail : m.type = "FoE" => m.kind # "busy" /\ (m.kind = "ack" => m.n <= n)}
BusyUpTo(n) == {m \in AnyMail : m.type = "FoE" /\ m.kind = "ack" => m.n <= n}
Passing(c, ts, tm, s, single) ==
  /\ ts = << >> /\ Missing(c, s) /\ tm \in Seq(UpTo(c.num - 1))
  /\ single => tm \in Seq(Frags)
Handing(c, ts, tm, s, st, calm, single) ==
  \/ /\ ts = <<c.out>> /\ Missing(c, s) /\ tm \in Seq(UpTo(c.num - 1))
     /\ single => tm \in Seq(Frags)
  \/ /\ ts = << >> /\ Arrived(c, s, st) /\ tm \in Seq(UpTo(c.num))
     /\ single => Single(tm)
  \/ /\ ts = << >> /\ Missing(c, s) /\ tm \in Seq(BusyUpTo(c.num - 1)) /\ Single(tm)
     /\ ~calm /\ c.out.kind = "data" /\ c.out.data # << >>
Storing(c, ts, tm, s, st, calm, single) ==
  c.op = "FOEwrite" =>
    /\ c.obj \in Objects
    /\ calm \/ single =>
         /\ c.pc \in {"send", "receive"} => Numbered(c)
         /\ c.pc = "send" => Passing(c, ts, tm, s, single)
         /\ c.pc = "receive" => Handing(c, ts, tm, s, st, calm, single)
         /\ c.pc \in {"return", "idle"} /\ c.wkc = 1 => ts = << >> /\ st[c.obj] = c.all
StoringInv ==
  quiet => Storing(call, toslave, tomaster, srv, store,
                   faults \cap {"busy", "busyend"} = {},
                   faults \cap {"repeated", "busyend"} = {})

(* The history of a step.                                                  *)
Noted(calm, calm2, single, single2) ==
  /\ calm2 => calm /\ faults' \cap {"busy", "busyend"} = {}
  /\ single2 => single /\ faults' \cap {"repeated", "busyend"} = {}

(* What the slave does with a packet, or with the request.                 *)
Stored(c, r) == /\ Arrived(c, r.srv, r.store)
                /\ \E x \in UpTo(c.num) : r.replies = <<x>>
=============================================================================
