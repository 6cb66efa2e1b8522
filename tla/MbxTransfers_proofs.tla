------------------------ MODULE MbxTransfers_proofs ------------------------
(***************************************************************************)
(* Proofs about MbxTransfers: the types of calls, mails and slave, the     *)
(* buffers a call takes and gives back, and what a call that succeeds has  *)
(* read or written.  The invariants are those of MbxInvariants.            *)
(***************************************************************************)
EXTENDS MbxInvariants, SequenceTheorems, TLAPS

-----------------------------------------------------------------------------
(* What is cut off a sequence of units, and what is left.                  *)
LEMMA CutTypes ==
  ASSUME NEW s \in Data, NEW k \in Nat
  PROVE  /\ First(s, k) \in Data /\ Len(First(s, k)) = Least(k, Len(s))
         /\ After(s, k) \in Data
         /\ Len(After(s, k)) = IF k < Len(s) THEN Len(s) - k ELSE 0
         /\ \A i \in 1 .. Least(k, Len(s)) : First(s, k)[i] = s[i]
         /\ \A i \in 1 .. Len(s) - k : After(s, k)[i] = s[k + i]
<1>0. Len(s) \in Nat /\ \A i \in 1 .. Len(s) : s[i] \in Units
  BY LenProperties, ElementOfSeq DEF Data
<1>1. Least(k, Len(s)) \in Nat /\ Least(k, Len(s)) <= Len(s)
  BY <1>0 DEF Least
<1>2. \A i \in 1 .. Least(k, Len(s)) : s[i] \in Units
  BY <1>0, <1>1
<1>3. \A i \in k + 1 .. Len(s) : s[i] \in Units
  BY <1>0
<1>4. /\ First(s, k) \in Data /\ Len(First(s, k)) = Least(k, Len(s))
      /\ \A i \in 1 .. Least(k, Len(s)) : First(s, k)[i] = s[i]
  <2> DEFINE l == Least(k, Len(s))
  <2>1. /\ SubSeq(s, 1, l) \in Seq(Units)
        /\ Len(SubSeq(s, 1, l)) = IF 1 <= l THEN l - 1 + 1 ELSE 0
        /\ \A i \in 1 .. l - 1 + 1 : SubSeq(s, 1, l)[i] = s[1 + i - 1]
    <3> HIDE DEF l
    <3> QED BY <1>1, <1>2, SubSeqProperties DEF l
  <2> QED BY <2>1, <1>1 DEF First, Data
<1>5. /\ After(s, k) \in Data
      /\ Len(After(s, k)) = IF k < Len(s) THEN Len(s) - k ELSE 0
      /\ \A i \in 1 .. Len(s) - k : After(s, k)[i] = s[k + i]
  <2>1. /\ SubSeq(s, k + 1, Len(s)) \in Seq(Units)
        /\ Len(SubSeq(s, k + 1, Len(s)))
             = IF k + 1 <= Len(s) THEN Len(s) - (k + 1) + 1 ELSE 0
        /\ \A i \in 1 .. Len(s) - (k + 1) + 1 :
             SubSeq(s, k + 1, Len(s))[i] = s[(k + 1) + i - 1]
    BY <1>0, <1>3, SubSeqProperties
  <2> QED BY <2>1, <1>0 DEF After, Data
<1> QED BY <1>4, <1>5

LEMMA ContentTypes ==
  ASSUME NEW o \in Objects, NEW by \in Nat, NEW size \in Nat
  PROVE  Content(o, by, size) \in Data /\ Len(Content(o, by, size)) = size
<1>1. Content(o, by, size) \in [1 .. size -> Units]
  BY DEF Content, Units
<1> QED BY <1>1 DEF Data

LEMMA EmptyData == << >> \in Data /\ Len(<< >>) = 0
BY EmptySeq DEF Data

LEMMA BlankMail == Blank \in AnyMail
<1>1. << >> \in Data /\ << >> \in Objects \cup {<< >>} /\ "" \in Kinds
  BY EmptyData DEF Kinds
<1>2. ASSUME NEW d \in Data, NEW o \in Objects \cup {<< >>}, NEW k \in Kinds
      PROVE  [type |-> "", kind |-> k, of |-> o, data |-> d, n |-> 0, at |-> 0,
              frame |-> 0, last |-> TRUE] \in AnyMail
  BY <1>2 DEF AnyMail
<1> QED BY <1>1, <1>2 DEF Blank

LEMMA MailTypes ==
  ASSUME NEW type \in Protocols, NEW kind \in Kinds,
         NEW of \in Objects \cup {<< >>}
  PROVE  Mail(type, kind, of) \in AnyMail /\ PlainMail(Mail(type, kind, of), type, kind, of)
<1> DEFINE m == Mail(type, kind, of)
<1>1. Blank \in AnyMail
  BY BlankMail
<1>2. /\ m \in AnyMail /\ m.type = type /\ m.kind = kind /\ m.of = of
      /\ m.data = Blank.data /\ m.n = Blank.n /\ m.at = Blank.at
      /\ m.frame = Blank.frame /\ m.last = Blank.last
  BY <1>1 DEF AnyMail, Mail
<1> QED BY <1>2 DEF Blank, PlainMail

LEMMA AskStep ==
  ASSUME NEW c \in AnyCall, NEW m \in AnyRequest
  PROVE  /\ StepOf(c, Ask(c, m))
         /\ Ask(c, m).pc = "send" /\ Ask(c, m).out = m /\ Ask(c, m).kept = m.of
<1> DEFINE d == Ask(c, m)
<1>1. m \in AnyMail
  BY DEF AnyRequest
<1>2. m.of \in Objects \cup {<< >>}
  BY <1>1 DEF AnyMail
<1>3. d \in AnyCall /\ d.pc = "send" /\ d.out = m /\ d.kept = m.of
  BY <1>1, <1>2 DEF AnyCall, Ask, Places
<1>4. Keeps(c, d)
  BY DEF AnyCall, Ask, Keeps
<1> QED BY <1>3, <1>4 DEF StepOf, PlaceOK

LEMMA DoneStep ==
  ASSUME NEW c \in AnyCall, NEW w \in {0, 1}
  PROVE  StepOf(c, Done(c, w)) /\ Done(c, w).pc = "return" /\ Done(c, w).wkc = w
BY DEF AnyCall, Done, StepOf, Keeps, PlaceOK, Places

LEMMA AwaitStep ==
  ASSUME NEW c \in AnyCall, c.op \notin {"RxPDO", "EOEsend"}
  PROVE  StepOf(c, Await(c)) /\ Await(c).pc = "receive"
BY DEF AnyCall, Await, StepOf, Keeps, PlaceOK, Places

(* A step that starts by changing fields no one else relies on.            *)
LEMMA StepFrom ==
  ASSUME NEW c, NEW b, NEW d, Keeps(c, b), StepOf(b, d)
  PROVE  StepOf(c, d)
BY DEF StepOf, Keeps

-----------------------------------------------------------------------------
(* Requests.  Their kind and object are those of the mail they start from, *)
(* whatever else is filled in.                                             *)

LEMMA LikeRequest ==
  ASSUME NEW r \in AnyRequest, NEW m \in AnyMail, Like(m, r)
  PROVE  m \in AnyRequest
BY DEF AnyRequest, Like

LEMMA OneMail ==
  ASSUME NEW type \in {"CoE", "FoE", "SoE", "EoE"}, NEW kind \in Kinds,
         NEW of \in Objects \cup {<< >>}
  PROVE  Mail(type, kind, of) \in AnyMail /\ PlainMail(Mail(type, kind, of), type, kind, of)
<1>1. type \in Protocols
  BY DEF Protocols
<1> QED BY <1>1, MailTypes

LEMMA CoeRequest ==
  ASSUME NEW kind \in CoeRequests, NEW of \in Objects
  PROVE  Mail("CoE", kind, of) \in AnyRequest
<1>1. kind \in Kinds
  BY DEF CoeRequests, Kinds
<1> DEFINE m == Mail("CoE", kind, of)
<1>2. m \in AnyMail /\ PlainMail(m, "CoE", kind, of)
  BY <1>1, OneMail
<1> HIDE DEF m
<1>3. m \in AnyRequest
  BY <1>2 DEF AnyRequest, PlainMail
<1> QED BY <1>3 DEF m

LEMMA OtherRequest ==
  ASSUME NEW type \in {"FoE", "SoE", "EoE"},
         NEW kind \in {"read", "write", "readreq", "writereq", "initreq", "getipreq",
                       "frag"},
         NEW of \in Objects,
         \/ type = "FoE" /\ kind \in {"read", "write"}
         \/ type = "SoE" /\ kind \in {"readreq", "writereq"}
         \/ type = "EoE" /\ kind \in {"initreq", "getipreq", "frag"}
  PROVE  Mail(type, kind, of) \in AnyRequest
<1>1. kind \in Kinds
  BY DEF Kinds
<1> DEFINE m == Mail(type, kind, of)
<1>2. m \in AnyMail /\ PlainMail(m, type, kind, of)
  BY <1>1, OneMail
<1> HIDE DEF m
<1>3. m \in AnyRequest
  BY <1>2 DEF AnyRequest, PlainMail
<1> QED BY <1>3 DEF m

LEMMA FoePacket ==
  ASSUME NEW kind \in {"ack", "data"}, NEW n \in Int
  PROVE  Packet(kind, n) \in AnyRequest /\ Packet(kind, n).kind = kind
         /\ Packet(kind, n).type = "FoE" /\ Packet(kind, n).n = n
         /\ Packet(kind, n).data = << >>
<1>1. kind \in Kinds /\ << >> \in Objects \cup {<< >>}
  BY DEF Kinds
<1> DEFINE m == Mail("FoE", kind, << >>)
<1>2. /\ m \in AnyMail /\ PlainMail(m, "FoE", kind, << >>)
  BY <1>1, OneMail
<1> HIDE DEF m
<1>3. /\ [m EXCEPT !.n = n] \in AnyMail /\ [m EXCEPT !.n = n].type = "FoE"
      /\ [m EXCEPT !.n = n].kind = kind /\ [m EXCEPT !.n = n].n = n
      /\ [m EXCEPT !.n = n].data = << >>
  BY <1>2 DEF AnyMail, PlainMail
<1> QED BY <1>3 DEF AnyRequest, Packet, m

-----------------------------------------------------------------------------
(* Every turn of a service is a step of its call.                          *)
LEMMA ActiveCall ==
  ASSUME NEW c, Active(c)
  PROVE  /\ c \in AnyCall /\ c.obj \in Objects /\ c.obj \in Objects \cup {<< >>}
         /\ c.rest \in Data /\ c.data \in Data /\ c.all \in Data /\ c.room \in Nat
         /\ c.num \in Int /\ c.frame \in Nat /\ c.out \in AnyMail
         /\ Len(c.rest) \in Nat /\ Len(c.data) \in Nat /\ Len(c.all) \in Nat
<1>1. /\ c \in AnyCall /\ c.obj \in Objects /\ c.obj \in Objects \cup {<< >>}
      /\ c.rest \in Data /\ c.data \in Data /\ c.all \in Data /\ c.room \in Nat
      /\ c.num \in Int /\ c.frame \in Nat /\ c.out \in AnyMail
  BY DEF Active, AnyCall
<1> QED BY <1>1, LenProperties DEF Data

LEMMA AskKind ==
  ASSUME NEW c, Active(c), NEW kind \in CoeRequests
  PROVE  StepOf(c, Ask(c, Mail("CoE", kind, c.obj)))
BY ActiveCall, CoeRequest, AskStep

LEMMA AskSegmentStep ==
  ASSUME NEW c, Active(c), NEW toggle \in Int
  PROVE  StepOf(c, AskSegment(c, toggle))
<1> DEFINE b == [c EXCEPT !.more = TRUE, !.num = toggle]
           r == Mail("CoE", "upsegreq", c.obj)
           m == [r EXCEPT !.n = toggle]
<1>1. b \in AnyCall /\ Keeps(c, b)
  <2>1. c \in AnyCall
    BY ActiveCall
  <2> QED BY <2>1 DEF AnyCall, Keeps
<1>2. r \in AnyRequest
  BY ActiveCall, CoeRequest DEF CoeRequests
<1>3. m \in AnyMail /\ Like(m, r)
  <2> HIDE DEF r
  <2> QED BY <1>2 DEF AnyRequest, AnyMail, Like
<1>4. m \in AnyRequest
  <2> HIDE DEF m, r
  <2> QED BY <1>2, <1>3, LikeRequest
<1>5. StepOf(b, Ask(b, m))
  <2> HIDE DEF m, b
  <2> QED BY <1>1, <1>4, AskStep
<1>6. StepOf(c, Ask(b, m))
  <2> HIDE DEF m, b
  <2> QED BY <1>1, <1>5, StepFrom
<1> QED BY <1>6 DEF AskSegment

LEMMA AskFrom ==
  ASSUME NEW c, NEW b \in AnyCall, Keeps(c, b), NEW r \in AnyRequest,
         NEW m \in AnyMail, Like(m, r)
  PROVE  StepOf(c, Ask(b, m)) /\ Ask(b, m).pc = "send"
BY LikeRequest, AskStep, StepFrom

LEMMA DoneFrom ==
  ASSUME NEW c, NEW b \in AnyCall, Keeps(c, b), NEW w \in {0, 1}
  PROVE  StepOf(c, Done(b, w))
BY DoneStep, StepFrom

LEMMA AwaitFrom ==
  ASSUME NEW c, NEW b \in AnyCall, Keeps(c, b), c.op \notin {"RxPDO", "EOEsend"}
  PROVE  StepOf(c, Await(b))
<1>1. b.op \notin {"RxPDO", "EOEsend"}
  BY DEF Keeps
<1> QED BY <1>1, AwaitStep, StepFrom

LEMMA SDOwriteStep ==
  ASSUME NEW c, Active(c)
  PROVE  StepOf(c, SDOwrite(c)) /\ SDOwrite(c).pc = "send"
<1>1. CASE Len(c.rest) <= Expedited
  <2> DEFINE b == [c EXCEPT !.rest = << >>]
             r == Mail("CoE", "downexp", c.obj)
             m == [r EXCEPT !.data = c.rest]
  <2>1. b \in AnyCall /\ Keeps(c, b)
    BY ActiveCall, EmptyData DEF AnyCall, Keeps
  <2>2. r \in AnyRequest
    BY ActiveCall, CoeRequest DEF CoeRequests
  <2>3. c.rest \in Data
    BY ActiveCall
  <2>4. m \in AnyMail /\ Like(m, r)
    <3> HIDE DEF r
    <3> QED BY <2>2, <2>3 DEF AnyRequest, AnyMail, Like
  <2>5. SDOwrite(c) = Ask(b, m)
    BY <1>1 DEF SDOwrite
  <2> HIDE DEF b, r, m
  <2> QED BY <2>1, <2>2, <2>4, <2>5, AskFrom
<1>2. CASE ~(Len(c.rest) <= Expedited)
  <2> DEFINE left == Len(c.rest) > OutData
             b == [c EXCEPT !.rest = After(c.rest, OutData), !.more = left]
             r == Mail("CoE", "downreq", c.obj)
             m == [r EXCEPT !.data = First(c.rest, OutData), !.at = Len(c.rest)]
  <2>0. First(c.rest, OutData) \in Data /\ After(c.rest, OutData) \in Data
        /\ Len(c.rest) \in Int /\ left \in BOOLEAN
    BY ActiveCall, CutTypes, MailSizes
  <2>1. b \in AnyCall /\ Keeps(c, b)
    <3> HIDE DEF left
    <3>1. c \in AnyCall
      BY ActiveCall
    <3> QED BY <2>0, <3>1 DEF AnyCall, Keeps
  <2>2. r \in AnyRequest
    BY ActiveCall, CoeRequest DEF CoeRequests
  <2>4. m \in AnyMail /\ Like(m, r)
    <3> HIDE DEF r
    <3> QED BY <2>2, <2>0 DEF AnyRequest, AnyMail, Like
  <2>5. SDOwrite(c) = Ask(b, m)
    BY <1>2 DEF SDOwrite
  <2> HIDE DEF b, r, m
  <2> QED BY <2>1, <2>2, <2>4, <2>5, AskFrom
<1> QED BY <1>1, <1>2

LEMMA SendSegmentStep ==
  ASSUME NEW c, Active(c), NEW toggle \in Int
  PROVE  StepOf(c, SendSegment(c, toggle))
<1> DEFINE size == Segment(OutData)
           last == Len(c.rest) <= size
           left == ~last
           b == [c EXCEPT !.rest = After(c.rest, size), !.more = left,
                          !.segments = TRUE, !.num = toggle]
           r == Mail("CoE", "downsegreq", c.obj)
           m == [r EXCEPT !.data = First(c.rest, size), !.n = toggle, !.last = last,
                          !.at = Len(c.all) - Len(c.rest)]
<1>1. size \in Nat
  BY MailSizes DEF Segment
<1>2. First(c.rest, size) \in Data /\ After(c.rest, size) \in Data
      /\ Len(c.all) - Len(c.rest) \in Int /\ last \in BOOLEAN /\ left \in BOOLEAN
  <2> HIDE DEF size
  <2> QED BY <1>1, ActiveCall, CutTypes
<1>3. b \in AnyCall /\ Keeps(c, b)
  <2> HIDE DEF size, last, left
  <2>1. c \in AnyCall
    BY ActiveCall
  <2> QED BY <1>2, <2>1 DEF AnyCall, Keeps
<1>4. r \in AnyRequest
  BY ActiveCall, CoeRequest DEF CoeRequests
<1>5. m \in AnyMail /\ Like(m, r)
  <2> HIDE DEF r, size, last
  <2> QED BY <1>4, <1>2 DEF AnyRequest, AnyMail, Like
<1>6. SendSegment(c, toggle) = Ask(b, m)
  BY DEF SendSegment
<1> HIDE DEF b, r, m
<1> QED BY <1>3, <1>4, <1>5, <1>6, AskFrom

LEMMA NextSegmentStep ==
  ASSUME NEW c, Active(c)
  PROVE  StepOf(c, NextSegment(c))
<1>1. (IF c.segments THEN Flip(c.num) ELSE 0) \in Int
  BY ActiveCall DEF Flip
<1> QED BY <1>1, SendSegmentStep DEF NextSegment

LEMMA RxPDOStep ==
  ASSUME NEW c, Active(c)
  PROVE  StepOf(c, RxPDO(c)) /\ RxPDO(c).pc = "send"
<1> DEFINE r == Mail("CoE", "rxpdo", c.obj)
           m == [r EXCEPT !.data = First(c.rest, OutData)]
<1>1. First(c.rest, OutData) \in Data /\ c \in AnyCall /\ Keeps(c, c)
  BY ActiveCall, CutTypes, MailSizes DEF Keeps
<1>2. r \in AnyRequest
  BY ActiveCall, CoeRequest DEF CoeRequests
<1>3. m \in AnyMail /\ Like(m, r)
  <2> HIDE DEF r
  <2> QED BY <1>1, <1>2 DEF AnyRequest, AnyMail, Like
<1>4. RxPDO(c) = Ask(c, m)
  BY DEF RxPDO
<1> HIDE DEF r, m
<1> QED BY <1>1, <1>2, <1>3, <1>4, AskFrom

LEMMA FOEOpens ==
  ASSUME NEW c, Active(c)
  PROVE  /\ StepOf(c, FOEread(c)) /\ FOEread(c).pc = "send"
         /\ StepOf(c, FOEwrite(c)) /\ FOEwrite(c).pc = "send"
<1>1. c \in AnyCall /\ c.obj \in Objects
  BY ActiveCall
<1>2. /\ [c EXCEPT !.more = TRUE] \in AnyCall /\ Keeps(c, [c EXCEPT !.more = TRUE])
      /\ [c EXCEPT !.zero = TRUE] \in AnyCall /\ Keeps(c, [c EXCEPT !.zero = TRUE])
  BY <1>1 DEF AnyCall, Keeps
<1>3. Mail("FoE", "read", c.obj) \in AnyRequest /\ Mail("FoE", "write", c.obj) \in AnyRequest
  BY <1>1, OtherRequest
<1>4. \A m \in AnyRequest : m \in AnyMail /\ Like(m, m)
  BY DEF AnyRequest, Like
<1> QED BY <1>2, <1>3, <1>4, AskFrom DEF FOEread, FOEwrite

LEMMA FOEreadAnswerStep ==
  ASSUME NEW c, Active(c), NEW m \in AnyMail
  PROVE  StepOf(c, FOEreadAnswer(c, m))
<1>1. c \in AnyCall /\ m.data \in Data /\ c.data \in Data /\ m.n \in Int /\ Keeps(c, c)
  BY ActiveCall DEF AnyMail, Keeps
<1> DEFINE ok == /\ m.type = "FoE" /\ m.kind = "data"
                 /\ InOrder(c, m) /\ Len(c.data) + Len(m.data) <= c.room
           full == Len(m.data) = OutData
           b == [c EXCEPT !.data = @ \o m.data, !.num = @ + 1, !.more = full]
           r == Packet("ack", m.n)
<1>2. CASE ~ok
  BY <1>1, <1>2, DoneFrom DEF FOEreadAnswer
<1>3. CASE ok
  <2>1. c.data \o m.data \in Data
    BY <1>1, ConcatProperties DEF Data
  <2>2. full \in BOOLEAN /\ c.num + 1 \in Int
    BY ActiveCall
  <2>3. b \in AnyCall /\ Keeps(c, b)
    <3> HIDE DEF full
    <3> QED BY <1>1, <2>1, <2>2 DEF AnyCall, Keeps
  <2>4. r \in AnyRequest
    BY <1>1, FoePacket
  <2>5. r \in AnyMail /\ Like(r, r)
    <3> HIDE DEF r
    <3> QED BY <2>4 DEF AnyRequest, Like
  <2>6. FOEreadAnswer(c, m) = Ask(b, r)
    BY <1>3 DEF FOEreadAnswer
  <2> HIDE DEF b, r
  <2> QED BY <2>3, <2>4, <2>5, <2>6, AskFrom
<1> QED BY <1>2, <1>3

LEMMA SendPacketStep ==
  ASSUME NEW c, NEW a, Active(a), Keeps(c, a)
  PROVE  StepOf(c, SendPacket(a))
<1>1. a \in AnyCall /\ a.num + 1 \in Int
  BY ActiveCall
<1> DEFINE chunk == First(a.rest, OutData)
           left == After(a.rest, OutData)
           z == FinalZero(left, chunk)
           b == [a EXCEPT !.rest = left, !.num = @ + 1, !.zero = z]
           r == Packet("data", a.num + 1)
           m == [r EXCEPT !.data = chunk]
<1>2. chunk \in Data /\ left \in Data
  BY ActiveCall, CutTypes, MailSizes
<1>3. CASE ~(chunk # << >> \/ a.zero)
  BY <1>1, <1>3, DoneFrom DEF SendPacket
<1>4. CASE chunk # << >> \/ a.zero
  <2>1. z \in BOOLEAN
    BY DEF FinalZero
  <2>2. b \in AnyCall /\ Keeps(c, b)
    <3> HIDE DEF chunk, left, z
    <3> QED BY <1>1, <1>2, <2>1 DEF AnyCall, Keeps
  <2>3. r \in AnyRequest
    BY <1>1, FoePacket
  <2>4. m \in AnyMail /\ Like(m, r)
    <3> HIDE DEF r, chunk
    <3> QED BY <1>2, <2>3 DEF AnyRequest, AnyMail, Like
  <2>5. SendPacket(a) = Ask(b, m)
    BY <1>4 DEF SendPacket
  <2> HIDE DEF b, r, m
  <2> QED BY <2>2, <2>3, <2>4, <2>5, AskFrom
<1> QED BY <1>3, <1>4

LEMMA FOEwriteAnswerStep ==
  ASSUME NEW c, Active(c), NEW m \in AnyMail
  PROVE  StepOf(c, FOEwriteAnswer(c, m))
<1>1. c \in AnyCall /\ Keeps(c, c) /\ c.out.data \in Data /\ c.rest \in Data
      /\ c.num - 1 \in Int
  <2>1. c.out \in AnyMail /\ c \in AnyCall /\ c.rest \in Data /\ c.num \in Int
    BY ActiveCall
  <2>2. c.out.data \in Data
    BY <2>1 DEF AnyMail
  <2> QED BY <2>1, <2>2 DEF Keeps
<1>2. StepOf(c, Done(c, 0)) /\ StepOf(c, Done(c, 1))
  BY <1>1, DoneStep
<1>3. StepOf(c, SendPacket(c))
  BY <1>1, SendPacketStep
<1> DEFINE a == [c EXCEPT !.rest = c.out.data \o @, !.num = @ - 1]
<1>4. c.out.data \o c.rest \in Data
  BY <1>1, ConcatProperties DEF Data
<1>5. Active(a) /\ Keeps(c, a)
  BY <1>1, <1>4 DEF Active, AnyCall, Keeps
<1>6. StepOf(c, SendPacket(a))
  BY <1>5, SendPacketStep
<1>7. CASE m.type = "FoE" /\ m.kind = "busy" /\ c.num # 0
  BY <1>6, <1>7 DEF FOEwriteAnswer
<1>8. CASE ~(m.type = "FoE" /\ m.kind = "busy" /\ c.num # 0)
  BY <1>2, <1>3, <1>8 DEF FOEwriteAnswer
<1> QED BY <1>7, <1>8

LEMMA SoEwriteStep ==
  ASSUME NEW c, Active(c)
  PROVE  StepOf(c, SoEwrite(c)) /\ SoEwrite(c).pc = "send"
<1> DEFINE last == Len(c.rest) <= OutData
           left == ~last
           n == IF last THEN 0 ELSE Len(c.rest) \div OutData
           b == [c EXCEPT !.rest = After(c.rest, OutData), !.more = left]
           r == Mail("SoE", "writereq", c.obj)
           m == [r EXCEPT !.data = First(c.rest, OutData), !.last = last,
                          !.at = Len(c.all) - Len(c.rest), !.n = n]
<1>1. First(c.rest, OutData) \in Data /\ After(c.rest, OutData) \in Data
      /\ Len(c.all) - Len(c.rest) \in Int /\ last \in BOOLEAN /\ left \in BOOLEAN
      /\ n \in Int
  <2>1. Len(c.rest) \in Nat /\ Len(c.all) \in Nat /\ c.rest \in Data
    BY ActiveCall
  <2>2. n \in Int
    BY <2>1, MailSizes
  <2>3. First(c.rest, OutData) \in Data /\ After(c.rest, OutData) \in Data
    BY <2>1, CutTypes, MailSizes
  <2> QED BY <2>1, <2>2, <2>3
<1>2. b \in AnyCall /\ Keeps(c, b)
  <2> HIDE DEF last, left
  <2>1. c \in AnyCall
    BY ActiveCall
  <2> QED BY <1>1, <2>1 DEF AnyCall, Keeps
<1>3. r \in AnyRequest
  BY ActiveCall, OtherRequest
<1>4. m \in AnyMail /\ Like(m, r)
  <2> HIDE DEF r, last, n
  <2> QED BY <1>3, <1>1 DEF AnyRequest, AnyMail, Like
<1>5. SoEwrite(c) = Ask(b, m)
  BY DEF SoEwrite
<1> HIDE DEF b, r, m
<1> QED BY <1>2, <1>3, <1>4, <1>5, AskFrom

LEMMA EOEsendStep ==
  ASSUME NEW c, NEW a, Active(a), Keeps(c, a)
  PROVE  StepOf(c, EOEsend(a)) /\ EOEsend(a).pc = "send"
<1> DEFINE size == IF Len(a.rest) > OutData THEN WholeBlocks(OutData) ELSE Len(a.rest)
           last == Len(a.rest) <= OutData
           left == ~last
           at == IF a.num > 0 THEN Len(a.data) \div Block ELSE Blocks(Len(a.rest))
           b == [a EXCEPT !.more = left]
           r == Mail("EoE", "frag", a.obj)
           m == [r EXCEPT !.data = First(a.rest, size), !.n = a.num, !.frame = a.frame,
                          !.at = at, !.last = last]
<1>1. /\ a \in AnyCall /\ a.rest \in Data /\ Len(a.rest) \in Nat /\ Len(a.data) \in Nat
      /\ a.num \in Int /\ a.frame \in Nat
  BY ActiveCall
<1>2. size \in Nat /\ at \in Int /\ last \in BOOLEAN /\ left \in BOOLEAN
  BY <1>1, MailSizes DEF WholeBlocks, Blocks, Block
<1>3. First(a.rest, size) \in Data
  <2> HIDE DEF size
  <2> QED BY <1>1, <1>2, CutTypes
<1>4. b \in AnyCall /\ Keeps(c, b)
  <2> HIDE DEF left
  <2> QED BY <1>1, <1>2 DEF AnyCall, Keeps
<1>5. r \in AnyRequest
  BY ActiveCall, OtherRequest
<1>6. m \in AnyMail /\ Like(m, r)
  <2> HIDE DEF r, last, size, at
  <2> QED BY <1>1, <1>2, <1>3, <1>5 DEF AnyRequest, AnyMail, Like
<1>7. m = EOEfragment(a)
  BY DEF EOEfragment
<1>8. m.last = last
  <2> HIDE DEF r, last, size, at
  <2> QED BY <1>5, <1>2 DEF AnyRequest, AnyMail
<1>9. EOEsend(a) = Ask(b, m)
  <2> HIDE DEF r, m
  <2> QED BY <1>7, <1>8 DEF EOEsend
<1> HIDE DEF b, r, m
<1> QED BY <1>4, <1>5, <1>6, <1>9, AskFrom

LEMMA EOEsendSentStep ==
  ASSUME NEW c, Active(c)
  PROVE  StepOf(c, EOEsendSent(c))
<1> DEFINE all == c.data \o c.out.data
           left == After(c.rest, Len(c.out.data))
           a == [c EXCEPT !.data = all, !.num = @ + 1, !.rest = left]
<1>1. /\ c \in AnyCall /\ c.out \in AnyMail /\ c.rest \in Data /\ c.data \in Data
      /\ c.num \in Int /\ c.op \in Services /\ c.obj \in Objects
  BY ActiveCall DEF Active
<1>2. c.out.data \in Data
  BY <1>1 DEF AnyMail
<1>3. Len(c.out.data) \in Nat
  BY <1>2, LenProperties DEF Data
<1>4. all \in Data /\ left \in Data
  BY <1>1, <1>2, <1>3, CutTypes, ConcatProperties DEF Data
<1>5. Active(a) /\ Keeps(c, a)
  <2> HIDE DEF all, left
  <2>1. c.num + 1 \in Int
    BY <1>1
  <2>2. a \in AnyCall /\ Keeps(c, a)
    BY <1>1, <1>4, <2>1 DEF AnyCall, Keeps
  <2> QED BY <2>2, <1>1 DEF Active, Keeps
<1>6. StepOf(c, EOEsend(a))
  BY <1>5, EOEsendStep
<1>7. StepOf(c, Done(c, 1))
  BY <1>1, DoneStep
<1> QED BY <1>6, <1>7 DEF EOEsendSent

LEMMA SetIpSteps ==
  ASSUME NEW c, Active(c)
  PROVE  /\ StepOf(c, EOEsetIp(c)) /\ EOEsetIp(c).pc = "send"
         /\ StepOf(c, EOEgetIp(c)) /\ EOEgetIp(c).pc = "send"
<1> DEFINE r == Mail("EoE", "initreq", c.obj)
           m == [r EXCEPT !.data = c.rest]
<1>1. c \in AnyCall /\ c.rest \in Data /\ Keeps(c, c) /\ c.obj \in Objects
  BY ActiveCall DEF Keeps
<1>2. r \in AnyRequest /\ Mail("EoE", "getipreq", c.obj) \in AnyRequest
  BY <1>1, OtherRequest
<1>3. m \in AnyMail /\ Like(m, r)
  <2> HIDE DEF r
  <2> QED BY <1>1, <1>2 DEF AnyRequest, AnyMail, Like
<1>4. EOEsetIp(c) = Ask(c, m)
  BY DEF EOEsetIp
<1>5. StepOf(c, Ask(c, m)) /\ Ask(c, m).pc = "send"
  <2> HIDE DEF m, r
  <2> QED BY <1>1, <1>2, <1>3, AskFrom
<1> QED BY <1>1, <1>2, <1>4, <1>5, AskStep DEF EOEgetIp

(* Answers that add to the data read.                                      *)
LEMMA Reads ==
  ASSUME NEW c \in AnyCall, NEW d \in Data
  PROVE  /\ [c EXCEPT !.data = d] \in AnyCall /\ Keeps(c, [c EXCEPT !.data = d])
         /\ [c EXCEPT !.data = d].data = d
         /\ [c EXCEPT !.data = d].pc = c.pc /\ [c EXCEPT !.data = d].num = c.num
         /\ [c EXCEPT !.data = d].more = c.more
BY DEF AnyCall, Keeps

LEMMA MailFields ==
  ASSUME NEW m \in AnyMail
  PROVE  /\ m.data \in Data /\ Len(m.data) \in Nat /\ m.n \in Int /\ m.at \in Int
         /\ m.frame \in Nat /\ m.last \in BOOLEAN
         /\ m.of \in Objects \cup {<< >>} /\ m.kind \in Kinds
<1>1. /\ m.data \in Data /\ m.n \in Int /\ m.at \in Int
      /\ m.frame \in Nat /\ m.last \in BOOLEAN
      /\ m.of \in Objects \cup {<< >>} /\ m.kind \in Kinds
  BY DEF AnyMail
<1> QED BY <1>1, LenProperties DEF Data

LEMMA ConcatData ==
  ASSUME NEW s \in Data, NEW t \in Data
  PROVE  s \o t \in Data /\ Len(s \o t) = Len(s) + Len(t)
BY ConcatProperties DEF Data

LEMMA UploadAnswerStep ==
  ASSUME NEW c, Active(c), NEW m \in AnyMail
  PROVE  StepOf(c, UploadAnswer(c, m))
<1>1. c \in AnyCall /\ m.data \in Data
  BY ActiveCall, MailFields
<1> DEFINE b == [c EXCEPT !.data = m.data]
<1>2. b \in AnyCall /\ Keeps(c, b)
  BY <1>1, Reads
<1>3. Active(b)
  BY <1>2 DEF Active, Keeps
<1>4. StepOf(c, Done(c, 0)) /\ StepOf(c, Done(b, 1)) /\ StepOf(c, AskSegment(b, 0))
  <2> HIDE DEF b
  <2>1. StepOf(b, AskSegment(b, 0))
    BY <1>3, AskSegmentStep
  <2> QED BY <2>1, <1>1, <1>2, StepFrom, DoneFrom, DoneStep
<1> QED BY <1>4 DEF UploadAnswer

LEMMA SegmentAnswerStep ==
  ASSUME NEW c, Active(c), NEW m \in AnyMail
  PROVE  StepOf(c, SegmentAnswer(c, m))
<1>1. c \in AnyCall /\ m.data \in Data /\ c.data \in Data
  BY ActiveCall, MailFields
<1> DEFINE b == [c EXCEPT !.data = @ \o m.data]
<1>2. c.data \o m.data \in Data
  BY <1>1, ConcatData
<1>3. b \in AnyCall /\ Keeps(c, b)
  BY <1>1, <1>2, Reads
<1>4. Active(b)
  BY <1>3 DEF Active, Keeps
<1>5. Flip(c.num) \in Int
  BY ActiveCall DEF Flip
<1>6. StepOf(c, Done(c, 0)) /\ StepOf(c, Done(b, 1)) /\ StepOf(c, AskSegment(b, Flip(c.num)))
  <2> HIDE DEF b
  <2>1. StepOf(b, AskSegment(b, Flip(c.num)))
    BY <1>4, <1>5, AskSegmentStep
  <2> QED BY <2>1, <1>1, <1>3, StepFrom, DoneFrom, DoneStep
<1> QED BY <1>6 DEF SegmentAnswer

LEMMA SDOreadAnswerStep ==
  ASSUME NEW c, Active(c), NEW m \in AnyMail
  PROVE  StepOf(c, SDOreadAnswer(c, m))
BY UploadAnswerStep, SegmentAnswerStep DEF SDOreadAnswer

LEMMA SDOwriteAnswerStep ==
  ASSUME NEW c, Active(c), NEW m \in AnyMail
  PROVE  StepOf(c, SDOwriteAnswer(c, m))
<1>1. StepOf(c, Done(c, 0)) /\ StepOf(c, Done(c, 1)) /\ StepOf(c, NextSegment(c))
  BY ActiveCall, DoneStep, NextSegmentStep
<1> QED BY <1>1 DEF SDOwriteAnswer

LEMMA OneAnswerSteps ==
  ASSUME NEW c, Active(c), NEW m \in AnyMail
  PROVE  /\ StepOf(c, TxPDOAnswer(c, m)) /\ StepOf(c, ODAnswer(c, m))
         /\ StepOf(c, SoEwriteAnswer(c, m))
         /\ StepOf(c, EOEsetIpAnswer(c, m)) /\ StepOf(c, EOEgetIpAnswer(c, m))
<1>1. c \in AnyCall /\ m.data \in Data /\ c.room \in Nat
  BY ActiveCall, MailFields
<1> DEFINE b == [c EXCEPT !.data = m.data]
           e == [c EXCEPT !.data = First(m.data, c.room)]
           f == [c EXCEPT !.more = FALSE]
<1>2. b \in AnyCall /\ Keeps(c, b)
  BY <1>1, Reads
<1>3. First(m.data, c.room) \in Data
  BY <1>1, CutTypes
<1>4. e \in AnyCall /\ Keeps(c, e)
  BY <1>1, <1>3, Reads
<1>5. f \in AnyCall /\ Keeps(c, f)
  BY <1>1 DEF AnyCall, Keeps
<1>6. /\ StepOf(c, Done(b, 1)) /\ StepOf(c, Done(e, 1))
      /\ StepOf(c, Done(f, 0)) /\ StepOf(c, Done(f, 1))
  <2> HIDE DEF b, e, f
  <2> QED BY <1>2, <1>4, <1>5, DoneFrom
<1>7. StepOf(c, Done(c, 0)) /\ StepOf(c, Done(c, 1))
  BY <1>1, DoneStep
<1> QED BY <1>6, <1>7 DEF TxPDOAnswer, ODAnswer, SoEwriteAnswer, EOEsetIpAnswer,
                          EOEgetIpAnswer

LEMMA readODlistAnswerStep ==
  ASSUME NEW c, Active(c), NEW m \in AnyMail, c.op = "readODlist", Len(c.data) <= c.room
  PROVE  StepOf(c, readODlistAnswer(c, m))
<1>1. c \in AnyCall /\ m.data \in Data /\ c.data \in Data /\ c.room - Len(c.data) \in Nat
  BY ActiveCall, MailFields
<1> DEFINE more == First(m.data, c.room - Len(c.data))
           b == [c EXCEPT !.data = @ \o more]
<1>2. more \in Data
  BY <1>1, CutTypes
<1>3. c.data \o more \in Data
  BY <1>1, <1>2, ConcatData
<1>4. b \in AnyCall /\ Keeps(c, b)
  <2> HIDE DEF more
  <2> QED BY <1>1, <1>3, Reads
<1>5. StepOf(c, Done(c, 0)) /\ StepOf(c, Done(b, 1)) /\ StepOf(c, Await(b))
  <2> HIDE DEF b
  <2> QED BY <1>1, <1>4, DoneStep, DoneFrom, AwaitFrom
<1> QED BY <1>5 DEF readODlistAnswer

LEMMA CopiedTypes ==
  ASSUME NEW c, Active(c), NEW m \in AnyMail, Len(c.data) <= c.room
  PROVE  /\ Copied(c, m) \in Data
         /\ Len(Copied(c, m)) = Least(Len(m.data), c.room - Len(c.data))
<1>1. Least(Len(m.data), c.room - Len(c.data)) \in Nat
  BY ActiveCall, MailFields DEF Least
<1>2. Copied(c, m) \in [1 .. Least(Len(m.data), c.room - Len(c.data)) -> Units]
  BY DEF Copied, Units
<1> QED BY <1>1, <1>2 DEF Data

LEMMA SoEreadAnswerStep ==
  ASSUME NEW c, Active(c), NEW m \in AnyMail, c.op = "SoEread", Len(c.data) <= c.room
  PROVE  StepOf(c, SoEreadAnswer(c, m))
<1>1. c \in AnyCall /\ c.data \in Data /\ Copied(c, m) \in Data
  BY ActiveCall, CopiedTypes
<1> DEFINE b == [c EXCEPT !.data = @ \o Copied(c, m)]
<1>3. c.data \o Copied(c, m) \in Data
  BY <1>1, ConcatData
<1>4. b \in AnyCall /\ Keeps(c, b)
  BY <1>1, <1>3, Reads
<1>5. StepOf(c, Done(c, 0)) /\ StepOf(c, Done(b, 1)) /\ StepOf(c, Await(b))
  <2> HIDE DEF b
  <2> QED BY <1>1, <1>4, DoneStep, DoneFrom, AwaitFrom
<1> QED BY <1>5 DEF SoEreadAnswer

(* A time stamp that is taken off leaves data, and no more than there was. *)
LEMMA TimeOffTypes ==
  ASSUME NEW m, NEW d \in Data
  PROVE  TimeOff(m, d) \in Data /\ Len(TimeOff(m, d)) <= Len(d)
<1>1. Len(d) \in Nat
  BY LenProperties DEF Data
<1>2. CASE Len(d) - 1 \in Nat
  <2>1. First(d, Len(d) - 1) \in Data /\ Len(First(d, Len(d) - 1)) = Least(Len(d) - 1, Len(d))
    BY <1>2, CutTypes
  <2>2. Least(Len(d) - 1, Len(d)) <= Len(d)
    BY <1>1 DEF Least
  <2> QED BY <1>1, <2>1, <2>2 DEF TimeOff
<1>3. CASE Len(d) - 1 \notin Nat
  <2>1. Len(d) = 0 /\ Least(Len(d) - 1, Len(d)) = -1
    BY <1>1, <1>3 DEF Least
  <2>2. d = << >>
    BY <2>1, EmptySeq DEF Data
  <2>3. First(d, Len(d) - 1) = SubSeq(d, 1, -1)
    BY <2>1 DEF First
  <2>4. SubSeq(d, 1, -1) \in Seq(Units) /\ Len(SubSeq(d, 1, -1)) = 0
    <3>1. d \in Seq(Units)
      BY DEF Data
    <3> QED BY <3>1, SubSeqProperties
  <2> QED BY <1>1, <2>1, <2>3, <2>4 DEF TimeOff, Data
<1> QED BY <1>2, <1>3

LEMMA EOErecvAnswerStep ==
  ASSUME NEW c, Active(c), NEW m \in AnyMail, c.op = "EOErecv"
  PROVE  StepOf(c, EOErecvAnswer(c, m))
<1>1. c \in AnyCall /\ m.data \in Data /\ c.data \in Data /\ m.frame \in Nat
  BY ActiveCall, MailFields
<1> DEFINE b == IF c.num = 0 THEN [c EXCEPT !.frame = m.frame] ELSE c
           all == b.data \o m.data
           d == [b EXCEPT !.data = all, !.num = @ + 1]
           got == IF Len(c.data) + Len(m.data) <= c.room THEN d ELSE b
           off == [got EXCEPT !.data = TimeOff(m, @)]
<1>2. b \in AnyCall /\ Keeps(c, b) /\ b.data \in Data
  BY <1>1 DEF AnyCall, Keeps
<1>3. all \in Data
  <2> HIDE DEF b
  <2> QED BY <1>1, <1>2, ConcatData
<1>4. d \in AnyCall /\ Keeps(c, d)
  <2> HIDE DEF b, all
  <2>1. b.num + 1 \in Int
    BY <1>2 DEF AnyCall
  <2>2. d \in AnyCall /\ Keeps(b, d)
    BY <1>2, <1>3, <2>1 DEF AnyCall, Keeps
  <2> QED BY <2>2, <1>2 DEF Keeps
<1>5. got \in AnyCall /\ Keeps(c, got)
  <2> HIDE DEF b, d
  <2> QED BY <1>2, <1>4
<1>6. off \in AnyCall /\ Keeps(c, off)
  <2> HIDE DEF got
  <2>1. TimeOff(m, got.data) \in Data
    BY <1>5, TimeOffTypes DEF AnyCall
  <2> QED BY <1>5, <2>1 DEF AnyCall, Keeps
<1>7. StepOf(c, Done(c, 0)) /\ StepOf(c, Done(off, 1)) /\ StepOf(c, Await(got))
  <2> HIDE DEF got, off
  <2> QED BY <1>1, <1>5, <1>6, DoneStep, DoneFrom, AwaitFrom
<1> QED BY <1>7 DEF EOErecvAnswer

-----------------------------------------------------------------------------
(* The services together.  What a service has read of a list or an IDN     *)
(* fits its buffer at any time.                                            *)

LEMMA BeginStep ==
  ASSUME NEW c, Active(c)
  PROVE  /\ StepOf(c, Begin(c))
         /\ Begin(c).pc = IF c.op = "EOErecv" THEN "receive" ELSE "send"
<1>1. c \in AnyCall /\ Keeps(c, c) /\ c.op \in Services
  BY ActiveCall DEF Keeps, Active
<1>2. \A kind \in CoeRequests :
        /\ StepOf(c, Ask(c, Mail("CoE", kind, c.obj)))
        /\ Ask(c, Mail("CoE", kind, c.obj)).pc = "send"
  BY ActiveCall, CoeRequest, AskStep
<1>3. /\ StepOf(c, SDOread(c)) /\ StepOf(c, TxPDO(c)) /\ StepOf(c, readODlist(c))
      /\ StepOf(c, readODdescription(c)) /\ StepOf(c, readOEsingle(c))
      /\ SDOread(c).pc = "send" /\ TxPDO(c).pc = "send" /\ readODlist(c).pc = "send"
      /\ readODdescription(c).pc = "send" /\ readOEsingle(c).pc = "send"
  BY <1>2 DEF SDOread, TxPDO, readODlist, readODdescription, readOEsingle, CoeRequests
<1>4. /\ StepOf(c, SDOwrite(c)) /\ StepOf(c, RxPDO(c)) /\ StepOf(c, FOEread(c))
      /\ StepOf(c, FOEwrite(c)) /\ StepOf(c, SoEwrite(c)) /\ StepOf(c, EOEsend(c))
      /\ StepOf(c, EOEsetIp(c)) /\ StepOf(c, EOEgetIp(c))
      /\ SDOwrite(c).pc = "send" /\ RxPDO(c).pc = "send" /\ FOEread(c).pc = "send"
      /\ FOEwrite(c).pc = "send" /\ SoEwrite(c).pc = "send" /\ EOEsend(c).pc = "send"
      /\ EOEsetIp(c).pc = "send" /\ EOEgetIp(c).pc = "send"
  BY <1>1, SDOwriteStep, RxPDOStep, FOEOpens, SoEwriteStep, EOEsendStep, SetIpSteps
<1>5. StepOf(c, SoEread(c)) /\ SoEread(c).pc = "send"
  <2>1. Mail("SoE", "readreq", c.obj) \in AnyRequest
    BY ActiveCall, OtherRequest
  <2> QED BY <2>1, <1>1, AskStep DEF SoEread
<1>6. CASE c.op = "EOErecv"
  <2>1. Begin(c) = Await(c)
    BY <1>6 DEF Begin
  <2> QED BY <2>1, <1>1, <1>6, AwaitStep
<1>7. CASE c.op # "EOErecv"
  <2>1. c.op \in {"SDOread", "SDOwrite", "RxPDO", "TxPDO", "readODlist",
                  "readODdescription", "readOEsingle", "FOEread", "FOEwrite", "SoEread",
                  "SoEwrite", "EOEsend", "EOEsetIp", "EOEgetIp"}
    BY <1>1, <1>7 DEF Services, CoE, Writers, DropAndKeep
  <2>2. StepOf(c, Begin(c)) /\ Begin(c).pc = "send"
    BY <2>1, <1>3, <1>4, <1>5 DEF Begin
  <2> QED BY <2>2, <1>7
<1> QED BY <1>6, <1>7

LEMMA SentStep ==
  ASSUME NEW c, Active(c)
  PROVE  StepOf(c, Sent(c))
<1>1. c \in AnyCall
  BY ActiveCall
<1>2. StepOf(c, SoEwriteSent(c)) \/ c.op # "SoEwrite"
  <2>1. CASE c.op = "SoEwrite"
    <3>1. [c EXCEPT !.pc = "poll"] \in AnyCall /\ Keeps(c, [c EXCEPT !.pc = "poll"])
          /\ [c EXCEPT !.pc = "poll"].pc = "poll"
      BY <1>1 DEF AnyCall, Keeps, Places
    <3>2. StepOf(c, [c EXCEPT !.pc = "poll"])
      BY <3>1, <2>1 DEF StepOf, PlaceOK, Keeps
    <3>3. StepOf(c, Await(c))
      BY <1>1, <2>1, AwaitStep
    <3> QED BY <3>2, <3>3 DEF SoEwriteSent
  <2> QED BY <2>1
<1>3. StepOf(c, EOEsendSent(c)) /\ StepOf(c, Done(c, 1))
  BY <1>1, EOEsendSentStep, DoneStep
<1>4. c.op \notin {"RxPDO", "EOEsend"} => StepOf(c, Await(c))
  BY <1>1, AwaitStep
<1> QED BY <1>2, <1>3, <1>4 DEF Sent

LEMMA FailsStep ==
  ASSUME NEW c, Active(c)
  PROVE  StepOf(c, Fails(c))
<1>1. c \in AnyCall /\ Flip(c.num) \in Int
  BY ActiveCall DEF Flip
<1>2. /\ StepOf(c, Done(c, 0)) /\ StepOf(c, AskSegment(c, Flip(c.num)))
      /\ StepOf(c, NextSegment(c)) /\ StepOf(c, SoEwrite(c))
  BY <1>1, DoneStep, AskSegmentStep, NextSegmentStep, SoEwriteStep
<1> QED BY <1>2 DEF Fails, SDOreadFails, SDOwriteFails, SoEwriteFails

LEMMA AnswerStep ==
  ASSUME NEW c, Active(c), InRoom(c), PlaceOK(c), c.pc = "receive", NEW m \in AnyMail
  PROVE  StepOf(c, Answer(c, m))
<1>1. c.op \in {"SDOread", "SDOwrite", "TxPDO", "readODlist", "readODdescription",
                "readOEsingle", "FOEread", "FOEwrite", "SoEread", "SoEwrite", "EOErecv",
                "EOEsetIp", "EOEgetIp"}
  BY DEF Services, CoE, Writers, DropAndKeep, Active, PlaceOK
<1>2. /\ StepOf(c, SDOreadAnswer(c, m)) /\ StepOf(c, SDOwriteAnswer(c, m))
      /\ StepOf(c, TxPDOAnswer(c, m)) /\ StepOf(c, ODAnswer(c, m))
      /\ StepOf(c, SoEwriteAnswer(c, m)) /\ StepOf(c, EOEsetIpAnswer(c, m))
      /\ StepOf(c, EOEgetIpAnswer(c, m)) /\ StepOf(c, FOEreadAnswer(c, m))
      /\ StepOf(c, FOEwriteAnswer(c, m))
  BY SDOreadAnswerStep, SDOwriteAnswerStep, OneAnswerSteps, FOEreadAnswerStep,
     FOEwriteAnswerStep
<1>3. /\ c.op = "readODlist" => StepOf(c, readODlistAnswer(c, m))
      /\ c.op = "SoEread" => StepOf(c, SoEreadAnswer(c, m))
      /\ c.op = "EOErecv" => StepOf(c, EOErecvAnswer(c, m))
  BY readODlistAnswerStep, SoEreadAnswerStep, EOErecvAnswerStep DEF InRoom
<1> QED BY <1>1, <1>2, <1>3 DEF Answer

-----------------------------------------------------------------------------
(* What a slave does with a request keeps the types, whatever the request. *)

LEMMA RestingSane == SlaveSane(Resting)
<1>1. << >> \in Data
  BY EmptyData
<1> QED BY <1>1 DEF Resting, SlaveSane, AnySlave, SlaveOps, Addressed

LEMMA SlaveTypes ==
  ASSUME NEW op \in SlaveOps, NEW of \in Addressed,
         NEW data \in Data, NEW n \in Int, NEW size \in Int,
         op \in {"down", "fwrite"} => of \in Objects
  PROVE  SlaveSane([op |-> op, of |-> of, data |-> data, n |-> n, size |-> size])
BY DEF SlaveSane, AnySlave

LEMMA ServedTypes ==
  ASSUME NEW s, SlaveSane(s), NEW st \in AnyStore, NEW r \in Seq(AnyMail)
  PROVE  ServedOK(Served(s, st, r))
BY DEF ServedOK, Served

LEMMA OneReply ==
  ASSUME NEW m \in AnyMail
  PROVE  <<m>> \in Seq(AnyMail) /\ << >> \in Seq(AnyMail)
OBVIOUS

LEMMA ObjectTypes ==
  ASSUME NEW st \in AnyStore, NEW o \in Objects
  PROVE  st[o] \in Data /\ Len(st[o]) \in Nat
<1>1. st[o] \in Data
  BY DEF AnyStore
<1> QED BY <1>1, LenProperties DEF Data

LEMMA StoreTypes ==
  ASSUME NEW st \in AnyStore, NEW o \in Objects, NEW d \in Data
  PROVE  [st EXCEPT ![o] = d] \in AnyStore
BY DEF AnyStore

(* A mail a slave posts, filled in.                                        *)
LEMMA Filled ==
  ASSUME NEW r \in AnyMail, NEW d \in Data, NEW n \in Int, NEW at \in Int,
         NEW frame \in Nat, NEW last \in BOOLEAN
  PROVE  /\ [r EXCEPT !.data = d] \in AnyMail
         /\ [r EXCEPT !.data = d, !.at = at] \in AnyMail
         /\ [r EXCEPT !.data = d, !.last = last] \in AnyMail
         /\ [r EXCEPT !.data = d, !.at = at, !.n = n] \in AnyMail
         /\ [r EXCEPT !.data = d, !.n = n, !.last = last, !.at = at] \in AnyMail
         /\ [r EXCEPT !.data = d, !.n = n, !.frame = frame, !.last = last, !.at = at]
              \in AnyMail
BY DEF AnyMail

LEMMA UploadTypes ==
  ASSUME NEW s, SlaveSane(s), NEW st \in AnyStore, NEW m \in AnyMail, m.of \in Objects
  PROVE  ServedOK(Upload(s, st, m))
<1> DEFINE all == st[m.of]
           x == Mail("CoE", "upexp", m.of)
           i == Mail("CoE", "upinit", m.of)
           xm == [x EXCEPT !.data = all]
           im == [i EXCEPT !.data = First(all, InData), !.at = Len(all)]
           op == IF Len(all) > InData THEN "up" ELSE "none"
           t == [op |-> op, of |-> m.of, data |-> After(all, InData), n |-> 0,
                size |-> Len(all)]
<1>1. all \in Data /\ Len(all) \in Int
  BY ObjectTypes
<1>2. First(all, InData) \in Data /\ After(all, InData) \in Data
  <2> HIDE DEF all
  <2> QED BY <1>1, CutTypes, MailSizes
<1>3. x \in AnyMail /\ i \in AnyMail
  BY OneMail DEF Kinds
<1>4. xm \in AnyMail /\ im \in AnyMail
  <2> HIDE DEF x, i, all
  <2> QED BY <1>1, <1>2, <1>3, Filled
<1>5. SlaveSane(t)
  <2>1. op \in SlaveOps /\ op \notin {"down", "fwrite"} /\ m.of \in Addressed /\ 0 \in Int
    BY DEF SlaveOps, Addressed
  <2> HIDE DEF op, all
  <2> QED BY <2>1, <1>1, <1>2, SlaveTypes
<1>6. ServedOK(Served(Resting, st, <<xm>>)) /\ ServedOK(Served(t, st, <<im>>))
  <2> HIDE DEF xm, im, t
  <2> QED BY <1>4, <1>5, OneReply, RestingSane, ServedTypes
<1> QED BY <1>6 DEF Upload

LEMMA AbortMail == Abort \in AnyMail /\ PlainMail(Abort, "CoE", "abort", << >>)
BY OneMail DEF Abort, Kinds

LEMMA UploadSegmentTypes ==
  ASSUME NEW s, SlaveSane(s), NEW st \in AnyStore, NEW m \in AnyMail
  PROVE  ServedOK(UploadSegment(s, st, m))
<1> DEFINE size == Segment(InData)
           last == Len(s.data) <= size
           r == Mail("CoE", "upseg", << >>)
           rm == [r EXCEPT !.data = First(s.data, size), !.n = m.n, !.last = last,
                           !.at = s.size - Len(s.data)]
           t == [s EXCEPT !.data = After(@, size), !.n = 1 - @]
<1>1. /\ size \in Nat /\ s.data \in Data /\ s.size \in Int /\ s.n \in Int /\ m.n \in Int
  BY MailFields, MailSizes DEF Segment, SlaveSane, AnySlave
<1>2. last \in BOOLEAN /\ s.size - Len(s.data) \in Int /\ 1 - s.n \in Int
  BY <1>1, LenProperties DEF Data
<1>3. First(s.data, size) \in Data /\ After(s.data, size) \in Data
  <2> HIDE DEF size
  <2> QED BY <1>1, CutTypes
<1>4. r \in AnyMail
  BY OneMail DEF Kinds
<1>5. rm \in AnyMail
  <2> HIDE DEF r, last, size
  <2> QED BY <1>1, <1>2, <1>3, <1>4, Filled
<1>6. SlaveSane(t)
  <2> HIDE DEF size
  <2> QED BY <1>2, <1>3 DEF SlaveSane, AnySlave
<1>7. /\ ServedOK(Served(Resting, st, <<Abort>>))
      /\ ServedOK(Served(IF last THEN Resting ELSE t, st, <<rm>>))
  <2> HIDE DEF rm, t, last
  <2> QED BY <1>5, <1>6, OneReply, RestingSane, ServedTypes, AbortMail
<1> QED BY <1>7 DEF UploadSegment

LEMMA DownloadTypes ==
  ASSUME NEW s, SlaveSane(s), NEW st \in AnyStore, NEW m \in AnyMail, m.of \in Objects
  PROVE  ServedOK(Download(s, st, m))
<1> DEFINE all == m.kind = "downexp" \/ Len(m.data) = m.at
           t == [op |-> "down", of |-> m.of, data |-> m.data, n |-> 0, size |-> m.at]
           w == [st EXCEPT ![m.of] = m.data]
           r == Mail("CoE", "downinit", m.of)
<1>1. SlaveSane(t)
  <2>1. "down" \in SlaveOps /\ m.data \in Data /\ m.at \in Int /\ m.of \in Addressed
        /\ 0 \in Int
    BY MailFields DEF SlaveOps, Addressed
  <2> QED BY <2>1, SlaveTypes
<1>2. w \in AnyStore
  BY MailFields, StoreTypes
<1>3. r \in AnyMail
  BY OneMail DEF Kinds
<1>4. ServedOK(Served(IF all THEN Resting ELSE t, IF all THEN w ELSE st, <<r>>))
  <2> HIDE DEF all, t, w, r
  <2> QED BY <1>1, <1>2, <1>3, OneReply, RestingSane, ServedTypes
<1> QED BY <1>4 DEF Download

LEMMA DownloadSegmentTypes ==
  ASSUME NEW s, SlaveSane(s), NEW st \in AnyStore, NEW m \in AnyMail
  PROVE  ServedOK(DownloadSegment(s, st, m))
<1> DEFINE all == s.data \o m.data
           bad == \/ s.op # "down" \/ m.n # s.n
                  \/ m.last /\ Len(all) # s.size
           t == [s EXCEPT !.data = all, !.n = 1 - @]
           w == [st EXCEPT ![s.of] = all]
           r == Mail("CoE", "downseg", << >>)
<1>1. all \in Data /\ 1 - s.n \in Int
  BY MailFields, ConcatData DEF SlaveSane, AnySlave
<1>2. r \in AnyMail
  BY OneMail DEF Kinds
<1>3. ServedOK(Served(Resting, st, <<Abort>>))
  BY OneReply, RestingSane, ServedTypes, AbortMail
<1>4. CASE bad
  BY <1>3, <1>4 DEF DownloadSegment
<1>5. CASE ~bad
  <2>1. s.of \in Objects
    BY <1>5 DEF SlaveSane
  <2>2. w \in AnyStore
    <3> HIDE DEF all
    <3> QED BY <2>1, <1>1, StoreTypes
  <2>3. SlaveSane(t)
    <3> HIDE DEF all
    <3> QED BY <1>1 DEF SlaveSane, AnySlave
  <2>4. ServedOK(Served(IF m.last THEN Resting ELSE t, IF m.last THEN w ELSE st, <<r>>))
    <3> HIDE DEF t, w, r
    <3> QED BY <2>2, <2>3, <1>2, OneReply, RestingSane, ServedTypes
  <2>5. DownloadSegment(s, st, m)
          = Served(IF m.last THEN Resting ELSE t, IF m.last THEN w ELSE st, <<r>>)
    BY <1>5 DEF DownloadSegment
  <2> QED BY <2>4, <2>5
<1> QED BY <1>4, <1>5

(* Parts of data, all cut to the same length.                              *)
LEMMA PartCount ==
  ASSUME NEW all \in Data, NEW k \in Nat \ {0}
  PROVE  /\ (Len(all) + k - 1) \div k \in Nat
         /\ \A i \in 1 .. (Len(all) + k - 1) \div k :
              /\ (i - 1) * k \in Nat
              /\ After(all, (i - 1) * k) \in Data
              /\ First(After(all, (i - 1) * k), k) \in Data
<1>1. Len(all) \in Nat
  BY LenProperties DEF Data
<1>2. (Len(all) + k - 1) \div k \in Nat
  BY <1>1
<1>3. ASSUME NEW i \in 1 .. (Len(all) + k - 1) \div k
      PROVE  (i - 1) * k \in Nat
  <2>1. i \in Nat /\ i >= 1
    BY <1>2
  <2>2. \A x, y \in Nat : x * y \in Nat
    OBVIOUS
  <2>3. i - 1 \in Nat
    BY <2>1
  <2> QED BY <2>2, <2>3
<1>4. ASSUME NEW j \in Nat
      PROVE  After(all, j) \in Data /\ First(After(all, j), k) \in Data
  BY CutTypes
<1> QED BY <1>2, <1>3, <1>4

LEMMA ListTypes ==
  ASSUME NEW all \in Data
  PROVE  ListFragments(all) \in Seq(AnyMail)
<1> DEFINE count == (Len(all) + InData - 1) \div InData
           r == Mail("CoE", "odlist", << >>)
<1>1. count \in Nat
  BY PartCount, MailSizes
<1>2. r \in AnyMail
  BY OneMail DEF Kinds
<1>3. ASSUME NEW k \in 1 .. count
      PROVE  [r EXCEPT !.data = First(After(all, (k - 1) * InData), InData),
                       !.at = (k - 1) * InData, !.n = count - k] \in AnyMail
  <2>1. First(After(all, (k - 1) * InData), InData) \in Data /\ (k - 1) * InData \in Int
    BY PartCount, MailSizes
  <2>2. count - k \in Int
    <3> HIDE DEF count
    <3> QED BY <1>1
  <2> DEFINE at == (k - 1) * InData
             left == count - k
  <2> HIDE DEF r, count, at, left
  <2>3. [r EXCEPT !.data = First(After(all, at), InData), !.at = at, !.n = left]
          \in AnyMail
    <3>1. First(After(all, at), InData) \in Data /\ at \in Int /\ left \in Int
      BY <2>1, <2>2 DEF at, left
    <3> QED BY <1>2, <3>1 DEF AnyMail
  <2> QED BY <2>3 DEF at, left
<1>4. ListFragments(all)
        = [k \in 1 .. count |->
             [r EXCEPT !.data = First(After(all, (k - 1) * InData), InData),
                       !.at = (k - 1) * InData, !.n = count - k]]
  BY DEF ListFragments
<1>5. ListFragments(all) \in [1 .. count -> AnyMail]
  <2> HIDE DEF r, count
  <2> QED BY <1>3, <1>4
<1> HIDE DEF count
<1> QED BY <1>1, <1>5

LEMMA ReadFragmentsTypes ==
  ASSUME NEW all \in Data, NEW o \in Objects
  PROVE  ReadFragments(o, all) \in Seq(AnyMail)
<1> DEFINE count == (Len(all) + InData - 1) \div InData
           r == Mail("SoE", "readres", o)
<1>1. count \in Nat
  BY PartCount, MailSizes
<1>2. r \in AnyMail
  BY OneMail DEF Kinds
<1>3. ASSUME NEW k \in 1 .. count
      PROVE  [r EXCEPT !.data = First(After(all, (k - 1) * InData), InData),
                       !.last = k = count] \in AnyMail
  <2>1. First(After(all, (k - 1) * InData), InData) \in Data
    BY PartCount, MailSizes
  <2> DEFINE l == k = count
             d == First(After(all, (k - 1) * InData), InData)
  <2>2. l \in BOOLEAN /\ d \in Data
    BY <2>1
  <2> HIDE DEF r, l, d
  <2>3. [r EXCEPT !.data = d, !.last = l] \in AnyMail
    BY <1>2, <2>2 DEF AnyMail
  <2> QED BY <2>3 DEF l, d
<1>4. ReadFragments(o, all)
        = [k \in 1 .. count |->
             [r EXCEPT !.data = First(After(all, (k - 1) * InData), InData),
                       !.last = k = count]]
  BY DEF ReadFragments
<1>5. ReadFragments(o, all) \in [1 .. count -> AnyMail]
  <2> HIDE DEF r, count
  <2> QED BY <1>3, <1>4
<1> HIDE DEF count
<1> QED BY <1>1, <1>5

LEMMA ReplyTypes ==
  ASSUME NEW type \in {"CoE", "FoE", "SoE", "EoE"}, NEW kind \in Kinds,
         NEW of \in Objects \cup {<< >>}, NEW d \in Data
  PROVE  <<[Mail(type, kind, of) EXCEPT !.data = d]>> \in Seq(AnyMail)
<1> DEFINE r == Mail(type, kind, of)
<1>1. r \in AnyMail
  BY OneMail
<1>2. [r EXCEPT !.data = d] \in AnyMail
  <2> HIDE DEF r
  <2> QED BY <1>1 DEF AnyMail
<1> HIDE DEF r
<1> QED BY <1>2, OneReply DEF r

LEMMA CoeServeTypes ==
  ASSUME NEW s, SlaveSane(s), NEW st \in AnyStore, NEW m \in AnyMail, m.of \in Objects,
         m.kind \in CoeRequests
  PROVE  ServedOK(CoeServe(s, st, m))
<1> DEFINE d == First(st[m.of], InData)
           reply(kind) == <<[Mail("CoE", kind, m.of) EXCEPT !.data = d]>>
           w == [st EXCEPT ![m.of] = m.data]
<1>1. st[m.of] \in Data /\ w \in AnyStore
  BY ObjectTypes, StoreTypes, MailFields
<1>2. d \in Data
  BY <1>1, CutTypes, MailSizes
<1>3. /\ reply("txpdo") \in Seq(AnyMail) /\ reply("od") \in Seq(AnyMail)
      /\ reply("oe") \in Seq(AnyMail)
  <2>1. "txpdo" \in Kinds /\ "od" \in Kinds /\ "oe" \in Kinds
    BY DEF Kinds
  <2> HIDE DEF d
  <2> QED BY <1>2, <2>1, ReplyTypes
<1>4. ListFragments(st[m.of]) \in Seq(AnyMail)
  BY <1>1, ListTypes
<1>5. /\ ServedOK(Served(s, st, reply("txpdo"))) /\ ServedOK(Served(s, st, reply("od")))
      /\ ServedOK(Served(s, st, reply("oe")))
      /\ ServedOK(Served(s, st, ListFragments(st[m.of])))
      /\ ServedOK(Served(s, w, << >>))
  <2> HIDE DEF reply, w
  <2> QED BY <1>1, <1>3, <1>4, OneReply, ServedTypes
<1>6. /\ ServedOK(Upload(s, st, m)) /\ ServedOK(UploadSegment(s, st, m))
      /\ ServedOK(Download(s, st, m)) /\ ServedOK(DownloadSegment(s, st, m))
  BY UploadTypes, UploadSegmentTypes, DownloadTypes, DownloadSegmentTypes
<1> QED BY <1>5, <1>6 DEF CoeServe, CoeRequests

LEMMA PacketMail ==
  ASSUME NEW kind \in {"ack", "data", "busy", "error"}, NEW n \in Int
  PROVE  /\ Packet(kind, n) \in AnyMail /\ Packet(kind, n).kind = kind
         /\ Packet(kind, n).type = "FoE" /\ Packet(kind, n).n = n
         /\ Packet(kind, n).data = << >>
<1>1. kind \in Kinds /\ << >> \in Objects \cup {<< >>}
  BY DEF Kinds
<1> DEFINE m == Mail("FoE", kind, << >>)
<1>2. m \in AnyMail /\ PlainMail(m, "FoE", kind, << >>)
  BY <1>1, OneMail
<1> HIDE DEF m
<1>3. /\ [m EXCEPT !.n = n] \in AnyMail /\ [m EXCEPT !.n = n].type = "FoE"
      /\ [m EXCEPT !.n = n].kind = kind /\ [m EXCEPT !.n = n].n = n
      /\ [m EXCEPT !.n = n].data = << >>
  BY <1>2 DEF AnyMail, PlainMail
<1> QED BY <1>3 DEF Packet, m

LEMMA SendDataTypes ==
  ASSUME NEW s \in AnySlave, NEW st \in AnyStore
  PROVE  ServedOK(SendData(s, st))
<1> DEFINE chunk == First(s.data, InData)
           op == IF Len(chunk) < InData THEN "none" ELSE "fread"
           t == [s EXCEPT !.data = After(@, InData), !.n = @ + 1, !.op = op]
           r == Packet("data", s.n + 1)
           m == [r EXCEPT !.data = chunk]
<1>1. s.data \in Data /\ s.n + 1 \in Int
  BY DEF AnySlave
<1>2. chunk \in Data /\ After(s.data, InData) \in Data
  BY <1>1, CutTypes, MailSizes
<1>3. op \in SlaveOps /\ op \notin {"down", "fwrite"}
  BY DEF SlaveOps
<1>4. SlaveSane(t)
  <2> HIDE DEF op, chunk
  <2> QED BY <1>1, <1>2, <1>3 DEF SlaveSane, AnySlave
<1>5. r \in AnyMail
  BY <1>1, PacketMail
<1>6. m \in AnyMail
  <2> HIDE DEF r, chunk
  <2> QED BY <1>2, <1>5 DEF AnyMail
<1>7. ServedOK(Served(t, st, <<m>>))
  <2> HIDE DEF t, m
  <2> QED BY <1>4, <1>6, OneReply, ServedTypes
<1> QED BY <1>7 DEF SendData

LEMMA TakeDataTypes ==
  ASSUME NEW s, SlaveSane(s), NEW st \in AnyStore, NEW m \in AnyMail
  PROVE  ServedOK(TakeData(s, st, m))
<1> DEFINE all == s.data \o m.data
           end == Len(m.data) < OutData
           t == [s EXCEPT !.data = all, !.n = m.n]
           w == [st EXCEPT ![s.of] = all]
<1>1. all \in Data /\ m.n \in Int
  BY MailFields, ConcatData DEF SlaveSane, AnySlave
<1>2. ServedOK(Reject(st))
  <2>1. Packet("error", 0) \in AnyMail
    BY PacketMail
  <2> QED BY <2>1, OneReply, RestingSane, ServedTypes DEF Reject
<1>3. CASE s.op # "fwrite" \/ m.n # s.n + 1
  BY <1>2, <1>3 DEF TakeData
<1>4. CASE ~(s.op # "fwrite" \/ m.n # s.n + 1)
  <2>1. s.of \in Objects
    BY <1>4 DEF SlaveSane
  <2>2. w \in AnyStore
    <3> HIDE DEF all
    <3> QED BY <2>1, <1>1, StoreTypes
  <2>3. SlaveSane(t)
    <3> HIDE DEF all
    <3> QED BY <1>1 DEF SlaveSane, AnySlave
  <2>4. Packet("ack", m.n) \in AnyMail
    BY <1>1, PacketMail
  <2>5. ServedOK(Served(IF end THEN Resting ELSE t, IF end THEN w ELSE st,
                        <<Packet("ack", m.n)>>))
    <3> HIDE DEF t, w, end
    <3> QED BY <2>2, <2>3, <2>4, OneReply, RestingSane, ServedTypes
  <2>6. TakeData(s, st, m) = Served(IF end THEN Resting ELSE t, IF end THEN w ELSE st,
                                    <<Packet("ack", m.n)>>)
    BY <1>4 DEF TakeData
  <2> QED BY <2>5, <2>6
<1> QED BY <1>3, <1>4

LEMMA FoeServeTypes ==
  ASSUME NEW s, SlaveSane(s), NEW st \in AnyStore, NEW m \in AnyMail,
         m.kind \in {"read", "write", "ack", "data"},
         m.kind \in {"read", "write"} => m.of \in Objects
  PROVE  ServedOK(FoeServe(s, st, m))
<1> DEFINE open(op, data) == [op |-> op, of |-> m.of, data |-> data, n |-> 0, size |-> 0]
<1>1. s \in AnySlave
  BY DEF SlaveSane
<1>2. ServedOK(SendData(s, st)) /\ ServedOK(TakeData(s, st, m))
      /\ ServedOK(Served(s, st, << >>))
  BY <1>1, SendDataTypes, TakeDataTypes, OneReply, ServedTypes
<1>3. CASE m.kind \in {"ack", "data"}
  BY <1>2, <1>3 DEF FoeServe
<1>4. CASE m.kind = "read"
  <2>1. st[m.of] \in Data /\ "fread" \in SlaveOps /\ m.of \in Addressed /\ 0 \in Int
    BY <1>4, ObjectTypes DEF SlaveOps, Addressed
  <2>2. open("fread", st[m.of]) \in AnySlave
    BY <2>1, <1>4, SlaveTypes DEF SlaveSane
  <2>3. ServedOK(SendData(open("fread", st[m.of]), st))
    <3> HIDE DEF open
    <3> QED BY <2>2, SendDataTypes
  <2> QED BY <2>3, <1>4 DEF FoeServe
<1>5. CASE m.kind = "write"
  <2>1. /\ << >> \in Data /\ "fwrite" \in SlaveOps /\ Packet("ack", 0) \in AnyMail
        /\ m.of \in Addressed /\ 0 \in Int
    BY <1>5, EmptyData, PacketMail DEF SlaveOps, Addressed
  <2>2. SlaveSane(open("fwrite", << >>))
    BY <2>1, <1>5, SlaveTypes
  <2>3. ServedOK(Served(open("fwrite", << >>), st, <<Packet("ack", 0)>>))
    <3> HIDE DEF open
    <3> QED BY <2>1, <2>2, OneReply, ServedTypes
  <2> QED BY <2>3, <1>5 DEF FoeServe
<1> QED BY <1>3, <1>4, <1>5

LEMMA FreshFrag == Fresh \in AnyFrag
BY EmptyData DEF Fresh, AnyFrag

LEMMA ReadFragmentTypes ==
  ASSUME NEW f0 \in AnyFrag, NEW m \in AnyMail, NEW room
  PROVE  /\ ReadFragment(f0, m, room).frag \in AnyFrag
         /\ ReadFragment(f0, m, room).done \in Seq(Data)
<1> DEFINE reset == f0.n # m.n
           f == IF reset THEN Fresh ELSE f0
           size == m.at * Block
           g == IF f.n = 0
                THEN [n |-> 0, size |-> size, frame |-> m.frame, data |-> << >>]
                ELSE f
           fits == /\ Len(g.data) + Len(m.data) <= g.size
                   /\ Len(g.data) + Len(m.data) <= room
           h == [g EXCEPT !.data = @ \o m.data, !.n = @ + 1]
           got == IF fits THEN h ELSE g
           off == \/ reset /\ m.n > 0
                  \/ f.n > 0 /\ (f.frame # m.frame \/ Len(f.data) # m.at * Block)
<1>1. m.data \in Data /\ size \in Int /\ m.frame \in Nat /\ << >> \in Data /\ 0 \in Int
  BY MailFields, EmptyData DEF Block
<1>2. f \in AnyFrag
  BY FreshFrag
<1>3. g \in AnyFrag
  <2> HIDE DEF f, size
  <2> QED BY <1>1, <1>2 DEF AnyFrag
<1>4. g.data \o m.data \in Data /\ g.n + 1 \in Int
  <2>1. g.data \in Data /\ g.n \in Int
    <3> HIDE DEF g
    <3> QED BY <1>3 DEF AnyFrag
  <2> HIDE DEF g
  <2> QED BY <2>1, <1>1, ConcatData
<1>5. h \in AnyFrag
  <2> HIDE DEF g
  <2> QED BY <1>3, <1>4 DEF AnyFrag
<1>6. got \in AnyFrag
  <2> HIDE DEF g, h, fits
  <2> QED BY <1>3, <1>5
<1>7. TimeOff(m, got.data) \in Data
  <2> HIDE DEF got
  <2> QED BY <1>6, TimeOffTypes DEF AnyFrag
<1>8. <<TimeOff(m, got.data)>> \in Seq(Data) /\ << >> \in Seq(Data)
  <2> HIDE DEF got
  <2> QED BY <1>7
<1>9. ReadFragment(f0, m, room)
        = IF off THEN [frag |-> Fresh, done |-> << >>]
          ELSE IF m.last THEN [frag |-> Fresh, done |-> <<TimeOff(m, got.data)>>]
                         ELSE [frag |-> got, done |-> << >>]
  BY DEF ReadFragment
<1> HIDE DEF off, got
<1> QED BY <1>6, <1>8, <1>9, FreshFrag

LEMMA EoeServeTypes ==
  ASSUME NEW s, SlaveSane(s), NEW st \in AnyStore, NEW m \in AnyMail, m.of \in Objects,
         m.kind \in {"initreq", "getipreq", "frag"}
  PROVE  ServedOK(EoeServe(s, st, m))
<1> DEFINE reply(kind) == <<[Mail("EoE", kind, m.of) EXCEPT !.data = st[m.of]]>>
           no == IF s.of = << >> THEN 0 ELSE s.of[1]
           frag0 == [n |-> s.n, size |-> s.size, data |-> s.data, frame |-> no]
           room == Len(s.data) + Len(m.data)
           r == ReadFragment(frag0, m, room)
           next == [op |-> "frame", of |-> <<r.frag.frame>>, data |-> r.frag.data,
                    n |-> r.frag.n, size |-> r.frag.size]
           w == [st EXCEPT ![m.of] = m.data]
           v == [st EXCEPT ![m.of] = Head(r.done)]
<1>1. st[m.of] \in Data /\ w \in AnyStore
  BY ObjectTypes, StoreTypes, MailFields
<1>2. reply("initresp") \in Seq(AnyMail) /\ reply("getipresp") \in Seq(AnyMail)
  <2>1. "initresp" \in Kinds /\ "getipresp" \in Kinds
    BY DEF Kinds
  <2> QED BY <1>1, <2>1, ReplyTypes
<1>3. CASE m.kind = "initreq"
  <2>1. ServedOK(Served(s, w, reply("initresp")))
    <3> HIDE DEF w, reply
    <3> QED BY <1>1, <1>2, ServedTypes
  <2> QED BY <2>1, <1>3 DEF EoeServe
<1>4. CASE m.kind = "getipreq"
  <2>1. ServedOK(Served(s, st, reply("getipresp")))
    <3> HIDE DEF reply
    <3> QED BY <1>1, <1>2, ServedTypes
  <2> QED BY <2>1, <1>4 DEF EoeServe
<1>5. CASE m.kind = "frag"
  <2>1. s.n \in Int /\ s.size \in Int /\ s.data \in Data /\ s.of \in Addressed
    BY DEF SlaveSane, AnySlave
  <2>2. no \in Nat
    BY <2>1, ObjectsAssumption DEF Addressed
  <2>3. frag0 \in AnyFrag
    <3> HIDE DEF no
    <3> QED BY <2>1, <2>2 DEF AnyFrag
  <2>4. room \in Int
    BY <2>1, MailFields, LenProperties DEF Data
  <2>5. r.frag \in AnyFrag /\ r.done \in Seq(Data)
    <3> HIDE DEF frag0, room
    <3> QED BY <2>3, <2>4, ReadFragmentTypes
  <2> HIDE DEF r
  <2>6. SlaveSane(next)
    <3>1. "frame" \in SlaveOps /\ <<r.frag.frame>> \in Addressed
      BY <2>5 DEF AnyFrag, SlaveOps, Addressed
    <3>2. r.frag.data \in Data /\ r.frag.n \in Int /\ r.frag.size \in Int
      BY <2>5 DEF AnyFrag
    <3> QED BY <3>1, <3>2, SlaveTypes
  <2>7. r.done # << >> => v \in AnyStore
    <3>1. SUFFICES ASSUME r.done # << >> PROVE v \in AnyStore
      OBVIOUS
    <3>2. Head(r.done) \in Data
      BY <3>1, <2>5, HeadTailProperties
    <3> QED BY <3>2, StoreTypes
  <2>8. ServedOK(Served(IF r.frag = Fresh THEN Resting ELSE next,
                        IF r.done = << >> THEN st ELSE v, << >>))
    <3> HIDE DEF next, v
    <3> QED BY <2>6, <2>7, RestingSane, OneReply, ServedTypes
  <2>9. EoeServe(s, st, m) = Served(IF r.frag = Fresh THEN Resting ELSE next,
                                    IF r.done = << >> THEN st ELSE v, << >>)
    BY <1>5 DEF EoeServe, r
  <2> QED BY <2>8, <2>9
<1> QED BY <1>3, <1>4, <1>5

LEMMA SoeServeTypes ==
  ASSUME NEW s, SlaveSane(s), NEW st \in AnyStore, NEW m \in AnyMail, m.of \in Objects,
         m.kind \in {"readreq", "writereq"}
  PROVE  ServedOK(SoeServe(s, st, m))
<1> DEFINE old == IF s.op = "idn" /\ s.of = m.of THEN s.data ELSE << >>
           all == old \o m.data
           t == [op |-> "idn", of |-> m.of, data |-> all, n |-> 0, size |-> 0]
           w == [st EXCEPT ![m.of] = all]
<1>1. old \in Data /\ m.data \in Data /\ st[m.of] \in Data
  BY MailFields, EmptyData, ObjectTypes DEF SlaveSane, AnySlave
<1>2. all \in Data
  <2> HIDE DEF old
  <2> QED BY <1>1, ConcatData
<1>3. w \in AnyStore
  <2> HIDE DEF all
  <2> QED BY <1>2, StoreTypes
<1>4. SlaveSane(t)
  <2>1. "idn" \in SlaveOps /\ m.of \in Addressed /\ 0 \in Int
    BY DEF SlaveOps, Addressed
  <2> HIDE DEF all
  <2> QED BY <2>1, <1>2, SlaveTypes
<1>5. Mail("SoE", "writeres", m.of) \in AnyMail
  BY OneMail DEF Kinds
<1>6. ServedOK(Served(Resting, st, ReadFragments(m.of, st[m.of])))
  BY <1>1, ReadFragmentsTypes, RestingSane, ServedTypes
<1>7. /\ ServedOK(Served(Resting, w, <<Mail("SoE", "writeres", m.of)>>))
      /\ ServedOK(Served(t, st, << >>))
  <2> HIDE DEF t, w
  <2> QED BY <1>3, <1>4, <1>5, OneReply, RestingSane, ServedTypes
<1>8. SoeServe(s, st, m)
        = CASE m.kind = "readreq" -> Served(Resting, st, ReadFragments(m.of, st[m.of]))
            [] m.kind = "writereq" ->
                 IF m.last THEN Served(Resting, w, <<Mail("SoE", "writeres", m.of)>>)
                           ELSE Served(t, st, << >>)
  BY DEF SoeServe
<1> HIDE DEF t, w
<1> QED BY <1>6, <1>7, <1>8

LEMMA SlaveTurn ==
  ASSUME NEW s, SlaveSane(s), NEW st \in AnyStore, NEW m \in AnyRequest
  PROVE  ServedOK(SlaveDoes(s, st, m))
<1>1. m \in AnyMail
  BY DEF AnyRequest
<1>2. CASE m.type = "CoE" /\ m.kind \in CoeRequests /\ m.of \in Objects
  BY <1>1, <1>2, CoeServeTypes DEF SlaveDoes
<1>3. CASE m.type = "FoE" /\ m.kind \in {"read", "write"} /\ m.of \in Objects
  BY <1>1, <1>3, FoeServeTypes DEF SlaveDoes
<1>4. CASE m.type = "FoE" /\ m.kind \in {"ack", "data"}
  BY <1>1, <1>4, FoeServeTypes DEF SlaveDoes
<1>5. CASE m.type = "SoE" /\ m.kind \in {"readreq", "writereq"} /\ m.of \in Objects
  BY <1>1, <1>5, SoeServeTypes DEF SlaveDoes
<1>6. CASE m.type = "EoE" /\ m.kind \in {"initreq", "getipreq", "frag"} /\ m.of \in Objects
  BY <1>1, <1>6, EoeServeTypes DEF SlaveDoes
<1> QED BY <1>2, <1>3, <1>4, <1>5, <1>6 DEF AnyRequest

LEMMA FrameFragmentsTypes ==
  ASSUME NEW o \in Objects, NEW number \in Nat, NEW frame \in Data, NEW stamp,
         InData >= Block
  PROVE  FrameFragments(o, number, frame, stamp) \in Seq(AnyMail)
<1> DEFINE all == IF stamp = "none" THEN frame ELSE Append(frame, Stamp)
           whole == IF stamp = "counted" THEN all ELSE frame
           size == WholeBlocks(InData)
           count == IF Len(all) <= InData THEN 1
                    ELSE (Len(all) - InData + size - 1) \div size + 1
           r(k) == Mail("EoE", IF stamp # "none" /\ k = count THEN "stamped" ELSE "frag",
                        o)
           part(k) == IF k = count THEN After(all, (k - 1) * size)
                      ELSE First(After(all, (k - 1) * size), size)
           at(k) == IF k = 1 THEN Blocks(Len(whole)) ELSE ((k - 1) * size) \div Block
<1>0. all \in Data /\ whole \in Data
  <2>1. frame \in Seq(Units) /\ Stamp \in Units
    BY DEF Data, Units
  <2>2. Append(frame, Stamp) \in Seq(Units)
    <3> HIDE DEF all, whole
    <3> QED BY <2>1, AppendProperties
  <2> QED BY <2>1, <2>2 DEF Data
<1>1. size \in Nat \ {0} /\ Len(all) \in Nat /\ Len(whole) \in Nat
  <2>1. size \in Nat \ {0}
    BY MailSizes DEF WholeBlocks, Block
  <2> HIDE DEF all, whole, size
  <2> QED BY <1>0, <2>1, LenProperties DEF Data
<1> HIDE DEF all, whole
<1>2. count \in Nat
  <2>1. CASE Len(all) <= InData
    BY <2>1
  <2>2. CASE ~(Len(all) <= InData)
    <3>1. Len(all) - InData + size - 1 \in Nat
      BY <1>1, <2>2, MailSizes
    <3>2. (Len(all) - InData + size - 1) \div size \in Nat
      <4> DEFINE x == Len(all) - InData + size - 1
      <4> HIDE DEF x, size
      <4>1. x \div size \in Nat
        BY <3>1, <1>1 DEF x
      <4> QED BY <4>1 DEF x
    <3> QED BY <3>2, <2>2
  <2> QED BY <2>1, <2>2
<1>3. ASSUME NEW k PROVE r(k) \in AnyMail
  <2>1. "frag" \in Kinds /\ "stamped" \in Kinds
    BY DEF Kinds
  <2> HIDE DEF count
  <2> QED BY <2>1, OneMail
<1>4. ASSUME NEW k \in 1 .. count
      PROVE  [r(k) EXCEPT !.data = part(k), !.n = k - 1, !.frame = number,
                       !.last = k = count, !.at = at(k)] \in AnyMail
  <2>1. k \in Nat /\ k - 1 \in Nat /\ k - 1 \in Int
    BY <1>2
  <2>2. (k - 1) * size \in Nat
    <3>1. \A x, y \in Nat : x * y \in Nat
      OBVIOUS
    <3> HIDE DEF size
    <3> QED BY <3>1, <2>1, <1>1
  <2>3. part(k) \in Data
    <3> DEFINE j == (k - 1) * size
    <3>1. After(all, j) \in Data
      <4>1. j \in Nat
        BY <2>2
      <4> HIDE DEF j
      <4> QED BY <1>0, <4>1, CutTypes
    <3>2. First(After(all, j), size) \in Data
      <4> HIDE DEF j, size
      <4> QED BY <1>1, <3>1, CutTypes
    <3> QED BY <3>1, <3>2
  <2>4. at(k) \in Int
    <3> DEFINE j == (k - 1) * size
    <3>1. j \div Block \in Int
      <4> HIDE DEF j
      <4> QED BY <2>2 DEF j, Block
    <3>2. Blocks(Len(whole)) \in Int
      BY <1>1 DEF Blocks, Block
    <3> QED BY <3>1, <3>2
  <2> DEFINE rk == r(k)
             l == k = count
             d == part(k)
             a == at(k)
             j == k - 1
  <2>5. l \in BOOLEAN /\ d \in Data /\ a \in Int /\ j \in Int
    BY <2>1, <2>3, <2>4
  <2>6. [rk EXCEPT !.data = d, !.n = j, !.frame = number, !.last = l, !.at = a] \in AnyMail
    <3>1. rk \in AnyMail
      BY <1>3
    <3> HIDE DEF rk, l, d, a, j
    <3> QED BY <3>1, <2>5 DEF AnyMail
  <2> QED BY <2>6
<1>5. FrameFragments(o, number, frame, stamp)
        = [k \in 1 .. count |->
             [r(k) EXCEPT !.data = part(k), !.n = k - 1, !.frame = number,
                       !.last = k = count, !.at = at(k)]]
  BY DEF FrameFragments, all, whole
<1>6. FrameFragments(o, number, frame, stamp) \in [1 .. count -> AnyMail]
  <2> HIDE DEF r, count, part, at
  <2> QED BY <1>4, <1>5
<1> HIDE DEF count
<1> QED BY <1>2, <1>6

-----------------------------------------------------------------------------
(* What a service has read fits its buffer at any time; of an SDO this     *)
(* depends on the mails under way.                                         *)

LEMMA Leaves ==
  ASSUME NEW c \in AnyCall
  PROVE  /\ \A m : Same(c, Ask(c, m)) /\ Ask(c, m).pc = "send" /\ Ask(c, m).out = m
                   /\ Ask(c, m).kept = m.of /\ Ask(c, m).wkc = c.wkc
         /\ Same(c, Await(c)) /\ Await(c).pc = "receive" /\ Await(c).out = c.out
         /\ Await(c).kept = c.kept /\ Await(c).wkc = c.wkc
         /\ \A w : Same(c, Done(c, w)) /\ Done(c, w).pc = "return" /\ Done(c, w).wkc = w
                   /\ Done(c, w).out = c.out /\ Done(c, w).kept = c.kept
BY DEF AnyCall, Ask, Await, Done, Same

(* The data read is left alone at the beginning, and where nothing came.   *)
LEMMA BeginData ==
  ASSUME NEW c, Active(c)
  PROVE  Begin(c).data = c.data
<1>1. c \in AnyCall /\ c.op \in Services
  BY ActiveCall DEF Active
<1>2. \A m : Ask(c, m).data = c.data
  BY <1>1, Leaves DEF Same
<1>3. /\ SDOread(c).data = c.data /\ RxPDO(c).data = c.data /\ TxPDO(c).data = c.data
      /\ readODlist(c).data = c.data /\ readODdescription(c).data = c.data
      /\ readOEsingle(c).data = c.data /\ SoEread(c).data = c.data
      /\ EOEsetIp(c).data = c.data /\ EOEgetIp(c).data = c.data
  BY <1>2 DEF SDOread, RxPDO, TxPDO, readODlist, readODdescription, readOEsingle, SoEread,
              EOEsetIp, EOEgetIp
<1>4. SDOwrite(c).data = c.data /\ FOEread(c).data = c.data /\ FOEwrite(c).data = c.data
  BY <1>1 DEF SDOwrite, FOEread, FOEwrite, Ask, AnyCall
<1>5. SoEwrite(c).data = c.data /\ EOEsend(c).data = c.data
  BY <1>1 DEF SoEwrite, EOEsend, Ask, AnyCall
<1>6. Await(c).data = c.data
  BY <1>1, Leaves DEF Same
<1>7. c.op \in {"SDOread", "SDOwrite", "RxPDO", "TxPDO", "readODlist",
                  "readODdescription", "readOEsingle", "FOEread", "FOEwrite", "SoEread",
                  "SoEwrite", "EOEsend", "EOEsetIp", "EOEgetIp", "EOErecv"}
  BY <1>1 DEF Services, CoE, Writers, DropAndKeep
<1> QED BY <1>3, <1>4, <1>5, <1>6, <1>7 DEF Begin

LEMMA SentData ==
  ASSUME NEW c, Active(c), c.op # "EOEsend"
  PROVE  Sent(c).data = c.data
<1>1. c \in AnyCall
  BY ActiveCall
<1>2. Await(c).data = c.data /\ Done(c, 1).data = c.data
  BY <1>1, Leaves DEF Same
<1>3. SoEwriteSent(c).data = c.data
  BY <1>1, <1>2 DEF SoEwriteSent, AnyCall
<1> QED BY <1>2, <1>3 DEF Sent

LEMMA FailsData ==
  ASSUME NEW c, Active(c)
  PROVE  Fails(c).data = c.data
<1>1. c \in AnyCall
  BY ActiveCall
<1>2. Done(c, 0).data = c.data
  BY <1>1, Leaves DEF Same
<1>3. AskSegment(c, Flip(c.num)).data = c.data
  BY <1>1 DEF AskSegment, Ask, AnyCall
<1>4. NextSegment(c).data = c.data
  BY <1>1 DEF NextSegment, SendSegment, Ask, AnyCall
<1>5. SoEwrite(c).data = c.data
  BY <1>1 DEF SoEwrite, Ask, AnyCall
<1> QED BY <1>2, <1>3, <1>4, <1>5 DEF Fails, SDOreadFails, SDOwriteFails, SoEwriteFails

LEMMA AnswerFits ==
  ASSUME NEW c, Active(c), Fits(c), PlaceOK(c), c.pc = "receive", NEW m \in AnyMail
  PROVE  c.op \in Bounded => Len(Answer(c, m).data) <= c.room
<1>1. /\ c \in AnyCall /\ c.data \in Data /\ Len(c.data) \in Nat /\ c.room \in Nat
      /\ m.data \in Data /\ Len(m.data) \in Nat
  BY ActiveCall, MailFields
<1>2. Done(c, 0).data = c.data /\ Done(c, 1).data = c.data
  BY <1>1, Leaves DEF Same
<1> SUFFICES ASSUME c.op \in Bounded PROVE Len(Answer(c, m).data) <= c.room
  OBVIOUS
<1>3. Len(c.data) <= c.room
  BY DEF Fits
<1>4. ASSUME NEW d \in Data
      PROVE  /\ Done([c EXCEPT !.data = d], 1).data = d
             /\ Await([c EXCEPT !.data = d]).data = d
  <2> DEFINE b == [c EXCEPT !.data = d]
  <2>1. b \in AnyCall /\ b.data = d
    BY <1>1, Reads
  <2> HIDE DEF b
  <2>2. Done(b, 1).data = d /\ Await(b).data = d
    BY <2>1, Leaves DEF Same
  <2> QED BY <2>2 DEF b
<1>5. CASE c.op = "TxPDO"
  <2>1. Answer(c, m) = TxPDOAnswer(c, m)
    BY <1>5 DEF Answer
  <2> QED BY <1>1, <1>2, <1>3, <1>4, <2>1 DEF TxPDOAnswer
<1>6. CASE c.op = "readODlist"
  <2>1. Answer(c, m) = readODlistAnswer(c, m)
    BY <1>6 DEF Answer
  <2> DEFINE more == First(m.data, c.room - Len(c.data))
  <2>2. more \in Data /\ Len(more) <= c.room - Len(c.data)
    <3>1. c.room - Len(c.data) \in Nat
      BY <1>1, <1>3
    <3> QED BY <3>1, <1>1, CutTypes DEF Least
  <2>3. c.data \o more \in Data /\ Len(c.data \o more) <= c.room
    <3> HIDE DEF more
    <3>1. Len(more) \in Nat /\ c.data \o more \in Data
          /\ Len(c.data \o more) = Len(c.data) + Len(more)
      BY <1>1, <2>2, ConcatData, LenProperties DEF Data
    <3> QED BY <3>1, <2>2, <1>1
  <2>4. \/ Answer(c, m) = Done(c, 0)
        \/ Answer(c, m) = Await([c EXCEPT !.data = @ \o more])
        \/ Answer(c, m) = Done([c EXCEPT !.data = @ \o more], 1)
    BY <2>1 DEF readODlistAnswer
  <2> HIDE DEF more
  <2> QED BY <1>2, <1>3, <1>4, <2>3, <2>4
<1>7. CASE c.op \in {"readODdescription", "readOEsingle"}
  <2>1. Answer(c, m) = ODAnswer(c, m)
    BY <1>7 DEF Answer
  <2>2. First(m.data, c.room) \in Data /\ Len(First(m.data, c.room)) <= c.room
    BY <1>1, CutTypes DEF Least
  <2> QED BY <1>1, <1>2, <1>3, <1>4, <2>1, <2>2 DEF ODAnswer
<1>8. CASE c.op = "FOEread"
  <2>1. Answer(c, m) = FOEreadAnswer(c, m)
    BY <1>8 DEF Answer
  <2>2. CASE Len(c.data) + Len(m.data) <= c.room
    <3> DEFINE full == Len(m.data) = OutData
               all == c.data \o m.data
               b == [c EXCEPT !.data = all, !.num = @ + 1, !.more = full]
    <3>1. all \in Data /\ Len(all) <= c.room
      BY <1>1, <2>2, ConcatData
    <3>2. b \in AnyCall /\ b.data = all
      <4>1. full \in BOOLEAN /\ c.num + 1 \in Int
        BY ActiveCall
      <4> HIDE DEF full, all
      <4> QED BY <1>1, <3>1, <4>1 DEF AnyCall
    <3>3. Answer(c, m) = Done(c, 0) \/ Answer(c, m) = Ask(b, Packet("ack", m.n))
      BY <2>1 DEF FOEreadAnswer
    <3>4. Ask(b, Packet("ack", m.n)).data = b.data
      <4> DEFINE p == Packet("ack", m.n)
      <4> HIDE DEF b, p
      <4>1. Same(b, Ask(b, p))
        BY <3>2, Leaves
      <4>2. Ask(b, p).data = b.data
        BY <4>1 DEF Same
      <4> QED BY <4>2 DEF p
    <3> HIDE DEF b, all
    <3> QED BY <1>2, <1>3, <3>1, <3>2, <3>3, <3>4
  <2>3. CASE ~(Len(c.data) + Len(m.data) <= c.room)
    <3>1. Answer(c, m) = Done(c, 0)
      BY <2>1, <2>3 DEF FOEreadAnswer
    <3> QED BY <3>1, <1>2, <1>3
  <2> QED BY <2>2, <2>3
<1>9. CASE c.op = "SoEread"
  <2>1. Answer(c, m) = SoEreadAnswer(c, m)
    BY <1>9 DEF Answer
  <2>2. Copied(c, m) \in Data /\ Len(Copied(c, m)) <= c.room - Len(c.data)
    <3>1. /\ Copied(c, m) \in Data
          /\ Len(Copied(c, m)) = Least(Len(m.data), c.room - Len(c.data))
      BY <1>3, CopiedTypes
    <3> QED BY <3>1, <1>1, <1>3 DEF Least
  <2>3. c.data \o Copied(c, m) \in Data /\ Len(c.data \o Copied(c, m)) <= c.room
    <3>1. Len(Copied(c, m)) \in Nat /\ c.data \o Copied(c, m) \in Data
          /\ Len(c.data \o Copied(c, m)) = Len(c.data) + Len(Copied(c, m))
      BY <1>1, <2>2, ConcatData, LenProperties DEF Data
    <3> QED BY <3>1, <2>2, <1>1
  <2>4. \/ Answer(c, m) = Done(c, 0)
        \/ Answer(c, m) = Await([c EXCEPT !.data = @ \o Copied(c, m)])
        \/ Answer(c, m) = Done([c EXCEPT !.data = @ \o Copied(c, m)], 1)
    BY <2>1 DEF SoEreadAnswer
  <2> QED BY <1>2, <1>3, <1>4, <2>3, <2>4
<1>10. CASE c.op = "EOErecv"
  <2>1. Answer(c, m) = EOErecvAnswer(c, m)
    BY <1>10 DEF Answer
  <2> DEFINE fits == Len(c.data) + Len(m.data) <= c.room
             b == IF c.num = 0 THEN [c EXCEPT !.frame = m.frame] ELSE c
             d == [b EXCEPT !.data = @ \o m.data, !.num = @ + 1]
             got == IF fits THEN d ELSE b
  <2>2. b \in AnyCall /\ b.data = c.data
    BY <1>1, MailFields DEF AnyCall
  <2>3. b.data \o m.data \in Data /\ b.num + 1 \in Int
        /\ Len(b.data \o m.data) = Len(c.data) + Len(m.data)
    <3> HIDE DEF b
    <3>1. b.num + 1 \in Int
      BY <2>2 DEF AnyCall
    <3> QED BY <1>1, <2>2, <3>1, ConcatData
  <2>4. d \in AnyCall /\ d.data = b.data \o m.data
    <3> HIDE DEF b
    <3> QED BY <2>2, <2>3 DEF AnyCall
  <2>5. got \in AnyCall /\ Len(got.data) <= c.room
    <3> HIDE DEF b, d
    <3> QED BY <2>2, <2>3, <2>4, <1>3
  <2> DEFINE off == [got EXCEPT !.data = TimeOff(m, @)]
  <2>6. Answer(c, m) = Done(c, 0) \/ Answer(c, m) = Done(off, 1) \/ Answer(c, m) = Await(got)
    BY <2>1 DEF EOErecvAnswer
  <2>7. off \in AnyCall /\ Len(off.data) <= c.room
    <3> HIDE DEF got
    <3>1. /\ TimeOff(m, got.data) \in Data /\ got.data \in Data
          /\ Len(TimeOff(m, got.data)) <= Len(got.data)
      BY <2>5, TimeOffTypes DEF AnyCall
    <3>2. off \in AnyCall /\ off.data = TimeOff(m, got.data)
      BY <2>5, <3>1 DEF AnyCall
    <3>3. Len(got.data) \in Nat /\ Len(off.data) \in Nat /\ c.room \in Nat
      BY <1>1, <3>1, <3>2, LenProperties DEF Data, AnyCall
    <3> HIDE DEF off
    <3> QED BY <2>5, <3>1, <3>2, <3>3
  <2>8. Done(off, 1).data = off.data /\ Await(got).data = got.data
    <3> HIDE DEF got, off
    <3> QED BY <2>5, <2>7, Leaves DEF Same
  <2> HIDE DEF got, off
  <2> QED BY <1>2, <1>3, <2>5, <2>6, <2>7, <2>8
<1>11. c.op # "none"
  BY DEF Active, Services, CoE, Writers, DropAndKeep
<1> QED BY <1>5, <1>6, <1>7, <1>8, <1>9, <1>10, <1>11 DEF Bounded

-----------------------------------------------------------------------------
(* The invariant about types, places and buffers.                          *)

LEMMA StepControl ==
  ASSUME NEW c \in AnyCall, Active(c), NEW d, StepOf(c, d), Fits(d)
  PROVE  /\ d \in AnyCall /\ Active(d) /\ PlaceOK(d)
         /\ d.pc \notin {"idle", "drain"} /\ Fits(d)
BY DEF StepOf, Active, Keeps, PlaceOK

LEMMA NoCallTypes ==
  /\ NoCall \in AnyCall /\ NoCall.op = "none" /\ NoCall.pc = "idle"
  /\ NoCall.data = << >> /\ NoCall.more = FALSE /\ NoCall.segments = FALSE
  /\ NoCall.num = 0 /\ NoCall.zero = FALSE /\ NoCall.wkc = 0
<1>1. Blank \in AnyMail /\ << >> \in Data
  BY BlankMail, EmptyData
<1> QED BY <1>1 DEF NoCall, AnyCall, Places

LEMMA BaseInit == Init => Base
<1> SUFFICES ASSUME Init PROVE Base
  OBVIOUS
<1>1. Control
  <2>1. NoCall \in AnyCall
    BY NoCallTypes
  <2>2. call = NoCall /\ call.pc = "idle" /\ call.op = "none"
    BY DEF Init, NoCall
  <2>3. call.data = << >> /\ call.room \in Nat
    BY <2>1, <2>2, NoCallTypes DEF AnyCall
  <2> QED BY <2>1, <2>2, <2>3, EmptyData DEF Control, Fits
<1>2. UnderWay
  BY DEF Init, UnderWay
<1>3. SlaveState
  <2>1. PICK size \in Sizes : store = [o \in Objects |-> Content(o, 0, size)]
    BY DEF Init
  <2>2. \A o \in Objects : Content(o, 0, size) \in Data
    BY ContentTypes, CallAssumption
  <2>3. store \in AnyStore
    BY <2>1, <2>2 DEF AnyStore
  <2> QED BY <2>3, RestingSane DEF Init, SlaveState
<1>4. HookState
  BY FreshFrag DEF Init, HookState
<1>5. Counters
  BY DEF Init, Counters, FrameNumbers
<1>6. Balance
  BY CallAssumption DEF Init, Balance, Taken, Mine, NoCall
<1> QED BY <1>1, <1>2, <1>3, <1>4, <1>5, <1>6 DEF Base

LEMMA Newly ==
  ASSUME NEW op \in Services, NEW o \in Objects, NEW room \in Nat, NEW all \in Data,
         NEW frame \in Nat, NEW c, c = Opened(op, o, room, all, frame)
  PROVE  /\ Newborn(c, op, o, room, all, frame)
         /\ Active(Drains(c)) /\ Drains(c).pc = "drain" /\ Keeps(c, Drains(c))
         /\ Same(c, Drains(c)) /\ Drains(c).wkc = c.wkc
<1>1. /\ NoCall \in AnyCall /\ NoCall.data = << >> /\ NoCall.more = FALSE
      /\ NoCall.segments = FALSE /\ NoCall.num = 0 /\ NoCall.zero = FALSE /\ NoCall.wkc = 0
  BY NoCallTypes
<1>2. c \in AnyCall /\ c.op = op /\ c.obj = o /\ c.room = room /\ c.data = << >>
      /\ c.rest = all /\ c.all = all /\ c.frame = frame /\ c.num = 0
      /\ c.more = FALSE /\ c.segments = FALSE /\ c.zero = FALSE /\ c.wkc = 0
  <2>1. op \in Services \cup {"none"} /\ o \in Objects \cup {<< >>}
    OBVIOUS
  <2> QED BY <2>1, <1>1 DEF AnyCall, Opened
<1>3. Active(c)
  BY <1>2 DEF Active
<1>4. Drains(c) \in AnyCall /\ Drains(c).pc = "drain" /\ Keeps(c, Drains(c))
      /\ Same(c, Drains(c)) /\ Drains(c).wkc = c.wkc
  BY <1>2 DEF AnyCall, Places, Drains, Keeps, Same
<1>5. Active(Drains(c))
  BY <1>3, <1>4 DEF Active, Keeps
<1>6. Newborn(c, op, o, room, all, frame)
  BY <1>2, <1>3 DEF Newborn
<1> QED BY <1>4, <1>5, <1>6

LEMMA BaseCall ==
  ASSUME Base, NEW op \in Ops, NEW o \in Objects, NEW room \in Rooms, NEW size \in Sizes,
         Call(op, o, room, size)
  PROVE  Base'
<1> DEFINE all == IF op \in Writers THEN Content(o, calls + 1, size) ELSE << >>
           frame == (txframeno + 1) % FrameNumbers
           c == Opened(op, o, room, all, frame)
<1>1. /\ op \in Services /\ room \in Nat /\ frame \in 0 .. FrameNumbers - 1
      /\ frame \in Nat /\ calls + 1 \in Nat /\ size \in Nat
  BY CallAssumption DEF Base, Counters, FrameNumbers
<1>2. all \in Data
  BY <1>1, ContentTypes, EmptyData
<1>3. /\ Active(c) /\ c.op = op /\ c.data = << >> /\ c.room = room
      /\ Active(Drains(c)) /\ Drains(c).pc = "drain" /\ Keeps(c, Drains(c))
      /\ Same(c, Drains(c))
  <2>1. c = Opened(op, o, room, all, frame)
    OBVIOUS
  <2> HIDE DEF all, frame, c
  <2>2. /\ Newborn(c, op, o, room, all, frame)
        /\ Active(Drains(c)) /\ Drains(c).pc = "drain" /\ Keeps(c, Drains(c))
        /\ Same(c, Drains(c))
    BY <2>1, <1>1, <1>2, Newly
  <2> QED BY <2>2 DEF Newborn
<1>4. call' = IF op \in NoDrain THEN Begin(c) ELSE Drains(c)
  BY DEF Call, Opened, Drains
<1>5. /\ txframeno' = (IF op = "EOEsend" THEN frame ELSE txframeno)
      /\ free' = (IF op = "EOEsend" THEN free - 1 ELSE free)
      /\ calls' = calls + 1 /\ call.pc = "idle"
      /\ UNCHANGED <<mailvars, slavevars, mbxin, astray, hookvars>>
  BY DEF Call
<1> HIDE DEF all, frame, c
<1>6. Control' /\ Taken(call') = (IF op = "EOEsend" THEN 1 ELSE 0)
      /\ (call'.pc \in {"idle", "drain"} => op \notin NoDrain)
  <2>1. CASE op \in NoDrain
    <3>1. /\ StepOf(c, Begin(c)) /\ Begin(c).data = << >>
          /\ Begin(c).pc = IF op = "EOErecv" THEN "receive" ELSE "send"
      BY <1>3, BeginStep, BeginData
    <3>2. call' = Begin(c) /\ c \in AnyCall /\ c.room \in Nat
      BY <1>1, <1>3, <1>4, <2>1 DEF Active
    <3>3. Len(call'.data) <= call'.room
      BY <3>1, <3>2, EmptyData DEF StepOf, Keeps
    <3>4. Fits(call')
      BY <3>3 DEF Fits
    <3>5. /\ call' \in AnyCall /\ Active(call') /\ PlaceOK(call')
          /\ call'.pc \notin {"idle", "drain"}
      BY <3>1, <3>2, <3>4, <1>3, StepControl
    <3> QED BY <3>1, <3>2, <3>4, <3>5, <2>1 DEF Control, Taken, NoDrain
  <2>2. CASE op \notin NoDrain
    <3>1. call' = Drains(c)
      BY <1>4, <2>2
    <3>2. call'.pc = "drain" /\ call'.op = op /\ Active(call') /\ call'.data = << >>
      BY <3>1, <1>3 DEF Keeps, Same
    <3>3. call' \in AnyCall /\ call'.room \in Nat
      BY <3>2 DEF Active, AnyCall
    <3>4. Fits(call')
      BY <3>2, <3>3, EmptyData DEF Fits
    <3> QED BY <3>2, <3>3, <3>4, <2>2 DEF Control, Taken, NoDrain
  <2> QED BY <2>1, <2>2
<1>7. Balance'
  BY <1>5, <1>6, CallAssumption DEF Base, Balance, Taken, Mine
<1>8. UnderWay' /\ SlaveState' /\ HookState'
  BY <1>5 DEF Base, UnderWay, SlaveState, HookState, mailvars, slavevars, hookvars
<1>9. Counters'
  BY <1>1, <1>5 DEF Base, Counters
<1> QED BY <1>6, <1>7, <1>8, <1>9 DEF Base

LEMMA OverTypes ==
  ASSUME NEW c \in AnyCall
  PROVE  /\ Over(c) \in AnyCall /\ Over(c).op = c.op /\ Over(c).obj = c.obj
         /\ Over(c).room = c.room /\ Over(c).all = c.all /\ Over(c).data = c.data
         /\ Over(c).wkc = c.wkc /\ Over(c).pc = "idle"
<1>1. NoCall \in AnyCall /\ NoCall.pc = "idle"
  BY NoCallTypes
<1> QED BY <1>1 DEF AnyCall, Over

LEMMA OverControl ==
  ASSUME Control, call' = Over(call)
  PROVE  Control' /\ Taken(call') = 0 /\ call'.pc = "idle"
BY OverTypes DEF Control, Fits, Taken

LEMMA TailMails ==
  ASSUME UnderWay, tomaster # << >>
  PROVE  Tail(tomaster) \in Seq(AnyMail) /\ Head(tomaster) \in AnyMail
BY HeadTailProperties DEF UnderWay

LEMMA BaseDrain == Base /\ Drain => Base'
<1> SUFFICES ASSUME Base, Drain PROVE Base'
  OBVIOUS
<1>1. Active(call) /\ call \in AnyCall /\ call.op # "EOErecv" /\ Fits(call)
  BY DEF Base, Control, Drain, NoDrain
<1>2. call' = Begin(call)
  BY DEF Drain
<1>3. /\ StepOf(call, Begin(call)) /\ Begin(call).data = call.data
      /\ Begin(call).pc = "send"
  BY <1>1, BeginStep, BeginData
<1>4. Fits(Begin(call))
  BY <1>1, <1>3 DEF Fits, StepOf, Keeps
<1>5. Control' /\ Taken(call') = 1 /\ call'.pc = "send"
  BY <1>1, <1>2, <1>3, <1>4, StepControl DEF Control, Taken
<1>6. UnderWay'
  BY TailMails DEF Drain, Waiting, Base, UnderWay
<1>7. Balance'
  <2>1. mbxin' \in {"null", "held", "dropped"}
    BY DEF Drain, DrainedMail
  <2>2. /\ free' = (IF mbxin' = "held" THEN free - 1 ELSE free) - 1 /\ astray' = astray
        /\ mbxin = "null" /\ Taken(call) = 0
    BY DEF Drain, Base, Balance, Taken
  <2> QED BY <1>5, <2>1, <2>2, CallAssumption DEF Base, Balance, Mine
<1>8. SlaveState' /\ HookState' /\ Counters'
  BY DEF Drain, Base, SlaveState, HookState, Counters, slavevars, hookvars, bounds
<1> QED BY <1>5, <1>6, <1>7, <1>8 DEF Base

LEMMA NoBufferEnds ==
  ASSUME NoBuffer, call \in AnyCall
  PROVE  /\ call' \in AnyCall /\ call'.pc = "idle"
         /\ call'.op = call.op /\ call'.room = call.room /\ call'.data = call.data
<1>1. PICK w \in {0, 1} : call' = Over([call EXCEPT !.wkc = w])
  BY DEF NoBuffer
<1> DEFINE c == [call EXCEPT !.wkc = w]
<1>2. c \in AnyCall /\ c.op = call.op /\ c.room = call.room /\ c.data = call.data
  BY DEF AnyCall
<1> HIDE DEF c
<1>3. call' = Over(c)
  BY <1>1 DEF c
<1> QED BY <1>2, <1>3, OverTypes

LEMMA BaseNoBuffer == Base /\ NoBuffer => Base'
<1> SUFFICES ASSUME Base, NoBuffer PROVE Base'
  OBVIOUS
<1>2. Control' /\ Taken(call') = 0 /\ call'.pc = "idle"
  <2>1. Control
    BY DEF Base
  <2> QED BY <2>1, NoBufferEnds DEF Control, Fits, Taken
<1>3. UnderWay'
  BY TailMails DEF NoBuffer, Waiting, Base, UnderWay
<1>4. Balance'
  <2>1. /\ mbxin' = "null" /\ mbxin = "null" /\ Taken(call) = 0
        /\ \E k \in {0, 1} : free' = free - k /\ astray' = astray - k
    BY DEF NoBuffer, Base, Balance, Taken
  <2> QED BY <1>2, <2>1, CallAssumption DEF Base, Balance, Mine
<1>5. SlaveState' /\ HookState' /\ Counters'
  BY DEF NoBuffer, Fault, Base, SlaveState, HookState, Counters, slavevars, hookvars
<1> QED BY <1>2, <1>3, <1>4, <1>5 DEF Base

(* A call goes on: what it becomes is a step of it.                        *)
LEMMA GoesOn ==
  ASSUME Control, Active(call), NEW d, StepOf(call, d), Fits(d), call' = d
  PROVE  Control' /\ call'.pc \notin {"idle", "drain"}
BY StepControl DEF Control

LEMMA SentFits ==
  ASSUME NEW c, Active(c), Fits(c)
  PROVE  Fits(Sent(c)) /\ Fits(Fails(c))
<1>1. StepOf(c, Sent(c)) /\ StepOf(c, Fails(c)) /\ Fails(c).data = c.data
      /\ (c.op # "EOEsend" => Sent(c).data = c.data)
  BY SentStep, FailsStep, SentData, FailsData
<1> QED BY <1>1 DEF Fits, StepOf, Keeps, Bounded

LEMMA BaseSend == Base /\ (Send \/ SendFails) => Base'
<1> SUFFICES ASSUME Base, Send \/ SendFails PROVE Base'
  OBVIOUS
<1>1. call.pc = "send" /\ Active(call) /\ PlaceOK(call) /\ Control
  BY DEF Base, Control, Send, SendFails
<1>2. call.out \in AnyRequest
  BY <1>1 DEF PlaceOK
<1>3. /\ StepOf(call, Sent(call)) /\ StepOf(call, Fails(call))
      /\ Fits(Sent(call)) /\ Fits(Fails(call))
  BY <1>1, SentStep, FailsStep, SentFits DEF Control
<1>4. call' = Sent(call) \/ call' = Fails(call)
  BY DEF Send, SendFails
<1>5. Control' /\ call'.pc \notin {"idle", "drain"}
  BY <1>1, <1>3, <1>4, GoesOn
<1>6. UnderWay'
  <2>1. toslave' = toslave \/ toslave' = Append(toslave, call.out)
    BY DEF Send, SendFails, Fault
  <2>2. tomaster' = tomaster
    BY DEF Send, SendFails
  <2> QED BY <1>2, <2>1, <2>2, AppendProperties DEF Base, UnderWay
<1>7. Balance'
  <2>1. free' = free + 1 - Taken(call') /\ Taken(call') \in Int /\ Taken(call) = 1
        /\ UNCHANGED <<mbxin, astray>>
    BY <1>1 DEF Send, SendFails, Taken
  <2> QED BY <1>5, <2>1, CallAssumption DEF Base, Balance, Mine
<1>8. SlaveState' /\ HookState' /\ Counters'
  BY DEF Send, SendFails, Fault, Base, SlaveState, HookState, Counters, slavevars,
         hookvars, bounds
<1> QED BY <1>5, <1>6, <1>7, <1>8 DEF Base

LEMMA BaseReceive == Base /\ Receive => Base'
<1> SUFFICES ASSUME Base, Receive PROVE Base'
  OBVIOUS
<1>1. call.pc = "receive" /\ Active(call) /\ PlaceOK(call) /\ Control /\ Fits(call)
      /\ tomaster # << >>
  BY DEF Base, Control, Receive, Waiting
<1>2. Head(tomaster) \in AnyMail /\ UnderWay'
  BY <1>1, TailMails DEF Receive, Base, UnderWay
<1> DEFINE c == Answer(call, Head(tomaster))
           b == [c EXCEPT !.more = FALSE]
<1>3. StepOf(call, c) /\ Fits(c)
  <2>1. InRoom(call)
    BY <1>1 DEF Fits, InRoom, Bounded
  <2>2. StepOf(call, c)
    BY <1>1, <1>2, <2>1, AnswerStep
  <2>3. call.op \in Bounded => Len(c.data) <= call.room
    BY <1>1, <1>2, AnswerFits
  <2> HIDE DEF c
  <2> QED BY <2>2, <2>3 DEF Fits, StepOf, Keeps
<1> HIDE DEF c
<1>4. StepOf(call, Done(b, 1)) /\ Fits(Done(b, 1))
  <2>1. c \in AnyCall /\ Keeps(call, c)
    BY <1>3 DEF StepOf
  <2>2. b \in AnyCall /\ Keeps(call, b) /\ b.data = c.data /\ b.op = c.op /\ b.room = c.room
    BY <2>1 DEF AnyCall, Keeps
  <2> HIDE DEF b
  <2>3. StepOf(call, Done(b, 1)) /\ Done(b, 1).data = c.data /\ Keeps(b, Done(b, 1))
    BY <2>2, DoneFrom, DoneStep, Leaves DEF Same, StepOf
  <2> QED BY <2>2, <2>3, <1>3 DEF Fits, Keeps
<1>5. call' = c \/ call' = Done(b, 1)
  BY DEF Receive, c
<1> HIDE DEF b
<1>6. Control' /\ call'.pc \notin {"idle", "drain"}
  BY <1>1, <1>3, <1>4, <1>5, GoesOn
<1>7. Balance'
  <2>1. /\ free' = free + Given - 1 - Taken(call') /\ Taken(call') \in Int
        /\ Taken(call) = 0 /\ mbxin' = "held"
        /\ astray' = IF mbxin = "dropped" THEN astray + 1 ELSE astray
    BY <1>1 DEF Receive, DropIn, Taken
  <2> QED BY <1>6, <2>1, CallAssumption DEF Base, Balance, Mine, Given
<1>8. SlaveState' /\ HookState' /\ Counters'
  BY DEF Receive, Fault, Base, SlaveState, HookState, Counters, slavevars, hookvars, bounds
<1> QED BY <1>2, <1>6, <1>7, <1>8 DEF Base

LEMMA BaseNoAnswer == Base /\ NoAnswer => Base'
<1> SUFFICES ASSUME Base, NoAnswer PROVE Base'
  OBVIOUS
<1>1. call.pc = "receive" /\ Active(call) /\ Control /\ Fits(call)
  BY DEF Base, Control, NoAnswer
<1>2. StepOf(call, Fails(call)) /\ Fits(Fails(call)) /\ call' = Fails(call)
  BY <1>1, FailsStep, SentFits DEF NoAnswer
<1>3. Control' /\ call'.pc \notin {"idle", "drain"}
  BY <1>1, <1>2, GoesOn
<1>4. Balance'
  <2>1. /\ free' = free + Given - Taken(call') /\ Taken(call') \in Int
        /\ Taken(call) = 0 /\ mbxin' = "null"
        /\ astray' = IF mbxin = "dropped" THEN astray + 1 ELSE astray
    BY <1>1 DEF NoAnswer, DropIn, Taken
  <2> QED BY <1>3, <2>1, CallAssumption DEF Base, Balance, Mine, Given
<1>5. UnderWay' /\ SlaveState' /\ HookState' /\ Counters'
  BY DEF NoAnswer, Fault, Base, UnderWay, SlaveState, HookState, Counters, mailvars,
         slavevars, hookvars, bounds
<1> QED BY <1>3, <1>4, <1>5 DEF Base

LEMMA BasePoll == Base /\ Poll => Base'
<1> SUFFICES ASSUME Base, Poll PROVE Base'
  OBVIOUS
<1>1. call.pc = "poll" /\ Active(call) /\ Control /\ Fits(call) /\ call \in AnyCall
      /\ call.op = "SoEwrite"
  BY DEF Base, Control, Poll, PlaceOK
<1>2. /\ StepOf(call, SoEwrite(call)) /\ StepOf(call, Await(call))
      /\ call' = SoEwrite(call) \/ call' = Await(call)
  BY <1>1, SoEwriteStep, AwaitStep DEF Poll
<1>3. Fits(call')
  BY <1>1, <1>2 DEF StepOf, Keeps, Fits, Bounded
<1>4. Control' /\ call'.pc \notin {"idle", "drain"}
  BY <1>1, <1>2, <1>3, GoesOn
<1>5. Balance'
  <2>1. /\ free' = free - Taken(call') /\ Taken(call') \in Int /\ Taken(call) = 0
        /\ UNCHANGED <<mbxin, astray>>
    BY <1>1 DEF Poll, Taken
  <2> QED BY <1>4, <2>1, CallAssumption DEF Base, Balance, Mine
<1>6. UnderWay' /\ SlaveState' /\ HookState' /\ Counters'
  BY DEF Poll, Fault, Base, UnderWay, SlaveState, HookState, Counters, mailvars,
         slavevars, hookvars, bounds
<1> QED BY <1>4, <1>5, <1>6 DEF Base

LEMMA BaseReturn == Base /\ Return => Base'
<1> SUFFICES ASSUME Base, Return PROVE Base'
  OBVIOUS
<1>1. call.pc = "return" /\ Control /\ call' = Over(call) /\ call.data \in Data
  BY ActiveCall DEF Base, Control, Return
<1>2. Control' /\ Taken(call') = 0 /\ call'.pc = "idle"
  BY <1>1, OverControl
<1>3. Balance'
  <2>1. /\ free' = free + Given /\ Taken(call) = 0 /\ mbxin' = "null"
        /\ astray' = IF mbxin = "dropped" THEN astray + 1 ELSE astray
    BY <1>1 DEF Return, ReturnMail, Taken
  <2> QED BY <1>2, <2>1, CallAssumption DEF Base, Balance, Mine, Given
<1>4. HookState'
  BY <1>1 DEF Return, Base, HookState
<1>5. UnderWay' /\ SlaveState' /\ Counters'
  BY DEF Return, Base, UnderWay, SlaveState, Counters, mailvars, slavevars, bounds
<1> QED BY <1>2, <1>3, <1>4, <1>5 DEF Base

LEMMA BaseReuse == Base /\ Reuse => Base'
<1> SUFFICES ASSUME Base, Reuse PROVE Base'
  OBVIOUS
<1>1. PICK o \in Objects \cup {Foreign} : call' = [call EXCEPT !.kept = o]
  BY DEF Reuse
<1>2. call.pc = "receive" /\ Active(call) /\ PlaceOK(call) /\ Control /\ Fits(call)
      /\ call \in AnyCall
  BY DEF Base, Control, Reuse
<1>3. o \in Objects \cup {<< >>, Foreign}
  OBVIOUS
<1>4. call' \in AnyCall /\ Keeps(call, call') /\ Same(call, call') /\ call'.pc = "receive"
  BY <1>1, <1>2, <1>3 DEF AnyCall, Keeps, Same
<1>5. Control' /\ Taken(call') = Taken(call)
  BY <1>2, <1>4 DEF Control, Active, Keeps, Same, Fits, PlaceOK, Taken
<1>6. Balance'
  BY <1>2, <1>4, <1>5 DEF Reuse, poolvars, Base, Balance, Mine
<1>7. UnderWay' /\ SlaveState' /\ HookState' /\ Counters'
  BY DEF Reuse, Fault, Base, UnderWay, SlaveState, HookState, Counters, mailvars,
         slavevars, hookvars, bounds
<1> QED BY <1>5, <1>6, <1>7 DEF Base

(* The steps of the slave and the wire leave the call and its buffers alone. *)
LEMMA Elsewhere ==
  ASSUME Control, Balance, UNCHANGED <<call, poolvars>>
  PROVE  Control' /\ Balance'
BY DEF Control, Balance, Mine, poolvars

LEMMA BaseHook == Base /\ HookFragment => Base'
<1> SUFFICES ASSUME Base, HookFragment PROVE Base'
  OBVIOUS
<1>1. Head(tomaster) \in AnyMail /\ UnderWay'
  BY TailMails DEF HookFragment, Hooked, Base, UnderWay
<1> DEFINE r == ReadFragment(frag, Head(tomaster), Largest(Rooms))
<1>2. r.frag \in AnyFrag /\ r.done \in Seq(Data)
  BY <1>1, ReadFragmentTypes DEF Base, HookState
<1>3. frag' = r.frag /\ frames' = frames \cup {r.done[k] : k \in 1 .. Len(r.done)}
  BY DEF HookFragment
<1> HIDE DEF r
<1>4. \A k \in 1 .. Len(r.done) : r.done[k] \in Data
  BY <1>2, ElementOfSeq
<1>5. HookState'
  BY <1>2, <1>3, <1>4 DEF Base, HookState
<1>6. Control' /\ Balance'
  BY Elsewhere DEF HookFragment, Base
<1>7. SlaveState' /\ Counters'
  BY DEF HookFragment, Base, SlaveState, Counters, slavevars, bounds
<1> QED BY <1>1, <1>5, <1>6, <1>7 DEF Base

LEMMA BusyTypes ==
  ASSUME NEW s, SlaveSane(s), NEW st \in AnyStore
  PROVE  ServedOK(Busy(s, st)) /\ ServedOK(Served(Resting, st, <<Abort>>))
<1>1. Packet("busy", 0) \in AnyMail
  BY PacketMail
<1> QED BY <1>1, AbortMail, OneReply, RestingSane, ServedTypes DEF Busy

LEMMA BaseServe == Base /\ Serve => Base'
<1> SUFFICES ASSUME Base, Serve PROVE Base'
  OBVIOUS
<1>1. Head(toslave) \in AnyRequest /\ Tail(toslave) \in Seq(AnyRequest)
  BY HeadTailProperties DEF Serve, Base, UnderWay
<1>2. /\ SlaveSane(srv) /\ store \in AnyStore
      /\ ServedOK(SlaveDoes(srv, store, Head(toslave))) /\ ServedOK(Busy(srv, store))
      /\ ServedOK(Served(Resting, store, <<Abort>>))
  BY <1>1, SlaveTurn, BusyTypes DEF Base, SlaveState
<1>3. \/ Deliver(SlaveDoes(srv, store, Head(toslave))) \/ Deliver(Busy(srv, store))
      \/ Deliver(Served(Resting, store, <<Abort>>))
  BY DEF Serve
<1>4. PICK r : ServedOK(r) /\ Deliver(r)
  BY <1>2, <1>3
<1>5. UnderWay' /\ SlaveSane(srv)' /\ store' \in AnyStore
  BY <1>1, <1>4, ConcatProperties DEF ServedOK, Deliver, Base, UnderWay
<1>6. Control' /\ Balance'
  BY Elsewhere DEF Serve, Base
<1>7. SlaveState' /\ HookState' /\ Counters'
  BY <1>5 DEF Serve, Fault, Base, SlaveState, HookState, Counters, hookvars, bounds
<1> QED BY <1>5, <1>6, <1>7 DEF Base

LEMMA LargestSize == Largest(Sizes) \in Sizes
BY CallAssumption DEF Largest

LEMMA BaseSendFrame == Base /\ SendFrame => Base'
<1> SUFFICES ASSUME Base, SendFrame PROVE Base'
  OBVIOUS
<1>1. PICK o \in Objects, size \in Sizes, stamp \in Stamps, by \in {0, 1} :
        tomaster' = tomaster \o FrameFragments(o, sent % FrameNumbers,
                                               Content(o, by, size), stamp)
  BY DEF SendFrame
<1>2. sent % FrameNumbers \in Nat /\ sent + 1 \in Nat
  BY DEF Base, SlaveState, FrameNumbers
<1>3. Content(o, by, size) \in Data
  BY ContentTypes, CallAssumption
<1>4. MaxFrames > 0
  BY CallAssumption DEF SendFrame, Base, SlaveState
<1>5. UnderWay'
  BY <1>1, <1>2, <1>3, <1>4, EoeAssumption, FrameFragmentsTypes, ConcatProperties
     DEF SendFrame, Base, UnderWay
<1>6. Control' /\ Balance'
  BY Elsewhere DEF SendFrame, Base
<1>7. SlaveState' /\ HookState' /\ Counters'
  BY <1>2 DEF SendFrame, Base, SlaveState, HookState, Counters, hookvars, bounds
<1> QED BY <1>5, <1>6, <1>7 DEF Base

LEMMA BaseWire == Base /\ (Lose \/ Repeat \/ Vanish) => Base'
<1> SUFFICES ASSUME Base, Lose \/ Repeat \/ Vanish PROVE Base'
  OBVIOUS
<1>1. Control' /\ Balance'
  BY Elsewhere DEF Lose, Repeat, Vanish, Base
<1>2. UnderWay'
  <2>1. CASE Lose
    BY <2>1, TailMails DEF Lose, Base, UnderWay
  <2>2. CASE Repeat
    <3>1. <<Head(tomaster)>> \in Seq(AnyMail)
      BY <2>2, TailMails, OneReply DEF Repeat, Base
    <3> QED BY <2>2, <3>1, ConcatProperties DEF Repeat, Base, UnderWay
  <2>3. CASE Vanish
    BY <2>3 DEF Vanish, mailvars, Base, UnderWay
  <2> QED BY <2>1, <2>2, <2>3
<1>3. SlaveState' /\ HookState' /\ Counters'
  BY DEF Lose, Repeat, Vanish, Fault, Base, SlaveState, HookState, Counters, slavevars,
         hookvars, bounds
<1> QED BY <1>1, <1>2, <1>3 DEF Base

(* A program that dies changes nothing else.                               *)
LEMMA StepOrDeath == [Next]_vars => [Step]_state
BY DEF Next, vars, ClearNull, CopyFromNull

LEMMA BaseNext == Base /\ [Next]_vars => Base'
<1> SUFFICES ASSUME Base, [Step]_state PROVE Base'
  BY StepOrDeath
<1>1. ASSUME NEW op \in Ops, NEW o \in Objects, NEW room \in Rooms, NEW size \in Sizes,
             Call(op, o, room, size)
      PROVE  Base'
  BY <1>1, BaseCall
<1>2. CASE Drain \/ NoBuffer \/ Send \/ SendFails \/ Receive \/ NoAnswer \/ Poll \/ Return
  BY <1>2, BaseDrain, BaseNoBuffer, BaseSend, BaseReceive, BaseNoAnswer, BasePoll,
     BaseReturn
<1>3. CASE Reuse \/ HookFragment \/ Serve \/ SendFrame \/ Lose \/ Repeat \/ Vanish
  BY <1>3, BaseReuse, BaseHook, BaseServe, BaseSendFrame, BaseWire
<1>4. CASE UNCHANGED state
  BY <1>4 DEF state, mailvars, slavevars, poolvars, hookvars, bounds, Base, Control,
              UnderWay, SlaveState, HookState, Counters, Balance, Mine
<1> QED BY <1>1, <1>2, <1>3, <1>4 DEF Step, Application

(* Mails, call, slave, hook and pool are as they should be between any two *)
(* steps: Base, whatever the services, sizes and faults.                   *)
THEOREM CallsBase == Spec => []Base
<1> QED BY BaseInit, BaseNext, PTL DEF Spec

(* After a call what the pool has too many or too few is what astray has   *)
(* counted: drained mails dropped twice, and drained mails that a call did *)
(* not drop when it found no buffer for its request.                       *)
THEOREM ReturnsBuffers == Spec => []BuffersReturned
<1>1. Base => BuffersReturned
  BY DEF Base, Balance, Mine, Taken, BuffersReturned
<1> QED BY <1>1, CallsBase, PTL

(* Nothing is counted in astray where no service drops a mail and keeps    *)
(* the pointer, and the pool always has a buffer.                          *)
Owed == astray = 0 /\ mbxin # "dropped" /\ call.op \notin DropAndKeep

LEMMA CallOp ==
  ASSUME Base, NEW op \in Ops, NEW o \in Objects, NEW room \in Rooms, NEW size \in Sizes,
         Call(op, o, room, size)
  PROVE  call'.op = op
<1> DEFINE all == IF op \in Writers THEN Content(o, calls + 1, size) ELSE << >>
           frame == (txframeno + 1) % FrameNumbers
           c == Opened(op, o, room, all, frame)
<1>1. /\ op \in Services /\ room \in Nat /\ frame \in Nat /\ calls + 1 \in Nat
      /\ size \in Nat
  BY CallAssumption DEF Base, Counters, FrameNumbers
<1>2. all \in Data
  BY <1>1, ContentTypes, EmptyData
<1>3. call' = IF op \in NoDrain THEN Begin(c) ELSE Drains(c)
  BY DEF Call, Opened, Drains
<1>4. c = Opened(op, o, room, all, frame)
  OBVIOUS
<1> HIDE DEF all, frame, c
<1>5. Active(c) /\ c.op = op /\ Drains(c).op = op
  <2>1. Newborn(c, op, o, room, all, frame) /\ Keeps(c, Drains(c))
    BY <1>1, <1>2, <1>4, Newly
  <2> QED BY <2>1 DEF Newborn, Keeps
<1>6. Begin(c).op = op
  BY <1>5, BeginStep DEF StepOf, Keeps
<1> QED BY <1>3, <1>5, <1>6

LEMMA OpKept ==
  ASSUME Base, Send \/ SendFails \/ Receive \/ NoAnswer \/ Poll \/ Return \/ Reuse
  PROVE  call'.op = call.op
<1>1. CASE Send \/ SendFails
  BY <1>1, SentStep, FailsStep DEF Send, SendFails, Base, Control, PlaceOK, StepOf, Keeps
<1>2. CASE Receive
  <2>1. call.pc = "receive" /\ Active(call) /\ Fits(call) /\ PlaceOK(call)
        /\ tomaster # << >>
    BY <1>2 DEF Base, Control, Receive, Waiting
  <2>2. Head(tomaster) \in AnyMail /\ InRoom(call)
    BY <2>1, TailMails DEF Base, Fits, InRoom, Bounded
  <2> DEFINE c == Answer(call, Head(tomaster))
             b == [c EXCEPT !.more = FALSE]
  <2>3. c \in AnyCall /\ c.op = call.op
    <3>1. StepOf(call, c)
      BY <2>1, <2>2, AnswerStep
    <3> HIDE DEF c
    <3> QED BY <3>1 DEF StepOf, Keeps
  <2> HIDE DEF c
  <2>4. b \in AnyCall /\ b.op = call.op
    BY <2>3 DEF AnyCall
  <2> HIDE DEF b
  <2>5. Done(b, 1).op = call.op
    BY <2>4 DEF Done, AnyCall
  <2> QED BY <1>2, <2>3, <2>5 DEF Receive, c, b
<1>3. CASE NoAnswer
  BY <1>3, FailsStep DEF NoAnswer, Base, Control, StepOf, Keeps
<1>4. CASE Poll
  BY <1>4, SoEwriteStep, AwaitStep DEF Poll, Base, Control, PlaceOK, StepOf, Keeps
<1>5. CASE Return
  BY <1>5, OverTypes DEF Return, Base, Control
<1>6. CASE Reuse
  BY <1>6 DEF Reuse, Base, Control, AnyCall
<1> QED BY <1>1, <1>2, <1>3, <1>4, <1>5, <1>6

LEMMA OwedNext ==
  ASSUME Ops \cap DropAndKeep = {}, "dry" \notin FaultKinds,
         Base, Owed, [Next]_vars
  PROVE  Owed'
<1>0. [Step]_state
  BY StepOrDeath
<1>1. ASSUME NEW op \in Ops, NEW o \in Objects, NEW room \in Rooms, NEW size \in Sizes,
             Call(op, o, room, size)
      PROVE  Owed'
  BY <1>1, CallOp DEF Call, Owed
<1>2. CASE Drain
  <2>1. call'.op = call.op
    BY <1>2, BeginStep DEF Drain, Base, Control, NoDrain, StepOf, Keeps
  <2> QED BY <1>2, <2>1 DEF Drain, DrainedMail, Owed
<1>3. ~NoBuffer
  BY DEF NoBuffer, Fault
<1>4. CASE Send \/ SendFails \/ Receive \/ NoAnswer \/ Poll \/ Return \/ Reuse
  <2>1. call'.op = call.op
    BY <1>4, OpKept
  <2>2. mbxin' \in {mbxin, "null", "held"} /\ astray' = astray
    BY <1>4 DEF Owed, Send, SendFails, Receive, NoAnswer, Poll, Return, Reuse, DropIn,
                ReturnMail, poolvars
  <2> QED BY <2>1, <2>2 DEF Owed
<1>5. CASE HookFragment \/ Serve \/ SendFrame \/ Lose \/ Repeat \/ Vanish \/ UNCHANGED state
  BY <1>5 DEF HookFragment, Serve, SendFrame, Lose, Repeat, Vanish, state, poolvars, Owed
<1> QED BY <1>0, <1>1, <1>2, <1>3, <1>4, <1>5 DEF Step, Application

(* Calls of the services that do not drop a drained mail and keep the      *)
(* pointer, that is all but ecx_TxPDO and the readers of the dictionary,   *)
(* give every buffer back, once each, as long as the pool has one for      *)
(* every request: the pool keeps its buffers through any answers,          *)
(* timeouts, lost and repeated mails and failed sends.                     *)
THEOREM PoolIsIntact ==
  ASSUME Ops \cap DropAndKeep = {}, "dry" \notin FaultKinds
  PROVE  Spec => []PoolIntact
<1>1. Init => Owed
  BY DEF Init, Owed, NoCall, DropAndKeep
<1>2. Base /\ Owed /\ [Next]_vars => Owed'
  BY OwedNext
<1>3. Base /\ Owed => PoolIntact
  BY CallAssumption DEF Base, Balance, Mine, Taken, Owed, PoolIntact
<1> QED BY <1>1, <1>2, <1>3, CallsBase, PTL DEF Spec

-----------------------------------------------------------------------------
(* A call that begins when nothing is under way.                           *)

LEMMA CallStarts ==
  ASSUME Base, NEW op \in Ops, NEW o \in Objects, NEW room \in Rooms, NEW size \in Sizes,
         Call(op, o, room, size)
  PROVE  \E c : Starting(c) /\ (call' = Drains(c) \/ call' = Begin(c)) /\ Starting(Drains(c))
<1> DEFINE all == IF op \in Writers THEN Content(o, calls + 1, size) ELSE << >>
           frame == (txframeno + 1) % FrameNumbers
           c == Opened(op, o, room, all, frame)
<1>1. /\ op \in Services /\ room \in Nat /\ frame \in Nat /\ calls + 1 \in Nat
      /\ size \in Nat
  BY CallAssumption DEF Base, Counters, FrameNumbers
<1>2. all \in Data
  BY <1>1, ContentTypes, EmptyData
<1>3. c = Opened(op, o, room, all, frame)
  OBVIOUS
<1>4. call' = IF op \in NoDrain THEN Begin(c) ELSE Drains(c)
  BY DEF Call, Opened, Drains
<1> HIDE DEF all, frame, c
<1>5. /\ Newborn(c, op, o, room, all, frame)
      /\ Active(Drains(c)) /\ Drains(c).pc = "drain" /\ Keeps(c, Drains(c))
      /\ Same(c, Drains(c)) /\ Drains(c).wkc = c.wkc
  BY <1>1, <1>2, <1>3, Newly
<1>6. Starting(c)
  BY <1>5 DEF Newborn, Starting
<1>7. Starting(Drains(c))
  BY <1>5, <1>6 DEF Starting, Keeps, Same
<1> QED BY <1>4, <1>6, <1>7

LEMMA BornKept == Base /\ Born /\ [Next]_vars => Born'
<1> SUFFICES ASSUME Base, Born, [Next]_vars, [Step]_state PROVE Born'
  BY StepOrDeath
<1>1. Control'
  BY BaseNext DEF Base
<1>3. ASSUME NEW op \in Ops, NEW o \in Objects, NEW room \in Rooms, NEW size \in Sizes,
             Call(op, o, room, size)
      PROVE  Born'
  <2>1. PICK c : Starting(c) /\ (call' = Drains(c) \/ call' = Begin(c))
                 /\ Starting(Drains(c))
    BY <1>3, CallStarts
  <2>2. Begin(c).pc # "drain"
    BY <2>1, BeginStep DEF Starting
  <2> QED BY <2>1, <2>2 DEF Born
<1>4. CASE Drain
  <2>1. call' = Begin(call) /\ Active(call)
    BY <1>4 DEF Drain, Base, Control
  <2> QED BY <2>1, BeginStep DEF Born
<1>5. CASE NoBuffer \/ Return
  <2>1. call'.pc = "idle"
    BY <1>5, NoBufferEnds, OverTypes DEF Return, Base, Control
  <2> QED BY <2>1 DEF Born
<1>6. CASE Send \/ SendFails \/ Receive \/ NoAnswer \/ Poll
  <2>1. Active(call) /\ PlaceOK(call) /\ call.pc \in {"send", "receive", "poll"}
        /\ Fits(call) /\ call \in AnyCall
    BY <1>6 DEF Base, Control, Send, SendFails, Receive, NoAnswer, Poll
  <2>2. /\ StepOf(call, Sent(call)) /\ StepOf(call, Fails(call))
        /\ StepOf(call, SoEwrite(call))
    BY <2>1, SentStep, FailsStep, SoEwriteStep
  <2>3. CASE Send \/ SendFails \/ NoAnswer
    BY <2>2, <2>3 DEF Send, SendFails, NoAnswer, Born, StepOf, PlaceOK
  <2>4. CASE Poll
    <3>1. Await(call).pc = "receive"
      BY <2>1, Leaves
    <3> QED BY <2>2, <2>4, <3>1 DEF Poll, Born, StepOf, PlaceOK
  <2>5. CASE Receive
    <3>1. Head(tomaster) \in AnyMail /\ call.pc = "receive"
      BY <2>5, TailMails DEF Receive, Waiting, Base
    <3>2. StepOf(call, Answer(call, Head(tomaster)))
      BY <2>1, <3>1, AnswerStep DEF InRoom, Fits, Bounded
    <3>3. Answer(call, Head(tomaster)) \in AnyCall /\ Answer(call, Head(tomaster)).pc # "drain"
      BY <3>2 DEF StepOf, PlaceOK
    <3> DEFINE c == Answer(call, Head(tomaster))
    <3>4. call' = c \/ call' = Done([c EXCEPT !.more = FALSE], 1)
      BY <2>5 DEF Receive
    <3> HIDE DEF c
    <3>5. c \in AnyCall /\ c.pc # "drain"
      BY <3>3 DEF c
    <3>6. Done([c EXCEPT !.more = FALSE], 1).pc = "return"
      BY <3>5 DEF AnyCall, Done
    <3> QED BY <3>4, <3>5, <3>6 DEF Born
  <2> QED BY <1>6, <2>3, <2>4, <2>5
<1>7. CASE Reuse
  <2>1. call.pc = "receive" /\ call \in AnyCall
    BY <1>7 DEF Reuse, Base, Control
  <2>2. call'.pc = "receive"
    BY <2>1, <1>7 DEF Reuse, AnyCall
  <2> QED BY <2>2 DEF Born
<1>8. CASE HookFragment \/ Serve \/ SendFrame \/ Lose \/ Repeat \/ Vanish \/ UNCHANGED state
  BY <1>8 DEF HookFragment, Serve, SendFrame, Lose, Repeat, Vanish, state, Born
<1> QED BY <1>3, <1>4, <1>5, <1>6, <1>7, <1>8 DEF Step, Application

LEMMA FragmentsAlike ==
  ASSUME NEW o \in Objects, NEW number \in Nat, NEW frame \in Data, NEW stamp,
         InData >= Block
  PROVE  FrameFragments(o, number, frame, stamp) \in Seq(Frags)
<1> DEFINE all == IF stamp = "none" THEN frame ELSE Append(frame, Stamp)
           whole == IF stamp = "counted" THEN all ELSE frame
           size == WholeBlocks(InData)
           count == IF Len(all) <= InData THEN 1
                    ELSE (Len(all) - InData + size - 1) \div size + 1
           r(k) == Mail("EoE", IF stamp # "none" /\ k = count THEN "stamped" ELSE "frag",
                        o)
           part(k) == IF k = count THEN After(all, (k - 1) * size)
                      ELSE First(After(all, (k - 1) * size), size)
           at(k) == IF k = 1 THEN Blocks(Len(whole)) ELSE ((k - 1) * size) \div Block
           fs == FrameFragments(o, number, frame, stamp)
<1>1. fs \in Seq(AnyMail)
  BY FrameFragmentsTypes
<1>2. ASSUME NEW k
      PROVE  r(k) \in AnyMail /\ r(k).type = "EoE" /\ r(k).kind \in {"frag", "stamped"}
  <2> DEFINE kind == IF stamp # "none" /\ k = count THEN "stamped" ELSE "frag"
  <2>1. kind \in {"frag", "stamped"} /\ kind \in Kinds
    BY DEF Kinds
  <2>2. r(k) = Mail("EoE", kind, o)
    OBVIOUS
  <2> HIDE DEF count, r, kind
  <2>3. Mail("EoE", kind, o) \in AnyMail /\ PlainMail(Mail("EoE", kind, o), "EoE", kind, o)
    BY <2>1, OneMail
  <2> QED BY <2>1, <2>2, <2>3 DEF PlainMail
<1>3. fs = [k \in 1 .. count |->
             [r(k) EXCEPT !.data = part(k), !.n = k - 1, !.frame = number,
                       !.last = k = count, !.at = at(k)]]
  BY DEF FrameFragments
<1>4. ASSUME NEW k \in 1 .. Len(fs) PROVE fs[k] \in Frags
  <2>1. fs[k] \in AnyMail
    BY <1>1, ElementOfSeq
  <2>2. DOMAIN fs = 1 .. Len(fs)
    BY <1>1, LenProperties
  <2>3. k \in 1 .. count
    <3>1. DOMAIN fs = 1 .. count
      <4> HIDE DEF r, count, part, at
      <4> QED BY <1>3
    <3> QED BY <2>2, <3>1
  <2>4. fs[k] = [r(k) EXCEPT !.data = part(k), !.n = k - 1, !.frame = number,
                          !.last = k = count, !.at = at(k)]
    <3> HIDE DEF r, count, part, at, fs
    <3> QED BY <1>3, <2>3
  <2>5. fs[k].type = "EoE" /\ fs[k].kind \in {"frag", "stamped"}
    <3> DEFINE rk == r(k)
               x == part(k)
               y == at(k)
    <3>1. rk \in AnyMail /\ rk.type = "EoE" /\ rk.kind \in {"frag", "stamped"}
      BY <1>2
    <3>2. fs[k] = [rk EXCEPT !.data = x, !.n = k - 1, !.frame = number,
                             !.last = k = count, !.at = y]
      <4> HIDE DEF r, count, part, at, fs
      <4> QED BY <2>4
    <3> HIDE DEF rk, x, y, fs, count
    <3> QED BY <3>1, <3>2 DEF AnyMail
  <2> QED BY <2>1, <2>5 DEF Frags, IsFragment
<1> HIDE DEF fs
<1>5. fs \in [1 .. Len(fs) -> AnyMail] /\ Len(fs) \in Nat
  BY <1>1, LenProperties
<1>6. fs \in [1 .. Len(fs) -> Frags]
  BY <1>4, <1>5
<1>7. fs \in Seq(Frags)
  BY <1>5, <1>6
<1> QED BY <1>7 DEF fs

LEMMA QuietTurns ==
  Base /\ Born /\ [Next]_vars /\ quiet'
    => Opening \/ (quiet /\ faults \subseteq faults' /\ (gone => gone') /\ Turn)
<1> SUFFICES ASSUME Base, Born, [Step]_state, quiet'
             PROVE  Opening \/ (quiet /\ faults \subseteq faults' /\ (gone => gone') /\ Turn)
  BY StepOrDeath
<1>1. ASSUME NEW op \in Ops, NEW o \in Objects, NEW room \in Rooms, NEW size \in Sizes,
             Call(op, o, room, size)
      PROVE  Opening
  <2>1. \E c : Starting(c) /\ (call' = Drains(c) \/ call' = Begin(c))
               /\ Starting(Drains(c))
    BY <1>1, CallStarts
  <2>2. /\ toslave = << >> /\ tomaster = << >> /\ srv.op # "idn"
        /\ UNCHANGED <<mailvars, slavevars>>
    BY <1>1 DEF Call, Undisturbed
  <2> QED BY <2>1, <2>2 DEF Opening, mailvars, slavevars
<1>2. CASE Drain
  <2>1. Starting(call) /\ call' = Begin(call)
    BY <1>2 DEF Drain, Born
  <2>2. /\ toslave' = << >> /\ tomaster' = << >> /\ srv.op # "idn"
        /\ UNCHANGED <<srv, store>>
    BY <1>2 DEF Drain, slavevars
  <2> QED BY <2>1, <2>2 DEF Opening
<1>3. CASE NoBuffer
  <2>0. quiet /\ ~Waiting /\ Starting(call)
    BY <1>3 DEF NoBuffer, Born
  <2>2. call' = Over([call EXCEPT !.wkc = 0]) /\ call.wkc = 0 /\ call \in AnyCall
    BY <1>3, <2>0 DEF NoBuffer, Starting, Active
  <2>3. [call EXCEPT !.wkc = 0] = call
    BY <2>2 DEF AnyCall
  <2>1. Starting(call) /\ Ending
    BY <1>3, <2>0, <2>2, <2>3 DEF NoBuffer, Ending, slavevars
  <2> QED BY <2>0, <2>1, <1>3 DEF Turn, NoBuffer, Fault
<1>4. CASE Return
  <2>1. Ending
    BY <1>4 DEF Return, Ending, mailvars, slavevars
  <2> QED BY <2>1, <1>4 DEF Turn, Return, bounds
<1>5. CASE Send
  <2>1. Sending
    BY <1>5 DEF Send, Sending, slavevars
  <2> QED BY <2>1, <1>5 DEF Turn, Send, bounds
<1>6. CASE SendFails
  <2>1. NotSending
    BY <1>6 DEF SendFails, NotSending, slavevars, Fault
  <2>2. faults \subseteq faults'
    BY <1>6 DEF SendFails, Fault, bounds
  <2> QED BY <2>1, <2>2, <1>6 DEF Turn, SendFails
<1>7. CASE Receive
  <2>1. Hearing
    BY <1>7 DEF Receive, Hearing, Waiting, slavevars, Fault
  <2>2. faults \subseteq faults'
    BY <1>7 DEF Receive, Fault, bounds
  <2> QED BY <2>1, <2>2, <1>7 DEF Turn, Receive
<1>8. CASE NoAnswer
  <2>1. NotHearing
    BY <1>8 DEF NoAnswer, NotHearing, slavevars, Fault
  <2>2. faults \subseteq faults'
    BY <1>8 DEF NoAnswer, Fault, bounds
  <2> QED BY <2>1, <2>2, <1>8 DEF Turn, NoAnswer
<1>9. CASE Poll
  <2>1. Polling
    BY <1>9 DEF Poll, Polling, slavevars, Fault
  <2>2. faults \subseteq faults'
    BY <1>9 DEF Poll, Fault, bounds
  <2> QED BY <2>1, <2>2, <1>9 DEF Turn, Poll
<1>10. CASE Reuse
  <2>1. Mixing
    BY <1>10 DEF Reuse, Mixing, slavevars
  <2> QED BY <2>1, <1>10 DEF Turn, Reuse, Fault
<1>11. CASE Serve
  <2>1. Serving
    <3> DEFINE m == Head(toslave)
    <3>1. CASE Deliver(SlaveDoes(srv, store, m))
      BY <1>11, <3>1 DEF Serve, Serving
    <3>2. CASE Deliver(Served(Resting, store, <<Abort>>))
               /\ m.kind \in {"upreq", "downreq", "upsegreq", "downsegreq"}
               /\ Fault("refused")
      BY <1>11, <3>2 DEF Serve, Serving, Fault
    <3>3. CASE /\ m.kind \in {"write", "data"} /\ Deliver(Busy(srv, store))
               /\ Fault(IF m.kind = "write" \/ (m.kind = "data" /\ m.data = << >>)
                        THEN "busyend" ELSE "busy")
      <4>1. \/ "busyend" \in faults'
            \/ m.kind = "data" /\ m.data # << >> /\ "busy" \in faults'
        <5>1. CASE m.kind = "write" \/ (m.kind = "data" /\ m.data = << >>)
          BY <3>3, <5>1 DEF Fault
        <5>2. CASE ~(m.kind = "write" \/ (m.kind = "data" /\ m.data = << >>))
          <6> HIDE DEF m
          <6> QED BY <3>3, <5>2 DEF Fault
        <5> QED BY <5>1, <5>2
      <4> QED BY <1>11, <3>3, <4>1 DEF Serve, Serving
    <3> QED BY <1>11, <3>1, <3>2, <3>3 DEF Serve
  <2>2. faults \subseteq faults'
    BY <1>11 DEF Serve, Fault, bounds
  <2> QED BY <2>1, <2>2, <1>11 DEF Turn, Serve
<1>12. CASE SendFrame
  <2>1. PICK o \in Objects, size \in Sizes, stamp \in Stamps, by \in {0, 1} :
          tomaster' = tomaster \o FrameFragments(o, sent % FrameNumbers,
                                                 Content(o, by, size), stamp)
    BY <1>12 DEF SendFrame
  <2>2. sent % FrameNumbers \in Nat /\ Content(o, by, size) \in Data
    <3>1. sent % FrameNumbers \in Nat
      BY DEF Base, SlaveState, FrameNumbers
    <3>2. size \in Nat
      BY CallAssumption
    <3> QED BY <3>1, <3>2, ContentTypes
  <2>3. InData >= Block
    BY <1>12, CallAssumption, EoeAssumption DEF SendFrame, Base, SlaveState
  <2>4. FrameFragments(o, sent % FrameNumbers, Content(o, by, size), stamp) \in Seq(Frags)
    BY <2>2, <2>3, FragmentsAlike
  <2>5. Wire
    BY <1>12, <2>1, <2>4 DEF SendFrame, Wire
  <2> QED BY <2>5, <1>12 DEF Turn, SendFrame, bounds
<1>13. CASE HookFragment
  <2>1. Wire
    BY <1>13 DEF HookFragment, Hooked, Wire, slavevars
  <2> QED BY <2>1, <1>13 DEF Turn, HookFragment, bounds
<1>14. CASE Lose \/ Repeat \/ Vanish
  <2>1. Wire
    BY <1>14 DEF Lose, Repeat, Vanish, Fault, Wire, slavevars, mailvars
  <2>2. CASE Lose \/ Repeat
    BY <2>1, <2>2 DEF Lose, Repeat, Fault, Turn
  <2>3. CASE Vanish
    BY <2>1, <2>3 DEF Vanish, Fault, Turn
  <2> QED BY <1>14, <2>2, <2>3
<1>15. CASE UNCHANGED state
  <2>1. UNCHANGED <<call, toslave, srv, store, tomaster, faults, gone, quiet>>
    BY <1>15 DEF state, mailvars, slavevars, bounds
  <2> QED BY <2>1 DEF Turn, Wire
<1> QED BY <1>1, <1>2, <1>3, <1>4, <1>5, <1>6, <1>7, <1>8, <1>9, <1>10, <1>11, <1>12,
           <1>13, <1>14, <1>15 DEF Step, Application

LEMMA WireSeq ==
  ASSUME Wire, NEW S, tomaster \in Seq(S), Frags \subseteq S
  PROVE  tomaster' \in Seq(S)
<1>1. ASSUME tomaster # << >>, tomaster' = Tail(tomaster)
      PROVE  tomaster' \in Seq(S)
  BY <1>1, HeadTailProperties
<1>2. ASSUME tomaster # << >>, tomaster' = <<Head(tomaster)>> \o tomaster
      PROVE  tomaster' \in Seq(S)
  <2>1. Head(tomaster) \in S
    BY <1>2, HeadTailProperties
  <2>2. <<Head(tomaster)>> \in Seq(S)
    BY <2>1
  <2> QED BY <1>2, <2>2, ConcatProperties
<1>3. ASSUME NEW fs \in Seq(Frags), tomaster' = tomaster \o fs
      PROVE  tomaster' \in Seq(S)
  <2>1. fs \in Seq(S)
    BY SeqMonotonic
  <2> QED BY <1>3, <2>1, ConcatProperties
<1> QED BY <1>1, <1>2, <1>3 DEF Wire

LEMMA EndingSeq ==
  ASSUME Ending, NEW S, tomaster \in Seq(S)
  PROVE  tomaster' \in Seq(S)
BY HeadTailProperties DEF Ending

LEMMA EmptySeqs == \A S : << >> \in Seq(S)
BY EmptySeq

(* How a call opens.                                                       *)
LEMMA OpeningCall ==
  ASSUME Opening
  PROVE  \E c : /\ Starting(c) /\ Keeps(c, call')
                /\ \/ call'.pc = "drain" /\ Same(c, call') /\ call'.wkc = 0
                   \/ call' = Begin(c) /\ StepOf(c, Begin(c))
<1>1. PICK c : Starting(c) /\ (call' = Drains(c) \/ call' = Begin(c))
  BY DEF Opening
<1>2. Drains(c).pc = "drain" /\ Same(c, Drains(c)) /\ Drains(c).wkc = 0 /\ Keeps(c, Drains(c))
  <2>1. c \in AnyCall
    BY <1>1 DEF Starting, Active
  <2> QED BY <1>1, <2>1 DEF Starting, AnyCall, Drains, Same, Keeps
<1>3. StepOf(c, Begin(c))
  BY <1>1, BeginStep DEF Starting
<1> QED BY <1>1, <1>2, <1>3 DEF StepOf

(* Facts about turns that need no invariant but the types.                 *)
LEMMA AnswerOp ==
  ASSUME NEW c, Active(c), Fits(c), PlaceOK(c), c.pc = "receive", NEW m \in AnyMail
  PROVE  StepOf(c, Answer(c, m)) /\ Answer(c, m).op = c.op
<1>1. StepOf(c, Answer(c, m))
  BY AnswerStep DEF InRoom, Fits, Bounded
<1> QED BY <1>1 DEF StepOf, Keeps

LEMMA HearingKeeps ==
  ASSUME Base, Hearing
  PROVE  /\ Active(call) /\ PlaceOK(call) /\ Fits(call) /\ Head(tomaster) \in AnyMail
         /\ Keeps(call, call') /\ StepOf(call, Answer(call, Head(tomaster)))
<1>1. /\ Active(call) /\ PlaceOK(call) /\ Fits(call) /\ call.pc = "receive"
      /\ tomaster # << >> /\ tomaster \in Seq(AnyMail)
  BY DEF Base, Control, Hearing, UnderWay
<1>2. Head(tomaster) \in AnyMail
  BY <1>1, HeadTailProperties
<1> DEFINE d == Answer(call, Head(tomaster))
           b == [d EXCEPT !.more = FALSE]
<1>3. StepOf(call, d)
  BY <1>1, <1>2, AnswerOp
<1>4. call' = d \/ call' = Done(b, 1)
  BY DEF Hearing
<1> HIDE DEF d
<1>5. b \in AnyCall /\ Keeps(call, b)
  BY <1>3 DEF StepOf, AnyCall, Keeps
<1> HIDE DEF b
<1>6. StepOf(call, Done(b, 1))
  BY <1>5, DoneFrom
<1> QED BY <1>1, <1>2, <1>3, <1>4, <1>6 DEF StepOf, d

LEMMA PollingKeeps ==
  ASSUME Base, Polling
  PROVE  call.op = "SoEwrite" /\ call'.op = "SoEwrite" /\ Keeps(call, call')
         /\ Active(call)
<1>1. Active(call) /\ PlaceOK(call) /\ call.op = "SoEwrite" /\ call \in AnyCall
  BY DEF Base, Control, Polling, PlaceOK
<1>2. StepOf(call, SoEwrite(call)) /\ StepOf(call, Await(call))
  BY <1>1, SoEwriteStep, AwaitStep
<1> QED BY <1>1, <1>2 DEF Polling, StepOf, Keeps

-----------------------------------------------------------------------------
(* Services that ask once and read one mail: ecx_TxPDO, ecx_EOEgetIp.      *)

(* The sets of mails only depend on what is kept in a call.                *)
LEMMA AskedKeeps ==
  ASSUME NEW c, NEW d, Keeps(c, d), NEW st
  PROVE  Questions(d) = Questions(c) /\ Replies(d, st) = Replies(c, st)
         /\ Readout(d, st) = Readout(c, st)
BY DEF Keeps, Questions, Replies, Readout

LEMMA AskedOpening ==
  ASSUME Opening
  PROVE  Asked(call', toslave', tomaster', store')
<1>1. PICK c : /\ Starting(c) /\ Keeps(c, call')
               /\ \/ call'.pc = "drain" /\ Same(c, call') /\ call'.wkc = 0
                  \/ call' = Begin(c) /\ StepOf(c, Begin(c))
  BY OpeningCall
<1> SUFFICES ASSUME call'.op \in OneQuestion
             PROVE  Asked(call', toslave', tomaster', store')
  BY DEF Asked
<1>2. c.op = call'.op /\ Active(c) /\ c \in AnyCall /\ c.obj \in Objects /\ c.wkc = 0
      /\ call'.obj \in Objects
  BY <1>1, ActiveCall DEF Keeps, Starting
<1>3. toslave' = << >> /\ tomaster' = << >>
  BY DEF Opening
<1>4. CASE call'.pc = "drain" /\ call'.wkc = 0
  BY <1>2, <1>3, <1>4, EmptySeqs DEF Asked
<1>5. CASE call' = Begin(c)
  <2>1. CASE c.op = "TxPDO"
    <3> DEFINE m == Mail("CoE", "txpdoreq", c.obj)
    <3>1. call' = Ask(c, m)
      BY <1>5, <2>1 DEF Begin, TxPDO
    <3>2. m \in AnyRequest /\ PlainMail(m, "CoE", "txpdoreq", c.obj)
      BY <1>2, CoeRequest, OneMail DEF CoeRequests, Kinds
    <3> HIDE DEF m
    <3>3. m \in Questions(c)
      BY <2>1, <3>2 DEF Questions, PlainMail
    <3>4. call'.out = m /\ call'.wkc = 0 /\ call'.pc = "send"
      BY <1>2, <3>1, Leaves
    <3>5. Questions(call') = Questions(c)
      BY <1>1, AskedKeeps
    <3> QED BY <1>2, <1>3, <3>3, <3>4, <3>5, EmptySeqs DEF Asked
  <2>2. CASE c.op = "EOEgetIp"
    <3> DEFINE m == Mail("EoE", "getipreq", c.obj)
    <3>1. call' = Ask(c, m)
      BY <1>5, <2>2 DEF Begin, EOEgetIp
    <3>2. m \in AnyRequest /\ PlainMail(m, "EoE", "getipreq", c.obj)
      BY <1>2, OtherRequest, OneMail DEF Kinds
    <3> HIDE DEF m
    <3>3. m \in Questions(c)
      BY <2>2, <3>2 DEF Questions, PlainMail
    <3>4. call'.out = m /\ call'.wkc = 0 /\ call'.pc = "send"
      BY <1>2, <3>1, Leaves
    <3>5. Questions(call') = Questions(c)
      BY <1>1, AskedKeeps
    <3> QED BY <1>2, <1>3, <3>3, <3>4, <3>5, EmptySeqs DEF Asked
  <2> QED BY <1>2, <2>1, <2>2 DEF OneQuestion
<1> QED BY <1>1, <1>4, <1>5

(* The reply of the slave: the data as it is.                              *)
LEMMA AskedServe ==
  ASSUME NEW c, NEW m \in Questions(c), c.op \in OneQuestion, c.obj \in Objects,
         NEW s, NEW st \in AnyStore
  PROVE  /\ SlaveDoes(s, st, m).store = st
         /\ SlaveDoes(s, st, m).replies \in Seq(Replies(c, st))
<1>1. CASE c.op = "TxPDO"
  <2> DEFINE r == Mail("CoE", "txpdo", c.obj)
             d == First(st[c.obj], InData)
             rm == [r EXCEPT !.data = d]
  <2>1. m.type = "CoE" /\ m.kind = "txpdoreq" /\ m.of = c.obj
    BY <1>1 DEF Questions
  <2>2. SlaveDoes(s, st, m) = Served(s, st, <<rm>>)
    BY <2>1 DEF SlaveDoes, CoeServe
  <2>3. r \in AnyMail /\ r.kind = "txpdo" /\ d \in Data
    <3>1. r \in AnyMail /\ PlainMail(r, "CoE", "txpdo", c.obj)
      BY OneMail DEF Kinds
    <3>2. st[c.obj] \in Data
      BY ObjectTypes
    <3>3. d \in Data
      BY <3>2, CutTypes, MailSizes
    <3> HIDE DEF r, d
    <3> QED BY <3>1, <3>3 DEF PlainMail
  <2>4. rm \in AnyMail /\ rm.kind = "txpdo" /\ rm.data = d
    <3> HIDE DEF r, d
    <3> QED BY <2>3 DEF AnyMail
  <2>5. rm \in Replies(c, st)
    <3> HIDE DEF rm
    <3> QED BY <1>1, <2>4 DEF Replies, Readout
  <2> HIDE DEF rm
  <2>6. <<rm>> \in Seq(Replies(c, st))
    BY <2>5
  <2> QED BY <2>2, <2>6 DEF Served
<1>2. CASE c.op = "EOEgetIp"
  <2> DEFINE r == Mail("EoE", "getipresp", c.obj)
             d == st[c.obj]
             rm == [r EXCEPT !.data = d]
  <2>1. m.type = "EoE" /\ m.kind = "getipreq" /\ m.of = c.obj
    BY <1>2 DEF Questions
  <2>2. SlaveDoes(s, st, m) = Served(s, st, <<rm>>)
    BY <2>1 DEF SlaveDoes, EoeServe
  <2>3. r \in AnyMail /\ r.kind = "getipresp" /\ d \in Data
    <3>1. r \in AnyMail /\ PlainMail(r, "EoE", "getipresp", c.obj)
      BY OneMail DEF Kinds
    <3>2. st[c.obj] \in Data
      BY ObjectTypes
    <3>3. d \in Data
      BY <3>2
    <3> HIDE DEF r, d
    <3> QED BY <3>1, <3>3 DEF PlainMail
  <2>4. rm \in AnyMail /\ rm.kind = "getipresp" /\ rm.data = d
    <3> HIDE DEF r, d
    <3> QED BY <2>3 DEF AnyMail
  <2>5. rm \in Replies(c, st)
    <3> HIDE DEF rm
    <3> QED BY <1>2, <2>4 DEF Replies, Readout
  <2> HIDE DEF rm
  <2>6. <<rm>> \in Seq(Replies(c, st))
    BY <2>5
  <2> QED BY <2>2, <2>6 DEF Served
<1> QED BY <1>1, <1>2 DEF OneQuestion

(* In every turn of a call that asked when nothing was under way.          *)
LEMMA AskedTurn ==
  ASSUME Base, quiet, Turn, Asked(call, toslave, tomaster, store)
  PROVE  Asked(call', toslave', tomaster', store')
<1>0. /\ call \in AnyCall /\ toslave \in Seq(AnyRequest) /\ tomaster \in Seq(AnyMail)
      /\ store \in AnyStore /\ SlaveSane(srv)
      /\ call.pc # "idle" => Active(call)
      /\ call.pc \notin {"idle", "drain"} => PlaceOK(call)
  BY DEF Base, Control, UnderWay, SlaveState
<1>a. ASSUME call'.op = call.op, Keeps(call, call'), store' = store,
             call.op \in OneQuestion =>
               /\ toslave' \in Seq(Questions(call))
               /\ tomaster' \in Seq(Replies(call, store))
               /\ call'.pc = "send" => call'.out \in Questions(call)
               /\ call'.wkc = 1 => call'.data = Readout(call, store)
      PROVE  Asked(call', toslave', tomaster', store')
  BY <1>a, AskedKeeps DEF Asked, Keeps
<1>b. Frags \subseteq Replies(call, store)
  BY DEF Frags, Replies
<1>1. CASE Wire
  <2>1. call.op \in OneQuestion => tomaster' \in Seq(Replies(call, store))
    BY <1>1, <1>b, WireSeq DEF Asked
  <2> QED BY <1>1, <2>1 DEF Wire, Asked
<1>2. CASE Ending
  <2>1. Keeps(call, call') /\ call'.pc = "idle" /\ call'.wkc = call.wkc
        /\ call'.data = call.data
    BY <1>0, <1>2, OverTypes, NoCallTypes DEF Ending, Keeps, AnyCall
  <2>2. call.op \in OneQuestion => tomaster' \in Seq(Replies(call, store))
    BY <1>2, EndingSeq DEF Asked
  <2>3. toslave' = toslave /\ store' = store
    BY <1>2 DEF Ending
  <2> QED BY <1>a, <2>1, <2>2, <2>3 DEF Asked, Keeps
<1>3. CASE Sending \/ NotSending
  <2>1. Active(call) /\ StepOf(call, Sent(call)) /\ StepOf(call, Fails(call))
    BY <1>0, <1>3, SentStep, FailsStep DEF Sending, NotSending
  <2>2. Keeps(call, call')
    BY <1>3, <2>1 DEF Sending, NotSending, StepOf
  <2>3. /\ toslave' = toslave \/ toslave' = Append(toslave, call.out)
        /\ tomaster' = tomaster /\ store' = store /\ call.pc = "send"
    BY <1>3 DEF Sending, NotSending
  <2>4. call.op \in OneQuestion =>
          /\ Sent(call) = Await(call) /\ Fails(call) = Done(call, 0)
    BY DEF OneQuestion, Sent, Fails
  <2>5. call.op \in OneQuestion => call'.pc # "send" /\ call'.wkc \in {call.wkc, 0}
                                   /\ call'.data = call.data
    BY <1>0, <1>3, <2>4, Leaves DEF Sending, NotSending, Same
  <2>6. call.op \in OneQuestion => toslave' \in Seq(Questions(call))
    BY <2>3, AppendProperties DEF Asked
  <2> QED BY <1>a, <2>2, <2>3, <2>5, <2>6 DEF Asked, Keeps
<1>4. CASE Hearing
  <2>1. Active(call) /\ PlaceOK(call) /\ call.pc = "receive"
        /\ tomaster # << >> /\ Head(tomaster) \in AnyMail
    BY <1>0, <1>4, HeadTailProperties DEF Hearing
  <2>2. CASE call.op \notin OneQuestion
    <3>1. call'.op = call.op
      BY <1>4, <2>1, HearingKeeps DEF Keeps, Base
    <3> QED BY <2>2, <3>1 DEF Asked
  <2>3. CASE call.op \in OneQuestion
    <3>1. /\ tomaster' \in Seq(Replies(call, store))
          /\ Head(tomaster) \in Replies(call, store)
      BY <1>4, <2>3, HeadTailProperties DEF Hearing, Asked
    <3> DEFINE m == Head(tomaster)
               b == [call EXCEPT !.data = m.data]
    <3>2. b \in AnyCall /\ b.data = m.data /\ m.data \in Data /\ Keeps(call, b)
      BY <1>0, <2>1, MailFields, Reads
    <3>3. \/ call' = Done(call, 0)
          \/ call' = Done(b, 1) /\ m.kind \in {"txpdo", "getipresp"}
      <4>1. \/ Answer(call, m) = Done(call, 0)
            \/ Answer(call, m) = Done(b, 1) /\ m.kind \in {"txpdo", "getipresp"}
        BY <2>3 DEF OneQuestion, Answer, TxPDOAnswer, EOEgetIpAnswer
      <4>2. ~Segmented(Answer(call, m))
        BY <1>4, <2>3, HearingKeeps DEF Segmented, OneQuestion, StepOf, Keeps
      <4> QED BY <1>4, <4>1, <4>2 DEF Hearing
    <3>4. m.kind \in {"txpdo", "getipresp"} => m.data = Readout(call, store)
      BY <3>1 DEF Replies, IsFragment
    <3> HIDE DEF b, m
    <3>7. /\ StepOf(call, Done(call, 0)) /\ Done(call, 0).pc = "return"
          /\ Done(call, 0).wkc = 0
      BY <1>0, DoneStep
    <3>8. /\ StepOf(call, Done(b, 1)) /\ Done(b, 1).pc = "return"
          /\ Done(b, 1).data = m.data
      BY <3>2, DoneFrom, Leaves DEF Same
    <3>5. /\ Keeps(call, call') /\ call'.pc = "return"
          /\ call'.wkc = 1 => call'.data = Readout(call, store)
      BY <3>3, <3>4, <3>7, <3>8 DEF StepOf
    <3>6. toslave' = toslave /\ store' = store
      BY <1>4 DEF Hearing
    <3> QED BY <1>a, <3>1, <3>5, <3>6 DEF Asked, Keeps
  <2> QED BY <2>2, <2>3
<1>5. CASE NotHearing
  <2>1. Active(call) /\ StepOf(call, Fails(call)) /\ call' = Fails(call)
    BY <1>0, <1>5, FailsStep DEF NotHearing
  <2>2. Keeps(call, call') /\ UNCHANGED <<mailvars, store>>
    BY <1>5, <2>1 DEF NotHearing, StepOf
  <2>3. call.op \in OneQuestion => Fails(call) = Done(call, 0)
    BY DEF OneQuestion, Fails
  <2>4. call.op \in OneQuestion => call'.pc # "send" /\ call'.wkc = 0
    BY <1>0, <2>1, <2>3, Leaves
  <2> QED BY <1>a, <2>2, <2>4 DEF Asked, Keeps, mailvars
<1>6. CASE Polling
  <2>1. call'.op \notin OneQuestion
    BY <1>0, <1>6, PollingKeeps DEF OneQuestion, Base
  <2> QED BY <2>1 DEF Asked
<1>7. CASE Mixing
  <2>1. /\ Keeps(call, call') /\ call'.wkc = call.wkc /\ call'.data = call.data
        /\ call'.pc = "receive"
    BY <1>0, <1>7 DEF Mixing, Keeps, AnyCall
  <2> QED BY <1>a, <1>7, <2>1 DEF Asked, Keeps, Mixing, mailvars
<1>8. CASE Serving
  <2> SUFFICES ASSUME call.op \in OneQuestion PROVE Asked(call', toslave', tomaster', store')
    BY <1>8 DEF Asked, Serving
  <2>1. /\ Head(toslave) \in Questions(call) /\ Tail(toslave) \in Seq(Questions(call))
        /\ call' = call
    BY <1>8, HeadTailProperties DEF Serving, Asked
  <2>2. call.obj \in Objects
    BY DEF Asked
  <2>3. Deliver(SlaveDoes(srv, store, Head(toslave)))
    BY <1>8, <2>1 DEF Serving, Questions
  <2>4. store' = store /\ tomaster' \in Seq(Replies(call, store))
    BY <1>0, <2>1, <2>2, <2>3, AskedServe, ConcatProperties DEF Deliver, Asked
  <2> QED BY <2>1, <2>3, <2>4 DEF Asked, Deliver
<1> QED BY <1>1, <1>2, <1>3, <1>4, <1>5, <1>6, <1>7, <1>8 DEF Turn

(* A turn changes neither what the call asks for nor its frame of fields.  *)
LEMMA EndingKeeps ==
  ASSUME Base, Ending
  PROVE  /\ Keeps(call, call') /\ call'.pc = "idle" /\ call'.wkc = call.wkc
         /\ call'.data = call.data /\ toslave' = toslave /\ UNCHANGED <<srv, store>>
<1>1. call \in AnyCall /\ call' = Over(call)
  BY DEF Base, Control, Ending
<1> QED BY <1>1, OverTypes, NoCallTypes DEF Ending, Keeps, AnyCall

LEMMA SendingKeeps ==
  ASSUME Base, Sending \/ NotSending
  PROVE  /\ Active(call) /\ call.pc = "send" /\ Keeps(call, call') /\ PlaceOK(call')
         /\ StepOf(call, Sent(call)) /\ StepOf(call, Fails(call))
         /\ UNCHANGED <<tomaster, srv, store>>
         /\ toslave' = toslave \/ toslave' = Append(toslave, call.out)
<1>1. Active(call) /\ PlaceOK(call) /\ call.pc = "send"
  BY DEF Base, Control, Sending, NotSending
<1>2. StepOf(call, Sent(call)) /\ StepOf(call, Fails(call))
  BY <1>1, SentStep, FailsStep
<1> QED BY <1>1, <1>2 DEF Sending, NotSending, StepOf

LEMMA NotHearingKeeps ==
  ASSUME Base, NotHearing
  PROVE  /\ Active(call) /\ PlaceOK(call) /\ StepOf(call, call') /\ call' = Fails(call)
         /\ Keeps(call, call') /\ UNCHANGED <<mailvars, srv, store>>
<1>1. Active(call) /\ PlaceOK(call)
  BY DEF Base, Control, NotHearing
<1>2. StepOf(call, Fails(call))
  BY <1>1, FailsStep
<1> QED BY <1>1, <1>2 DEF NotHearing, StepOf

LEMMA MixingKeeps ==
  ASSUME Base, Mixing
  PROVE  /\ Active(call) /\ Keeps(call, call') /\ Same(call, call') /\ call'.wkc = call.wkc
         /\ call'.pc = "receive" /\ call'.out = call.out
         /\ UNCHANGED <<mailvars, srv, store>>
BY DEF Base, Control, Mixing, Keeps, Same, AnyCall

LEMMA TurnKeeps == Base /\ Turn => Keeps(call, call')
<1>1. Base /\ (Wire \/ Serving) => Keeps(call, call')
  BY DEF Wire, Serving, Keeps
<1> QED BY <1>1, EndingKeeps, SendingKeeps, NotHearingKeeps, MixingKeeps, HearingKeeps,
           PollingKeeps DEF Turn

LEMMA AskedNext == Base /\ Born /\ AskedInv /\ [Next]_vars => AskedInv'
BY QuietTurns, AskedOpening, AskedTurn DEF AskedInv

LEMMA BaseBorn == Spec => [](Base /\ Born)
<1>1. Init => Base /\ Born
  BY BaseInit DEF Init, Born, NoCall
<1>2. Base /\ Born /\ [Next]_vars => (Base /\ Born)'
  BY BaseNext, BornKept
<1> QED BY <1>1, <1>2, PTL DEF Spec

LEMMA AnswersExact == Spec => []ExactAnswer
<1>1. Init => AskedInv
  BY DEF Init, NoCall, AskedInv, Asked, OneQuestion
<1>2. Base /\ Born /\ AskedInv /\ [Next]_vars => AskedInv'
  BY AskedNext
<1>3. Base /\ AskedInv => ExactAnswer
  <2> SUFFICES ASSUME Base, AskedInv, Success, quiet, call.op \in InOneMail
               PROVE  call.data = Readable
    BY DEF ExactAnswer
  <2>1. call.op \in OneQuestion /\ call.wkc = 1
    BY DEF InOneMail, OneQuestion, Success, Base, Control, AnyCall
  <2>2. call.wkc = 1 => call.data = Readout(call, store)
    BY <2>1 DEF AskedInv, Asked
  <2> QED BY <2>1, <2>2 DEF Readout, Readable, Success, OneQuestion
<1> QED BY <1>1, <1>2, <1>3, BaseBorn, PTL DEF Spec

-----------------------------------------------------------------------------
(* Parts of an object: where they belong, and that they are right.         *)

LEMMA PieceFirst ==
  ASSUME NEW all \in Data, NEW k \in Nat
  PROVE  Piece(all, 0, First(all, k)) /\ Len(First(all, k)) = Least(k, Len(all))
<1>1. Len(all) \in Nat
  BY LenProperties DEF Data
<1>2. /\ First(all, k) \in Data /\ Len(First(all, k)) = Least(k, Len(all))
      /\ \A i \in 1 .. Least(k, Len(all)) : First(all, k)[i] = all[i]
  BY CutTypes
<1> QED BY <1>1, <1>2 DEF Piece, Least

LEMMA PieceCut ==
  ASSUME NEW all \in Data, NEW a \in Nat, NEW d, Piece(all, a, d), NEW k \in Nat
  PROVE  /\ Piece(all, a, First(d, k)) /\ Len(First(d, k)) = Least(k, Len(d))
         /\ k <= Len(d) => Piece(all, a + k, After(d, k)) /\ Len(After(d, k)) = Len(d) - k
<1>1. Len(all) \in Nat /\ Len(d) \in Nat /\ d \in Data
  BY LenProperties DEF Data, Piece
<1>2. /\ First(d, k) \in Data /\ Len(First(d, k)) = Least(k, Len(d))
      /\ \A i \in 1 .. Least(k, Len(d)) : First(d, k)[i] = d[i]
      /\ After(d, k) \in Data
      /\ Len(After(d, k)) = IF k < Len(d) THEN Len(d) - k ELSE 0
      /\ \A i \in 1 .. Len(d) - k : After(d, k)[i] = d[k + i]
  BY <1>1, CutTypes
<1>3. a + Len(d) <= Len(all) /\ \A p \in 1 .. Len(d) : d[p] = all[a + p]
  BY DEF Piece
<1>4. Piece(all, a, First(d, k))
  BY <1>1, <1>2, <1>3 DEF Piece, Least
<1>5. ASSUME k <= Len(d)
      PROVE  Piece(all, a + k, After(d, k)) /\ Len(After(d, k)) = Len(d) - k
  <2>1. Len(After(d, k)) = Len(d) - k
    BY <1>1, <1>2, <1>5
  <2>2. ASSUME NEW p \in 1 .. Len(d) - k
        PROVE  After(d, k)[p] = all[a + k + p]
    <3>1. k + p \in 1 .. Len(d)
      BY <1>1
    <3>2. After(d, k)[p] = d[k + p] /\ d[k + p] = all[a + (k + p)]
      BY <1>2, <1>3, <3>1
    <3>3. a + (k + p) = a + k + p
      BY <1>1
    <3> QED BY <3>2, <3>3
  <2> DEFINE e == After(d, k)
  <2> HIDE DEF e
  <2>3. a + k \in Nat /\ a + k + Len(e) <= Len(all) /\ e \in Data
    <3>1. e \in Data /\ Len(e) = Len(d) - k
      BY <1>2, <2>1 DEF e
    <3>2. a + Len(d) <= Len(all)
      BY <1>3
    <3> QED BY <1>1, <3>1, <3>2
  <2>4. \A p \in 1 .. Len(e) : e[p] = all[a + k + p]
    BY <2>1, <2>2 DEF e
  <2>5. Piece(all, a + k, e)
    BY <2>3, <2>4 DEF Piece
  <2> QED BY <2>1, <2>5 DEF e
<1> QED BY <1>2, <1>4, <1>5

LEMMA PieceJoin ==
  ASSUME NEW all \in Data, NEW a \in Nat, NEW d, NEW e, Piece(all, a, d),
         Piece(all, a + Len(d), e)
  PROVE  Piece(all, a, d \o e) /\ Len(d \o e) = Len(d) + Len(e)
<1>1. d \in Data /\ e \in Data /\ Len(d) \in Nat /\ Len(e) \in Nat /\ Len(all) \in Nat
  BY LenProperties DEF Data, Piece
<1>2. /\ d \o e \in Data /\ Len(d \o e) = Len(d) + Len(e)
      /\ \A i \in 1 .. Len(d) + Len(e) :
           (d \o e)[i] = IF i <= Len(d) THEN d[i] ELSE e[i - Len(d)]
  BY <1>1, ConcatProperties DEF Data
<1>3. ASSUME NEW p \in 1 .. Len(d) + Len(e)
      PROVE  (d \o e)[p] = all[a + p]
  <2>1. CASE p <= Len(d)
    BY <1>1, <1>2, <2>1 DEF Piece
  <2>2. CASE ~(p <= Len(d))
    <3>1. p - Len(d) \in 1 .. Len(e) /\ a + Len(d) + (p - Len(d)) = a + p
      BY <1>1, <2>2
    <3> QED BY <1>2, <2>2, <3>1 DEF Piece
  <2> QED BY <2>1, <2>2
<1> QED BY <1>1, <1>2, <1>3 DEF Piece

LEMMA PieceWhole ==
  ASSUME NEW all \in Data, NEW d, Piece(all, 0, d), NEW k \in Nat,
         Len(d) = Least(k, Len(all))
  PROVE  d = First(all, k) /\ (Len(d) = Len(all) => d = all)
<1>1. d \in Data /\ Len(d) \in Nat /\ Len(all) \in Nat
      /\ \A p \in 1 .. Len(d) : d[p] = all[p]
  BY LenProperties DEF Data, Piece
<1>2. /\ First(all, k) \in Data /\ Len(First(all, k)) = Least(k, Len(all))
      /\ \A i \in 1 .. Least(k, Len(all)) : First(all, k)[i] = all[i]
  BY CutTypes
<1>3. \A u, v \in Seq(Units) :
        Len(u) = Len(v) /\ (\A i \in 1 .. Len(u) : u[i] = v[i]) => u = v
  BY SeqEqual
<1>4. d = First(all, k)
  BY <1>1, <1>2, <1>3 DEF Data
<1>5. Len(d) = Len(all) => d = all
  BY <1>1, <1>3 DEF Data
<1> QED BY <1>4, <1>5

-----------------------------------------------------------------------------
(* What happens to the order of the parts: others are dropped and added,   *)
(* the next one is read, the slave sends one.                              *)
LEMMA MailsTyped ==
  ASSUME NEW tm \in Seq(AnyMail)
  PROVE  /\ Len(tm) \in Nat
         /\ \A i \in 1 .. Len(tm) : tm[i] \in AnyMail /\ tm[i].at \in Int
                                    /\ Len(tm[i].data) \in Nat /\ End(tm[i]) \in Int
         /\ tm # << >> =>
              /\ Head(tm) = tm[1] /\ Tail(tm) \in Seq(AnyMail) /\ Len(tm) >= 1
              /\ Len(Tail(tm)) = Len(tm) - 1
              /\ \A i \in 1 .. Len(tm) - 1 : Tail(tm)[i] = tm[i + 1]
<1>1. Len(tm) \in Nat /\ \A i \in 1 .. Len(tm) : tm[i] \in AnyMail
  BY LenProperties, ElementOfSeq
<1>2. \A i \in 1 .. Len(tm) : tm[i].at \in Int /\ Len(tm[i].data) \in Nat
                              /\ End(tm[i]) \in Int
  BY <1>1, MailFields DEF End
<1>3. ASSUME tm # << >>
      PROVE  /\ Head(tm) = tm[1] /\ Tail(tm) \in Seq(AnyMail) /\ Len(tm) >= 1
             /\ Len(Tail(tm)) = Len(tm) - 1
             /\ \A i \in 1 .. Len(tm) - 1 : Tail(tm)[i] = tm[i + 1]
  BY <1>1, <1>3, HeadTailProperties, EmptySeq
<1> QED BY <1>1, <1>2, <1>3

LEMMA TailPlace ==
  ASSUME NEW tm \in Seq(AnyMail), tm # << >>, NEW d \in Data
  PROVE  /\ InPlace(d, tm) => InPlace(d, Tail(tm))
         /\ \A s : Beyond(s, d, tm) => Beyond(s, d, Tail(tm))
<1> DEFINE t == Tail(tm)
<1>1. /\ Len(tm) \in Nat /\ Len(t) = Len(tm) - 1 /\ Len(tm) >= 1
      /\ \A i \in 1 .. Len(t) : i + 1 \in 1 .. Len(tm) /\ t[i] = tm[i + 1]
  BY MailsTyped
<1> HIDE DEF t
<1>2. ASSUME InPlace(d, tm) PROVE InPlace(d, t)
  <2> SUFFICES ASSUME NEW i \in 1 .. Len(t), IsPart(t[i])
               PROVE  /\ Len(d) <= t[i].at
                      /\ \A j \in 1 .. i - 1 : IsPart(t[j]) => End(t[j]) <= t[i].at
    BY DEF InPlace
  <2>1. IsPart(tm[i + 1]) /\ t[i] = tm[i + 1] /\ i + 1 \in 1 .. Len(tm)
    BY <1>1
  <2>2. \A j \in 1 .. i - 1 : j + 1 \in 1 .. (i + 1) - 1 /\ t[j] = tm[j + 1]
    BY <1>1
  <2>3. \A j \in 1 .. (i + 1) - 1 : IsPart(tm[j]) => End(tm[j]) <= tm[i + 1].at
    BY <1>2, <2>1 DEF InPlace
  <2> QED BY <1>2, <2>1, <2>2, <2>3 DEF InPlace
<1>3. ASSUME NEW s, Beyond(s, d, tm) PROVE Beyond(s, d, t)
  BY <1>1, <1>3 DEF Beyond
<1> QED BY <1>2, <1>3 DEF t

LEMMA TailCovered ==
  ASSUME NEW tm \in Seq(AnyMail), tm # << >>, NEW k \in Nat, k < Len(tm), NEW q \in Int,
         Covered(tm, k + 1, q), ~IsPart(Head(tm)) \/ End(Head(tm)) <= q
  PROVE  Covered(Tail(tm), k, q)
<1>1. /\ Head(tm) = tm[1] /\ Len(tm) \in Nat
      /\ \A i \in 1 .. Len(tm) - 1 : Tail(tm)[i] = tm[i + 1]
      /\ End(tm[1]) \in Int
  BY MailsTyped
<1>2. PICK j \in 1 .. k + 1 : IsPart(tm[j]) /\ tm[j].at <= q /\ q < End(tm[j])
  BY DEF Covered
<1>3. j # 1
  BY <1>1, <1>2
<1>4. j - 1 \in 1 .. k /\ Tail(tm)[j - 1] = tm[j]
  <2>1. j - 1 \in 1 .. Len(tm) - 1 /\ j - 1 \in 1 .. k /\ (j - 1) + 1 = j
    BY <1>1, <1>3
  <2> QED BY <1>1, <2>1
<1> QED BY <1>2, <1>4 DEF Covered

LEMMA TailGapless ==
  ASSUME NEW tm \in Seq(AnyMail), tm # << >>, NEW d \in Data, NEW room \in Nat,
         ~IsPart(Head(tm))
  PROVE  /\ Gapless(d, tm, room) => Gapless(d, Tail(tm), room)
         /\ \A p \in Int : Reached(d, tm, room, Len(tm), p)
                             => Reached(d, Tail(tm), room, Len(Tail(tm)), p)
<1> DEFINE t == Tail(tm)
<1>1. /\ Len(tm) \in Nat /\ Len(t) = Len(tm) - 1 /\ Len(tm) >= 1 /\ Len(d) \in Nat
      /\ \A i \in 1 .. Len(t) : i + 1 \in 1 .. Len(tm) /\ t[i] = tm[i + 1]
      /\ \A i \in 1 .. Len(tm) : tm[i].at \in Int
  BY MailsTyped, LenProperties DEF Data
<1>2. ASSUME NEW k \in 0 .. Len(t), NEW p \in Int, Reached(d, tm, room, k + 1, p)
      PROVE  Reached(d, t, room, k, p)
  <2> SUFFICES ASSUME NEW q \in Len(d) .. p - 1, q < room PROVE Covered(t, k, q)
    BY DEF Reached
  <2>1. Covered(tm, k + 1, q)
    BY <1>2 DEF Reached
  <2>2. k \in Nat /\ k < Len(tm) /\ q \in Int
    BY <1>1
  <2> QED BY <2>1, <2>2, TailCovered
<1>3. ASSUME Gapless(d, tm, room) PROVE Gapless(d, t, room)
  <2> SUFFICES ASSUME NEW i \in 1 .. Len(t), IsPart(t[i])
               PROVE  Reached(d, t, room, i - 1, t[i].at)
    BY DEF Gapless
  <2>1. Reached(d, tm, room, (i + 1) - 1, tm[i + 1].at) /\ tm[i + 1].at \in Int
    BY <1>1, <1>3 DEF Gapless
  <2>2. (i + 1) - 1 = (i - 1) + 1 /\ i - 1 \in 0 .. Len(t)
    BY <1>1
  <2> QED BY <1>1, <1>2, <2>1, <2>2
<1>4. ASSUME NEW p \in Int, Reached(d, tm, room, Len(tm), p)
      PROVE  Reached(d, t, room, Len(t), p)
  <2>1. Len(t) \in 0 .. Len(t) /\ Len(t) + 1 = Len(tm)
    BY <1>1
  <2> QED BY <1>2, <1>4, <2>1
<1> QED BY <1>3, <1>4 DEF t

LEMMA AddedMails ==
  ASSUME NEW tm \in Seq(AnyMail), NEW fs \in Seq(AnyMail)
  PROVE  /\ tm \o fs \in Seq(AnyMail) /\ Len(tm \o fs) = Len(tm) + Len(fs)
         /\ \A i \in 1 .. Len(tm) : (tm \o fs)[i] = tm[i]
         /\ \A i \in 1 .. Len(fs) : (tm \o fs)[Len(tm) + i] = fs[i]
         /\ \A i \in 1 .. Len(tm) + Len(fs) :
              (tm \o fs)[i] = IF i <= Len(tm) THEN tm[i] ELSE fs[i - Len(tm)]
<1>1. Len(tm) \in Nat /\ Len(fs) \in Nat
  BY LenProperties
<1> QED BY <1>1, ConcatProperties

LEMMA AddedCovered ==
  ASSUME NEW tm \in Seq(AnyMail), NEW fs \in Seq(AnyMail), NEW q \in Int,
         NEW k \in 0 .. Len(tm), NEW l \in 0 .. Len(tm \o fs), k <= l, Covered(tm, k, q)
  PROVE  Covered(tm \o fs, l, q)
<1>1. PICK j \in 1 .. k : IsPart(tm[j]) /\ tm[j].at <= q /\ q < End(tm[j])
  BY DEF Covered
<1>2. j \in 1 .. Len(tm) /\ j \in 1 .. l
  BY MailsTyped, AddedMails
<1>3. (tm \o fs)[j] = tm[j]
  BY <1>2, AddedMails
<1> QED BY <1>1, <1>2, <1>3 DEF Covered

(* Mails are added that are parts, if at all, which come after all others. *)
LEMMA AddedPlace ==
  ASSUME NEW tm \in Seq(AnyMail), NEW fs \in Seq(AnyMail), NEW d \in Data, InPlace(d, tm),
         InPlace(d, fs),
         \A i \in 1 .. Len(tm), j \in 1 .. Len(fs) :
           IsPart(tm[i]) /\ IsPart(fs[j]) => End(tm[i]) <= fs[j].at
  PROVE  InPlace(d, tm \o fs)
<1> DEFINE t == tm \o fs
<1>1. /\ Len(tm) \in Nat /\ Len(fs) \in Nat /\ Len(t) = Len(tm) + Len(fs)
      /\ \A i \in 1 .. Len(t) : t[i] = IF i <= Len(tm) THEN tm[i] ELSE fs[i - Len(tm)]
  BY AddedMails, MailsTyped
<1> HIDE DEF t
<1> SUFFICES ASSUME NEW i \in 1 .. Len(t), IsPart(t[i])
             PROVE  /\ Len(d) <= t[i].at
                    /\ \A j \in 1 .. i - 1 : IsPart(t[j]) => End(t[j]) <= t[i].at
  BY DEF InPlace, t
<1>2. CASE i <= Len(tm)
  <2>1. i \in 1 .. Len(tm) /\ t[i] = tm[i] /\ \A j \in 1 .. i - 1 : t[j] = tm[j]
    BY <1>1, <1>2
  <2> QED BY <2>1 DEF InPlace
<1>3. CASE ~(i <= Len(tm))
  <2> DEFINE k == i - Len(tm)
  <2>1. k \in 1 .. Len(fs) /\ t[i] = fs[k]
    BY <1>1, <1>3
  <2> HIDE DEF k
  <2>2. ASSUME NEW j \in 1 .. i - 1, IsPart(t[j]) PROVE End(t[j]) <= t[i].at
    <3>1. CASE j <= Len(tm)
      <4>1. j \in 1 .. Len(tm) /\ t[j] = tm[j]
        BY <1>1, <3>1
      <4> QED BY <2>1, <2>2, <4>1
    <3>2. CASE ~(j <= Len(tm))
      <4>1. j - Len(tm) \in 1 .. k - 1 /\ t[j] = fs[j - Len(tm)]
        BY <1>1, <3>2 DEF k
      <4> QED BY <2>1, <2>2, <4>1 DEF InPlace
    <3> QED BY <3>1, <3>2
  <2> QED BY <2>1, <2>2 DEF InPlace
<1> QED BY <1>2, <1>3

LEMMA AddedGapless ==
  ASSUME NEW tm \in Seq(AnyMail), NEW fs \in Seq(AnyMail), NEW d \in Data, NEW room \in Nat,
         Gapless(d, tm, room),
         \A j \in 1 .. Len(fs) : IsPart(fs[j]) =>
           Reached(d, tm \o fs, room, Len(tm) + j - 1, fs[j].at)
  PROVE  Gapless(d, tm \o fs, room)
<1> DEFINE t == tm \o fs
<1>1. /\ Len(tm) \in Nat /\ Len(fs) \in Nat /\ Len(t) = Len(tm) + Len(fs)
      /\ Len(d) \in Nat
      /\ \A i \in 1 .. Len(t) : t[i] = IF i <= Len(tm) THEN tm[i] ELSE fs[i - Len(tm)]
  BY AddedMails, MailsTyped, LenProperties DEF Data
<1> SUFFICES ASSUME NEW i \in 1 .. Len(t), IsPart(t[i])
             PROVE  Reached(d, t, room, i - 1, t[i].at)
  BY DEF Gapless
<1>2. CASE i <= Len(tm)
  <2>1. i \in 1 .. Len(tm) /\ t[i] = tm[i] /\ t[i].at \in Int
    <3>1. i \in 1 .. Len(tm) /\ t[i] = tm[i]
      <4> HIDE DEF t
      <4> QED BY <1>1, <1>2
    <3> QED BY <3>1, MailsTyped
  <2>2. Reached(d, tm, room, i - 1, tm[i].at)
    BY <2>1 DEF Gapless
  <2>3. ASSUME NEW q \in Len(d) .. t[i].at - 1, q < room PROVE Covered(t, i - 1, q)
    <3>1. Covered(tm, i - 1, q)
      BY <2>1, <2>2, <2>3 DEF Reached
    <3>2. i - 1 \in 0 .. Len(tm) /\ i - 1 \in 0 .. Len(t) /\ q \in Int
      <4> HIDE DEF t
      <4> QED BY <1>1, <2>1
    <3> QED BY <3>1, <3>2, AddedCovered
  <2> QED BY <2>3 DEF Reached
<1>3. CASE ~(i <= Len(tm))
  <2> DEFINE k == i - Len(tm)
  <2>1. k \in 1 .. Len(fs) /\ t[i] = fs[k] /\ Len(tm) + k - 1 = i - 1
    <3> HIDE DEF t
    <3> QED BY <1>1, <1>3
  <2> QED BY <2>1
<1> QED BY <1>2, <1>3

LEMMA AddedReached ==
  ASSUME NEW tm \in Seq(AnyMail), NEW fs \in Seq(AnyMail), NEW d \in Data, NEW room \in Nat,
         NEW p \in Int, NEW k \in 0 .. Len(tm), NEW l \in 0 .. Len(tm \o fs), k <= l,
         Reached(d, tm, room, k, p)
  PROVE  Reached(d, tm \o fs, room, l, p)
<1> SUFFICES ASSUME NEW q \in Len(d) .. p - 1, q < room PROVE Covered(tm \o fs, l, q)
  BY DEF Reached
<1>1. q \in Int /\ Covered(tm, k, q)
  BY LenProperties DEF Reached, Data
<1> QED BY <1>1, AddedCovered

(* The next part is read, as far as there is room.                         *)
LEMMA ReadPlace ==
  ASSUME NEW tm \in Seq(AnyMail), tm # << >>, NEW d \in Data, NEW e \in Data, InPlace(d, tm),
         IsPart(Head(tm)), Len(e) <= Len(d) + Len(Head(tm).data)
  PROVE  /\ InPlace(e, Tail(tm)) /\ Len(e) <= End(Head(tm))
         /\ \A s : Position(s) \in Int /\ Beyond(s, d, tm) => Beyond(s, e, Tail(tm))
<1>1. /\ Head(tm) = tm[1] /\ 1 \in 1 .. Len(tm) /\ Len(tm) \in Nat
      /\ \A i \in 1 .. Len(tm) - 1 : Tail(tm)[i] = tm[i + 1]
      /\ Len(Tail(tm)) = Len(tm) - 1 /\ tm[1].at \in Int
      /\ End(tm[1]) = tm[1].at + Len(tm[1].data) /\ Len(tm[1].data) \in Nat
  BY MailsTyped DEF End
<1>2. Len(d) <= tm[1].at /\ Len(d) \in Nat /\ Len(e) \in Nat
  BY <1>1, LenProperties DEF InPlace, Data
<1>3. Len(e) <= End(tm[1])
  BY <1>1, <1>2
<1>4. InPlace(d, Tail(tm)) /\ \A s : Beyond(s, d, tm) => Beyond(s, d, Tail(tm))
  BY TailPlace
<1>5. ASSUME NEW i \in 1 .. Len(Tail(tm)), IsPart(Tail(tm)[i])
      PROVE  Len(e) <= Tail(tm)[i].at
  <2>1. i + 1 \in 1 .. Len(tm) /\ 1 \in 1 .. (i + 1) - 1 /\ Tail(tm)[i] = tm[i + 1]
    BY <1>1
  <2>2. End(tm[1]) <= tm[i + 1].at
    BY <1>1, <1>5, <2>1 DEF InPlace
  <2>3. End(tm[1]) \in Int /\ tm[i + 1].at \in Int
    BY <1>1, <2>1, MailsTyped
  <2> QED BY <1>2, <1>3, <2>1, <2>2, <2>3
<1>6. ASSUME NEW s, Position(s) \in Int, Beyond(s, d, tm) PROVE Beyond(s, e, Tail(tm))
  <2>1. End(tm[1]) <= Position(s)
    BY <1>1, <1>6 DEF Beyond
  <2>2. End(tm[1]) \in Int
    BY <1>1
  <2>3. Len(e) <= Position(s)
    BY <1>2, <1>3, <1>6, <2>1, <2>2
  <2>4. Beyond(s, d, Tail(tm))
    BY <1>4, <1>6
  <2> QED BY <2>3, <2>4 DEF Beyond
<1> QED BY <1>1, <1>3, <1>4, <1>5, <1>6 DEF InPlace

LEMMA ReadGapless ==
  ASSUME NEW tm \in Seq(AnyMail), tm # << >>, NEW all \in Data, NEW d, NEW e, NEW room \in Nat,
         IsPart(Head(tm)), Piece(all, Head(tm).at, Head(tm).data), Piece(all, 0, d),
         Len(d) <= room, InPlace(d, tm), Gapless(d, tm, room),
         e = d \o First(Head(tm).data, room - Len(d))
  PROVE  /\ Piece(all, 0, e) /\ Len(e) = Least(room, End(Head(tm)))
         /\ Gapless(e, Tail(tm), room)
         /\ \A p \in Int : Reached(d, tm, room, Len(tm), p)
                             => Reached(e, Tail(tm), room, Len(Tail(tm)), p)
<1> DEFINE m == Head(tm)
           t == Tail(tm)
<1>1. /\ m = tm[1] /\ 1 \in 1 .. Len(tm) /\ Len(tm) \in Nat
      /\ \A i \in 1 .. Len(tm) - 1 : t[i] = tm[i + 1] /\ i + 1 \in 1 .. Len(tm)
      /\ Len(t) = Len(tm) - 1 /\ m.at \in Int /\ m.data \in Data
      /\ End(m) = m.at + Len(m.data) /\ Len(m.data) \in Nat
      /\ \A i \in 1 .. Len(tm) : tm[i].at \in Int
  BY MailsTyped, MailFields DEF End
<1>2. Len(d) <= m.at /\ Len(d) \in Nat /\ d \in Data /\ 0 + Len(d) = Len(d) /\ 0 \in Nat
  BY <1>1, LenProperties DEF InPlace, Data, Piece
<1> HIDE DEF m, t
<1>3. Len(d) = m.at \/ Len(d) = room
  <2> SUFFICES ASSUME Len(d) # m.at, Len(d) # room PROVE FALSE
    OBVIOUS
  <2>1. Len(d) \in Len(d) .. m.at - 1 /\ Len(d) < room
    <3>1. m.at \in Int /\ Len(d) <= m.at /\ Len(d) \in Nat
      BY <1>1, <1>2
    <3> QED BY <3>1
  <2>2. Reached(d, tm, room, 0, m.at)
    BY <1>1 DEF Gapless
  <2>3. Covered(tm, 0, Len(d))
    BY <2>1, <2>2 DEF Reached
  <2> QED BY <2>3 DEF Covered
<1>4. Piece(all, 0, e) /\ Len(e) = Least(room, End(m))
  <2> DEFINE x == First(m.data, room - Len(d))
  <2>1. room - Len(d) \in Nat /\ e = d \o x
    BY <1>2 DEF m
  <2>2. m.at \in Nat /\ Piece(all, m.at, m.data)
    BY DEF m, Piece
  <2>3. Piece(all, m.at, x) /\ Len(x) = Least(room - Len(d), Len(m.data))
    BY <2>1, <2>2, PieceCut
  <2> HIDE DEF x
  <2>4. CASE Len(d) = m.at
    <3>1. Piece(all, 0 + Len(d), x)
      BY <1>2, <2>3, <2>4
    <3>2. Piece(all, 0, d \o x) /\ Len(d \o x) = Len(d) + Len(x)
      BY <1>2, <3>1, PieceJoin
    <3>3. Len(e) = Len(d) + Len(x) /\ Piece(all, 0, e)
      BY <2>1, <3>2
    <3>4. End(m) = Len(d) + Len(m.data) /\ Len(m.data) \in Nat /\ Len(d) \in Nat
      BY <1>1, <1>2, <2>4
    <3>5. Len(e) = Least(room, End(m))
      <4>1. Len(d) <= room
        OBVIOUS
      <4> QED BY <2>3, <3>3, <3>4, <4>1 DEF Least
    <3> QED BY <3>3, <3>5
  <2>5. CASE Len(d) = room
    <3>1. x \in Data /\ Len(x) = 0
      BY <1>1, <1>2, <2>3, <2>5 DEF Least, Piece
    <3>2. x = << >>
      BY <3>1, EmptySeq DEF Data
    <3>3. e = d
      BY <1>2, <2>1, <3>2, ConcatEmptySeq DEF Data
    <3>4. End(m) \in Int /\ room <= End(m)
      <4>1. m.at \in Int /\ Len(m.data) \in Nat /\ End(m) = m.at + Len(m.data)
            /\ Len(d) <= m.at
        BY <1>1, <1>2
      <4> QED BY <2>5, <4>1
    <3>5. Len(e) = Least(room, End(m))
      BY <2>5, <3>3, <3>4 DEF Least
    <3> QED BY <3>3, <3>5
  <2> QED BY <1>3, <2>4, <2>5
<1>5. Len(e) \in Nat /\ Len(e) <= End(m) /\ Len(d) <= Len(e)
  BY <1>1, <1>2, <1>4 DEF Least
<1>6. ASSUME NEW k \in 0 .. Len(t), NEW p \in Int, Reached(d, tm, room, k + 1, p)
      PROVE  Reached(e, t, room, k, p)
  <2> SUFFICES ASSUME NEW q \in Len(e) .. p - 1, q < room PROVE Covered(t, k, q)
    BY DEF Reached
  <2>1. q \in Len(d) .. p - 1 /\ q \in Int
    BY <1>2, <1>5
  <2>2. Covered(tm, k + 1, q)
    BY <1>6, <2>1 DEF Reached
  <2>3. End(m) <= q
    BY <1>1, <1>4 DEF Least
  <2>4. k \in Nat /\ k < Len(tm)
    BY <1>1
  <2> QED BY <2>1, <2>2, <2>3, <2>4, TailCovered DEF m, t
<1>7. Gapless(e, t, room)
  <2> SUFFICES ASSUME NEW i \in 1 .. Len(t), IsPart(t[i])
               PROVE  Reached(e, t, room, i - 1, t[i].at)
    BY DEF Gapless
  <2>1. Reached(d, tm, room, (i + 1) - 1, tm[i + 1].at) /\ tm[i + 1].at \in Int
        /\ t[i] = tm[i + 1]
    BY <1>1 DEF Gapless
  <2>2. (i + 1) - 1 = (i - 1) + 1 /\ i - 1 \in 0 .. Len(t)
    BY <1>1
  <2> QED BY <1>6, <2>1, <2>2
<1>8. ASSUME NEW p \in Int, Reached(d, tm, room, Len(tm), p)
      PROVE  Reached(e, t, room, Len(t), p)
  <2>1. Len(t) \in 0 .. Len(t) /\ Len(t) + 1 = Len(tm)
    BY <1>1
  <2> QED BY <1>6, <1>8, <2>1
<1> QED BY <1>4, <1>7, <1>8 DEF m, t

(* The slave sends the next segment of its upload.                         *)
LEMMA SegmentAdded ==
  ASSUME NEW tm \in Seq(AnyMail), NEW d \in Data, NEW room \in Nat, NEW m \in AnyMail,
         IsPart(m), NEW p \in Nat, m.at = p, InPlace(d, tm), Len(d) <= p,
         \A i \in 1 .. Len(tm) : IsPart(tm[i]) => End(tm[i]) <= p
  PROVE  /\ InPlace(d, tm \o <<m>>)
         /\ \A i \in 1 .. Len(tm \o <<m>>) :
              IsPart((tm \o <<m>>)[i]) => End((tm \o <<m>>)[i]) <= End(m)
         /\ Gapless(d, tm, room) /\ Reached(d, tm, room, Len(tm), p)
              => /\ Gapless(d, tm \o <<m>>, room)
                 /\ Reached(d, tm \o <<m>>, room, Len(tm \o <<m>>), End(m))
<1> DEFINE fs == <<m>>
           t == tm \o fs
<1>1. fs \in Seq(AnyMail) /\ Len(fs) = 1 /\ fs[1] = m
  OBVIOUS
<1> HIDE DEF fs
<1>2. /\ Len(tm) \in Nat /\ Len(t) = Len(tm) + 1 /\ t[Len(tm) + 1] = m /\ Len(d) \in Nat
      /\ \A i \in 1 .. Len(tm) : t[i] = tm[i]
      /\ \A i \in 1 .. Len(tm) : End(tm[i]) \in Int
      /\ End(m) = p + Len(m.data) /\ Len(m.data) \in Nat /\ t \in Seq(AnyMail)
  <2>1. /\ Len(tm) \in Nat /\ Len(d) \in Nat /\ 1 \in 1 .. Len(fs)
        /\ \A i \in 1 .. Len(tm) : End(tm[i]) \in Int
        /\ End(m) = p + Len(m.data) /\ Len(m.data) \in Nat
    BY <1>1, MailsTyped, MailFields, LenProperties DEF End, Data
  <2>2. /\ Len(t) = Len(tm) + 1 /\ t \in Seq(AnyMail)
        /\ \A i \in 1 .. Len(tm) : t[i] = tm[i]
        /\ t[Len(tm) + 1] = fs[1]
    <3>1. /\ t \in Seq(AnyMail) /\ Len(t) = Len(tm) + Len(fs)
          /\ \A i \in 1 .. Len(tm) : t[i] = tm[i]
          /\ \A i \in 1 .. Len(fs) : t[Len(tm) + i] = fs[i]
      BY <1>1, AddedMails
    <3> HIDE DEF t
    <3> QED BY <1>1, <2>1, <3>1
  <2> QED BY <1>1, <2>1, <2>2
<1>3. InPlace(d, fs)
  BY <1>1 DEF InPlace
<1>4. InPlace(d, t)
  BY <1>1, <1>3, AddedPlace
<1> HIDE DEF t
<1>5. ASSUME NEW i \in 1 .. Len(t), IsPart(t[i]) PROVE End(t[i]) <= End(m)
  <2>1. CASE i = Len(tm) + 1
    BY <1>2, <2>1
  <2>2. CASE i # Len(tm) + 1
    <3>1. i \in 1 .. Len(tm) /\ t[i] = tm[i] /\ End(tm[i]) \in Int
      BY <1>2, <2>2
    <3> QED BY <1>2, <1>5, <3>1
  <2> QED BY <2>1, <2>2
<1>6. ASSUME Gapless(d, tm, room), Reached(d, tm, room, Len(tm), p)
      PROVE  Gapless(d, t, room) /\ Reached(d, t, room, Len(t), End(m))
  <2>1. Len(tm) \in 0 .. Len(tm) /\ Len(tm) \in 0 .. Len(t) /\ Len(t) \in 0 .. Len(t)
        /\ Len(tm) <= Len(t) /\ Len(tm) + 1 - 1 = Len(tm) /\ p \in Int
    BY <1>2
  <2>2. Reached(d, t, room, Len(tm), p) /\ Reached(d, t, room, Len(t), p)
    BY <1>1, <1>6, <2>1, AddedReached DEF t
  <2>3. Gapless(d, t, room)
    <3>1. \A j \in 1 .. Len(fs) : j = 1 /\ fs[j] = m
      BY <1>1
    <3> QED BY <1>1, <1>6, <2>1, <2>2, <3>1, AddedGapless DEF t
  <2>4. ASSUME NEW q \in Len(d) .. End(m) - 1, q < room PROVE Covered(t, Len(t), q)
    <3>1. CASE q < p
      <4>1. q \in Len(d) .. p - 1
        BY <1>2, <3>1
      <4> QED BY <2>2, <2>4, <4>1 DEF Reached
    <3>2. CASE ~(q < p)
      <4>1. Len(tm) + 1 \in 1 .. Len(t) /\ p <= q /\ q < End(m)
        BY <1>2, <3>2
      <4> QED BY <1>2, <4>1 DEF Covered
    <3> QED BY <3>1, <3>2
  <2> QED BY <2>3, <2>4 DEF Reached
<1> QED BY <1>4, <1>5, <1>6 DEF t, fs

LEMMA DivisionFacts ==
  ASSUME NEW a \in Nat, NEW b \in Nat \ {0}
  PROVE  (a \div b) * b <= a /\ a < (a \div b) * b + b /\ a \div b \in Nat
OBVIOUS
LEMMA TimesFacts ==
  ASSUME NEW i \in Nat, NEW j \in Nat, NEW b \in Nat, i <= j
  PROVE  i * b <= j * b /\ (i + 1) * b = i * b + b /\ i * b \in Nat
OBVIOUS
LEMMA TimesLess ==
  ASSUME NEW i \in Nat, NEW j \in Nat, NEW b \in Nat, i * b < j * b
  PROVE  i < j
OBVIOUS

(* A sequence cut in parts of size units.                                  *)
LEMMA CutUp ==
  ASSUME NEW n \in Nat, NEW size \in Nat \ {0}, NEW count, count = (n + size - 1) \div size
  PROVE  /\ count \in Nat /\ n <= count * size
         /\ \A k \in 1 .. count :
              /\ (k - 1) * size \in Nat /\ (k - 1) * size < n
              /\ k * size = (k - 1) * size + size
              /\ \A j \in 1 .. k - 1 : (j - 1) * size + size <= (k - 1) * size
              /\ \A q \in 0 .. (k - 1) * size - 1 :
                   \E j \in 1 .. k - 1 : (j - 1) * size <= q /\ q < (j - 1) * size + size
<1>1. n + size - 1 \in Nat
  OBVIOUS
<1>2. count * size <= n + size - 1 /\ n + size - 1 < count * size + size /\ count \in Nat
  BY <1>1, DivisionFacts
<1>3. \A i, j \in Nat : i <= j =>
        i * size <= j * size /\ (i + 1) * size = i * size + size /\ i * size \in Nat
  BY TimesFacts
<1>4. ASSUME NEW k \in 1 .. count
      PROVE  /\ (k - 1) * size \in Nat /\ (k - 1) * size < n
             /\ k * size = (k - 1) * size + size
             /\ \A j \in 1 .. k - 1 : (j - 1) * size + size <= (k - 1) * size
             /\ \A q \in 0 .. (k - 1) * size - 1 :
                  \E j \in 1 .. k - 1 : (j - 1) * size <= q /\ q < (j - 1) * size + size
  <2> DEFINE i == k - 1
  <2>1. i \in Nat /\ k = i + 1 /\ k \in Nat /\ k <= count
    BY <1>2
  <2>2. k * size = i * size + size /\ i * size \in Nat /\ k * size <= count * size
        /\ count * size \in Nat
    BY <1>2, <1>3, <2>1
  <2>3. i * size < n
    <3> DEFINE x == i * size
               y == k * size
               z == count * size
    <3>1. x \in Nat /\ y = x + size /\ y <= z /\ z <= n + size - 1 /\ z \in Nat
      BY <1>2, <2>2
    <3> HIDE DEF x, y, z
    <3>2. x < n
      BY <3>1
    <3> QED BY <3>2 DEF x
  <2>4. ASSUME NEW j \in 1 .. k - 1 PROVE (j - 1) * size + size <= i * size
    <3>1. j - 1 \in Nat /\ (j - 1) + 1 = j /\ j \in Nat /\ j <= i
      BY <2>1
    <3>2. (j - 1) * size + size = j * size /\ j * size <= i * size
      BY <1>3, <2>1, <3>1
    <3> QED BY <3>2
  <2>5. ASSUME NEW q \in 0 .. i * size - 1
        PROVE  \E j \in 1 .. i : (j - 1) * size <= q /\ q < (j - 1) * size + size
    <3> DEFINE j == q \div size
    <3>1. q \in Nat /\ q < i * size
      BY <2>2
    <3>2. j * size <= q /\ q < j * size + size /\ j \in Nat
      BY <3>1, DivisionFacts
    <3> HIDE DEF j
    <3>3. j * size < i * size
      <4> DEFINE x == j * size
                 y == i * size
      <4>1. x \in Nat /\ y \in Nat /\ x <= q /\ q < y
        BY <1>3, <2>2, <3>1, <3>2
      <4> HIDE DEF x, y
      <4>2. x < y
        BY <4>1, <3>1
      <4> QED BY <4>2 DEF x, y
    <3>4. j < i
      BY <2>1, <3>2, <3>3, TimesLess
    <3>5. j + 1 \in 1 .. i /\ (j + 1) - 1 = j
      BY <2>1, <3>2, <3>4
    <3> QED BY <3>2, <3>5
  <2> QED BY <2>1, <2>2, <2>3, <2>4, <2>5
<1>5. n <= count * size
  <2> DEFINE z == count * size
  <2>1. z \in Nat /\ n + size - 1 < z + size
    BY <1>2, <1>3
  <2> HIDE DEF z
  <2>2. n <= z
    BY <2>1
  <2> QED BY <2>2 DEF z
<1> QED BY <1>2, <1>4, <1>5

LEMMA PieceInside ==
  ASSUME NEW all \in Data, NEW a \in Nat, a <= Len(all), NEW k \in Nat
  PROVE  /\ Piece(all, a, First(After(all, a), k))
         /\ Len(First(After(all, a), k)) = Least(k, Len(all) - a)
         /\ Piece(all, a, After(all, a)) /\ Len(After(all, a)) = Len(all) - a
<1>1. Len(all) \in Nat /\ 0 \in Nat /\ 0 + a = a
  BY LenProperties DEF Data
<1>2. Piece(all, 0, all)
  BY <1>1 DEF Piece
<1>3. Piece(all, 0 + a, After(all, a)) /\ Len(After(all, a)) = Len(all) - a
  BY <1>1, <1>2, PieceCut
<1>4. Piece(all, a, After(all, a))
  BY <1>1, <1>3
<1> DEFINE d == After(all, a)
<1> HIDE DEF d
<1>5. Piece(all, a, d)
  BY <1>4 DEF d
<1>6. Piece(all, a, First(d, k)) /\ Len(First(d, k)) = Least(k, Len(d))
  BY <1>5, PieceCut
<1> QED BY <1>3, <1>4, <1>6 DEF d

LEMMA ListParts ==
  ASSUME NEW all \in Data, NEW room \in Nat, NEW fs, fs = ListFragments(all)
  PROVE  /\ fs \in Seq(Parts(all)) /\ InPlace(<< >>, fs) /\ Gapless(<< >>, fs, room)
<1> DEFINE count == (Len(all) + InData - 1) \div InData
           r == Mail("CoE", "odlist", << >>)
           at(k) == (k - 1) * InData
<1>1. Len(all) \in Nat /\ InData \in Nat \ {0}
  BY LenProperties, MailSizes DEF Data
<1>2. /\ count \in Nat /\ Len(all) <= count * InData
      /\ \A k \in 1 .. count :
           /\ at(k) \in Nat /\ at(k) < Len(all) /\ k * InData = at(k) + InData
           /\ \A j \in 1 .. k - 1 : at(j) + InData <= at(k)
           /\ \A q \in 0 .. at(k) - 1 :
                \E j \in 1 .. k - 1 : at(j) <= q /\ q < at(j) + InData
  BY <1>1, CutUp
<1>3. fs = [k \in 1 .. count |->
              [r EXCEPT !.data = First(After(all, (k - 1) * InData), InData),
                        !.at = (k - 1) * InData, !.n = count - k]]
  BY DEF ListFragments
<1>4. fs \in Seq(AnyMail) /\ fs \in [1 .. count -> AnyMail] /\ Len(fs) = count
  <2>1. fs \in Seq(AnyMail)
    BY ListTypes
  <2>2. DOMAIN fs = 1 .. count
    <3> HIDE DEF r, count
    <3> QED BY <1>3
  <2>3. fs \in [1 .. Len(fs) -> AnyMail] /\ Len(fs) \in Nat /\ DOMAIN fs = 1 .. Len(fs)
    BY <2>1, LenProperties
  <2>4. Len(fs) = count
    <3> HIDE DEF count
    <3> QED BY <1>2, <2>2, <2>3
  <2> QED BY <2>1, <2>3, <2>4
<1>5. ASSUME NEW k \in 1 .. count
      PROVE  /\ fs[k] \in Parts(all) /\ IsPart(fs[k]) /\ fs[k].at = at(k)
             /\ End(fs[k]) = Least(at(k) + InData, Len(all))
  <2> DEFINE d == First(After(all, at(k)), InData)
             left == count - k
             a == at(k)
             m == [r EXCEPT !.data = d, !.at = a, !.n = left]
  <2>1. fs[k] = m
    <3> HIDE DEF r, count
    <3> QED BY <1>3
  <2>2. a \in Nat /\ a < Len(all) /\ k * InData = a + InData
    BY <1>2
  <2>3. Piece(all, a, d) /\ Len(d) = Least(InData, Len(all) - a) /\ d \in Data
    <3> DEFINE x == a
    <3>1. x \in Nat /\ x <= Len(all)
      BY <1>1, <2>2
    <3> HIDE DEF x
    <3>2. Piece(all, x, First(After(all, x), InData))
          /\ Len(First(After(all, x), InData)) = Least(InData, Len(all) - x)
      BY <1>1, <3>1, PieceInside
    <3> QED BY <3>2 DEF x, Piece
  <2>4. left \in Nat /\ (left = 0 => k = count)
    <3> HIDE DEF count
    <3> QED BY <1>2
  <2>5. r \in AnyMail /\ r.kind = "odlist"
    <3>1. r \in AnyMail /\ PlainMail(r, "CoE", "odlist", << >>)
      BY OneMail DEF Kinds
    <3> QED BY <3>1 DEF PlainMail
  <2>6. k = count => a + InData >= Len(all)
    <3> HIDE DEF count, a
    <3> QED BY <1>1, <1>2, <2>2
  <2> HIDE DEF r, d, left, a
  <2>7. m \in AnyMail /\ m.kind = "odlist" /\ m.data = d /\ m.at = a /\ m.n = left
    <3>1. a \in Int /\ d \in Data /\ left \in Int
      BY <2>2, <2>3, <2>4
    <3> QED BY <2>5, <3>1 DEF AnyMail
  <2> HIDE DEF m
  <2>8. End(m) = Least(a + InData, Len(all))
    <3>1. a \in Nat /\ a < Len(all)
      BY <2>2
    <3>2. End(m) = a + Least(InData, Len(all) - a)
      BY <2>3, <2>7 DEF End
    <3> QED BY <1>1, <3>1, <3>2 DEF Least
  <2>9. m \in Parts(all)
    <3>1. m.n <= 0 => End(m) = Len(all)
      BY <1>1, <2>2, <2>4, <2>6, <2>7, <2>8 DEF Least
    <3>2. PartOf(all, m)
      BY <2>3, <2>7, <3>1 DEF PartOf, LastPart, IsPart
    <3> QED BY <2>7, <3>2 DEF Parts
  <2> QED BY <2>1, <2>7, <2>8, <2>9 DEF IsPart, a
<1> HIDE DEF count, at, r
<1>6. fs \in Seq(Parts(all))
  <2>1. fs \in [1 .. count -> Parts(all)]
    BY <1>4, <1>5
  <2> QED BY <1>2, <2>1
<1>7. InPlace(<< >>, fs)
  <2> SUFFICES ASSUME NEW k \in 1 .. count
               PROVE  /\ 0 <= fs[k].at
                      /\ \A j \in 1 .. k - 1 : End(fs[j]) <= fs[k].at
    BY <1>4, EmptyData DEF InPlace
  <2>1. fs[k].at = at(k) /\ at(k) \in Nat
    BY <1>2, <1>5
  <2>2. ASSUME NEW j \in 1 .. k - 1 PROVE End(fs[j]) <= at(k)
    <3>1. j \in 1 .. count
      BY <1>2
    <3>2. End(fs[j]) = Least(at(j) + InData, Len(all)) /\ at(j) + InData <= at(k)
          /\ at(j) \in Nat
      BY <1>2, <1>5, <3>1
    <3> QED BY <1>1, <2>1, <3>2 DEF Least
  <2> QED BY <2>1, <2>2
<1>8. Gapless(<< >>, fs, room)
  <2> SUFFICES ASSUME NEW k \in 1 .. count, NEW q \in 0 .. fs[k].at - 1
               PROVE  Covered(fs, k - 1, q)
    BY <1>4, EmptyData DEF Gapless, Reached
  <2>1. fs[k].at = at(k) /\ at(k) \in Nat /\ at(k) < Len(all)
    BY <1>2, <1>5
  <2>2. PICK j \in 1 .. k - 1 : at(j) <= q /\ q < at(j) + InData
    BY <1>2, <2>1
  <2>3. j \in 1 .. count
    BY <1>2
  <2>4. IsPart(fs[j]) /\ fs[j].at = at(j) /\ End(fs[j]) = Least(at(j) + InData, Len(all))
    BY <1>5, <2>3
  <2>5. q < Len(all)
    BY <1>1, <2>1
  <2> QED BY <2>2, <2>4, <2>5 DEF Covered, Least
<1> QED BY <1>6, <1>7, <1>8

-----------------------------------------------------------------------------
(* Reads in several mails, turn by turn.                                   *)

LEMMA FragsAreNoParts ==
  ASSUME NEW fs \in Seq(Frags)
  PROVE  /\ fs \in Seq(AnyMail) /\ NoParts(fs) /\ \A all : fs \in Seq(Parts(all))
<1>1. Frags \subseteq AnyMail /\ \A all : Frags \subseteq Parts(all)
  BY DEF Frags, Parts, Initial
<1>2. \A i \in 1 .. Len(fs) : fs[i] \in Frags
  BY ElementOfSeq
<1>3. \A m \in Frags : ~IsPart(m)
  BY DEF Frags, IsFragment, IsPart
<1> QED BY <1>1, <1>2, <1>3, SeqMonotonic DEF NoParts

LEMMA GoingTail ==
  ASSUME NEW c \in AnyCall, NEW tm \in Seq(AnyMail), tm # << >>, NEW s, NEW all, NEW exact,
         NEW exact2, exact2 => exact /\ ~IsPart(Head(tm)), Going(c, tm, s, all, exact),
         s.op = "up" => Position(s) \in Int
  PROVE  Going(c, Tail(tm), s, all, exact2)
<1>1. c.data \in Data /\ c.room \in Nat
  BY DEF AnyCall
<1>2. /\ InPlace(c.data, Tail(tm))
      /\ \A x : Beyond(x, c.data, tm) => Beyond(x, c.data, Tail(tm))
  BY <1>1, TailPlace DEF Going
<1>3. ASSUME exact2
      PROVE  /\ exact /\ Gapless(c.data, Tail(tm), c.room)
             /\ \A p \in Int : Reached(c.data, tm, c.room, Len(tm), p)
                  => Reached(c.data, Tail(tm), c.room, Len(Tail(tm)), p)
  BY <1>1, <1>3, TailGapless DEF Going
<1> QED BY <1>2, <1>3 DEF Going

LEMMA GoingOn ==
  ASSUME NEW c \in AnyCall, NEW tm \in Seq(AnyMail), NEW fs \in Seq(AnyMail), NoParts(fs),
         NEW s, NEW all, NEW exact, Going(c, tm, s, all, exact),
         s.op = "up" => Position(s) \in Int
  PROVE  Going(c, tm \o fs, s, all, exact)
<1>1. c.data \in Data /\ c.room \in Nat
  BY DEF AnyCall
<1>2. InPlace(c.data, fs) /\ \A j \in 1 .. Len(fs) : ~IsPart(fs[j])
  BY DEF NoParts, InPlace
<1>3. InPlace(c.data, tm \o fs)
  BY <1>1, <1>2, AddedPlace DEF Going
<1>4. ASSUME exact PROVE Gapless(c.data, tm \o fs, c.room)
  BY <1>1, <1>2, <1>4, AddedGapless DEF Going
<1>5. /\ Len(tm) \in 0 .. Len(tm) /\ Len(tm \o fs) \in 0 .. Len(tm \o fs)
      /\ Len(tm) <= Len(tm \o fs) /\ Len(tm) \in Nat
  <2>1. Len(tm) \in Nat /\ Len(fs) \in Nat /\ Len(tm \o fs) = Len(tm) + Len(fs)
    BY MailsTyped, AddedMails
  <2> QED BY <2>1
<1>6. ASSUME NEW p \in Int, Reached(c.data, tm, c.room, Len(tm), p)
      PROVE  Reached(c.data, tm \o fs, c.room, Len(tm \o fs), p)
  BY <1>1, <1>5, <1>6, AddedReached
<1>7. ASSUME Beyond(s, c.data, tm) PROVE Beyond(s, c.data, tm \o fs)
  <2>1. ASSUME NEW i \in 1 .. Len(tm \o fs), IsPart((tm \o fs)[i])
        PROVE  i \in 1 .. Len(tm) /\ (tm \o fs)[i] = tm[i]
    <3> DEFINE t == tm \o fs
    <3>1. /\ Len(tm) \in Nat /\ Len(fs) \in Nat /\ Len(t) = Len(tm) + Len(fs)
          /\ t[i] = IF i <= Len(tm) THEN tm[i] ELSE fs[i - Len(tm)]
      BY MailsTyped, AddedMails
    <3> HIDE DEF t
    <3>2. ASSUME ~(i <= Len(tm)) PROVE FALSE
      <4>1. i - Len(tm) \in 1 .. Len(fs)
        BY <3>1, <3>2 DEF t
      <4>2. ~IsPart(t[i])
        BY <1>2, <3>1, <3>2, <4>1
      <4> QED BY <2>1, <4>2 DEF t
    <3> QED BY <3>1, <3>2 DEF t
  <2> QED BY <1>7, <2>1 DEF Beyond
<1> QED BY <1>3, <1>4, <1>6, <1>7 DEF Going

LEMMA UploadsAt ==
  ASSUME NEW s, NEW all, Uploads(s, all) PROVE Position(s) \in Nat
BY DEF Uploads, Piece

LEMMA ToldTail ==
  ASSUME NEW c \in AnyCall, NEW ts, NEW tm \in Seq(AnyMail), tm # << >>, NEW s, NEW all,
         NEW exact, NEW exact2, exact2 => exact /\ ~IsPart(Head(tm)),
         Told(c, ts, tm, s, all, exact)
  PROVE  Told(c, ts, Tail(tm), s, all, exact2)
<1>1. Tail(tm) \in Seq(Parts(all))
  BY HeadTailProperties DEF Told
<1>2. CASE c.op = "SDOread" /\ ~c.more
  <2>1. \A i \in 1 .. Len(Tail(tm)) : i + 1 \in 1 .. Len(tm) /\ Tail(tm)[i] = tm[i + 1]
    BY MailsTyped
  <2> QED BY <1>1, <1>2, <2>1 DEF Told
<1>3. CASE ~(c.op = "SDOread" /\ ~c.more)
  <2>1. Going(c, tm, s, all, exact)
    BY <1>3 DEF Told
  <2>2. CASE s.op = "up" => Position(s) \in Int
    <3>1. Going(c, Tail(tm), s, all, exact2)
      BY <2>1, <2>2, GoingTail
    <3> QED BY <1>1, <1>3, <3>1 DEF Told
  <2>3. CASE c.op # "SDOread"
    <3> DEFINE x == [op |-> ""]
    <3>1. x.op # "up" /\ Going(c, tm, x, all, exact)
      BY <2>1, <2>3 DEF Going
    <3> HIDE DEF x
    <3>2. Going(c, Tail(tm), x, all, exact2)
      BY <3>1, GoingTail
    <3>3. Going(c, Tail(tm), s, all, exact2)
      BY <2>3, <3>2 DEF Going
    <3> QED BY <1>1, <1>3, <3>3, <2>3 DEF Told
  <2>4. c.op = "SDOread" => (s.op = "up" => Position(s) \in Int)
    BY UploadsAt DEF Told
  <2> QED BY <2>2, <2>3, <2>4
<1> QED BY <1>2, <1>3

LEMMA ToldMore ==
  ASSUME NEW c \in AnyCall, NEW ts, NEW tm \in Seq(AnyMail), NEW fs \in Seq(AnyMail),
         NEW s, NEW all, NEW exact, NoParts(fs), fs \in Seq(Parts(all)),
         Told(c, ts, tm, s, all, exact)
  PROVE  Told(c, ts, tm \o fs, s, all, exact)
<1>1. tm \o fs \in Seq(Parts(all))
  BY ConcatProperties DEF Told
<1>2. CASE c.op = "SDOread" /\ ~c.more
  <2>1. NoParts(tm) /\ Len(tm) \in Nat /\ Len(fs) \in Nat
    BY <1>2, MailsTyped DEF Told, NoParts
  <2>2. \A i \in 1 .. Len(tm \o fs) : ~IsPart((tm \o fs)[i])
    <3> SUFFICES ASSUME NEW i \in 1 .. Len(tm \o fs) PROVE ~IsPart((tm \o fs)[i])
      OBVIOUS
    <3>1. Len(tm \o fs) = Len(tm) + Len(fs)
          /\ (tm \o fs)[i] = IF i <= Len(tm) THEN tm[i] ELSE fs[i - Len(tm)]
      BY AddedMails
    <3>2. i \in 1 .. Len(tm) \/ i - Len(tm) \in 1 .. Len(fs)
      BY <2>1, <3>1
    <3> QED BY <2>1, <3>1, <3>2 DEF NoParts
  <2> QED BY <1>1, <1>2, <2>2 DEF Told
<1>3. CASE ~(c.op = "SDOread" /\ ~c.more)
  <2>1. Going(c, tm, s, all, exact)
    BY <1>3 DEF Told
  <2>2. CASE s.op = "up" => Position(s) \in Int
    <3>1. Going(c, tm \o fs, s, all, exact)
      BY <2>1, <2>2, GoingOn
    <3> QED BY <1>1, <1>3, <3>1 DEF Told
  <2>3. CASE c.op # "SDOread"
    <3> DEFINE x == [op |-> ""]
    <3>1. x.op # "up" /\ Going(c, tm, x, all, exact)
      BY <2>1, <2>3 DEF Going
    <3> HIDE DEF x
    <3>2. Going(c, tm \o fs, x, all, exact)
      BY <3>1, GoingOn
    <3>3. Going(c, tm \o fs, s, all, exact)
      BY <2>3, <3>2 DEF Going
    <3> QED BY <1>1, <1>3, <3>3, <2>3 DEF Told
  <2>4. c.op = "SDOread" => (s.op = "up" => Position(s) \in Int)
    BY UploadsAt DEF Told
  <2> QED BY <2>2, <2>3, <2>4
<1> QED BY <1>2, <1>3

LEMMA ReadingKeeps ==
  ASSUME NEW c, NEW d, Keeps(c, d), NEW st
  PROVE  Inquiries(d) = Inquiries(c) /\ Whole(d, st) = Whole(c, st)
BY DEF Keeps, Inquiries, Whole

(* A turn that leaves what was read as it is.                              *)
LEMMA ReadingSame ==
  ASSUME NEW c, NEW d, NEW ts, NEW ts2, NEW tm, NEW tm2, NEW s, NEW s2, NEW st,
         NEW exact, NEW exact2, Reading(c, ts, tm, s, st, exact), exact2 => exact,
         Keeps(c, d), d.data = c.data, ts2 \in Seq(Inquiries(c)),
         d.wkc = 1 => c.wkc = 1, d.pc = "send" => d.out \in Inquiries(c),
         d.pc \in {"send", "receive"} =>
           /\ c.pc \in {"send", "receive"}
           /\ Unheard(d, ts2, tm2) \/ Told(d, ts2, tm2, s2, st[c.obj], exact2)
  PROVE  Reading(d, ts2, tm2, s2, st, exact2)
BY ReadingKeeps DEF Reading, Keeps

LEMMA SameTold ==
  ASSUME NEW c, NEW d, Keeps(c, d), Same(c, d), NEW ts, NEW ts2, NEW tm, NEW s, NEW all,
         NEW exact, NEW exact2, exact2 => exact, Pending(d, ts2) = Pending(c, ts)
  PROVE  /\ Unheard(c, ts, tm) => Unheard(d, ts2, tm)
         /\ Told(c, ts, tm, s, all, exact) => Told(d, ts2, tm, s, all, exact2)
BY DEF Keeps, Same, Unheard, Told, Going

LEMMA ReadingWire ==
  ASSUME Base, Wire, "repeated" \notin faults', NEW exact, NEW exact2, exact2 => exact,
         exact2 => "lost" \notin faults',
         Reading(call, toslave, tomaster, srv, store, exact)
  PROVE  Reading(call', toslave', tomaster', srv', store', exact2)
<1>1. /\ call' = call /\ toslave' = toslave /\ srv' = srv /\ store' = store
      /\ call \in AnyCall /\ tomaster \in Seq(AnyMail) /\ Keeps(call, call)
  BY DEF Wire, Base, Control, UnderWay, Keeps
<1> DEFINE all == store[call.obj]
<1>2. Unheard(call, toslave, tomaster) => Unheard(call, toslave, tomaster')
  BY WireSeq DEF Unheard
<1>3. ASSUME Told(call, toslave, tomaster, srv, all, exact)
      PROVE  Told(call, toslave, tomaster', srv, all, exact2)
  <2> HIDE DEF all
  <2>1. CASE tomaster' = tomaster
    BY <1>1, <1>3, <2>1, SameTold DEF Same
  <2>2. CASE /\ tomaster # << >> /\ tomaster' = Tail(tomaster)
             /\ IsFragment(Head(tomaster)) \/ "lost" \in faults'
    <3>1. exact2 => exact /\ ~IsPart(Head(tomaster))
      BY <2>2 DEF IsFragment, IsPart
    <3> QED BY <1>1, <1>3, <2>2, <3>1, ToldTail
  <2>3. CASE \E fs \in Seq(Frags) : tomaster' = tomaster \o fs
    <3>1. PICK fs \in Seq(Frags) : tomaster' = tomaster \o fs
      BY <2>3
    <3>2. fs \in Seq(AnyMail) /\ NoParts(fs) /\ fs \in Seq(Parts(all))
      BY FragsAreNoParts
    <3>3. Told(call, toslave, tomaster \o fs, srv, all, exact)
      BY <1>1, <1>3, <3>2, ToldMore
    <3> QED BY <1>1, <3>1, <3>3, SameTold DEF Same
  <2> QED BY <2>1, <2>2, <2>3 DEF Wire
<1> QED BY <1>1, <1>2, <1>3, ReadingSame DEF Reading

LEMMA ReadingEnding ==
  ASSUME Base, Ending, NEW exact, NEW exact2, exact2 => exact,
         Reading(call, toslave, tomaster, srv, store, exact)
  PROVE  Reading(call', toslave', tomaster', srv', store', exact2)
<1>1. /\ Keeps(call, call') /\ call'.pc = "idle" /\ call'.wkc = call.wkc
      /\ call'.data = call.data /\ toslave' = toslave /\ UNCHANGED <<srv, store>>
  BY EndingKeeps
<1>2. Inquiries(call') = Inquiries(call) /\ Whole(call', store) = Whole(call, store)
  BY <1>1, ReadingKeeps
<1> QED BY <1>1, <1>2 DEF Reading, Keeps

LEMMA PendingStep ==
  ASSUME NEW c \in AnyCall, NEW ts \in Seq(AnyRequest), c.pc = "send", NEW ts2, NEW m,
         ts2 = ts \/ ts2 = Append(ts, c.out), m \in AnyRequest, c.out \in AnyRequest
  PROVE  /\ ts2 \in Seq(AnyRequest)
         /\ \A S : Pending(c, ts) \in Seq(S) /\ m \in S => Append(ts2, m) \in Seq(S)
         /\ \A S : Pending(c, ts) \in Seq(S) => ts2 \in Seq(S)
         /\ Pending(c, ts) = Append(ts, c.out) /\ Pending(Await(c), Append(ts, c.out))
              = Append(ts, c.out)
<1>1. Pending(c, ts) = Append(ts, c.out) /\ Await(c).pc = "receive"
  BY Leaves DEF Pending
<1>2. ASSUME NEW S, Pending(c, ts) \in Seq(S)
      PROVE  ts \in Seq(S) /\ ts2 \in Seq(S)
  <2> DEFINE p == Append(ts, c.out)
  <2>1. p \in Seq(S) /\ Len(p) = Len(ts) + 1 /\ \A i \in 1 .. Len(ts) : p[i] = ts[i]
    BY <1>1, <1>2, AppendProperties
  <2>2. Len(ts) \in Nat /\ \A i \in 1 .. Len(p) : p[i] \in S
    BY <2>1, LenProperties, ElementOfSeq
  <2> HIDE DEF p
  <2>3. \A i \in 1 .. Len(ts) : ts[i] \in S
    BY <2>1, <2>2
  <2>4. ts \in [1 .. Len(ts) -> AnyRequest]
    BY LenProperties
  <2>5. ts \in [1 .. Len(ts) -> S]
    BY <2>3, <2>4
  <2>6. ts \in Seq(S)
    BY <2>2, <2>5
  <2> QED BY <1>1, <1>2, <2>6
<1>3. \A S : Pending(c, ts) \in Seq(S) /\ m \in S => Append(ts2, m) \in Seq(S)
  BY <1>2, AppendProperties
<1> QED BY <1>1, <1>2, <1>3, AppendProperties DEF Pending

LEMMA FailsReading ==
  ASSUME NEW c, Active(c), c.op \in Several
  PROVE  \/ c.op = "SDOread" /\ c.more /\ Fails(c) = AskSegment(c, Flip(c.num))
         \/ (c.op = "SDOread" => ~c.more) /\ Fails(c) = Done(c, 0)
BY DEF Fails, SDOreadFails, Several

LEMMA SegmentAsked ==
  ASSUME NEW c, Active(c), c.op = "SDOread", NEW toggle \in Int, NEW d, d = AskSegment(c, toggle)
  PROVE  /\ d.pc = "send" /\ d.more = TRUE /\ d.data = c.data /\ d.wkc = c.wkc
         /\ Keeps(c, d) /\ d \in AnyCall
         /\ d.out \in Inquiries(c) /\ d.out \in AnyRequest /\ d.out.kind = "upsegreq"
<1> DEFINE r == Mail("CoE", "upsegreq", c.obj)
           m == [r EXCEPT !.n = toggle]
           b == [c EXCEPT !.more = TRUE, !.num = toggle]
<1>1. c \in AnyCall /\ c.obj \in Objects
  BY ActiveCall
<1>2. r \in AnyMail /\ PlainMail(r, "CoE", "upsegreq", c.obj)
  BY <1>1, OneMail DEF Kinds
<1>3. m \in AnyMail /\ m.type = "CoE" /\ m.kind = "upsegreq" /\ m.of = c.obj
  <2> HIDE DEF r
  <2> QED BY <1>2 DEF AnyMail, PlainMail
<1>4. b \in AnyCall /\ b.more = TRUE /\ b.data = c.data /\ b.wkc = c.wkc
  BY <1>1 DEF AnyCall
<1>5. d = Ask(b, m)
  BY DEF AskSegment
<1>6. StepOf(c, d)
  BY AskSegmentStep
<1> HIDE DEF m, b, r
<1>7. m \in AnyRequest
  BY <1>1, <1>3 DEF AnyRequest, CoeRequests
<1>8. m \in Inquiries(c)
  BY <1>3, <1>7 DEF Inquiries
<1>9. d.pc = "send" /\ d.out = m /\ Same(b, d) /\ d.wkc = b.wkc
  BY <1>4, <1>5, Leaves
<1> QED BY <1>3, <1>4, <1>6, <1>7, <1>8, <1>9 DEF Same, StepOf

LEMMA ReadingSending ==
  ASSUME Base, Sending \/ NotSending, NEW exact, NEW exact2, exact2 => exact,
         call.op \in Several, Reading(call, toslave, tomaster, srv, store, exact)
  PROVE  Reading(call', toslave', tomaster', srv', store', exact2)
<1>1. /\ Active(call) /\ call.pc = "send" /\ Keeps(call, call') /\ PlaceOK(call')
      /\ UNCHANGED <<tomaster, srv, store>>
      /\ toslave' = toslave \/ toslave' = Append(toslave, call.out)
      /\ call \in AnyCall /\ toslave \in Seq(AnyRequest)
  BY SendingKeeps, ActiveCall DEF Base, UnderWay
<1>2. /\ toslave \in Seq(Inquiries(call)) /\ call.out \in Inquiries(call)
      /\ toslave' \in Seq(Inquiries(call)) /\ call.out \in AnyRequest
  BY <1>1, AppendProperties DEF Reading, Inquiries
<1> DEFINE all == store[call.obj]
<1>3. Unheard(call, toslave, tomaster) \/ Told(call, toslave, tomaster, srv, all, exact)
  BY <1>1 DEF Reading
<1>4. CASE Sending
  <2>1. call' = Await(call) /\ toslave' = Append(toslave, call.out)
    BY <1>4 DEF Sending, Sent, Several
  <2>2. /\ Same(call, call') /\ call'.pc = "receive" /\ call'.wkc = call.wkc
    BY <1>1, <2>1, Leaves
  <2>3. Pending(call', toslave') = Pending(call, toslave)
    BY <1>1, <2>1, <2>2 DEF Pending
  <2>4. \/ Unheard(call', toslave', tomaster)
        \/ Told(call', toslave', tomaster, srv, all, exact2)
    <3> HIDE DEF all
    <3> QED BY <1>1, <1>3, <2>2, <2>3 DEF Keeps, Same, Unheard, Told, Going
  <2> HIDE DEF all
  <2> QED BY <1>1, <1>2, <2>2, <2>4, ReadingSame DEF Same, all
<1>5. CASE NotSending /\ call' = Done(call, 0)
  <2>1. Same(call, call') /\ call'.pc = "return" /\ call'.wkc = 0
    BY <1>1, <1>5, Leaves
  <2> QED BY <1>1, <1>2, <2>1, ReadingSame DEF Same
<1>6. CASE /\ NotSending /\ call.op = "SDOread" /\ call.more
           /\ call' = AskSegment(call, Flip(call.num))
  <2>1. Flip(call.num) \in Int
    BY <1>1, ActiveCall DEF Flip
  <2>2. /\ call'.pc = "send" /\ call'.more = TRUE /\ call'.data = call.data
        /\ call'.wkc = call.wkc /\ call'.out \in Inquiries(call)
        /\ call'.out \in AnyRequest /\ call'.out.kind = "upsegreq"
    BY <1>1, <1>6, <2>1, SegmentAsked
  <2>3. Told(call, toslave, tomaster, srv, all, exact)
    BY <1>3, <1>6 DEF Unheard
  <2> DEFINE S == {m \in AnyRequest : m.kind = "upsegreq"}
  <2>4. Pending(call, toslave) \in Seq(S) /\ call'.out \in S
    BY <2>2, <2>3 DEF Told
  <2>5. Pending(call', toslave') \in Seq(S)
    <3>1. Pending(call', toslave') = Append(toslave', call'.out)
      BY <2>2 DEF Pending
    <3> HIDE DEF S
    <3> QED BY <1>1, <1>2, <2>2, <2>4, <3>1, PendingStep
  <2>6. Told(call', toslave', tomaster, srv, all, exact2)
    BY <1>1, <1>6, <2>2, <2>3, <2>5 DEF Told, Going, Keeps
  <2> HIDE DEF all
  <2> QED BY <1>1, <1>2, <2>2, <2>6, ReadingSame DEF all
<1>7. NotSending => call' = Fails(call)
  BY DEF NotSending
<1> QED BY <1>1, <1>4, <1>5, <1>6, <1>7, FailsReading

LEMMA ReadingNotHearing ==
  ASSUME Base, NotHearing, NEW exact, NEW exact2, exact2 => exact,
         call.op \in Several, Reading(call, toslave, tomaster, srv, store, exact)
  PROVE  Reading(call', toslave', tomaster', srv', store', exact2)
<1>1. /\ Active(call) /\ call.pc = "receive" /\ Keeps(call, call') /\ call' = Fails(call)
      /\ UNCHANGED <<tomaster, toslave, srv, store>>
      /\ call \in AnyCall /\ toslave \in Seq(AnyRequest)
  BY NotHearingKeeps, ActiveCall DEF Base, UnderWay, mailvars, NotHearing
<1>2. toslave \in Seq(Inquiries(call))
  BY DEF Reading
<1> DEFINE all == store[call.obj]
<1>3. Unheard(call, toslave, tomaster) \/ Told(call, toslave, tomaster, srv, all, exact)
  BY <1>1 DEF Reading
<1>5. CASE call' = Done(call, 0)
  <2>1. Same(call, call') /\ call'.pc = "return" /\ call'.wkc = 0
    BY <1>1, <1>5, Leaves
  <2> QED BY <1>1, <1>2, <2>1, ReadingSame DEF Same
<1>6. CASE /\ call.op = "SDOread" /\ call.more
           /\ call' = AskSegment(call, Flip(call.num))
  <2>1. Flip(call.num) \in Int
    BY <1>1, ActiveCall DEF Flip
  <2>2. /\ call'.pc = "send" /\ call'.more = TRUE /\ call'.data = call.data
        /\ call'.wkc = call.wkc /\ call'.out \in Inquiries(call)
        /\ call'.out \in AnyRequest /\ call'.out.kind = "upsegreq"
    BY <1>1, <1>6, <2>1, SegmentAsked
  <2>3. Told(call, toslave, tomaster, srv, all, exact)
    BY <1>3, <1>6 DEF Unheard
  <2> DEFINE S == {m \in AnyRequest : m.kind = "upsegreq"}
  <2>4. toslave \in Seq(S) /\ call'.out \in S
    BY <1>1, <2>2, <2>3 DEF Told, Pending
  <2>5. Pending(call', toslave') \in Seq(S)
    <3>1. Pending(call', toslave') = Append(toslave, call'.out)
      BY <1>1, <2>2 DEF Pending
    <3> HIDE DEF S
    <3> QED BY <2>4, <3>1, AppendProperties
  <2>6. Told(call', toslave', tomaster, srv, all, exact2)
    BY <1>1, <1>6, <2>2, <2>3, <2>5 DEF Told, Going, Keeps
  <2> HIDE DEF all
  <2> QED BY <1>1, <1>2, <2>2, <2>6, ReadingSame DEF all
<1> QED BY <1>1, <1>5, <1>6, FailsReading

LEMMA ReadingMixing ==
  ASSUME Base, Mixing, NEW exact, NEW exact2, exact2 => exact,
         Reading(call, toslave, tomaster, srv, store, exact)
  PROVE  Reading(call', toslave', tomaster', srv', store', exact2)
<1>1. /\ Keeps(call, call') /\ Same(call, call') /\ call'.wkc = call.wkc
      /\ call'.pc = "receive" /\ call.pc = "receive"
      /\ UNCHANGED <<tomaster, toslave, srv, store>>
  BY MixingKeeps DEF mailvars, Mixing
<1>2. Pending(call', toslave') = Pending(call, toslave)
  BY <1>1 DEF Pending
<1>3. \/ Unheard(call', toslave', tomaster)
      \/ Told(call', toslave', tomaster, srv, store[call.obj], exact2)
  BY <1>1, <1>2, SameTold DEF Reading
<1>4. toslave \in Seq(Inquiries(call))
  BY DEF Reading
<1> QED BY <1>1, <1>3, <1>4, ReadingSame DEF Same

(* The slave begins an upload, sends a segment of it, or aborts.           *)
LEMMA FilledAs ==
  ASSUME NEW r \in AnyMail, NEW d \in Data, NEW n \in Int, NEW at \in Int,
         NEW frame \in Nat, NEW last \in BOOLEAN, NEW m,
         m = [r EXCEPT !.data = d, !.n = n, !.frame = frame, !.last = last, !.at = at]
  PROVE  /\ m \in AnyMail /\ Like(m, r) /\ m.data = d /\ m.n = n /\ m.at = at
         /\ m.frame = frame /\ m.last = last
BY DEF AnyMail, Like

LEMMA UploadBegins ==
  ASSUME NEW s, NEW st \in AnyStore, NEW m \in AnyRequest, m.of \in Objects, NEW r,
         r = Upload(s, st, m)
  PROVE  /\ r.store = st /\ \E x \in Parts(st[m.of]) : ~IsPart(x) /\ r.replies = <<x>>
         /\ r.srv.op = "up" => Uploads(r.srv, st[m.of]) /\ Position(r.srv) = InData
<1> DEFINE all == st[m.of]
<1>1. all \in Data /\ Len(all) \in Nat /\ InData \in Nat \ {0} /\ 0 \in Int
      /\ m.of \in Objects \cup {<< >>} /\ "upexp" \in Kinds /\ "upinit" \in Kinds
  BY ObjectTypes, MailSizes DEF Kinds
<1> HIDE DEF all
<1>2. CASE Len(all) <= Expedited
  <2> DEFINE q == Mail("CoE", "upexp", m.of)
             x == [q EXCEPT !.data = all]
  <2>1. q \in AnyMail /\ PlainMail(q, "CoE", "upexp", m.of)
    BY <1>1, OneMail
  <2> HIDE DEF q
  <2>2. x \in AnyMail /\ x.kind = "upexp" /\ x.data = all
    BY <1>1, <2>1 DEF AnyMail, PlainMail
  <2>3. r = Served(Resting, st, <<x>>)
    BY <1>2 DEF Upload, all, q
  <2> HIDE DEF x
  <2>4. x \in Parts(all) /\ ~IsPart(x)
    BY <2>2 DEF Parts, Initial, IsPart
  <2>5. r.store = st /\ r.replies = <<x>> /\ r.srv.op = "none"
    BY <2>3 DEF Served, Resting
  <2> QED BY <2>4, <2>5 DEF all
<1>3. CASE ~(Len(all) <= Expedited)
  <2> DEFINE q == Mail("CoE", "upinit", m.of)
             d == First(all, InData)
             n == Len(all)
             x == [q EXCEPT !.data = d, !.at = n]
             t == [op |-> IF Len(all) > InData THEN "up" ELSE "none", of |-> m.of,
                   data |-> After(all, InData), n |-> 0, size |-> Len(all)]
  <2>1. q \in AnyMail /\ PlainMail(q, "CoE", "upinit", m.of)
    BY <1>1, OneMail
  <2>2. d \in Data /\ n \in Int
    BY <1>1, CutTypes
  <2>3. r = Served(t, st, <<x>>)
    BY <1>3 DEF Upload, all
  <2> HIDE DEF q, d, n
  <2>4. x \in AnyMail /\ x.kind = "upinit" /\ x.data = d /\ x.at = n
    BY <2>1, <2>2 DEF AnyMail, PlainMail
  <2> HIDE DEF x
  <2>5. x \in Parts(all) /\ ~IsPart(x)
    BY <2>4 DEF Parts, Initial, IsPart, d, n
  <2>6. ASSUME t.op = "up" PROVE Uploads(t, all) /\ Position(t) = InData
    <3>1. Len(all) > InData /\ t.size = Len(all) /\ t.data = After(all, InData)
      BY <2>6
    <3>2. InData \in Nat /\ InData <= Len(all)
      BY <1>1, <3>1
    <3>3. Piece(all, InData, After(all, InData)) /\ Len(After(all, InData)) = Len(all) - InData
      BY <1>1, <3>2, PieceInside
    <3> HIDE DEF t
    <3>4. Position(t) = InData /\ Len(t.data) # 0
      BY <1>1, <3>1, <3>3 DEF Position
    <3>5. t.data # << >>
      BY <3>4, EmptySeq
    <3> QED BY <1>1, <3>1, <3>3, <3>4, <3>5 DEF Uploads
  <2> HIDE DEF t
  <2>7. r.store = st /\ r.replies = <<x>> /\ r.srv = t
    BY <2>3 DEF Served
  <2> QED BY <2>5, <2>6, <2>7 DEF all
<1> QED BY <1>2, <1>3

LEMMA SegmentServed ==
  ASSUME NEW s, SlaveSane(s), NEW st \in AnyStore, NEW m \in AnyRequest, NEW all \in Data,
         s.op = "up" => Uploads(s, all), NEW r, r = UploadSegment(s, st, m)
  PROVE  /\ r.store = st
         /\ \/ r.srv = Resting /\ r.replies = <<Abort>>
            \/ /\ s.op = "up"
               /\ \E x \in Parts(all) :
                    /\ IsPart(x) /\ x.at = Position(s) /\ r.replies = <<x>>
                    /\ r.srv.op = "up" => Uploads(r.srv, all) /\ Position(r.srv) = End(x)
<1>1. CASE s.op # "up" \/ m.n # s.n
  BY <1>1 DEF UploadSegment, Served
<1>2. CASE s.op = "up" /\ m.n = s.n
  <2> DEFINE size == Segment(InData)
             last == Len(s.data) <= size
             q == Mail("CoE", "upseg", << >>)
             d == First(s.data, size)
             at == s.size - Len(s.data)
             x == [q EXCEPT !.data = d, !.n = m.n, !.last = last, !.at = at]
             t == [s EXCEPT !.data = After(@, size), !.n = 1 - @]
  <2>1. /\ size \in Nat \ {0} /\ s.data \in Data /\ s.size \in Int /\ s.n \in Int
        /\ m.n \in Int /\ Len(s.data) \in Nat /\ at \in Int /\ last \in BOOLEAN
        /\ Len(all) \in Nat
    <3>1. m \in AnyMail /\ s.data \in Data /\ s.size \in Int /\ s.n \in Int
      BY DEF AnyRequest, SlaveSane, AnySlave
    <3> QED BY <3>1, MailFields, MailSizes, LenProperties DEF Segment, Data
  <2>2. r = Served(IF last THEN Resting ELSE t, st, <<x>>)
    BY <1>2 DEF UploadSegment
  <2>3. at = Position(s) /\ at \in Nat /\ Piece(all, at, s.data) /\ s.size = Len(all)
        /\ at >= InData
    BY <1>2 DEF Uploads, Position, Piece
  <2>4. q \in AnyMail /\ PlainMail(q, "CoE", "upseg", << >>)
    BY OneMail DEF Kinds
  <2>5. /\ Piece(all, at, d) /\ Len(d) = Least(size, Len(s.data)) /\ d \in Data
        /\ size <= Len(s.data) => /\ Piece(all, at + size, After(s.data, size))
                                  /\ Len(After(s.data, size)) = Len(s.data) - size
    <3> HIDE DEF size, at
    <3>1. size \in Nat /\ at \in Nat /\ Piece(all, at, s.data)
      BY <2>1, <2>3
    <3>2. /\ Piece(all, at, First(s.data, size))
          /\ Len(First(s.data, size)) = Least(size, Len(s.data))
          /\ size <= Len(s.data) => /\ Piece(all, at + size, After(s.data, size))
                                    /\ Len(After(s.data, size)) = Len(s.data) - size
      <4> DEFINE w == s.data
      <4> HIDE DEF w
      <4>1. Piece(all, at, w)
        BY <3>1 DEF w
      <4>2. /\ Piece(all, at, First(w, size))
            /\ Len(First(w, size)) = Least(size, Len(w))
            /\ size <= Len(w) => /\ Piece(all, at + size, After(w, size))
                                 /\ Len(After(w, size)) = Len(w) - size
        BY <3>1, <4>1, PieceCut
      <4> QED BY <4>2 DEF w
    <3> QED BY <3>2 DEF Piece
  <2>6. at + Len(s.data) = Len(all)
    BY <2>1, <2>3
  <2>7. t.op = s.op /\ t.size = s.size /\ t.data = After(s.data, size)
    BY DEF SlaveSane, AnySlave
  <2> HIDE DEF size, q, d, at, t
  <2>8. x \in AnyMail /\ x.kind = "upseg" /\ x.data = d /\ x.at = at /\ x.last = last
    <3> HIDE DEF last
    <3> QED BY <2>1, <2>4, <2>5 DEF AnyMail, PlainMail
  <2> HIDE DEF x
  <2>9. End(x) = at + Len(d) /\ Len(d) \in Nat
    BY <2>5, <2>8, LenProperties DEF End, Data
  <2>10. last => End(x) = Len(all)
    BY <2>1, <2>3, <2>5, <2>6, <2>9 DEF Least
  <2>11. x \in Parts(all) /\ IsPart(x)
    BY <2>5, <2>8, <2>10 DEF Parts, PartOf, IsPart, LastPart
  <2>12. ASSUME ~last PROVE Uploads(t, all) /\ Position(t) = End(x)
    <3>1. size <= Len(s.data) /\ Len(d) = size /\ Len(t.data) = Len(s.data) - size
          /\ Len(t.data) # 0
      BY <2>1, <2>5, <2>7, <2>12 DEF Least
    <3>2. Position(t) = at + size /\ End(x) = at + size
      <4>1. /\ size \in Nat /\ at \in Int /\ Len(s.data) \in Nat /\ Len(all) \in Nat
            /\ at + Len(s.data) = Len(all) /\ t.size = Len(all)
        BY <2>1, <2>3, <2>6, <2>7
      <4>2. \A a, b, k \in Int : (a + b) - (b - k) = a + k
        OBVIOUS
      <4>3. Position(t) = (at + Len(s.data)) - (Len(s.data) - size)
        BY <3>1, <4>1 DEF Position
      <4>4. Position(t) = at + size
        <5> DEFINE l == Len(s.data)
        <5>1. at \in Int /\ l \in Int /\ size \in Int /\ Position(t) = (at + l) - (l - size)
          BY <4>1, <4>3
        <5> HIDE DEF l
        <5>2. (at + l) - (l - size) = at + size
          BY <5>1
        <5> QED BY <5>1, <5>2
      <4>5. End(x) = at + size
        BY <2>9, <3>1
      <4> QED BY <4>4, <4>5
    <3>3. t.data # << >>
      BY <3>1, EmptySeq
    <3>4. Piece(all, at + size, t.data)
      BY <2>5, <2>7, <3>1
    <3>5. at + size >= InData
      BY <2>1, <2>3, MailSizes
    <3> QED BY <2>3, <2>7, <3>2, <3>3, <3>4, <3>5 DEF Uploads
  <2>13. r.store = st /\ r.replies = <<x>> /\ r.srv = IF last THEN Resting ELSE t
    BY <2>2 DEF Served
  <2>14. r.srv.op = "up" => Uploads(r.srv, all) /\ Position(r.srv) = End(x)
    <3> HIDE DEF last
    <3> QED BY <2>12, <2>13 DEF Resting
  <2> QED BY <1>2, <2>3, <2>8, <2>11, <2>13, <2>14
<1> QED BY <1>1, <1>2

LEMMA NothingBefore ==
  ASSUME NEW tm \in Seq(AnyMail), NoParts(tm), NEW fs \in Seq(AnyMail), NEW d \in Data,
         NEW room \in Nat, InPlace(d, fs), Gapless(d, fs, room)
  PROVE  InPlace(d, tm \o fs) /\ Gapless(d, tm \o fs, room)
<1>1. /\ Len(tm) \in Nat /\ Len(fs) \in Nat
      /\ \A i \in 1 .. Len(fs) : (tm \o fs)[Len(tm) + i] = fs[i]
  BY MailsTyped, AddedMails
<1>2. InPlace(d, tm) /\ Gapless(d, tm, room)
  BY DEF NoParts, InPlace, Gapless
<1>3. InPlace(d, tm \o fs)
  BY <1>2, AddedPlace DEF NoParts
<1>4. ASSUME NEW j \in 1 .. Len(fs), IsPart(fs[j])
      PROVE  Reached(d, tm \o fs, room, Len(tm) + j - 1, fs[j].at)
  <2> SUFFICES ASSUME NEW q \in Len(d) .. fs[j].at - 1, q < room
               PROVE  Covered(tm \o fs, Len(tm) + j - 1, q)
    BY DEF Reached
  <2>1. Covered(fs, j - 1, q)
    BY <1>4 DEF Gapless, Reached
  <2>2. PICK k \in 1 .. j - 1 : IsPart(fs[k]) /\ fs[k].at <= q /\ q < End(fs[k])
    BY <2>1 DEF Covered
  <2>3. k \in 1 .. Len(fs) /\ Len(tm) + k \in 1 .. Len(tm) + j - 1
    BY <1>1
  <2>4. (tm \o fs)[Len(tm) + k] = fs[k]
    BY <1>1, <2>3
  <2> QED BY <2>2, <2>3, <2>4 DEF Covered
<1>5. Gapless(d, tm \o fs, room)
  BY <1>2, <1>4, AddedGapless
<1> QED BY <1>3, <1>5

LEMMA EmptyPiece == \A all \in Data : Piece(all, 0, << >>)
BY EmptyData, LenProperties DEF Piece, Data

LEMMA PendingTail ==
  ASSUME NEW c, NEW ts \in Seq(AnyRequest), ts # << >>, c.pc = "send" => c.out \in AnyRequest,
         NEW S, Pending(c, ts) \in Seq(S)
  PROVE  Head(ts) \in S /\ Pending(c, Tail(ts)) \in Seq(S)
         /\ Pending(c, Tail(ts)) = Tail(Pending(c, ts))
         /\ Len(Pending(c, ts)) = Len(Pending(c, Tail(ts))) + 1
         /\ (Len(Pending(c, ts)) = 1 => c.pc # "send" /\ Tail(ts) = << >>)
<1>1. /\ Tail(ts) \in Seq(AnyRequest) /\ Head(ts) = ts[1] /\ Len(ts) \in Nat /\ Len(ts) >= 1
      /\ Len(Tail(ts)) = Len(ts) - 1
      /\ \A i \in 1 .. Len(ts) - 1 : Tail(ts)[i] = ts[i + 1]
  BY HeadTailProperties, LenProperties, EmptySeq
<1>2. CASE c.pc # "send"
  <2>1. Head(ts) \in S /\ Tail(ts) \in Seq(S)
    BY <1>2, HeadTailProperties DEF Pending
  <2>2. Len(ts) = 1 => Tail(ts) = << >>
    <3> DEFINE t == Tail(ts)
    <3> HIDE DEF t
    <3>1. t \in Seq(AnyRequest) /\ Len(t) = Len(ts) - 1 /\ Len(ts) \in Nat
      BY <1>1 DEF t
    <3>2. Len(ts) = 1 => Len(t) = 0
      BY <3>1
    <3>3. Len(t) = 0 => t = << >>
      BY <3>1, EmptySeq
    <3> QED BY <3>2, <3>3 DEF t
  <2> QED BY <1>1, <1>2, <2>1, <2>2 DEF Pending
<1>3. CASE c.pc = "send"
  <2> DEFINE p == Append(ts, c.out)
             u == Append(Tail(ts), c.out)
  <2>1. /\ p \in Seq(S) /\ p \in Seq(AnyRequest) /\ Len(p) = Len(ts) + 1
        /\ \A i \in 1 .. Len(ts) : p[i] = ts[i]
        /\ p[Len(ts) + 1] = c.out
    BY <1>3, AppendProperties DEF Pending
  <2>2. /\ u \in Seq(AnyRequest) /\ Len(u) = Len(ts)
        /\ \A i \in 1 .. Len(ts) - 1 : u[i] = ts[i + 1]
        /\ u[Len(ts)] = c.out
    <3>1. /\ u \in Seq(AnyRequest) /\ Len(u) = Len(Tail(ts)) + 1
          /\ \A i \in 1 .. Len(Tail(ts)) : u[i] = Tail(ts)[i]
          /\ u[Len(Tail(ts)) + 1] = c.out
      BY <1>1, <1>3, AppendProperties
    <3> HIDE DEF u
    <3> QED BY <1>1, <3>1
  <2> HIDE DEF p, u
  <2>3. p # << >> /\ Head(p) = p[1] /\ Tail(p) \in Seq(S) /\ Len(Tail(p)) = Len(p) - 1
        /\ \A i \in 1 .. Len(p) - 1 : Tail(p)[i] = p[i + 1]
    <3>1. p # << >>
      BY <1>1, <2>1, EmptySeq
    <3> QED BY <2>1, <3>1, HeadTailProperties
  <2>4. Tail(p) \in Seq(AnyRequest)
    BY <2>1, <2>3, HeadTailProperties
  <2>5. u = Tail(p)
    <3>1. Len(u) = Len(Tail(p)) /\ \A i \in 1 .. Len(u) : u[i] = Tail(p)[i]
      <4> SUFFICES ASSUME NEW i \in 1 .. Len(u) PROVE u[i] = Tail(p)[i]
        BY <1>1, <2>1, <2>2, <2>3
      <4>1. Tail(p)[i] = p[i + 1] /\ i \in 1 .. Len(ts)
        BY <1>1, <2>1, <2>2, <2>3
      <4>2. CASE i = Len(ts)
        BY <2>1, <2>2, <4>1, <4>2
      <4>3. CASE i # Len(ts)
        <5>1. i \in 1 .. Len(ts) - 1 /\ i + 1 \in 1 .. Len(ts)
          <6>1. Len(ts) \in Nat /\ i \in 1 .. Len(ts)
            BY <1>1, <4>1
          <6> QED BY <6>1, <4>3
        <5> QED BY <2>1, <2>2, <4>1, <5>1
      <4> QED BY <4>2, <4>3
    <3>2. \A x, y \in Seq(AnyRequest) :
            Len(x) = Len(y) /\ (\A i \in 1 .. Len(x) : x[i] = y[i]) => x = y
      BY SeqEqual
    <3> QED BY <2>2, <2>4, <3>1, <3>2
  <2>6. Head(ts) \in S
    <3>1. p[1] \in S
      BY <1>1, <2>1, ElementOfSeq
    <3> QED BY <1>1, <2>1, <3>1
  <2>7. Pending(c, ts) = p /\ Pending(c, Tail(ts)) = u
    BY <1>3 DEF Pending, p, u
  <2>8. Len(p) = Len(u) + 1 /\ Len(p) # 1
    BY <1>1, <2>1, <2>2
  <2> QED BY <2>3, <2>5, <2>6, <2>7, <2>8
<1> QED BY <1>2, <1>3

LEMMA ToldResting ==
  ASSUME NEW c, NEW ts, NEW tm, NEW s, NEW all, NEW exact, Told(c, ts, tm, s, all, exact)
  PROVE  Told(c, ts, tm, Resting, all, exact)
BY DEF Told, Going, Resting

LEMMA AbortParts ==
  <<Abort>> \in Seq(AnyMail) /\ NoParts(<<Abort>>) /\ \A all : <<Abort>> \in Seq(Parts(all))
<1>1. Abort \in AnyMail /\ Abort.kind = "abort"
  BY AbortMail DEF PlainMail
<1>2. ~IsPart(Abort) /\ \A all : Abort \in Parts(all)
  BY <1>1 DEF Parts, Initial, IsPart
<1> QED BY <1>1, <1>2 DEF NoParts

LEMMA InquiryServed ==
  ASSUME NEW c, c.op \in Several, NEW m \in Inquiries(c), NEW s, NEW st, NEW r,
         r = SlaveDoes(s, st, m)
  PROVE  /\ m \in AnyRequest /\ m.of = c.obj /\ m.type = "CoE"
         /\ \/ c.op = "SDOread" /\ m.kind = "upreq" /\ r = Upload(s, st, m)
            \/ c.op = "SDOread" /\ m.kind = "upsegreq" /\ r = UploadSegment(s, st, m)
            \/ /\ c.op = "readODlist" /\ m.kind = "odlistreq"
               /\ r = Served(s, st, ListFragments(st[m.of]))
<1>1. /\ m \in AnyRequest /\ m.of = c.obj /\ m.type = "CoE"
      /\ \/ c.op = "SDOread" /\ m.kind \in {"upreq", "upsegreq"}
         \/ c.op = "readODlist" /\ m.kind = "odlistreq"
  BY DEF Inquiries, Several
<1>2. r = CoeServe(s, st, m)
  BY <1>1 DEF SlaveDoes
<1> QED BY <1>1, <1>2 DEF CoeServe

LEMMA ToldLess ==
  ASSUME NEW c, c.more, NEW ts, NEW ts2, NEW tm, NEW s, NEW all, NEW exact, NEW exact2,
         exact2 => exact, Told(c, ts, tm, s, all, exact),
         Pending(c, ts2) \in Seq({m \in AnyRequest : m.kind = "upsegreq"})
  PROVE  Told(c, ts2, tm, s, all, exact2)
BY DEF Told, Going

LEMMA ReadingServing ==
  ASSUME Base, Serving, NEW exact, NEW exact2, exact2 => exact, call.op \in Several,
         Reading(call, toslave, tomaster, srv, store, exact)
  PROVE  Reading(call', toslave', tomaster', srv', store', exact2)
<1> DEFINE h == Head(toslave)
           ts == Tail(toslave)
           all == store[call.obj]
           S == {m \in AnyRequest : m.kind = "upsegreq"}
<1>1. /\ toslave \in Seq(AnyRequest) /\ toslave \in Seq(Inquiries(call)) /\ toslave # << >>
      /\ tomaster \in Seq(AnyMail) /\ SlaveSane(srv) /\ store \in AnyStore
      /\ call \in AnyCall /\ call.obj \in Objects /\ call' = call /\ toslave' = ts
      /\ call.pc = "send" => call.out \in AnyRequest
      /\ call.pc = "send" => call.out \in Inquiries(call)
  BY DEF Base, UnderWay, SlaveState, Control, Serving, Deliver, Reading, Inquiries
<1>2. h \in Inquiries(call) /\ ts \in Seq(Inquiries(call)) /\ h \in AnyRequest
  BY <1>1, HeadTailProperties DEF Inquiries
<1>3. all \in Data /\ call.room \in Nat
  BY <1>1, ObjectTypes DEF AnyCall
<1>4. PICK r : /\ srv' = r.srv /\ store' = r.store /\ tomaster' = tomaster \o r.replies
               /\ \/ r = SlaveDoes(srv, store, h)
                  \/ r = Served(Resting, store, <<Abort>>) /\ h.kind \in {"upreq", "upsegreq"}
  <2>1. h.kind \in {"upreq", "upsegreq", "odlistreq"}
    BY <1>2 DEF Inquiries
  <2> QED BY <2>1 DEF Serving, Deliver
<1>5. /\ h.of = call.obj
      /\ \/ call.op = "SDOread" /\ h.kind = "upreq" /\ r = Upload(srv, store, h)
         \/ call.op = "SDOread" /\ h.kind = "upsegreq" /\ r = UploadSegment(srv, store, h)
         \/ /\ call.op = "readODlist" /\ h.kind = "odlistreq"
            /\ r = Served(srv, store, ListFragments(all))
         \/ /\ call.op = "SDOread" /\ h.kind \in {"upreq", "upsegreq"}
            /\ r.srv = Resting /\ r.store = store /\ r.replies = <<Abort>>
  <2>1. h.of = call.obj /\ (h.kind \in {"upreq", "upsegreq"} => call.op = "SDOread")
    BY <1>2 DEF Inquiries, Several
  <2> HIDE DEF h
  <2>2. CASE r = SlaveDoes(srv, store, h)
    BY <1>2, <2>1, <2>2, InquiryServed
  <2>3. CASE r = Served(Resting, store, <<Abort>>) /\ h.kind \in {"upreq", "upsegreq"}
    BY <2>1, <2>3 DEF Served
  <2> QED BY <1>4, <2>2, <2>3
<1> HIDE DEF h, all
<1>6. /\ r.store = store
      /\ r = UploadSegment(srv, store, h) /\ (srv.op = "up" => Uploads(srv, all)) =>
           \/ r.srv = Resting /\ r.replies = <<Abort>>
           \/ /\ srv.op = "up"
              /\ \E x \in Parts(all) :
                   /\ IsPart(x) /\ x.at = Position(srv) /\ r.replies = <<x>>
                   /\ r.srv.op = "up" => Uploads(r.srv, all) /\ Position(r.srv) = End(x)
      /\ r = Upload(srv, store, h) =>
           /\ \E x \in Parts(all) : ~IsPart(x) /\ r.replies = <<x>>
           /\ r.srv.op = "up" => Uploads(r.srv, all) /\ Position(r.srv) = InData
  <2>1. r = Upload(srv, store, h) =>
           /\ r.store = store
           /\ \E x \in Parts(all) : ~IsPart(x) /\ r.replies = <<x>>
           /\ r.srv.op = "up" => Uploads(r.srv, all) /\ Position(r.srv) = InData
    <3>1. all = store[h.of] /\ h.of \in Objects
      BY <1>1, <1>5 DEF all
    <3>2. ASSUME r = Upload(srv, store, h)
          PROVE  /\ r.store = store
                 /\ \E x \in Parts(store[h.of]) : ~IsPart(x) /\ r.replies = <<x>>
                 /\ r.srv.op = "up"
                      => Uploads(r.srv, store[h.of]) /\ Position(r.srv) = InData
      <4>1. store \in AnyStore /\ h \in AnyRequest /\ h.of \in Objects
        BY <1>1, <1>2, <3>1
      <4> QED BY <3>2, <4>1, UploadBegins
    <3> QED BY <3>1, <3>2
  <2>2. r = UploadSegment(srv, store, h) => r.store = store
    BY DEF UploadSegment, Served
  <2>3. r = UploadSegment(srv, store, h) /\ (srv.op = "up" => Uploads(srv, all)) =>
           \/ r.srv = Resting /\ r.replies = <<Abort>>
           \/ /\ srv.op = "up"
              /\ \E x \in Parts(all) :
                   /\ IsPart(x) /\ x.at = Position(srv) /\ r.replies = <<x>>
                   /\ r.srv.op = "up" => Uploads(r.srv, all) /\ Position(r.srv) = End(x)
    BY <1>1, <1>2, <1>3, SegmentServed
  <2>4. r = Served(srv, store, ListFragments(all)) => r.store = store
    BY DEF Served
  <2> QED BY <1>5, <2>1, <2>2, <2>3, <2>4
<1>7. SUFFICES ASSUME call.pc \in {"send", "receive"}
               PROVE  Told(call, ts, tomaster \o r.replies, r.srv, all, exact2)
  <2>1. store' = store /\ srv' = r.srv /\ tomaster' = tomaster \o r.replies
    BY <1>4, <1>6
  <2>2. Keeps(call, call)
    BY DEF Keeps
  <2> DEFINE tm2 == tomaster \o r.replies
             s2 == r.srv
  <2> HIDE DEF ts, tm2, s2
  <2>3. Reading(call, ts, tm2, s2, store, exact2)
    BY <1>1, <1>2, <1>7, <2>2, ReadingSame DEF all, tm2, s2
  <2> QED BY <1>1, <2>1, <2>3 DEF tm2, s2
<1>8. CASE Unheard(call, toslave, tomaster)
  <2>1. /\ call.pc = "receive" /\ ts = << >> /\ h \in Openers
        /\ tomaster \in Seq(Frags) /\ call.data = << >> /\ call.more = FALSE
    <3>1. Pending(call, toslave) \in Seq(Openers) /\ Len(Pending(call, toslave)) = 1
      BY <1>8 DEF Unheard
    <3>2. h \in Openers /\ call.pc # "send" /\ ts = << >>
      BY <1>1, <3>1, PendingTail DEF h
    <3> QED BY <1>7, <1>8, <3>2 DEF Unheard
  <2>2. NoParts(tomaster) /\ tomaster \in Seq(Parts(all))
    BY <2>1, FragsAreNoParts
  <2>3. Pending(call, ts) = << >> /\ << >> \in Seq(S)
    BY <2>1, EmptySeq DEF Pending
  <2>4. CASE call.op = "SDOread"
    <3>1. /\ \E x \in Parts(all) : ~IsPart(x) /\ r.replies = <<x>>
          /\ r.srv.op = "up" => Uploads(r.srv, all) /\ Position(r.srv) = InData
      <4>1. h.kind # "upsegreq"
        BY <2>1 DEF Openers
      <4>2. CASE r = Upload(srv, store, h)
        BY <4>2, <1>6
      <4>3. CASE r.srv = Resting /\ r.replies = <<Abort>>
        <5>1. Abort \in Parts(all) /\ ~IsPart(Abort)
          BY AbortMail DEF PlainMail, Parts, Initial, IsPart
        <5> QED BY <4>3, <5>1 DEF Resting
      <4> QED BY <1>5, <2>4, <4>1, <4>2, <4>3
    <3>2. PICK x \in Parts(all) : ~IsPart(x) /\ r.replies = <<x>>
      BY <3>1
    <3>3. x \in AnyMail /\ <<x>> \in Seq(AnyMail) /\ <<x>> \in Seq(Parts(all))
      BY DEF Parts
    <3>4. tomaster \o <<x>> \in Seq(Parts(all)) /\ NoParts(tomaster \o <<x>>)
      <4>1. tomaster \o <<x>> \in Seq(Parts(all))
        BY <2>2, <3>3, ConcatProperties
      <4>2. NoParts(tomaster \o <<x>>)
        BY <1>1, <2>2, <3>2, <3>3, AddedMails DEF NoParts
      <4> QED BY <4>1, <4>2
    <3> DEFINE tm == tomaster \o <<x>>
    <3> HIDE DEF tm, ts, S
    <3>5. Told(call, ts, tm, r.srv, all, exact2)
      BY <2>1, <2>3, <2>4, <3>1, <3>4 DEF Told, NoParts, tm, S
    <3> QED BY <3>2, <3>5 DEF tm
  <2>5. CASE call.op = "readODlist"
    <3> DEFINE fs == ListFragments(all)
    <3>1. r.replies = fs
      BY <1>5, <2>5 DEF Served
    <3> HIDE DEF fs
    <3>2. /\ fs \in Seq(Parts(all)) /\ InPlace(<< >>, fs) /\ Gapless(<< >>, fs, call.room)
          /\ fs \in Seq(AnyMail)
      <4>1. fs \in Seq(Parts(all)) /\ InPlace(<< >>, fs) /\ Gapless(<< >>, fs, call.room)
        BY <1>3, ListParts DEF fs
      <4> QED BY <4>1 DEF Parts
    <3>3. InPlace(<< >>, tomaster \o fs) /\ Gapless(<< >>, tomaster \o fs, call.room)
      BY <1>1, <1>3, <2>2, <3>2, EmptyData, NothingBefore
    <3>4. tomaster \o fs \in Seq(Parts(all))
      BY <2>2, <3>2, ConcatProperties
    <3> DEFINE tm == tomaster \o fs
    <3> HIDE DEF tm, ts, S
    <3>5. Going(call, tm, r.srv, all, exact2)
      BY <1>3, <2>1, <2>5, <3>3, EmptyPiece DEF Going, tm
    <3>6. Told(call, ts, tm, r.srv, all, exact2)
      BY <2>3, <2>5, <3>4, <3>5 DEF Told, tm, S
    <3> QED BY <3>1, <3>6 DEF tm
  <2> QED BY <2>4, <2>5 DEF Several
<1>9. CASE Told(call, toslave, tomaster, srv, all, exact)
  <2>1. h \in S /\ Pending(call, ts) \in Seq(S) /\ Pending(call, toslave) # << >>
    <3>1. Pending(call, toslave) \in Seq(S)
      BY <1>9 DEF Told
    <3>2. /\ h \in S /\ Pending(call, ts) \in Seq(S)
          /\ Len(Pending(call, toslave)) = Len(Pending(call, ts)) + 1
      <4> HIDE DEF S
      <4> QED BY <1>1, <3>1, PendingTail DEF h, ts
    <3>3. Len(Pending(call, toslave)) # 0
      <4> HIDE DEF S
      <4> QED BY <3>2, LenProperties
    <3> QED BY <3>2, <3>3, EmptySeq
  <2>2. call.op = "SDOread" /\ h.kind = "upsegreq"
    BY <1>5, <2>1
  <2>3. call.more /\ Going(call, tomaster, srv, all, exact)
        /\ tomaster \in Seq(Parts(all)) /\ (srv.op = "up" => Uploads(srv, all))
    BY <1>9, <2>1, <2>2 DEF Told
  <2>4. CASE r.srv = Resting /\ r.replies = <<Abort>>
    <3>1. Told(call, toslave, tomaster, Resting, all, exact)
      BY <1>9, ToldResting
    <3>2. <<Abort>> \in Seq(AnyMail) /\ NoParts(<<Abort>>) /\ <<Abort>> \in Seq(Parts(all))
      BY AbortParts
    <3> DEFINE fs == <<Abort>>
               tm == tomaster \o fs
    <3>3. r.replies = fs
      BY <2>4
    <3> HIDE DEF fs
    <3>4. Told(call, toslave, tomaster \o fs, Resting, all, exact)
      BY <1>1, <3>1, <3>2, ToldMore DEF fs
    <3> HIDE DEF tm, ts
    <3>5. Told(call, ts, tm, Resting, all, exact2)
      BY <2>1, <2>3, <3>4, ToldLess DEF tm
    <3> QED BY <2>4, <3>3, <3>5 DEF tm
  <2>5. CASE /\ srv.op = "up"
             /\ \E x \in Parts(all) :
                   /\ IsPart(x) /\ x.at = Position(srv) /\ r.replies = <<x>>
                   /\ r.srv.op = "up" => Uploads(r.srv, all) /\ Position(r.srv) = End(x)
    <3>1. PICK x \in Parts(all) :
                   /\ IsPart(x) /\ x.at = Position(srv) /\ r.replies = <<x>>
                   /\ r.srv.op = "up" => Uploads(r.srv, all) /\ Position(r.srv) = End(x)
      BY <2>5
    <3>2. x \in AnyMail /\ <<x>> \in Seq(AnyMail) /\ <<x>> \in Seq(Parts(all))
      BY DEF Parts
    <3>3. Position(srv) \in Nat
      BY <2>3, <2>5, UploadsAt
    <3>4. /\ InPlace(call.data, tomaster) /\ Beyond(srv, call.data, tomaster)
          /\ Len(all) <= call.room
          /\ exact => /\ Piece(all, 0, call.data) /\ Gapless(call.data, tomaster, call.room)
                      /\ Reached(call.data, tomaster, call.room, Len(tomaster), Position(srv))
      BY <2>2, <2>3, <2>5 DEF Going
    <3> DEFINE tm == tomaster \o <<x>>
               d == call.data
               p == Position(srv)
    <3>5. d \in Data /\ Len(d) <= p
          /\ \A i \in 1 .. Len(tomaster) : IsPart(tomaster[i]) => End(tomaster[i]) <= p
      BY <1>1, <3>4 DEF Beyond, AnyCall
    <3> HIDE DEF p
    <3>6. /\ InPlace(d, tomaster \o <<x>>)
          /\ \A i \in 1 .. Len(tomaster \o <<x>>) :
              IsPart((tomaster \o <<x>>)[i]) => End((tomaster \o <<x>>)[i]) <= End(x)
          /\ Gapless(d, tomaster, call.room) /\ Reached(d, tomaster, call.room, Len(tomaster), p)
              => /\ Gapless(d, tomaster \o <<x>>, call.room)
                 /\ Reached(d, tomaster \o <<x>>, call.room, Len(tomaster \o <<x>>), End(x))
      <4> HIDE DEF d
      <4>1. p \in Nat /\ x.at = p /\ InPlace(d, tomaster)
        BY <3>1, <3>3, <3>4 DEF p, d
      <4> QED BY <1>1, <1>3, <3>1, <3>2, <3>5, <4>1, SegmentAdded
    <3>7. tm \in Seq(Parts(all))
      BY <2>3, <3>2, ConcatProperties
    <3>8. Len(d) <= End(x)
      <4>1. Len(x.data) \in Nat /\ x.at = p /\ Len(d) <= p /\ p \in Nat /\ Len(d) \in Nat
        BY <3>1, <3>2, <3>3, <3>5, MailFields, LenProperties DEF Data, p
      <4> QED BY <4>1 DEF End
    <3> HIDE DEF tm, ts, S
    <3>9. Going(call, tm, r.srv, all, exact2)
      <4>1. InPlace(call.data, tm)
            /\ (exact2 => Piece(all, 0, call.data) /\ Gapless(call.data, tm, call.room))
        BY <3>4, <3>6 DEF tm, p
      <4>2. ASSUME r.srv.op = "up"
            PROVE  /\ Beyond(r.srv, call.data, tm)
                   /\ exact2 => Reached(call.data, tm, call.room, Len(tm), Position(r.srv))
        <5>1. Position(r.srv) = End(x)
          BY <3>1, <4>2
        <5>2. Beyond(r.srv, call.data, tm)
          BY <3>6, <3>8, <5>1 DEF Beyond, tm
        <5>3. exact2 => Reached(call.data, tm, call.room, Len(tm), Position(r.srv))
          BY <3>4, <3>6, <5>1 DEF tm, p
        <5> QED BY <5>2, <5>3
      <4> QED BY <3>4, <4>1, <4>2 DEF Going
    <3>10. Told(call, ts, tm, r.srv, all, exact2)
      BY <2>1, <2>2, <2>3, <3>1, <3>7, <3>9 DEF Told, S
    <3> QED BY <3>1, <3>10 DEF tm
  <2>6. r = UploadSegment(srv, store, h) \/ (r.srv = Resting /\ r.replies = <<Abort>>)
    BY <1>5, <2>2
  <2> QED BY <1>6, <2>3, <2>4, <2>5, <2>6
<1>10. Unheard(call, toslave, tomaster) \/ Told(call, toslave, tomaster, srv, all, exact)
  BY <1>7 DEF Reading, all
<1> QED BY <1>8, <1>9, <1>10

(* A part is read: after it the rest is in order still.                    *)
LEMMA FirstAll ==
  ASSUME NEW s \in Data, NEW k \in Nat, Len(s) <= k
  PROVE  First(s, k) = s
<1>1. Len(s) \in Nat /\ s \in Seq(Units)
  BY LenProperties DEF Data
<1>2. Least(k, Len(s)) = Len(s)
  BY <1>1 DEF Least
<1>3. SubSeq(s, 1, Len(s)) = s
  BY <1>1, SubSeqFull
<1> QED BY <1>2, <1>3 DEF First

LEMMA PartRead ==
  ASSUME NEW c \in AnyCall, NEW all \in Data, NEW tm \in Seq(Parts(all)), tm # << >>,
         NEW s, NEW exact, Going(c, tm, s, all, exact), IsPart(Head(tm)),
         Len(c.data) <= c.room, Placed(s),
         NEW e, e = c.data \o First(Head(tm).data, c.room - Len(c.data))
  PROVE  HasRead(c, tm, s, all, exact, e)
<1> DEFINE h == Head(tm)
           k == c.room - Len(c.data)
<1>1. /\ tm \in Seq(AnyMail) /\ h \in Parts(all) /\ h \in AnyMail /\ Tail(tm) \in Seq(AnyMail)
      /\ c.data \in Data /\ Len(c.data) \in Nat /\ c.room \in Nat /\ Len(all) \in Nat
      /\ h = tm[1] /\ Len(tm) >= 1 /\ Len(tm) \in Nat
  <2>1. tm \in Seq(AnyMail) /\ h \in Parts(all)
    BY HeadTailProperties DEF Parts
  <2> QED BY <2>1, MailsTyped, LenProperties DEF AnyCall, Data, Parts
<1>2. h.data \in Data /\ Len(h.data) \in Nat /\ h.at \in Int /\ k \in Nat
  BY <1>1, MailFields
<1>3. Piece(all, h.at, h.data) /\ h.at \in Nat /\ End(h) = h.at + Len(h.data)
      /\ End(h) <= Len(all)
  <2>1. PartOf(all, h)
    BY <1>1 DEF Parts, Initial, IsPart, IsFragment
  <2> QED BY <2>1 DEF PartOf, Piece, End
<1>4. InPlace(c.data, tm) /\ Len(c.data) <= h.at
      /\ (exact => Piece(all, 0, c.data) /\ Gapless(c.data, tm, c.room))
      /\ (c.op = "SDOread" => Len(all) <= c.room)
  BY <1>1 DEF Going, InPlace
<1> HIDE DEF h, k
<1>5. /\ First(h.data, k) \in Data /\ Len(First(h.data, k)) = Least(k, Len(h.data))
  BY <1>2, CutTypes
<1>6. e \in Data /\ Len(e) = Len(c.data) + Least(k, Len(h.data))
  BY <1>1, <1>5, ConcatData DEF h, k
<1>7. Len(e) <= c.room /\ Len(e) <= Len(c.data) + Len(h.data)
  <2> DEFINE a == Len(c.data)
             b == Len(h.data)
             l == Len(e)
             r == c.room
  <2>1. /\ a \in Nat /\ b \in Nat /\ r \in Nat /\ a <= r /\ r - a \in Nat
        /\ l = a + (IF r - a < b THEN r - a ELSE b)
    BY <1>1, <1>2, <1>6 DEF Least, k
  <2> HIDE DEF a, b, l, r
  <2>2. l <= r /\ l <= a + b
    BY <2>1
  <2> QED BY <2>2 DEF a, b, l, r
<1>8. ASSUME c.op = "SDOread" PROVE e = c.data \o h.data
  <2>1. Len(h.data) <= k
    BY <1>1, <1>2, <1>3, <1>4, <1>8 DEF k
  <2>2. First(h.data, k) = h.data
    BY <1>2, <2>1, FirstAll
  <2> QED BY <2>2 DEF h, k
<1>9. /\ InPlace(e, Tail(tm)) /\ Len(e) <= End(h)
      /\ \A t : Position(t) \in Int /\ Beyond(t, c.data, tm) => Beyond(t, e, Tail(tm))
  BY <1>1, <1>4, <1>6, <1>7, ReadPlace DEF h
<1>10. ASSUME exact
       PROVE  /\ Piece(all, 0, e) /\ Len(e) = Least(c.room, End(h))
              /\ Gapless(e, Tail(tm), c.room)
              /\ \A p \in Int : Reached(c.data, tm, c.room, Len(tm), p)
                                  => Reached(e, Tail(tm), c.room, Len(Tail(tm)), p)
  <2> DEFINE d == c.data
             room == c.room
  <2>1. /\ Piece(all, h.at, h.data) /\ Piece(all, 0, d) /\ Len(d) <= room
        /\ InPlace(d, tm) /\ Gapless(d, tm, room) /\ room \in Nat
        /\ e = d \o First(Head(tm).data, room - Len(d))
    BY <1>1, <1>3, <1>4, <1>10
  <2> HIDE DEF d, room
  <2>2. /\ Piece(all, 0, e) /\ Len(e) = Least(room, End(Head(tm)))
        /\ Gapless(e, Tail(tm), room)
        /\ \A p \in Int : Reached(d, tm, room, Len(tm), p)
                             => Reached(e, Tail(tm), room, Len(Tail(tm)), p)
    BY <1>1, <2>1, ReadGapless DEF h
  <2> QED BY <2>2 DEF d, room, h
<1>11. ASSUME NEW d, Keeps(c, d), d.data = e
       PROVE  Going(d, Tail(tm), s, all, exact)
  <2>1. d.op = c.op /\ d.room = c.room
    BY <1>11 DEF Keeps
  <2>2. ASSUME c.op = "SDOread", s.op = "up"
        PROVE  /\ Beyond(s, e, Tail(tm))
               /\ exact => Reached(e, Tail(tm), c.room, Len(Tail(tm)), Position(s))
    <3>1. Beyond(s, c.data, tm)
          /\ (exact => Reached(c.data, tm, c.room, Len(tm), Position(s)))
      BY <2>2 DEF Going
    <3> QED BY <1>9, <1>10, <2>2, <3>1 DEF Placed
  <2> QED BY <1>4, <1>9, <1>10, <1>11, <2>1, <2>2 DEF Going
<1> QED BY <1>6, <1>7, <1>8, <1>10, <1>11 DEF h, HasRead

LEMMA PartEnds ==
  ASSUME NEW all \in Data, NEW m \in Parts(all), IsPart(m), LastPart(m), NEW room \in Nat,
         NEW e, Piece(all, 0, e), Len(e) = Least(room, End(m))
  PROVE  e = First(all, room) /\ (Len(all) <= room => e = all)
<1>1. End(m) = Len(all) /\ Len(all) \in Nat
  BY LenProperties DEF Parts, PartOf, Initial, IsPart, IsFragment, Data
<1>2. e = First(all, room) /\ (Len(e) = Len(all) => e = all)
  BY <1>1, PieceWhole
<1> QED BY <1>1, <1>2 DEF Least

LEMMA ReadingData ==
  ASSUME NEW c, Active(c), NEW e \in Data, NEW d, d = [c EXCEPT !.data = e]
  PROVE  Active(d) /\ Keeps(c, d) /\ d.data = e /\ d.more = c.more /\ d.num = c.num
         /\ d.wkc = c.wkc
BY DEF Active, AnyCall, Keeps

LEMMA DoneData ==
  ASSUME NEW c \in AnyCall, NEW w \in {0, 1}, NEW d, d = Done(c, w)
  PROVE  d.pc = "return" /\ d.data = c.data /\ d.wkc = w /\ Keeps(c, d)
BY DEF Done, AnyCall, Keeps

LEMMA AwaitData ==
  ASSUME NEW c \in AnyCall, NEW d, d = Await(c)
  PROVE  d.pc = "receive" /\ d.data = c.data /\ d.wkc = c.wkc /\ Keeps(c, d)
BY DEF Await, AnyCall, Keeps

LEMMA AskedOn ==
  ASSUME NEW c, Active(c), c.op = "SDOread", NEW e \in Data, NEW toggle \in Int
  PROVE  AsksOn(c, e, AskSegment([c EXCEPT !.data = e], toggle))
<1> DEFINE g == [c EXCEPT !.data = e]
           d == AskSegment(g, toggle)
<1>1. Active(g) /\ Keeps(c, g) /\ g.data = e /\ g.wkc = c.wkc
  BY ReadingData
<1>2. g.op = "SDOread" /\ g.obj = c.obj
  BY <1>1 DEF Keeps
<1> HIDE DEF g, d
<1>3. AsksOn(g, g.data, d)
  <2>1. ASSUME NEW x, Active(x), x.op = "SDOread"
        PROVE  AsksOn(x, x.data, AskSegment(x, toggle))
    <3> DEFINE y == AskSegment(x, toggle)
    <3> HIDE DEF y
    <3>1. /\ y.pc = "send" /\ y.more = TRUE /\ y.data = x.data /\ y.wkc = x.wkc
          /\ Keeps(x, y) /\ y \in AnyCall
          /\ y.out \in Inquiries(x) /\ y.out \in AnyRequest /\ y.out.kind = "upsegreq"
      BY <2>1, SegmentAsked DEF y
    <3>2. AsksOn(x, x.data, y)
      BY <3>1 DEF AsksOn
    <3> QED BY <3>2 DEF y
  <2> QED BY <1>1, <1>2, <2>1 DEF d
<1>4. Keeps(c, d) /\ Inquiries(g) = Inquiries(c)
  BY <1>1, <1>2, <1>3 DEF AsksOn, Keeps, Inquiries
<1>5. AsksOn(c, e, d)
  BY <1>1, <1>3, <1>4 DEF AsksOn
<1> QED BY <1>5 DEF d, g

(* What the answer to the first question, a segment or a fragment does.    *)
LEMMA UploadHeard ==
  ASSUME NEW c, Active(c), c.pc = "receive", c.op = "SDOread", ~c.more, c.wkc # 1, NEW ts,
         NEW tm, tm # << >>, NEW s, NEW all \in Data, NEW exact,
         Told(c, ts, tm, s, all, exact), NEW d, d = UploadAnswer(c, Head(tm))
  PROVE  \/ d = Done(c, 0)
         \/ d.pc = "return" /\ d.data = all /\ Len(d.data) <= c.room /\ Keeps(c, d)
         \/ /\ d.pc = "send" /\ d.out \in Inquiries(c) /\ Keeps(c, d) /\ d.wkc # 1
            /\ Len(d.data) <= c.room /\ Told(d, ts, Tail(tm), s, all, exact)
<1> DEFINE m == Head(tm)
<1>1. /\ tm \in Seq(AnyMail) /\ m \in Parts(all) /\ m \in AnyMail /\ ~IsPart(m)
      /\ Tail(tm) \in Seq(Parts(all)) /\ NoParts(Tail(tm))
  <2>1. tm \in Seq(Parts(all)) /\ NoParts(tm)
    BY DEF Told, NoParts
  <2>2. tm \in Seq(AnyMail)
    BY <2>1 DEF Parts
  <2>3. m \in Parts(all) /\ Tail(tm) \in Seq(Parts(all)) /\ m = tm[1] /\ 1 \in 1 .. Len(tm)
    BY <2>1, <2>2, HeadTailProperties, MailsTyped
  <2>4. NoParts(Tail(tm))
    <3>1. Len(Tail(tm)) = Len(tm) - 1 /\ Len(tm) \in Nat
          /\ \A i \in 1 .. Len(tm) - 1 : Tail(tm)[i] = tm[i + 1]
      BY <2>2, MailsTyped
    <3>2. \A i \in 1 .. Len(tm) - 1 : i + 1 \in 1 .. Len(tm)
      BY <3>1
    <3> QED BY <2>1, <3>1, <3>2 DEF NoParts
  <2> QED BY <2>1, <2>2, <2>3, <2>4 DEF NoParts, Parts
<1>2. m.data \in Data /\ Len(m.data) \in Nat /\ Len(all) \in Nat /\ InData \in Nat \ {0}
      /\ c.room \in Nat /\ c \in AnyCall
  BY <1>1, MailFields, LenProperties, MailSizes, ActiveCall DEF Data
<1> DEFINE e == [c EXCEPT !.data = m.data]
<1>3. Active(e) /\ Keeps(c, e) /\ e.data = m.data /\ e.wkc = c.wkc /\ e.op = "SDOread"
  BY <1>2, ReadingData DEF Keeps
<1> HIDE DEF m, e
<1>4. e \in AnyCall
  BY <1>3, ActiveCall
<1>5. \/ d = Done(c, 0)
      \/ m.kind = "upexp" /\ Len(m.data) <= c.room /\ d = Done(e, 1)
      \/ /\ m.kind = "upinit" /\ m.at <= c.room
         /\ \/ Len(m.data) < m.at /\ d = AskSegment(e, 0)
            \/ ~(Len(m.data) < m.at) /\ d = Done(e, 1)
  <2>1. \/ m.kind = "abort" \/ m.type = "EoE"
        \/ m.kind = "upexp" \/ m.kind = "upinit"
    BY <1>1 DEF Parts, PartOf, Initial, IsFragment
  <2>2. m.at \in Int /\ d = UploadAnswer(c, m)
    BY <1>1, MailFields DEF m
  <2> QED BY <1>2, <2>1, <2>2 DEF UploadAnswer, IsSdoResponse, SdoResponses, e
<1>6. CASE m.kind = "upexp" /\ Len(m.data) <= c.room /\ d = Done(e, 1)
  <2>1. m.data = all
    BY <1>1, <1>6 DEF Parts, PartOf, Initial, IsPart, IsFragment
  <2>2. d.pc = "return" /\ d.data = e.data /\ Keeps(e, d)
    BY <1>4, <1>6, DoneData
  <2> QED BY <1>3, <1>6, <2>1, <2>2 DEF Keeps
<1>7. CASE m.kind = "upinit" /\ m.at <= c.room
  <2>1. m.data = First(all, InData) /\ m.at = Len(all)
    BY <1>1, <1>7 DEF Parts, PartOf, Initial, IsPart, IsFragment
  <2>2. Piece(all, 0, m.data) /\ Len(m.data) = Least(InData, Len(all))
    BY <1>2, <2>1, PieceFirst
  <2>3. CASE ~(Len(m.data) < m.at) /\ d = Done(e, 1)
    <3>1. d.pc = "return" /\ d.data = e.data /\ Keeps(e, d)
      BY <1>4, <2>3, DoneData
    <3>2. Len(m.data) = Len(all) /\ Len(all) <= c.room
      BY <1>2, <1>7, <2>1, <2>2, <2>3 DEF Least
    <3>3. m.data = all
      BY <1>2, <2>2, <3>2, PieceWhole
    <3> QED BY <1>3, <3>1, <3>2, <3>3 DEF Keeps
  <2>4. CASE Len(m.data) < m.at /\ d = AskSegment(e, 0)
    <3>1. AsksOn(c, m.data, d)
      <4>1. \A toggle \in Int : AsksOn(c, m.data, AskSegment(e, toggle))
        BY <1>2, AskedOn DEF e
      <4> QED BY <2>4, <4>1
    <3>2. /\ d.pc = "send" /\ d.more = TRUE /\ d.data = m.data /\ d.wkc # 1
          /\ Keeps(c, d) /\ d.out \in Inquiries(c) /\ d.out \in AnyRequest
          /\ d.out.kind = "upsegreq"
      BY <3>1 DEF AsksOn
    <3>3. Len(d.data) = InData /\ Len(all) <= c.room /\ InData <= c.room
      BY <1>2, <1>7, <2>1, <2>2, <2>4, <3>2 DEF Least
    <3>4. /\ c.data = << >> /\ Pending(c, ts) = << >>
          /\ s.op = "up" => Position(s) = InData /\ Uploads(s, all)
      BY DEF Told
    <3>5. Pending(d, ts) = <<d.out>>
      <4>1. ts = << >>
        BY <3>4 DEF Pending
      <4>2. Append(<< >>, d.out) = <<d.out>>
        BY <3>2
      <4> QED BY <3>2, <4>1, <4>2 DEF Pending
    <3>6. Pending(d, ts) \in Seq({r \in AnyRequest : r.kind = "upsegreq"})
      <4> DEFINE S == {r \in AnyRequest : r.kind = "upsegreq"}
      <4>1. d.out \in S
        BY <3>2
      <4> HIDE DEF S
      <4>2. <<d.out>> \in Seq(S)
        BY <4>1
      <4> QED BY <3>5, <4>2 DEF S
    <3> DEFINE t == Tail(tm)
    <3> HIDE DEF t
    <3>7. NoParts(t) /\ t \in Seq(Parts(all))
      BY <1>1 DEF t
    <3>8. /\ InPlace(d.data, t) /\ Gapless(d.data, t, d.room)
      BY <3>7 DEF NoParts, InPlace, Gapless
    <3>9. ASSUME s.op = "up"
          PROVE  /\ Beyond(s, d.data, t)
                 /\ Reached(d.data, t, d.room, Len(t), Position(s))
      <4>1. Position(s) = InData /\ Len(d.data) = InData
        BY <3>3, <3>4, <3>9
      <4>2. Beyond(s, d.data, t)
        BY <1>2, <3>7, <4>1 DEF Beyond, NoParts
      <4>3. \A q \in InData .. InData - 1 : FALSE
        BY <1>2
      <4> QED BY <4>1, <4>2, <4>3 DEF Reached
    <3>20. Going(d, t, s, all, exact)
      BY <2>2, <3>2, <3>3, <3>8, <3>9 DEF Going, Keeps
    <3>21. Told(d, ts, t, s, all, exact)
      BY <3>2, <3>4, <3>6, <3>7, <3>20 DEF Told, Keeps
    <3> QED BY <3>2, <3>3, <3>21 DEF t
  <2> QED BY <1>5, <1>7, <2>3, <2>4
<1> QED BY <1>5, <1>6, <1>7

LEMMA PartsRest ==
  ASSUME NEW all, NEW tm \in Seq(Parts(all)), tm # << >>
  PROVE  /\ tm \in Seq(AnyMail) /\ Head(tm) \in Parts(all) /\ Head(tm) \in AnyMail
         /\ Tail(tm) \in Seq(Parts(all))
<1>1. tm \in Seq(AnyMail)
  BY DEF Parts
<1>2. Head(tm) \in Parts(all) /\ Tail(tm) \in Seq(Parts(all))
  BY HeadTailProperties
<1> QED BY <1>1, <1>2 DEF Parts

LEMMA SegmentHeard ==
  ASSUME NEW c, Active(c), c.pc = "receive", c.op = "SDOread", c.more, c.wkc # 1,
         NEW ts \in Seq(AnyRequest), Len(c.data) <= c.room,
         NEW tm, tm # << >>, NEW s, NEW all \in Data, NEW exact,
         Told(c, ts, tm, s, all, exact), NEW d, d = SegmentAnswer(c, Head(tm))
  PROVE  \/ d = Done(c, 0)
         \/ /\ d.pc = "return" /\ Len(d.data) <= c.room /\ Keeps(c, d)
            /\ exact => d.data = all
         \/ /\ d.pc = "send" /\ d.out \in Inquiries(c) /\ Keeps(c, d) /\ d.wkc # 1
            /\ Len(d.data) <= c.room /\ Told(d, ts, Tail(tm), s, all, exact)
<1> DEFINE m == Head(tm)
           e == c.data \o m.data
           g == [c EXCEPT !.data = e]
           S == {r \in AnyRequest : r.kind = "upsegreq"}
<1>1. /\ tm \in Seq(Parts(all)) /\ m \in Parts(all) /\ m \in AnyMail /\ c \in AnyCall
      /\ Tail(tm) \in Seq(Parts(all)) /\ Going(c, tm, s, all, exact)
      /\ Pending(c, ts) \in Seq(S) /\ ts = Pending(c, ts)
      /\ s.op = "up" => Uploads(s, all) /\ Position(s) \in Int
      /\ Len(all) <= c.room /\ c.num \in Int /\ c.room \in Nat
  <2>1. tm \in Seq(Parts(all)) /\ Going(c, tm, s, all, exact) /\ Pending(c, ts) \in Seq(S)
        /\ (s.op = "up" => Uploads(s, all))
    BY DEF Told
  <2>2. s.op = "up" => Position(s) \in Int
    BY <2>1, UploadsAt
  <2> QED BY <2>1, <2>2, PartsRest, ActiveCall DEF Going, Pending
<1>2. CASE ~(m.type = "CoE" /\ m.kind = "upseg")
  BY <1>2 DEF SegmentAnswer
<1>3. CASE m.type = "CoE" /\ m.kind = "upseg"
  <2>1. IsPart(m)
    BY <1>3 DEF IsPart
  <2>2. d = IF m.last THEN Done(g, 1) ELSE AskSegment(g, Flip(c.num))
    BY <1>3 DEF SegmentAnswer
  <2> DEFINE f == c.data \o First(Head(tm).data, c.room - Len(c.data))
  <2> HIDE DEF f
  <2>3. /\ f \in Data /\ Len(f) <= c.room
        /\ c.op = "SDOread" => f = c.data \o Head(tm).data
        /\ exact => Piece(all, 0, f) /\ Len(f) = Least(c.room, End(Head(tm)))
        /\ \A x : Keeps(c, x) /\ x.data = f => Going(x, Tail(tm), s, all, exact)
    <3>1. IsPart(Head(tm)) /\ Placed(s)
      BY <1>1, <2>1 DEF m, Placed
    <3>2. HasRead(c, tm, s, all, exact, f)
      <4>1. f = c.data \o First(Head(tm).data, c.room - Len(c.data))
        BY DEF f
      <4> HIDE DEF m
      <4> QED BY <1>1, <3>1, <4>1, PartRead
    <3> QED BY <3>2 DEF HasRead
  <2>4. f = e
    BY <2>3 DEF e, m
  <2>5. Active(g) /\ Keeps(c, g) /\ g.data = e /\ g.wkc = c.wkc /\ g \in AnyCall
        /\ g.op = "SDOread" /\ g.obj = c.obj
    <3>1. e \in Data
      BY <2>3, <2>4
    <3> HIDE DEF e
    <3>2. Active(g) /\ Keeps(c, g) /\ g.data = e /\ g.wkc = c.wkc
      BY <3>1, ReadingData
    <3> QED BY <3>2, ActiveCall DEF Keeps
  <2> HIDE DEF m, e, g
  <2>6. CASE m.last /\ d = Done(g, 1)
    <3>1. d.pc = "return" /\ d.data = e /\ Keeps(g, d)
      BY <2>5, <2>6, DoneData
    <3>2. Keeps(c, d)
      BY <2>5, <3>1 DEF Keeps
    <3>3. exact => e = all
      <4>1. LastPart(m)
        BY <1>3, <2>6 DEF LastPart
      <4>2. exact => Piece(all, 0, e) /\ Len(e) = Least(c.room, End(m))
        BY <2>3, <2>4 DEF m
      <4> QED BY <1>1, <2>1, <4>1, <4>2, PartEnds
    <3> QED BY <2>3, <2>4, <3>1, <3>2, <3>3
  <2>7. CASE d = AskSegment(g, Flip(c.num))
    <3>1. AsksOn(c, f, d)
      <4>1. Flip(c.num) \in Int
        BY <1>1 DEF Flip
      <4>2. AsksOn(c, e, AskSegment(g, Flip(c.num)))
        BY <2>3, <2>4, <4>1, AskedOn DEF g
      <4> QED BY <2>4, <2>7, <4>2
    <3>2. /\ d.pc = "send" /\ d.more = TRUE /\ d.data = f /\ d.wkc # 1
          /\ Keeps(c, d) /\ d.out \in Inquiries(c) /\ d.out \in AnyRequest
          /\ d.out.kind = "upsegreq"
      BY <3>1 DEF AsksOn
    <3>3. Keeps(c, d) /\ d.data = f
      BY <3>2
    <3>4. Going(d, Tail(tm), s, all, exact)
      BY <2>3, <3>3
    <3>5. d.out \in S /\ Append(ts, d.out) \in Seq(S)
      <4>1. d.out \in S /\ ts \in Seq(S)
        BY <1>1, <3>2
      <4> HIDE DEF S
      <4> QED BY <4>1, AppendProperties
    <3>6. Pending(d, ts) \in Seq(S)
      BY <3>2, <3>5 DEF Pending
    <3>7. Told(d, ts, Tail(tm), s, all, exact)
      BY <1>1, <3>2, <3>4, <3>6 DEF Told
    <3> QED BY <2>3, <3>2, <3>3, <3>7
  <2> QED BY <2>2, <2>6, <2>7
<1> QED BY <1>2, <1>3

LEMMA ListHeard ==
  ASSUME NEW c, Active(c), c.pc = "receive", c.op = "readODlist", c.wkc # 1,
         NEW ts \in Seq(AnyRequest), Len(c.data) <= c.room,
         NEW tm, tm # << >>, NEW s, NEW all \in Data, NEW exact,
         Told(c, ts, tm, s, all, exact), NEW d, d = readODlistAnswer(c, Head(tm))
  PROVE  \/ d = Done(c, 0)
         \/ /\ d.pc = "return" /\ Len(d.data) <= c.room /\ Keeps(c, d)
            /\ exact => d.data = First(all, c.room)
         \/ /\ d.pc = "receive" /\ Keeps(c, d) /\ d.wkc # 1
            /\ Len(d.data) <= c.room /\ Told(d, ts, Tail(tm), s, all, exact)
<1> DEFINE m == Head(tm)
           e == c.data \o First(m.data, c.room - Len(c.data))
           g == [c EXCEPT !.data = e]
<1>1. /\ tm \in Seq(Parts(all)) /\ m \in Parts(all) /\ m \in AnyMail /\ c \in AnyCall
      /\ Tail(tm) \in Seq(Parts(all))
      /\ c.room \in Nat
  BY PartsRest, ActiveCall DEF Told
<1>2. CASE ~(m.type = "CoE" /\ m.kind = "odlist")
  BY <1>2 DEF readODlistAnswer
<1>3. CASE m.type = "CoE" /\ m.kind = "odlist"
  <2>1. IsPart(m)
    BY <1>3 DEF IsPart
  <2>2. d = IF m.n > 0 THEN Await(g) ELSE Done(g, 1)
    BY <1>3 DEF readODlistAnswer
  <2> HIDE DEF e
  <2>3. Going(c, tm, Resting, all, exact)
    BY DEF Told, Going, Resting
  <2>4. /\ e \in Data /\ Len(e) <= c.room
        /\ exact => Piece(all, 0, e) /\ Len(e) = Least(c.room, End(Head(tm)))
        /\ \A x : Keeps(c, x) /\ x.data = e => Going(x, Tail(tm), Resting, all, exact)
    <3>1. IsPart(Head(tm)) /\ e = c.data \o First(Head(tm).data, c.room - Len(c.data))
      BY <2>1 DEF e, m
    <3>2. HasRead(c, tm, Resting, all, exact, e)
      <4>1. Placed(Resting)
        BY DEF Resting, Placed
      <4> HIDE DEF m
      <4>2. PICK z : z = Resting
        OBVIOUS
      <4>3. HasRead(c, tm, z, all, exact, e)
        BY <1>1, <2>3, <3>1, <4>1, <4>2, PartRead
      <4> QED BY <4>2, <4>3
    <3> QED BY <3>2 DEF HasRead
  <2>5. Active(g) /\ Keeps(c, g) /\ g.data = e /\ g.wkc = c.wkc /\ g \in AnyCall
        /\ g.op = "readODlist"
    <3>1. Active(g) /\ Keeps(c, g) /\ g.data = e /\ g.wkc = c.wkc
      BY <2>4, ReadingData
    <3> QED BY <3>1, ActiveCall DEF Keeps
  <2> HIDE DEF m, g
  <2>6. CASE ~(m.n > 0) /\ d = Done(g, 1)
    <3>1. d.pc = "return" /\ d.data = e /\ Keeps(g, d)
      BY <2>5, <2>6, DoneData
    <3>2. Keeps(c, d)
      BY <2>5, <3>1 DEF Keeps
    <3>3. exact => e = First(all, c.room)
      <4>1. LastPart(m)
        <5>1. m.n \in Int
          BY <1>1, MailFields
        <5> QED BY <1>3, <2>6, <5>1 DEF LastPart
      <4>2. exact => Piece(all, 0, e) /\ Len(e) = Least(c.room, End(m))
        BY <2>4 DEF m
      <4> QED BY <1>1, <2>1, <4>1, <4>2, PartEnds
    <3> QED BY <2>4, <3>1, <3>2, <3>3
  <2>7. CASE d = Await(g)
    <3>1. d.pc = "receive" /\ d.data = e /\ d.wkc = g.wkc /\ Keeps(g, d)
      BY <2>5, <2>7, AwaitData
    <3>2. Keeps(c, d) /\ d.op = "readODlist"
      BY <2>5, <3>1 DEF Keeps
    <3>3. Going(d, Tail(tm), Resting, all, exact)
      BY <2>4, <3>1, <3>2
    <3>4. Going(d, Tail(tm), s, all, exact)
      BY <3>2, <3>3 DEF Going
    <3>5. Pending(d, ts) = Pending(c, ts)
      BY <3>1 DEF Pending
    <3>6. Told(d, ts, Tail(tm), s, all, exact)
      BY <1>1, <3>2, <3>4, <3>5 DEF Told
    <3> QED BY <2>4, <2>5, <3>1, <3>2, <3>6
  <2> QED BY <2>2, <2>6, <2>7
<1> QED BY <1>2, <1>3

LEMMA ReadingHearing ==
  ASSUME Base, Hearing, NEW exact, NEW exact2, exact2 => exact /\ "dry" \notin faults',
         call.op \in Several, Reading(call, toslave, tomaster, srv, store, exact)
  PROVE  Reading(call', toslave', tomaster', srv', store', exact2)
<1> DEFINE h == Head(tomaster)
           tm == Tail(tomaster)
           all == store[call.obj]
           a == Answer(call, h)
<1>1. /\ Active(call) /\ call \in AnyCall /\ call.pc = "receive" /\ h \in AnyMail
      /\ Keeps(call, call') /\ StepOf(call, a) /\ tomaster # << >> /\ tomaster' = tm
      /\ UNCHANGED <<toslave, srv, store>> /\ call.obj \in Objects /\ store \in AnyStore
      /\ toslave \in Seq(AnyRequest) /\ toslave \in Seq(Inquiries(call))
      /\ call.wkc # 1 /\ Len(call.data) <= call.room
  BY HearingKeeps, ActiveCall DEF Hearing, Base, UnderWay, SlaveState, Reading
<1>2. all \in Data /\ a \in AnyCall
  BY <1>1, ObjectTypes DEF StepOf
<1>3. /\ a = IF call.op = "readODlist" THEN readODlistAnswer(call, h)
             ELSE IF call.more THEN SegmentAnswer(call, h) ELSE UploadAnswer(call, h)
      /\ call.op \in {"readODlist", "SDOread"}
  BY DEF Answer, SDOreadAnswer, Several
<1>4. \/ call' = a
      \/ a.pc = "send" /\ "dry" \in faults' /\ call' = Done([a EXCEPT !.more = FALSE], 1)
  BY DEF Hearing, Segmented
<1>5. Unheard(call, toslave, tomaster) \/ Told(call, toslave, tomaster, srv, all, exact)
  BY <1>1 DEF Reading
<1> DEFINE whole == IF call.op = "readODlist" THEN First(all, call.room) ELSE all
<1> HIDE DEF h, all, a, tm, whole
<1>6. \/ a = Done(call, 0)
      \/ /\ a.pc = "return" /\ Len(a.data) <= call.room /\ Keeps(call, a)
         /\ exact => a.data = whole
      \/ /\ a.pc \in {"send", "receive"} /\ Keeps(call, a) /\ a.wkc # 1
         /\ a.pc = "send" => a.out \in Inquiries(call)
         /\ Len(a.data) <= call.room /\ Told(a, toslave, tm, srv, all, exact)
  <2>1. CASE Unheard(call, toslave, tomaster)
    <3>1. ~call.more /\ h \in Frags
      BY <1>1, <2>1, HeadTailProperties DEF Unheard, h
    <3>2. h.type = "EoE"
      BY <3>1 DEF Frags, IsFragment
    <3> QED BY <1>3, <3>1, <3>2 DEF readODlistAnswer, UploadAnswer, IsSdoResponse
  <2>2. CASE Told(call, toslave, tomaster, srv, all, exact) /\ call.op = "readODlist"
    <3>1. a = readODlistAnswer(call, Head(tomaster))
      BY <1>3, <2>2 DEF h
    <3>2. \/ a = Done(call, 0)
          \/ /\ a.pc = "return" /\ Len(a.data) <= call.room /\ Keeps(call, a)
             /\ exact => a.data = First(all, call.room)
          \/ /\ a.pc = "receive" /\ Keeps(call, a) /\ a.wkc # 1
             /\ Len(a.data) <= call.room
             /\ Told(a, toslave, Tail(tomaster), srv, all, exact)
      BY <1>1, <1>2, <2>2, <3>1, ListHeard
    <3> QED BY <2>2, <3>2 DEF whole, tm
  <2>3. CASE /\ Told(call, toslave, tomaster, srv, all, exact) /\ call.op = "SDOread"
             /\ call.more
    <3>1. a = SegmentAnswer(call, Head(tomaster))
      BY <1>3, <2>3 DEF h
    <3>2. \/ a = Done(call, 0)
          \/ /\ a.pc = "return" /\ Len(a.data) <= call.room /\ Keeps(call, a)
             /\ exact => a.data = all
          \/ /\ a.pc = "send" /\ a.out \in Inquiries(call) /\ Keeps(call, a) /\ a.wkc # 1
             /\ Len(a.data) <= call.room
             /\ Told(a, toslave, Tail(tomaster), srv, all, exact)
      BY <1>1, <1>2, <2>3, <3>1, SegmentHeard
    <3> QED BY <2>3, <3>2 DEF whole, tm
  <2>4. CASE /\ Told(call, toslave, tomaster, srv, all, exact) /\ call.op = "SDOread"
             /\ ~call.more
    <3>1. a = UploadAnswer(call, Head(tomaster))
      BY <1>3, <2>4 DEF h
    <3>2. \/ a = Done(call, 0)
          \/ a.pc = "return" /\ a.data = all /\ Len(a.data) <= call.room /\ Keeps(call, a)
          \/ /\ a.pc = "send" /\ a.out \in Inquiries(call) /\ Keeps(call, a) /\ a.wkc # 1
             /\ Len(a.data) <= call.room
             /\ Told(a, toslave, Tail(tomaster), srv, all, exact)
      BY <1>1, <1>2, <2>4, <3>1, UploadHeard
    <3> QED BY <2>4, <3>2 DEF whole, tm
  <2> QED BY <1>3, <1>5, <2>1, <2>2, <2>3, <2>4
<1>7. /\ Inquiries(call') = Inquiries(call) /\ Whole(call', store) = whole
      /\ call'.room = call.room /\ call'.obj = call.obj
  <2>1. Inquiries(call') = Inquiries(call) /\ Whole(call', store) = Whole(call, store)
    BY <1>1, ReadingKeeps
  <2> QED BY <1>1, <2>1 DEF Whole, whole, all, Keeps
<1>8. SUFFICES Reading(call', toslave, tm, srv, store, exact2)
  BY <1>1
<1>9. CASE call' = Done(call, 0)
  <2>1. call'.pc = "return" /\ call'.wkc = 0 /\ call'.data = call.data
    BY <1>1, <1>9, DoneData
  <2> QED BY <1>1, <1>7, <2>1 DEF Reading
<1>10. CASE /\ call' = a /\ a.pc = "return" /\ Len(a.data) <= call.room /\ Keeps(call, a)
            /\ exact => a.data = whole
  BY <1>1, <1>7, <1>10 DEF Reading
<1>11. CASE /\ call' = a /\ a.pc \in {"send", "receive"} /\ Keeps(call, a) /\ a.wkc # 1
            /\ a.pc = "send" => a.out \in Inquiries(call)
            /\ Len(a.data) <= call.room /\ Told(a, toslave, tm, srv, all, exact)
  <2>1. Told(a, toslave, tm, srv, all, exact2)
    BY <1>11 DEF Told, Going
  <2> QED BY <1>1, <1>7, <1>11, <2>1 DEF Reading, all
<1>12. CASE /\ a.pc = "send" /\ "dry" \in faults'
            /\ call' = Done([a EXCEPT !.more = FALSE], 1)
  <2>1. a # Done(call, 0)
    BY <1>1, <1>12, DoneData
  <2>2. Len(a.data) <= call.room
    BY <1>6, <1>12, <2>1
  <2>3. call'.pc = "return" /\ call'.data = a.data
    <3> DEFINE b == [a EXCEPT !.more = FALSE]
    <3>1. b \in AnyCall /\ b.data = a.data
      BY <1>2 DEF AnyCall
    <3> HIDE DEF b
    <3>2. Done(b, 1).pc = "return" /\ Done(b, 1).data = b.data
      BY <3>1, DoneData
    <3> QED BY <1>12, <3>1, <3>2 DEF b
  <2> QED BY <1>1, <1>7, <1>12, <2>2, <2>3 DEF Reading
<1> QED BY <1>4, <1>6, <1>9, <1>10, <1>11, <1>12

LEMMA ReadingOpening ==
  ASSUME Opening, call'.op \in Several, NEW exact
  PROVE  Reading(call', toslave', tomaster', srv', store', exact)
<1>1. PICK c : /\ Starting(c) /\ Keeps(c, call')
               /\ \/ call'.pc = "drain" /\ Same(c, call') /\ call'.wkc = 0
                  \/ call' = Begin(c) /\ StepOf(c, Begin(c))
  BY OpeningCall
<1>2. c.op = call'.op /\ Active(c) /\ c \in AnyCall /\ c.obj \in Objects /\ c.wkc = 0
      /\ call'.obj = c.obj /\ c.data = << >> /\ c.more = FALSE /\ c.room \in Nat
      /\ call'.room = c.room /\ Inquiries(call') = Inquiries(c)
  BY <1>1, ActiveCall, ReadingKeeps DEF Keeps, Starting
<1>3. toslave' = << >> /\ tomaster' = << >> /\ Len(c.data) = 0
  BY <1>2, EmptyData DEF Opening
<1>4. CASE call'.pc = "drain" /\ Same(c, call') /\ call'.wkc = 0
  BY <1>2, <1>3, <1>4, EmptySeqs DEF Reading, Same
<1>5. CASE call' = Begin(c)
  <2> DEFINE kind == IF c.op = "SDOread" THEN "upreq" ELSE "odlistreq"
             m == Mail("CoE", kind, c.obj)
  <2>1. call' = Ask(c, m)
    BY <1>2, <1>5 DEF Begin, SDOread, readODlist, Several
  <2>2. m \in AnyRequest /\ PlainMail(m, "CoE", kind, c.obj)
    BY <1>2, CoeRequest, OneMail DEF CoeRequests, Kinds
  <2> HIDE DEF m
  <2>3. m \in Inquiries(c) /\ m \in Openers
    BY <1>2, <2>2 DEF Inquiries, Openers, PlainMail
  <2>4. call'.out = m /\ call'.wkc = 0 /\ call'.pc = "send" /\ Same(c, call')
    BY <1>2, <2>1, Leaves
  <2>5. Pending(call', toslave') = <<m>> /\ <<m>> \in Seq(Openers) /\ Len(<<m>>) = 1
    BY <1>3, <2>3, <2>4 DEF Pending
  <2>6. Unheard(call', toslave', tomaster')
    BY <1>2, <1>3, <2>4, <2>5, EmptySeqs DEF Unheard, Same
  <2> QED BY <1>2, <1>3, <2>3, <2>4, <2>6, EmptySeqs DEF Reading, Same
<1> QED BY <1>1, <1>4, <1>5

LEMMA ReadingTurn ==
  ASSUME Base, Turn, "repeated" \notin faults', call.op \in Several,
         NEW exact, NEW exact2, exact2 => exact /\ faults' \cap {"lost", "dry"} = {},
         Reading(call, toslave, tomaster, srv, store, exact)
  PROVE  Reading(call', toslave', tomaster', srv', store', exact2)
<1>1. /\ exact2 => exact
      /\ exact2 => "lost" \notin faults'
      /\ exact2 => exact /\ "dry" \notin faults'
  OBVIOUS
<1>2. CASE Wire
  BY <1>1, <1>2, ReadingWire
<1>3. CASE Ending
  BY <1>1, <1>3, ReadingEnding
<1>4. CASE Sending \/ NotSending
  BY <1>1, <1>4, ReadingSending
<1>5. CASE Hearing
  BY <1>1, <1>5, ReadingHearing
<1>6. CASE NotHearing
  BY <1>1, <1>6, ReadingNotHearing
<1>7. CASE Polling
  BY <1>7, PollingKeeps DEF Several
<1>8. CASE Mixing
  BY <1>1, <1>8, ReadingMixing
<1>9. CASE Serving
  BY <1>1, <1>9, ReadingServing
<1> QED BY <1>2, <1>3, <1>4, <1>5, <1>6, <1>7, <1>8, <1>9 DEF Turn

LEMMA ReadingNext == Base /\ Born /\ ReadingInv /\ [Next]_vars => ReadingInv'
<1> SUFFICES ASSUME Base, Born, ReadingInv, [Next]_vars, quiet', call'.op \in Several,
                    "repeated" \notin faults'
             PROVE  Reading(call', toslave', tomaster', srv', store',
                            faults' \cap {"lost", "dry"} = {})
  BY DEF ReadingInv
<1>1. Opening \/ (quiet /\ faults \subseteq faults' /\ Turn)
  BY QuietTurns
<1>2. CASE Opening
  BY <1>2, ReadingOpening
<1>3. CASE quiet /\ faults \subseteq faults' /\ Turn
  <2>1. call.op \in Several
    BY <1>3, TurnKeeps DEF Keeps
  <2>2. Reading(call, toslave, tomaster, srv, store, faults \cap {"lost", "dry"} = {})
    BY <1>3, <2>1 DEF ReadingInv
  <2> DEFINE exact == faults \cap {"lost", "dry"} = {}
             exact2 == faults' \cap {"lost", "dry"} = {}
  <2>3. exact2 => exact /\ faults' \cap {"lost", "dry"} = {}
    BY <1>3
  <2> HIDE DEF exact, exact2
  <2>4. Reading(call, toslave, tomaster, srv, store, exact)
    BY <2>2 DEF exact
  <2>5. Reading(call', toslave', tomaster', srv', store', exact2)
    BY <1>3, <2>1, <2>3, <2>4, ReadingTurn
  <2> QED BY <2>5 DEF exact2
<1> QED BY <1>1, <1>2, <1>3

LEMMA ReadingKept == Spec => []ReadingInv
<1>1. Init => ReadingInv
  BY DEF Init, NoCall, ReadingInv, Several
<1> QED BY <1>1, ReadingNext, BaseBorn, PTL DEF Spec

(* What a successful read returns is what the slave has: in one mail       *)
(* whatever faults there are, in several if no mail is lost or comes twice *)
(* and the pool has a buffer for every request.                            *)
THEOREM ReadsExact == Spec => []SdoReadExact
<1>1. Base /\ ExactAnswer /\ ReadingInv => SdoReadExact
  <2> SUFFICES ASSUME Base, ExactAnswer, ReadingInv, Success, call.op \in InSeveral,
                      Without({"lost", "repeated", "dry"})
               PROVE  call.data = Readable
    BY DEF SdoReadExact, ExactAnswer
  <2>1. /\ quiet /\ call.op \in Several /\ "repeated" \notin faults
        /\ faults \cap {"lost", "dry"} = {} /\ call.wkc = 1
    BY DEF Without, InSeveral, Several, Success, Base, Control, AnyCall
  <2>2. call.data = Whole(call, store)
    BY <2>1 DEF ReadingInv, Reading
  <2> QED BY <2>1, <2>2 DEF Whole, Readable, Several
<1> QED BY <1>1, AnswersExact, ReadingKept, BaseBorn, PTL

(* No service reads past the caller's buffer: NeverPastRoom.               *)
THEOREM StaysInRoom == Spec => []NeverPastRoom
<1>1. Base /\ ReadingInv => NeverPastRoom
  <2> SUFFICES ASSUME Base, ReadingInv, call.op \notin Writers \cup {"EOEgetIp"},
                      call.op = "SDOread" => Without({"repeated"})
               PROVE  Len(call.data) <= call.room
    BY DEF NeverPastRoom
  <2>1. CASE call.op = "SDOread"
    <3>1. quiet /\ "repeated" \notin faults /\ call.op \in Several
      BY <2>1 DEF Without, Several
    <3> QED BY <3>1 DEF ReadingInv, Reading
  <2>2. CASE call.op # "SDOread"
    BY <2>2 DEF Base, Control, AnyCall, Fits, Bounded, Services, Writers, CoE, DropAndKeep
  <2> QED BY <2>1, <2>2
<1> QED BY <1>1, ReadingKept, BaseBorn, PTL

-----------------------------------------------------------------------------
(* ecx_EOEsetIp: the slave says that it has the data after it has put it   *)
(* in its place, and every request has the same data.                      *)

LEMMA SettingsKept ==
  ASSUME NEW c, NEW d, Keeps(c, d)
  PROVE  Settings(d) = Settings(c)
BY DEF Keeps, Settings

LEMMA SettingOpening ==
  ASSUME Opening
  PROVE  Setting(call', toslave', tomaster', store')
<1> SUFFICES ASSUME call'.op = "EOEsetIp" PROVE Setting(call', toslave', tomaster', store')
  BY DEF Setting
<1>1. PICK c : /\ Starting(c) /\ Keeps(c, call')
               /\ \/ call'.pc = "drain" /\ Same(c, call') /\ call'.wkc = 0
                  \/ call' = Begin(c) /\ StepOf(c, Begin(c))
  BY OpeningCall
<1>2. /\ c.op = "EOEsetIp" /\ c \in AnyCall /\ c.obj \in Objects /\ c.wkc = 0
      /\ call'.obj = c.obj /\ c.rest = c.all /\ c.all \in Data
  BY <1>1, ActiveCall DEF Keeps, Starting, AnyCall
<1>3. toslave' \in Seq(Settings(call')) /\ tomaster' \in Seq(Frags)
  BY EmptySeqs DEF Opening
<1>4. CASE call'.pc = "drain" /\ call'.wkc = 0
  BY <1>2, <1>3, <1>4 DEF Setting
<1>5. CASE call' = Begin(c)
  <2> DEFINE r == Mail("EoE", "initreq", c.obj)
             m == [r EXCEPT !.data = c.rest]
  <2>1. call' = Ask(c, m)
    BY <1>2, <1>5 DEF Begin, EOEsetIp
  <2>2. r \in AnyRequest /\ PlainMail(r, "EoE", "initreq", c.obj)
    BY <1>2, OtherRequest, OneMail DEF Kinds
  <2>3. m \in AnyMail /\ m.type = "EoE" /\ m.kind = "initreq" /\ m.of = c.obj
        /\ m.data = c.all
    <3> HIDE DEF r
    <3> QED BY <1>2, <2>2 DEF AnyRequest, AnyMail, PlainMail
  <2> HIDE DEF m
  <2>4. m \in Settings(c)
    BY <1>2, <2>3 DEF Settings, AnyRequest
  <2>5. call'.out = m /\ call'.wkc = 0
    BY <1>2, <2>1, Leaves
  <2>6. Settings(call') = Settings(c)
    BY <1>1, SettingsKept
  <2> QED BY <1>2, <1>3, <2>4, <2>5, <2>6 DEF Setting
<1> QED BY <1>1, <1>4, <1>5

LEMMA SettingServed ==
  ASSUME NEW c, NEW m \in Settings(c), c.obj \in Objects, NEW s, NEW st \in AnyStore
  PROVE  SlaveDoes(s, st, m).store[c.obj] = c.all
<1>1. m.type = "EoE" /\ m.kind = "initreq" /\ m.of = c.obj /\ m.data = c.all
  BY DEF Settings
<1>2. SlaveDoes(s, st, m).store = [st EXCEPT ![c.obj] = c.all]
  BY <1>1 DEF SlaveDoes, EoeServe, Served
<1> QED BY <1>2 DEF AnyStore

LEMMA SettingTurn ==
  ASSUME Base, Turn, Setting(call, toslave, tomaster, store)
  PROVE  Setting(call', toslave', tomaster', store')
<1>1. Keeps(call, call') /\ call \in AnyCall
  BY TurnKeeps DEF Base, Control
<1> SUFFICES ASSUME call.op = "EOEsetIp" PROVE Setting(call', toslave', tomaster', store')
  BY <1>1 DEF Setting, Keeps
<1>2. /\ call'.op = "EOEsetIp" /\ call'.obj = call.obj /\ call'.all = call.all
      /\ Settings(call') = Settings(call)
  BY <1>1, SettingsKept DEF Keeps
<1>3. /\ call.obj \in Objects /\ toslave \in Seq(Settings(call))
      /\ call.pc = "send" => call.out \in Settings(call)
      /\ call.wkc = 1 \/ tomaster \notin Seq(Frags) => store[call.obj] = call.all
  BY DEF Setting
<1>a. ASSUME store' = store, toslave' \in Seq(Settings(call)),
             call'.pc = "send" => call'.out \in Settings(call),
             call'.wkc = 1 \/ tomaster' \notin Seq(Frags)
               => call.wkc = 1 \/ tomaster \notin Seq(Frags)
      PROVE  Setting(call', toslave', tomaster', store')
  BY <1>2, <1>3, <1>a DEF Setting
<1>4. CASE Wire
  <2>1. tomaster \in Seq(Frags) => tomaster' \in Seq(Frags)
    BY <1>4, WireSeq
  <2> QED BY <1>3, <1>4, <1>a, <2>1 DEF Wire
<1>5. CASE Ending
  <2>1. call'.pc = "idle" /\ call'.wkc = call.wkc /\ toslave' = toslave /\ store' = store
    BY <1>5, EndingKeeps
  <2>2. tomaster \in Seq(Frags) => tomaster' \in Seq(Frags)
    BY <1>5, EndingSeq
  <2> QED BY <1>3, <1>a, <2>1, <2>2
<1>6. CASE Sending \/ NotSending
  <2>1. /\ call.pc = "send" /\ UNCHANGED <<tomaster, srv, store>>
        /\ toslave' = toslave \/ toslave' = Append(toslave, call.out)
    BY <1>6, SendingKeeps
  <2>2. call' = Await(call) \/ call' = Done(call, 0)
    BY <1>6 DEF Sending, NotSending, Sent, Fails
  <2>3. call'.pc # "send" /\ call'.wkc \in {call.wkc, 0}
    BY <1>1, <2>2, Leaves
  <2>4. toslave' \in Seq(Settings(call))
    BY <1>3, <2>1, AppendProperties
  <2> QED BY <1>a, <2>1, <2>3, <2>4
<1>7. CASE Hearing
  <2>1. /\ Active(call) /\ Head(tomaster) \in AnyMail
        /\ StepOf(call, Answer(call, Head(tomaster)))
    BY <1>7, HearingKeeps
  <2> DEFINE m == Head(tomaster)
  <2>2. Answer(call, m) = Done(call, IF m.type = "EoE" /\ m.kind = "initresp" THEN 1 ELSE 0)
    BY DEF Answer, EOEsetIpAnswer
  <2>3. call' = Done(call, IF m.type = "EoE" /\ m.kind = "initresp" THEN 1 ELSE 0)
    <3>1. Answer(call, m).op = "EOEsetIp"
      BY <2>1 DEF StepOf, Keeps
    <3> QED BY <1>7, <2>2, <3>1 DEF Hearing, Segmented
  <2>4. call'.pc = "return" /\ (call'.wkc = 1 => m.kind = "initresp")
    BY <1>1, <2>3, Leaves
  <2>5. tomaster # << >> /\ tomaster' = Tail(tomaster) /\ UNCHANGED <<toslave, srv, store>>
    BY <1>7 DEF Hearing
  <2>6. tomaster \in Seq(Frags) => m.kind # "initresp" /\ tomaster' \in Seq(Frags)
    BY <2>5, HeadTailProperties DEF Frags, IsFragment
  <2> QED BY <1>3, <1>a, <2>4, <2>5, <2>6
<1>8. CASE NotHearing
  <2>1. call' = Fails(call) /\ UNCHANGED <<mailvars, srv, store>>
    BY <1>8, NotHearingKeeps
  <2>2. call' = Done(call, 0)
    BY <2>1 DEF Fails
  <2>3. call'.pc = "return" /\ call'.wkc = 0
    BY <1>1, <2>2, Leaves
  <2> QED BY <1>3, <1>a, <2>1, <2>3 DEF mailvars
<1>9. CASE Polling
  BY <1>9, PollingKeeps
<1>10. CASE Mixing
  <2>1. /\ Same(call, call') /\ call'.wkc = call.wkc /\ call'.pc = "receive"
        /\ UNCHANGED <<mailvars, srv, store>>
    BY <1>10, MixingKeeps
  <2> QED BY <1>3, <1>a, <2>1 DEF mailvars
<1>11. CASE Serving
  <2>1. /\ Head(toslave) \in Settings(call) /\ Tail(toslave) \in Seq(Settings(call))
        /\ call' = call /\ store \in AnyStore
    BY <1>3, <1>11, HeadTailProperties DEF Serving, Base, SlaveState
  <2>2. Deliver(SlaveDoes(srv, store, Head(toslave)))
    BY <1>11, <2>1 DEF Serving, Settings
  <2>3. store'[call.obj] = call.all /\ toslave' \in Seq(Settings(call))
    BY <1>3, <2>1, <2>2, SettingServed DEF Deliver
  <2> QED BY <1>2, <1>3, <2>1, <2>3 DEF Setting
<1> QED BY <1>4, <1>5, <1>6, <1>7, <1>8, <1>9, <1>10, <1>11 DEF Turn

LEMMA SettingKept == Spec => []SettingInv
<1>1. Init => SettingInv
  BY DEF Init, NoCall, SettingInv, Setting
<1>2. Base /\ Born /\ SettingInv /\ [Next]_vars => SettingInv'
  BY QuietTurns, SettingOpening, SettingTurn DEF SettingInv
<1> QED BY <1>1, <1>2, BaseBorn, PTL DEF Spec

-----------------------------------------------------------------------------
(* Requests that carry data: where one begins and where it ends, and the   *)
(* number that goes with it: a toggle bit or the number of a fragment, -1  *)
(* before a download has begun, 1 after the last of an IDN, 2 after that   *)
(* of a download.  A chain of them leaves no gap.                          *)

LEMMA ChainNone == \A a : Chained(<< >>, a, a)
BY DEF Chained

LEMMA ChainAsked ==
  ASSUME NEW S, NEW q \in Seq(S), NEW a, NEW z, Chained(q, a, z), NEW m \in S, From(m) = z
  PROVE  Chained(Append(q, m), a, Upto(m))
<1> DEFINE r == Append(q, m)
<1>1. /\ Len(q) \in Nat /\ Len(r) = Len(q) + 1 /\ r[Len(q) + 1] = m
      /\ \A i \in 1 .. Len(q) : r[i] = q[i]
      /\ (q = << >> <=> Len(q) = 0)
  BY AppendProperties, LenProperties, EmptySeq
<1> HIDE DEF r
<1>2. r # << >>
  BY <1>1, EmptySeq
<1>3. CASE q = << >>
  BY <1>1, <1>2, <1>3 DEF Chained, r
<1>4. CASE q # << >>
  <2>1. /\ \A i \in 1 .. Len(q) - 1 : Upto(q[i]) = From(q[i + 1])
        /\ From(q[1]) = a /\ Upto(q[Len(q)]) = z
    BY <1>4 DEF Chained
  <2>2. r[1] = q[1] /\ r[Len(q)] = q[Len(q)] /\ Len(q) >= 1
    BY <1>1, <1>4
  <2>3. ASSUME NEW i \in 1 .. Len(r) - 1 PROVE Upto(r[i]) = From(r[i + 1])
    <3>1. CASE i = Len(q)
      <4>1. r[i] = q[Len(q)] /\ r[i + 1] = m
        BY <1>1, <2>2, <3>1
      <4> DEFINE x == q[Len(q)]
      <4>2. Upto(x) = z
        BY <2>1
      <4>3. r[i] = x
        BY <4>1
      <4> HIDE DEF x
      <4> QED BY <4>1, <4>2, <4>3
    <3>2. CASE i # Len(q)
      <4>1. i \in 1 .. Len(q) - 1 /\ i + 1 \in 1 .. Len(q) /\ i \in 1 .. Len(q)
        BY <1>1, <3>2
      <4>2. r[i] = q[i] /\ r[i + 1] = q[i + 1] /\ Upto(q[i]) = From(q[i + 1])
        BY <1>1, <2>1, <4>1
      <4> QED BY <4>2
    <3> QED BY <3>1, <3>2
  <2> QED BY <1>1, <1>2, <2>1, <2>2, <2>3 DEF Chained, r
<1> QED BY <1>3, <1>4

LEMMA ChainServed ==
  ASSUME NEW S, NEW q \in Seq(S), q # << >>, NEW a, NEW z, Chained(q, a, z)
  PROVE  /\ From(Head(q)) = a /\ Chained(Tail(q), Upto(Head(q)), z)
         /\ Tail(q) = << >> => Upto(Head(q)) = z
         /\ Tail(q) # << >> => From(Head(Tail(q))) = Upto(Head(q))
<1> DEFINE r == Tail(q)
<1>1. /\ Len(q) \in Nat /\ Len(q) >= 1 /\ r \in Seq(S) /\ Len(r) = Len(q) - 1
      /\ \A i \in 1 .. Len(r) : r[i] = q[i + 1]
      /\ Head(q) = q[1]
  BY HeadTailProperties, LenProperties, EmptySeq
<1> HIDE DEF r
<1>2. (r = << >> <=> Len(r) = 0) /\ (r # << >> => Head(r) = r[1])
  BY <1>1, EmptySeq
<1>3. /\ \A i \in 1 .. Len(q) - 1 : Upto(q[i]) = From(q[i + 1])
      /\ From(q[1]) = a /\ Upto(q[Len(q)]) = z
  BY DEF Chained
<1>4. CASE r = << >>
  <2>1. Len(q) = 1
    BY <1>1, <1>2, <1>4
  <2> QED BY <1>1, <1>3, <1>4, <2>1, ChainNone DEF r
<1>5. CASE r # << >>
  <2>1. r[1] = q[2] /\ r[Len(r)] = q[Len(q)] /\ Len(q) >= 2
    BY <1>1, <1>2, <1>5
  <2>2. ASSUME NEW i \in 1 .. Len(r) - 1 PROVE Upto(r[i]) = From(r[i + 1])
    <3>1. i + 1 \in 1 .. Len(q) - 1 /\ i \in 1 .. Len(r) /\ i + 1 \in 1 .. Len(r)
      BY <1>1
    <3> QED BY <1>1, <1>3, <3>1
  <2>3. Upto(q[1]) = From(q[2])
    BY <1>3, <2>1
  <2> QED BY <1>1, <1>2, <1>3, <1>5, <2>1, <2>2, <2>3 DEF Chained, r
<1> QED BY <1>4, <1>5

LEMMA LeftAll ==
  ASSUME NEW c, Active(c), c.rest = c.all
  PROVE  Left(c) /\ Place(c) = 0
<1>1. c.all \in Data /\ Len(c.all) \in Nat
  BY ActiveCall
<1> QED BY <1>1 DEF Left, Place, Piece

(* A part is cut off what is left.                                         *)
LEMMA LeftCut ==
  ASSUME NEW all \in Data, NEW rest, NEW a \in Nat, a = Len(all) - Len(rest),
         Piece(all, a, rest), NEW k \in Nat
  PROVE  /\ Piece(all, a, First(rest, k)) /\ Len(First(rest, k)) = Least(k, Len(rest))
         /\ After(rest, k) \in Data
         /\ Len(all) - Len(After(rest, k)) = a + Len(First(rest, k))
         /\ Piece(all, Len(all) - Len(After(rest, k)), After(rest, k))
         /\ (After(rest, k) = << >> <=> Len(rest) <= k)
<1>1. rest \in Data /\ Len(rest) \in Nat /\ Len(all) \in Nat
  BY LenProperties DEF Piece, Data
<1>2. Piece(all, a, First(rest, k)) /\ Len(First(rest, k)) = Least(k, Len(rest))
  BY PieceCut
<1>3. After(rest, k) \in Data
      /\ Len(After(rest, k)) = IF k < Len(rest) THEN Len(rest) - k ELSE 0
  BY <1>1, CutTypes
<1>4. (After(rest, k) = << >> <=> Len(After(rest, k)) = 0)
  BY <1>3, EmptySeq DEF Data
<1>5. CASE k <= Len(rest)
  <2>1. Piece(all, a + k, After(rest, k)) /\ Len(After(rest, k)) = Len(rest) - k
    BY <1>5, PieceCut
  <2> HIDE DEF Piece
  <2>2. Len(all) - Len(After(rest, k)) = a + k /\ Len(First(rest, k)) = k
    BY <1>1, <1>2, <1>5, <2>1 DEF Least
  <2>3. Piece(all, Len(all) - Len(After(rest, k)), After(rest, k))
    BY <2>1, <2>2
  <2>4. Len(all) - Len(After(rest, k)) = a + Len(First(rest, k))
    BY <2>2
  <2>5. After(rest, k) = << >> <=> Len(rest) <= k
    BY <1>1, <1>4, <1>5, <2>1
  <2> QED BY <1>2, <1>3, <2>3, <2>4, <2>5
<1>6. CASE ~(k <= Len(rest))
  <2>1. Len(After(rest, k)) = 0 /\ After(rest, k) = << >> /\ Len(First(rest, k)) = Len(rest)
    BY <1>1, <1>2, <1>3, <1>4, <1>6 DEF Least
  <2>2. Piece(all, Len(all), << >>)
    BY <1>1, EmptyData DEF Piece
  <2>3. Len(all) - Len(After(rest, k)) = Len(all) /\ Len(all) = a + Len(rest)
    BY <1>1, <2>1
  <2> HIDE DEF Piece
  <2>4. Piece(all, Len(all) - Len(After(rest, k)), After(rest, k))
    BY <2>1, <2>2, <2>3
  <2>5. Len(all) - Len(After(rest, k)) = a + Len(First(rest, k))
    BY <2>1, <2>3
  <2>6. After(rest, k) = << >> <=> Len(rest) <= k
    BY <1>1, <1>6, <2>1
  <2> QED BY <1>2, <1>3, <2>4, <2>5, <2>6
<1> QED BY <1>5, <1>6

-----------------------------------------------------------------------------
(* ecx_SoEwrite: fragments without a number, which the slave puts one      *)
(* after the other.  Those under way continue what it has, up to what the  *)
(* call has written, as long as none was left out.  When the slave goes    *)
(* some are, but then none arrives any more.                               *)

LEMMA FragmentsKept ==
  ASSUME NEW c, NEW d, Keeps(c, d)
  PROVE  Fragments(d) = Fragments(c)
BY DEF Keeps, Fragments

LEMMA FragmentCut ==
  ASSUME NEW c, Active(c), Left(c)
  PROVE  Follows(c, SoEwrite(c))
<1> DEFINE last == Len(c.rest) <= OutData
           left == ~last
           n == IF last THEN 0 ELSE Len(c.rest) \div OutData
           cut == First(c.rest, OutData)
           rest == After(c.rest, OutData)
           b == [c EXCEPT !.rest = rest, !.more = left]
           r == Mail("SoE", "writereq", c.obj)
           m == [r EXCEPT !.data = cut, !.last = last, !.at = Len(c.all) - Len(c.rest),
                          !.n = n]
<1>1. /\ c \in AnyCall /\ c.obj \in Objects /\ c.all \in Data /\ Len(c.all) \in Nat
      /\ Len(c.rest) \in Nat /\ OutData \in Nat
  BY ActiveCall, MailSizes DEF Active
<1>2. Place(c) \in Nat /\ Place(c) = Len(c.all) - Len(c.rest) /\ Piece(c.all, Place(c), c.rest)
  BY DEF Left, Place, Piece
<1>3. /\ Piece(c.all, Place(c), cut) /\ Len(cut) = Least(OutData, Len(c.rest))
      /\ rest \in Data /\ Len(c.all) - Len(rest) = Place(c) + Len(cut)
      /\ Piece(c.all, Len(c.all) - Len(rest), rest)
  BY <1>1, <1>2, LeftCut
<1>4. r \in AnyRequest /\ PlainMail(r, "SoE", "writereq", c.obj)
  BY <1>1, OtherRequest, OneMail DEF Kinds
<1>5. cut \in Data /\ last \in BOOLEAN /\ left \in BOOLEAN /\ n \in Int /\ Len(cut) \in Nat
      /\ Place(c) \in Int
  <2>1. n \in Int
    BY <1>1, MailSizes
  <2>2. cut \in Data
    BY <1>3 DEF Piece
  <2> QED BY <1>2, <2>1, <2>2, LenProperties DEF Data
<1>6. SoEwrite(c) = Ask(b, m)
  BY DEF SoEwrite
<1>7. /\ m \in AnyMail /\ m.type = "SoE" /\ m.kind = "writereq" /\ m.of = c.obj
      /\ m.data = cut /\ m.at = Place(c) /\ m.last = last
  <2> HIDE DEF r, last, n, cut
  <2> QED BY <1>2, <1>4, <1>5 DEF AnyRequest, AnyMail, PlainMail
<1>8. b \in AnyCall /\ b.all = c.all /\ b.rest = rest /\ b.more = left /\ b.wkc = c.wkc
  <2> HIDE DEF rest, left
  <2> QED BY <1>1, <1>3, <1>5 DEF AnyCall
<1>9. last <=> Place(c) + Len(cut) = Len(c.all)
  <2>1. Place(c) + Len(c.rest) = Len(c.all)
    BY <1>1, <1>2
  <2>2. Len(cut) = IF OutData < Len(c.rest) THEN OutData ELSE Len(c.rest)
    BY <1>3 DEF Least
  <2> DEFINE a == Place(c)
             k == Len(c.rest)
             z == Len(c.all)
             h == Len(cut)
  <2>3. a \in Nat /\ k \in Nat /\ z \in Nat /\ OutData \in Nat /\ OutData > 0
    BY <1>1, <1>2, MailSizes
  <2>4. a + k = z /\ h = IF OutData < k THEN OutData ELSE k
    BY <2>1, <2>2
  <2> HIDE DEF a, k, z, h
  <2>5. k <= OutData <=> a + h = z
    BY <2>3, <2>4
  <2> QED BY <2>5 DEF a, k, z, h
<1> HIDE DEF b, m, last, left, cut, rest
<1>10. m \in Fragments(c)
  <2>1. m \in AnyRequest
    BY <1>1, <1>7 DEF AnyRequest
  <2>2. m.last <=> End(m) = Len(c.all)
    BY <1>7, <1>9 DEF End
  <2> QED BY <1>3, <1>7, <2>1, <2>2 DEF Fragments
<1> DEFINE d == Ask(b, m)
<1>11. /\ d.out = m /\ d.pc = "send" /\ d.wkc = c.wkc /\ d.all = c.all /\ d.rest = rest
       /\ d.more = left
  <2>1. d.all = b.all
    BY <1>8 DEF Ask, AnyCall
  <2> QED BY <1>8, <2>1, Leaves DEF Same
<1> HIDE DEF d
<1>12. Place(d) = Place(c) + Len(cut)
  BY <1>3, <1>11 DEF Place
<1>13. From(m) = <<Place(c), 0>>
  BY <1>7 DEF From, Spot
<1>14. Upto(m) = <<Place(d), IF last THEN 1 ELSE 0>>
  BY <1>7, <1>12 DEF Upto, Spot, Ends
<1>15. Ahead(d) = <<Place(d), IF last THEN 1 ELSE 0>>
  BY <1>5, <1>11 DEF Ahead, left
<1>16. Left(d)
  BY <1>3, <1>11 DEF Left, Place
<1> QED BY <1>6, <1>10, <1>11, <1>13, <1>14, <1>15, <1>16 DEF Follows, d

(* The slave takes one.                                                    *)
LEMMA FragmentServed ==
  ASSUME NEW c, Active(c), NEW m \in Fragments(c), NEW s \in AnySlave, NEW st \in AnyStore,
         s.op = "idn" => s.of = c.obj /\ Piece(c.all, 0, s.data), From(m) = Behind(s),
         NEW r, r = SlaveDoes(s, st, m)
  PROVE  /\ m.last => r.store[c.obj] = c.all /\ Upto(m)[2] = 1
         /\ ~m.last => /\ r.srv.op = "idn" /\ r.srv.of = c.obj /\ Piece(c.all, 0, r.srv.data)
                       /\ Behind(r.srv) = Upto(m) /\ r.replies = << >>
<1> DEFINE held == IF s.op = "idn" THEN s.data ELSE << >>
           all == held \o m.data
<1>1. /\ m.type = "SoE" /\ m.kind = "writereq" /\ m.of = c.obj /\ c.obj \in Objects
      /\ Piece(c.all, m.at, m.data) /\ (m.last <=> End(m) = Len(c.all))
      /\ c.all \in Data /\ Len(c.all) \in Nat /\ m.last \in BOOLEAN
  BY ActiveCall DEF Fragments, Active, AnyRequest, AnyMail
<1>2. m.at = Len(held)
  BY <1>1, EmptyData DEF From, Behind, Spot
<1>3. Piece(c.all, 0, held)
  BY <1>1, EmptyPiece
<1>4. r = IF m.last THEN Served(Resting, [st EXCEPT ![c.obj] = all],
                                <<Mail("SoE", "writeres", c.obj)>>)
          ELSE Served([op |-> "idn", of |-> c.obj, data |-> all, n |-> 0, size |-> 0],
                      st, << >>)
  BY <1>1 DEF SlaveDoes, SoeServe
<1> HIDE DEF held
<1>5. held \in Data /\ Len(held) \in Nat /\ m.data \in Data /\ Len(m.data) \in Nat
  BY <1>1, <1>3, LenProperties DEF Piece, Data
<1>6. Piece(c.all, 0, all) /\ Len(all) = Len(held) + Len(m.data)
  <2>1. 0 + Len(held) = m.at
    BY <1>2, <1>5
  <2> QED BY <1>1, <1>3, <2>1, PieceJoin
<1>7. Upto(m) = <<Len(all), IF m.last THEN 1 ELSE 0>>
  <2>1. m.at + Len(m.data) = Len(all)
    BY <1>2, <1>5, <1>6
  <2> QED BY <1>1, <2>1 DEF Upto, Spot, Ends
<1> HIDE DEF all
<1>8. CASE m.last
  <2>1. Len(all) = Len(c.all)
    BY <1>1, <1>2, <1>5, <1>6, <1>8 DEF End
  <2>2. all = c.all
    <3>1. Len(all) = Least(Len(c.all), Len(c.all))
      BY <2>1 DEF Least
    <3> QED BY <1>1, <1>6, <2>1, <3>1, PieceWhole
  <2>3. r.store = [st EXCEPT ![c.obj] = all]
    BY <1>4, <1>8 DEF Served
  <2>4. r.store[c.obj] = c.all
    BY <1>1, <2>2, <2>3 DEF AnyStore
  <2> QED BY <1>7, <1>8, <2>4
<1>9. CASE ~m.last
  <2>1. /\ r.srv = [op |-> "idn", of |-> c.obj, data |-> all, n |-> 0, size |-> 0]
        /\ r.replies = << >>
    BY <1>4, <1>9 DEF Served
  <2> QED BY <1>6, <1>7, <1>9, <2>1 DEF Behind
<1> QED BY <1>8, <1>9

(* The slave serves the first of a chain of requests.                      *)
LEMMA ChainTail ==
  ASSUME NEW c, NEW ts \in Seq(AnyRequest), ts # << >>, c.pc = "send" => c.out \in AnyRequest,
         NEW S, Pending(c, ts) \in Seq(S), NEW a, NEW z, Chained(Pending(c, ts), a, z)
  PROVE  /\ Head(ts) \in S /\ From(Head(ts)) = a /\ Pending(c, Tail(ts)) \in Seq(S)
         /\ Chained(Pending(c, Tail(ts)), Upto(Head(ts)), z)
         /\ Pending(c, Tail(ts)) = << >> => Upto(Head(ts)) = z /\ c.pc # "send"
         /\ Pending(c, Tail(ts)) # << >> =>
              \E m \in S : From(m) = Upto(Head(ts))
<1> DEFINE q == Pending(c, ts)
           r == Pending(c, Tail(ts))
<1>1. Head(ts) \in S /\ r \in Seq(S) /\ r = Tail(q) /\ Len(q) = Len(r) + 1
      /\ (Len(q) = 1 => c.pc # "send")
  BY PendingTail
<1>2. Head(q) = Head(ts) /\ q # << >>
  <2>1. Len(ts) \in Nat /\ Len(ts) >= 1 /\ Head(ts) = ts[1]
    BY EmptySeq, LenProperties, HeadTailProperties
  <2>2. CASE c.pc # "send"
    BY <2>2 DEF Pending
  <2>3. CASE c.pc = "send"
    <3> DEFINE p == Append(ts, c.out)
    <3>1. p \in Seq(AnyRequest) /\ Len(p) = Len(ts) + 1 /\ \A i \in 1 .. Len(ts) : p[i] = ts[i]
      BY <2>3, AppendProperties
    <3> HIDE DEF p
    <3>2. p # << >> /\ Head(p) = p[1] /\ p[1] = ts[1]
      BY <2>1, <3>1, EmptySeq, HeadTailProperties
    <3> QED BY <2>1, <2>3, <3>2 DEF p, Pending
  <2> QED BY <2>2, <2>3
<1> HIDE DEF q, r
<1>3. q \in Seq(S) /\ Chained(q, a, z)
  BY DEF q
<1>4. /\ From(Head(q)) = a /\ Chained(r, Upto(Head(q)), z)
      /\ r = << >> => Upto(Head(q)) = z
      /\ r # << >> => From(Head(r)) = Upto(Head(q))
  BY <1>1, <1>2, <1>3, ChainServed
<1>5. r # << >> => Head(r) \in S
  BY <1>1, HeadTailProperties
<1>6. r = << >> => c.pc # "send"
  <2>1. r = << >> => Len(r) = 0
    BY <1>1, EmptySeq
  <2> QED BY <1>1, <2>1
<1> QED BY <1>1, <1>2, <1>4, <1>5, <1>6 DEF q, r

LEMMA PendingTyped ==
  ASSUME NEW c, NEW S, NEW ts \in Seq(S), c.pc = "send" => c.out \in S
  PROVE  Pending(c, ts) \in Seq(S)
BY AppendProperties DEF Pending

LEMMA PendingNone ==
  ASSUME NEW c, NEW S, NEW ts \in Seq(S), c.pc = "send" => c.out \in S
  PROVE  Pending(c, ts) = << >> => ts = << >> /\ c.pc # "send"
<1>1. CASE c.pc = "send"
  <2> DEFINE p == Append(ts, c.out)
  <2>1. Len(p) = Len(ts) + 1 /\ Len(ts) \in Nat /\ p \in Seq(S)
    BY <1>1, AppendProperties, LenProperties
  <2> HIDE DEF p
  <2>2. p # << >>
    BY <2>1, EmptySeq
  <2> QED BY <1>1, <2>2 DEF Pending, p
<1> QED BY <1>1 DEF Pending

(* The call asks for a further one.                                        *)
LEMMA ChainGrows ==
  ASSUME NEW c, NEW d, Follows(c, d), Keeps(c, d), NEW ts \in Seq(Fragments(c)), NEW a,
         Chained(ts, a, <<Place(c), 0>>)
  PROVE  Chained(Pending(d, ts), a, Ahead(d)) /\ Pending(d, ts) \in Seq(Fragments(c))
<1>1. d.out \in Fragments(c) /\ From(d.out) = <<Place(c), 0>> /\ Upto(d.out) = Ahead(d)
      /\ d.pc = "send"
  BY DEF Follows
<1>2. Chained(Append(ts, d.out), a, Upto(d.out))
  BY <1>1, ChainAsked
<1>3. Append(ts, d.out) \in Seq(Fragments(c))
  BY <1>1, AppendProperties
<1> QED BY <1>1, <1>2, <1>3 DEF Pending

LEMMA WritingOpening ==
  ASSUME Opening, NEW alive, NEW exact
  PROVE  Writing(call', toslave', tomaster', srv', store', alive, exact)
<1> SUFFICES ASSUME call'.op = "SoEwrite"
             PROVE  Writing(call', toslave', tomaster', srv', store', alive, exact)
  BY DEF Writing
<1>1. PICK c : /\ Starting(c) /\ Keeps(c, call')
               /\ \/ call'.pc = "drain" /\ Same(c, call') /\ call'.wkc = 0
                  \/ call' = Begin(c) /\ StepOf(c, Begin(c))
  BY OpeningCall
<1>2. /\ c.op = "SoEwrite" /\ c \in AnyCall /\ c.obj \in Objects /\ c.wkc = 0
      /\ call'.obj = c.obj /\ call'.all = c.all /\ c.rest = c.all /\ c.all \in Data
      /\ c.more = FALSE /\ Active(c)
  BY <1>1, ActiveCall DEF Keeps, Starting, AnyCall, Active
<1>3. /\ toslave' = << >> /\ toslave' \in Seq(Fragments(c)) /\ tomaster' \in Seq(Frags)
      /\ srv' = srv /\ srv.op # "idn"
  BY EmptySeqs DEF Opening
<1>4. Fragments(call') = Fragments(c)
  BY <1>1, FragmentsKept
<1>5. Left(c) /\ Place(c) = 0
  BY <1>2, LeftAll
<1>6. Behind(srv') = <<0, 0>>
  BY <1>3 DEF Behind
<1>7. Chained(<< >>, <<0, 0>>, <<0, 0>>)
  BY ChainNone
<1>8. CASE call'.pc = "drain" /\ Same(c, call') /\ call'.wkc = 0
  <2>1. call'.rest = c.rest
    BY <1>8 DEF Same
  <2>2. Left(call') /\ Place(call') = 0
    BY <1>2, <1>5, <2>1 DEF Left, Place
  <2>3. Ahead(call') = <<0, 0>> /\ Pending(call', toslave') = << >>
    BY <1>3, <1>8, <2>2 DEF Ahead, Pending
  <2>4. Filling(call', toslave', srv')
    BY <1>3, <1>6, <1>7, <2>3 DEF Filling
  <2> QED BY <1>2, <1>3, <1>4, <1>8, <2>2, <2>4 DEF Writing, Growing
<1>9. CASE call' = Begin(c)
  <2>1. call' = SoEwrite(c)
    BY <1>2, <1>9 DEF Begin
  <2>2. Follows(c, call')
    BY <1>2, <1>5, <2>1, FragmentCut
  <2>3. /\ call'.out \in Fragments(c) /\ Left(call') /\ call'.pc = "send" /\ call'.wkc = 0
    BY <1>2, <2>2 DEF Follows
  <2>4. Chained(toslave', <<0, 0>>, <<Place(c), 0>>)
    BY <1>3, <1>5, <1>7
  <2>5. Chained(Pending(call', toslave'), <<0, 0>>, Ahead(call'))
    BY <1>1, <1>3, <2>2, <2>4, ChainGrows
  <2>6. Filling(call', toslave', srv')
    BY <1>3, <1>6, <2>5 DEF Filling
  <2> QED BY <1>2, <1>3, <1>4, <2>3, <2>6 DEF Writing, Growing
<1> QED BY <1>1, <1>8, <1>9

(* A turn keeps what the call has written, or goes on with the next        *)
(* fragment.                                                               *)
LEMMA WritingSame ==
  ASSUME NEW c \in AnyCall, NEW d, Keeps(c, d), d.rest = c.rest, NEW ts, NEW tm, NEW tm2,
         NEW s, NEW st, NEW alive, NEW alive2, NEW exact, NEW exact2, alive2 => alive,
         exact2 => exact, tm \in Seq(Frags) => tm2 \in Seq(Frags),
         d.wkc = c.wkc, c.op = "SoEwrite", Writing(c, ts, tm, s, st, alive, exact),
         \/ d.pc = c.pc /\ d.more = c.more /\ d.out = c.out
         \/ d.pc = "receive" /\ c.pc = "poll" /\ d.more = c.more
  PROVE  Writing(d, ts, tm2, s, st, alive2, exact2)
<1>1. Fragments(d) = Fragments(c) /\ d.obj = c.obj /\ d.all = c.all
  BY FragmentsKept DEF Keeps
<1>2. Place(d) = Place(c) /\ (Left(c) => Left(d)) /\ Ahead(d) = Ahead(c)
      /\ Pending(d, ts) = Pending(c, ts)
  BY <1>1 DEF Place, Left, Ahead, Pending
<1>3. Finished(c, ts, st) => Finished(d, ts, st)
  BY <1>1, <1>2 DEF Finished
<1>4. Filling(c, ts, s) => Filling(d, ts, s)
  BY <1>1, <1>2 DEF Filling
<1>5. Growing(c, ts, tm, s, alive) => Growing(d, ts, tm2, s, alive2)
  BY <1>4 DEF Growing
<1> QED BY <1>1, <1>2, <1>3, <1>5 DEF Writing

LEMMA WritingOver ==
  ASSUME NEW c \in AnyCall, NEW d, Keeps(c, d), Left(d), NEW ts, NEW tm, NEW tm2,
         NEW s, NEW st, NEW alive, NEW alive2, NEW exact, NEW exact2,
         exact2 => exact, d.pc \in {"return", "idle"}, c.op = "SoEwrite",
         Writing(c, ts, tm, s, st, alive, exact), NEW ts2 \in Seq(Fragments(c)),
         Finished(c, ts, st) => ts2 = ts,
         exact2 /\ Growing(c, ts, tm, s, alive) => d.wkc # 1
  PROVE  Writing(d, ts2, tm2, s, st, alive2, exact2)
<1>1. Fragments(d) = Fragments(c) /\ d.obj = c.obj /\ d.all = c.all
  BY FragmentsKept DEF Keeps
<1>2. Finished(c, ts, st) => Finished(d, ts2, st)
  BY <1>1 DEF Finished, Pending
<1>3. exact2 /\ Growing(c, ts, tm, s, alive) => Growing(d, ts2, tm2, s, alive2)
  BY DEF Growing
<1> QED BY <1>1, <1>2, <1>3 DEF Writing

LEMMA WritingOn ==
  ASSUME NEW c, Active(c), NEW d, d = SoEwrite(c), NEW ts, NEW tm, NEW s, NEW st, NEW alive,
         NEW alive2, NEW exact, NEW exact2, alive2 => alive, exact2 => exact,
         c.op = "SoEwrite", c.more, c.pc \in {"send", "poll", "receive"},
         Writing(c, ts, tm, s, st, alive, exact), NEW ts2 \in Seq(Fragments(c)),
         exact2 /\ alive2 => ts2 = Pending(c, ts)
  PROVE  Writing(d, ts2, tm, s, st, alive2, exact2)
<1>1. Keeps(c, d)
  BY SoEwriteStep DEF StepOf
<1>2. Fragments(d) = Fragments(c) /\ d.obj = c.obj /\ d.all = c.all /\ d.op = c.op
  BY <1>1, FragmentsKept DEF Keeps
<1>3. Follows(c, d)
  BY FragmentCut DEF Writing
<1>4. d.out \in Fragments(c) /\ Left(d) /\ d.pc = "send" /\ d.wkc = c.wkc
  BY <1>3 DEF Follows
<1>5. ASSUME exact2 PROVE Growing(d, ts2, tm, s, alive2)
  <2>1. exact /\ Growing(c, ts, tm, s, alive)
    BY <1>5 DEF Writing, Finished
  <2>2. c.wkc # 1 /\ tm \in Seq(Frags) /\ (alive2 => Filling(c, ts, s))
    BY <2>1 DEF Growing
  <2>3. ASSUME alive2 PROVE Filling(d, ts2, s)
    <3>1. ts2 = Pending(c, ts) /\ Filling(c, ts, s)
      BY <1>5, <2>2, <2>3
    <3>2. Ahead(c) = <<Place(c), 0>>
      BY DEF Ahead
    <3>3. Chained(ts2, Behind(s), <<Place(c), 0>>)
      BY <3>1, <3>2 DEF Filling
    <3>4. Chained(Pending(d, ts2), Behind(s), Ahead(d))
      BY <1>1, <1>3, <3>3, ChainGrows
    <3> QED BY <1>2, <3>1, <3>4 DEF Filling
  <2> QED BY <1>4, <2>2, <2>3 DEF Growing
<1> QED BY <1>2, <1>4, <1>5 DEF Writing

LEMMA WritingServed ==
  ASSUME NEW c, Active(c), c.op = "SoEwrite", NEW ts \in Seq(AnyRequest), ts # << >>,
         c.pc = "send" => c.out \in AnyRequest, NEW tm,
         NEW s \in AnySlave, NEW st \in AnyStore, NEW r, r = SlaveDoes(s, st, Head(ts)),
         NEW exact, NEW exact2, exact2 => exact, NEW alive,
         Writing(c, ts, tm, s, st, TRUE, exact)
  PROVE  Writing(c, Tail(ts), tm \o r.replies, r.srv, r.store, alive, exact2)
<1>1. ts \in Seq(Fragments(c)) /\ Tail(ts) \in Seq(Fragments(c)) /\ Head(ts) \in Fragments(c)
  BY HeadTailProperties DEF Writing
<1>2. c.pc = "send" => c.out \in Fragments(c)
  BY DEF Writing
<1>3. ASSUME exact2
      PROVE  Finished(c, Tail(ts), r.store) \/ Growing(c, Tail(ts), tm \o r.replies, r.srv, alive)
  <2>1. ~Finished(c, ts, st)
    BY <1>1, <1>2, PendingNone DEF Finished
  <2>2. Growing(c, ts, tm, s, TRUE)
    BY <1>3, <2>1 DEF Writing
  <2>3. CASE c.pc \in {"return", "idle"}
    BY <2>2, <2>3 DEF Growing
  <2>4. CASE c.pc \notin {"return", "idle"}
    <3>1. /\ c.wkc # 1 /\ tm \in Seq(Frags) /\ Chained(Pending(c, ts), Behind(s), Ahead(c))
          /\ s.op = "idn" => s.of = c.obj /\ Piece(c.all, 0, s.data)
      BY <2>2, <2>4 DEF Growing, Filling
    <3>2. Pending(c, ts) \in Seq(Fragments(c))
      BY <1>1, <1>2, PendingTyped
    <3> DEFINE m == Head(ts)
    <3>3. /\ From(m) = Behind(s) /\ Chained(Pending(c, Tail(ts)), Upto(m), Ahead(c))
          /\ Pending(c, Tail(ts)) = << >> => Upto(m) = Ahead(c) /\ c.pc # "send"
          /\ Pending(c, Tail(ts)) # << >> => \E x \in Fragments(c) : From(x) = Upto(m)
      BY <3>1, <3>2, ChainTail
    <3>4. /\ m.last => r.store[c.obj] = c.all /\ Upto(m)[2] = 1
          /\ ~m.last => /\ r.srv.op = "idn" /\ r.srv.of = c.obj /\ Piece(c.all, 0, r.srv.data)
                        /\ Behind(r.srv) = Upto(m) /\ r.replies = << >>
      BY <1>1, <3>1, <3>3, FragmentServed
    <3>5. CASE m.last
      <4>1. \A x \in Fragments(c) : From(x)[2] = 0
        BY DEF Fragments, From
      <4>2. Pending(c, Tail(ts)) = << >> /\ Upto(m) = Ahead(c) /\ c.pc # "send"
        BY <3>3, <3>4, <3>5, <4>1
      <4>3. Ahead(c)[2] = 1
        BY <3>4, <3>5, <4>2
      <4>4. ~c.more /\ c.pc # "drain"
        BY <4>3 DEF Ahead
      <4>5. c.pc # "poll" /\ c.pc \in Places
        BY <4>4, ActiveCall DEF Writing, AnyCall
      <4>6. c.pc = "receive"
        BY <2>4, <4>2, <4>4, <4>5 DEF Places
      <4> QED BY <3>4, <3>5, <4>2, <4>4, <4>6 DEF Finished
    <3>6. CASE ~m.last
      <4>1. tm \o r.replies = tm
        BY <3>1, <3>4, <3>6, ConcatProperties
      <4>2. Filling(c, Tail(ts), r.srv)
        BY <3>3, <3>4, <3>6 DEF Filling
      <4> QED BY <3>1, <4>1, <4>2 DEF Growing
    <3> QED BY <3>5, <3>6
  <2> QED BY <2>3, <2>4
<1> QED BY <1>1, <1>2, <1>3 DEF Writing

LEMMA LeftNone ==
  ASSUME NEW c, c.all \in Data, c.rest = << >>
  PROVE  Left(c)
<1>1. Len(c.all) \in Nat
  BY LenProperties DEF Data
<1>2. Place(c) = Len(c.all)
  BY <1>1, EmptyData DEF Place
<1> QED BY <1>1, <1>2, EmptyData DEF Left, Piece

LEMMA WritingTurn ==
  ASSUME Base, Turn, NEW alive, NEW alive2, NEW exact, NEW exact2, alive <=> ~gone,
         alive2 => alive, alive2 => ~gone', exact2 => exact, exact2 => "unsent" \notin faults',
         gone => gone', Writing(call, toslave, tomaster, srv, store, alive, exact)
  PROVE  Writing(call', toslave', tomaster', srv', store', alive2, exact2)
<1>1. Keeps(call, call') /\ call \in AnyCall
  BY TurnKeeps DEF Base, Control
<1> SUFFICES ASSUME call.op = "SoEwrite"
             PROVE  Writing(call', toslave', tomaster', srv', store', alive2, exact2)
  BY <1>1 DEF Writing, Keeps
<1>2. /\ call.obj \in Objects /\ Left(call) /\ toslave \in Seq(Fragments(call))
      /\ call.pc = "send" => call.out \in Fragments(call)
      /\ call.pc = "poll" => call.more
      /\ exact => Finished(call, toslave, store)
                  \/ Growing(call, toslave, tomaster, srv, alive)
  BY DEF Writing
<1>3. \A d : Same(call, d) /\ Keeps(call, d) => Left(d)
  BY <1>2 DEF Same, Keeps, Left, Place
<1>4. \A w : LET d == Done(call, w) IN
        /\ Keeps(call, d) /\ Left(d) /\ d.pc = "return" /\ d.wkc = w
  <2> SUFFICES ASSUME NEW w PROVE LET d == Done(call, w) IN
        Keeps(call, d) /\ Left(d) /\ d.pc = "return" /\ d.wkc = w
    OBVIOUS
  <2>1. Keeps(call, Done(call, w))
    BY <1>1 DEF Done, AnyCall, Keeps
  <2> QED BY <1>1, <1>3, <2>1, Leaves
<1>5. CASE Wire
  <2>1. tomaster \in Seq(Frags) => tomaster' \in Seq(Frags)
    BY <1>5, WireSeq
  <2> QED BY <1>1, <1>5, <2>1, WritingSame DEF Wire
<1>6. CASE Ending
  <2>1. /\ call'.pc = "idle" /\ call'.wkc = call.wkc /\ toslave' = toslave /\ store' = store
        /\ call'.all = call.all /\ call' = Over(call)
    BY <1>1, <1>6, EndingKeeps DEF Keeps, Ending
  <2>2. call'.rest = << >>
    BY <2>1 DEF Over, NoCall
  <2>3. Left(call')
    BY <1>1, <2>1, <2>2, LeftNone DEF AnyCall
  <2>4. Growing(call, toslave, tomaster, srv, alive) => call'.wkc # 1
    BY <2>1 DEF Growing
  <2>5. call'.pc \in {"return", "idle"}
    BY <2>1
  <2>6. Writing(call', toslave', tomaster', srv, store, alive2, exact2)
    BY <1>1, <1>2, <2>1, <2>3, <2>4, <2>5, WritingOver
  <2>7. UNCHANGED <<srv, store>>
    BY <1>6, EndingKeeps
  <2> QED BY <2>6, <2>7
<1>7. CASE Sending \/ NotSending
  <2>1. /\ Active(call) /\ call.pc = "send" /\ UNCHANGED <<tomaster, srv, store>>
        /\ toslave' = toslave \/ toslave' = Append(toslave, call.out)
    BY <1>7, SendingKeeps
  <2>2. toslave' \in Seq(Fragments(call))
    BY <1>2, <2>1, AppendProperties
  <2>3. Pending(call, toslave) = Append(toslave, call.out)
    BY <2>1 DEF Pending
  <2>4. ~Finished(call, toslave, store)
    BY <2>1 DEF Finished
  <2>5. CASE Sending
    <3>1. call' = SoEwriteSent(call) /\ toslave' = Append(toslave, call.out)
      BY <2>5 DEF Sending, Sent
    <3>2. call.more \in BOOLEAN /\ call'.more = call.more /\ call'.wkc = call.wkc
          /\ Same(call, call') /\ call'.pc = IF call.more THEN "poll" ELSE "receive"
      <4>1. call' = IF call.more THEN [call EXCEPT !.pc = "poll"] ELSE Await(call)
        BY <3>1 DEF SoEwriteSent
      <4> QED BY <1>1, <4>1, Leaves DEF AnyCall, Same
    <3>3. Fragments(call') = Fragments(call) /\ call'.obj = call.obj /\ call'.all = call.all
      BY <1>1, FragmentsKept DEF Keeps
    <3>4. Place(call') = Place(call) /\ Left(call') /\ Pending(call', toslave')
            = Pending(call, toslave) /\ Ahead(call') = Ahead(call)
      BY <1>1, <1>3, <2>1, <2>3, <3>1, <3>2, <3>3 DEF Pending, Ahead, Place, Same
    <3>5. Filling(call, toslave, srv) => Filling(call', toslave', srv)
      BY <3>3, <3>4 DEF Filling
    <3>6. exact2 => Growing(call', toslave', tomaster', srv', alive2)
      BY <1>2, <2>1, <2>4, <3>2, <3>5 DEF Growing
    <3> QED BY <1>2, <2>2, <3>2, <3>3, <3>4, <3>6 DEF Writing
  <2>6. CASE NotSending
    <3>1. /\ call' = SoEwriteFails(call)
          /\ \/ toslave' = toslave /\ ("unsent" \in faults' \/ gone)
             \/ toslave' = Append(toslave, call.out)
      BY <2>6 DEF NotSending, Fails
    <3>2. exact2 /\ alive2 => toslave' = Pending(call, toslave)
      BY <2>3, <3>1
    <3>3. CASE call.more
      <4>1. call' = SoEwrite(call)
        BY <3>1, <3>3 DEF SoEwriteFails
      <4>2. Writing(call', toslave', tomaster, srv, store, alive2, exact2)
        BY <2>1, <2>2, <3>2, <3>3, <4>1, WritingOn
      <4> QED BY <2>1, <4>2
    <3>4. CASE ~call.more
      <4>1. call' = Done(call, 0)
        BY <3>1, <3>4 DEF SoEwriteFails
      <4>2. Left(call') /\ call'.pc \in {"return", "idle"} /\ call'.wkc # 1
        BY <1>4, <4>1
      <4>3. Writing(call', toslave', tomaster', srv, store, alive2, exact2)
        BY <1>1, <2>2, <2>4, <4>2, WritingOver
      <4> QED BY <2>1, <4>3
    <3> QED BY <3>3, <3>4
  <2> QED BY <1>7, <2>5, <2>6
<1>8. CASE Hearing
  <2>1. /\ Active(call) /\ Head(tomaster) \in AnyMail
        /\ StepOf(call, Answer(call, Head(tomaster)))
    BY <1>8, HearingKeeps
  <2> DEFINE m == Head(tomaster)
             b == [call EXCEPT !.more = FALSE]
             w == IF m.type = "SoE" /\ m.kind = "writeres" THEN 1 ELSE 0
  <2>2. Answer(call, m) = Done(b, w)
    BY DEF Answer, SoEwriteAnswer
  <2>3. b \in AnyCall /\ Keeps(call, b) /\ b.rest = call.rest
    BY <1>1 DEF AnyCall, Keeps
  <2>4. Answer(call, m).op = "SoEwrite"
    BY <2>1 DEF StepOf, Keeps
  <2>5. call' = Done(b, w)
    BY <1>8, <2>2, <2>4 DEF Hearing, Segmented
  <2>6. tomaster # << >> /\ tomaster' = Tail(tomaster) /\ UNCHANGED <<toslave, srv, store>>
        /\ call.pc = "receive"
    BY <1>8 DEF Hearing
  <2>7. tomaster \in Seq(Frags) => w # 1
    <3> SUFFICES ASSUME tomaster \in Seq(Frags) PROVE w # 1
      OBVIOUS
    <3>1. Head(tomaster) \in Frags
      BY <2>6, HeadTailProperties
    <3> QED BY <3>1 DEF Frags, IsFragment
  <2> HIDE DEF b, w
  <2>8. call'.pc = "return" /\ call'.wkc = w /\ call'.rest = call.rest
    BY <2>3, <2>5, Leaves DEF Same
  <2>9. Left(call')
    BY <1>1, <1>2, <2>8 DEF Keeps, Left, Place
  <2>10. Growing(call, toslave, tomaster, srv, alive) => call'.wkc # 1
    BY <2>6, <2>7, <2>8 DEF Growing
  <2>11. call'.pc \in {"return", "idle"}
    BY <2>8
  <2> QED BY <1>1, <1>2, <2>6, <2>9, <2>10, <2>11, WritingOver
<1>9. CASE NotHearing
  <2>1. call' = Fails(call) /\ UNCHANGED <<mailvars, srv, store>> /\ Active(call)
        /\ call.pc = "receive"
    BY <1>9, NotHearingKeeps DEF NotHearing
  <2>2. call' = SoEwriteFails(call) /\ toslave' = toslave /\ tomaster' = tomaster
    BY <2>1 DEF Fails, mailvars
  <2>3. CASE call.more
    <3>1. call' = SoEwrite(call)
      BY <2>2, <2>3 DEF SoEwriteFails
    <3>2. exact2 /\ alive2 => toslave = Pending(call, toslave)
      BY <2>1 DEF Pending
    <3>3. call.pc \in {"send", "poll", "receive"}
      BY <2>1
    <3>4. Writing(call', toslave, tomaster, srv, store, alive2, exact2)
      BY <1>2, <2>1, <2>3, <3>1, <3>2, <3>3, WritingOn
    <3> QED BY <2>1, <2>2, <3>4
  <2>4. CASE ~call.more
    <3>1. call' = Done(call, 0)
      BY <2>2, <2>4 DEF SoEwriteFails
    <3>2. Left(call') /\ call'.pc \in {"return", "idle"} /\ call'.wkc # 1
      BY <1>4, <3>1
    <3> QED BY <1>1, <1>2, <2>1, <2>2, <3>2, WritingOver
  <2> QED BY <2>3, <2>4
<1>10. CASE Polling
  <2>1. Active(call) /\ call.pc = "poll" /\ toslave' = toslave /\ tomaster' = tomaster
        /\ UNCHANGED <<srv, store>> /\ call.more
    BY <1>2, <1>10, PollingKeeps DEF Polling, mailvars
  <2>2. CASE call' = SoEwrite(call)
    <3>1. exact2 /\ alive2 => toslave = Pending(call, toslave)
      BY <2>1 DEF Pending
    <3>2. call.pc \in {"send", "poll", "receive"}
      BY <2>1
    <3>3. Writing(call', toslave, tomaster, srv, store, alive2, exact2)
      BY <1>2, <2>1, <2>2, <3>1, <3>2, WritingOn
    <3> QED BY <2>1, <3>3
  <2>3. CASE call' = Await(call)
    <3>1. call'.pc = "receive" /\ call'.more = call.more /\ call'.rest = call.rest
          /\ call'.wkc = call.wkc
      BY <1>1, <2>3, Leaves DEF Same
    <3>2. Writing(call', toslave, tomaster, srv, store, alive2, exact2)
      BY <1>1, <2>1, <3>1, WritingSame
    <3> QED BY <2>1, <3>2
  <2> QED BY <1>10, <2>2, <2>3 DEF Polling
<1>11. CASE Mixing
  <2>1. /\ Same(call, call') /\ call'.wkc = call.wkc /\ call'.pc = "receive"
        /\ call'.out = call.out /\ UNCHANGED <<mailvars, srv, store>> /\ call.pc = "receive"
    BY <1>11, MixingKeeps DEF Mixing
  <2>2. /\ call'.rest = call.rest /\ call'.more = call.more /\ toslave' = toslave
        /\ tomaster' = tomaster /\ srv' = srv /\ store' = store
    BY <2>1 DEF mailvars, Same
  <2>3. Writing(call', toslave, tomaster, srv, store, alive2, exact2)
    BY <1>1, <2>1, <2>2, WritingSame
  <2> QED BY <2>2, <2>3
<1>12. CASE Serving
  <2>1. /\ toslave # << >> /\ call' = call /\ srv \in AnySlave /\ store \in AnyStore /\ ~gone
        /\ toslave \in Seq(AnyRequest)
    BY <1>12 DEF Serving, Base, SlaveState, SlaveSane, UnderWay
  <2>2. Head(toslave).kind = "writereq"
    BY <1>2, <2>1, HeadTailProperties DEF Fragments
  <2> DEFINE r == SlaveDoes(srv, store, Head(toslave))
  <2>3. Deliver(r)
    BY <1>12, <2>2 DEF Serving
  <2> HIDE DEF r
  <2>4. srv' = r.srv /\ store' = r.store /\ tomaster' = tomaster \o r.replies
        /\ toslave' = Tail(toslave)
    BY <2>3 DEF Deliver
  <2>5. Active(call) \/ call.pc = "idle"
    BY DEF Base, Control
  <2>6. Active(call)
    BY <1>1, <1>2 DEF Active, Services, Writers
  <2>7. call.pc = "send" => call.out \in AnyRequest
    BY <1>2 DEF Fragments
  <2>8. Writing(call, toslave, tomaster, srv, store, TRUE, exact)
    <3>1. alive
      BY <2>1
    <3> QED BY <3>1 DEF Writing, Growing
  <2>9. r = SlaveDoes(srv, store, Head(toslave))
    BY DEF r
  <2>10. Writing(call, Tail(toslave), tomaster \o r.replies, r.srv, r.store, alive2, exact2)
    BY <2>1, <2>6, <2>7, <2>8, <2>9, WritingServed
  <2> QED BY <2>1, <2>4, <2>10
<1> QED BY <1>5, <1>6, <1>7, <1>8, <1>9, <1>10, <1>11, <1>12 DEF Turn

LEMMA WritingKept == Spec => []WritingInv
<1>1. Init => WritingInv
  BY DEF Init, NoCall, WritingInv, Writing
<1>2. Base /\ Born /\ WritingInv /\ [Next]_vars => WritingInv'
  <2> SUFFICES ASSUME Base, Born, WritingInv, [Next]_vars, quiet' PROVE WritingInv'
    BY DEF WritingInv
  <2>1. CASE Opening
    BY <2>1, WritingOpening DEF WritingInv
  <2>2. CASE quiet /\ faults \subseteq faults' /\ (gone => gone') /\ Turn
    <3> DEFINE alive == ~gone
               exact == "unsent" \notin faults
               alive2 == ~gone'
               exact2 == "unsent" \notin faults'
    <3>1. Writing(call, toslave, tomaster, srv, store, alive, exact)
      BY <2>2 DEF WritingInv
    <3>2. /\ alive <=> ~gone
          /\ alive2 => alive
          /\ alive2 => ~gone'
          /\ exact2 => exact
          /\ exact2 => "unsent" \notin faults'
      BY <2>2
    <3> HIDE DEF alive, exact, alive2, exact2
    <3>3. Writing(call', toslave', tomaster', srv', store', alive2, exact2)
      BY <2>2, <3>1, <3>2, WritingTurn
    <3> QED BY <3>3 DEF WritingInv, alive2, exact2
  <2> QED BY <2>1, <2>2, QuietTurns
<1> QED BY <1>1, <1>2, BaseBorn, PTL DEF Spec

-----------------------------------------------------------------------------
(* ecx_SDOwrite: one request, and segments with a toggle bit.  A slave     *)
(* that has been told the size takes the last segment only if it has had   *)
(* all others.                                                             *)

LEMMA DownloadsKept ==
  ASSUME NEW c, NEW d, Keeps(c, d)
  PROVE  Downloads(d) = Downloads(c)
BY DEF Keeps, Downloads

LEMMA FirstLoad ==
  ASSUME NEW c, Active(c), c.rest = c.all, c.num = 0, c.more = FALSE, c.segments = FALSE
  PROVE  Loads(c, SDOwrite(c)) /\ From(SDOwrite(c).out) = <<0, -1>>
<1>0. /\ c \in AnyCall /\ c.obj \in Objects /\ c.all \in Data /\ Len(c.all) \in Nat
      /\ OutData \in Nat /\ OutData > 0
  BY ActiveCall, MailSizes DEF Active
<1>1. CASE Len(c.rest) <= Expedited
  <2> DEFINE b == [c EXCEPT !.rest = << >>]
             r == Mail("CoE", "downexp", c.obj)
             m == [r EXCEPT !.data = c.all]
             d == Ask(b, m)
  <2>1. r \in AnyRequest /\ PlainMail(r, "CoE", "downexp", c.obj)
    BY <1>0, CoeRequest, OneMail DEF CoeRequests, Kinds
  <2>2. m \in AnyMail /\ m.type = "CoE" /\ m.kind = "downexp" /\ m.of = c.obj /\ m.data = c.all
    <3> HIDE DEF r
    <3> QED BY <1>0, <2>1 DEF AnyRequest, AnyMail, PlainMail
  <2>3. b \in AnyCall /\ b.all = c.all /\ b.rest = << >> /\ b.more = FALSE /\ b.wkc = c.wkc
        /\ b.num = 0 /\ b.segments = FALSE
    BY <1>0, EmptyData DEF AnyCall
  <2>4. SDOwrite(c) = d
    BY <1>1 DEF SDOwrite
  <2> HIDE DEF b, m
  <2>5. /\ d.out = m /\ d.pc = "send" /\ d.wkc = c.wkc /\ d.all = c.all /\ d.rest = << >>
        /\ d.more = FALSE /\ d.num = 0 /\ d.segments = FALSE
    <3>1. d.all = b.all /\ d.num = b.num
      BY <2>3 DEF Ask, AnyCall
    <3> QED BY <2>3, <3>1, Leaves DEF Same
  <2> HIDE DEF d
  <2>6. m \in Downloads(c)
    BY <1>0, <2>2 DEF Downloads, AnyRequest, CoeRequests
  <2>7. Left(d) /\ Place(d) = Len(c.all)
    BY <1>0, <2>5, LeftNone, EmptyData DEF Place
  <2>8. From(m) = <<0, -1>> /\ Upto(m) = <<Len(c.all), 2>> /\ Ends(m) /\ Spot(m) = 0
        /\ Len(m.data) = Len(c.all)
    <3>1. Spot(m) = 0 /\ Ends(m) /\ Len(m.data) = Len(c.all)
      BY <2>2 DEF Ends, Spot
    <3>2. From(m) = <<0, -1>>
      BY <2>2, <3>1 DEF From
    <3>3. Upto(m) = <<0 + Len(c.all), 2>>
      BY <3>1 DEF Upto
    <3> QED BY <1>0, <3>1, <3>2, <3>3
  <2>9. Onward(d) = <<Len(c.all), 2>>
    BY <2>5 DEF Onward
  <2> QED BY <1>0, <2>4, <2>5, <2>6, <2>7, <2>8, <2>9 DEF Loads
<1>2. CASE ~(Len(c.rest) <= Expedited)
  <2> DEFINE left == Len(c.rest) > OutData
             cut == First(c.rest, OutData)
             rest == After(c.rest, OutData)
             b == [c EXCEPT !.rest = rest, !.more = left]
             r == Mail("CoE", "downreq", c.obj)
             m == [r EXCEPT !.data = cut, !.at = Len(c.rest)]
             d == Ask(b, m)
  <2>1. r \in AnyRequest /\ PlainMail(r, "CoE", "downreq", c.obj)
    BY <1>0, CoeRequest, OneMail DEF CoeRequests, Kinds
  <2>2. Left(c) /\ Place(c) = 0
    BY <1>0, LeftAll
  <2>3. /\ Piece(c.all, 0, cut) /\ Len(cut) = Least(OutData, Len(c.all))
        /\ rest \in Data /\ Len(c.all) - Len(rest) = 0 + Len(cut)
        /\ Piece(c.all, Len(c.all) - Len(rest), rest)
    <3>1. PICK a \in Nat : a = 0
      OBVIOUS
    <3>2. Piece(c.all, a, c.rest) /\ a = Len(c.all) - Len(c.rest)
      BY <1>0, <2>2, <3>1 DEF Left
    <3> DEFINE x == c.rest
               y == c.all
    <3>3. /\ y \in Data /\ OutData \in Nat /\ Piece(y, a, x)
          /\ a = Len(y) - Len(x)
      BY <1>0, <3>2
    <3> HIDE DEF x, y
    <3>4. /\ Piece(y, a, First(x, OutData)) /\ Len(First(x, OutData)) = Least(OutData, Len(x))
          /\ After(x, OutData) \in Data
          /\ Len(y) - Len(After(x, OutData)) = a + Len(First(x, OutData))
          /\ Piece(y, Len(y) - Len(After(x, OutData)), After(x, OutData))
      BY <3>3, LeftCut
    <3> QED BY <3>1, <3>4 DEF x, y
  <2>4. cut \in Data /\ left \in BOOLEAN /\ Len(cut) \in Nat
    <3>1. cut \in Data
      BY <2>3 DEF Piece
    <3> QED BY <3>1, LenProperties DEF Data
  <2>5. m \in AnyMail /\ m.type = "CoE" /\ m.kind = "downreq" /\ m.of = c.obj /\ m.data = cut
        /\ m.at = Len(c.all)
    <3> DEFINE k == Len(c.rest)
    <3>1. k \in Int /\ k = Len(c.all)
      BY <1>0
    <3> HIDE DEF r, cut, k
    <3> QED BY <2>1, <2>4, <3>1 DEF AnyRequest, AnyMail, PlainMail
  <2>6. b \in AnyCall /\ b.all = c.all /\ b.rest = rest /\ b.more = left /\ b.wkc = c.wkc
        /\ b.num = 0 /\ b.segments = FALSE
    <3> HIDE DEF rest, left
    <3> QED BY <1>0, <2>3, <2>4 DEF AnyCall
  <2>7. SDOwrite(c) = d
    BY <1>2 DEF SDOwrite
  <2>8. (left <=> Len(cut) # Len(c.all)) /\ (~left <=> Len(cut) = Len(c.all))
    <3>1. Len(cut) = IF OutData < Len(c.all) THEN OutData ELSE Len(c.all)
      BY <2>3 DEF Least
    <3> HIDE DEF cut
    <3> QED BY <1>0, <3>1
  <2> HIDE DEF b, m, left, cut, rest
  <2>9. /\ d.out = m /\ d.pc = "send" /\ d.wkc = c.wkc /\ d.all = c.all /\ d.rest = rest
        /\ d.more = left /\ d.num = 0 /\ d.segments = FALSE
    <3>1. d.all = b.all /\ d.num = b.num
      BY <2>6 DEF Ask, AnyCall
    <3> QED BY <2>6, <3>1, Leaves DEF Same
  <2> HIDE DEF d
  <2>10. m \in Downloads(c)
    BY <1>0, <2>3, <2>5 DEF Downloads, AnyRequest, CoeRequests
  <2>11. Left(d) /\ Place(d) = Len(cut)
    BY <2>3, <2>4, <2>9 DEF Left, Place
  <2>12. Spot(m) = 0 /\ Len(m.data) = Len(cut) /\ (Ends(m) <=> ~left)
    BY <2>5, <2>8 DEF Spot, Ends
  <2>13. From(m) = <<0, -1>> /\ Upto(m) = <<Len(cut), IF left THEN 0 ELSE 2>>
    BY <2>4, <2>5, <2>12 DEF From, Upto
  <2>14. Onward(d) = <<Len(cut), IF left THEN 0 ELSE 2>>
    BY <2>8, <2>9, <2>11 DEF Onward, NextToggle
  <2> QED BY <2>4, <2>7, <2>9, <2>10, <2>11, <2>12, <2>13, <2>14 DEF Loads
<1> QED BY <1>1, <1>2

LEMMA NextLoad ==
  ASSUME NEW c, Active(c), Left(c), c.num \in {0, 1}, NEW d, d = NextSegment(c)
  PROVE  /\ Loads(c, d) /\ From(d.out) = <<Place(c), NextToggle(c)>>
         /\ d.out.kind = "downsegreq" /\ d.out.at = Place(c)
<1> DEFINE toggle == NextToggle(c)
           size == Segment(OutData)
           last == Len(c.rest) <= size
           left == ~last
           cut == First(c.rest, size)
           rest == After(c.rest, size)
           b == [c EXCEPT !.rest = rest, !.more = left,
                          !.segments = TRUE, !.num = toggle]
           r == Mail("CoE", "downsegreq", c.obj)
           m == [r EXCEPT !.data = cut, !.n = toggle, !.last = last,
                          !.at = Len(c.all) - Len(c.rest)]
           e == Ask(b, m)
<1>1. /\ c \in AnyCall /\ c.obj \in Objects /\ c.all \in Data /\ Len(c.all) \in Nat
      /\ Len(c.rest) \in Nat /\ size \in Nat /\ size > 0 /\ toggle \in {0, 1}
  BY ActiveCall, MailSizes DEF Active, Segment, NextToggle, Flip
<1>2. Place(c) \in Nat /\ Place(c) = Len(c.all) - Len(c.rest) /\ Piece(c.all, Place(c), c.rest)
  BY DEF Left, Place, Piece
<1>3. d = e
  BY DEF NextSegment, SendSegment, NextToggle
<1> HIDE DEF size, toggle
<1>4. /\ Piece(c.all, Place(c), cut) /\ Len(cut) = Least(size, Len(c.rest))
      /\ rest \in Data /\ Len(c.all) - Len(rest) = Place(c) + Len(cut)
      /\ Piece(c.all, Len(c.all) - Len(rest), rest)
  BY <1>1, <1>2, LeftCut
<1>5. r \in AnyRequest /\ PlainMail(r, "CoE", "downsegreq", c.obj)
  BY <1>1, CoeRequest, OneMail DEF CoeRequests, Kinds
<1>6. cut \in Data /\ last \in BOOLEAN /\ left \in BOOLEAN /\ Len(cut) \in Nat
      /\ Place(c) \in Int /\ toggle \in Int
  <2>1. cut \in Data
    BY <1>4 DEF Piece
  <2> QED BY <1>1, <1>2, <2>1, LenProperties DEF Data
<1>7. /\ m \in AnyMail /\ m.type = "CoE" /\ m.kind = "downsegreq" /\ m.of = c.obj
      /\ m.data = cut /\ m.at = Place(c) /\ m.last = last /\ m.n = toggle
  <2> HIDE DEF r, last, cut
  <2> QED BY <1>2, <1>5, <1>6 DEF AnyRequest, AnyMail, PlainMail
<1>8. b \in AnyCall /\ b.all = c.all /\ b.rest = rest /\ b.more = left /\ b.wkc = c.wkc
      /\ b.num = toggle /\ b.segments = TRUE
  <2> HIDE DEF rest, left
  <2> QED BY <1>1, <1>4, <1>6 DEF AnyCall
<1>9. last <=> Place(c) + Len(cut) = Len(c.all)
  <2> DEFINE a == Place(c)
             k == Len(c.rest)
             z == Len(c.all)
             h == Len(cut)
  <2>1. a \in Nat /\ k \in Nat /\ z \in Nat /\ size \in Nat /\ size > 0 /\ a + k = z
    BY <1>1, <1>2
  <2>2. h = IF size < k THEN size ELSE k
    BY <1>4 DEF Least
  <2> HIDE DEF a, k, z, h
  <2>3. k <= size <=> a + h = z
    BY <2>1, <2>2
  <2> QED BY <2>3 DEF a, k, z, h
<1> HIDE DEF b, m, last, left, cut, rest
<1>10. /\ e.out = m /\ e.pc = "send" /\ e.wkc = c.wkc /\ e.all = c.all /\ e.rest = rest
       /\ e.more = left /\ e.num = toggle /\ e.segments = TRUE
  <2>1. e.all = b.all /\ e.num = b.num
    BY <1>8 DEF Ask, AnyCall
  <2> QED BY <1>8, <2>1, Leaves DEF Same
<1> HIDE DEF e
<1>11. m \in Downloads(c)
  <2>1. m \in AnyRequest
    BY <1>1, <1>7 DEF AnyRequest, CoeRequests
  <2>2. m.last <=> End(m) = Len(c.all)
    BY <1>7, <1>9 DEF End
  <2> QED BY <1>1, <1>4, <1>7, <2>1, <2>2 DEF Downloads
<1>12. Left(e) /\ Place(e) = Place(c) + Len(cut)
  BY <1>4, <1>10 DEF Left, Place
<1>13. Spot(m) = Place(c) /\ (Ends(m) <=> last) /\ From(m) = <<Place(c), toggle>>
  BY <1>7 DEF Spot, Ends, From
<1>14. Upto(m) = <<Place(e), IF last THEN 2 ELSE 1 - toggle>>
  BY <1>7, <1>12, <1>13 DEF Upto
<1>15. Onward(e) = <<Place(e), IF last THEN 2 ELSE 1 - toggle>>
  <2>1. last => Place(e) = Len(c.all)
    BY <1>9, <1>12
  <2>2. left = ~last
    BY DEF left
  <2> QED BY <1>6, <1>10, <2>1, <2>2 DEF Onward, NextToggle, Flip
<1>16. /\ e.num \in {0, 1} /\ Place(e) = Spot(e.out) + Len(e.out.data)
       /\ (~e.more => Ends(e.out))
  BY <1>1, <1>6, <1>7, <1>10, <1>12, <1>13 DEF left
<1>17. Upto(e.out) = Onward(e) /\ From(e.out) = <<Place(c), NextToggle(c)>>
  BY <1>10, <1>13, <1>14, <1>15 DEF toggle
<1> QED BY <1>3, <1>7, <1>10, <1>11, <1>12, <1>16, <1>17 DEF Loads

(* What the slave does with a request.                                     *)
LEMMA LoadFields ==
  ASSUME NEW c, Active(c), NEW m \in Downloads(c)
  PROVE  /\ m \in AnyMail /\ m.type = "CoE" /\ m.of = c.obj /\ c.obj \in Objects
         /\ c.all \in Data /\ Len(c.all) \in Nat /\ m.data \in Data /\ Len(m.data) \in Nat
         /\ m.at \in Int /\ m.n \in Int /\ m.last \in BOOLEAN
         /\ Spot(m) \in Int
<1>1. m \in AnyMail /\ m.type = "CoE" /\ m.of = c.obj
  BY DEF Downloads, AnyRequest
<1>2. m.data \in Data /\ m.at \in Int /\ m.n \in Int /\ m.last \in BOOLEAN
  BY <1>1 DEF AnyMail
<1>3. Spot(m) \in Int
  <2>1. m.kind \in {"downexp", "downreq", "downsegreq"}
    BY DEF Downloads
  <2> QED BY <1>2, <2>1 DEF Spot
<1> QED BY <1>1, <1>2, <1>3, ActiveCall, LenProperties DEF Data, Active

LEMMA FirstDone ==
  ASSUME NEW c, Active(c), NEW m \in Downloads(c), m.kind # "downsegreq", NEW s,
         NEW st \in AnyStore, NEW r, r = SlaveDoes(s, st, m)
  PROVE  FirstEffect(c, m, r)
<1>1. /\ m \in AnyMail /\ m.type = "CoE" /\ m.of = c.obj /\ c.obj \in Objects
      /\ c.all \in Data /\ Len(c.all) \in Nat /\ m.data \in Data /\ Len(m.data) \in Nat
      /\ m.at \in Int
  BY LoadFields
<1>2. /\ m.kind \in {"downexp", "downreq"} /\ (m.kind = "downexp" => m.data = c.all)
      /\ (m.kind = "downreq" => m.at = Len(c.all) /\ Piece(c.all, 0, m.data))
  BY DEF Downloads
<1>3. Piece(c.all, 0, m.data)
  <2>1. Piece(c.all, 0, c.all)
    BY <1>1 DEF Piece
  <2> QED BY <1>2, <2>1
<1>4. r = Download(s, st, m)
  BY <1>1, <1>2 DEF SlaveDoes, CoeServe
<1>5. r.replies = <<Mail("CoE", "downinit", c.obj)>>
  BY <1>1, <1>4 DEF Download, Served
<1>6. Spot(m) = 0 /\ (Ends(m) <=> m.kind = "downexp" \/ Len(m.data) = m.at)
  BY <1>2 DEF Spot, Ends
<1>7. CASE Ends(m)
  <2>1. r.srv = Resting /\ r.store = [st EXCEPT ![c.obj] = m.data]
    BY <1>1, <1>4, <1>6, <1>7 DEF Download, Served
  <2>2. Len(m.data) = Len(c.all)
    BY <1>1, <1>2, <1>6, <1>7
  <2>3. m.data = c.all
    <3>1. Len(m.data) = Least(Len(c.all), Len(c.all))
      BY <2>2 DEF Least
    <3> QED BY <1>1, <1>3, <2>2, <3>1, PieceWhole
  <2>4. r.store[c.obj] = c.all
    BY <1>1, <2>1, <2>3 DEF AnyStore
  <2>5. Upto(m) = <<0 + Len(m.data), 2>>
    BY <1>6, <1>7 DEF Upto
  <2> QED BY <1>1, <1>3, <1>5, <1>6, <1>7, <2>1, <2>2, <2>4, <2>5 DEF FirstEffect
<1>8. CASE ~Ends(m)
  <2>1. m.kind = "downreq" /\ Len(m.data) # m.at /\ m.at = Len(c.all)
    BY <1>2, <1>6, <1>8
  <2>2. r.srv = [op |-> "down", of |-> c.obj, data |-> m.data, n |-> 0, size |-> Len(c.all)]
    BY <1>1, <1>4, <2>1 DEF Download, Served
  <2>3. Upto(m) = <<0 + Len(m.data), 0>>
    BY <1>6, <1>8, <2>1 DEF Upto
  <2> QED BY <1>1, <1>3, <1>5, <1>6, <1>8, <2>2, <2>3 DEF FirstEffect
<1> QED BY <1>7, <1>8

LEMMA SegmentDone ==
  ASSUME NEW c, Active(c), NEW m \in Downloads(c), m.kind = "downsegreq", NEW s \in AnySlave,
         NEW st \in AnyStore, NEW r, r = SlaveDoes(s, st, m)
  PROVE  SegmentEffect(c, m, s, st, r)
<1>1. /\ m \in AnyMail /\ m.type = "CoE" /\ m.of = c.obj /\ c.obj \in Objects
      /\ m.data \in Data /\ Len(m.data) \in Nat /\ m.at \in Int
  BY LoadFields
<1>2. Piece(c.all, m.at, m.data) /\ m.n \in {0, 1} /\ (m.last <=> End(m) = Len(c.all))
  BY DEF Downloads
<1>3. Spot(m) = m.at /\ (Ends(m) <=> m.last)
  BY DEF Spot, Ends
<1>4. From(m) = <<m.at, m.n>>
  BY <1>3 DEF From
<1>5. Upto(m) = <<m.at + Len(m.data), IF m.last THEN 2 ELSE 1 - m.n>>
  BY <1>3 DEF Upto
<1>6. r = DownloadSegment(s, st, m)
  BY <1>1 DEF SlaveDoes, CoeServe
<1> DEFINE all == s.data \o m.data
           t == [s EXCEPT !.data = all, !.n = 1 - @]
<1>7. ASSUME Unfit(m, s) PROVE r.srv = Resting /\ r.replies = <<Abort>>
  <2>1. r = Served(Resting, st, <<Abort>>)
    BY <1>6, <1>7 DEF DownloadSegment, Unfit
  <2> QED BY <2>1 DEF Served
<1>8. ASSUME ~Unfit(m, s)
      PROVE  r = Served(IF m.last THEN Resting ELSE t, IF m.last THEN [st EXCEPT ![s.of] = all]
                        ELSE st, <<Mail("CoE", "downseg", << >>)>>)
  BY <1>6, <1>8 DEF DownloadSegment, Unfit
<1>9. t.op = s.op /\ t.of = s.of /\ t.size = s.size /\ t.data = all /\ t.n = 1 - s.n
  <2> HIDE DEF all
  <2> QED BY DEF AnySlave
<1>10. ASSUME ~Unfit(m, s)
       PROVE  /\ r.replies = <<Mail("CoE", "downseg", << >>)>>
              /\ m.last => /\ r.srv = Resting /\ Len(all) = s.size
                           /\ r.store = [st EXCEPT ![s.of] = all]
              /\ ~m.last => /\ r.srv.op = "down" /\ r.srv.of = s.of /\ r.srv.size = s.size
                            /\ r.srv.data = all /\ r.srv.n = 1 - s.n
  <2>1. s.op = "down" /\ (m.last => Len(all) = s.size)
    BY <1>10 DEF Unfit
  <2> HIDE DEF t, all
  <2> QED BY <1>8, <1>9, <1>10, <2>1 DEF Served
<1> QED BY <1>2, <1>3, <1>4, <1>5, <1>7, <1>10 DEF SegmentEffect

LEMMA PieceAdded ==
  ASSUME NEW all \in Data, NEW d, NEW e, Piece(all, 0, d), NEW k, k = Len(d),
         Piece(all, k, e)
  PROVE  Piece(all, 0, d \o e) /\ Len(d \o e) = Len(d) + Len(e) /\ Len(d \o e) \in Nat
<1>1. PICK a \in Nat : a = 0
  OBVIOUS
<1>2. d \in Data /\ e \in Data /\ Len(d) \in Nat /\ Len(e) \in Nat
  BY LenProperties DEF Piece, Data
<1>3. Piece(all, a, d) /\ a + Len(d) = k
  BY <1>1, <1>2
<1>4. Piece(all, a, d \o e) /\ Len(d \o e) = Len(d) + Len(e)
  BY <1>3, PieceJoin
<1>5. Len(d) + Len(e) \in Nat
  BY <1>2
<1> QED BY <1>1, <1>4, <1>5

LEMMA LoadTaken ==
  ASSUME NEW c, Active(c), NEW m \in Downloads(c), NEW s \in AnySlave, NEW st \in AnyStore,
         NEW a, From(m) = a, Stage(c, a, s, st), NEW r, r = SlaveDoes(s, st, m)
  PROVE  Stage(c, Upto(m), r.srv, r.store)
<1>1. /\ c.all \in Data /\ Len(c.all) \in Nat /\ m.data \in Data /\ Len(m.data) \in Nat
      /\ c.obj \in Objects /\ m.at \in Int
  BY LoadFields
<1>2. CASE m.kind # "downsegreq"
  <2>1. /\ Piece(c.all, 0, m.data)
        /\ Ends(m) => r.store[c.obj] = c.all /\ Upto(m) = <<Len(c.all), 2>>
        /\ ~Ends(m) => /\ r.srv = [op |-> "down", of |-> c.obj, data |-> m.data, n |-> 0,
                                   size |-> Len(c.all)]
                       /\ Upto(m) = <<Len(m.data), 0>>
    <3>1. FirstEffect(c, m, r)
      BY <1>2, FirstDone
    <3> QED BY <3>1 DEF FirstEffect
  <2>2. CASE Ends(m)
    BY <2>1, <2>2 DEF Stage
  <2>3. CASE ~Ends(m)
    BY <2>1, <2>3 DEF Stage, Taking
  <2> QED BY <2>2, <2>3
<1>3. CASE m.kind = "downsegreq"
  <2>1. /\ From(m) = <<m.at, m.n>>
        /\ Upto(m) = <<m.at + Len(m.data), IF m.last THEN 2 ELSE 1 - m.n>>
        /\ Piece(c.all, m.at, m.data) /\ m.n \in {0, 1} /\ (m.last <=> End(m) = Len(c.all))
        /\ ~Unfit(m, s) =>
              /\ m.last => /\ r.srv = Resting /\ Len(s.data \o m.data) = s.size
                           /\ r.store = [st EXCEPT ![s.of] = s.data \o m.data]
              /\ ~m.last => /\ r.srv.op = "down" /\ r.srv.of = s.of /\ r.srv.size = s.size
                            /\ r.srv.data = s.data \o m.data /\ r.srv.n = 1 - s.n
    <3>1. SegmentEffect(c, m, s, st, r)
      BY <1>3, SegmentDone
    <3> QED BY <3>1 DEF SegmentEffect
  <2>2. Taking(c, s) /\ m.at = Len(s.data) /\ m.n = s.n
    BY <2>1 DEF Stage
  <2>3. /\ s.op = "down" /\ s.of = c.obj /\ s.size = Len(c.all) /\ Piece(c.all, 0, s.data)
        /\ s.n \in {0, 1} /\ s.data \in Data /\ Len(s.data) \in Nat
    BY <2>2, LenProperties DEF Taking, Piece, Data
  <2> DEFINE all == s.data \o m.data
  <2>4. Piece(c.all, 0, all) /\ Len(all) = Len(s.data) + Len(m.data) /\ Len(all) \in Nat
    BY <1>1, <2>1, <2>2, <2>3, PieceAdded
  <2>5. End(m) = Len(all)
    BY <1>1, <2>2, <2>4 DEF End
  <2>6. ~Unfit(m, s)
    BY <2>1, <2>2, <2>3, <2>5 DEF Unfit
  <2>7. CASE m.last
    <3>1. Len(all) = Len(c.all)
      BY <2>1, <2>5, <2>7
    <3>2. all = c.all
      <4>1. Len(all) = Least(Len(c.all), Len(c.all))
        BY <3>1 DEF Least
      <4> HIDE DEF all
      <4> QED BY <1>1, <2>4, <3>1, <4>1, PieceWhole
    <3>3. r.store = [st EXCEPT ![c.obj] = c.all]
      BY <2>1, <2>3, <2>6, <2>7, <3>2
    <3>4. r.store[c.obj] = c.all
      BY <1>1, <3>3 DEF AnyStore
    <3>5. Upto(m) = <<Len(c.all), 2>>
      BY <2>1, <2>5, <2>7 DEF End
    <3> QED BY <3>4, <3>5 DEF Stage
  <2>8. CASE ~m.last
    <3>1. Upto(m) = <<Len(all), 1 - s.n>>
      BY <2>1, <2>2, <2>5, <2>8 DEF End
    <3>2. /\ r.srv.op = "down" /\ r.srv.of = c.obj /\ r.srv.size = Len(c.all)
          /\ r.srv.data = all /\ r.srv.n = 1 - s.n
      BY <2>1, <2>3, <2>6, <2>8
    <3>3. 1 - s.n \in {0, 1}
      BY <2>3
    <3> HIDE DEF all
    <3> QED BY <2>4, <3>1, <3>2, <3>3 DEF Stage, Taking
  <2> QED BY <2>7, <2>8
<1> QED BY <1>2, <1>3

LEMMA LoadAnswered ==
  ASSUME NEW c, Active(c), NEW m \in Downloads(c), NEW s \in AnySlave, NEW st \in AnyStore,
         m.kind = "downsegreq" => Partial(c, s, m.at), NEW r, r = SlaveDoes(s, st, m)
  PROVE  /\ Partial(c, r.srv, Spot(m) + Len(m.data))
         /\ \E x \in AnyMail : /\ r.replies = <<x>>
                               /\ x.kind \in SdoResponses /\ Ends(m) => r.store[c.obj] = c.all
<1>1. /\ c.all \in Data /\ Len(c.all) \in Nat /\ m.data \in Data /\ Len(m.data) \in Nat
      /\ c.obj \in Objects /\ m.at \in Int /\ Spot(m) \in Int
  BY LoadFields
<1>2. \A p : Partial(c, Resting, p)
  BY DEF Partial, Resting
<1>3. CASE m.kind # "downsegreq"
  <2>1. /\ r.replies = <<Mail("CoE", "downinit", c.obj)>> /\ Spot(m) = 0
        /\ Piece(c.all, 0, m.data)
        /\ Ends(m) => r.store[c.obj] = c.all /\ r.srv = Resting
        /\ ~Ends(m) => r.srv = [op |-> "down", of |-> c.obj, data |-> m.data, n |-> 0,
                                size |-> Len(c.all)]
    <3>1. FirstEffect(c, m, r)
      BY <1>3, FirstDone
    <3> QED BY <3>1 DEF FirstEffect
  <2>2. Mail("CoE", "downinit", c.obj) \in AnyMail
    BY <1>1, OneMail DEF Kinds
  <2>3. ~Ends(m) => Partial(c, r.srv, Spot(m) + Len(m.data))
    BY <1>1, <2>1 DEF Partial
  <2> QED BY <1>2, <2>1, <2>2, <2>3
<1>4. CASE m.kind = "downsegreq"
  <2>1. /\ Spot(m) = m.at /\ (Ends(m) <=> m.last)
        /\ Piece(c.all, m.at, m.data) /\ m.n \in {0, 1} /\ (m.last <=> End(m) = Len(c.all))
        /\ Unfit(m, s) => r.srv = Resting /\ r.replies = <<Abort>>
        /\ ~Unfit(m, s) =>
              /\ r.replies = <<Mail("CoE", "downseg", << >>)>>
              /\ m.last => /\ r.srv = Resting /\ Len(s.data \o m.data) = s.size
                           /\ r.store = [st EXCEPT ![s.of] = s.data \o m.data]
              /\ ~m.last => /\ r.srv.op = "down" /\ r.srv.of = s.of /\ r.srv.size = s.size
                            /\ r.srv.data = s.data \o m.data /\ r.srv.n = 1 - s.n
    <3>1. SegmentEffect(c, m, s, st, r)
      BY <1>4, SegmentDone
    <3> QED BY <3>1 DEF SegmentEffect
  <2>2. CASE Unfit(m, s)
    <3>1. Abort \in AnyMail /\ Abort.kind \notin SdoResponses
      BY AbortMail DEF PlainMail, SdoResponses
    <3> QED BY <1>2, <2>1, <2>2, <3>1
  <2>3. CASE ~Unfit(m, s)
    <3>1. s.op = "down"
      BY <2>3 DEF Unfit
    <3>2. /\ s.of = c.obj /\ s.size = Len(c.all) /\ s.data \in Data /\ Len(s.data) <= m.at
          /\ (Len(s.data) = m.at => Piece(c.all, 0, s.data)) /\ Len(s.data) \in Nat
      BY <1>4, <3>1, LenProperties DEF Partial, Data
    <3> DEFINE all == s.data \o m.data
               p == m.at + Len(m.data)
    <3>3. all \in Data /\ Len(all) = Len(s.data) + Len(m.data) /\ Len(all) <= p
      <4>1. all \in Data /\ Len(all) = Len(s.data) + Len(m.data)
        BY <1>1, <3>2, ConcatProperties DEF Data
      <4> HIDE DEF all
      <4>2. Len(s.data) \in Nat /\ Len(m.data) \in Nat /\ m.at \in Int /\ Len(s.data) <= m.at
        BY <1>1, <3>2
      <4> DEFINE x == Len(s.data)
                 y == Len(m.data)
                 k == m.at
      <4>3. x \in Nat /\ y \in Nat /\ k \in Int /\ x <= k
        BY <4>2
      <4> HIDE DEF x, y, k
      <4>4. x + y <= k + y
        BY <4>3
      <4> QED BY <4>1, <4>4 DEF x, y, k
    <3>4. Len(all) = p => Piece(c.all, 0, all)
      <4> SUFFICES ASSUME Len(all) = p PROVE Piece(c.all, 0, all)
        OBVIOUS
      <4>1. Len(s.data) = m.at
        <5> DEFINE n == Len(all)
        <5>1. n = m.at + Len(m.data) /\ n = Len(s.data) + Len(m.data)
          BY <3>3
        <5> DEFINE x == Len(s.data)
                   y == Len(m.data)
                   k == m.at
        <5>2. x \in Nat /\ y \in Nat /\ k \in Int /\ k + y = x + y
          BY <1>1, <3>2, <5>1
        <5> HIDE DEF x, y, k
        <5>3. x = k
          BY <5>2
        <5> QED BY <5>3 DEF x, k
      <4> QED BY <1>1, <2>1, <3>2, <4>1, PieceAdded
    <3> DEFINE x == Mail("CoE", "downseg", << >>)
    <3>5. x \in AnyMail /\ r.replies = <<x>>
      BY <2>1, <2>3, OneMail DEF Kinds
    <3> HIDE DEF x
    <3>6. CASE m.last
      <4>1. Len(all) = Len(c.all) /\ p = Len(c.all) /\ r.srv = Resting
            /\ r.store = [st EXCEPT ![c.obj] = all]
        BY <2>1, <2>3, <3>2, <3>6 DEF End
      <4>2. all = c.all
        <5>1. Len(all) = Least(Len(c.all), Len(c.all)) /\ Len(c.all) = p
          BY <4>1 DEF Least
        <5> HIDE DEF all
        <5> QED BY <1>1, <3>4, <4>1, <5>1, PieceWhole
      <4>3. r.store[c.obj] = c.all
        BY <1>1, <4>1, <4>2 DEF AnyStore
      <4> QED BY <1>2, <3>5, <4>1, <4>3
    <3>7. CASE ~m.last
      <4>1. /\ r.srv.op = "down" /\ r.srv.of = c.obj /\ r.srv.size = Len(c.all)
            /\ r.srv.data = all
        BY <2>1, <2>3, <3>2, <3>7
      <4>2. Partial(c, r.srv, p)
        <5> HIDE DEF all, p
        <5> QED BY <3>3, <3>4, <4>1 DEF Partial
      <4> QED BY <2>1, <3>5, <3>7, <4>2
    <3> QED BY <3>6, <3>7
  <2> QED BY <2>2, <2>3
<1> QED BY <1>3, <1>4

(* At most one mail under way is no fragment of a frame.                   *)
LEMMA SingleTail ==
  ASSUME NEW tm \in Seq(AnyMail), tm # << >>, Single(tm)
  PROVE  Single(Tail(tm)) /\ (~IsFragment(Head(tm)) => Tail(tm) \in Seq(Frags))
<1> DEFINE t == Tail(tm)
<1>1. /\ Len(tm) \in Nat /\ Head(tm) = tm[1] /\ Len(tm) >= 1
      /\ t \in Seq(AnyMail) /\ Len(t) = Len(tm) - 1
      /\ \A i \in 1 .. Len(tm) - 1 : t[i] = tm[i + 1]
  BY MailsTyped
<1> HIDE DEF t
<1>2. \A i \in 1 .. Len(t) : t[i] = tm[i + 1] /\ i + 1 \in 1 .. Len(tm) /\ i + 1 # 1
                             /\ 1 \in 1 .. Len(tm)
  BY <1>1
<1>3. Single(t)
  BY <1>2 DEF Single
<1>4. ASSUME ~IsFragment(Head(tm)) PROVE t \in Seq(Frags)
  <2>1. \A i \in 1 .. Len(t) : IsFragment(t[i]) /\ t[i] \in AnyMail
    BY <1>1, <1>2, <1>4, MailsTyped DEF Single
  <2>2. \A i \in 1 .. Len(t) : t[i] \in Frags
    BY <2>1 DEF Frags
  <2>3. t \in [1 .. Len(t) -> AnyMail] /\ Len(t) \in Nat
    BY <1>1, LenProperties
  <2>4. t \in [1 .. Len(t) -> Frags]
    BY <2>2, <2>3
  <2> QED BY <2>3, <2>4
<1> QED BY <1>3, <1>4 DEF t

LEMMA FragTypes ==
  ASSUME NEW fs \in Seq(Frags)
  PROVE  fs \in Seq(AnyMail) /\ \A i \in 1 .. Len(fs) : IsFragment(fs[i])
<1>1. Frags \subseteq AnyMail
  BY DEF Frags
<1>2. \A i \in 1 .. Len(fs) : fs[i] \in Frags
  BY ElementOfSeq
<1> QED BY <1>1, <1>2, SeqMonotonic DEF Frags

LEMMA SingleAdded ==
  ASSUME NEW tm \in Seq(AnyMail), NEW fs \in Seq(Frags), Single(tm)
  PROVE  Single(tm \o fs)
<1> DEFINE q == tm \o fs
<1>1. fs \in Seq(AnyMail) /\ \A i \in 1 .. Len(fs) : IsFragment(fs[i])
  BY FragTypes
<1>2. /\ Len(tm) \in Nat /\ Len(fs) \in Nat /\ Len(q) = Len(tm) + Len(fs)
      /\ \A i \in 1 .. Len(tm) + Len(fs) :
           q[i] = IF i <= Len(tm) THEN tm[i] ELSE fs[i - Len(tm)]
  BY <1>1, AddedMails, LenProperties
<1> HIDE DEF q
<1>3. \A i \in 1 .. Len(q) : IF i \in 1 .. Len(tm) THEN q[i] = tm[i] ELSE IsFragment(q[i])
  <2> SUFFICES ASSUME NEW i \in 1 .. Len(q)
               PROVE  IF i \in 1 .. Len(tm) THEN q[i] = tm[i] ELSE IsFragment(q[i])
    OBVIOUS
  <2>1. CASE i <= Len(tm)
    BY <1>2, <2>1
  <2>2. CASE ~(i <= Len(tm))
    <3>1. i - Len(tm) \in 1 .. Len(fs) /\ q[i] = fs[i - Len(tm)]
      BY <1>2, <2>2
    <3> QED BY <1>1, <2>2, <3>1
  <2> QED BY <2>1, <2>2
<1>4. Single(q)
  BY <1>3 DEF Single
<1> QED BY <1>4 DEF q

LEMMA SingleSaid ==
  ASSUME NEW tm \in Seq(Frags), NEW x \in AnyMail
  PROVE  Single(tm \o <<x>>) /\ Single(tm)
<1> DEFINE q == tm \o <<x>>
<1>1. tm \in Seq(AnyMail) /\ \A i \in 1 .. Len(tm) : IsFragment(tm[i])
  BY FragTypes
<1>2. <<x>> \in Seq(AnyMail) /\ Len(<<x>>) = 1
  OBVIOUS
<1>3. /\ Len(tm) \in Nat /\ Len(q) = Len(tm) + 1
      /\ \A i \in 1 .. Len(tm) : q[i] = tm[i]
  BY <1>1, <1>2, AddedMails, LenProperties
<1> HIDE DEF q
<1>4. \A i, j \in 1 .. Len(q) : i # j => i \in 1 .. Len(tm) \/ j \in 1 .. Len(tm)
  BY <1>3
<1>5. Single(q)
  BY <1>1, <1>3, <1>4 DEF Single
<1> QED BY <1>1, <1>5 DEF Single, q

LEMMA WireSingle ==
  ASSUME Base, Wire, "repeated" \notin faults', Single(tomaster)
  PROVE  Single(tomaster')
<1>1. tomaster \in Seq(AnyMail)
  BY DEF Base, UnderWay
<1>2. CASE tomaster' = tomaster
  BY <1>2 DEF Single
<1>3. CASE tomaster # << >> /\ tomaster' = Tail(tomaster)
  BY <1>1, <1>3, SingleTail
<1>4. ASSUME NEW fs \in Seq(Frags), tomaster' = tomaster \o fs PROVE Single(tomaster')
  BY <1>1, <1>4, SingleAdded
<1> QED BY <1>2, <1>3, <1>4 DEF Wire

LEMMA FragsWords ==
  ASSUME NEW c, NEW st
  PROVE  Frags \subseteq Words(c, st)
BY DEF Frags, Words, IsFragment, SdoResponses

(* A call that stays where it is.                                          *)
LEMMA SameLoad ==
  ASSUME NEW c \in AnyCall, NEW d, Keeps(c, d), Same(c, d)
  PROVE  /\ Downloads(d) = Downloads(c) /\ d.obj = c.obj /\ d.all = c.all
         /\ Place(d) = Place(c) /\ (Left(c) => Left(d)) /\ NextToggle(d) = NextToggle(c)
         /\ \A s, p : Partial(c, s, p) => Partial(d, s, p)
         /\ \A m, s : Posed(c, m, s) => Posed(d, m, s)
         /\ \A a, s, st : Stage(c, a, s, st) => Stage(d, a, s, st)
         /\ \A st : Words(d, st) = Words(c, st)
<1>1. Downloads(d) = Downloads(c) /\ d.obj = c.obj /\ d.all = c.all /\ d.rest = c.rest
      /\ d.more = c.more /\ d.segments = c.segments /\ d.num = c.num
  BY DownloadsKept DEF Keeps, Same
<1>2. /\ Place(d) = Place(c) /\ (Left(c) => Left(d)) /\ NextToggle(d) = NextToggle(c)
  BY <1>1 DEF Place, Left, NextToggle
<1>3. \A s, p : Partial(c, s, p) => Partial(d, s, p)
  BY <1>1 DEF Partial
<1>4. \A m, s : Posed(c, m, s) => Posed(d, m, s)
  BY <1>1, <1>2, <1>3 DEF Posed
<1>5. \A a, s, st : Stage(c, a, s, st) => Stage(d, a, s, st)
  BY <1>1 DEF Stage, Taking
<1>6. \A st : Words(d, st) = Words(c, st)
  BY <1>1 DEF Words
<1> QED BY <1>1, <1>2, <1>3, <1>4, <1>5, <1>6

LEMMA LoadStays ==
  ASSUME NEW c \in AnyCall, NEW d, Keeps(c, d), Same(c, d), d.pc = c.pc, d.out = c.out,
         d.wkc = c.wkc, NEW ts, NEW tm, NEW tm2, NEW s, NEW st, NEW alive, NEW alive2,
         NEW stream, NEW stream2, NEW lock, NEW lock2, alive2 => alive, stream2 => stream,
         lock2 => lock, c.op = "SDOwrite", lock2 /\ Single(tm) => Single(tm2),
         tm \in Seq(Frags) => tm2 \in Seq(Frags),
         tm \in Seq(Words(c, st)) => tm2 \in Seq(Words(c, st)),
         Loading(c, ts, tm, s, st, alive, stream, lock)
  PROVE  Loading(d, ts, tm2, s, st, alive2, stream2, lock2)
<1>1. /\ Downloads(d) = Downloads(c) /\ d.obj = c.obj /\ d.all = c.all
      /\ Place(d) = Place(c) /\ (Left(c) => Left(d)) /\ NextToggle(d) = NextToggle(c)
      /\ \A p : Partial(c, s, p) => Partial(d, s, p)
      /\ \A m : Posed(c, m, s) => Posed(d, m, s)
      /\ \A a : Stage(c, a, s, st) => Stage(d, a, s, st)
      /\ Words(d, st) = Words(c, st)
  BY SameLoad
<1>2. d.more = c.more /\ d.num = c.num /\ d.segments = c.segments
  BY DEF Same
<1>3. Pending(d, ts) = Pending(c, ts) /\ Onward(d) = Onward(c)
  BY <1>1, <1>2 DEF Pending, Onward
<1>4. Streaming(c, ts, s, st) => Streaming(d, ts, s, st)
  BY <1>1, <1>3 DEF Streaming
<1>5. Streamed(c, ts, s, st, alive) => Streamed(d, ts, s, st, alive2)
  BY <1>4 DEF Streamed
<1>6. lock2 /\ Lockstep(c, ts, tm, s, st, alive) => Lockstep(d, ts, tm2, s, st, alive2)
  BY <1>1 DEF Lockstep
<1> QED BY <1>1, <1>2, <1>5, <1>6 DEF Loading, Keeps

(* The call has returned, or asks for its next segment.                    *)
LEMMA LoadOver ==
  ASSUME NEW c \in AnyCall, NEW d, Keeps(c, d), Left(d), NEW ts \in Seq(Downloads(c)), NEW tm2,
         NEW s, NEW st, NEW alive2, NEW stream2, NEW lock2, c.op = "SDOwrite",
         c.obj \in Objects, d.pc \in {"return", "idle"}, d.num \in {0, 1},
         d.wkc = 1 => /\ ~d.more
                      /\ stream2 => Streaming(d, ts, s, st)
                      /\ lock2 => ts = << >> /\ st[d.obj] = d.all
  PROVE  Loading(d, ts, tm2, s, st, alive2, stream2, lock2)
<1>1. Downloads(d) = Downloads(c) /\ d.obj = c.obj /\ d.all = c.all
  BY DownloadsKept DEF Keeps
<1>2. stream2 => Streamed(d, ts, s, st, alive2)
  BY DEF Streamed
<1>3. lock2 => Lockstep(d, ts, tm2, s, st, alive2)
  BY DEF Lockstep
<1> QED BY <1>1, <1>2, <1>3 DEF Loading

LEMMA LoadOn ==
  ASSUME NEW c, Active(c), NEW d, d = NextSegment(c), NEW ts \in Seq(Downloads(c)),
         NEW tm2, NEW s, NEW st, NEW alive2, NEW stream2, NEW lock2, c.op = "SDOwrite",
         Left(c), c.num \in {0, 1}, c.wkc # 1, c.more, c.pc \in {"send", "receive"},
         stream2 /\ alive2 =>
           \E a : Chained(ts, a, Onward(c)) /\ Stage(c, a, s, st),
         lock2 => tm2 \in Seq(Frags),
         lock2 /\ alive2 => ts = << >> /\ Partial(c, s, Place(c))
  PROVE  Loading(d, ts, tm2, s, st, alive2, stream2, lock2)
<1>1. Keeps(c, d) /\ c.obj \in Objects
  BY NextSegmentStep DEF StepOf, Active
<1>2. Downloads(d) = Downloads(c) /\ d.obj = c.obj /\ d.all = c.all /\ d.op = c.op
  BY <1>1, DownloadsKept DEF Keeps
<1>3. /\ Loads(c, d) /\ From(d.out) = <<Place(c), NextToggle(c)>>
      /\ d.out.kind = "downsegreq" /\ d.out.at = Place(c)
  BY NextLoad
<1>4. /\ d.out \in Downloads(c) /\ Upto(d.out) = Onward(d) /\ Left(d)
      /\ d.pc = "send" /\ d.wkc = c.wkc /\ d.num \in {0, 1}
      /\ Place(d) = Spot(d.out) + Len(d.out.data) /\ (~d.more => Ends(d.out))
  BY <1>3 DEF Loads
<1>5. stream2 => Streamed(d, ts, s, st, alive2)
  <2>1. ASSUME stream2, alive2 PROVE Streaming(d, ts, s, st)
    <3>1. PICK a : Chained(ts, a, Onward(c)) /\ Stage(c, a, s, st)
      BY <2>1
    <3>2. Onward(c) = <<Place(c), NextToggle(c)>>
      BY DEF Onward
    <3>3. Chained(Append(ts, d.out), a, Upto(d.out))
      BY <1>3, <1>4, <3>1, <3>2, ChainAsked
    <3>4. Stage(d, a, s, st)
      BY <1>2, <3>1 DEF Stage, Taking
    <3> QED BY <1>4, <3>3, <3>4 DEF Streaming, Pending
  <2> QED BY <1>4, <2>1 DEF Streamed
<1>6. lock2 => Lockstep(d, ts, tm2, s, st, alive2)
  <2>1. Partial(c, s, Place(c)) => Partial(d, s, d.out.at)
    BY <1>2, <1>3 DEF Partial
  <2>2. Partial(c, s, Place(c)) => Posed(d, d.out, s)
    BY <1>4, <2>1 DEF Posed
  <2> QED BY <1>4, <2>2 DEF Lockstep
<1>7. d.wkc # 1 /\ d.obj \in Objects /\ ts \in Seq(Downloads(d)) /\ d.pc \notin {"return", "idle"}
  BY <1>1, <1>2, <1>4
<1> QED BY <1>2, <1>3, <1>4, <1>5, <1>6, <1>7 DEF Loading

LEMMA PartialFurther ==
  ASSUME NEW c, NEW s, NEW p \in Int, NEW k \in Nat, Partial(c, s, p)
  PROVE  Partial(c, s, p + k)
<1> SUFFICES ASSUME s.op = "down" PROVE Partial(c, s, p + k)
  BY DEF Partial
<1>1. /\ s.of = c.obj /\ s.size = Len(c.all) /\ s.data \in Data /\ Len(s.data) <= p
      /\ Len(s.data) = p => Piece(c.all, 0, s.data)
      /\ Len(s.data) \in Nat
  BY LenProperties DEF Partial, Data
<1>2. Len(s.data) <= p + k /\ (Len(s.data) = p + k => Len(s.data) = p)
  BY <1>1
<1> QED BY <1>1, <1>2 DEF Partial

LEMMA PosedPartial ==
  ASSUME NEW c, Active(c), NEW m \in Downloads(c), NEW s, Posed(c, m, s), m.kind = "downsegreq"
  PROVE  Partial(c, s, Place(c))
<1>1. m.at \in Int /\ Len(m.data) \in Nat
  BY LoadFields
<1>2. Place(c) = m.at + Len(m.data) /\ Partial(c, s, m.at)
  BY DEF Posed, Spot
<1> QED BY <1>1, <1>2, PartialFurther

LEMMA LoadSending ==
  ASSUME Base, Sending, call.op = "SDOwrite", NEW alive, NEW alive2, NEW stream, NEW stream2,
         NEW lock, NEW lock2, Recorded(alive, alive2, stream, stream2, lock, lock2),
         Loading(call, toslave, tomaster, srv, store, alive, stream, lock)
  PROVE  Loading(call', toslave', tomaster', srv', store', alive2, stream2, lock2)
<1>1. /\ Active(call) /\ call.pc = "send" /\ Keeps(call, call') /\ call \in AnyCall
      /\ tomaster' = tomaster /\ srv' = srv /\ store' = store /\ call' = Await(call)
      /\ toslave' = Append(toslave, call.out) /\ alive
  BY SendingKeeps, ActiveCall DEF Sending, Sent, Recorded
<1>2. /\ call.obj \in Objects /\ Left(call) /\ toslave \in Seq(Downloads(call))
      /\ call.num \in {0, 1} /\ call.out \in Downloads(call) /\ call.wkc # 1
      /\ stream => Streamed(call, toslave, srv, store, alive)
      /\ lock => Lockstep(call, toslave, tomaster, srv, store, alive)
  BY <1>1 DEF Loading
<1>3. Same(call, call') /\ call'.pc = "receive" /\ call'.wkc = call.wkc
  BY <1>1, Leaves
<1>4. /\ Downloads(call') = Downloads(call) /\ call'.obj = call.obj /\ call'.all = call.all
      /\ Place(call') = Place(call) /\ Left(call') /\ NextToggle(call') = NextToggle(call)
      /\ \A m : Posed(call, m, srv) => Posed(call', m, srv)
      /\ \A a : Stage(call, a, srv, store) => Stage(call', a, srv, store)
      /\ call'.more = call.more /\ call'.num = call.num /\ call'.op = call.op
  BY <1>1, <1>2, <1>3, SameLoad DEF Same, Keeps
<1>5. toslave' \in Seq(Downloads(call'))
  BY <1>1, <1>2, <1>4, AppendProperties
<1>6. stream2 => Streamed(call', toslave', srv', store', alive2)
  <2>1. Pending(call', toslave') = Pending(call, toslave)
    BY <1>1, <1>3 DEF Pending
  <2>2. Onward(call') = Onward(call)
    BY <1>1, <1>3, <1>4 DEF Onward
  <2>3. Streaming(call, toslave, srv, store) => Streaming(call', toslave', srv, store)
    BY <1>4, <2>1, <2>2 DEF Streaming
  <2>4. stream2 => Streaming(call, toslave, srv, store)
    BY <1>1, <1>2 DEF Streamed, Recorded
  <2> QED BY <1>1, <2>3, <2>4 DEF Streamed
<1>7. lock2 => Lockstep(call', toslave', tomaster', srv', store', alive2)
  <2> SUFFICES ASSUME lock2 PROVE Lockstep(call', toslave', tomaster, srv, store, alive2)
    BY <1>1
  <2>1. toslave = << >> /\ tomaster \in Seq(Frags) /\ Posed(call, call.out, srv)
    BY <1>1, <1>2 DEF Recorded, Lockstep
  <2>2. toslave' = <<call.out>>
    BY <1>1, <2>1
  <2>3. toslave' # << >> /\ Tail(toslave') = << >> /\ Head(toslave') = call.out
    BY <2>2
  <2> QED BY <1>3, <1>4, <2>1, <2>3 DEF Lockstep
<1> QED BY <1>2, <1>3, <1>4, <1>5, <1>6, <1>7 DEF Loading

LEMMA LoadNotSending ==
  ASSUME Base, NotSending, call.op = "SDOwrite", NEW alive, NEW alive2, NEW stream, NEW stream2,
         NEW lock, NEW lock2, Recorded(alive, alive2, stream, stream2, lock, lock2),
         Loading(call, toslave, tomaster, srv, store, alive, stream, lock)
  PROVE  Loading(call', toslave', tomaster', srv', store', alive2, stream2, lock2)
<1>1. /\ Active(call) /\ call.pc = "send" /\ Keeps(call, call') /\ call \in AnyCall
      /\ tomaster' = tomaster /\ srv' = srv /\ store' = store /\ call' = SDOwriteFails(call)
      /\ \/ toslave' = toslave /\ ("unsent" \in faults' \/ gone)
         \/ toslave' = Append(toslave, call.out) /\ "unconfirmed" \in faults'
  BY SendingKeeps, ActiveCall DEF NotSending, Fails
<1>2. /\ call.obj \in Objects /\ Left(call) /\ toslave \in Seq(Downloads(call))
      /\ call.num \in {0, 1} /\ call.out \in Downloads(call) /\ call.wkc # 1
      /\ call.segments => call.out.kind = "downsegreq"
      /\ stream => Streamed(call, toslave, srv, store, alive)
      /\ lock => Lockstep(call, toslave, tomaster, srv, store, alive)
  BY <1>1 DEF Loading
<1>3. toslave' \in Seq(Downloads(call))
  BY <1>1, <1>2, AppendProperties
<1>4. CASE call.segments /\ call.more
  <2>1. call' = NextSegment(call)
    BY <1>1, <1>4 DEF SDOwriteFails
  <2>2. stream2 /\ alive2 =>
          \E a : Chained(toslave', a, Onward(call)) /\ Stage(call, a, srv, store)
    <3> SUFFICES ASSUME stream2, alive2
                 PROVE  \E a : Chained(toslave', a, Onward(call)) /\ Stage(call, a, srv, store)
      OBVIOUS
    <3>1. toslave' = Pending(call, toslave)
      BY <1>1 DEF Recorded, Cut, Pending
    <3>2. Streaming(call, toslave, srv, store)
      BY <1>1, <1>2 DEF Streamed, Recorded
    <3> QED BY <3>1, <3>2 DEF Streaming
  <2>3. lock2 => tomaster \in Seq(Frags)
    BY <1>1, <1>2 DEF Recorded, Lockstep
  <2>4. lock2 /\ alive2 => toslave' = << >> /\ Partial(call, srv, Place(call))
    <3> SUFFICES ASSUME lock2, alive2 PROVE toslave' = << >> /\ Partial(call, srv, Place(call))
      OBVIOUS
    <3>1. toslave' = toslave
      BY <1>1 DEF Recorded, Doubled
    <3>2. toslave = << >> /\ Posed(call, call.out, srv)
      BY <1>1, <1>2 DEF Recorded, Lockstep
    <3>3. Partial(call, srv, Place(call))
      BY <1>1, <1>2, <1>4, <3>2, PosedPartial
    <3> QED BY <3>1, <3>2, <3>3
  <2>5. Loading(call', toslave', tomaster, srv, store, alive2, stream2, lock2)
    BY <1>1, <1>2, <1>3, <1>4, <2>1, <2>2, <2>3, <2>4, LoadOn
  <2> QED BY <1>1, <2>5
<1>5. CASE ~(call.segments /\ call.more)
  <2>1. call' = Done(call, 0)
    BY <1>1, <1>5 DEF SDOwriteFails
  <2>2. Same(call, call') /\ call'.pc = "return" /\ call'.wkc = 0
    BY <1>1, <2>1, Leaves
  <2>3. Left(call') /\ call'.num \in {0, 1}
    BY <1>1, <1>2, <2>2, SameLoad DEF Same
  <2>4. call'.pc \in {"return", "idle"} /\ call'.wkc # 1
    BY <2>2
  <2>5. Loading(call', toslave', tomaster, srv, store, alive2, stream2, lock2)
    BY <1>1, <1>2, <1>3, <2>3, <2>4, LoadOver
  <2> QED BY <1>1, <2>5
<1> QED BY <1>4, <1>5

LEMMA LoadWire ==
  ASSUME Base, Wire, call.op = "SDOwrite", NEW alive, NEW alive2, NEW stream, NEW stream2,
         NEW lock, NEW lock2, Recorded(alive, alive2, stream, stream2, lock, lock2),
         Loading(call, toslave, tomaster, srv, store, alive, stream, lock)
  PROVE  Loading(call', toslave', tomaster', srv', store', alive2, stream2, lock2)
<1>1. /\ call' = call /\ toslave' = toslave /\ srv' = srv /\ store' = store
      /\ call \in AnyCall /\ Keeps(call, call) /\ Same(call, call)
  BY DEF Wire, Base, Control, Keeps, Same
<1>2. tomaster \in Seq(Frags) => tomaster' \in Seq(Frags)
  BY WireSeq
<1>3. tomaster \in Seq(Words(call, store)) => tomaster' \in Seq(Words(call, store))
  BY FragsWords, WireSeq
<1>4. lock2 /\ Single(tomaster) => Single(tomaster')
  BY WireSingle DEF Recorded, Doubled
<1>5. Loading(call, toslave, tomaster', srv, store, alive2, stream2, lock2)
  BY <1>1, <1>2, <1>3, <1>4, LoadStays DEF Recorded
<1> QED BY <1>1, <1>5

LEMMA LoadMixing ==
  ASSUME Base, Mixing, call.op = "SDOwrite", NEW alive, NEW alive2, NEW stream, NEW stream2,
         NEW lock, NEW lock2, Recorded(alive, alive2, stream, stream2, lock, lock2),
         Loading(call, toslave, tomaster, srv, store, alive, stream, lock)
  PROVE  Loading(call', toslave', tomaster', srv', store', alive2, stream2, lock2)
<1>1. /\ toslave' = toslave /\ tomaster' = tomaster /\ srv' = srv /\ store' = store
      /\ call \in AnyCall /\ Keeps(call, call') /\ Same(call, call') /\ call'.pc = call.pc
      /\ call'.out = call.out /\ call'.wkc = call.wkc
  BY MixingKeeps DEF Mixing, Base, Control, mailvars
<1>2. Loading(call', toslave, tomaster, srv, store, alive2, stream2, lock2)
  BY <1>1, LoadStays DEF Recorded
<1> QED BY <1>1, <1>2

LEMMA LoadEnding ==
  ASSUME Base, Ending, call.op = "SDOwrite", NEW alive, NEW alive2, NEW stream, NEW stream2,
         NEW lock, NEW lock2, Recorded(alive, alive2, stream, stream2, lock, lock2),
         Loading(call, toslave, tomaster, srv, store, alive, stream, lock)
  PROVE  Loading(call', toslave', tomaster', srv', store', alive2, stream2, lock2)
<1>1. /\ Keeps(call, call') /\ call'.pc = "idle" /\ call'.wkc = call.wkc /\ call \in AnyCall
      /\ toslave' = toslave /\ srv' = srv /\ store' = store /\ call' = Over(call)
  BY EndingKeeps DEF Ending, Base, Control
<1>2. call'.rest = << >> /\ call'.more = FALSE /\ call'.num = 0 /\ call'.all \in Data
      /\ call'.all = call.all /\ call'.obj = call.obj /\ call.op = "SDOwrite"
  BY <1>1 DEF Over, NoCall, AnyCall, Keeps
<1>3. /\ call.obj \in Objects /\ toslave \in Seq(Downloads(call))
      /\ call.pc \in {"return", "idle"} /\ call.wkc = 1 => ~call.more
      /\ stream => Streamed(call, toslave, srv, store, alive)
      /\ lock => Lockstep(call, toslave, tomaster, srv, store, alive)
  BY DEF Loading
<1>4. Left(call')
  BY <1>2, LeftNone
<1>5. ASSUME call'.wkc = 1
      PROVE  /\ stream2 => Streaming(call', toslave, srv, store)
             /\ lock2 => toslave = << >> /\ store[call'.obj] = call'.all
  <2>1. call.pc = "return" /\ call.wkc = 1 /\ ~call.more
    BY <1>1, <1>3, <1>5 DEF Ending, Starting
  <2>2. lock2 => toslave = << >> /\ store[call'.obj] = call'.all
    BY <1>2, <1>3, <2>1 DEF Recorded, Lockstep
  <2>3. Onward(call) = Onward(call') /\ Pending(call, toslave) = Pending(call', toslave)
    BY <1>1, <1>2, <2>1 DEF Onward, Pending
  <2>4. \A a : Stage(call, a, srv, store) => Stage(call', a, srv, store)
    BY <1>2 DEF Stage, Taking
  <2>5. Streaming(call, toslave, srv, store) => Streaming(call', toslave, srv, store)
    BY <2>3, <2>4 DEF Streaming
  <2> QED BY <1>3, <2>1, <2>2, <2>5 DEF Recorded, Streamed
<1>6. call'.pc \in {"return", "idle"} /\ call'.num \in {0, 1} /\ (call'.wkc = 1 => ~call'.more)
  BY <1>1, <1>2
<1>7. Loading(call', toslave, tomaster', srv, store, alive2, stream2, lock2)
  BY <1>1, <1>3, <1>4, <1>5, <1>6, LoadOver
<1> QED BY <1>1, <1>7

LEMMA LoadFailed ==
  ASSUME NEW c, Active(c), c.op = "SDOwrite", NEW w \in {0, 1}, NEW ts \in Seq(Downloads(c)),
         NEW tm2, NEW s, NEW st, NEW alive2, NEW stream2, NEW lock2, Left(c),
         c.num \in {0, 1}, w # 1, NEW d, d = Done(c, w)
  PROVE  Loading(d, ts, tm2, s, st, alive2, stream2, lock2)
<1>1. c \in AnyCall /\ Keeps(c, d)
  BY DEF Active, Done, AnyCall, Keeps
<1>2. Same(c, d) /\ d.pc = "return" /\ d.wkc = w /\ c.obj \in Objects
  BY <1>1, Leaves DEF Active
<1>3. Left(d) /\ d.num \in {0, 1}
  BY <1>1, <1>2, SameLoad DEF Same
<1>4. d.pc \in {"return", "idle"} /\ d.wkc # 1
  BY <1>2
<1> QED BY <1>1, <1>2, <1>3, <1>4, LoadOver

LEMMA LoadNotHearing ==
  ASSUME Base, NotHearing, call.op = "SDOwrite", NEW alive, NEW alive2, NEW stream,
         NEW stream2, NEW lock, NEW lock2,
         Recorded(alive, alive2, stream, stream2, lock, lock2),
         Loading(call, toslave, tomaster, srv, store, alive, stream, lock)
  PROVE  Loading(call', toslave', tomaster', srv', store', alive2, stream2, lock2)
<1>1. /\ Active(call) /\ call.pc = "receive" /\ toslave' = toslave /\ tomaster' = tomaster
      /\ srv' = srv /\ store' = store /\ call' = Fails(call)
      /\ Unanswered \/ "late" \in faults'
  BY NotHearingKeeps DEF NotHearing, mailvars
<1>2. call' = SDOwriteFails(call)
  BY <1>1 DEF Fails
<1>3. /\ call.obj \in Objects /\ Left(call) /\ toslave \in Seq(Downloads(call))
      /\ call.num \in {0, 1} /\ call.wkc # 1
      /\ stream => Streamed(call, toslave, srv, store, alive)
      /\ lock => Lockstep(call, toslave, tomaster, srv, store, alive)
  BY <1>1 DEF Loading
<1>4. CASE call.segments /\ call.more
  <2>1. call' = NextSegment(call)
    BY <1>2, <1>4 DEF SDOwriteFails
  <2>2. stream2 /\ alive2 =>
          \E a : Chained(toslave, a, Onward(call)) /\ Stage(call, a, srv, store)
    <3>1. Pending(call, toslave) = toslave
      BY <1>1 DEF Pending
    <3> QED BY <1>1, <1>3, <3>1 DEF Recorded, Streamed, Streaming
  <2>3. lock2 => tomaster = << >> /\ (toslave = << >> \/ gone)
    BY <1>1 DEF Recorded, Doubled, Unanswered
  <2>4. lock2 => tomaster \in Seq(Frags)
    BY <2>3, EmptySeqs
  <2>5. lock2 /\ alive2 => toslave = << >> /\ Partial(call, srv, Place(call))
    BY <1>1, <1>3, <2>3 DEF Recorded, Lockstep
  <2>6. call.pc \in {"send", "receive"}
    BY <1>1
  <2>7. Loading(call', toslave, tomaster, srv, store, alive2, stream2, lock2)
    BY <1>1, <1>3, <1>4, <2>1, <2>2, <2>4, <2>5, <2>6, LoadOn
  <2> QED BY <1>1, <2>7
<1>5. CASE ~(call.segments /\ call.more)
  <2>1. PICK w \in {0, 1} : w = 0
    OBVIOUS
  <2>2. call' = Done(call, w) /\ w # 1
    BY <1>2, <1>5, <2>1 DEF SDOwriteFails
  <2>3. Loading(call', toslave, tomaster, srv, store, alive2, stream2, lock2)
    BY <1>1, <1>3, <2>2, LoadFailed
  <2> QED BY <1>1, <2>3
<1> QED BY <1>4, <1>5

LEMMA LoadHearing ==
  ASSUME Base, Hearing, call.op = "SDOwrite", NEW alive, NEW alive2, NEW stream, NEW stream2,
         NEW lock, NEW lock2, Recorded(alive, alive2, stream, stream2, lock, lock2),
         Loading(call, toslave, tomaster, srv, store, alive, stream, lock)
  PROVE  Loading(call', toslave', tomaster', srv', store', alive2, stream2, lock2)
<1> DEFINE m == Head(tomaster)
           ok == IF call.segments THEN m.type = "CoE" /\ m.kind = "downseg"
                 ELSE IsSdoResponse(m) /\ m.of = call.kept
           e == NextSegment(call)
<1>1. /\ Active(call) /\ call.pc = "receive" /\ toslave' = toslave /\ tomaster # << >>
      /\ tomaster' = Tail(tomaster) /\ srv' = srv /\ store' = store /\ call \in AnyCall
      /\ tomaster \in Seq(AnyMail) /\ m \in AnyMail
  BY HearingKeeps DEF Hearing, Base, Control, UnderWay
<1>2. Answer(call, m) = IF ~ok THEN Done(call, 0)
                        ELSE IF call.more THEN e ELSE Done(call, 1)
  BY DEF Answer, SDOwriteAnswer
<1>3. \/ call' = Answer(call, m)
      \/ /\ Segmented(Answer(call, m)) /\ "dry" \in faults'
         /\ call' = Done([Answer(call, m) EXCEPT !.more = FALSE], 1)
  BY DEF Hearing
<1>4. \A w : Done(call, w).pc = "return"
  BY <1>1, Leaves
<1>5. /\ call.obj \in Objects /\ Left(call) /\ toslave \in Seq(Downloads(call))
      /\ call.num \in {0, 1} /\ call.wkc # 1
      /\ stream => Streamed(call, toslave, srv, store, alive)
      /\ lock => Lockstep(call, toslave, tomaster, srv, store, alive)
  BY <1>1 DEF Loading
<1>6. stream2 => Streaming(call, toslave, srv, store)
  BY <1>1, <1>5 DEF Recorded, Streamed
<1>7. Pending(call, toslave) = toslave
  BY <1>1 DEF Pending
<1>8. ok => ~IsFragment(m) /\ m.kind \in SdoResponses
  BY DEF IsSdoResponse, SdoResponses, IsFragment
<1>9. lock2 /\ ok =>
        /\ toslave = << >> /\ tomaster' \in Seq(Frags) /\ tomaster \in Seq(Words(call, store))
        /\ alive2 => Partial(call, srv, Place(call))
  <2> SUFFICES ASSUME lock2, ok
               PROVE  /\ toslave = << >> /\ tomaster' \in Seq(Frags)
                      /\ tomaster \in Seq(Words(call, store))
                      /\ alive2 => Partial(call, srv, Place(call))
    OBVIOUS
  <2>1. Lockstep(call, toslave, tomaster, srv, store, alive)
    BY <1>5 DEF Recorded
  <2>2. tomaster \notin Seq(Frags)
    <3>1. tomaster \in Seq(Frags) => m \in Frags
      BY <1>1, HeadTailProperties
    <3> QED BY <1>8, <3>1 DEF Frags
  <2>3. /\ toslave = << >> /\ Single(tomaster) /\ tomaster \in Seq(Words(call, store))
        /\ alive => Partial(call, srv, Place(call))
    BY <1>1, <2>1, <2>2 DEF Lockstep
  <2>4. tomaster' \in Seq(Frags)
    BY <1>1, <1>8, <2>3, SingleTail
  <2> QED BY <2>3, <2>4 DEF Recorded
<1> HIDE DEF m, ok
<1>10. CASE ~ok
  <2>1. Answer(call, m) = Done(call, 0) /\ Answer(call, m).pc = "return"
    BY <1>2, <1>4, <1>10
  <2>2. call' = Done(call, 0)
    BY <1>3, <2>1 DEF Segmented
  <2>3. PICK w \in {0, 1} : w = 0
    OBVIOUS
  <2>4. call' = Done(call, w) /\ w # 1
    BY <2>2, <2>3
  <2>5. Loading(call', toslave, tomaster', srv, store, alive2, stream2, lock2)
    BY <1>1, <1>5, <2>4, LoadFailed
  <2> QED BY <1>1, <2>5
<1>11. CASE ok /\ ~call.more
  <2>1. Answer(call, m) = Done(call, 1) /\ Answer(call, m).pc = "return"
    BY <1>2, <1>4, <1>11
  <2>2. call' = Done(call, 1)
    BY <1>3, <2>1 DEF Segmented
  <2>3. Same(call, call') /\ call'.pc = "return" /\ call'.wkc = 1 /\ Keeps(call, call')
    BY <1>1, <2>2, Leaves DEF Done, AnyCall, Keeps
  <2>4. /\ Left(call') /\ call'.num \in {0, 1} /\ ~call'.more
        /\ Place(call') = Place(call) /\ NextToggle(call') = NextToggle(call)
        /\ call'.obj = call.obj /\ call'.all = call.all
        /\ \A a : Stage(call, a, srv, store) => Stage(call', a, srv, store)
    BY <1>1, <1>5, <1>11, <2>3, SameLoad DEF Same
  <2>5. Onward(call') = Onward(call) /\ Pending(call', toslave) = Pending(call, toslave)
    BY <1>1, <1>11, <2>3, <2>4 DEF Onward, Pending
  <2>6. stream2 => Streaming(call', toslave, srv, store)
    BY <1>6, <2>4, <2>5 DEF Streaming
  <2>7. lock2 => toslave = << >> /\ store[call'.obj] = call'.all
    <3> SUFFICES ASSUME lock2 PROVE toslave = << >> /\ store[call'.obj] = call'.all
      OBVIOUS
    <3>1. toslave = << >> /\ tomaster \in Seq(Words(call, store))
      BY <1>9, <1>11
    <3>2. m \in Words(call, store)
      BY <1>1, <3>1, HeadTailProperties DEF m
    <3> QED BY <1>8, <1>11, <2>4, <3>1, <3>2 DEF Words
  <2>8. call'.pc \in {"return", "idle"}
    BY <2>3
  <2>9. Loading(call', toslave, tomaster', srv, store, alive2, stream2, lock2)
    BY <1>1, <1>5, <2>3, <2>4, <2>6, <2>7, <2>8, LoadOver
  <2> QED BY <1>1, <2>9
<1>12. CASE ok /\ call.more
  <2>1. Answer(call, m) = e
    BY <1>2, <1>12
  <2>2. CASE call' = e
    <3>1. stream2 /\ alive2 =>
            \E a : Chained(toslave, a, Onward(call)) /\ Stage(call, a, srv, store)
      BY <1>6, <1>7 DEF Streaming
    <3>2. lock2 => tomaster' \in Seq(Frags)
      BY <1>9, <1>12
    <3>3. lock2 /\ alive2 => toslave = << >> /\ Partial(call, srv, Place(call))
      BY <1>9, <1>12
    <3>4. call.pc \in {"send", "receive"}
      BY <1>1
    <3>5. Loading(call', toslave, tomaster', srv, store, alive2, stream2, lock2)
      BY <1>1, <1>5, <1>12, <2>2, <3>1, <3>2, <3>3, <3>4, LoadOn
    <3> QED BY <1>1, <3>5
  <2>3. CASE "dry" \in faults' /\ call' = Done([e EXCEPT !.more = FALSE], 1)
    <3>1. ~stream2 /\ ~lock2
      BY <2>3 DEF Recorded, Cut, Doubled
    <3>2. Loads(call, e) /\ e \in AnyCall /\ Keeps(call, e)
      BY <1>1, <1>5, NextLoad, NextSegmentStep DEF StepOf
    <3> DEFINE b == [e EXCEPT !.more = FALSE]
    <3> HIDE DEF e
    <3>3. b \in AnyCall /\ Keeps(call, b) /\ b.rest = e.rest /\ b.num = e.num
          /\ b.more = FALSE /\ b.all = e.all
      BY <3>2 DEF AnyCall, Keeps
    <3>4. call' = Done(b, 1)
      BY <2>3
    <3> HIDE DEF b
    <3>5. Same(b, call') /\ call'.pc = "return" /\ Keeps(call, call') /\ call'.all = b.all
      BY <3>3, <3>4, Leaves DEF Done, AnyCall, Keeps
    <3>6. Left(call') /\ call'.num \in {0, 1} /\ ~call'.more
      BY <3>2, <3>3, <3>5 DEF Same, Left, Place, Loads
    <3>7. call'.pc \in {"return", "idle"}
      BY <3>5
    <3>8. Loading(call', toslave, tomaster', srv, store, alive2, stream2, lock2)
      BY <1>1, <1>5, <3>1, <3>5, <3>6, <3>7, LoadOver
    <3> QED BY <1>1, <3>8
  <2> QED BY <1>3, <2>1, <2>2, <2>3
<1> QED BY <1>10, <1>11, <1>12

LEMMA LoadServing ==
  ASSUME Base, Serving, call.op = "SDOwrite", NEW alive, NEW alive2, NEW stream, NEW stream2,
         NEW lock, NEW lock2, Recorded(alive, alive2, stream, stream2, lock, lock2),
         Loading(call, toslave, tomaster, srv, store, alive, stream, lock)
  PROVE  Loading(call', toslave', tomaster', srv', store', alive2, stream2, lock2)
<1>1. /\ toslave # << >> /\ call' = call /\ srv \in AnySlave /\ store \in AnyStore /\ alive
      /\ toslave \in Seq(AnyRequest) /\ call \in AnyCall /\ (Active(call) \/ call.pc = "idle")
      /\ tomaster \in Seq(AnyMail)
  BY DEF Serving, Base, Control, SlaveState, SlaveSane, UnderWay, Recorded
<1>2. /\ call.obj \in Objects /\ Left(call) /\ toslave \in Seq(Downloads(call))
      /\ call.num \in {0, 1}
      /\ IF call.pc \in {"return", "idle"} THEN call.wkc = 1 => ~call.more ELSE call.wkc # 1
      /\ call.pc = "send" => /\ call.out \in Downloads(call)
                             /\ call.segments => call.out.kind = "downsegreq"
      /\ stream => Streamed(call, toslave, srv, store, alive)
      /\ lock => Lockstep(call, toslave, tomaster, srv, store, alive)
  BY DEF Loading
<1>3. Active(call)
  BY <1>1, <1>2 DEF Active, Services, Writers
<1> DEFINE m == Head(toslave)
           r == SlaveDoes(srv, store, m)
           q == Served(Resting, store, <<Abort>>)
<1>4. m \in Downloads(call) /\ Tail(toslave) \in Seq(Downloads(call))
  BY <1>1, <1>2, HeadTailProperties
<1>5. m.kind \in {"downexp", "downreq", "downsegreq"}
  BY <1>4 DEF Downloads
<1> HIDE DEF m
<1>6. \/ Deliver(r)
      \/ Deliver(q) /\ "refused" \in faults'
  BY <1>5 DEF Serving, m
<1> HIDE DEF r, q
<1>7. /\ toslave' = Tail(toslave)
      /\ \/ srv' = r.srv /\ store' = r.store /\ tomaster' = tomaster \o r.replies
         \/ /\ srv' = Resting /\ store' = store /\ tomaster' = tomaster \o <<Abort>>
            /\ "refused" \in faults'
  BY <1>6 DEF Deliver, q, Served
<1>8. stream2 => Streamed(call, Tail(toslave), srv', store', alive2)
  <2> SUFFICES ASSUME stream2, ~(call.wkc # 1 /\ call.pc \in {"return", "idle"})
               PROVE  Streaming(call, Tail(toslave), srv', store')
    BY DEF Streamed
  <2>1. srv' = r.srv /\ store' = r.store
    BY <1>7 DEF Recorded, Cut
  <2>2. PICK a : Chained(Pending(call, toslave), a, Onward(call)) /\ Stage(call, a, srv, store)
    BY <1>1, <1>2 DEF Recorded, Streamed, Streaming
  <2>3. Pending(call, toslave) \in Seq(Downloads(call))
    BY <1>2, PendingTyped
  <2>4. call.pc = "send" => call.out \in AnyRequest
    BY <1>2 DEF Downloads
  <2>5. From(m) = a /\ Chained(Pending(call, Tail(toslave)), Upto(m), Onward(call))
    BY <1>1, <2>2, <2>3, <2>4, ChainTail DEF m
  <2>6. Stage(call, Upto(m), r.srv, r.store)
    BY <1>1, <1>3, <1>4, <2>2, <2>5, LoadTaken DEF r
  <2> QED BY <2>1, <2>5, <2>6 DEF Streaming
<1>9. lock2 => Lockstep(call, Tail(toslave), tomaster', srv', store', alive2)
  <2> SUFFICES ASSUME lock2
               PROVE  Lockstep(call, Tail(toslave), tomaster', srv', store', alive2)
    OBVIOUS
  <2>1. Lockstep(call, toslave, tomaster, srv, store, alive)
    BY <1>2 DEF Recorded
  <2>2. call.pc \notin {"drain", "send"} /\ ~(call.pc \in {"return", "idle"} /\ call.wkc = 1)
    BY <1>1, <2>1 DEF Lockstep
  <2>3. call.pc = "receive" =>
          tomaster \in Seq(Frags) /\ Tail(toslave) = << >> /\ Posed(call, m, srv)
    BY <1>1, <2>1 DEF Lockstep, m
  <2> SUFFICES ASSUME call.pc = "receive"
               PROVE  /\ Single(tomaster') /\ tomaster' \in Seq(Words(call, store'))
                      /\ Partial(call, srv', Place(call))
    BY <2>2, <2>3 DEF Lockstep
  <2>4. tomaster \in Seq(Words(call, store'))
    BY <2>3, FragsWords, SeqMonotonic
  <2>5. CASE srv' = r.srv /\ store' = r.store /\ tomaster' = tomaster \o r.replies
    <3>1. m.kind = "downsegreq" => Partial(call, srv, m.at)
      BY <2>3 DEF Posed
    <3>2. Partial(call, r.srv, Spot(m) + Len(m.data))
      BY <1>1, <1>3, <1>4, <3>1, LoadAnswered DEF r
    <3>3. PICK x \in AnyMail : /\ r.replies = <<x>>
                               /\ x.kind \in SdoResponses /\ Ends(m)
                                    => r.store[call.obj] = call.all
      BY <1>1, <1>3, <1>4, <3>1, LoadAnswered DEF r
    <3>4. Place(call) = Spot(m) + Len(m.data) /\ (~call.more => Ends(m))
      BY <2>3 DEF Posed
    <3>5. x \in Words(call, r.store)
      BY <3>3, <3>4 DEF Words
    <3>6. <<x>> \in Seq(Words(call, r.store))
      BY <3>5
    <3>7. tomaster \o <<x>> \in Seq(Words(call, r.store))
      BY <2>4, <2>5, <3>6, ConcatProperties
    <3>8. Single(tomaster \o <<x>>)
      BY <2>3, SingleSaid
    <3> QED BY <2>5, <3>2, <3>3, <3>4, <3>7, <3>8
  <2>6. CASE srv' = Resting /\ store' = store /\ tomaster' = tomaster \o <<Abort>>
    <3>1. Abort \in AnyMail /\ Abort.kind \notin SdoResponses
      BY AbortMail DEF PlainMail, SdoResponses
    <3>2. Abort \in Words(call, store)
      BY <3>1 DEF Words
    <3>3. <<Abort>> \in Seq(Words(call, store))
      BY <3>2
    <3>4. tomaster \o <<Abort>> \in Seq(Words(call, store))
      BY <2>4, <2>6, <3>3, ConcatProperties
    <3>5. Single(tomaster \o <<Abort>>)
      BY <2>3, <3>1, SingleSaid
    <3>6. Partial(call, Resting, Place(call))
      BY DEF Partial, Resting
    <3> QED BY <2>6, <3>4, <3>5, <3>6
  <2> QED BY <1>7, <2>5, <2>6
<1>10. Loading(call, Tail(toslave), tomaster', srv', store', alive2, stream2, lock2)
  BY <1>2, <1>4, <1>8, <1>9 DEF Loading
<1> QED BY <1>1, <1>7, <1>10

LEMMA LoadOpening ==
  ASSUME Opening, NEW alive, NEW stream, NEW lock
  PROVE  Loading(call', toslave', tomaster', srv', store', alive, stream, lock)
<1> SUFFICES ASSUME call'.op = "SDOwrite"
             PROVE  Loading(call', toslave', tomaster', srv', store', alive, stream, lock)
  BY DEF Loading
<1>1. PICK c : /\ Starting(c) /\ Keeps(c, call')
               /\ \/ call'.pc = "drain" /\ Same(c, call') /\ call'.wkc = 0
                  \/ call' = Begin(c) /\ StepOf(c, Begin(c))
  BY OpeningCall
<1>2. /\ c.op = "SDOwrite" /\ c \in AnyCall /\ c.obj \in Objects /\ c.wkc = 0
      /\ call'.obj = c.obj /\ call'.all = c.all /\ c.rest = c.all /\ c.all \in Data
      /\ c.more = FALSE /\ c.segments = FALSE /\ c.num = 0 /\ Active(c)
  BY <1>1, ActiveCall DEF Keeps, Starting, AnyCall, Active
<1>3. toslave' = << >> /\ toslave' \in Seq(Downloads(c)) /\ tomaster' \in Seq(Frags)
  BY EmptySeqs DEF Opening
<1>4. Downloads(call') = Downloads(c)
  BY <1>1, DownloadsKept
<1>5. Left(c) /\ Place(c) = 0
  BY <1>2, LeftAll
<1>6. Chained(<< >>, <<0, -1>>, <<0, -1>>)
  BY ChainNone
<1>7. Stage(call', <<0, -1>>, srv', store')
  BY DEF Stage
<1>8. CASE call'.pc = "drain" /\ Same(c, call') /\ call'.wkc = 0
  <2>1. call'.rest = c.rest /\ call'.num = 0
    BY <1>2, <1>8 DEF Same
  <2>2. Left(call')
    BY <1>2, <1>5, <2>1 DEF Left, Place
  <2>3. Onward(call') = <<0, -1>> /\ Pending(call', toslave') = << >>
    BY <1>3, <1>8 DEF Onward, Pending
  <2>4. Streaming(call', toslave', srv', store')
    BY <1>6, <1>7, <2>3 DEF Streaming
  <2>5. Lockstep(call', toslave', tomaster', srv', store', alive)
    BY <1>3, <1>8 DEF Lockstep
  <2>6. Streamed(call', toslave', srv', store', alive)
    BY <2>4 DEF Streamed
  <2> QED BY <1>2, <1>3, <1>4, <1>8, <2>1, <2>2, <2>5, <2>6 DEF Loading
<1>9. CASE call' = Begin(c)
  <2>1. call' = SDOwrite(c)
    BY <1>2, <1>9 DEF Begin
  <2>2. Loads(c, call') /\ From(call'.out) = <<0, -1>>
    BY <1>2, <2>1, FirstLoad
  <2>3. /\ call'.out \in Downloads(c) /\ Upto(call'.out) = Onward(call') /\ Left(call')
        /\ call'.pc = "send" /\ call'.wkc = 0 /\ call'.num \in {0, 1}
        /\ Place(call') = Spot(call'.out) + Len(call'.out.data)
        /\ (~call'.more => Ends(call'.out))
        /\ call'.segments => call'.out.kind = "downsegreq"
    BY <1>2, <2>2 DEF Loads
  <2>4. Chained(Append(toslave', call'.out), <<0, -1>>, Upto(call'.out))
    <3>1. Chained(toslave', <<0, -1>>, <<0, -1>>)
      BY <1>3, <1>6
    <3> QED BY <1>3, <2>2, <2>3, <3>1, ChainAsked
  <2>5. Streaming(call', toslave', srv', store')
    BY <1>7, <2>3, <2>4 DEF Streaming, Pending
  <2>6. call'.out.kind # "downsegreq"
    BY <2>2, <2>3 DEF From, Downloads
  <2>7. Posed(call', call'.out, srv')
    BY <2>3, <2>6 DEF Posed
  <2>8. Lockstep(call', toslave', tomaster', srv', store', alive)
    BY <1>3, <2>3, <2>7 DEF Lockstep
  <2>9. Streamed(call', toslave', srv', store', alive)
    BY <2>5 DEF Streamed
  <2> QED BY <1>2, <1>3, <1>4, <2>3, <2>8, <2>9 DEF Loading
<1> QED BY <1>1, <1>8, <1>9

LEMMA LoadTurn ==
  ASSUME Base, Turn, NEW alive, NEW alive2, NEW stream, NEW stream2, NEW lock, NEW lock2,
         Recorded(alive, alive2, stream, stream2, lock, lock2),
         Loading(call, toslave, tomaster, srv, store, alive, stream, lock)
  PROVE  Loading(call', toslave', tomaster', srv', store', alive2, stream2, lock2)
<1>1. Keeps(call, call')
  BY TurnKeeps
<1>2. CASE call.op # "SDOwrite"
  BY <1>1, <1>2 DEF Loading, Keeps
<1>3. CASE call.op = "SDOwrite"
  <2>1. ~Polling
    BY <1>3, PollingKeeps
  <2>2. CASE Wire
    BY <1>3, <2>2, LoadWire
  <2>3. CASE Ending
    BY <1>3, <2>3, LoadEnding
  <2>4. CASE Sending
    BY <1>3, <2>4, LoadSending
  <2>5. CASE NotSending
    BY <1>3, <2>5, LoadNotSending
  <2>6. CASE Hearing
    BY <1>3, <2>6, LoadHearing
  <2>7. CASE NotHearing
    BY <1>3, <2>7, LoadNotHearing
  <2>8. CASE Mixing
    BY <1>3, <2>8, LoadMixing
  <2>9. CASE Serving
    BY <1>3, <2>9, LoadServing
  <2> QED BY <2>1, <2>2, <2>3, <2>4, <2>5, <2>6, <2>7, <2>8, <2>9 DEF Turn
<1> QED BY <1>2, <1>3

LEMMA LoadingKept == Spec => []LoadingInv
<1>1. Init => LoadingInv
  BY DEF Init, NoCall, LoadingInv, Loading
<1>2. Base /\ Born /\ LoadingInv /\ [Next]_vars => LoadingInv'
  <2> SUFFICES ASSUME Base, Born, LoadingInv, [Next]_vars, quiet' PROVE LoadingInv'
    BY DEF LoadingInv
  <2>1. CASE Opening
    BY <2>1, LoadOpening DEF LoadingInv
  <2>2. CASE quiet /\ faults \subseteq faults' /\ (gone => gone') /\ Turn
    <3> DEFINE alive == ~gone
               stream == faults \cap Cut = {}
               lock == faults \cap Doubled = {}
               alive2 == ~gone'
               stream2 == faults' \cap Cut = {}
               lock2 == faults' \cap Doubled = {}
    <3>1. Loading(call, toslave, tomaster, srv, store, alive, stream, lock)
      BY <2>2 DEF LoadingInv
    <3>2. Recorded(alive, alive2, stream, stream2, lock, lock2)
      BY <2>2 DEF Recorded
    <3> HIDE DEF alive, stream, lock, alive2, stream2, lock2
    <3>3. Loading(call', toslave', tomaster', srv', store', alive2, stream2, lock2)
      BY <2>2, <3>1, <3>2, LoadTurn
    <3> QED BY <3>3 DEF LoadingInv, alive2, stream2, lock2
  <2> QED BY <2>1, <2>2, QuietTurns
<1> QED BY <1>1, <1>2, BaseBorn, PTL DEF Spec

(* A write that succeeds has written all of it: ecx_SDOwrite where no      *)
(* fault makes an acknowledgement stand for another segment, ecx_EOEsetIp  *)
(* whatever happens, ecx_SoEwrite where every fragment was sent.           *)
THEOREM WritesExact == Spec => []WriteExact
<1>1. Base /\ SettingInv /\ WritingInv /\ LoadingInv => WriteExact
  <2> SUFFICES ASSUME Base, SettingInv, WritingInv, LoadingInv, Success, quiet,
                      toslave = << >>,
                      \/ call.op = "SDOwrite" /\ "dry" \notin faults /\ ~Ambiguous
                      \/ call.op = "EOEsetIp"
                      \/ call.op = "SoEwrite" /\ "unsent" \notin faults
               PROVE  store[call.obj] = call.all
    BY DEF WriteExact, Without
  <2>1. call.wkc = 1 /\ call.pc = "idle"
    BY DEF Success, Returned, Base, Control, AnyCall
  <2>2. CASE call.op = "EOEsetIp"
    BY <2>1, <2>2 DEF SettingInv, Setting
  <2>3. CASE call.op = "SoEwrite" /\ "unsent" \notin faults
    BY <2>1, <2>3 DEF WritingInv, Writing, Finished, Growing
  <2>4. CASE call.op = "SDOwrite" /\ "dry" \notin faults /\ ~Ambiguous
    <3> DEFINE stream == faults \cap Cut = {}
               lock == faults \cap Doubled = {}
    <3>1. stream \/ lock
      BY <2>4 DEF Ambiguous, Cut, Doubled
    <3>2. /\ call.obj \in Objects /\ ~call.more
          /\ stream => Streamed(call, toslave, srv, store, ~gone)
          /\ lock => Lockstep(call, toslave, tomaster, srv, store, ~gone)
      BY <2>1, <2>4 DEF LoadingInv, Loading
    <3> HIDE DEF stream, lock
    <3>3. CASE lock
      BY <2>1, <3>2, <3>3 DEF Lockstep
    <3>4. CASE stream
      <4>1. PICK a : Chained(Pending(call, toslave), a, Onward(call)) /\ Stage(call, a, srv, store)
        BY <2>1, <3>2, <3>4 DEF Streamed, Streaming
      <4>2. Pending(call, toslave) = << >> /\ Onward(call) = <<Len(call.all), 2>>
        BY <2>1, <3>2 DEF Pending, Onward
      <4>3. a = <<Len(call.all), 2>>
        BY <4>1, <4>2 DEF Chained
      <4>4. a # <<0, -1>> /\ ~(Taking(call, srv) /\ a = <<Len(srv.data), srv.n>>)
        BY <4>3 DEF Taking
      <4> QED BY <4>1, <4>4 DEF Stage
    <3> QED BY <3>1, <3>3, <3>4
  <2> QED BY <2>2, <2>3, <2>4
<1> QED BY <1>1, CallsBase, SettingKept, WritingKept, LoadingKept, PTL

-----------------------------------------------------------------------------
(* ecx_FOEread: packet n holds the file from InData * (n - 1) on, and is   *)
(* full unless the file ends with it.  What the slave still has goes on    *)
(* where the packet it sent last has ended.                                *)

LEMMA MarkFacts ==
  ASSUME NEW n \in Int
  PROVE  Mark(n) \in Int /\ Mark(n + 1) = Mark(n) + InData
<1>1. InData \in Int
  BY MailSizes
<1> QED BY <1>1 DEF Mark

LEMMA MarkZero == Mark(0) = 0
BY MailSizes DEF Mark

LEMMA OrdersKept ==
  ASSUME NEW c, NEW d, Keeps(c, d)
  PROVE  Orders(d) = Orders(c)
BY DEF Keeps, Orders

LEMMA FragsFiles == \A all : Frags \subseteq FileMails(all)
BY DEF Frags, FileMails, IsFragment

LEMMA PacketFrom ==
  ASSUME NEW n \in Int, NEW d \in Data
  PROVE  LET m == [Packet("data", n) EXCEPT !.data = d] IN
         /\ m \in AnyRequest /\ m.type = "FoE" /\ m.kind = "data" /\ m.n = n /\ m.data = d
<1> DEFINE r == Packet("data", n)
<1>1. r \in AnyRequest /\ r.kind = "data" /\ r.type = "FoE" /\ r.n = n
  BY FoePacket
<1> HIDE DEF r
<1>2. r \in AnyMail
  BY <1>1 DEF AnyRequest
<1> DEFINE m == [r EXCEPT !.data = d]
<1>3. m \in AnyMail /\ m.type = "FoE" /\ m.kind = "data" /\ m.n = n /\ m.data = d
  BY <1>1, <1>2 DEF AnyMail
<1> HIDE DEF m
<1>4. m \in AnyRequest
  BY <1>3 DEF AnyRequest
<1> QED BY <1>3, <1>4 DEF m, r

LEMMA FileData ==
  ASSUME NEW s \in AnySlave, NEW st, NEW all \in Data, Piece(all, Mark(s.n), s.data),
         Mark(s.n) + Len(s.data) = Len(all), NEW r, r = SendData(s, st)
  PROVE  FileSent(s, st, all, r)
<1> DEFINE chunk == First(s.data, InData)
           left == After(s.data, InData)
           more == IF Len(chunk) < InData THEN "none" ELSE "fread"
           t == [s EXCEPT !.data = left, !.n = @ + 1, !.op = more]
           x == [Packet("data", s.n + 1) EXCEPT !.data = chunk]
<1>1. /\ s.n \in Int /\ s.data \in Data /\ InData \in Nat /\ InData > 0
      /\ Len(s.data) \in Nat /\ Len(all) \in Nat /\ Mark(s.n) \in Nat
      /\ Mark(s.n + 1) = Mark(s.n) + InData
  <2>1. s.n \in Int /\ s.data \in Data
    BY DEF AnySlave
  <2>2. Mark(s.n + 1) = Mark(s.n) + InData
    BY <2>1, MarkFacts
  <2>3. Len(s.data) \in Nat /\ Len(all) \in Nat
    BY <2>1, LenProperties DEF Data
  <2>4. Mark(s.n) \in Nat
    BY DEF Piece
  <2> QED BY <2>1, <2>2, <2>3, <2>4, MailSizes
<1>2. r = Served(t, st, <<x>>)
  BY DEF SendData
<1>3. /\ Piece(all, Mark(s.n), chunk) /\ Len(chunk) = Least(InData, Len(s.data))
      /\ left \in Data /\ Len(all) - Len(left) = Mark(s.n) + Len(chunk)
      /\ Piece(all, Len(all) - Len(left), left)
  <2>1. Mark(s.n) = Len(all) - Len(s.data)
    BY <1>1
  <2> QED BY <1>1, <2>1, LeftCut
<1>4. chunk \in Data /\ Len(chunk) \in Nat /\ Len(left) \in Nat
  <2>1. chunk \in Data
    BY <1>3 DEF Piece
  <2> QED BY <1>3, <2>1, LenProperties DEF Data
<1> HIDE DEF chunk, left
<1>5. Len(chunk) = InData \/ (Len(chunk) < InData /\ Len(chunk) = Len(s.data))
  BY <1>1, <1>3 DEF Least
<1>6. x \in AnyRequest /\ x.type = "FoE" /\ x.kind = "data" /\ x.n = s.n + 1 /\ x.data = chunk
  BY <1>1, <1>4, PacketFrom
<1>7. x \in FileMails(all)
  <2> HIDE DEF x
  <2>1. x.n - 1 = s.n
    BY <1>1, <1>6
  <2>2. Packed(all, x)
    BY <1>1, <1>3, <1>5, <1>6, <2>1 DEF Packed
  <2> QED BY <1>6, <2>2 DEF FileMails, AnyRequest
<1>8. Remains(t, all)
  <2>1. t.data = left /\ t.n = s.n + 1 /\ t.op = more
    <3> HIDE DEF more
    <3> QED BY DEF AnySlave
  <2>2. t.op = "fread" => Len(chunk) = InData
    BY <1>5, <2>1
  <2>3. Len(chunk) = InData => Len(all) - Len(left) = Mark(s.n + 1)
    BY <1>1, <1>3
  <2>4. Len(all) - Len(left) = Mark(s.n + 1) => Mark(s.n + 1) + Len(left) = Len(all)
    BY <1>1, <1>4
  <2> HIDE DEF t
  <2> QED BY <1>3, <2>1, <2>2, <2>3, <2>4 DEF Remains
<1> HIDE DEF t, x
<1> QED BY <1>2, <1>7, <1>8 DEF Served, FileSent

LEMMA FilingSame ==
  ASSUME NEW c, NEW d, Keeps(c, d), Same(c, d), d.pc = c.pc, d.out = c.out,
         d.wkc = c.wkc, NEW ts, NEW tm, NEW tm2, NEW s, NEW st, c.op = "FOEread",
         tm \in Seq(Frags) => tm2 \in Seq(Frags),
         tm \in Seq(FileMails(st[c.obj])) => tm2 \in Seq(FileMails(st[c.obj])),
         Filing(c, ts, tm, s, st)
  PROVE  Filing(d, ts, tm2, s, st)
<1>1. Orders(d) = Orders(c) /\ d.obj = c.obj /\ d.op = c.op
  BY OrdersKept DEF Keeps
<1>2. d.data = c.data /\ d.more = c.more /\ d.num = c.num
  BY DEF Same
<1>3. Acquired(c, st[c.obj]) => Acquired(d, st[c.obj])
  BY <1>2 DEF Acquired
<1>4. Requesting(c, ts, tm) => Requesting(d, ts, tm2)
  BY DEF Requesting
<1>5. Confirming(c, ts, s, st[c.obj]) => Confirming(d, ts, s, st[c.obj])
  BY DEF Confirming
<1> QED BY <1>1, <1>2, <1>3, <1>4, <1>5 DEF Filing

LEMMA FilingOver ==
  ASSUME NEW c, NEW d, Keeps(c, d), d.pc \in {"return", "idle"}, c.obj \in Objects,
         NEW ts \in Seq(Orders(c)), NEW tm2, NEW s, NEW st,
         InData = OutData /\ d.wkc = 1 => d.data = st[d.obj]
  PROVE  Filing(d, ts, tm2, s, st)
<1>1. Orders(d) = Orders(c) /\ d.obj = c.obj
  BY OrdersKept DEF Keeps
<1> QED BY <1>1 DEF Filing

LEMMA FilingOpening ==
  ASSUME Opening, SlaveState
  PROVE  Filing(call', toslave', tomaster', srv', store')
<1> SUFFICES ASSUME call'.op = "FOEread"
             PROVE  Filing(call', toslave', tomaster', srv', store')
  BY DEF Filing
<1>1. PICK c : /\ Starting(c) /\ Keeps(c, call')
               /\ \/ call'.pc = "drain" /\ Same(c, call') /\ call'.wkc = 0
                  \/ call' = Begin(c) /\ StepOf(c, Begin(c))
  BY OpeningCall
<1>2. /\ c.op = "FOEread" /\ c \in AnyCall /\ c.obj \in Objects /\ c.wkc = 0
      /\ call'.obj = c.obj /\ c.data = << >> /\ c.num = 0 /\ Active(c)
  BY <1>1 DEF Keeps, Starting, Active
<1>3. toslave' = << >> /\ toslave' \in Seq(Orders(c)) /\ tomaster' \in Seq(Frags)
      /\ tomaster' \in Seq(FileMails(store[c.obj])) /\ store' = store
  BY EmptySeqs DEF Opening
<1>4. Orders(call') = Orders(c)
  BY <1>1, OrdersKept
<1>5. CASE call'.pc = "drain" /\ Same(c, call') /\ call'.wkc = 0
  BY <1>2, <1>3, <1>4, <1>5 DEF Filing
<1>6. CASE call' = Begin(c)
  <2> DEFINE b == [c EXCEPT !.more = TRUE]
             m == Mail("FoE", "read", c.obj)
  <2>1. call' = Ask(b, m)
    BY <1>2, <1>6 DEF Begin, FOEread
  <2>2. m \in AnyRequest /\ m.type = "FoE" /\ m.kind = "read" /\ m.of = c.obj
    <3>1. m \in AnyRequest
      BY <1>2, OtherRequest
    <3>2. PlainMail(m, "FoE", "read", c.obj)
      BY <1>2, OneMail DEF Kinds
    <3> QED BY <3>1, <3>2 DEF PlainMail
  <2>3. b \in AnyCall /\ b.data = << >> /\ b.num = 0 /\ b.more = TRUE
    BY <1>2 DEF AnyCall
  <2> HIDE DEF b, m
  <2>4. /\ call'.out = m /\ call'.pc = "send" /\ call'.data = << >> /\ call'.num = 0
        /\ call'.more = TRUE
    BY <2>1, <2>3, Leaves DEF Same
  <2>5. call'.out \in Orders(call')
    BY <1>2, <1>4, <2>2, <2>4 DEF Orders
  <2>6. Acquired(call', store[c.obj])
    <3>1. store[c.obj] \in Data
      BY <1>2 DEF SlaveState, AnyStore
    <3>2. Piece(store[c.obj], 0, << >>) /\ Len(<< >>) = 0 /\ Mark(0) = 0
      BY <3>1, EmptyPiece, EmptyData, MarkZero
    <3> QED BY <2>4, <3>2 DEF Acquired
  <2>7. Requesting(call', toslave', tomaster')
    BY <1>3, <2>2, <2>4 DEF Requesting
  <2> QED BY <1>2, <1>3, <1>4, <2>4, <2>5, <2>6, <2>7 DEF Filing
<1> QED BY <1>1, <1>5, <1>6

LEMMA FilingSending ==
  ASSUME Base, Sending, call.op = "FOEread", InData = OutData,
         Filing(call, toslave, tomaster, srv, store)
  PROVE  Filing(call', toslave', tomaster', srv', store')
<1>1. /\ Active(call) /\ call.pc = "send" /\ Keeps(call, call') /\ call \in AnyCall
      /\ tomaster' = tomaster /\ srv' = srv /\ store' = store /\ call' = Sent(call)
      /\ toslave' = Append(toslave, call.out)
  BY SendingKeeps, ActiveCall DEF Sending
<1>2. /\ call.obj \in Objects /\ toslave \in Seq(Orders(call)) /\ call.out \in Orders(call)
      /\ Acquired(call, store[call.obj]) /\ tomaster \in Seq(FileMails(store[call.obj]))
      /\ \/ Requesting(call, toslave, tomaster)
         \/ Confirming(call, toslave, srv, store[call.obj])
  BY <1>1 DEF Filing
<1>3. toslave' \in Seq(Orders(call)) /\ call'.obj = call.obj /\ Orders(call') = Orders(call)
  BY <1>1, <1>2, AppendProperties, OrdersKept DEF Keeps
<1>4. CASE ~call.more
  <2>1. call' = Done(call, 1)
    BY <1>1, <1>4 DEF Sent
  <2>2. call'.pc = "return" /\ call'.data = call.data
    BY <1>1, <2>1, Leaves DEF Same
  <2>3. call'.data = store[call'.obj]
    BY <1>2, <1>3, <1>4, <2>2 DEF Acquired
  <2>4. Filing(call', toslave', tomaster', srv, store)
    BY <1>1, <1>2, <1>3, <2>2, <2>3, FilingOver
  <2> QED BY <1>1, <2>4
<1>5. CASE call.more
  <2>1. call' = Await(call)
    BY <1>1, <1>5 DEF Sent
  <2>2. Same(call, call') /\ call'.pc = "receive" /\ call'.wkc = call.wkc
    BY <1>1, <2>1, Leaves
  <2>3. call'.data = call.data /\ call'.more = call.more /\ call'.num = call.num
    BY <2>2 DEF Same
  <2>4. Acquired(call', store[call.obj])
    BY <1>2, <2>3 DEF Acquired
  <2>5. Requesting(call, toslave, tomaster) => Requesting(call', toslave', tomaster)
    <3> SUFFICES ASSUME Requesting(call, toslave, tomaster)
                 PROVE  Requesting(call', toslave', tomaster)
      OBVIOUS
    <3>1. toslave' = <<call.out>> /\ tomaster \in Seq(Frags) /\ call.out.kind = "read"
      BY <1>1 DEF Requesting
    <3>2. toslave' # << >> /\ Tail(toslave') = << >> /\ Head(toslave') = call.out
      BY <3>1
    <3> QED BY <2>2, <3>1, <3>2 DEF Requesting
  <2>6. Confirming(call, toslave, srv, store[call.obj])
          => Confirming(call', toslave', srv, store[call.obj])
    BY <1>1, <2>2, AppendProperties DEF Confirming
  <2> QED BY <1>1, <1>2, <1>3, <1>5, <2>2, <2>3, <2>4, <2>5, <2>6 DEF Filing
<1> QED BY <1>4, <1>5

(* Whatever fails, ecx_FOEread and ecx_FOEwrite return 0.                   *)
LEMMA FilingFails ==
  ASSUME Base, NotSending \/ NotHearing, call.op = "FOEread",
         Filing(call, toslave, tomaster, srv, store), InData = OutData
  PROVE  Filing(call', toslave', tomaster', srv', store')
<1>1. /\ Active(call) /\ Keeps(call, call') /\ call \in AnyCall /\ call' = Fails(call)
      /\ srv' = srv /\ store' = store
      /\ toslave' = toslave \/ (call.pc = "send" /\ toslave' = Append(toslave, call.out))
  BY SendingKeeps, NotHearingKeeps, ActiveCall DEF NotSending, NotHearing, mailvars
<1>2. call' = Done(call, 0)
  BY <1>1 DEF Fails
<1>3. call'.pc \in {"return", "idle"} /\ call'.wkc = 0
  BY <1>1, <1>2, Leaves
<1>4. toslave \in Seq(Orders(call)) /\ call.obj \in Objects
      /\ (call.pc = "send" => call.out \in Orders(call))
  BY DEF Filing
<1>5. toslave' \in Seq(Orders(call))
  BY <1>1, <1>4, AppendProperties
<1>6. Filing(call', toslave', tomaster', srv, store)
  BY <1>1, <1>3, <1>4, <1>5, FilingOver
<1> QED BY <1>1, <1>6

LEMMA FilingHearing ==
  ASSUME Base, Hearing, call.op = "FOEread", InData = OutData,
         Filing(call, toslave, tomaster, srv, store)
  PROVE  Filing(call', toslave', tomaster', srv', store')
<1> DEFINE m == Head(tomaster)
           all == store[call.obj]
           ok == /\ m.type = "FoE" /\ m.kind = "data"
                 /\ InOrder(call, m) /\ Len(call.data) + Len(m.data) <= call.room
           got == call.data \o m.data
           full == Len(m.data) = OutData
           b == [call EXCEPT !.data = got, !.num = @ + 1, !.more = full]
           r == Packet("ack", m.n)
<1>1. /\ Active(call) /\ call.pc = "receive" /\ toslave' = toslave /\ tomaster # << >>
      /\ tomaster' = Tail(tomaster) /\ srv' = srv /\ store' = store /\ call \in AnyCall
      /\ m \in AnyMail /\ Keeps(call, call') /\ Answer(call, m).op = call.op
  BY HearingKeeps DEF Hearing, Base, Control, StepOf, Keeps
<1>2. Answer(call, m) = FOEreadAnswer(call, m)
  BY DEF Answer
<1>3. call' = FOEreadAnswer(call, m)
  BY <1>1, <1>2 DEF Hearing, Segmented
<1>4. /\ call.obj \in Objects /\ toslave \in Seq(Orders(call)) /\ call.more
      /\ Acquired(call, all) /\ tomaster \in Seq(FileMails(all))
      /\ \/ Requesting(call, toslave, tomaster)
         \/ Confirming(call, toslave, srv, all)
  BY <1>1 DEF Filing
<1>5. m \in FileMails(all) /\ Tail(tomaster) \in Seq(FileMails(all))
      /\ (tomaster \in Seq(Frags) => m \in Frags)
  BY <1>1, <1>4, HeadTailProperties
<1>6. all \in Data /\ call.data \in Data /\ call.num \in Int /\ m.n \in Int /\ m.data \in Data
  BY <1>1, <1>4 DEF Base, SlaveState, AnyStore, AnyCall, AnyMail
<1> HIDE DEF m, all
<1>7. CASE ~ok
  <2>1. call' = Done(call, 0)
    BY <1>3, <1>7 DEF FOEreadAnswer
  <2>2. call'.pc \in {"return", "idle"} /\ call'.wkc = 0
    BY <1>1, <2>1, Leaves
  <2>3. Filing(call', toslave, tomaster', srv, store)
    BY <1>1, <1>4, <2>2, FilingOver
  <2> QED BY <1>1, <2>3
<1>8. CASE ok
  <2>1. call' = Ask(b, r)
    BY <1>3, <1>8 DEF FOEreadAnswer
  <2>2. Packed(all, m) /\ m.n = call.num + 1
    BY <1>5, <1>8 DEF FileMails, InOrder
  <2>3. /\ Piece(all, Mark(call.num), m.data)
        /\ Len(m.data) # InData => Mark(call.num) + Len(m.data) = Len(all)
    <3>1. m.n - 1 = call.num
      BY <1>6, <2>2
    <3> QED BY <2>2, <3>1 DEF Packed
  <2>4. Piece(all, 0, call.data) /\ Len(call.data) = Mark(call.num)
    BY <1>4 DEF Acquired
  <2>5. Piece(all, 0, got) /\ Len(got) = Len(call.data) + Len(m.data) /\ Len(got) \in Nat
    BY <1>6, <2>3, <2>4, PieceAdded
  <2>6. full => Len(got) = Mark(call.num + 1)
    BY <1>6, <2>4, <2>5, MarkFacts
  <2>7. ~full => got = all
    <3> SUFFICES ASSUME ~full PROVE got = all
      OBVIOUS
    <3>1. Len(got) = Len(all)
      BY <2>3, <2>4, <2>5
    <3>2. Len(got) = Least(Len(all), Len(all)) /\ Len(all) \in Nat
      BY <2>5, <3>1 DEF Least
    <3> HIDE DEF got
    <3> QED BY <1>6, <2>5, <3>1, <3>2, PieceWhole
  <2>8. got \in Data /\ full \in BOOLEAN
    BY <2>5 DEF Piece
  <2> HIDE DEF got, full
  <2>9. b \in AnyCall /\ b.data = got /\ b.num = call.num + 1 /\ b.more = full
    <3> DEFINE k == call.num + 1
    <3>1. k \in Int
      BY <1>6
    <3>2. b = [call EXCEPT !.data = got, !.num = k, !.more = full]
      OBVIOUS
    <3> HIDE DEF k, b
    <3>3. b \in AnyCall /\ b.data = got /\ b.num = k /\ b.more = full
      BY <1>1, <2>8, <3>1, <3>2 DEF AnyCall
    <3> QED BY <3>3 DEF k
  <2> HIDE DEF b
  <2>10. r \in Acks
    BY <1>6, FoePacket DEF Acks
  <2> HIDE DEF r
  <2>11. /\ call'.out = r /\ call'.pc = "send" /\ call'.data = got
         /\ call'.num = call.num + 1 /\ call'.more = full
    BY <2>1, <2>9, Leaves DEF Same
  <2>12. Acquired(call', all)
    BY <2>5, <2>6, <2>7, <2>11 DEF Acquired
  <2>13. Confirming(call', toslave, srv, all)
    <3>1. m \notin Frags
      BY <1>8 DEF Frags, IsFragment
    <3>2. Confirming(call, toslave, srv, all)
      BY <1>4, <1>5, <3>1 DEF Requesting
    <3> QED BY <2>10, <2>11, <3>2 DEF Confirming
  <2>14. call'.obj = call.obj /\ Orders(call') = Orders(call) /\ call'.out \in Orders(call)
    BY <1>1, <2>10, <2>11, OrdersKept DEF Keeps, Orders
  <2> QED BY <1>1, <1>4, <1>5, <2>11, <2>12, <2>13, <2>14 DEF Filing, all
<1> QED BY <1>7, <1>8

LEMMA FilingServing ==
  ASSUME Base, Serving, call.op = "FOEread", InData = OutData,
         Filing(call, toslave, tomaster, srv, store)
  PROVE  Filing(call', toslave', tomaster', srv', store')
<1> DEFINE m == Head(toslave)
           all == store[call.obj]
           r == SlaveDoes(srv, store, m)
<1>1. /\ toslave # << >> /\ call' = call /\ srv \in AnySlave /\ store \in AnyStore
      /\ call \in AnyCall
  BY DEF Serving, Base, Control, SlaveState, SlaveSane
<1>2. /\ call.obj \in Objects /\ toslave \in Seq(Orders(call))
      /\ (call.pc = "send" => call.out \in Orders(call)) /\ (call.pc = "receive" => call.more)
      /\ call.pc \in {"send", "receive"} =>
           /\ Acquired(call, all) /\ tomaster \in Seq(FileMails(all))
           /\ Requesting(call, toslave, tomaster) \/ Confirming(call, toslave, srv, all)
      /\ call.pc \in {"return", "idle"} /\ call.wkc = 1 => call.data = all
  BY DEF Filing
<1>3. m \in Orders(call) /\ Tail(toslave) \in Seq(Orders(call))
  BY <1>1, <1>2, HeadTailProperties
<1>4. m.type = "FoE" /\ m.kind \in {"read", "ack"} /\ (m.kind = "read" => m.of = call.obj)
  BY <1>3 DEF Orders, Acks
<1>5. all \in Data /\ srv.n \in Int
  BY <1>1, <1>2 DEF AnyStore, AnySlave
<1>6. Deliver(r)
  <2> HIDE DEF r
  <2> QED BY <1>4 DEF Serving, r
<1>7. r = FoeServe(srv, store, m)
  BY <1>4 DEF SlaveDoes
<1> DEFINE t == [op |-> "fread", of |-> m.of, data |-> store[m.of], n |-> 0, size |-> 0]
           q == IF m.kind = "read" THEN SendData(t, store)
                ELSE IF srv.op = "fread" /\ m.n = srv.n THEN SendData(srv, store)
                ELSE Served(srv, store, << >>)
<1>8. r = q
  BY <1>4, <1>7 DEF FoeServe
<1> HIDE DEF m, r
<1>9. toslave' = Tail(toslave) /\ tomaster' = tomaster \o q.replies /\ store' = q.store
      /\ srv' = q.srv
  BY <1>6, <1>8 DEF Deliver, m
<1>10. q.store = store
  BY DEF SendData, Served
<1>11. Remains(srv, all) \/ m.kind = "read" =>
         /\ Remains(q.srv, all)
         /\ q.replies = << >> \/ \E x \in FileMails(all) : q.replies = <<x>>
  <2>1. CASE m.kind = "read"
    <3>1. t \in AnySlave /\ t.n = 0 /\ t.data = all /\ q = SendData(t, store)
      BY <1>2, <1>4, <1>5, <2>1 DEF AnySlave, SlaveOps, Addressed
    <3>2. Piece(all, Mark(t.n), t.data) /\ Mark(t.n) + Len(t.data) = Len(all)
      <4>1. Mark(t.n) = 0 /\ Len(all) \in Nat
        BY <1>5, <3>1, MarkZero, LenProperties DEF Data
      <4> QED BY <1>5, <3>1, <4>1 DEF Piece
    <3> HIDE DEF t, q
    <3>3. FileSent(t, store, all, q)
      BY <1>5, <3>1, <3>2, FileData
    <3> QED BY <3>3 DEF FileSent
  <2>2. CASE m.kind # "read" /\ srv.op = "fread" /\ m.n = srv.n /\ Remains(srv, all)
    <3>1. q = SendData(srv, store)
      BY <2>2
    <3>2. Piece(all, Mark(srv.n), srv.data) /\ Mark(srv.n) + Len(srv.data) = Len(all)
      BY <2>2 DEF Remains
    <3> HIDE DEF t, q
    <3>3. FileSent(srv, store, all, q)
      BY <1>1, <1>5, <3>1, <3>2, FileData
    <3> QED BY <3>3 DEF FileSent
  <2>3. CASE m.kind # "read" /\ ~(srv.op = "fread" /\ m.n = srv.n)
    BY <2>3 DEF Served
  <2> QED BY <2>1, <2>2, <2>3
<1> HIDE DEF q
<1>12. ASSUME call.pc \in {"send", "receive"}
       PROVE  /\ tomaster' \in Seq(FileMails(all))
              /\ Confirming(call, Tail(toslave), q.srv, all)
  <2>1. \/ Tail(toslave) = << >> /\ call.pc = "receive" /\ m.kind = "read"
        \/ /\ toslave \in Seq(Acks) /\ (call.pc = "send" => call.out \in Acks)
           /\ Remains(srv, all)
    BY <1>1, <1>2, <1>12 DEF Requesting, Confirming, m
  <2>2. /\ Remains(q.srv, all)
        /\ q.replies = << >> \/ \E x \in FileMails(all) : q.replies = <<x>>
    BY <1>11, <2>1
  <2>3. q.replies \in Seq(FileMails(all))
    <3>1. << >> \in Seq(FileMails(all)) /\ \A x \in FileMails(all) : <<x>> \in Seq(FileMails(all))
      BY EmptySeqs
    <3> QED BY <2>2, <3>1
  <2>4. tomaster' \in Seq(FileMails(all))
    BY <1>2, <1>9, <1>12, <2>3, ConcatProperties
  <2>5. Tail(toslave) \in Seq(Acks) /\ (call.pc = "send" => call.out \in Acks)
    BY <1>1, <2>1, EmptySeqs, HeadTailProperties
  <2> QED BY <2>2, <2>4, <2>5 DEF Confirming
<1>13. Filing(call, Tail(toslave), tomaster', q.srv, store)
  BY <1>2, <1>3, <1>12 DEF Filing, all
<1> QED BY <1>1, <1>9, <1>10, <1>13

LEMMA FilingTurn ==
  ASSUME Base, Turn, Filing(call, toslave, tomaster, srv, store)
  PROVE  Filing(call', toslave', tomaster', srv', store')
<1>1. Keeps(call, call') /\ call \in AnyCall
  BY TurnKeeps DEF Base, Control
<1> SUFFICES ASSUME call.op = "FOEread", InData = OutData
             PROVE  Filing(call', toslave', tomaster', srv', store')
  BY <1>1 DEF Filing, Keeps
<1>2. ~Polling
  BY PollingKeeps
<1>3. CASE Wire
  <2>1. call' = call /\ toslave' = toslave /\ srv' = srv /\ store' = store /\ Same(call, call)
    BY <1>3 DEF Wire, Same
  <2>2. /\ tomaster \in Seq(Frags) => tomaster' \in Seq(Frags)
        /\ tomaster \in Seq(FileMails(store[call.obj]))
             => tomaster' \in Seq(FileMails(store[call.obj]))
    BY <1>3, FragsFiles, WireSeq
  <2>3. Filing(call, toslave, tomaster', srv, store)
    BY <1>1, <2>1, <2>2, FilingSame
  <2> QED BY <2>1, <2>3
<1>4. CASE Ending
  <2>1. /\ call'.pc = "idle" /\ call'.wkc = call.wkc /\ call'.data = call.data
        /\ toslave' = toslave /\ srv' = srv /\ store' = store /\ call'.obj = call.obj
    BY <1>1, <1>4, EndingKeeps DEF Keeps
  <2>2. call'.pc \in {"return", "idle"} /\ call.obj \in Objects
        /\ toslave \in Seq(Orders(call))
    BY <2>1 DEF Filing
  <2>3. call'.wkc = 1 => call'.data = store[call'.obj]
    BY <1>4, <2>1 DEF Ending, Starting, Filing
  <2>4. Filing(call', toslave, tomaster', srv, store)
    BY <1>1, <2>1, <2>2, <2>3, FilingOver
  <2> QED BY <2>1, <2>4
<1>5. CASE Mixing
  <2>1. /\ toslave' = toslave /\ tomaster' = tomaster /\ srv' = srv /\ store' = store
        /\ Same(call, call') /\ call'.pc = call.pc /\ call'.out = call.out
        /\ call'.wkc = call.wkc
    BY <1>5, MixingKeeps DEF Mixing, mailvars
  <2>2. Filing(call', toslave, tomaster, srv, store)
    BY <1>1, <2>1, FilingSame
  <2> QED BY <2>1, <2>2
<1>6. CASE Sending
  BY <1>6, FilingSending
<1>7. CASE NotSending \/ NotHearing
  BY <1>7, FilingFails
<1>8. CASE Hearing
  BY <1>8, FilingHearing
<1>9. CASE Serving
  BY <1>9, FilingServing
<1> QED BY <1>2, <1>3, <1>4, <1>5, <1>6, <1>7, <1>8, <1>9 DEF Turn

LEMMA FilingKept == Spec => []FilingInv
<1>1. Init => FilingInv
  BY DEF Init, NoCall, FilingInv, Filing
<1>2. Base /\ Born /\ FilingInv /\ [Next]_vars => FilingInv'
  <2>1. Base => SlaveState
    BY DEF Base
  <2> QED BY <2>1, QuietTurns, FilingOpening, FilingTurn DEF FilingInv
<1> QED BY <1>1, <1>2, BaseBorn, PTL DEF Spec

-----------------------------------------------------------------------------
(* ecx_FOEwrite: one packet at a time, and an acknowledgement with its     *)
(* number.  Either the slave has not yet taken the packet, and expects it, *)
(* or it has, and expects the next one.                                    *)

LEMMA PacketSent ==
  ASSUME NEW c, Active(c), Left(c), NEW s, c.num >= 0, Expects(c, s, c.num, Place(c)),
         First(c.rest, OutData) # << >> \/ c.zero, NEW d, d = SendPacket(c)
  PROVE  /\ Keeps(c, d) /\ d.pc = "send" /\ Numbered(d) /\ Missing(d, s)
         /\ d.num = c.num + 1
<1> DEFINE chunk == First(c.rest, OutData)
           left == After(c.rest, OutData)
           z == FinalZero(left, chunk)
           k == c.num + 1
           b == [c EXCEPT !.rest = left, !.num = k, !.zero = z]
           m == [Packet("data", k) EXCEPT !.data = chunk]
<1>1. /\ c \in AnyCall /\ c.all \in Data /\ Len(c.all) \in Nat /\ Len(c.rest) \in Nat
      /\ c.num \in Int /\ k \in Int /\ OutData \in Nat /\ OutData > 0
  BY ActiveCall, MailSizes
<1>2. d = Ask(b, m)
  BY DEF SendPacket
<1>3. Place(c) \in Nat /\ Place(c) = Len(c.all) - Len(c.rest) /\ Piece(c.all, Place(c), c.rest)
  BY DEF Left, Place, Piece
<1>4. /\ Piece(c.all, Place(c), chunk) /\ Len(chunk) = Least(OutData, Len(c.rest))
      /\ left \in Data /\ Len(c.all) - Len(left) = Place(c) + Len(chunk)
      /\ Piece(c.all, Len(c.all) - Len(left), left)
      /\ (left = << >> <=> Len(c.rest) <= OutData)
  BY <1>1, <1>3, LeftCut
<1>5. chunk \in Data /\ Len(chunk) \in Nat /\ z \in BOOLEAN
  <2>1. chunk \in Data
    BY <1>4 DEF Piece
  <2> QED BY <2>1, LenProperties DEF Data, FinalZero
<1>6. z <=> left = << >> /\ Len(chunk) = OutData
  BY DEF FinalZero
<1>7. Len(chunk) # OutData => left = << >> /\ Len(chunk) < OutData
  BY <1>1, <1>4 DEF Least
<1>8. m \in AnyRequest /\ m.type = "FoE" /\ m.kind = "data" /\ m.n = k /\ m.data = chunk
  <2> HIDE DEF k, chunk
  <2> QED BY <1>1, <1>5, PacketFrom
<1> HIDE DEF chunk, left, z, m
<1>9. b \in AnyCall /\ b.rest = left /\ b.num = k /\ b.zero = z /\ b.all = c.all
      /\ Keeps(c, b)
  <2> HIDE DEF k
  <2> QED BY <1>1, <1>4, <1>5 DEF AnyCall, Keeps
<1>10. k > 0 /\ k - 1 = c.num
  BY <1>1
<1> HIDE DEF b, k
<1>11. Keeps(b, Ask(b, m))
  BY <1>9 DEF Ask, Keeps, AnyCall
<1>12. /\ d.out = m /\ d.pc = "send" /\ d.rest = left /\ d.num = k /\ d.zero = z
       /\ Keeps(c, d)
  BY <1>2, <1>9, <1>11, Leaves DEF Same, Keeps
<1>13. d.all = c.all /\ d.obj = c.obj /\ Place(d) = Place(c) + Len(chunk) /\ Left(d)
  BY <1>4, <1>12 DEF Keeps, Place, Left
<1>14. Place(d) - Len(chunk) = Place(c)
  <2> DEFINE x == Place(c)
             y == Len(chunk)
  <2>1. x \in Nat /\ y \in Nat /\ Place(d) = x + y
    BY <1>3, <1>5, <1>13
  <2> HIDE DEF x, y
  <2>2. Place(d) - y = x
    BY <2>1
  <2> QED BY <2>2 DEF x, y
<1>15. Short(d) <=> Len(chunk) # OutData
  BY <1>8, <1>12 DEF Short
<1>16. Missing(d, s)
  BY <1>8, <1>10, <1>12, <1>13, <1>14 DEF Missing, Expects
<1>17. Numbered(d)
  BY <1>4, <1>6, <1>7, <1>8, <1>10, <1>12, <1>13, <1>14, <1>15 DEF Numbered
<1> QED BY <1>12, <1>16, <1>17 DEF k

LEMMA StoringOver ==
  ASSUME NEW c, NEW d, Keeps(c, d), d.pc \in {"return", "idle"}, c.obj \in Objects,
         NEW ts, NEW tm2, NEW s, NEW st, NEW calm2, NEW single2,
         (calm2 \/ single2) /\ d.wkc = 1 => ts = << >> /\ st[d.obj] = d.all
  PROVE  Storing(d, ts, tm2, s, st, calm2, single2)
BY DEF Storing, Keeps

(* A call that stays where it is, or goes on to wait.                      *)
LEMMA SameNumbers ==
  ASSUME NEW c, NEW d, Keeps(c, d), Same(c, d), d.out = c.out
  PROVE  /\ Numbered(c) => Numbered(d)
         /\ \A s : Missing(c, s) => Missing(d, s)
         /\ \A s, st : Arrived(c, s, st) => Arrived(d, s, st)
         /\ d.num = c.num
<1>1. /\ d.num = c.num /\ d.rest = c.rest /\ d.all = c.all /\ d.obj = c.obj /\ d.zero = c.zero
  BY DEF Same, Keeps
<1>2. Place(d) = Place(c) /\ (Left(c) => Left(d)) /\ (Short(d) <=> Short(c))
  BY <1>1 DEF Place, Left, Short
<1>3. Numbered(c) => Numbered(d)
  BY <1>1, <1>2 DEF Numbered
<1>4. \A s, n, k : Expects(c, s, n, k) => Expects(d, s, n, k)
  BY <1>1 DEF Expects
<1>5. \A s : Missing(c, s) => Missing(d, s)
  BY <1>1, <1>2, <1>4 DEF Missing
<1>6. \A s, st : Arrived(c, s, st) => Arrived(d, s, st)
  BY <1>1, <1>2, <1>4 DEF Arrived
<1> QED BY <1>1, <1>3, <1>5, <1>6

LEMMA StoringSame ==
  ASSUME NEW c, NEW d, Keeps(c, d), Same(c, d), d.pc = c.pc, d.out = c.out,
         d.wkc = c.wkc, NEW ts, NEW tm, NEW tm2, NEW s, NEW st, NEW calm, NEW calm2,
         NEW single, NEW single2, calm2 => calm, single2 => single, c.op = "FOEwrite",
         single2 /\ Single(tm) => Single(tm2),
         tm \in Seq(Frags) => tm2 \in Seq(Frags),
         \A n : tm \in Seq(UpTo(n)) => tm2 \in Seq(UpTo(n)),
         \A n : tm \in Seq(BusyUpTo(n)) => tm2 \in Seq(BusyUpTo(n)),
         Storing(c, ts, tm, s, st, calm, single)
  PROVE  Storing(d, ts, tm2, s, st, calm2, single2)
<1>1. /\ Numbered(c) => Numbered(d)
      /\ Missing(c, s) => Missing(d, s)
      /\ Arrived(c, s, st) => Arrived(d, s, st)
      /\ d.num = c.num
  BY SameNumbers
<1>2. d.obj = c.obj /\ d.all = c.all /\ d.op = c.op
  BY DEF Keeps
<1>3. Passing(c, ts, tm, s, single) => Passing(d, ts, tm2, s, single2)
  BY <1>1 DEF Passing
<1>4. (calm2 \/ single2) /\ Handing(c, ts, tm, s, st, calm, single)
        => Handing(d, ts, tm2, s, st, calm2, single2)
  BY <1>1 DEF Handing
<1> QED BY <1>1, <1>2, <1>3, <1>4 DEF Storing

LEMMA StoringOpening ==
  ASSUME Opening, NEW calm, NEW single
  PROVE  Storing(call', toslave', tomaster', srv', store', calm, single)
<1> SUFFICES ASSUME call'.op = "FOEwrite"
             PROVE  Storing(call', toslave', tomaster', srv', store', calm, single)
  BY DEF Storing
<1>1. PICK c : /\ Starting(c) /\ Keeps(c, call')
               /\ \/ call'.pc = "drain" /\ Same(c, call') /\ call'.wkc = 0
                  \/ call' = Begin(c) /\ StepOf(c, Begin(c))
  BY OpeningCall
<1>2. /\ c.op = "FOEwrite" /\ c \in AnyCall /\ c.obj \in Objects /\ c.num = 0
      /\ call'.obj = c.obj /\ call'.all = c.all /\ Active(c) /\ c.rest = c.all
  BY <1>1 DEF Keeps, Starting, Active
<1>3. toslave' = << >> /\ tomaster' \in Seq(Frags) /\ \A n : tomaster' \in Seq(UpTo(n))
  BY EmptySeqs DEF Opening
<1>4. CASE call'.pc = "drain"
  BY <1>2, <1>4 DEF Storing
<1>5. CASE call' = Begin(c)
  <2> DEFINE b == [c EXCEPT !.zero = TRUE]
             m == Mail("FoE", "write", c.obj)
  <2>1. call' = Ask(b, m)
    BY <1>2, <1>5 DEF Begin, FOEwrite
  <2>2. m \in AnyRequest /\ m.type = "FoE" /\ m.kind = "write" /\ m.of = c.obj
    <3>1. m \in AnyRequest
      BY <1>2, OtherRequest
    <3>2. PlainMail(m, "FoE", "write", c.obj)
      BY <1>2, OneMail DEF Kinds
    <3> QED BY <3>1, <3>2 DEF PlainMail
  <2>3. b \in AnyCall /\ b.num = 0 /\ b.zero = TRUE /\ b.rest = c.rest
    BY <1>2 DEF AnyCall
  <2> HIDE DEF b, m
  <2>4. /\ call'.out = m /\ call'.pc = "send" /\ call'.num = 0 /\ call'.zero = TRUE
        /\ call'.rest = c.rest
    BY <2>1, <2>3, Leaves DEF Same
  <2>5. Left(call') /\ Place(call') = 0
    <3>1. Left(c) /\ Place(c) = 0
      BY <1>2, LeftAll
    <3> QED BY <1>2, <2>4, <3>1 DEF Left, Place
  <2>6. Numbered(call')
    BY <1>2, <2>2, <2>4, <2>5 DEF Numbered
  <2>7. Passing(call', toslave', tomaster', srv', single)
    BY <1>3, <2>2, <2>4 DEF Passing, Missing
  <2> QED BY <1>2, <2>4, <2>6, <2>7 DEF Storing
<1> QED BY <1>1, <1>4, <1>5

LEMMA StoringSending ==
  ASSUME Base, Sending, call.op = "FOEwrite", NEW calm, NEW calm2, NEW single, NEW single2,
         Noted(calm, calm2, single, single2),
         Storing(call, toslave, tomaster, srv, store, calm, single)
  PROVE  Storing(call', toslave', tomaster', srv', store', calm2, single2)
<1>1. /\ Active(call) /\ call.pc = "send" /\ Keeps(call, call') /\ call \in AnyCall
      /\ tomaster' = tomaster /\ srv' = srv /\ store' = store /\ call' = Await(call)
      /\ toslave' = Append(toslave, call.out)
  BY SendingKeeps, ActiveCall DEF Sending, Sent
<1>2. Same(call, call') /\ call'.pc = "receive" /\ call'.wkc = call.wkc
      /\ call'.out = call.out /\ call'.obj = call.obj
  BY <1>1, Leaves DEF Keeps
<1>3. /\ Numbered(call) => Numbered(call')
      /\ Missing(call, srv) => Missing(call', srv)
      /\ call'.num = call.num
  BY <1>1, <1>2, SameNumbers
<1>4. Passing(call, toslave, tomaster, srv, single)
        => Handing(call', toslave', tomaster, srv, store, calm2, single2)
  <2> SUFFICES ASSUME Passing(call, toslave, tomaster, srv, single)
               PROVE  Handing(call', toslave', tomaster, srv, store, calm2, single2)
    OBVIOUS
  <2>1. toslave' = <<call'.out>>
    BY <1>1, <1>2 DEF Passing
  <2> QED BY <1>3, <2>1 DEF Passing, Handing, Noted
<1> QED BY <1>1, <1>2, <1>3, <1>4 DEF Storing, Noted

LEMMA StoringFails ==
  ASSUME Base, NotSending \/ NotHearing, call.op = "FOEwrite", NEW calm, NEW calm2,
         NEW single, NEW single2, Storing(call, toslave, tomaster, srv, store, calm, single)
  PROVE  Storing(call', toslave', tomaster', srv', store', calm2, single2)
<1>1. /\ Active(call) /\ Keeps(call, call') /\ call \in AnyCall /\ call' = Fails(call)
  BY SendingKeeps, NotHearingKeeps, ActiveCall DEF NotSending, NotHearing
<1>2. call' = Done(call, 0)
  BY <1>1 DEF Fails
<1>3. call'.pc \in {"return", "idle"} /\ call'.wkc = 0 /\ call.obj \in Objects
  BY <1>1, <1>2, Leaves DEF Storing
<1> QED BY <1>1, <1>3, StoringOver

LEMMA FragsUpTo == \A n : Frags \subseteq UpTo(n) /\ Frags \subseteq BusyUpTo(n)
BY DEF Frags, UpTo, BusyUpTo, IsFragment

LEMMA StoringWire ==
  ASSUME Base, Wire, call.op = "FOEwrite", NEW calm, NEW calm2, NEW single, NEW single2,
         Noted(calm, calm2, single, single2),
         Storing(call, toslave, tomaster, srv, store, calm, single)
  PROVE  Storing(call', toslave', tomaster', srv', store', calm2, single2)
<1>1. call' = call /\ toslave' = toslave /\ srv' = srv /\ store' = store /\ Same(call, call)
      /\ Keeps(call, call)
  BY DEF Wire, Same, Keeps
<1>2. /\ tomaster \in Seq(Frags) => tomaster' \in Seq(Frags)
      /\ \A n : tomaster \in Seq(UpTo(n)) => tomaster' \in Seq(UpTo(n))
      /\ \A n : tomaster \in Seq(BusyUpTo(n)) => tomaster' \in Seq(BusyUpTo(n))
  BY FragsUpTo, WireSeq
<1>3. single2 /\ Single(tomaster) => Single(tomaster')
  BY WireSingle DEF Noted
<1>4. (calm2 => calm) /\ (single2 => single)
  BY DEF Noted
<1>5. Storing(call, toslave, tomaster', srv, store, calm2, single2)
  BY <1>1, <1>2, <1>3, <1>4, StoringSame
<1> QED BY <1>1, <1>5

(* A packet follows unless the file has ended with the last one.           *)
LEMMA PacketFollows ==
  ASSUME NEW c, Active(c), Numbered(c)
  PROVE  /\ ~Short(c) => First(c.rest, OutData) # << >> \/ c.zero
         /\ Short(c) => First(c.rest, OutData) = << >> /\ ~c.zero
         /\ c.num >= 0 /\ c.num \in Int
<1>1. /\ Piece(c.all, Place(c), c.rest) /\ c.all \in Data /\ Len(c.rest) \in Nat
      /\ OutData \in Nat /\ OutData > 0 /\ c.rest \in Data /\ c.num \in Int
      /\ c.zero \in BOOLEAN /\ c.out.kind \in {"write", "data"}
  BY ActiveCall, MailSizes DEF Numbered, Left, AnyCall
<1>2. Len(First(c.rest, OutData)) = Least(OutData, Len(c.rest))
  <2>1. Place(c) \in Nat /\ Place(c) = Len(c.all) - Len(c.rest)
    BY <1>1 DEF Piece, Place
  <2> QED BY <1>1, <2>1, LeftCut
<1>3. c.rest # << >> => Len(c.rest) > 0
  BY <1>1, LenProperties DEF Data
<1>4. c.rest # << >> => First(c.rest, OutData) # << >>
  BY <1>1, <1>2, <1>3 DEF Least
<1>5. First(<< >>, OutData) = << >>
  BY <1>1 DEF First, Least
<1> QED BY <1>1, <1>4, <1>5 DEF Numbered, Short

LEMMA StoringAcked ==
  ASSUME NEW c, Active(c), Numbered(c), NEW ts, NEW tm \in Seq(AnyMail), tm # << >>,
         NEW s, NEW st, NEW calm, NEW calm2, NEW single, NEW single2, single2 => single,
         Handing(c, ts, tm, s, st, calm, single), c.op = "FOEwrite",
         Head(tm).type = "FoE", Head(tm).kind = "ack", Head(tm).n = c.num
  PROVE  /\ Keeps(c, SendPacket(c))
         /\ Storing(SendPacket(c), ts, Tail(tm), s, st, calm2, single2)
<1> DEFINE d == SendPacket(c)
           m == Head(tm)
<1>1. /\ c.num \in Int /\ c.num >= 0 /\ c \in AnyCall /\ c.obj \in Objects
      /\ ~Short(c) => First(c.rest, OutData) # << >> \/ c.zero
      /\ Short(c) => First(c.rest, OutData) = << >> /\ ~c.zero
  BY PacketFollows, ActiveCall DEF Active
<1>2. /\ ts = << >> /\ Arrived(c, s, st) /\ tm \in Seq(UpTo(c.num))
      /\ single => Single(tm)
  <2>1. tm \notin Seq(UpTo(c.num - 1)) /\ tm \notin Seq(BusyUpTo(c.num - 1))
    <3>1. \A S : tm \in Seq(S) => m \in S
      BY HeadTailProperties
    <3>2. m \notin UpTo(c.num - 1) /\ m \notin BusyUpTo(c.num - 1)
      BY <1>1 DEF UpTo, BusyUpTo
    <3> QED BY <3>1, <3>2
  <2> QED BY <2>1 DEF Handing
<1>3. Tail(tm) \in Seq(UpTo(c.num)) /\ (single => Tail(tm) \in Seq(Frags))
  <2>1. ~IsFragment(m)
    BY DEF IsFragment
  <2> QED BY <1>2, <2>1, SingleTail, HeadTailProperties
<1>4. CASE Short(c)
  <2>1. d = Done(c, 1)
    BY <1>1, <1>4 DEF SendPacket
  <2>2. Keeps(c, d) /\ d.pc = "return"
    BY <1>1, <2>1, Leaves DEF Done, Keeps, AnyCall
  <2>3. st[d.obj] = d.all
    BY <1>2, <1>4, <2>2 DEF Arrived, Keeps
  <2> HIDE DEF d
  <2>4. Storing(d, ts, Tail(tm), s, st, calm2, single2)
    BY <1>1, <1>2, <2>2, <2>3, StoringOver
  <2> QED BY <2>2, <2>4 DEF d
<1>5. CASE ~Short(c)
  <2>1. Expects(c, s, c.num, Place(c)) /\ Left(c)
    BY <1>2, <1>5 DEF Arrived, Numbered
  <2>2. /\ Keeps(c, d) /\ d.pc = "send" /\ Numbered(d) /\ Missing(d, s)
        /\ d.num = c.num + 1
    <3> HIDE DEF d
    <3> QED BY <1>1, <1>5, <2>1, PacketSent DEF d
  <2> HIDE DEF d
  <2>3. d.num - 1 = c.num
    BY <1>1, <2>2
  <2>4. Passing(d, ts, Tail(tm), s, single2)
    BY <1>2, <1>3, <2>2, <2>3 DEF Passing
  <2>5. Storing(d, ts, Tail(tm), s, st, calm2, single2)
    BY <1>1, <2>2, <2>4 DEF Storing, Keeps
  <2> QED BY <2>2, <2>5 DEF d
<1> QED BY <1>4, <1>5

LEMMA StoringBusy ==
  ASSUME NEW c, Active(c), Numbered(c), NEW ts, NEW tm \in Seq(AnyMail), tm # << >>,
         NEW s, NEW st, NEW calm, NEW calm2, NEW single, NEW single2, single2 => single,
         calm2 => calm, calm2 \/ single2,
         Handing(c, ts, tm, s, st, calm, single), c.op = "FOEwrite",
         Head(tm).type = "FoE", Head(tm).kind = "busy", NEW b,
         b = [c EXCEPT !.rest = c.out.data \o @, !.num = @ - 1]
  PROVE  /\ c.num # 0 /\ Keeps(c, SendPacket(b))
         /\ Storing(SendPacket(b), ts, Tail(tm), s, st, calm2, single2)
<1> DEFINE d == SendPacket(b)
           m == Head(tm)
           k == c.num - 1
           whole == c.out.data \o c.rest
<1>1. /\ c.num \in Int /\ c.num >= 0 /\ c \in AnyCall /\ c.obj \in Objects
      /\ c.all \in Data /\ c.rest \in Data /\ OutData \in Nat /\ OutData > 0
  BY PacketFollows, ActiveCall, MailSizes DEF Active, AnyCall
<1>2. /\ ts = << >> /\ Missing(c, s) /\ Single(tm)
      /\ ~calm /\ c.out.kind = "data" /\ c.out.data # << >>
  <2>1. tm \notin Seq(UpTo(c.num - 1)) /\ tm \notin Seq(UpTo(c.num))
    <3>1. \A S : tm \in Seq(S) => m \in S
      BY HeadTailProperties
    <3>2. m \notin UpTo(c.num - 1) /\ m \notin UpTo(c.num)
      BY DEF UpTo
    <3> QED BY <3>1, <3>2
  <2> QED BY <2>1 DEF Handing
<1>3. c.num > 0 /\ k \in Int /\ k >= 0 /\ k - 0 = k /\ Left(c)
      /\ Piece(c.all, Place(c) - Len(c.out.data), c.out.data)
  BY <1>1, <1>2 DEF Numbered
<1>4. Expects(c, s, k, Place(c) - Len(c.out.data))
  BY <1>2 DEF Missing
<1>5. Len(c.out.data) \in Nat /\ Len(c.out.data) > 0 /\ Len(c.rest) \in Nat
      /\ Len(c.all) \in Nat /\ Place(c) = Len(c.all) - Len(c.rest)
  <2>1. c.out.data \in Data
    BY <1>3 DEF Piece
  <2> QED BY <1>1, <1>2, <2>1, LenProperties, EmptySeq DEF Data, Place
<1>6. Piece(c.all, Place(c) - Len(c.out.data), whole)
      /\ Len(whole) = Len(c.out.data) + Len(c.rest)
  <2> DEFINE a == Place(c) - Len(c.out.data)
  <2>1. a \in Nat
    BY <1>3 DEF Piece
  <2>2. a + Len(c.out.data) = Place(c)
    BY <1>5
  <2>3. Piece(c.all, a + Len(c.out.data), c.rest)
    BY <1>3, <2>2 DEF Left
  <2> HIDE DEF a
  <2>4. Piece(c.all, a, c.out.data)
    BY <1>3 DEF a
  <2>5. Piece(c.all, a, whole) /\ Len(whole) = Len(c.out.data) + Len(c.rest)
    BY <1>1, <2>1, <2>3, <2>4, PieceJoin
  <2> QED BY <2>5 DEF a
<1>7. whole \in Data
  BY <1>6 DEF Piece
<1> HIDE DEF whole, k
<1>8. b \in AnyCall /\ b.rest = whole /\ b.num = k /\ b.all = c.all /\ b.obj = c.obj
      /\ Keeps(c, b) /\ b.op = c.op
  <2>1. b = [c EXCEPT !.rest = whole, !.num = k]
    BY <1>1 DEF whole, k, AnyCall
  <2> QED BY <1>1, <1>3, <1>7, <2>1 DEF AnyCall, Keeps
<1>9. Place(b) = Place(c) - Len(c.out.data)
  <2>1. Place(b) = Len(c.all) - (Len(c.out.data) + Len(c.rest))
    BY <1>6, <1>8 DEF Place
  <2> QED BY <1>5, <2>1
<1>10. Left(b) /\ Expects(b, s, b.num, Place(b)) /\ Active(b)
  BY <1>1, <1>4, <1>6, <1>8, <1>9 DEF Left, Expects, Active
<1>11. First(b.rest, OutData) # << >>
  <2>1. Len(First(b.rest, OutData)) = Least(OutData, Len(b.rest))
    <3>1. Place(b) \in Nat /\ Place(b) = Len(b.all) - Len(b.rest) /\ b.all \in Data
      BY <1>1, <1>8, <1>10 DEF Left, Place, Piece
    <3> QED BY <1>1, <1>10, <3>1, LeftCut DEF Left
  <2>2. Len(b.rest) > 0 /\ Len(b.rest) \in Nat
    <3> DEFINE x == Len(c.out.data)
               y == Len(c.rest)
               z == Len(b.rest)
    <3>1. x \in Nat /\ x > 0 /\ y \in Nat /\ z = x + y
      BY <1>5, <1>6, <1>8
    <3> HIDE DEF x, y, z
    <3>2. z > 0 /\ z \in Nat
      BY <3>1
    <3> QED BY <3>2 DEF z
  <2>3. Least(OutData, Len(b.rest)) > 0
    BY <1>1, <2>2 DEF Least
  <2>4. First(b.rest, OutData) = << >> => Len(First(b.rest, OutData)) = 0
    BY EmptyData
  <2>5. Least(OutData, Len(b.rest)) \in Nat
    BY <1>1, <2>2 DEF Least
  <2> DEFINE f == First(b.rest, OutData)
             g == Least(OutData, Len(b.rest))
  <2>6. Len(f) = g /\ g > 0 /\ g \in Nat /\ (f = << >> => Len(f) = 0)
    BY <2>1, <2>3, <2>4, <2>5
  <2> HIDE DEF f, g
  <2>7. f # << >>
    BY <2>6
  <2> QED BY <2>7 DEF f
<1>12. /\ Keeps(b, d) /\ d.pc = "send" /\ Numbered(d) /\ Missing(d, s)
       /\ d.num = b.num + 1
  <2> HIDE DEF d
  <2>1. b.num >= 0
    BY <1>3, <1>8
  <2> QED BY <1>10, <1>11, <2>1, PacketSent DEF d
<1> HIDE DEF d
<1>13. Tail(tm) \in Seq(Frags) /\ Tail(tm) \in Seq(UpTo(d.num - 1))
  <2>1. ~IsFragment(m)
    BY DEF IsFragment
  <2>2. Tail(tm) \in Seq(Frags)
    BY <1>2, <2>1, SingleTail
  <2> QED BY <2>2, FragsUpTo, SeqMonotonic
<1>14. Passing(d, ts, Tail(tm), s, single2)
  BY <1>2, <1>12, <1>13 DEF Passing
<1>15. Keeps(c, d)
  BY <1>8, <1>12 DEF Keeps
<1>16. Storing(d, ts, Tail(tm), s, st, calm2, single2)
  BY <1>1, <1>12, <1>14, <1>15 DEF Storing, Keeps
<1> QED BY <1>3, <1>15, <1>16 DEF d

LEMMA StoringHearing ==
  ASSUME Base, Hearing, call.op = "FOEwrite", NEW calm, NEW calm2, NEW single, NEW single2,
         Noted(calm, calm2, single, single2),
         Storing(call, toslave, tomaster, srv, store, calm, single)
  PROVE  Storing(call', toslave', tomaster', srv', store', calm2, single2)
<1> DEFINE m == Head(tomaster)
           acked == m.type = "FoE" /\ m.kind = "ack" /\ m.n = call.num
           busy == m.type = "FoE" /\ m.kind = "busy"
           b == [call EXCEPT !.rest = call.out.data \o @, !.num = @ - 1]
<1>1. /\ Active(call) /\ call.pc = "receive" /\ toslave' = toslave /\ tomaster # << >>
      /\ tomaster' = Tail(tomaster) /\ srv' = srv /\ store' = store /\ call \in AnyCall
      /\ tomaster \in Seq(AnyMail) /\ Keeps(call, call') /\ Answer(call, m).op = call.op
  BY HearingKeeps DEF Hearing, Base, Control, UnderWay, StepOf, Keeps
<1>2. Answer(call, m) = FOEwriteAnswer(call, m)
  BY DEF Answer
<1>3. call' = FOEwriteAnswer(call, m)
  BY <1>1, <1>2 DEF Hearing, Segmented
<1>4. (calm2 => calm) /\ (single2 => single) /\ call.obj \in Objects
  BY DEF Noted, Storing
<1>5. CASE ~(calm2 \/ single2)
  BY <1>1, <1>4, <1>5 DEF Storing, Keeps
<1>6. CASE calm2 \/ single2
  <2>1. Numbered(call) /\ Handing(call, toslave, tomaster, srv, store, calm, single)
    BY <1>1, <1>4, <1>6 DEF Storing
  <2>2. CASE ~acked /\ ~busy
    <3>1. call' = Done(call, 0)
      BY <1>3, <2>2 DEF FOEwriteAnswer
    <3>2. call'.pc \in {"return", "idle"} /\ call'.wkc = 0
      BY <1>1, <3>1, Leaves
    <3>3. Storing(call', toslave, tomaster', srv, store, calm2, single2)
      BY <1>1, <1>4, <3>2, StoringOver
    <3> QED BY <1>1, <3>3
  <2>3. CASE acked
    <3>1. call' = SendPacket(call)
      BY <1>3, <2>3 DEF FOEwriteAnswer
    <3>2. Storing(SendPacket(call), toslave, Tail(tomaster), srv, store, calm2, single2)
      BY <1>1, <1>4, <2>1, <2>3, StoringAcked
    <3> QED BY <1>1, <3>1, <3>2
  <2>4. CASE busy
    <3>1. /\ call.num # 0
          /\ Storing(SendPacket(b), toslave, Tail(tomaster), srv, store, calm2, single2)
      <4> HIDE DEF b
      <4> QED BY <1>1, <1>4, <1>6, <2>1, <2>4, StoringBusy DEF b
    <3>2. call' = SendPacket(b)
      BY <1>3, <2>4, <3>1 DEF FOEwriteAnswer
    <3> QED BY <1>1, <3>1, <3>2
  <2> QED BY <2>2, <2>3, <2>4
<1> QED BY <1>5, <1>6

LEMMA FileStored ==
  ASSUME NEW c, Active(c), Numbered(c), NEW s, SlaveSane(s), NEW st \in AnyStore,
         Missing(c, s), NEW r, r = FoeServe(s, st, c.out)
  PROVE  Stored(c, r)
<1> DEFINE m == c.out
           all == s.data \o m.data
           end == Len(m.data) < OutData
           x == Packet("ack", m.n)
<1>1. /\ c.all \in Data /\ Len(c.rest) \in Nat /\ c.num \in Int /\ c.obj \in Objects
      /\ OutData \in Nat /\ OutData > 0 /\ m \in AnyMail /\ m.n \in Int
  <2>1. c \in AnyCall /\ c.all \in Data /\ Len(c.rest) \in Nat /\ c.num \in Int /\ c.obj \in Objects
    BY ActiveCall DEF Active
  <2>2. m \in AnyMail
    BY <2>1 DEF AnyCall
  <2>3. m.n \in Int
    BY <2>2 DEF AnyMail
  <2> QED BY <2>1, <2>2, <2>3, MailSizes
<1>2. CASE m.kind = "write"
  <2> DEFINE t == [op |-> "fwrite", of |-> m.of, data |-> << >>, n |-> 0, size |-> 0]
             y == Packet("ack", 0)
  <2>1. r = Served(t, st, <<y>>)
    BY <1>2 DEF FoeServe
  <2>2. m.of = c.obj /\ c.num = 0 /\ Place(c) = 0 /\ ~Short(c)
    BY <1>2 DEF Numbered, Short
  <2>3. Expects(c, t, c.num, Place(c))
    BY <1>1, <2>2, EmptyPiece, EmptyData DEF Expects
  <2>4. y \in UpTo(c.num)
    <3>1. y \in AnyMail /\ y.kind = "ack" /\ y.n = 0
      BY PacketMail
    <3> HIDE DEF y
    <3> QED BY <2>2, <3>1 DEF UpTo
  <2> HIDE DEF t, y
  <2> QED BY <2>1, <2>2, <2>3, <2>4 DEF Stored, Arrived, Served
<1>3. CASE m.kind = "data"
  <2>1. /\ c.num > 0 /\ m.n = c.num
        /\ Piece(c.all, Place(c) - Len(m.data), m.data)
        /\ Short(c) => c.rest = << >> /\ Len(m.data) < OutData
        /\ Left(c)
    BY <1>3 DEF Numbered
  <2>2. Expects(c, s, c.num - 1, Place(c) - Len(m.data))
    BY <1>3 DEF Missing
  <2>3. /\ s.op = "fwrite" /\ s.of = c.obj /\ m.n = s.n + 1
        /\ Piece(c.all, 0, s.data) /\ Len(s.data) = Place(c) - Len(m.data)
    BY <1>1, <2>1, <2>2 DEF Expects
  <2>4. m.data \in Data /\ Len(m.data) \in Nat /\ Place(c) \in Nat
    <3>1. m.data \in Data
      BY <2>1 DEF Piece
    <3> QED BY <2>1, <3>1, LenProperties DEF Data, Left, Piece
  <2>5. Piece(c.all, 0, all) /\ Len(all) = Place(c)
    <3>1. Piece(c.all, 0, all) /\ Len(all) = Len(s.data) + Len(m.data)
      BY <1>1, <2>1, <2>3, PieceAdded
    <3> QED BY <2>3, <2>4, <3>1
  <2>6. x \in UpTo(c.num)
    <3>1. x \in AnyMail /\ x.kind = "ack" /\ x.n = m.n
      BY <1>1, PacketMail
    <3> HIDE DEF x
    <3> QED BY <1>1, <2>1, <3>1 DEF UpTo
  <2>7. CASE end
    <3>1. Short(c)
      BY <1>1, <1>3, <2>4, <2>7 DEF Short
    <3>2. r = Served(Resting, [st EXCEPT ![s.of] = all], <<x>>)
      BY <1>3, <2>3, <2>7 DEF FoeServe, TakeData
    <3>3. all = c.all
      <4>1. Len(c.rest) = 0
        BY <2>1, <3>1
      <4>2. Place(c) = Len(c.all) /\ Len(c.all) \in Nat
        BY <1>1, <4>1, LenProperties DEF Place, Data
      <4>3. Len(all) = Least(Len(c.all), Len(c.all))
        BY <2>5, <4>2 DEF Least
      <4> HIDE DEF all
      <4> QED BY <1>1, <2>5, <4>2, <4>3, PieceWhole
    <3> HIDE DEF all, x
    <3>4. r.store[c.obj] = c.all /\ r.replies = <<x>>
      BY <1>1, <2>3, <3>2, <3>3 DEF Served, AnyStore
    <3> QED BY <2>6, <3>1, <3>4 DEF Stored, Arrived
  <2>8. CASE ~end
    <3>1. ~Short(c)
      BY <2>1, <2>8
    <3> DEFINE t == [s EXCEPT !.data = all, !.n = m.n]
    <3>2. r = Served(t, st, <<x>>)
      BY <1>3, <2>3, <2>8 DEF FoeServe, TakeData
    <3> HIDE DEF all, x
    <3>3. s \in AnySlave
      BY DEF SlaveSane
    <3>4. t.op = s.op /\ t.of = s.of /\ t.data = all /\ t.n = m.n
      BY <3>3 DEF AnySlave
    <3> HIDE DEF t
    <3>5. Expects(c, t, c.num, Place(c))
      BY <2>1, <2>3, <2>5, <3>4 DEF Expects
    <3> QED BY <2>6, <3>1, <3>2, <3>5 DEF Stored, Arrived, Served
  <2> QED BY <2>7, <2>8
<1> QED BY <1>2, <1>3 DEF Numbered

LEMMA StoringServing ==
  ASSUME Base, Serving, call.op = "FOEwrite", NEW calm, NEW calm2, NEW single, NEW single2,
         Noted(calm, calm2, single, single2),
         Storing(call, toslave, tomaster, srv, store, calm, single)
  PROVE  Storing(call', toslave', tomaster', srv', store', calm2, single2)
<1> DEFINE m == Head(toslave)
<1>1. /\ toslave # << >> /\ call' = call /\ SlaveSane(srv) /\ store \in AnyStore
      /\ call \in AnyCall /\ call.obj \in Objects
      /\ (calm2 => calm) /\ (single2 => single)
  BY DEF Serving, Base, Control, SlaveState, Noted, Storing
<1>2. CASE call.pc # "receive" \/ ~(calm2 \/ single2)
  <2>1. ~(calm2 \/ single2)
        \/ (call.pc # "send" /\ ~(call.pc \in {"return", "idle"} /\ call.wkc = 1))
    BY <1>1, <1>2 DEF Storing, Passing
  <2> QED BY <1>1, <1>2, <2>1 DEF Storing
<1>3. CASE call.pc = "receive" /\ (calm2 \/ single2)
  <2>1. /\ Active(call) /\ Numbered(call)
        /\ Handing(call, toslave, tomaster, srv, store, calm, single)
    BY <1>1, <1>3 DEF Storing, Base, Control
  <2>2. /\ toslave = <<call.out>> /\ Missing(call, srv)
        /\ tomaster \in Seq(UpTo(call.num - 1)) /\ (single => tomaster \in Seq(Frags))
    BY <1>1, <2>1 DEF Handing
  <2>3. /\ m = call.out /\ Tail(toslave) = << >> /\ call.num \in Int
        /\ m.type = "FoE" /\ m.kind \in {"write", "data"}
    BY <1>1, <2>1, <2>2 DEF Numbered, AnyCall
  <2> HIDE DEF m
  <2>4. CASE Deliver(SlaveDoes(srv, store, m))
    <3> DEFINE r == FoeServe(srv, store, m)
    <3>1. SlaveDoes(srv, store, m) = r
      BY <2>3 DEF SlaveDoes
    <3>2. Stored(call, r)
      <4> HIDE DEF r
      <4> QED BY <1>1, <2>1, <2>2, <2>3, FileStored DEF r
    <3>3. /\ toslave' = << >> /\ srv' = r.srv /\ store' = r.store
          /\ tomaster' = tomaster \o r.replies
      BY <2>3, <2>4, <3>1 DEF Deliver
    <3> HIDE DEF r
    <3>4. PICK x \in UpTo(call.num) : r.replies = <<x>>
      BY <3>2 DEF Stored
    <3>5. tomaster' \in Seq(UpTo(call.num)) /\ <<x>> \in Seq(UpTo(call.num))
      <4>1. UpTo(call.num - 1) \subseteq UpTo(call.num)
        <5> DEFINE k == call.num
        <5>1. k \in Int /\ \A y \in AnyMail : y.n \in Int
          BY <2>3 DEF AnyMail
        <5> HIDE DEF k
        <5>2. \A y \in AnyMail : y.n <= k - 1 => y.n <= k
          BY <5>1
        <5>3. UpTo(k - 1) \subseteq UpTo(k)
          BY <5>2 DEF UpTo
        <5> QED BY <5>3 DEF k
      <4>2. tomaster \in Seq(UpTo(call.num)) /\ <<x>> \in Seq(UpTo(call.num))
        BY <2>2, <4>1, EmptySeqs, SeqMonotonic
      <4> QED BY <3>3, <3>4, <4>2, ConcatProperties
    <3>6. single => Single(tomaster')
      <4>1. x \in AnyMail
        BY DEF UpTo
      <4> QED BY <2>2, <3>3, <3>4, <4>1, SingleSaid
    <3>7. Handing(call, toslave', tomaster', r.srv, r.store, calm2, single2)
      BY <1>1, <3>2, <3>3, <3>5, <3>6 DEF Handing, Stored
    <3>8. Storing(call, toslave', tomaster', r.srv, r.store, calm2, single2)
      BY <1>1, <1>3, <2>1, <3>7 DEF Storing
    <3> QED BY <1>1, <3>3, <3>8
  <2>5. CASE /\ Deliver(Busy(srv, store)) /\ m.kind \in {"write", "data"}
             /\ \/ "busyend" \in faults'
                \/ m.kind = "data" /\ m.data # << >> /\ "busy" \in faults'
    <3> DEFINE x == Packet("busy", 0)
    <3>1. /\ toslave' = << >> /\ srv' = srv /\ store' = store
          /\ tomaster' = tomaster \o <<x>>
      BY <2>3, <2>5 DEF Deliver, Busy, Served
    <3>2. /\ "busyend" \notin faults' /\ ~calm2 /\ single2
          /\ m.kind = "data" /\ m.data # << >>
      BY <1>3, <2>5 DEF Noted
    <3>3. x \in AnyMail /\ x.kind = "busy" /\ <<x>> \in Seq(BusyUpTo(call.num - 1))
      <4>1. x \in AnyMail /\ x.kind = "busy"
        BY PacketMail
      <4> HIDE DEF x
      <4>2. x \in BusyUpTo(call.num - 1)
        BY <4>1 DEF BusyUpTo
      <4> QED BY <4>1, <4>2, EmptySeqs
    <3> HIDE DEF x
    <3>4. tomaster \in Seq(Frags) /\ Single(tomaster')
      BY <1>1, <2>2, <3>1, <3>2, <3>3, SingleSaid
    <3>5. tomaster' \in Seq(BusyUpTo(call.num - 1))
      <4>1. tomaster \in Seq(BusyUpTo(call.num - 1))
        BY <3>4, FragsUpTo, SeqMonotonic
      <4> QED BY <3>1, <3>3, <4>1, ConcatProperties
    <3>6. Handing(call, toslave', tomaster', srv, store, calm2, single2)
      BY <2>2, <2>3, <3>1, <3>2, <3>4, <3>5 DEF Handing
    <3>7. Storing(call, toslave', tomaster', srv, store, calm2, single2)
      BY <1>1, <1>3, <2>1, <3>6 DEF Storing
    <3> QED BY <1>1, <3>1, <3>7
  <2> QED BY <2>3, <2>4, <2>5 DEF Serving, m
<1> QED BY <1>2, <1>3

LEMMA StoringTurn ==
  ASSUME Base, Turn, NEW calm, NEW calm2, NEW single, NEW single2,
         Noted(calm, calm2, single, single2),
         Storing(call, toslave, tomaster, srv, store, calm, single)
  PROVE  Storing(call', toslave', tomaster', srv', store', calm2, single2)
<1>1. Keeps(call, call') /\ call \in AnyCall
  BY TurnKeeps DEF Base, Control
<1> SUFFICES ASSUME call.op = "FOEwrite"
             PROVE  Storing(call', toslave', tomaster', srv', store', calm2, single2)
  BY <1>1 DEF Storing, Keeps
<1>2. ~Polling
  BY PollingKeeps
<1>3. CASE Wire
  BY <1>3, StoringWire
<1>4. CASE Ending
  <2>1. /\ call'.pc = "idle" /\ call'.wkc = call.wkc
        /\ toslave' = toslave /\ srv' = srv /\ store' = store /\ call'.obj = call.obj
        /\ call'.all = call.all
    BY <1>1, <1>4, EndingKeeps DEF Keeps
  <2>2. call'.pc \in {"return", "idle"} /\ call.obj \in Objects
        /\ (calm2 => calm) /\ (single2 => single)
    BY <2>1 DEF Storing, Noted
  <2>3. (calm2 \/ single2) /\ call'.wkc = 1
          => toslave = << >> /\ store[call'.obj] = call'.all
    BY <1>4, <2>1, <2>2 DEF Ending, Starting, Storing
  <2>4. Storing(call', toslave, tomaster', srv, store, calm2, single2)
    BY <1>1, <2>2, <2>3, StoringOver
  <2> QED BY <2>1, <2>4
<1>5. CASE Mixing
  <2>1. /\ toslave' = toslave /\ tomaster' = tomaster /\ srv' = srv /\ store' = store
        /\ Same(call, call') /\ call'.pc = call.pc /\ call'.out = call.out
        /\ call'.wkc = call.wkc /\ (calm2 => calm) /\ (single2 => single)
    BY <1>5, MixingKeeps DEF Mixing, mailvars, Noted
  <2>2. Storing(call', toslave, tomaster, srv, store, calm2, single2)
    BY <1>1, <2>1, StoringSame
  <2> QED BY <2>1, <2>2
<1>6. CASE Sending
  BY <1>6, StoringSending
<1>7. CASE NotSending \/ NotHearing
  BY <1>7, StoringFails
<1>8. CASE Hearing
  BY <1>8, StoringHearing
<1>9. CASE Serving
  BY <1>9, StoringServing
<1> QED BY <1>2, <1>3, <1>4, <1>5, <1>6, <1>7, <1>8, <1>9 DEF Turn

LEMMA StoringKept == Spec => []StoringInv
<1> DEFINE calm == faults \cap {"busy", "busyend"} = {}
           single == faults \cap {"repeated", "busyend"} = {}
<1>1. Init => StoringInv
  BY DEF Init, NoCall, StoringInv, Storing
<1>2. Base /\ Born /\ StoringInv /\ [Next]_vars => StoringInv'
  <2> SUFFICES ASSUME Base, Born, StoringInv, [Next]_vars, quiet'
               PROVE  Storing(call', toslave', tomaster', srv', store', calm', single')
    BY DEF StoringInv
  <2>1. CASE Opening
    BY <2>1, StoringOpening
  <2>2. CASE quiet /\ faults \subseteq faults' /\ Turn
    <3>1. Noted(calm, calm', single, single')
      BY <2>2 DEF Noted
    <3>2. Storing(call, toslave, tomaster, srv, store, calm, single)
      BY <2>2 DEF StoringInv
    <3> HIDE DEF calm, single
    <3> QED BY <2>2, <3>1, <3>2, StoringTurn
  <2> QED BY <2>1, <2>2, QuietTurns
<1> QED BY <1>1, <1>2, BaseBorn, PTL DEF Spec

(* Files are exact: what ecx_FOEread returns is the file, where the two    *)
(* mailboxes are of one size, and a file that ecx_FOEwrite has written is  *)
(* in the slave, unless its word that it is busy stands at the wrong place *)
(* or comes twice.  Lost, late, repeated and unconfirmed mails do no harm. *)
THEOREM FilesExact == Spec => []FoeExact
<1>1. Base /\ FilingInv /\ StoringInv => FoeExact
  <2> SUFFICES ASSUME Base, FilingInv, StoringInv, Success, quiet
               PROVE  /\ call.op = "FOEread" /\ InData = OutData
                           => call.data = store[call.obj]
                      /\ call.op = "FOEwrite" /\ "busyend" \notin faults
                         /\ ~({"busy", "repeated"} \subseteq faults)
                           => store[call.obj] = call.all
    BY DEF FoeExact
  <2>1. call.wkc = 1 /\ call.pc = "idle"
    BY DEF Success, Returned, Base, Control, AnyCall
  <2>2. call.op = "FOEread" /\ InData = OutData => call.data = store[call.obj]
    BY <2>1 DEF FilingInv, Filing
  <2>3. ASSUME call.op = "FOEwrite", "busyend" \notin faults,
               ~({"busy", "repeated"} \subseteq faults)
        PROVE  store[call.obj] = call.all
    <3>1. \/ faults \cap {"busy", "busyend"} = {}
          \/ faults \cap {"repeated", "busyend"} = {}
      BY <2>3
    <3> QED BY <2>1, <2>3, <3>1 DEF StoringInv, Storing
  <2> QED BY <2>2, <2>3
<1> QED BY <1>1, CallsBase, FilingKept, StoringKept, PTL
=============================================================================
