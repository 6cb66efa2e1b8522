---------------------------- MODULE MbxTransfers ----------------------------
(***************************************************************************)
(* An application thread that calls the mailbox services of CoE, FoE, SoE  *)
(* and EoE one after the other, over the mailboxes of one slave.  Below it *)
(* are the promises of MbxService (a failed send may have been delivered)  *)
(* and of MailLink (mails come in order, the last one possibly again), and *)
(* timeouts that let answers come late.                                    *)
(***************************************************************************)
EXTENDS SdoTransfer, FoeTransfer, SoeTransfer, EoeTransfer, FiniteSets

CONSTANTS Ops,                 \* services called
          Sizes,               \* sizes of objects, files and frames
          Rooms,               \* sizes of the caller's buffer
          Pool,                \* EC_MBXPOOLSIZE
          Hooks,               \* is an EoE hook installed
          FaultKinds,          \* faults that may happen
          Stamps,              \* how slaves put time stamps on frames
          MaxFaults, MaxCalls, MaxFrames,
          MaxTraffic           \* bound: calls and frames with a hook

Writers == {"SDOwrite", "FOEwrite", "SoEwrite", "RxPDO", "EOEsend", "EOEsetIp"}
NoDrain == {"EOEsend", "EOErecv"}
DropAndKeep == {"TxPDO", "readODlist", "readODdescription", "readOEsingle"}
CoE == DropAndKeep \cup {"RxPDO", "SDOread", "SDOwrite"}
Services == CoE \cup Writers \cup {"FOEread", "SoEread", "EOErecv", "EOEgetIp"}

ASSUME CallAssumption ==
  /\ Sizes \subseteq Nat \ {0} /\ Rooms \subseteq Nat /\ Pool \in Nat /\ Pool > 1
  /\ MaxFaults \in Nat /\ MaxCalls \in Nat /\ MaxFrames \in Nat
  /\ MaxTraffic \in Nat /\ Stamps \subseteq {"none", "counted", "uncounted"}
  /\ Sizes # {} /\ Rooms # {} /\ Ops \subseteq Services
  /\ \E n \in Sizes : \A k \in Sizes : k <= n

(* Slaves that speak EoE have mailboxes for at least one block of a frame: *)
(* with a smaller one ecx_EOEsend sends empty fragments for ever.          *)
ASSUME EoeAssumption ==
  /\ MaxFrames > 0 => InData >= Block
  /\ "EOEsend" \in Ops => OutData >= Block

VARIABLES
  toslave, tomaster,           \* mails under way
  srv, store,                  \* the slave's transfer and its objects
  call,
  mbxin,                       \* MbxIn: "null", "held", or "dropped" already
  free, astray,                \* listcount of the pool, and by how much it is off
  hook, frag, frames,          \* EoE hook, its fragments, frames it delivered
  txframeno, sent,             \* frames sent by the master, by the slave
  gone, calls, trouble,
  mp, crashed,                 \* mp of ecx_SoEread points into a buffer, not
                               \*   to NULL; the program has died of a NULL
  faults, quiet                \* history: faults in this call; nothing was
                               \*   under way when it began

mailvars == <<toslave, tomaster>>
slavevars == <<srv, store, sent>>
poolvars == <<mbxin, free, astray>>
hookvars == <<hook, frag, frames>>
bounds == <<calls, trouble, faults>>
state == <<mailvars, slavevars, call, poolvars, hookvars, txframeno, gone, bounds,
           quiet>>
vars == <<state, mp, crashed>>

Init ==
  /\ toslave = << >> /\ tomaster = << >>
  /\ srv = Resting /\ sent = 0
  /\ \E size \in Sizes :
       store = [o \in Objects |-> Content(o, 0, size)]
  /\ call = NoCall /\ mbxin = "null" /\ free = Pool /\ astray = 0
  /\ hook \in Hooks /\ frag = Fresh /\ frames = {} /\ txframeno = 0
  /\ gone = FALSE /\ calls = 0 /\ trouble = 0 /\ faults = {} /\ quiet = TRUE
  /\ mp = FALSE /\ crashed = FALSE

(* Nobody acts once the program has died. *)
Running == ~crashed /\ UNCHANGED <<mp, crashed>>

Fault(kind) == /\ kind \in FaultKinds /\ trouble < MaxFaults
               /\ trouble' = trouble + 1
               /\ faults' = faults \cup {kind}
               /\ UNCHANGED calls
-----------------------------------------------------------------------------
(* What each service does at each turn. *)
Begin(c) ==
  CASE c.op = "SDOread" -> SDOread(c)      [] c.op = "SDOwrite" -> SDOwrite(c)
    [] c.op = "RxPDO" -> RxPDO(c)          [] c.op = "TxPDO" -> TxPDO(c)
    [] c.op = "readODlist" -> readODlist(c)
    [] c.op = "readODdescription" -> readODdescription(c)
    [] c.op = "readOEsingle" -> readOEsingle(c)
    [] c.op = "FOEread" -> FOEread(c)      [] c.op = "FOEwrite" -> FOEwrite(c)
    [] c.op = "SoEread" -> SoEread(c)      [] c.op = "SoEwrite" -> SoEwrite(c)
    [] c.op = "EOEsend" -> EOEsend(c)      [] c.op = "EOErecv" -> Await(c)
    [] c.op = "EOEsetIp" -> EOEsetIp(c)    [] c.op = "EOEgetIp" -> EOEgetIp(c)

Sent(c) ==
  CASE c.op = "SoEwrite" -> SoEwriteSent(c)
    [] c.op = "EOEsend" -> EOEsendSent(c)
    [] c.op = "RxPDO" \/ (c.op = "FOEread" /\ ~c.more) -> Done(c, 1)
    [] OTHER -> Await(c)

Answer(c, m) ==
  CASE c.op = "SDOread" -> SDOreadAnswer(c, m)
    [] c.op = "SDOwrite" -> SDOwriteAnswer(c, m)
    [] c.op = "TxPDO" -> TxPDOAnswer(c, m)
    [] c.op = "readODlist" -> readODlistAnswer(c, m)
    [] c.op \in {"readODdescription", "readOEsingle"} -> ODAnswer(c, m)
    [] c.op = "FOEread" -> FOEreadAnswer(c, m)
    [] c.op = "FOEwrite" -> FOEwriteAnswer(c, m)
    [] c.op = "SoEread" -> SoEreadAnswer(c, m)
    [] c.op = "SoEwrite" -> SoEwriteAnswer(c, m)
    [] c.op = "EOErecv" -> EOErecvAnswer(c, m)
    [] c.op = "EOEsetIp" -> EOEsetIpAnswer(c, m)
    [] c.op = "EOEgetIp" -> EOEgetIpAnswer(c, m)

Fails(c) ==
  CASE c.op = "SDOread" -> SDOreadFails(c)
    [] c.op = "SDOwrite" -> SDOwriteFails(c)
    [] c.op = "SoEwrite" -> SoEwriteFails(c)
    [] OTHER -> Done(c, 0)

SlaveDoes(s, st, m) == CASE m.type = "CoE" -> CoeServe(s, st, m)
                         [] m.type = "FoE" -> FoeServe(s, st, m)
                         [] m.type = "SoE" -> SoeServe(s, st, m)
                         [] m.type = "EoE" -> EoeServe(s, st, m)
-----------------------------------------------------------------------------
Undisturbed == toslave = << >> /\ tomaster = << >> /\ srv.op # "idn"

(* A call begins.  Frames are numbered per call of ecx_EOEsend.             *)
Call(op, o, room, size) ==
  /\ Running /\ call.pc = "idle" /\ calls < MaxCalls
  /\ hook => calls + sent < MaxTraffic
  /\ LET all == IF op \in Writers THEN Content(o, calls + 1, size) ELSE << >>
         c == [NoCall EXCEPT !.op = op, !.obj = o, !.room = room, !.rest = all,
                             !.all = all, !.frame = (txframeno + 1) % FrameNumbers]
     IN  call' = IF op \in NoDrain THEN Begin(c) ELSE [c EXCEPT !.pc = "drain"]
  /\ txframeno' = IF op = "EOEsend" THEN (txframeno + 1) % FrameNumbers
                                    ELSE txframeno
  /\ free' = IF op = "EOEsend" THEN free - 1 ELSE free
  /\ calls' = calls + 1 /\ faults' = {} /\ quiet' = Undisturbed
  /\ UNCHANGED <<mailvars, slavevars, mbxin, astray, hookvars, gone, trouble>>

Hooked == hook /\ tomaster # << >> /\ IsFragment(Head(tomaster))
Waiting == tomaster # << >> /\ ~Hooked

(* "Empty slave out mailbox if something is in" takes at most one mail.    *)
(* Some services drop it at once, and all of these but ecx_RxPDO keep the  *)
(* pointer.  Then they take a buffer for the request and fill it.          *)
DrainedMail == IF ~Waiting \/ call.op = "RxPDO" THEN "null"
               ELSE IF call.op \in DropAndKeep THEN "dropped" ELSE "held"
Drain ==
  /\ ~crashed /\ UNCHANGED crashed
  /\ call.pc = "drain" /\ ~Hooked
  /\ mbxin' = DrainedMail
  /\ tomaster' = IF Waiting THEN Tail(tomaster) ELSE tomaster
  /\ quiet' = (toslave = << >> /\ tomaster' = << >> /\ srv.op # "idn")
  /\ free' = (IF mbxin' = "held" THEN free - 1 ELSE free) - 1
  /\ mp' = (mbxin' = "held" /\ call.op = "SoEread")
  /\ call' = Begin(call)
  /\ UNCHANGED <<toslave, slavevars, astray, hookvars, txframeno, gone, bounds>>

(* Without a buffer for it the CoE services return at once, with the       *)
(* working counter of the drained mail: as a success if there was one.     *)
NoBuffer ==
  /\ Running /\ call.pc = "drain" /\ ~Hooked /\ call.op \in CoE /\ Fault("dry")
  /\ mbxin' = "null"
  /\ tomaster' = IF Waiting THEN Tail(tomaster) ELSE tomaster
  /\ LET lost == IF DrainedMail = "held" THEN 1 ELSE 0
     IN  free' = free - lost /\ astray' = astray - lost
  /\ call' = Over([call EXCEPT !.wkc = IF Waiting THEN 1 ELSE 0])
  /\ quiet' = (quiet /\ ~Waiting)
  /\ UNCHANGED <<toslave, slavevars, hookvars, txframeno, gone>>

(* All others write into the buffer, for the request or for a further one, *)
(* without looking whether they got one.                                   *)
ClearNull ==
  /\ ~crashed /\ crashed' = TRUE
  /\ call.pc = "send" /\ call.op \notin CoE
  /\ "dry" \in FaultKinds /\ trouble < MaxFaults
  /\ UNCHANGED <<state, mp>>

(* ecx_mbxsend returns the buffer in any case.  Every further request takes *)
(* a new one.                                                              *)
Taken(c) == IF c.pc = "send" THEN 1 ELSE 0

Send ==
  /\ Running /\ call.pc = "send" /\ ~gone
  /\ toslave' = Append(toslave, call.out)
  /\ call' = Sent(call) /\ free' = free + 1 - Taken(call')
  /\ UNCHANGED <<tomaster, slavevars, mbxin, astray, hookvars, txframeno, gone,
                 bounds, quiet>>

SendFails ==
  /\ Running /\ call.pc = "send"
  /\ \/ gone /\ UNCHANGED <<toslave, bounds>>
     \/ Fault("unsent") /\ UNCHANGED toslave
     \/ Fault("unconfirmed") /\ toslave' = Append(toslave, call.out)
  /\ call' = Fails(call) /\ free' = free + 1 - Taken(call')
  /\ UNCHANGED <<tomaster, slavevars, mbxin, astray, hookvars, txframeno, gone,
                 quiet>>

(* Before it waits for an answer a service drops the mail it has.  The     *)
(* answer comes in a buffer of the pool.                                   *)
DropIn == /\ astray' = IF mbxin = "dropped" THEN astray + 1 ELSE astray
          /\ mbxin' \in {"null", "held"}
Given == IF mbxin = "null" THEN 0 ELSE 1

(* Without a buffer for the next segment the loop of a segmented transfer  *)
(* is left with the working counter of the last answer.                    *)
Segmented(c) == c.op \in {"SDOread", "SDOwrite"} /\ c.pc = "send"

(* ecx_SoEread copies its answer from where the drained mail was.          *)
AtNull == /\ call.op = "SoEread" /\ call.pc = "receive" /\ Waiting /\ ~mp
          /\ Head(tomaster).type = "SoE" /\ Head(tomaster).kind = "readres"
          /\ Copied(call, Head(tomaster)) # << >>
CopyFromNull ==
  /\ ~crashed /\ crashed' = TRUE
  /\ AtNull
  /\ UNCHANGED <<state, mp>>

Receive ==
  /\ Running /\ call.pc = "receive" /\ Waiting /\ ~AtNull
  /\ tomaster' = Tail(tomaster)
  /\ LET c == Answer(call, Head(tomaster))
     IN  \/ call' = c /\ UNCHANGED bounds
         \/ Segmented(c) /\ Fault("dry") /\ call' = Done([c EXCEPT !.more = FALSE], 1)
  /\ DropIn /\ mbxin' = "held"
  /\ free' = free + Given - 1 - Taken(call')
  /\ UNCHANGED <<toslave, slavevars, hookvars, txframeno, gone, quiet>>

(* The timer is started anew in each pass of the wait. *)
NeverExpires == FALSE
Unanswered == tomaster = << >> /\ (toslave = << >> \/ gone)

NoAnswer ==
  /\ Running /\ call.pc = "receive"
  /\ \/ Unanswered /\ UNCHANGED bounds
     \/ Fault("late")
  /\ call' = Fails(call)
  /\ DropIn /\ mbxin' = "null"
  /\ free' = free + Given - Taken(call')
  /\ UNCHANGED <<mailvars, slavevars, hookvars, txframeno, gone, quiet>>

(* ecx_mbxempty of ecx_SoEwrite.                                           *)
Poll ==
  /\ Running /\ call.pc = "poll"
  /\ \/ toslave = << >> /\ call' = SoEwrite(call) /\ UNCHANGED bounds
     \/ gone /\ call' = Await(call) /\ UNCHANGED bounds
     \/ toslave # << >> /\ Fault("late") /\ call' = Await(call)
  /\ free' = free - Taken(call')
  /\ UNCHANGED <<mailvars, slavevars, mbxin, astray, hookvars, txframeno, gone,
                 quiet>>

ReturnKeepsMail == mbxin' = "null" /\ UNCHANGED free
ReturnMail == mbxin' = "null" /\ free' = free + Given

Return ==
  /\ ~crashed /\ UNCHANGED crashed /\ mp' = FALSE
  /\ call.pc = "return"
  /\ call' = Over(call)
  /\ astray' = IF mbxin = "dropped" THEN astray + 1 ELSE astray
  /\ ReturnMail
  /\ frames' = IF call.op = "EOErecv" /\ call.wkc > 0 THEN frames \cup {call.data}
                                                      ELSE frames
  /\ UNCHANGED <<mailvars, slavevars, hook, frag, txframeno, gone, bounds, quiet>>

(* The buffer of the request, which the services still look at, has gone   *)
(* back to the pool: another thread may fill it.                           *)
Foreign == <<0, 0>>
Reuse ==
  /\ Running /\ call.pc = "receive" /\ call.op \in {"SDOread", "SDOwrite"} /\ Fault("reused")
  /\ \E o \in (Objects \cup {Foreign}) \ {call.kept} : call' = [call EXCEPT !.kept = o]
  /\ UNCHANGED <<mailvars, slavevars, poolvars, hookvars, txframeno, gone, quiet>>

(* The cyclic handler gives fragments to the hook.                         *)
HookFragment ==
  /\ Running /\ Hooked
  /\ LET r == ReadFragment(frag, Head(tomaster), Largest(Rooms))
     IN  /\ frag' = r.frag
         /\ frames' = frames \cup {r.done[k] : k \in 1 .. Len(r.done)}
  /\ tomaster' = Tail(tomaster)
  /\ UNCHANGED <<toslave, slavevars, call, poolvars, hook, txframeno, gone, bounds,
                 quiet>>
-----------------------------------------------------------------------------
(* The slave and the wire. *)
Deliver(r) == /\ srv' = r.srv /\ store' = r.store
              /\ tomaster' = tomaster \o r.replies
              /\ toslave' = Tail(toslave)

Serve ==
  /\ Running /\ toslave # << >> /\ ~gone
  /\ LET m == Head(toslave)
         final == m.kind = "data" /\ m.data = << >>
     IN  \/ Deliver(SlaveDoes(srv, store, m)) /\ UNCHANGED bounds
         \/ /\ m.kind \in {"write", "data"}
            /\ Fault(IF m.kind = "write" \/ final THEN "busyend" ELSE "busy")
            /\ Deliver(Busy(srv, store))
         \/ /\ m.kind \in {"upreq", "downreq", "upsegreq", "downsegreq"}
            /\ Fault("refused")
            /\ Deliver(Served(Resting, store, <<Abort>>))
  /\ UNCHANGED <<sent, call, poolvars, hookvars, txframeno, gone, quiet>>

SendFrame ==
  /\ Running /\ ~gone /\ sent < MaxFrames
  /\ hook => calls + sent < MaxTraffic
  /\ hook \/ (call.op = "EOErecv" /\ call.pc = "receive")
  /\ \E o \in Objects, size \in Sizes, stamp \in Stamps :
       tomaster' = tomaster \o FrameFragments(o, sent % FrameNumbers,
                                 Content(o, IF stamp = "uncounted" THEN 1 ELSE 0, size),
                                 stamp)
  /\ sent' = sent + 1
  /\ UNCHANGED <<toslave, srv, store, call, poolvars, hookvars, txframeno, gone,
                 bounds, quiet>>

Lose ==
  /\ Running /\ tomaster # << >> /\ Fault("lost")
  /\ tomaster' = Tail(tomaster)
  /\ UNCHANGED <<toslave, slavevars, call, poolvars, hookvars, txframeno, gone, quiet>>

Repeat ==
  /\ Running /\ tomaster # << >> /\ Fault("repeated")
  /\ tomaster' = <<Head(tomaster)>> \o tomaster
  /\ UNCHANGED <<toslave, slavevars, call, poolvars, hookvars, txframeno, gone, quiet>>

(* The slave goes for good. *)
Vanish ==
  /\ Running /\ ~gone /\ gone' = TRUE /\ Fault("gone")
  /\ UNCHANGED <<mailvars, slavevars, call, poolvars, hookvars, txframeno, quiet>>

Application == \/ \E op \in Ops, o \in Objects, room \in Rooms, size \in Sizes :
                    /\ size \in IF op \in Writers THEN Sizes
                                ELSE {CHOOSE n \in Sizes : TRUE}
                    /\ room \in IF op \in Writers THEN {CHOOSE n \in Rooms : TRUE}
                                ELSE Rooms
                    /\ Call(op, o, room, size)
               \/ Drain \/ NoBuffer \/ Send \/ SendFails \/ Receive \/ NoAnswer
               \/ Poll \/ Return
Step == Application \/ Reuse \/ HookFragment \/ Serve \/ SendFrame \/ Lose
        \/ Repeat \/ Vanish
Next == Step \/ ClearNull \/ CopyFromNull

Spec == Init /\ [][Next]_vars

(* A thread in a call goes on, the slave serves its mailbox, and so does   *)
(* the hook.  Nothing makes the thread call.                               *)
FairSpec ==
  /\ Spec
  /\ WF_vars(Drain) /\ WF_vars(Send \/ (gone /\ SendFails)) /\ WF_vars(Receive \/ CopyFromNull)
  /\ WF_vars(Unanswered /\ NoAnswer) /\ WF_vars(Poll) /\ WF_vars(Return)
  /\ WF_vars(Serve) /\ WF_vars(HookFragment)
-----------------------------------------------------------------------------
Returned == call.pc = "idle" /\ call.op # "none"
Success == Returned /\ call.wkc > 0
Without(kinds) == quiet /\ faults \cap kinds = {}

TypeOK ==
  /\ call.op \in Ops \cup {"none"} /\ call.wkc \in {0, 1}
  /\ call.pc \in {"idle", "drain", "send", "receive", "poll", "return"}
  /\ mbxin \in {"null", "held", "dropped"}
  /\ astray \in Int /\ free \in Nat
  /\ call.num \in Nat /\ call.frame \in 0 .. FrameNumbers - 1

(* What a successful read returns is the object, if nothing was under way  *)
(* when the call began, and, where the answer comes in several mails, none *)
(* of them was lost or came twice and there was a buffer for each request. *)
(* An answer of one mail that comes late, or a request buffer that is      *)
(* reused, does no harm.                                                   *)
InOneMail == {"TxPDO", "EOEgetIp"}
InSeveral == {"SDOread", "readODlist"}
Readable == IF call.op = "TxPDO" THEN First(store[call.obj], InData)
            ELSE IF call.op = "readODlist" THEN First(store[call.obj], call.room)
            ELSE store[call.obj]
SdoReadExact ==
    /\ Success
    /\ \/ call.op \in InOneMail /\ quiet
       \/ call.op \in InSeveral /\ Without({"lost", "repeated", "dry"})
  => call.data = Readable

(* A write that succeeds has written all of it, once the slave has seen    *)
(* all mails, even if segments are refused, lost, late or come twice, but  *)
(* not if the pool has no buffer for one of them.  Only SoE goes on when a *)
(* fragment could not be sent.  The acknowledgements of SDO segments carry *)
(* no number: where two may be under way at once, one of them may stand    *)
(* for a segment that was refused or not sent.                             *)
Ambiguous == /\ faults \cap {"late", "unconfirmed", "repeated"} # {}
             /\ faults \cap {"refused", "unsent"} # {}
WriteExact ==
    /\ Success /\ toslave = << >>
    /\ \/ call.op = "SDOwrite" /\ Without({"dry"}) /\ ~Ambiguous
       \/ call.op = "EOEsetIp" /\ quiet
       \/ call.op = "SoEwrite" /\ Without({"unsent"})
  => store[call.obj] = call.all

(* Files are exact even though mails are lost or repeated: the packets are *)
(* numbered.  A slave that is busy at the request, or when it receives the *)
(* empty packet that ends the file, is taken for having the file.  So is   *)
(* one whose word that it is busy comes twice.  What counts as a full      *)
(* packet of a read is right only if the mailboxes are of one size.        *)
FoeExact ==
  Success /\ quiet =>
    /\ call.op = "FOEread" /\ InData = OutData => call.data = store[call.obj]
    /\ call.op = "FOEwrite" /\ "busyend" \notin faults
       /\ ~({"busy", "repeated"} \subseteq faults) => store[call.obj] = call.all

(* Every frame handed to the application is one the slave sent, and whole, *)
(* whatever fragments were lost or came twice, but for one that fills its  *)
(* blocks and whose time stamp is not counted in its size: of that one the *)
(* end is missing.  A frame the slave has put together is always whole.    *)
FramesWhole ==
  /\ \A f \in frames : \E o \in Objects, n \in Sizes :
       \/ f \in {Content(o, 0, n), Content(o, 1, n)}
       \/ n % Block = 0 /\ \E k \in 0 .. n - 1 : f = Content(o, 1, k)
  /\ Success /\ call.op = "EOEsend" /\ toslave = << >> /\ quiet
       => store[call.obj] = call.all


(* A call that meets no fault succeeds.  Where nothing is waiting          *)
(* ecx_SoEread does not: it dies (CopyFromNull).  ecx_EOErecv waits for    *)
(* frames that need not come.                                              *)
EnoughRoom ==
  /\ call.op \in Writers \/ call.room >= Len(store[call.obj])
  /\ call.op = "FOEread" => InData = OutData
CallsSucceed ==
    /\ Returned /\ faults = {} /\ quiet /\ ~gone /\ EnoughRoom
    /\ call.op \notin {"SoEread", "EOErecv"}
  => call.wkc > 0

(* The caller's buffer is never overrun, unless a segment of an SDO comes  *)
(* twice or mails of an earlier call are still under way.                  *)
NeverPastRoom ==
    /\ call.op \notin Writers \cup {"EOEgetIp"}
    /\ call.op = "SDOread" => Without({"repeated"})
  => Len(call.data) <= call.room

(* A call returns every buffer it took, exactly once but for the cases     *)
(* counted in astray.                                                      *)
BuffersReturned == call.pc = "idle" => free = Pool + astray

(* ec_mbxpoolt keeps its buffers. *)
PoolIntact == call.pc = "idle" => free = Pool

(* Every call returns, also when the segments of an SDO or their answers   *)
(* are lost, unless the slave has gone for good in a segmented upload      *)
(* (NotLast stays TRUE) or the program has died of a NULL pointer, in      *)
(* ecx_SoEread or for want of a buffer.  EoeAssumption excludes a third    *)
(* case, ecx_EOEsend to a mailbox smaller than a block.                    *)
Endless == gone /\ call.op = "SDOread" /\ call.more
EveryCallReturns == call.pc # "idle" ~> call.pc = "idle" \/ Endless \/ crashed

(* An answer is copied from a mailbox, and a request put into one.         *)
NoNullPointer == ~crashed

(* EC_TIMEOUT...: what a call waits for has an end. *)
CallsReturn == call.pc # "idle" ~> call.pc = "idle"
=============================================================================
