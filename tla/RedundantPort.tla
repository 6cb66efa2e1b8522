--------------------------- MODULE RedundantPort ---------------------------
(***************************************************************************)
(* The datagram primitives of ec_base.c over a port with two interfaces    *)
(* at the ends of the line of slaves.  Each attempt sends the frame from   *)
(* the primary interface and a dummy BRD from the secondary one; where     *)
(* they come back, told by the MAC they came from, shows if the line is    *)
(* broken, and then the frame is sent on from the secondary side.          *)
(*                                                                         *)
(* Threads call the primitives at the same time and receive each other's   *)
(* frames.  A frame crosses the line in one step.  That an index is in the *)
(* hands of one thread, also with failing sends, is what FramePort is      *)
(* about; here a thread is its index.                                      *)
(***************************************************************************)
EXTENDS Integers, SequencesExt

CONSTANTS Threads,
          NoThread,            \* holder of a free tx_mutex
          Length,              \* number of slaves
          Requests,            \* thread -> the calls it may make
          MaxCalls,            \* bound: calls of one thread
          MaxFaults,           \* bound: frames lost, line broken or mended
          Late                 \* frames may come after the timeout

ASSUME RedundantPortAssumption ==
  /\ NoThread \notin Threads
  /\ {Length, MaxCalls, MaxFaults} \subseteq Nat
  /\ Late \in BOOLEAN

VARIABLES redstate, cut,       \* is there a second interface; the break
          air,                 \* frames that came back: <<interface, frame>>
          txbuf, txbuf2,       \* frame of a thread; index in the dummy
          tx_mutex,
          rxbuf, rxbufstat,    \* interface -> thread -> frame, status
          pc, asked, wkc,      \* thread; what it calls; results so far
          result,              \* of its last call
          calls, faults,
          executed,            \* since the call began: times each slave did
          clean,               \* it; nothing lost and no change of the line;
          robbed               \* a frame thrown away by another thread

port  == <<redstate, txbuf2, tx_mutex>>
ghost == <<executed, clean, robbed>>
vars  == <<port, cut, air, txbuf, rxbuf, rxbufstat, pc, asked, wkc, result,
           calls, faults, ghost>>

Slaves  == 1 .. Length
Whole   == Length + 1          \* "cut" is the slave before the break
NoFrame == -1                  \* EC_NOFRAME

(* A received frame, which has no ethernet header, begins with the length. *)
EthHeader == 14
Header    == 12                \* EC_HEADERSIZE, with the length
ELength   == 2                 \* EC_ELENGTHSIZE
WkcSize   == 2
-----------------------------------------------------------------------------
(* Frames: datagrams at their places in the received frame.                *)

Datagram(com, adp, length, more) ==
  [com |-> com, adp |-> adp, length |-> length, more |-> more, wkc |-> 0, done |-> {}]

(* ecx_setupdatagram, with elength, and txbuflength of the index. *)
Setup(com, adp, length) ==
  [elength |-> Header + length,
   txbuflength |-> EthHeader + Header + WkcSize + length,
   at |-> ELength :> Datagram(com, adp, length, FALSE)]

(* ecx_adddatagram, and the offset it returns. *)
Added(f, com, adp, length, more) ==
  [elength |-> f.elength + Header + length,
   txbuflength |-> f.txbuflength + Header - ELength + WkcSize + length,
   at |-> [f.at EXCEPT ![ELength].more = TRUE]
          @@ (f.txbuflength - EthHeader :> Datagram(com, adp, length, more))]
OffsetOfAdded(f) == f.txbuflength + Header - ELength - EthHeader

(* The datagram whose data is at an offset, and the one whose working      *)
(* counter ecx_inframe takes for that of the frame.                        *)
DataAt(f, offset) == f.at[offset - (Header - ELength)]
LastOf(f) == CHOOSE p \in DOMAIN f.at : p + Header - ELength + f.at[p].length = f.elength
WkcOf(f) == f.at[LastOf(f)].wkc

(* The calls.  "then" is what is done with the answer. *)
Write(f)   == [frame |-> f, then |-> "nothing", offset |-> 0]
Read(f)    == [frame |-> f, then |-> "copy", offset |-> 0]
Logical(f) == [frame |-> f, then |-> "copyown", offset |-> 0]

BWR(len)         == Write(Setup("BWR", 0, len))
BRD(len)         == Read(Setup("BRD", 0, len))
APRD(slave, len) == Read(Setup("APRD", 1 - slave, len))
ARMW(slave, len) == Read(Setup("ARMW", 1 - slave, len))
FRMW(slave, len) == Read(Setup("FRMW", slave, len))
FPRD(slave, len) == Read(Setup("FPRD", slave, len))
APWR(slave, len) == Write(Setup("APWR", 1 - slave, len))
FPWR(slave, len) == Write(Setup("FPWR", slave, len))
LRW(len)         == Logical(Setup("LRW", 0, len))
LRD(len)         == Logical(Setup("LRD", 0, len))
LWR(len)         == Write(Setup("LWR", 0, len))
LRWDC(len, DCrs) ==
  LET f == Setup("LRW", 0, len) IN
  [frame |-> Added(f, "FRMW", DCrs, 8, FALSE), then |-> "clock",
   offset |-> OffsetOfAdded(f)]

(* What a call makes of the working counter w and the frame f in rxbuf.    *)
Outcome(c, w, f) ==
  LET first == IF w > 0 THEN f.at[ELength] ELSE Datagram("", 0, 0, FALSE)
      own == first.com = c.frame.at[ELength].com IN
  [wkc  |-> IF c.then = "clock" /\ w > 0 /\ own THEN first.wkc ELSE w,
   data |-> IF c.then = "nothing" \/ (c.then # "copy" /\ ~own) THEN {} ELSE first.done,
   time |-> IF c.then = "clock" /\ w > 0 /\ own THEN DataAt(f, c.offset).done ELSE {}]
-----------------------------------------------------------------------------
(* The slaves.  Frames are worked on in the direction away from the        *)
(* primary interface only.                                                 *)

Counting   == {"BRD", "BWR", "APRD", "APWR", "ARMW"}
Everyones  == {"BRD", "BWR", "LRD", "LWR", "LRW"}
Takes(s, d) == \/ d.com \in Everyones
               \/ d.com \in {"APRD", "APWR", "ARMW"} /\ d.adp = 0
               \/ d.com \in {"FPRD", "FPWR", "FRMW"} /\ d.adp = s
               \/ d.com \in {"ARMW", "FRMW"} /\ d.done # {}

Pass(d, s) ==
  [d EXCEPT !.adp  = IF d.com \in Counting THEN @ + 1 ELSE @,
            !.wkc  = @ + IF ~Takes(s, d) THEN 0 ELSE IF d.com = "LRW" THEN 3 ELSE 1,
            !.done = IF Takes(s, d) THEN @ \cup {s} ELSE @]

(* The datagrams a slave finds: one behind the other while more follow. *)
Behind(f, p) == p + Header - ELength + f.at[p].length + WkcSize
Found(f) == {ELength} \cup
            IF f.at[ELength].more THEN {Behind(f, ELength)} \cap DOMAIN f.at ELSE {}
PassAll(f, s) == [f EXCEPT !.at = [p \in DOMAIN f.at |->
                    IF p \in Found(f) THEN Pass(f.at[p], s) ELSE f.at[p]]]

Crossed(interface) ==
  IF cut = Whole THEN IF interface = 1 THEN [s \in Slaves |-> s] ELSE << >>
  ELSE IF interface = 1 THEN [s \in 1 .. cut |-> s]
  ELSE [s \in 1 .. Length - cut |-> cut + s]
Arrival(interface) ==
  IF cut = Whole THEN 3 - interface
  ELSE IF cut = (IF interface = 1 THEN 0 ELSE Length) THEN 0 ELSE interface

(* Frame f of thread t leaves the interface: it comes back somewhere, or   *)
(* nowhere if the cable there is off, or it is lost on its way.            *)
Transmit(t, interface, f) ==
  LET Upto(k) == FoldLeft(PassAll, f, SubSeq(Crossed(interface), 1, k))
      Did(k, s) == IF \E i \in 1 .. k : /\ Crossed(interface)[i] = s
                                        /\ Takes(s, Upto(i - 1).at[ELength])
                   THEN 1 ELSE 0
      Execute(k) == executed' = IF f.src = "SEC" THEN executed
                                ELSE [executed EXCEPT ![t] =
                                        [s \in Slaves |-> @[s] + Did(k, s)]]
      n == Len(Crossed(interface))
  IN \/ /\ air' = IF Arrival(interface) = 0 THEN air
                  ELSE air \cup {<<Arrival(interface), Upto(n)>>}
        /\ Execute(n)
        /\ UNCHANGED <<clean, faults>>
     \/ \E k \in 0 .. n :
          /\ Arrival(interface) # 0
          /\ faults < MaxFaults /\ faults' = faults + 1
          /\ Execute(k) /\ clean' = [clean EXCEPT ![t] = FALSE]
          /\ UNCHANGED air

(* The cable is cut behind a slave, or mended. *)
Change ==
  /\ redstate = "double" /\ faults < MaxFaults
  /\ faults' = faults + 1
  /\ IF cut = Whole THEN cut' \in 0 .. Length ELSE cut' = Whole
  /\ clean' = [t \in Threads |-> FALSE]
  /\ UNCHANGED <<port, air, txbuf, rxbuf, rxbufstat, pc, asked, wkc, result,
                 calls, executed, robbed>>
-----------------------------------------------------------------------------
(* ecx_init_redundant, or ecx_init, for which the line ends at a slave. *)
Init ==
  /\ \/ redstate = "double" /\ cut \in 0 .. Whole
     \/ redstate = "none" /\ cut = Length
  /\ air = {} /\ txbuf2 = NoThread /\ tx_mutex = NoThread
  /\ txbuf = [t \in Threads |-> << >>]
  /\ rxbuf = [i \in {1, 2} |-> [t \in Threads |-> << >>]]
  /\ rxbufstat = [i \in {1, 2} |-> [t \in Threads |-> "empty"]]
  /\ pc = [t \in Threads |-> "idle"]
  /\ asked = [t \in Threads |-> << >>] /\ result = [t \in Threads |-> << >>]
  /\ wkc = [t \in Threads |-> <<NoFrame, NoFrame>>]
  /\ calls = [t \in Threads |-> 0]
  /\ faults = 0
  /\ executed = [t \in Threads |-> [s \in Slaves |-> 0]]
  /\ clean = [t \in Threads |-> TRUE] /\ robbed = [t \in Threads |-> FALSE]

Goto(t, where) == pc' = [pc EXCEPT ![t] = where]
OnFrame(t, src) == [elength |-> txbuf[t].elength, at |-> txbuf[t].at, src |-> src, idx |-> t]
Dummy == LET f == Setup("BRD", 0, 2) IN
         [elength |-> f.elength, at |-> f.at, src |-> "SEC", idx |-> txbuf2]

(* ecx_setbufstat; the secondary status is there in redundant mode only. *)
SetBufStat(t, stat) ==
  rxbufstat' = [i \in {1, 2} |-> IF i = 1 \/ redstate = "double"
                                 THEN [rxbufstat[i] EXCEPT ![t] = stat] ELSE rxbufstat[i]]

Call(t) ==
  /\ pc[t] = "idle" /\ calls[t] < MaxCalls
  /\ calls' = [calls EXCEPT ![t] = @ + 1]
  /\ \E c \in Requests[t] : /\ asked' = [asked EXCEPT ![t] = c]
                            /\ txbuf' = [txbuf EXCEPT ![t] = c.frame]
  /\ SetBufStat(t, "alloc")
  /\ executed' = [executed EXCEPT ![t] = [s \in Slaves |-> 0]]
  /\ clean' = [clean EXCEPT ![t] = TRUE] /\ robbed' = [robbed EXCEPT ![t] = FALSE]
  /\ result' = [result EXCEPT ![t] = << >>]
  /\ Goto(t, "send")
  /\ UNCHANGED <<port, cut, air, rxbuf, wkc, faults>>

(* ecx_outframe_red. *)
SendPrimary(t) ==
  /\ pc[t] = "send"
  /\ rxbufstat' = [rxbufstat EXCEPT ![1][t] = "tx"]
  /\ Transmit(t, 1, OnFrame(t, "PRIM"))
  /\ wkc' = [wkc EXCEPT ![t] = <<NoFrame, IF redstate = "none" THEN 0 ELSE NoFrame>>]
  /\ Goto(t, IF redstate = "none" THEN "wait" ELSE "lock")
  /\ UNCHANGED <<port, cut, txbuf, rxbuf, asked, result, calls, robbed>>

Always == TRUE
Unlocked == tx_mutex = NoThread

PrepareDummy(t) ==
  /\ pc[t] = "lock"
  /\ Unlocked
  /\ tx_mutex' = t
  /\ txbuf2' = t
  /\ Goto(t, "dummy")
  /\ UNCHANGED <<redstate, cut, air, txbuf, rxbuf, rxbufstat, asked, wkc, result,
                 calls, faults, ghost>>

SendDummy(t) ==
  /\ pc[t] = "dummy"
  /\ rxbufstat' = [rxbufstat EXCEPT ![2][t] = "tx"]
  /\ Transmit(t, 2, Dummy)
  /\ tx_mutex' = NoThread
  /\ Goto(t, "wait")
  /\ UNCHANGED <<redstate, txbuf2, cut, txbuf, rxbuf, asked, wkc, result, calls,
                 robbed>>

(* ecx_inframe on interface i: the frame may have been received for the    *)
(* thread, or it receives one, its own or one that another thread waits    *)
(* for.                                                                    *)
Waiting(t, i) == \/ pc[t] = "wait" /\ wkc[t][i] = NoFrame
                 \/ pc[t] = "again" /\ i = 2 /\ wkc[t][2] = NoFrame

InFrame(t, i) ==
  /\ Waiting(t, i)
  /\ IF rxbufstat[i][t] = "rcvd"
     THEN /\ rxbufstat' = [rxbufstat EXCEPT ![i][t] = "complete"]
          /\ wkc' = [wkc EXCEPT ![t][i] = WkcOf(rxbuf[i][t])]
          /\ UNCHANGED <<air, rxbuf, robbed>>
     ELSE \E p \in air :
            LET f == p[2] IN
            /\ p[1] = i
            /\ air' = air \ {p}
            /\ IF f.idx = t
               THEN /\ rxbuf' = [rxbuf EXCEPT ![i][t] = f]
                    /\ rxbufstat' = [rxbufstat EXCEPT ![i][t] = "complete"]
                    /\ wkc' = [wkc EXCEPT ![t][i] = WkcOf(f)]
                    /\ UNCHANGED robbed
               ELSE /\ IF rxbufstat[i][f.idx] = "tx"
                       THEN /\ rxbuf' = [rxbuf EXCEPT ![i][f.idx] = f]
                            /\ rxbufstat' = [rxbufstat EXCEPT ![i][f.idx] = "rcvd"]
                            /\ UNCHANGED robbed
                       ELSE /\ robbed' = [robbed EXCEPT ![f.idx] =
                                           @ \/ rxbufstat[i][f.idx] = "alloc"]
                            /\ UNCHANGED <<rxbuf, rxbufstat>>
                    /\ UNCHANGED wkc
  /\ UNCHANGED <<port, cut, txbuf, pc, asked, result, calls, faults, executed,
                 clean>>

(* The timer: a frame that is not late is in before. *)
Expired(t) ==
  \A i \in {1, 2} : Waiting(t, i) =>
    Late \/ (rxbufstat[i][t] # "rcvd" /\ \A p \in air : p[1] # i \/ p[2].idx # t)

(* The MAC on interface i, if a frame came. *)
Rx(t, i) == IF redstate = "double" /\ wkc[t][i] > NoFrame THEN rxbuf[i][t].src ELSE "0"

(* The line is broken: what is sent on from the secondary side. *)
ResendBuffer(t, primrx) ==
  IF primrx = "PRIM" THEN [txbuf EXCEPT ![t].at = rxbuf[1][t].at] ELSE txbuf

(* ecx_waitinframe_red once both frames are in or the time is over. *)
Decide(t) ==
  LET primrx == Rx(t, 1)  secrx == Rx(t, 2) IN
  /\ pc[t] = "wait"
  /\ (\A i \in {1, 2} : wkc[t][i] # NoFrame) \/ Expired(t)
  /\ \/ /\ redstate = "double" /\ primrx = "SEC" /\ secrx = "PRIM"
        /\ rxbuf' = [rxbuf EXCEPT ![1][t] = rxbuf[2][t]]
        /\ wkc' = [wkc EXCEPT ![t][1] = wkc[t][2]]
        /\ Goto(t, "confirm") /\ UNCHANGED txbuf
     \/ /\ redstate = "double" /\ primrx \in {"0", "PRIM"} /\ secrx = "SEC"
        /\ txbuf' = ResendBuffer(t, primrx)
        /\ Goto(t, "resend") /\ UNCHANGED <<rxbuf, wkc>>
     \/ /\ redstate = "none" \/ <<primrx, secrx>> \notin
              {<<"SEC", "PRIM">>, <<"0", "SEC">>, <<"PRIM", "SEC">>}
        /\ Goto(t, "confirm") /\ UNCHANGED <<txbuf, rxbuf, wkc>>
  /\ UNCHANGED <<port, cut, air, rxbufstat, asked, result, calls, faults,
                 ghost>>

Resend(t) ==
  /\ pc[t] = "resend"
  /\ rxbufstat' = [rxbufstat EXCEPT ![2][t] = "tx"]
  /\ Transmit(t, 2, OnFrame(t, "PRIM"))
  /\ wkc' = [wkc EXCEPT ![t][2] = NoFrame]
  /\ Goto(t, "again")
  /\ UNCHANGED <<port, cut, txbuf, rxbuf, asked, result, calls, robbed>>

TakeResent(t) ==
  /\ pc[t] = "again"
  /\ wkc[t][2] # NoFrame \/ Expired(t)
  /\ IF wkc[t][2] # NoFrame
     THEN /\ rxbuf' = [rxbuf EXCEPT ![1][t] = rxbuf[2][t]]
          /\ wkc' = [wkc EXCEPT ![t][1] = wkc[t][2]]
     ELSE UNCHANGED <<rxbuf, wkc>>
  /\ Goto(t, "confirm")
  /\ UNCHANGED <<port, cut, air, txbuf, rxbufstat, asked, result, calls, faults, ghost>>

(* ecx_srconfirm tries again without an answer, and the call returns. *)
Retry(t) ==
  /\ pc[t] = "confirm" /\ wkc[t][1] = NoFrame
  /\ Goto(t, "send")
  /\ UNCHANGED <<port, cut, air, txbuf, rxbuf, rxbufstat, asked, wkc, result,
                 calls, faults, ghost>>

Return(t) ==
  /\ pc[t] = "confirm"
  /\ result' = [result EXCEPT ![t] = Outcome(asked[t], wkc[t][1], rxbuf[1][t])]
  /\ SetBufStat(t, "empty")
  /\ air' = {p \in air : p[2].idx # t}      \* the next call has another index
  /\ Goto(t, "idle")
  /\ UNCHANGED <<port, cut, txbuf, rxbuf, asked, wkc, calls, faults, ghost>>

Thread(t) == \/ Call(t) \/ SendPrimary(t) \/ PrepareDummy(t) \/ SendDummy(t)
             \/ \E i \in {1, 2} : InFrame(t, i)
             \/ Decide(t) \/ Resend(t) \/ TakeResent(t) \/ Retry(t) \/ Return(t)

Next == Change \/ \E t \in Threads : Thread(t)

Spec == Init /\ [][Next]_vars

(* Threads are scheduled and time passes. *)
FairSpec == Spec /\ \A t \in Threads : WF_vars(Thread(t))
-----------------------------------------------------------------------------
Returned(t) == pc[t] = "idle" /\ result[t] # << >>

(* The slaves that are to execute a datagram, and their working counter. *)
First(t) == asked[t].frame.at[ELength]
Addressed(d) ==
  IF d.com \in Everyones THEN Slaves
  ELSE LET s == IF d.com \in Counting THEN 1 - d.adp ELSE d.adp
       IN IF d.com \in {"ARMW", "FRMW"} THEN s .. Length ELSE {s}
Weight(d) == IF d.com = "LRW" THEN 3 ELSE 1
Reads(t) == First(t).com \notin {"BWR", "APWR", "FPWR", "LWR"}

Done(t) ==
  LET d == First(t) IN
  /\ executed[t] = [s \in Slaves |-> IF s \in Addressed(d) THEN 1 ELSE 0]
  /\ result[t].wkc = Weight(d) * Cardinality(Addressed(d))
  /\ result[t].data = IF Reads(t) THEN Addressed(d) ELSE {}
  /\ asked[t].then = "clock" =>
       result[t].time = Addressed(DataAt(asked[t].frame, asked[t].offset))

(* With the line whole, or broken in one place, a call that lost no frame  *)
(* is done once by each slave it is for and by no other, and returns all   *)
(* of their data and their working counter, whichever way its frames went. *)
DoneByAll == \A t \in Threads : Returned(t) /\ clean[t] /\ ~robbed[t] => Done(t)

(* "To compensate for received frames that are out-of-order all frames are *)
(* stored in their respective indexed buffer", whichever thread received   *)
(* them: nothing but the line loses a frame.                               *)
AllAreStored == \A t \in Threads : Returned(t) /\ clean[t] => Done(t)

(* Whichever frame is lost or wherever the line changes once meanwhile, a  *)
(* call that returns a working counter has been given neither a dummy nor  *)
(* the frame of another thread: it counts slaves that executed this call,  *)
(* and none twice.  (If the line changes twice between the transmissions   *)
(* of one frame, what was sent on crosses slaves that have executed it.)   *)
AnswerIsOwn ==
  \A t \in Threads : Returned(t) /\ result[t].wkc > 0 =>
    LET did == {s \in Slaves : executed[t][s] > 0} IN
    /\ rxbuf[1][t].idx = t /\ rxbuf[1][t].src = "PRIM"
    /\ \E done \in SUBSET did :
         /\ result[t].wkc = Weight(First(t)) * Cardinality(done)
         /\ Reads(t) => result[t].data = done

(* A call is given the dummy for its answer, with the working counter 0,   *)
(* when its own frame is lost on a whole line, or thrown away by another   *)
(* thread: ecx_srconfirm does not try again after a 0.  It takes no data   *)
(* from the dummy, and is not given one when nothing went wrong.           *)
GivenDummy(t) == wkc[t][1] # NoFrame /\ rxbuf[1][t].src = "SEC"
DummyTellsNothing ==
  \A t \in Threads : Returned(t) /\ GivenDummy(t) =>
    /\ result[t] = [wkc |-> 0, data |-> {}, time |-> {}]
    /\ ~clean[t] \/ robbed[t]

CallRight == DoneByAll /\ AnswerIsOwn /\ DummyTellsNothing

(* A frame that counts positions is executed at its position.  It is not   *)
(* when the line is broken in the middle and the primary frame is lost:    *)
(* the one sent from the secondary interface counts from the break.        *)
AtOwnPosition ==
  \A t \in Threads : Returned(t) =>
    \A s \in Slaves : executed[t][s] > 0 => s \in Addressed(First(t))

(* Every call returns. *)
EveryCallReturns == \A t \in Threads : []<>(pc[t] = "idle")
=============================================================================
