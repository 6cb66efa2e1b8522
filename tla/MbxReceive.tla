----------------------------- MODULE MbxReceive -----------------------------
(***************************************************************************)
(* Reception of mailboxes.  One thread runs ecx_mbxinhandler after every   *)
(* process data cycle: it goes round the slaves that are handled           *)
(* cyclically, reads the full mailboxes, hands each mail to the slot of    *)
(* its protocol, and asks a slave to repeat a mail whose read failed.  Per *)
(* slave one thread at a time is in ecx_mbxreceive: it takes mails out of  *)
(* the slots, or reads the mailbox of a slave that is not handled itself.  *)
(* Pointer and flag of a slot are read and written without a lock, so each *)
(* such access is a step.                                                  *)
(***************************************************************************)
EXTENDS MbxPool, MbxSlave, Sequences, FiniteSets

CONSTANTS Enabled,             \* protocols whose slot the application uses
          Callers,             \* slaves with a thread in ecx_mbxreceive
          EoeHook,             \* an EoE hook is registered
          Limits               \* limits the handler is called with

Protocols == {"coe", "soe", "foe", "eoe", "voe", "aoe"}

(* The slots ecx_mbxreceive looks into, in its order. *)
FetchOrder == <<"coe", "soe", "foe", "eoe">>

ASSUME ReceiveAssumption ==
  /\ Kinds \subseteq Protocols \cup {"report"}    \* report: error or emergency
  /\ Enabled \subseteq Protocols
  /\ Callers \subseteq Slaves
  /\ EoeHook \in BOOLEAN
  /\ Limits \subseteq Nat

ENABLE == -2                   \* EC_MBXINENABLE: the slot is in use but empty

VARIABLES mbxhandlerstate,     \* "none", "cyclic" or "lost"
          islost,              \* the application has noticed the slave is gone
          mbxrmpstate,         \* state of the robust mailbox protocol, 0 .. 3
          mbxinstateex,        \* the repeat request bit to write
          mbxin,               \* slot: NULL, ENABLE or a buffer
          mbxinfull,           \* slot: its flag
          overrun,             \* slot: its overrun counter
          tunnelled,           \* fragments the handler's EoE hook has taken
          content,             \* the mail a buffer was filled with
          mbxstatus,           \* full bit of each slave in this cycle
          lastmbxpos,          \* slave the handler is at or was at last
          firstmbxpos, cnt, maxcnt, limit, limitcnt, mbx,  \* its locals
          hpc,                 \* where the handler is; a protocol: it has
                               \* filled that slot and is to set its flag
          rpc, rpos, rbuf,     \* per slave: its receiver, the slot it looks
                               \* into, the buffer it has
          rtoggle,             \* the repeat request bit it is to write
          accepted,            \* number of the last mail read from a slave
          excused,             \* ghost: the next mail may be passed over
          waited               \* runs of the handler that left a full mailbox out

slotvars    == <<mbxin, mbxinfull, overrun, tunnelled>>
robustvars  == <<mbxrmpstate, mbxinstateex>>
runvars     == <<firstmbxpos, cnt, maxcnt, limit, limitcnt>>
recvvars    == <<rpc, rpos, rbuf, rtoggle>>
mailvars    == <<accepted, excused>>
appvars     == <<mbxhandlerstate, islost>>
handlervars == <<mbxstatus, lastmbxpos, runvars, mbx, hpc, waited>>
vars == <<poolvars, slavevars, linkvars, lost, appvars, robustvars, slotvars,
          content, handlervars, recvvars, mailvars>>

(* Where the receiver of a slave that is not handled may be: before the    *)
(* mail is read, and, after a failed read, until it is read again.         *)
Waits   == {"await", "read", "sort"}
Repeats == {"status", "overdue", "request", "ack", "refill", "spent"}

(* A caller reads the mailbox of a slave that the handler reads as well: a *)
(* call may be under way when the slave is marked as lost or as found.     *)
Shared(s) ==
  /\ rpc[s] \in Waits \cup Repeats
  /\ \/ mbxhandlerstate[s] = "cyclic"
     \/ lastmbxpos = s /\ hpc \in {"serve", "fetch"}

(* The next mail may be passed over, after mail m was read.                *)
ExcusedAfter(s, m) == IF m.no = accepted[s] THEN excused[s] ELSE Shared(s)

TypeOK ==
  /\ PoolTypeOK /\ poolcount \in 0 .. PoolSize
  /\ SlaveTypeOK
  /\ mbxhandlerstate \in [Slaves -> {"none", "cyclic", "lost"}]
  /\ islost \in [Slaves -> BOOLEAN]
  /\ mbxrmpstate \in [Slaves -> 0 .. 3]
  /\ mbxinstateex \in [Slaves -> BOOLEAN]
  /\ mbxin \in [Slaves -> [Protocols -> Buffers \cup {NULL, ENABLE}]]
  /\ mbxinfull \in [Slaves -> [Protocols -> BOOLEAN]]
  /\ overrun \in [Slaves -> [Protocols -> Nat]]
  /\ tunnelled \in [Slaves -> Nat]
  /\ content \in [Buffers -> Mail \cup {NoMail}]
  /\ mbxstatus \in [Slaves -> BOOLEAN]
  /\ lastmbxpos \in Slaves
  /\ firstmbxpos \in 0 .. NSlaves
  /\ cnt \in 0 .. NSlaves
  /\ maxcnt \in {0, NSlaves}
  /\ limit \in Limits
  /\ limitcnt \in 0 .. NSlaves
  /\ mbx \in Buffers \cup {NULL}
  /\ hpc \in {"idle", "visit", "serve", "fetch", "deliver", "drop"} \cup Protocols
  /\ rpc \in [Slaves -> {"idle", "poll", "enable", "clear", "own", "crashed"}
                         \cup Waits \cup Repeats]
  /\ rtoggle \in [Slaves -> BOOLEAN]
  /\ rpos \in [Slaves -> 1 .. Len(FetchOrder)]
  /\ rbuf \in [Slaves -> Buffers \cup {NULL}]
  /\ accepted \in [Slaves -> 0 .. MaxMail]
  /\ excused \in [Slaves -> BOOLEAN]
  /\ waited \in [Slaves -> Nat]

Init ==
  /\ PoolInit
  /\ SlaveInit
  /\ mbxhandlerstate \in [Slaves -> {"none", "cyclic"}]   \* ecx_slavembxcyclic
  /\ islost = [s \in Slaves |-> FALSE]
  /\ mbxrmpstate = [s \in Slaves |-> 0]
  /\ mbxinstateex = [s \in Slaves |-> FALSE]
  /\ mbxin = [s \in Slaves |-> [p \in Protocols |->
                IF mbxhandlerstate[s] = "cyclic" /\ p \in Enabled
                THEN ENABLE ELSE NULL]]
  /\ mbxinfull = [s \in Slaves |-> [p \in Protocols |-> FALSE]]
  /\ overrun = [s \in Slaves |-> [p \in Protocols |-> 0]]
  /\ tunnelled = [s \in Slaves |-> 0]
  /\ content = [b \in Buffers |-> NoMail]
  /\ mbxstatus = [s \in Slaves |-> FALSE]
  /\ lastmbxpos = 0
  /\ firstmbxpos = 0 /\ cnt = 0 /\ maxcnt = 0 /\ limit \in Limits /\ limitcnt = 0
  /\ mbx = NULL
  /\ hpc = "idle"
  /\ rpc = [s \in Slaves |-> "idle"]
  /\ rpos = [s \in Slaves |-> 1]
  /\ rbuf = [s \in Slaves |-> NULL]
  /\ rtoggle = [s \in Slaves |-> FALSE]
  /\ accepted = [s \in Slaves |-> 0]
  /\ excused = [s \in Slaves |-> FALSE]
  /\ waited = [s \in Slaves |-> 0]

-----------------------------------------------------------------------------
(* ecx_mbxinhandler. *)

FromTheStart(pos) == 0

(* The place a run of the handler starts from. *)
FirstPos(pos) == pos + 1

(* The cyclic thread receives the process data, which bring the full bits  *)
(* of the slaves that are handled, or none when the frame is lost (the     *)
(* bits were cleared when it was sent), and calls the handler.             *)
Cycle ==
  /\ hpc = "idle"
  /\ \/ /\ mbxstatus' = [s \in Slaves |-> /\ mbxhandlerstate[s] # "none"
                                        /\ reachable[s] /\ outbox[s] # NoMail]
        /\ UNCHANGED lost
     \/ /\ mbxstatus' = [s \in Slaves |-> FALSE]
        /\ lost < MaxLost
        /\ lost' = lost + 1
  /\ limit' \in Limits
  /\ limitcnt' = 0
  /\ cnt' = 0
  /\ maxcnt' = NSlaves
  /\ firstmbxpos' = FirstPos(lastmbxpos)
  /\ hpc' = "visit"
  /\ UNCHANGED <<poolvars, slavevars, linkvars, appvars, robustvars, slotvars,
                 content, lastmbxpos, mbx, waited, recvvars, mailvars>>

Place(i) == IF i >= NSlaves THEN i - NSlaves ELSE i

Visit ==
  /\ hpc = "visit"
  /\ cnt < maxcnt
  /\ cnt' = cnt + 1
  /\ lastmbxpos' = Place(firstmbxpos + cnt)
  /\ hpc' = IF mbxhandlerstate[lastmbxpos'] = "cyclic" THEN "serve" ELSE "visit"
  /\ UNCHANGED <<poolvars, slavevars, linkvars, lost, appvars, robustvars, slotvars,
                 content, mbxstatus, firstmbxpos, maxcnt, limit, limitcnt, mbx,
                 waited, recvvars, mailvars>>

(* The slaves this run has visited. *)
Visited == {Place(firstmbxpos + i) : i \in 0 .. cnt - 1}

Finish ==
  /\ hpc = "visit"
  /\ cnt >= maxcnt
  /\ hpc' = "idle"
  /\ waited' = [s \in Slaves |-> IF mbxstatus[s] /\ s \notin Visited
                                 THEN waited[s] + 1 ELSE 0]
  /\ UNCHANGED <<poolvars, slavevars, linkvars, lost, appvars, robustvars, slotvars,
                 content, mbxstatus, lastmbxpos, runvars, mbx, recvvars, mailvars>>

CountOperation ==
  /\ limitcnt' = limitcnt + 1
  /\ maxcnt' = IF limitcnt + 1 >= limit THEN 0 ELSE maxcnt
  /\ UNCHANGED <<firstmbxpos, cnt, limit>>

(* The handler is at a slave with a repetition under way. *)
Repeating(state) ==
  /\ hpc = "serve"
  /\ mbxrmpstate[lastmbxpos] = state
  /\ hpc' = "visit"
  /\ UNCHANGED <<poolvars, linkvars, appvars, slotvars, content, mbxstatus,
                 lastmbxpos, mbx, waited, recvvars>>

(* A lost slave is not asked to repeat: the mail is given up. *)
GiveUpRepeat(state) ==
  LET s == lastmbxpos IN
  /\ Repeating(state)
  /\ islost[s]
  /\ mbxrmpstate' = [mbxrmpstate EXCEPT ![s] = 0]
  /\ excused' = [excused EXCEPT ![s] = TRUE]
  /\ UNCHANGED <<slavevars, lost, mbxinstateex, accepted, runvars>>

(* A step of the robust mailbox protocol. *)
RobustStep(state) ==
  /\ Repeating(state)
  /\ ~islost[lastmbxpos]
  /\ CountOperation

NotToggled(bit) == bit

(* The value to write back to SM1STAT. *)
Toggled(bit) == ~bit

RepeatRead ==
  LET s == lastmbxpos IN
  /\ RobustStep(1)
  /\ \E outcome \in Outcomes :
       /\ Datagram(s, outcome)
       /\ IF outcome = "answered"
          THEN /\ mbxinstateex' = [mbxinstateex EXCEPT ![s] = Toggled(repeatreq[s])]
               /\ mbxrmpstate' = [mbxrmpstate EXCEPT ![s] = 2]
          ELSE UNCHANGED robustvars
  /\ UNCHANGED <<slavevars, mailvars>>

RepeatWrite ==
  LET s == lastmbxpos IN
  /\ RobustStep(2)
  /\ \E outcome \in Outcomes :
       /\ Datagram(s, outcome)
       /\ repeatreq' = IF outcome = "unsent" THEN repeatreq
                       ELSE [repeatreq EXCEPT ![s] = mbxinstateex[s]]
       /\ mbxrmpstate' = IF outcome = "answered"
                         THEN [mbxrmpstate EXCEPT ![s] = 3] ELSE mbxrmpstate
  /\ UNCHANGED <<outbox, lastread, deferred, repeatack, posted, mbxinstateex, mailvars>>

Acknowledged(ack, bit) == ack = bit

RepeatWait ==
  LET s == lastmbxpos IN
  /\ RobustStep(3)
  /\ \E outcome \in Outcomes :
       /\ Datagram(s, outcome)
       /\ mbxrmpstate' = IF outcome = "answered"
                            /\ Acknowledged(repeatack[s], mbxinstateex[s])
                         THEN [mbxrmpstate EXCEPT ![s] = 0] ELSE mbxrmpstate
  /\ UNCHANGED <<slavevars, mbxinstateex, mailvars>>

(* A full mailbox, and a buffer for it: without one it waits for the next  *)
(* cycle.                                                                  *)
TakeBuffer ==
  /\ hpc = "serve"
  /\ mbxrmpstate[lastmbxpos] = 0
  /\ mbxstatus[lastmbxpos]
  /\ \E b \in Buffers : GetMbx(b) /\ mbx' = b
  /\ CountOperation
  /\ hpc' = "fetch"
  /\ UNCHANGED <<slavevars, linkvars, lost, appvars, robustvars, slotvars, content,
                 mbxstatus, lastmbxpos, waited, recvvars, mailvars>>

Skip ==
  /\ hpc = "serve"
  /\ mbxrmpstate[lastmbxpos] = 0
  /\ ~mbxstatus[lastmbxpos] \/ poolcount <= 0
  /\ hpc' = "visit"
  /\ UNCHANGED <<poolvars, slavevars, linkvars, lost, appvars, robustvars, slotvars,
                 content, mbxstatus, lastmbxpos, runvars, mbx, waited, recvvars,
                 mailvars>>

DropUnread == 0

(* State of the robust protocol after a read of the mailbox that failed. *)
AfterFailedRead == 1

Fetch ==
  LET s == lastmbxpos IN
  /\ hpc = "fetch"
  /\ \E outcome \in Outcomes :
       /\ Datagram(s, outcome)
       /\ ReadOutbox(s, outcome)
       /\ IF GotMail(s, outcome)
          THEN /\ content' = [content EXCEPT ![mbx] = outbox[s]]
               /\ accepted' = [accepted EXCEPT ![s] = outbox[s].no]
               /\ excused' = [excused EXCEPT ![s] = ExcusedAfter(s, outbox[s])]
               /\ hpc' = "deliver"
               /\ UNCHANGED mbxrmpstate
          ELSE /\ mbxrmpstate' = [mbxrmpstate EXCEPT ![s] = AfterFailedRead]
               /\ hpc' = "drop"
               /\ UNCHANGED <<content, mailvars>>
  /\ UNCHANGED <<poolvars, linkvars, appvars, mbxinstateex, slotvars, mbxstatus,
                 lastmbxpos, runvars, mbx, waited, recvvars>>

(* What becomes of a mail: its step changes slots, counters and mbx only. *)
Deliver(kinds, next) ==
  /\ hpc = "deliver"
  /\ content[mbx].kind \in kinds
  /\ hpc' = next
  /\ UNCHANGED <<poolvars, slavevars, linkvars, lost, appvars, robustvars, content,
                 mbxstatus, lastmbxpos, runvars, waited, recvvars, mailvars>>

(* A mailbox error or an emergency goes to the error list. *)
Report ==
  /\ Deliver({"report"}, "drop")
  /\ UNCHANGED <<slotvars, mbx>>

SlotAlways(s, p) == mbxin[s][p] # NULL

(* The slot is in use and empty. *)
SlotFree(s, p) == mbxin[s][p] # NULL /\ ~mbxinfull[s][p]

FlagWithoutMail ==
  LET s == lastmbxpos  p == content[mbx].kind IN
  /\ Deliver(Protocols, p)
  /\ SlotFree(s, p)
  /\ mbxinfull' = [mbxinfull EXCEPT ![s][p] = TRUE]
  /\ UNCHANGED <<mbxin, overrun, tunnelled, mbx>>

HandOver ==
  LET s == lastmbxpos  p == content[mbx].kind IN
  /\ Deliver(Protocols, p)
  /\ SlotFree(s, p)
  /\ mbxin' = [mbxin EXCEPT ![s][p] = mbx]
  /\ mbx' = NULL
  /\ UNCHANGED <<mbxinfull, overrun, tunnelled>>

Publish ==
  /\ hpc \in Protocols
  /\ mbxinfull' = [mbxinfull EXCEPT ![lastmbxpos][hpc] = TRUE]
  /\ hpc' = "visit"
  /\ UNCHANGED <<poolvars, slavevars, linkvars, lost, appvars, robustvars, mbxin,
                 overrun, tunnelled, content, mbxstatus, lastmbxpos, runvars, mbx,
                 waited, recvvars, mailvars>>

CountOverrun(s, p) ==
  /\ overrun' = [overrun EXCEPT ![s][p] = @ + 1]
  /\ UNCHANGED <<mbxin, mbxinfull, mbx>>

Overrun ==
  LET s == lastmbxpos  p == content[mbx].kind IN
  /\ Deliver(Protocols, "drop")
  /\ ~SlotFree(s, p)
  /\ CountOverrun(s, p)
  /\ UNCHANGED tunnelled

(* The EoE hook takes the fragment; the code then goes on in the branch    *)
(* for mails without a slot.                                               *)
Tunnel ==
  LET s == lastmbxpos IN
  /\ Deliver({"eoe"}, "drop")
  /\ EoeHook
  /\ tunnelled' = [tunnelled EXCEPT ![s] = @ + 1]
  /\ CountOverrun(s, "eoe")

Drop ==
  /\ hpc = "drop"
  /\ DropMbx(mbx)
  /\ mbx' = NULL
  /\ hpc' = "visit"
  /\ UNCHANGED <<slavevars, linkvars, lost, appvars, robustvars, slotvars, content,
                 mbxstatus, lastmbxpos, runvars, waited, recvvars, mailvars>>

Handler ==
  \/ Cycle \/ Visit \/ Finish
  \/ \E state \in 1 .. 3 : GiveUpRepeat(state)
  \/ RepeatRead \/ RepeatWrite \/ RepeatWait
  \/ TakeBuffer \/ Skip \/ Fetch
  \/ Report \/ HandOver \/ Publish \/ Overrun \/ Tunnel \/ Drop

-----------------------------------------------------------------------------
(* ecx_mbxreceive of a slave that is handled cyclically. *)

Receiver(s, at, next) ==
  /\ rpc[s] = at
  /\ rpc' = [rpc EXCEPT ![s] = next]
  /\ UNCHANGED <<slavevars, linkvars, lost, appvars, robustvars, overrun, tunnelled,
                 content, handlervars, rtoggle, mailvars>>

Receive(s) ==
  /\ mbxhandlerstate[s] = "cyclic"
  /\ Receiver(s, "idle", "poll")
  /\ rpos' = [rpos EXCEPT ![s] = 1]
  /\ UNCHANGED <<poolvars, mbxin, mbxinfull, rbuf>>

Slot(s) == FetchOrder[rpos[s]]

AtLastSlot(s) == rpos[s] = Len(FetchOrder)

(* The flag is not set: the next slot, and after the last one the first    *)
(* again or, when the timer has run out, the end of the call.              *)
PollMiss(s) ==
  /\ \/ ~AtLastSlot(s) /\ Receiver(s, "poll", "poll")
                       /\ rpos' = [rpos EXCEPT ![s] = @ + 1]
     \/ AtLastSlot(s) /\ Receiver(s, "poll", "poll") /\ rpos' = [rpos EXCEPT ![s] = 1]
     \/ AtLastSlot(s) /\ Receiver(s, "poll", "idle") /\ rpos' = [rpos EXCEPT ![s] = 1]
  /\ ~mbxinfull[s][Slot(s)]
  /\ UNCHANGED <<poolvars, mbxin, mbxinfull, rbuf>>

TakeMail(s) ==
  /\ Receiver(s, "poll", "enable")
  /\ mbxinfull[s][Slot(s)]
  /\ rbuf' = [rbuf EXCEPT ![s] = mbxin[s][Slot(s)]]
  /\ UNCHANGED <<poolvars, mbxin, mbxinfull, rpos>>

EnableSlot(s) ==
  /\ Receiver(s, "enable", "clear")
  /\ mbxin' = [mbxin EXCEPT ![s][Slot(s)] = ENABLE]
  /\ UNCHANGED <<poolvars, mbxinfull, rpos, rbuf>>

ClearFlag(s) ==
  /\ Receiver(s, "clear", "own")
  /\ mbxinfull' = [mbxinfull EXCEPT ![s][Slot(s)] = FALSE]
  /\ UNCHANGED <<poolvars, mbxin, rpos, rbuf>>

(* The caller has used the mail and drops its buffer. *)
Release(s) ==
  /\ Receiver(s, "own", "idle")
  /\ DropMbx(rbuf[s])
  /\ rbuf' = [rbuf EXCEPT ![s] = NULL]
  /\ rpos' = [rpos EXCEPT ![s] = 1]
  /\ UNCHANGED <<mbxin, mbxinfull>>

-----------------------------------------------------------------------------
(* ecx_mbxreceive of a slave that is not handled cyclically.  Its timer is *)
(* looked at in every loop and may have run out at any look; the loops     *)
(* that follow then make one pass each.                                    *)

Poller(s, at, next) ==
  /\ rpc[s] = at
  /\ rpc' = [rpc EXCEPT ![s] = next]
  /\ UNCHANGED <<linkvars, appvars, robustvars, mbxin, mbxinfull, overrun,
                 tunnelled, handlervars, rpos>>

(* A slave whose handling is suspended may have been asked to repeat a     *)
(* mail; the call does not go on with that.                                *)
DirectCall(s) ==
  /\ mbxhandlerstate[s] # "cyclic"
  /\ Poller(s, "idle", "await")
  /\ excused' = [excused EXCEPT ![s] = @ \/ mbxhandlerstate[s] = "lost"]
  /\ UNCHANGED <<poolvars, slavevars, lost, content, rbuf, rtoggle,
                 accepted>>

(* ecx_readmbxstatus: the full bit, from the slave or, when it has become  *)
(* one that is handled, from the process data.                             *)
AskFull(s, full) ==
  IF mbxhandlerstate[s] = "cyclic"
  THEN full = mbxstatus[s] /\ UNCHANGED lost
  ELSE \E outcome \in Outcomes :
         /\ Datagram(s, outcome)
         /\ full = (outcome = "answered" /\ outbox[s] # NoMail)

(* Nothing to read yet: once more, or the end of the call.                 *)
AwaitMore(s) ==
  /\ \E next \in {"await", "idle"} : Poller(s, "await", next)
  /\ AskFull(s, FALSE)
  /\ UNCHANGED <<poolvars, slavevars, content, rbuf, rtoggle, mailvars>>

(* A full mailbox, and a buffer for it; of an empty pool it is NULL.       *)
AwaitFull(s) ==
  /\ Poller(s, "await", "read")
  /\ AskFull(s, TRUE)
  /\ \/ \E b \in Buffers : GetMbx(b) /\ rbuf' = [rbuf EXCEPT ![s] = b]
     \/ poolcount <= 0 /\ UNCHANGED <<poolvars, rbuf>>
  /\ UNCHANGED <<slavevars, content, rtoggle, mailvars>>

(* The read of the mailbox; ecx_FPRD copies what it gets to NULL as well.  *)
ReadDirect(s) ==
  \E outcome \in Outcomes :
    /\ Datagram(s, outcome)
    /\ ReadOutbox(s, outcome)
    /\ CASE ~GotMail(s, outcome) ->
              /\ Poller(s, "read", "status")
              /\ UNCHANGED <<content, mailvars>>
         [] GotMail(s, outcome) /\ rbuf[s] = NULL ->
              /\ Poller(s, "read", "crashed")
              /\ UNCHANGED <<content, mailvars>>
         [] OTHER ->
              /\ Poller(s, "read", "sort")
              /\ content' = [content EXCEPT ![rbuf[s]] = outbox[s]]
              /\ accepted' = [accepted EXCEPT ![s] = outbox[s].no]
              /\ excused' = [excused EXCEPT ![s] = ExcusedAfter(s, outbox[s])]
    /\ UNCHANGED <<poolvars, rbuf, rtoggle>>

(* The mail goes to the caller.  Emergencies and EoE frames are looked for *)
(* at mbx, the address of the caller's pointer, and not at the mail: where *)
(* pointers have 8 bytes the upper two of it are zero, which is never an   *)
(* emergency and always an EoE fragment.                                   *)
ToCaller(s) ==
  /\ Poller(s, "sort", "own")
  /\ UNCHANGED <<poolvars, slavevars, lost, content, rbuf, rtoggle,
                 mailvars>>

(* A mailbox error, or a fragment the hook claims to have taken: the       *)
(* buffer is dropped, and the next read is to NULL.                        *)
Settle(s) ==
  /\ \E next \in {"read", "idle"} : Poller(s, "sort", next)
  /\ \/ content[rbuf[s]].kind = "report"
     \/ content[rbuf[s]].kind = "eoe" /\ EoeHook
  /\ DropMbx(rbuf[s])
  /\ rbuf' = [rbuf EXCEPT ![s] = NULL]
  /\ UNCHANGED <<slavevars, lost, content, rtoggle, mailvars>>

(* A step of the repetition, a datagram with its outcome.                  *)
RepeatStep(s, at, outcome, next) ==
  /\ Poller(s, at, next)
  /\ Datagram(s, outcome)
  /\ UNCHANGED <<poolvars, outbox, lastread, deferred, repeatack, posted,
                 content, rbuf, mailvars>>

(* The repeat request is read until that succeeds; when the timer ends it, *)
(* what is written back is a variable that was never set.                  *)
StatusRead(s) ==
  \/ /\ RepeatStep(s, "status", "answered", "request")
     /\ rtoggle' = [rtoggle EXCEPT ![s] = Toggled(repeatreq[s])]
     /\ UNCHANGED repeatreq
  \/ \E outcome \in Outcomes \ {"answered"} :
       /\ \/ RepeatStep(s, "status", outcome, "status") /\ UNCHANGED rtoggle
          \/ /\ RepeatStep(s, "status", outcome, "overdue")
             /\ \E bit \in BOOLEAN : rtoggle' = [rtoggle EXCEPT ![s] = bit]
       /\ UNCHANGED repeatreq

(* It is written once, whether that succeeds or not.                       *)
RequestWrite(s) ==
  \E outcome \in Outcomes :
    /\ \/ RepeatStep(s, "request", outcome, "ack")
       \/ RepeatStep(s, "overdue", outcome, "spent")
    /\ repeatreq' = IF outcome = "unsent" THEN repeatreq
                    ELSE [repeatreq EXCEPT ![s] = rtoggle[s]]
    /\ UNCHANGED rtoggle

AckWait(s) ==
  \E outcome \in Outcomes :
    /\ RepeatStep(s, "ack", outcome,
                  IF outcome = "answered" /\ Acknowledged(repeatack[s], rtoggle[s])
                  THEN "refill" ELSE "ack")
    /\ UNCHANGED <<repeatreq, rtoggle>>

RefillWait(s) ==
  \E outcome \in Outcomes :
    /\ RepeatStep(s, "refill", outcome,
                  IF outcome = "answered" /\ outbox[s] # NoMail
                  THEN "read" ELSE "refill")
    /\ UNCHANGED <<repeatreq, rtoggle>>

(* The timer has run out: the mail is not waited for any more.             *)
GiveUpMail(s) ==
  /\ \E at \in {"ack", "refill", "spent"} : Poller(s, at, "idle")
  /\ DropMbx(rbuf[s])
  /\ rbuf' = [rbuf EXCEPT ![s] = NULL]
  /\ excused' = [excused EXCEPT ![s] = TRUE]
  /\ UNCHANGED <<slavevars, lost, content, rtoggle, accepted>>

ReceiverStep(s) ==
  \/ PollMiss(s) \/ TakeMail(s) \/ EnableSlot(s) \/ ClearFlag(s) \/ Release(s)
  \/ AwaitMore(s) \/ AwaitFull(s) \/ ReadDirect(s) \/ ToCaller(s) \/ Settle(s)
  \/ StatusRead(s) \/ RequestWrite(s) \/ AckWait(s) \/ RefillWait(s)
  \/ GiveUpMail(s)

-----------------------------------------------------------------------------
mastervars == <<poolvars, appvars, robustvars, slotvars, content, handlervars,
                recvvars>>

Firmware(s) ==
  /\ (\E kind \in Kinds : Post(s, kind)) \/ Repeat(s)
  /\ UNCHANGED <<mastervars, mailvars>>

Fault(s) ==
  /\ \/ (Disconnect(s) \/ Reconnect(s)) /\ UNCHANGED excused
     \/ Restart(s) /\ excused' = [excused EXCEPT ![s] = TRUE]
  /\ UNCHANGED <<mastervars, accepted>>

(* The application marks slaves as lost and found in its own thread; the   *)
(* library reads the marks.                                                *)
Mark(s) ==
  /\ faults < MaxFaults
  /\ faults' = faults + 1
  /\ \/ islost' = [islost EXCEPT ![s] = ~@] /\ UNCHANGED <<mbxhandlerstate, excused>>
     \/ /\ mbxhandlerstate[s] # "none"
        /\ mbxhandlerstate' = [mbxhandlerstate EXCEPT ![s] =
                                 IF @ = "cyclic" THEN "lost" ELSE "cyclic"]
        /\ excused' = [excused EXCEPT ![s] = @ \/ rpc[s] \in Waits \cup Repeats]
        /\ UNCHANGED islost
  /\ UNCHANGED <<poolvars, slavevars, reachable, lost, robustvars, slotvars, content,
                 handlervars, recvvars, accepted>>

(* A write to NULL ends the program.                                       *)
Next ==
  /\ \A s \in Slaves : rpc[s] # "crashed"
  /\ \/ Handler
     \/ \E s \in Callers : Receive(s) \/ DirectCall(s) \/ ReceiverStep(s)
     \/ \E s \in Slaves : Firmware(s) \/ Fault(s) \/ Mark(s)

Spec == Init /\ [][Next]_vars

(* The application calls the handler in every cycle, the threads in        *)
(* ecx_mbxreceive go on, and the firmware serves its mailboxes.            *)
Fairness ==
  /\ WF_vars(Handler)
  /\ \A s \in Callers : WF_vars(ReceiverStep(s))
  /\ \A s \in Slaves : WF_vars(Firmware(s))

FairSpec == Spec /\ Fairness

-----------------------------------------------------------------------------
(* Properties. *)

(* Who has buffer b: the pool, a slot, a receiver, the handler.  A slot    *)
(* whose pointer a receiver has copied is not counted.                     *)
Copied(s, p) == rpc[s] = "enable" /\ p = Slot(s)

Holders(b) ==
  {<<"pool", i>> : i \in {j \in FreeSlots : mbxemptylist[j] = b}}
  \cup {<<"slot", at>> : at \in {sp \in Slaves \X Protocols :
           mbxin[sp[1]][sp[2]] = b /\ ~Copied(sp[1], sp[2])}}
  \cup {<<"receiver", s>> : s \in {t \in Slaves : rbuf[t] = b}}
  \cup {<<"handler", h>> : h \in {mbx} \cap {b}}

(* Between the handler, which fills slots, and the threads that empty them *)
(* without a lock, no buffer is lost and none is owned twice.              *)
BuffersConserved == \A b \in Buffers : Cardinality(Holders(b)) = 1

(* A slot whose flag is set points to a mail of its protocol, from the     *)
(* moment the flag is set until its receiver has copied the pointer.       *)
SlotsMatch ==
  \A s \in Slaves, p \in Protocols :
    mbxinfull[s][p] =>
      \/ /\ mbxin[s][p] \in Buffers
         /\ content[mbxin[s][p]].kind = p
      \/ rpc[s] = "clear" /\ p = Slot(s)

(* However small the limit, a slave whose mailbox is full is left out by   *)
(* at most NSlaves - 1 runs of the handler in a row.                       *)
FairTurn == \A s \in Slaves : waited[s] < NSlaves

(* Mails are read in the order they were sent and none is left out, though *)
(* reads fail, as long as the slave is not lost and does not restart, and, *)
(* where a caller reads the mailbox itself, until its call times out and   *)
(* unless the handler reads it as well.                                    *)
Link == INSTANCE MailLink WITH
          suspended <- [s \in Slaves |-> mbxhandlerstate[s] = "lost"],
          waiting   <- [s \in Slaves |-> rpc[s] \in Waits \cup Repeats],
          shared    <- [s \in Slaves |-> Shared(s)]

LinkSpec == Link!Spec

(* Every mail of a slave that is handled cyclically is read in the end:    *)
(* since a slave sends MaxMail mails, it is up to date again and again.    *)
EveryMailRead ==
  \A s \in Slaves :
    []<>(accepted[s] = posted[s] \/ mbxhandlerstate[s] # "cyclic")

(* A slave that answers and is handled cyclically does not keep a full     *)
(* mailbox for ever, also after it was lost or has restarted.              *)
NoMailboxStuck ==
  \A s \in Slaves :
    []<>(outbox[s] = NoMail \/ ~reachable[s] \/ mbxhandlerstate[s] # "cyclic")

(* A caller that reads the mailbox itself never writes a mail to NULL.     *)
NoNullBuffer == \A s \in Slaves : rpc[s] # "crashed"

(* The overrun counter of EoE counts mails that were dropped.              *)
OverrunsAreDrops ==
  [][\A s \in Slaves : tunnelled'[s] # tunnelled[s]
                        => overrun'[s]["eoe"] = overrun[s]["eoe"]]_vars
=============================================================================
