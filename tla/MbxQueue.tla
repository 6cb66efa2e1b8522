------------------------------ MODULE MbxQueue ------------------------------
(***************************************************************************)
(* The transmit mailbox queue of one group (ec_mbxqueuet) and the threads  *)
(* that share it: application threads inside ecx_mbxsend and the thread    *)
(* that calls ecx_mbxouthandler.  A function that holds the queue's or the *)
(* pool's mutex for its whole body is one step; the handler, which reads   *)
(* and writes queue fields without the mutex, is cut at every access to    *)
(* shared state.                                                           *)
(*                                                                         *)
(* spc and hpc say where a sender and the handler are; a local variable of *)
(* the handler is cleared where its value is no longer used.  phase,       *)
(* accepted, amiss, content and misdropped are history: what became of     *)
(* each message, which writes were confirmed, which messages were written  *)
(* where they should not be, which message the bytes of a buffer are, and  *)
(* whether the handler has dropped another entry than the one it looked    *)
(* at.  The state of a slave and, unless it is one of Cyclic, its          *)
(* mbxhandlerstate are rewritten by other threads at any time, so what a   *)
(* read of one finds is a choice.                                          *)
(***************************************************************************)
EXTENDS MbxPool

CONSTANTS Senders,             \* application threads
          Slaves,              \* slaves of the group, all with a mailbox
          Cyclic,              \* slaves handled cyclically all the time
          Partners,            \* the slaves each thread sends to
          MaxSends,            \* bound: calls of each thread
          Limits,              \* values of the handler's argument "limit"
          NoSlave              \* slave number 0

ASSUME QueueAssumption == /\ Cyclic \subseteq Slaves
                          /\ Partners \in [Senders -> SUBSET Slaves]
                          /\ MaxSends \in [Senders -> Nat]
                          /\ Limits \subseteq Int
                          /\ NoSlave \notin Slaves

VARIABLES listhead, listtail, listcount,
          mbx,                 \* queue slot -> buffer, NULL once sent
          mbxstate,            \* queue slot -> EC_MBXQUEUESTATE_xxx
          mbxremove,           \* queue slot -> the owner has given it up
          mbxslave,            \* queue slot -> slave it is addressed to
          mbxticket,           \* ticket -> queue slot, NULL when free
          spc, sbuf, sticket, sends, sto, wkc,
          hpc, hlimit, hlimitcnt, hcount, hloc, hslave, hbuf,
          phase, accepted, amiss, content, misdropped

queuevars   == <<listhead, listtail, listcount, mbx, mbxstate, mbxremove,
                 mbxslave, mbxticket>>
sendervars  == <<spc, sbuf, sticket, sends, sto, wkc>>
handlervars == <<hpc, hlimit, hlimitcnt, hcount, hloc, hslave, hbuf>>
history     == <<phase, accepted, amiss, content, misdropped>>
vars == <<poolvars, queuevars, sendervars, handlervars, history>>

Tickets   == 0 .. PoolSize - 1
Messages  == UNION {[from : {s}, seq : 1 .. MaxSends[s], to : Slaves] :
                      s \in Senders}
NoMessage == [from |-> NULL, seq |-> 0, to |-> NULL]

QStates   == {"none", "req", "fail", "done"}
SenderPCs == {"idle", "enqueue", "poll", "expire", "direct", "retry",
              "release"}
HandlerPCs == {"idle", "loop", "write", "free", "rotate", "check", "drop",
               "drain"}

Service == INSTANCE MbxService

(* The message of sender s's present or last call. *)
Current(s) == [from |-> s, seq |-> sends[s], to |-> sto[s]]

Live == Occupied(listhead, listtail, listcount)

-----------------------------------------------------------------------------
Init ==
  /\ PoolInit
  /\ listhead = 0 /\ listtail = 0 /\ listcount = 0
  /\ mbx = [i \in Slots |-> NULL]
  /\ mbxstate = [i \in Slots |-> "none"]
  /\ mbxremove = [i \in Slots |-> FALSE]
  /\ mbxslave = [i \in Slots |-> NoSlave]
  /\ mbxticket = [t \in Tickets |-> NULL]
  /\ spc = [s \in Senders |-> "idle"]
  /\ sbuf = [s \in Senders |-> NULL]
  /\ sticket = [s \in Senders |-> NULL]
  /\ sends = [s \in Senders |-> 0]
  /\ sto = [s \in Senders |-> NoSlave]
  /\ wkc = [s \in Senders |-> FALSE]
  /\ hpc = "idle" /\ hlimit = 0 /\ hlimitcnt = 0 /\ hcount = 0
  /\ hloc = 0 /\ hslave = NoSlave /\ hbuf = NULL
  /\ phase = [m \in Messages |-> "unused"]
  /\ accepted = {} /\ amiss = {}
  /\ content = [b \in Buffers |-> NoMessage]
  /\ misdropped = FALSE

(* One FPWR of buffer b to slave sl, ok when the reply counts it.  One     *)
(* that fails may have reached the slave: the reply can be what is lost.   *)
Transmit(b, sl, ok) ==
  /\ accepted' = IF ok THEN accepted \cup {content[b]} ELSE accepted
  /\ amiss' = IF content[b].to # sl \/ content[b] \in accepted
                 THEN amiss \cup {content[b]} ELSE amiss
  /\ UNCHANGED <<content, misdropped>>
-----------------------------------------------------------------------------
(* Application thread s. *)

Goto(s, pc) == spc' = [spc EXCEPT ![s] = pc]

(* ecx_mbxsend returns; p is what it reports. *)
Return(s, p) ==
  /\ phase' = [phase EXCEPT ![Current(s)] = p]
  /\ sticket' = [sticket EXCEPT ![s] = NULL]
  /\ sto' = [sto EXCEPT ![s] = NoSlave]
  /\ wkc' = [wkc EXCEPT ![s] = FALSE]
  /\ Goto(s, "idle")

(* A caller takes a buffer, fills it and calls ecx_mbxsend.  A slave whose *)
(* mailbox is handled cyclically is sent to through the queue, another one *)
(* directly if it is in PRE_OP or higher and not at all if it is not.      *)
Call(s, sl) ==
  /\ spc[s] = "idle"
  /\ sends[s] < MaxSends[s]
  /\ \E b \in Buffers :
       /\ GetMbx(b)
       /\ sbuf' = [sbuf EXCEPT ![s] = b]
       /\ content' = [content EXCEPT
                        ![b] = [from |-> s, seq |-> sends[s] + 1, to |-> sl]]
  /\ sends' = [sends EXCEPT ![s] = @ + 1]
  /\ sto' = [sto EXCEPT ![s] = sl]
  /\ phase' = [phase EXCEPT
                 ![[from |-> s, seq |-> sends[s] + 1, to |-> sl]] = "pending"]
  /\ \/ Goto(s, "enqueue")
     \/ /\ sl \notin Cyclic
        /\ Goto(s, "direct") \/ Goto(s, "release")
  /\ UNCHANGED <<queuevars, handlervars, sticket, wkc, accepted, amiss,
                 misdropped>>

HasRoom == listcount < PoolSize

EveryTicket == Tickets
FreeTickets == {t \in Tickets : mbxticket[t] = NULL}

(* ecx_mbxaddqueue with room in the queue: the lowest free ticket.  With   *)
(* none the code writes past the array of tickets, and nothing is said of  *)
(* what follows.                                                           *)
AddQueue(s) ==
  /\ spc[s] = "enqueue"
  /\ HasRoom
  /\ \E t \in FreeTickets :
       /\ \A u \in FreeTickets : t <= u
       /\ mbxticket' = [mbxticket EXCEPT ![t] = listhead]
       /\ sticket' = [sticket EXCEPT ![s] = t]
  /\ mbxslave' = [mbxslave EXCEPT ![listhead] = sto[s]]
  /\ mbx' = [mbx EXCEPT ![listhead] = sbuf[s]]
  /\ mbxremove' = [mbxremove EXCEPT ![listhead] = FALSE]
  /\ mbxstate' = [mbxstate EXCEPT ![listhead] = "req"]
  /\ listhead' = Advance(listhead)
  /\ listcount' = listcount + 1
  /\ sbuf' = [sbuf EXCEPT ![s] = NULL]
  /\ Goto(s, "poll")
  /\ UNCHANGED <<poolvars, handlervars, history, listtail, sends,
                 sto, wkc>>

(* The queue is full and the timer runs out: the caller's buffer goes back. *)
AddQueueTimeout(s) ==
  /\ spc[s] = "enqueue"
  /\ ~ HasRoom
  /\ Goto(s, "release")
  /\ UNCHANGED <<poolvars, queuevars, handlervars, history, sbuf,
                 sticket, sends, sto, wkc>>

SurrenderNoTicket(s) ==
  /\ mbxremove' = [mbxremove EXCEPT ![mbxticket[sticket[s]]] = TRUE]
  /\ UNCHANGED <<listhead, listtail, listcount, mbx, mbxstate, mbxslave,
                 mbxticket>>

SurrenderNoRemove(s) ==
  /\ mbxticket' = [mbxticket EXCEPT ![sticket[s]] = NULL]
  /\ UNCHANGED <<listhead, listtail, listcount, mbx, mbxstate, mbxremove,
                 mbxslave>>

(* Give the entry of s's ticket up and free the ticket. *)
Surrender(s) ==
  /\ mbxremove' = [mbxremove EXCEPT ![mbxticket[sticket[s]]] = TRUE]
  /\ mbxticket' = [mbxticket EXCEPT ![sticket[s]] = NULL]
  /\ UNCHANGED <<listhead, listtail, listcount, mbx, mbxstate, mbxslave>>

Attempted(s) == mbxstate[mbxticket[sticket[s]]] \in {"fail", "done"}
IsDone(s) == mbxstate[mbxticket[sticket[s]]] = "done"

(* ecx_mbxdonequeue returns 1, and ecx_mbxsend with it. *)
DoneQueue(s) ==
  /\ spc[s] = "poll"
  /\ IsDone(s)
  /\ Surrender(s)
  /\ Return(s, "ok")
  /\ UNCHANGED <<poolvars, handlervars, accepted, amiss, content, misdropped,
                 sbuf, sends>>

(* ecx_mbxdonequeue returns 0 and the timer has expired. *)
PollTimeout(s) ==
  /\ spc[s] = "poll"
  /\ ~ IsDone(s)
  /\ Goto(s, "expire")
  /\ UNCHANGED <<poolvars, queuevars, handlervars, history, sbuf,
                 sticket, sends, sto, wkc>>

(* ecx_mbxexpirequeue, after which ecx_mbxsend returns 0. *)
ExpireQueue(s) ==
  /\ spc[s] = "expire"
  /\ IF mbxstate[mbxticket[sticket[s]]] # "none"
     THEN Surrender(s)
     ELSE UNCHANGED queuevars
  /\ Return(s, "failed")
  /\ UNCHANGED <<poolvars, handlervars, accepted, amiss, content, misdropped,
                 sbuf, sends>>

(* The first write and the retry of ecx_mbxsend when the slave's mailbox   *)
(* is not handled cyclically.  A retry that ecx_mbxempty prevents is one   *)
(* that reaches nobody.                                                    *)
DirectWrite(s) ==
  /\ spc[s] \in {"direct", "retry"}
  /\ \E ok \in BOOLEAN :
       /\ Transmit(sbuf[s], sto[s], ok)
       /\ wkc' = [wkc EXCEPT ![s] = ok]
       /\ Goto(s, IF ~ ok /\ spc[s] = "direct" THEN "retry" ELSE "release")
  /\ UNCHANGED <<poolvars, queuevars, handlervars, phase, sbuf,
                 sticket, sends, sto>>

(* ecx_mbxsend still owns the buffer: it drops it and returns. *)
Release(s) ==
  /\ spc[s] = "release"
  /\ DropMbx(sbuf[s])
  /\ sbuf' = [sbuf EXCEPT ![s] = NULL]
  /\ Return(s, IF wkc[s] THEN "ok" ELSE "failed")
  /\ UNCHANGED <<queuevars, handlervars, accepted, amiss, content, misdropped,
                 sends>>

Sender(s) == \/ \E sl \in Partners[s] : Call(s, sl)
             \/ AddQueue(s) \/ AddQueueTimeout(s)
             \/ DoneQueue(s) \/ PollTimeout(s) \/ ExpireQueue(s)
             \/ DirectWrite(s) \/ Release(s)
-----------------------------------------------------------------------------
(* The thread in ecx_mbxouthandler. *)

HandlerStart ==
  /\ hpc = "idle"
  /\ hlimit' \in Limits
  /\ hlimitcnt' = 0
  /\ hcount' = listcount
  /\ hpc' = "loop"
  /\ UNCHANGED <<poolvars, queuevars, sendervars, history, hloc,
                 hslave, hbuf>>

HandlerEnd ==
  /\ hpc = "loop"
  /\ hlimitcnt > hlimit \/ hcount = 0
  /\ hpc' = "idle"
  /\ hlimit' = 0 /\ hlimitcnt' = 0 /\ hcount' = 0
  /\ hloc' = 0 /\ hslave' = NoSlave /\ hbuf' = NULL
  /\ UNCHANGED <<poolvars, queuevars, sendervars, history>>

ToSend(i) == mbxstate[i] \in {"req", "fail"}

(* The switch on the state of the entry at the tail. *)
HandlerPick ==
  /\ hpc = "loop"
  /\ hlimitcnt <= hlimit
  /\ hcount > 0
  /\ hcount' = hcount - 1
  /\ hloc' = listtail
  /\ \/ /\ ToSend(listtail)
        /\ hslave' = mbxslave[listtail]
        /\ hbuf' = mbx[listtail]
        /\ hlimitcnt' = hlimitcnt + 1
        /\ hpc' = "write"
     \/ /\ ~ ToSend(listtail)
        /\ hpc' = IF mbxstate[listtail] = "done" THEN "rotate" ELSE "check"
        /\ UNCHANGED <<hlimitcnt, hslave, hbuf>>
  /\ UNCHANGED <<poolvars, queuevars, sendervars, history, hlimit>>

(* The write to the slave's mailbox, when the slave can have one, and the  *)
(* new state of the entry.                                                 *)
HandlerWrite ==
  /\ hpc = "write"
  /\ \/ /\ hpc' = "rotate"                            \* below PRE_OP
        /\ UNCHANGED <<mbxstate, accepted, amiss, content, misdropped>>
     \/ \E ok \in BOOLEAN :
          /\ Transmit(hbuf, hslave, ok)
          /\ mbxstate' = [mbxstate EXCEPT
                            ![hloc] = IF ok THEN "done" ELSE "fail"]
          /\ hpc' = IF ok THEN "free" ELSE "rotate"
  /\ hslave' = NoSlave
  /\ hbuf' = IF hpc' = "free" THEN hbuf ELSE NULL
  /\ UNCHANGED <<poolvars, sendervars, listhead, listtail,
                 listcount, mbx, mbxremove, mbxslave, mbxticket, hlimit,
                 hlimitcnt, hcount, hloc, phase>>

HandlerFreeKeepsPointer ==
  /\ hpc = "free"
  /\ DropMbx(hbuf)
  /\ hpc' = "rotate"
  /\ hbuf' = NULL
  /\ UNCHANGED <<queuevars, sendervars, history, hlimit, hlimitcnt, hcount,
                 hloc, hslave>>

(* The buffer of a sent message returns to the pool. *)
HandlerFree ==
  /\ hpc = "free"
  /\ DropMbx(hbuf)
  /\ mbx' = [mbx EXCEPT ![hloc] = NULL]
  /\ hpc' = "rotate"
  /\ hbuf' = NULL
  /\ UNCHANGED <<sendervars, history, listhead, listtail,
                 listcount, mbxstate, mbxremove, mbxslave, mbxticket, hlimit,
                 hlimitcnt, hcount, hloc, hslave>>

(* ecx_mbxrotatequeue moves the entry at the tail, when it has a ticket,   *)
(* to the head; the slot it leaves keeps its old values.                   *)
MoveToHead(t) ==
  /\ mbxticket' = [mbxticket EXCEPT ![t] = listhead]
  /\ mbxremove' = [mbxremove EXCEPT ![listhead] = mbxremove[listtail]]
  /\ mbxstate' = [mbxstate EXCEPT ![listhead] = mbxstate[listtail]]
  /\ mbxslave' = [mbxslave EXCEPT ![listhead] = mbxslave[listtail]]
  /\ mbx' = [mbx EXCEPT ![listhead] = mbx[listtail]]
  /\ listhead' = Advance(listhead)
  /\ listtail' = Advance(listtail)
  /\ UNCHANGED listcount

StaysInPlace == FALSE
CanRotate == listhead # listtail

HandlerRotate ==
  /\ hpc = "rotate"
  /\ LET holders == {t \in Tickets : mbxticket[t] = hloc}
     IN  IF CanRotate /\ holders # {}
         THEN \E t \in holders : /\ \A u \in holders : t <= u
                                 /\ MoveToHead(t)
         ELSE UNCHANGED queuevars
  /\ hpc' = "check"
  /\ UNCHANGED <<poolvars, sendervars, history, hlimit, hlimitcnt,
                 hcount, hloc, hslave, hbuf>>

HandlerCheck ==
  /\ hpc = "check"
  /\ hpc' = IF mbxremove[hloc] THEN "drop" ELSE "loop"
  /\ hloc' = IF mbxremove[hloc] THEN hloc ELSE 0
  /\ UNCHANGED <<poolvars, queuevars, sendervars, history, hlimit,
                 hlimitcnt, hcount, hslave, hbuf>>

(* ecx_mbxdropqueue empties the slot and takes the oldest entry off, which *)
(* is another one when the entry given up was put into the slot the        *)
(* handler has just rotated away from, without its having noticed.         *)
HandlerDrop ==
  /\ hpc = "drop"
  /\ mbxstate' = [mbxstate EXCEPT ![hloc] = "none"]
  /\ mbxremove' = [mbxremove EXCEPT ![hloc] = FALSE]
  /\ mbxslave' = [mbxslave EXCEPT ![hloc] = NoSlave]
  /\ hbuf' = mbx[hloc]
  /\ hloc' = 0
  /\ mbx' = [mbx EXCEPT ![hloc] = NULL]
  /\ listtail' = Advance(listtail)
  /\ listcount' = listcount - 1
  /\ hpc' = IF mbx[hloc] # NULL THEN "drain" ELSE "loop"
  /\ misdropped' = (misdropped \/ hloc # listtail)
  /\ UNCHANGED <<poolvars, sendervars, phase, accepted, amiss, content, listhead,
                 mbxticket, hlimit, hlimitcnt, hcount, hslave>>

(* An entry dropped before it was sent still has its buffer. *)
HandlerDrain ==
  /\ hpc = "drain"
  /\ DropMbx(hbuf)
  /\ hpc' = "loop"
  /\ hbuf' = NULL
  /\ UNCHANGED <<queuevars, sendervars, history, hlimit, hlimitcnt,
                 hcount, hloc, hslave>>

Handler == \/ HandlerStart \/ HandlerEnd \/ HandlerPick \/ HandlerWrite
           \/ HandlerFree \/ HandlerRotate \/ HandlerCheck \/ HandlerDrop
           \/ HandlerDrain

Next == \/ \E s \in Senders : Sender(s)
        \/ Handler

Spec == Init /\ [][Next]_vars

(* The handler thread keeps running, and a thread that finds its message   *)
(* accepted takes notice: no help of the timers.                           *)
PatientSpec == /\ Spec
               /\ WF_vars(Handler)
               /\ \A s \in Senders : WF_vars(DoneQueue(s))

(* A thread in ecx_mbxsend returns because its timer expires.              *)
Timers == \A s \in Senders :
            WF_vars(AddQueue(s) \/ AddQueueTimeout(s) \/ DoneQueue(s)
                    \/ PollTimeout(s) \/ ExpireQueue(s)
                    \/ DirectWrite(s) \/ Release(s))
-----------------------------------------------------------------------------
(* Properties. *)

TypeOK ==
  /\ PoolTypeOK
  /\ listhead \in Slots /\ listtail \in Slots /\ listcount \in Int
  /\ mbx \in [Slots -> Buffers \cup {NULL}]
  /\ mbxstate \in [Slots -> QStates]
  /\ mbxremove \in [Slots -> BOOLEAN]
  /\ mbxslave \in [Slots -> Slaves \cup {NoSlave}]
  /\ mbxticket \in [Tickets -> Slots \cup {NULL}]
  /\ spc \in [Senders -> SenderPCs]
  /\ sbuf \in [Senders -> Buffers \cup {NULL}]
  /\ sticket \in [Senders -> Tickets \cup {NULL}]
  /\ sends \in [Senders -> Nat]
  /\ \A s \in Senders : sends[s] <= MaxSends[s]
  /\ sto \in [Senders -> Slaves \cup {NoSlave}]
  /\ wkc \in [Senders -> BOOLEAN]
  /\ hpc \in HandlerPCs
  /\ hlimit \in Int /\ hlimitcnt \in Int /\ hcount \in Int
  /\ hloc \in Slots
  /\ hslave \in Slaves \cup {NoSlave}
  /\ hbuf \in Buffers \cup {NULL}
  /\ phase \in [Messages -> Service!Phases]
  /\ accepted \subseteq Messages \cup {NoMessage}
  /\ amiss \subseteq Messages \cup {NoMessage}
  /\ misdropped \in BOOLEAN
  /\ content \in [Buffers -> Messages \cup {NoMessage}]

Waiting(s) == spc[s] \in {"poll", "expire"}

(* head, tail and count of both rings agree: no sequence of additions,     *)
(* rotations and drops makes the queue lose or gain a slot.                *)
RingsAgree == /\ RingShape(listhead, listtail, listcount)
              /\ RingShape(poolhead, pooltail, poolcount)

(* ecx_mbxouthandler tests and drops the slot it looked at although it may *)
(* have rotated its entry away, without holding the mutex.  If meanwhile   *)
(* another thread has queued an entry in the slot and given it up, that    *)
(* entry is emptied and the one at the tail, somebody else's, is taken off *)
(* in its place: misdropped.  Nothing below is true of the code after      *)
(* that; up to then everything is.                                         *)

(* The ticket of a thread that waits in ecx_mbxsend names, through every   *)
(* rotation of the queue, a slot in use that nobody has given up and that  *)
(* no other thread's ticket names, as long as no wrong entry is dropped.   *)
TicketsNameOwnEntries ==
  ~ misdropped =>
    \A s \in Senders : Waiting(s) =>
      /\ mbxticket[sticket[s]] \in Live
      /\ ~ mbxremove[mbxticket[sticket[s]]]
      /\ \A t \in Tickets : mbxticket[t] = mbxticket[sticket[s]]
                              => t = sticket[s]

(* ecx_mbxaddqueue looks for a free ticket without testing that it found   *)
(* one: whenever the queue has room there is one, as long as no wrong      *)
(* entry is dropped.                                                       *)
TicketAvailable == ~ misdropped /\ listcount < PoolSize => FreeTickets # {}

(* Where buffer b is: in the pool, with a sender, in the queue, or with    *)
(* the handler between the queue and the pool.                             *)
Places(b) ==
  {<<"pool", i>> : i \in {j \in FreeSlots : mbxemptylist[j] = b}}
  \cup {<<"sender", s>> : s \in {u \in Senders : sbuf[u] = b}}
  \cup {<<"queue", i>> : i \in {j \in Live : mbx[j] = b}}
  \cup {<<"handler", i>> : i \in {j \in {hloc} : hpc = "drain" /\ hbuf = b}}

(* "Mailbox is fetched from pool by caller, ownership is transferred and   *)
(* dropped back to pool automatically" (ecx_mbxsend): a buffer is never in *)
(* two places and never in none, as long as no wrong entry is dropped; the *)
(* buffer of that one is lost.                                             *)
EveryBufferHasAPlace == \A b \in Buffers : \E p \in Places(b) : Places(b) = {p}
BuffersConserved == ~ misdropped => EveryBufferHasAPlace

(* ecx_mbxsend keeps the promise of MbxService: a message is only put into *)
(* the mailbox of its own slave, again only while no write of it has been  *)
(* confirmed, never after that; success means that one was.  So it is as   *)
(* long as no wrong entry is dropped.                                      *)
ServiceSpec == Service!Init /\ [][Service!Next \/ misdropped']_(Service!vars)

(* ecx_mbxouthandler, "limit: maximum number of mailboxes to process". *)
LimitRespected == hlimit >= 0 => hlimitcnt <= hlimit

(* Whatever is sent, given up, retried or lost, once no thread is in       *)
(* ecx_mbxsend the handler empties the queue and every buffer returns.     *)
AllReturned == listcount = 0 /\ poolcount = PoolSize
Drains == Timers => <>[](AllReturned \/ misdropped)

(* A waiting thread's message gets its turn among the others, whether they *)
(* are accepted, fail or are given up, unless the queue is full from some  *)
(* time on: a full queue is not rotated, and the entry at its tail stays   *)
(* there until it is accepted or its caller gives it up.                   *)
EveryEntryGetsATurn ==
  []<>(listcount < PoolSize \/ misdropped) =>
    \A s \in Senders :
      spc[s] = "poll" ~> \/ spc[s] # "poll"
                         \/ (hpc = "write" /\ mbxticket[sticket[s]] = hloc)
                         \/ misdropped
=============================================================================
