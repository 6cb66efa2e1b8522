----------------------------- MODULE FramePort -----------------------------
(***************************************************************************)
(* One Ethernet port without redundancy (ecx_portt) shared by threads that *)
(* each run blocking datagram primitives: take an index, build the frame,  *)
(* ecx_srconfirm, copy the answer out, give the index back.  A thread that *)
(* waits for its own answer stores the answers of the others.              *)
(*                                                                         *)
(* rx_mutex is the field lock; getindex_mutex makes ecx_getindex one step; *)
(* rxbufstat is otherwise read and written without a lock.  The network    *)
(* is a set of answers under way: it delays, reorders and loses them.      *)
(***************************************************************************)
EXTENDS Integers, FiniteSets

CONSTANTS MaxBuf,              \* EC_MAXBUF
          Threads,
          NULL,
          MaxRequests,         \* bound: primitives each thread calls
          MaxTries,            \* bound: transmissions within the timeout
          MaxGiveUps,          \* bound: primitives that end in EC_NOFRAME
          SendFails,           \* may send() fail?
          FramesOutlive        \* may an answer be under way for so long that
                               \* its index comes round to a new request?

ASSUME PortAssumption == /\ {MaxBuf, MaxTries} \subseteq Nat \ {0}
                         /\ MaxRequests \in [Threads -> Nat]
                         /\ MaxGiveUps \in Nat
                         /\ {SendFails, FramesOutlive} \subseteq BOOLEAN
                         /\ NULL \notin Threads

VARIABLES lastidx,
          rxbufstat,           \* index -> EC_BUF_xxx
          txbuf, rxbuf,        \* index -> request whose bytes are there
          lock,                \* the thread that holds rx_mutex
          tempinbuf,           \* the frame the holder has read
          network,             \* answers under way
          pc, idx, requests, tries, reply,
          giveups,             \* primitives that ended in EC_NOFRAME
          lost                 \* has an answer been lost?

portvars   == <<lastidx, rxbufstat, txbuf, rxbuf>>
readvars   == <<lock, tempinbuf, network>>
threadvars == <<pc, idx, requests, tries, reply>>
vars == <<portvars, readvars, threadvars, giveups, lost>>

Indices   == 0 .. MaxBuf - 1
BufStates == {"empty", "alloc", "tx", "rcvd", "complete"}
Requests  == [from : Threads, seq : Nat]
NoRequest == [from |-> NULL, seq |-> 0]
Frames    == [idx : Indices, of : Requests, try : 1 .. MaxTries]
NoFrame   == [idx |-> 0, of |-> NoRequest, try |-> 0]
PCs == {"idle", "send", "poll", "lock", "locked", "store", "timer",
        "take", "release"}

(* The request thread t is busy with or has finished last. *)
Current(t) == [from |-> t, seq |-> requests[t]]

Goto(t, p) == pc' = [pc EXCEPT ![t] = p]

Init == /\ lastidx = 0
        /\ rxbufstat = [i \in Indices |-> "empty"]
        /\ txbuf = [i \in Indices |-> NoRequest]
        /\ rxbuf = [i \in Indices |-> NoRequest]
        /\ lock = NULL
        /\ tempinbuf = NoFrame
        /\ network = {}
        /\ pc = [t \in Threads |-> "idle"]
        /\ idx = [t \in Threads |-> 0]
        /\ requests = [t \in Threads |-> 0]
        /\ tries = [t \in Threads |-> 0]
        /\ reply = [t \in Threads |-> NoRequest]
        /\ giveups = 0
        /\ lost = FALSE
-----------------------------------------------------------------------------
(* The index k steps after the one following lastidx. *)
IndexAfter(k) == IF lastidx + 1 + k < MaxBuf THEN lastidx + 1 + k
                                             ELSE lastidx + 1 + k - MaxBuf

(* The search without the check for an index in use.                       *)
NextInTurn == IndexAfter(0)

(* The index ecx_getindex returns: the first empty one after lastidx, or,  *)
(* when the search has come round, the one it started from.                *)
NextIndex ==
  LET empty == {k \in 0 .. MaxBuf - 1 : rxbufstat[IndexAfter(k)] = "empty"}
  IN  IF empty = {} THEN IndexAfter(0)
      ELSE IndexAfter(CHOOSE k \in empty : \A j \in empty : k <= j)

(* No answer to an earlier user of index i is under way. *)
NoOldFrame(i) == /\ \A f \in network : f.idx # i
                 /\ tempinbuf.of # NoRequest => tempinbuf.idx # i

(* ecx_setupdatagram: the bytes of thread t's next request. *)
Datagram(t) == [from |-> t, seq |-> requests[t] + 1]

(* ecx_getindex and the construction of the frame. *)
Begin(t) ==
  /\ pc[t] = "idle"
  /\ requests[t] < MaxRequests[t]
  /\ FramesOutlive \/ NoOldFrame(NextIndex)
  /\ idx' = [idx EXCEPT ![t] = NextIndex]
  /\ lastidx' = NextIndex
  /\ rxbufstat' = [rxbufstat EXCEPT ![NextIndex] = "alloc"]
  /\ requests' = [requests EXCEPT ![t] = @ + 1]
  /\ txbuf' = [txbuf EXCEPT ![NextIndex] = Datagram(t)]
  /\ tries' = [tries EXCEPT ![t] = 0]
  /\ reply' = [reply EXCEPT ![t] = NoRequest]
  /\ Goto(t, "send")
  /\ UNCHANGED <<rxbuf, readvars, giveups, lost>>

(* ecx_outframe as called by ecx_srconfirm. *)
Send(t) ==
  /\ pc[t] = "send"
  /\ tries' = [tries EXCEPT ![t] = @ + 1]
  /\ Goto(t, "poll")
  /\ \/ /\ rxbufstat' = [rxbufstat EXCEPT ![idx[t]] = "tx"]
        /\ network' = network \cup {[idx |-> idx[t], of |-> txbuf[idx[t]],
                                     try |-> tries[t] + 1]}
     \/ /\ SendFails
        /\ rxbufstat' = [rxbufstat EXCEPT ![idx[t]] = "empty"]
        /\ UNCHANGED network
  /\ UNCHANGED <<lastidx, txbuf, rxbuf, lock, tempinbuf, idx, requests,
                 reply, giveups, lost>>
-----------------------------------------------------------------------------
(* ecx_inframe.  The answer was stored by another thread: no lock needed.  *)
FindStored(t) ==
  /\ pc[t] = "poll"
  /\ rxbufstat[idx[t]] = "rcvd"
  /\ rxbufstat' = [rxbufstat EXCEPT ![idx[t]] = "complete"]
  /\ Goto(t, "take")
  /\ UNCHANGED <<lastidx, txbuf, rxbuf, readvars, idx, requests, tries,
                 reply, giveups, lost>>

(* It was not, so far. *)
Miss(t) ==
  /\ pc[t] = "poll"
  /\ rxbufstat[idx[t]] # "rcvd"
  /\ Goto(t, "lock")
  /\ UNCHANGED <<portvars, readvars, idx, requests, tries, reply, giveups, lost>>

Lock(t) ==
  /\ pc[t] = "lock"
  /\ lock = NULL
  /\ lock' = t
  /\ Goto(t, "locked")
  /\ UNCHANGED <<portvars, tempinbuf, network, idx, requests, tries, reply,
                 giveups, lost>>

(* It was stored while t waited for the mutex. *)
FindLocked(t) ==
  /\ pc[t] = "locked"
  /\ rxbufstat[idx[t]] = "rcvd"
  /\ rxbufstat' = [rxbufstat EXCEPT ![idx[t]] = "complete"]
  /\ lock' = NULL
  /\ Goto(t, "take")
  /\ UNCHANGED <<lastidx, txbuf, rxbuf, tempinbuf, network, idx, requests,
                 tries, reply, giveups, lost>>

(* recv() has nothing yet. *)
ReadNothing(t) ==
  /\ pc[t] = "locked"
  /\ rxbufstat[idx[t]] # "rcvd"
  /\ lock' = NULL
  /\ Goto(t, "timer")
  /\ UNCHANGED <<portvars, tempinbuf, network, idx, requests, tries, reply,
                 giveups, lost>>

AnyFrame(f, i) == TRUE
IsRequested(f, i) == f.idx = i

(* recv() returns the answer the thread waits for. *)
ReadOwn(t) == \E f \in network :
  /\ pc[t] = "locked"
  /\ rxbufstat[idx[t]] # "rcvd"
  /\ IsRequested(f, idx[t])
  /\ network' = network \ {f}
  /\ rxbuf' = [rxbuf EXCEPT ![idx[t]] = f.of]
  /\ rxbufstat' = [rxbufstat EXCEPT ![idx[t]] = "complete"]
  /\ lock' = NULL
  /\ Goto(t, "take")
  /\ UNCHANGED <<lastidx, txbuf, tempinbuf, idx, requests, tries, reply,
                 giveups, lost>>

InUse(i)  == rxbufstat[i] # "empty"
NoOne(i)  == FALSE
SomeoneWaits(i) == rxbufstat[i] = "tx"

(* recv() returns another answer, wanted or not. *)
ReadOther(t) == \E f \in network :
  /\ pc[t] = "locked"
  /\ rxbufstat[idx[t]] # "rcvd"
  /\ ~ IsRequested(f, idx[t])
  /\ network' = network \ {f}
  /\ IF SomeoneWaits(f.idx)
     THEN tempinbuf' = f /\ Goto(t, "store") /\ UNCHANGED lock
     ELSE lock' = NULL /\ Goto(t, "timer") /\ UNCHANGED tempinbuf
  /\ UNCHANGED <<portvars, idx, requests, tries, reply, giveups, lost>>

(* Copied to its buffer, without a further look at the buffer's state. *)
Store(t) ==
  /\ pc[t] = "store"
  /\ rxbuf' = [rxbuf EXCEPT ![tempinbuf.idx] = tempinbuf.of]
  /\ rxbufstat' = [rxbufstat EXCEPT ![tempinbuf.idx] = "rcvd"]
  /\ tempinbuf' = NoFrame
  /\ lock' = NULL
  /\ Goto(t, "timer")
  /\ UNCHANGED <<lastidx, txbuf, network, idx, requests, tries, reply,
                 giveups, lost>>

(* ecx_waitinframe_red polls again while the timer of this try runs. *)
PollAgain(t) ==
  /\ pc[t] = "timer"
  /\ Goto(t, "poll")
  /\ UNCHANGED <<portvars, readvars, idx, requests, tries, reply, giveups, lost>>

(* ecx_srconfirm transmits again while its own timer runs. *)
Retry(t) ==
  /\ pc[t] = "timer"
  /\ tries[t] < MaxTries
  /\ Goto(t, "send")
  /\ UNCHANGED <<portvars, readvars, idx, requests, tries, reply, giveups, lost>>

(* Both timers have run out: EC_NOFRAME. *)
GiveUp(t) ==
  /\ pc[t] = "timer"
  /\ giveups < MaxGiveUps
  /\ giveups' = giveups + 1
  /\ Goto(t, "release")
  /\ UNCHANGED <<portvars, readvars, idx, requests, tries, reply, lost>>

(* The primitive copies the answer out of the receive buffer. *)
Take(t) ==
  /\ pc[t] = "take"
  /\ reply' = [reply EXCEPT ![t] = rxbuf[idx[t]]]
  /\ Goto(t, "release")
  /\ UNCHANGED <<portvars, readvars, idx, requests, tries, giveups, lost>>

StatusAfter(t) == "empty"

(* ecx_setbufstat, and the primitive returns. *)
Release(t) ==
  /\ pc[t] = "release"
  /\ rxbufstat' = [rxbufstat EXCEPT ![idx[t]] = StatusAfter(t)]
  /\ Goto(t, "idle")
  /\ UNCHANGED <<lastidx, txbuf, rxbuf, readvars, idx, requests, tries,
                 reply, giveups, lost>>

(* The network loses an answer, or lost the frame on its way out. *)
Lose == \E f \in network :
  /\ network' = network \ {f}
  /\ lost' = TRUE
  /\ UNCHANGED <<portvars, lock, tempinbuf, threadvars, giveups>>
-----------------------------------------------------------------------------
Read(t) == \/ FindStored(t) \/ Miss(t) \/ Lock(t) \/ FindLocked(t)
           \/ ReadNothing(t) \/ ReadOwn(t) \/ ReadOther(t) \/ Store(t)

Progress(t) == Begin(t) \/ Send(t) \/ Read(t) \/ PollAgain(t) \/ Take(t)
                 \/ Release(t)

Next == \/ \E t \in Threads : Progress(t) \/ Retry(t) \/ GiveUp(t)
        \/ Lose

Spec == Init /\ [][Next]_vars

(* A thread in a primitive runs, and what comes in is read in the end.     *)
FairSpec ==
  /\ Spec
  /\ \A t \in Threads : /\ WF_vars(Progress(t))
                        /\ SF_vars(ReadOwn(t) \/ ReadOther(t))
-----------------------------------------------------------------------------
TypeOK ==
  /\ lastidx \in Indices
  /\ rxbufstat \in [Indices -> BufStates]
  /\ txbuf \in [Indices -> Requests \cup {NoRequest}]
  /\ rxbuf \in [Indices -> Requests \cup {NoRequest}]
  /\ lock \in Threads \cup {NULL}
  /\ tempinbuf \in Frames \cup {NoFrame}
  /\ network \subseteq Frames
  /\ pc \in [Threads -> PCs]
  /\ idx \in [Threads -> Indices]
  /\ requests \in [Threads -> Nat]
  /\ tries \in [Threads -> 0 .. MaxTries]
  /\ reply \in [Threads -> Requests \cup {NoRequest}]
  /\ giveups \in 0 .. MaxGiveUps
  /\ lost \in BOOLEAN

Busy(t) == pc[t] # "idle"
Owned(i) == \E t \in Threads : Busy(t) /\ idx[t] = i

(* Two requests under way never share an index, and with it a transmit     *)
(* and a receive buffer, however often the indices have gone round: what   *)
(* the search of ecx_getindex is for.                                      *)
IndexExclusive ==
  \A s, t \in Threads : s # t /\ Busy(s) /\ Busy(t) => idx[s] # idx[t]

(* A primitive that returns an answer returns the answer to its own        *)
(* request, whichever thread read it, and in whatever order, and after any *)
(* number of retransmissions.                                              *)
ReplyMatches ==
  \A t \in Threads :
    pc[t] = "release" => reply[t] \in {Current(t), NoRequest}

(* While a primitive copies its answer out of the receive buffer no reader *)
(* is about to store a second answer there, though neither holds a lock    *)
(* the other one takes.                                                    *)
ReplyStable ==
  \A s, t \in Threads : pc[t] = "take" /\ pc[s] = "store"
                          => tempinbuf.idx # idx[t]

(* An index no request owns is free, or lost to an answer that was stored  *)
(* after its request had been given up: at most one for each such request. *)
OnlyGiveUpsStrand ==
  /\ \A i \in Indices : ~ Owned(i) => rxbufstat[i] \in {"empty", "rcvd"}
  /\ Cardinality({i \in Indices : ~ Owned(i) /\ InUse(i)}) <= giveups

(* The comment in ecx_inframe on the frames of other threads it stores:    *)
(* "check if index exist and someone is waiting for it".                   *)
StoreOnlyForWaiting ==
  \A i \in Indices : rxbufstat[i] = "rcvd" => Owned(i)

(* No answer was lost, and no timer ran out.                               *)
Quiet == ~ lost /\ giveups = 0 /\ \A t \in Threads : tries[t] <= 1

(* A request whose answer comes back is answered, even if another thread   *)
(* reads the answer and then leaves.                                       *)
Answered ==
  \A t \in Threads : pc[t] = "poll" ~> pc[t] = "take" \/ ~ Quiet
=============================================================================
