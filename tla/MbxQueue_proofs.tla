-------------------------- MODULE MbxQueue_proofs --------------------------
(***************************************************************************)
(* Tickets, queue entries and the ring of MbxQueue, and the promise of     *)
(* ecx_mbxsend, for any number of threads, slaves and calls and any size   *)
(* of pool and queue, until the handler drops a wrong entry (misdropped).  *)
(*                                                                         *)
(* TicketsNameOwnEntries alone is not inductive.  Inv adds what it rests   *)
(* on: that the ring's indices and its count agree, that every ticket in   *)
(* use names an entry in use which nobody has given up, that the handler's *)
(* copy of the tail index is still the tail until it rotates, and what the *)
(* slot it has rotated away from may hold.                                 *)
(***************************************************************************)
EXTENDS MbxQueue, FiniteSetTheorems, TLAPS

(* What the three operations on a ring of PoolSize slots do to the set of  *)
(* occupied slots, and what taking and returning a buffer do to the pool.  *)
(* The free list of the pool and the transmit queue are both such rings.   *)

(* An index stays within the ring when it is advanced (the wrap in         *)
(* ecx_getmbx, ecx_dropmbx and the queue functions).                       *)
LEMMA AdvanceInRing ==
  ASSUME NEW i \in Slots
  PROVE  Advance(i) \in Slots
  BY PoolSizeAssumption DEF Slots, Advance

(* An element is put at the head of a ring with room: exactly the slot at  *)
(* the old head becomes occupied (ecx_dropmbx, ecx_mbxaddqueue).           *)
LEMMA RingPut ==
  ASSUME NEW head, NEW tail, NEW count,
         RingShape(head, tail, count), count < PoolSize
  PROVE  /\ RingShape(Advance(head), tail, count + 1)
         /\ head \in Slots
         /\ head \notin Occupied(head, tail, count)
         /\ Occupied(Advance(head), tail, count + 1)
              = Occupied(head, tail, count) \cup {head}
<1>1. RingShape(Advance(head), tail, count + 1)
  BY PoolSizeAssumption DEF RingShape, Slots, Advance
<1>2. head \in Slots /\ head \notin Occupied(head, tail, count)
  BY PoolSizeAssumption DEF RingShape, Slots, Occupied
<1>3. ASSUME NEW i \in Slots
      PROVE  i \in Occupied(Advance(head), tail, count + 1)
               <=> i \in Occupied(head, tail, count) \cup {head}
  BY PoolSizeAssumption DEF RingShape, Slots, Advance, Occupied
<1>4. QED
  BY <1>1, <1>2, <1>3 DEF Occupied

(* The element at the tail is taken from a ring that is not empty: exactly *)
(* its slot becomes free (ecx_getmbx, ecx_mbxdropqueue).                   *)
LEMMA RingTake ==
  ASSUME NEW head, NEW tail, NEW count,
         RingShape(head, tail, count), count > 0
  PROVE  /\ RingShape(head, Advance(tail), count - 1)
         /\ tail \in Occupied(head, tail, count)
         /\ Occupied(head, Advance(tail), count - 1)
              = Occupied(head, tail, count) \ {tail}
<1>1. RingShape(head, Advance(tail), count - 1)
  BY PoolSizeAssumption DEF RingShape, Slots, Advance
<1>2. tail \in Occupied(head, tail, count)
  BY PoolSizeAssumption DEF RingShape, Slots, Occupied
<1>3. ASSUME NEW i \in Slots
      PROVE  i \in Occupied(head, Advance(tail), count - 1)
               <=> i \in Occupied(head, tail, count) \ {tail}
  BY PoolSizeAssumption DEF RingShape, Slots, Advance, Occupied
<1>4. QED
  BY <1>1, <1>2, <1>3 DEF Occupied

(* The element at the tail moves to the head (ecx_mbxrotatequeue): the two *)
(* slots change places and the number of elements stays.                   *)
LEMMA RingRotate ==
  ASSUME NEW head, NEW tail, NEW count,
         RingShape(head, tail, count), count > 0, head # tail
  PROVE  /\ RingShape(Advance(head), Advance(tail), count)
         /\ head \notin Occupied(head, tail, count)
         /\ tail \in Occupied(head, tail, count)
         /\ Occupied(Advance(head), Advance(tail), count)
              = (Occupied(head, tail, count) \cup {head}) \ {tail}
<1> DEFINE h == Advance(head)
           c == count + 1
<1>1. count \in Int /\ count < PoolSize /\ c > 0 /\ c - 1 = count
  BY PoolSizeAssumption DEF RingShape, Slots
<1>2. /\ RingShape(h, tail, c)
      /\ head \notin Occupied(head, tail, count)
      /\ Occupied(h, tail, c) = Occupied(head, tail, count) \cup {head}
  BY <1>1, RingPut
<1>3. tail \in Occupied(head, tail, count)
  BY RingTake
<1> HIDE DEF h, c
<1>4. /\ RingShape(h, Advance(tail), c - 1)
      /\ Occupied(h, Advance(tail), c - 1) = Occupied(h, tail, c) \ {tail}
  BY <1>1, <1>2, RingTake
<1>5. QED
  BY <1>1, <1>2, <1>3, <1>4 DEF h
(* Of four sets, one has one element and the others have none.             *)
JustOne(P, S, Q, D) ==
  \/ (\E i : P = {i}) /\ S = {} /\ Q = {} /\ D = {}
  \/ (\E i : S = {i}) /\ P = {} /\ Q = {} /\ D = {}
  \/ (\E i : Q = {i}) /\ P = {} /\ S = {} /\ D = {}
  \/ (\E i : D = {i}) /\ P = {} /\ S = {} /\ Q = {}

(* No function from a set of numbers to fewer of them is one to one.       *)
LEMMA NoInjectionToFewer ==
  ASSUME NEW f \in [Slots -> Slots], NEW b \in Slots,
         \A i \in Slots : f[i] # b
  PROVE  \E i, j \in Slots : i # j /\ f[i] = f[j]
<1>1. IsFiniteSet(Slots) /\ Cardinality(Slots) = PoolSize
  BY FS_Interval, PoolSizeAssumption DEF Slots
<1>2. IsFiniteSet(Slots \ {b}) /\ Cardinality(Slots \ {b}) = PoolSize - 1
  BY <1>1, FS_RemoveElement
<1>3. f \in [Slots -> Slots \ {b}]
  OBVIOUS
<1>4. Cardinality(Slots \ {b}) < Cardinality(Slots)
  BY <1>1, <1>2, PoolSizeAssumption
<1> HIDE DEF Slots
<1>5. QED
  BY <1>1, <1>2, <1>3, <1>4, FS_PigeonHole

(* While a buffer is elsewhere, and none is in the pool twice, the pool is *)
(* not full.                                                               *)
LEMMA PoolHasRoom ==
  ASSUME PoolTypeOK, PoolRing, NEW b \in Buffers, Pooled(b) = {},
         \A c \in Buffers : \A i, j \in Pooled(c) : i = j
  PROVE  poolcount < PoolSize
<1> SUFFICES ASSUME poolcount >= PoolSize PROVE FALSE
  BY PoolSizeAssumption DEF PoolTypeOK
<1>1. FreeSlots = Slots
  BY PoolSizeAssumption DEF PoolRing, RingShape, FreeSlots, Occupied, Slots
<1>2. mbxemptylist \in [Slots -> Slots] /\ b \in Slots
  BY DEF PoolTypeOK, Slots, Buffers
<1>3. \A i \in Slots : mbxemptylist[i] # b
  BY <1>1 DEF Pooled
<1>4. PICK i \in Slots, j \in Slots : i # j /\ mbxemptylist[i] = mbxemptylist[j]
  BY <1>2, <1>3, NoInjectionToFewer
<1>5. mbxemptylist[i] \in Buffers
  BY <1>2 DEF Slots, Buffers
<1>6. i \in Pooled(mbxemptylist[i]) /\ j \in Pooled(mbxemptylist[i])
  BY <1>1, <1>4 DEF Pooled
<1>7. QED
  BY <1>4, <1>5, <1>6

(* ecx_dropmbx of a buffer the pool has room for. *)
LEMMA PoolPut ==
  ASSUME PoolTypeOK, PoolRing, NEW b \in Buffers, poolcount < PoolSize, DropMbx(b)
  PROVE  /\ PoolRing'
         /\ poolhead \notin Pooled(b)
         /\ Pooled(b)' = Pooled(b) \cup {poolhead}
         /\ \A c \in Buffers \ {b} : Pooled(c)' = Pooled(c)
<1> USE DEF DropMbx
<1>1. /\ PoolRing'
      /\ poolhead \in Slots
      /\ poolhead \notin FreeSlots
      /\ FreeSlots' = FreeSlots \cup {poolhead}
  BY RingPut DEF PoolRing, FreeSlots
<1>2. /\ mbxemptylist'[poolhead] = b
      /\ \A j \in FreeSlots : mbxemptylist'[j] = mbxemptylist[j]
  BY <1>1 DEF PoolTypeOK, FreeSlots, Occupied
<1>3. QED
  BY <1>1, <1>2 DEF Pooled

(* ecx_getmbx takes the buffer at the tail of the free list. *)
LEMMA PoolTake ==
  ASSUME PoolTypeOK, PoolRing, NEW b \in Buffers, GetMbx(b)
  PROVE  /\ PoolRing'
         /\ pooltail \in Pooled(b)
         /\ Pooled(b)' = Pooled(b) \ {pooltail}
         /\ \A c \in Buffers \ {b} : Pooled(c)' = Pooled(c)
<1> USE DEF GetMbx
<1>1. /\ PoolRing'
      /\ pooltail \in FreeSlots
      /\ FreeSlots' = FreeSlots \ {pooltail}
  BY RingTake DEF PoolRing, FreeSlots
<1>2. QED
  BY <1>1 DEF Pooled
-----------------------------------------------------------------------------

QueueRing == RingShape(listhead, listtail, listcount)

(* Of a thread in ecx_mbxsend: its ticket is in use and its own. *)
SenderInv ==
  \A s \in Senders :
    /\ Waiting(s) => /\ sticket[s] \in Tickets
                     /\ mbxticket[sticket[s]] # NULL
                     /\ \A r \in Senders : Waiting(r) /\ sticket[r] = sticket[s]
                                           => r = s
    /\ spc[s] \in {"enqueue", "direct", "retry", "release"}
         => sbuf[s] \in Buffers
    /\ spc[s] # "idle" => sto[s] \in Slaves /\ sends[s] \in 1 .. MaxSends[s]

(* A slot that is to be sent from has a buffer and a slave. *)
SlotInv ==
  \A i \in Slots : mbxstate[i] \in {"req", "fail"} =>
    mbx[i] \in Buffers /\ mbxslave[i] \in Slaves

HandlerInv ==
  /\ hcount \in Nat
  /\ hpc # "idle" => hcount <= listcount
  /\ hpc \in {"write", "free", "rotate", "check", "drop"} => hcount < listcount
  /\ hpc \in {"write", "free", "rotate"} => hloc = listtail
  /\ hpc = "write" => /\ mbxstate[hloc] \in {"req", "fail"}
                      /\ hslave \in Slaves
  /\ hpc \in {"write", "free", "drain"} => hbuf \in Buffers
  /\ hpc = "free" => mbxstate[hloc] = "done"

(* What holds of queue, threads and handler at all times. *)
TypeInv == TypeOK /\ QueueRing /\ SenderInv /\ SlotInv /\ HandlerInv

TicketInv ==
  \A t \in Tickets : mbxticket[t] # NULL =>
    /\ mbxticket[t] \in Live
    /\ ~ mbxremove[mbxticket[t]]
    /\ \A u \in Tickets : mbxticket[u] = mbxticket[t] => u = t

EntryInv == \A i \in Live : mbxstate[i] # "none"

VacatedInv ==
  /\ hpc = "check" /\ hloc # listtail /\ hloc \notin Live => ~ mbxremove[hloc]
  /\ hpc = "drop" => hloc \in Live /\ mbxremove[hloc]

(* What holds as long as no wrong entry is dropped. *)
Inv == TypeInv /\ ~ misdropped /\ TicketInv /\ EntryInv /\ VacatedInv
-----------------------------------------------------------------------------
(* The facts at all times, one lemma for each action. *)

(* A step that leaves the queue and the handler alone keeps what speaks of *)
(* nothing else.                                                           *)
LEMMA QueueTypes ==
  ASSUME TypeInv, UNCHANGED <<queuevars, handlervars>>
  PROVE  QueueRing' /\ SlotInv' /\ HandlerInv'
  BY DEF TypeInv, QueueRing, RingShape, SlotInv, HandlerInv, queuevars,
         handlervars

(* The handler's steps leave what is known of the senders. *)
LEMMA SenderTypes ==
  ASSUME TypeInv, UNCHANGED <<sendervars, mbxticket>>
  PROVE  SenderInv'
  BY DEF TypeInv, SenderInv, Waiting, sendervars

LEMMA InitInv == Init => Inv
<1> SUFFICES ASSUME Init PROVE Inv
  OBVIOUS
<1> USE PoolSizeAssumption, QueueAssumption
<1>1. Live = {}
  BY DEF Init, Live, Occupied
<1>2. TypeOK
  <2>1. /\ PoolTypeOK
        /\ 0 \in Slots /\ NULL \in Buffers \cup {NULL}
        /\ phase \in [Messages -> Service!Phases]
    BY DEF Init, PoolInit, PoolTypeOK, Slots, Buffers, Service!Phases
  <2>2. \A s \in Senders : 0 <= MaxSends[s]
    OBVIOUS
  <2>3. misdropped \in BOOLEAN
    BY DEF Init
  <2>4. QED
    BY <2>1, <2>2, <2>3 DEF Init, TypeOK, QStates, SenderPCs, HandlerPCs
<1>3. QueueRing
  BY DEF Init, QueueRing, RingShape, Slots
<1>4. TicketInv /\ EntryInv
  BY <1>1 DEF Init, TicketInv, EntryInv, Tickets
<1>5. SenderInv /\ HandlerInv /\ VacatedInv
  BY DEF Init, SenderInv, HandlerInv, VacatedInv, Waiting
<1>6. SlotInv /\ ~ misdropped
  BY DEF Init, SlotInv
<1>7. QED
  BY <1>2, <1>3, <1>4, <1>5, <1>6 DEF Inv, TypeInv

LEMMA CallTypes ==
  ASSUME TypeInv, NEW s \in Senders, NEW sl \in Slaves, Call(s, sl)
  PROVE  TypeInv'
<1> USE DEF Call, Goto
<1>0. spc'[s] \in {"enqueue", "direct", "release"}
      /\ spc' = [spc EXCEPT ![s] = spc'[s]]
  BY DEF TypeInv, TypeOK
<1>1. TypeOK'
  <2>1. PICK b \in Buffers : /\ GetMbx(b)
                             /\ sbuf' = [sbuf EXCEPT ![s] = b]
                             /\ content' = [content EXCEPT ![b] =
                                  [from |-> s, seq |-> sends[s] + 1, to |-> sl]]
    OBVIOUS
  <2>2. PoolTypeOK'
    BY <2>1, AdvanceInRing DEF TypeInv, TypeOK, PoolTypeOK, GetMbx
  <2>3. sends[s] + 1 \in 1 .. MaxSends[s]
    <3>1. sends[s] \in Nat /\ MaxSends[s] \in Nat
      BY QueueAssumption DEF TypeInv, TypeOK
    <3>2. sends[s] < MaxSends[s]
      OBVIOUS
    <3>3. QED
      BY <3>1, <3>2
  <2>4. [from |-> s, seq |-> sends[s] + 1, to |-> sl] \in Messages
    BY <2>3 DEF Messages
  <2>5. content' \in [Buffers -> Messages \cup {NoMessage}]
    BY <2>1, <2>4 DEF TypeInv, TypeOK
  <2>6. sends' \in [Senders -> Nat] /\ \A u \in Senders : sends'[u] <= MaxSends[u]
    BY <2>3 DEF TypeInv, TypeOK
  <2>7. phase' \in [Messages -> Service!Phases]
    BY <2>4 DEF TypeInv, TypeOK, Service!Phases
  <2>8. spc' \in [Senders -> SenderPCs]
    BY <1>0 DEF TypeInv, TypeOK, SenderPCs
  <2>9. sbuf' \in [Senders -> Buffers \cup {NULL}]
        /\ sto' \in [Senders -> Slaves \cup {NoSlave}]
    BY <2>1 DEF TypeInv, TypeOK
  <2>10. QED
    BY <2>2, <2>5, <2>6, <2>7, <2>8, <2>9
       DEF TypeInv, TypeOK, queuevars, handlervars
<1>2. QueueRing' /\ SlotInv' /\ HandlerInv'
  BY QueueTypes
<1>3. SenderInv'
  <2>1. sends'[s] \in 1 .. MaxSends[s] /\ sto'[s] = sl /\ sbuf'[s] \in Buffers
    <3>1. sends[s] \in Nat /\ MaxSends[s] \in Nat /\ sends[s] < MaxSends[s]
      BY QueueAssumption DEF TypeInv, TypeOK
    <3>2. sends'[s] = sends[s] + 1
      BY DEF TypeInv, TypeOK
    <3>3. QED
      BY <3>1, <3>2 DEF TypeInv, TypeOK
  <2>2. \A r \in Senders \ {s} : /\ sends'[r] = sends[r] /\ sto'[r] = sto[r]
                                 /\ sbuf'[r] = sbuf[r] /\ spc'[r] = spc[r]
    BY DEF TypeInv, TypeOK
  <2>3. /\ spc'[s] \in {"enqueue", "direct", "release"}
        /\ sticket' = sticket /\ mbxticket' = mbxticket
    BY <1>0 DEF queuevars
  <2>4. QED
    BY <2>1, <2>2, <2>3 DEF TypeInv, SenderInv, Waiting
<1>4. QED
  BY <1>1, <1>2, <1>3 DEF TypeInv

LEMMA AddQueueTypes ==
  ASSUME TypeInv, NEW s \in Senders, AddQueue(s)
  PROVE  TypeInv'
<1> USE DEF AddQueue, Goto, HasRoom
<1>1. PICK t \in FreeTickets :
        /\ mbxticket' = [mbxticket EXCEPT ![t] = listhead]
        /\ sticket' = [sticket EXCEPT ![s] = t]
  OBVIOUS
<1>2. t \in Tickets /\ mbxticket[t] = NULL
  BY DEF FreeTickets
<1>3. /\ QueueRing'
      /\ listhead \in Slots
      /\ listhead \notin Live
  BY RingPut DEF TypeInv, QueueRing, Live
<1>4. TypeOK'
  BY <1>1, <1>2, <1>3, AdvanceInRing
     DEF TypeInv, TypeOK, QStates, SenderPCs, PoolTypeOK, poolvars,
         handlervars, history, SenderInv
<1>5. listhead # NULL
  BY <1>3, PoolSizeAssumption DEF Slots, NULL
<1>6. SlotInv'
  BY <1>3 DEF TypeInv, TypeOK, SlotInv, SenderInv
<1>7. SenderInv'
  <2>1. ASSUME NEW r \in Senders, Waiting(r), r # s
        PROVE  sticket[r] # t
    BY <1>2, <2>1 DEF TypeInv, SenderInv
  <2>2. QED
    BY <1>1, <1>2, <1>5, <2>1 DEF TypeInv, TypeOK, SenderInv, Waiting
<1>8. HandlerInv'
  <2>1. (listtail \in Live /\ listhead # listtail) \/ listcount = 0
    BY <1>3, RingTake, PoolSizeAssumption
       DEF TypeInv, QueueRing, RingShape, Live, Slots
  <2>2. listcount \in Nat
    BY PoolSizeAssumption DEF TypeInv, QueueRing, RingShape, Slots
  <2>3. QED
    BY <1>3, <2>1, <2>2 DEF TypeInv, TypeOK, HandlerInv, handlervars
<1>9. QED
  BY <1>3, <1>4, <1>6, <1>7, <1>8 DEF TypeInv

LEMMA TimeoutTypes ==
  ASSUME TypeInv, NEW s \in Senders, AddQueueTimeout(s) \/ PollTimeout(s)
  PROVE  TypeInv'
<1> USE DEF AddQueueTimeout, PollTimeout, Goto
<1>1. TypeOK'
  BY DEF TypeInv, TypeOK, PoolTypeOK, SenderPCs, poolvars, queuevars,
         handlervars, history
<1>2. SenderInv'
  BY DEF TypeInv, TypeOK, SenderInv, Waiting, queuevars
<1>3. QED
  BY <1>1, <1>2, QueueTypes DEF TypeInv

(* A write, by a thread or by the handler, adds to the history. *)
LEMMA TransmitTypes ==
  ASSUME TypeInv, NEW b \in Buffers, NEW sl, NEW ok \in BOOLEAN,
         Transmit(b, sl, ok)
  PROVE  /\ accepted' \subseteq Messages \cup {NoMessage}
         /\ amiss' \subseteq Messages \cup {NoMessage}
         /\ content' = content /\ misdropped' = misdropped
<1>1. content[b] \in Messages \cup {NoMessage}
  BY DEF TypeInv, TypeOK
<1>2. QED
  BY <1>1 DEF TypeInv, TypeOK, Transmit

LEMMA DirectWriteTypes ==
  ASSUME TypeInv, NEW s \in Senders, DirectWrite(s)
  PROVE  TypeInv'
<1> USE DEF DirectWrite, Goto
<1>1. sbuf[s] \in Buffers
  BY DEF TypeInv, SenderInv
<1>2. /\ accepted' \subseteq Messages \cup {NoMessage}
      /\ amiss' \subseteq Messages \cup {NoMessage}
      /\ content' = content /\ misdropped' = misdropped
  BY <1>1, TransmitTypes
<1>3. wkc' \in [Senders -> BOOLEAN] /\ spc' \in [Senders -> SenderPCs]
  BY DEF TypeInv, TypeOK, SenderPCs
<1>4. TypeOK'
  BY <1>2, <1>3
     DEF TypeInv, TypeOK, PoolTypeOK, poolvars, queuevars, handlervars
<1>5. SenderInv'
  BY DEF TypeInv, TypeOK, SenderInv, Waiting, queuevars
<1>6. QED
  BY <1>4, <1>5, QueueTypes DEF TypeInv

(* Putting a buffer back keeps the pool's types. *)
LEMMA DropMbxType ==
  ASSUME PoolTypeOK, NEW b, DropMbx(b)
  PROVE  PoolTypeOK'
  BY AdvanceInRing DEF PoolTypeOK, DropMbx, poolvars

LEMMA ReleaseTypes ==
  ASSUME TypeInv, NEW s \in Senders, Release(s)
  PROVE  TypeInv'
<1> USE DEF Release, Return, Goto
<1>1. PoolTypeOK'
  BY DropMbxType DEF TypeInv, TypeOK
<1>2. phase' \in [Messages -> Service!Phases]
  BY DEF TypeInv, TypeOK, Service!Phases
<1>3. TypeOK'
  BY <1>1, <1>2 DEF TypeInv, TypeOK, SenderPCs, queuevars, handlervars
<1>4. SenderInv'
  BY DEF TypeInv, TypeOK, SenderInv, Waiting, queuevars
<1>5. QED
  BY <1>3, <1>4, QueueTypes DEF TypeInv

(* A waiting thread returns, with its entry given up or not. *)
LEMMA LeaveTypes ==
  ASSUME TypeInv, NEW s \in Senders, DoneQueue(s) \/ ExpireQueue(s)
  PROVE  TypeInv'
<1> USE DEF DoneQueue, ExpireQueue, Surrender, Return, Goto
<1>1. Waiting(s)
  BY DEF Waiting
<1>2. /\ mbxremove' \in [Slots -> BOOLEAN]
      /\ mbxticket' \in [Tickets -> Slots \cup {NULL}]
      /\ \A t \in Tickets : t # sticket[s] => mbxticket'[t] = mbxticket[t]
      /\ UNCHANGED <<listhead, listtail, listcount, mbx, mbxstate, mbxslave>>
  <2>1. CASE Surrender(s)
    <3>1. mbxremove' \in [Slots -> BOOLEAN]
      BY <2>1 DEF TypeInv, TypeOK
    <3>2. /\ mbxticket' \in [Tickets -> Slots \cup {NULL}]
          /\ \A t \in Tickets : t # sticket[s] => mbxticket'[t] = mbxticket[t]
      BY <2>1 DEF TypeInv, TypeOK
    <3>3. QED
      BY <2>1, <3>1, <3>2
  <2>2. CASE UNCHANGED queuevars
    BY <2>2 DEF TypeInv, TypeOK, queuevars
  <2>3. QED
    BY <2>1, <2>2
<1>3. phase' \in [Messages -> Service!Phases]
  BY DEF TypeInv, TypeOK, Service!Phases
<1>4. TypeOK'
  BY <1>2, <1>3 DEF TypeInv, TypeOK, PoolTypeOK, SenderPCs, poolvars,
                    handlervars
<1>5. QueueRing' /\ SlotInv' /\ HandlerInv'
  BY <1>2 DEF TypeInv, QueueRing, SlotInv, HandlerInv, handlervars
<1>6. SenderInv'
  BY <1>1, <1>2 DEF TypeInv, TypeOK, SenderInv, Waiting
<1>7. QED
  BY <1>4, <1>5, <1>6 DEF TypeInv

LEMMA StartTypes ==
  ASSUME TypeInv, HandlerStart \/ HandlerEnd
  PROVE  TypeInv'
<1>1. listcount \in Nat
  BY PoolSizeAssumption DEF TypeInv, QueueRing, RingShape, Slots
<1>2. UNCHANGED <<poolvars, queuevars, sendervars, history>>
  BY DEF HandlerStart, HandlerEnd
<1>3. TypeOK'
  <2>1. /\ hlimit' \in Int /\ hlimitcnt' \in Int /\ hcount' \in Int
        /\ hloc' \in Slots /\ hpc' \in HandlerPCs
        /\ hslave' \in Slaves \cup {NoSlave} /\ hbuf' \in Buffers \cup {NULL}
    <3>1. CASE HandlerStart
      BY <1>1, <3>1, QueueAssumption
         DEF HandlerStart, TypeInv, TypeOK, HandlerPCs
    <3>2. CASE HandlerEnd
      BY <3>2, PoolSizeAssumption DEF HandlerEnd, HandlerPCs, Slots
    <3>3. QED
      BY <3>1, <3>2
  <2>2. QED
    BY <1>2, <2>1 DEF TypeInv, TypeOK, PoolTypeOK, poolvars, queuevars,
                      sendervars, history
<1>5. HandlerInv'
  BY <1>1, <1>2 DEF HandlerStart, HandlerEnd, TypeInv, HandlerInv, queuevars
<1>4. QueueRing' /\ SlotInv'
  BY <1>2 DEF TypeInv, QueueRing, SlotInv, queuevars
<1>6. QED
  BY <1>2, <1>3, <1>4, <1>5, SenderTypes DEF TypeInv, queuevars

LEMMA PickTypes ==
  ASSUME TypeInv, HandlerPick
  PROVE  TypeInv'
<1> USE DEF HandlerPick
<1>1. /\ listcount > 0
      /\ hcount' < listcount
      /\ hcount' \in Nat
      /\ listtail \in Slots
  BY PoolSizeAssumption DEF TypeInv, TypeOK, HandlerInv, QueueRing, RingShape,
                            Slots
<1>2. ToSend(listtail) => mbx[listtail] \in Buffers /\ mbxslave[listtail] \in Slaves
  BY <1>1 DEF TypeInv, SlotInv, ToSend
<1>3. /\ hlimitcnt' \in Int /\ hpc' \in HandlerPCs
      /\ hslave' \in Slaves \cup {NoSlave} /\ hbuf' \in Buffers \cup {NULL}
  BY <1>2 DEF TypeInv, TypeOK, HandlerPCs
<1>4. TypeOK'
  BY <1>1, <1>3 DEF TypeInv, TypeOK, PoolTypeOK, poolvars, queuevars,
                    sendervars, history
<1>5. HandlerInv'
  BY <1>1, <1>2 DEF TypeInv, TypeOK, HandlerInv, ToSend, queuevars
<1>6. QueueRing' /\ SlotInv'
  BY DEF TypeInv, QueueRing, SlotInv, queuevars
<1>7. QED
  BY <1>4, <1>5, <1>6, SenderTypes DEF TypeInv, queuevars

LEMMA WriteTypes ==
  ASSUME TypeInv, HandlerWrite
  PROVE  TypeInv'
<1> USE DEF HandlerWrite
<1>1. /\ hbuf \in Buffers
      /\ hslave \in Slaves
      /\ hloc = listtail
      /\ hcount < listcount
      /\ mbxstate[hloc] \in {"req", "fail"}
      /\ hloc \in Slots
  BY DEF TypeInv, TypeOK, HandlerInv
<1>2. /\ accepted' \subseteq Messages \cup {NoMessage}
      /\ amiss' \subseteq Messages \cup {NoMessage}
      /\ content' = content /\ misdropped' = misdropped
  BY <1>1, TransmitTypes DEF TypeInv, TypeOK
<1>3. mbxstate' \in [Slots -> QStates] /\ hpc' \in HandlerPCs
  BY DEF TypeInv, TypeOK, QStates, HandlerPCs
<1>4. TypeOK'
  BY <1>1, <1>2, <1>3 DEF TypeInv, TypeOK, PoolTypeOK, poolvars, sendervars
<1>5. QueueRing'
  BY DEF TypeInv, QueueRing, RingShape
<1>6. \A i \in Slots : mbxstate'[i] \in {"req", "fail"}
                         => mbxstate[i] \in {"req", "fail"}
  BY <1>1 DEF TypeInv, TypeOK
<1>7. SlotInv'
  BY <1>6 DEF TypeInv, SlotInv
<1>8. HandlerInv'
  BY <1>1 DEF TypeInv, TypeOK, HandlerInv
<1>9. QED
  BY <1>4, <1>5, <1>7, <1>8, SenderTypes DEF TypeInv

LEMMA FreeTypes ==
  ASSUME TypeInv, HandlerFree
  PROVE  TypeInv'
<1> USE DEF HandlerFree
<1>1. PoolTypeOK'
  BY DropMbxType DEF TypeInv, TypeOK
<1>2. TypeOK'
  BY <1>1 DEF TypeInv, TypeOK, HandlerPCs, sendervars, history
<1>3. QueueRing'
  BY DEF TypeInv, QueueRing, RingShape
<1>4. SlotInv' /\ HandlerInv'
  BY DEF TypeInv, TypeOK, SlotInv, HandlerInv
<1>5. QED
  BY <1>2, <1>3, <1>4, SenderTypes DEF TypeInv

LEMMA RotateTypes ==
  ASSUME TypeInv, HandlerRotate
  PROVE  TypeInv'
<1> USE DEF HandlerRotate
<1>1. /\ hloc = listtail
      /\ hcount < listcount
      /\ hcount \in Nat
      /\ listcount > 0
      /\ listtail \in Slots
  BY PoolSizeAssumption
     DEF TypeInv, HandlerInv, QueueRing, RingShape, Slots
<1>2. CASE UNCHANGED queuevars
  <2>1. TypeOK'
    BY <1>2 DEF TypeInv, TypeOK, PoolTypeOK, HandlerPCs, poolvars, queuevars,
                sendervars, history
  <2>2. HandlerInv' /\ QueueRing' /\ SlotInv'
    BY <1>1, <1>2 DEF TypeInv, HandlerInv, QueueRing, SlotInv, queuevars
  <2>3. QED
    BY <1>2, <2>1, <2>2, SenderTypes DEF TypeInv, queuevars
<1>3. ASSUME NEW t \in Tickets, mbxticket[t] = hloc, CanRotate, MoveToHead(t)
      PROVE  TypeInv'
  <2> USE <1>3 DEF MoveToHead
  <2>1. QueueRing'
    BY <1>1, RingRotate DEF TypeInv, QueueRing, CanRotate
  <2>2. listhead \in Slots /\ listhead # NULL /\ listhead # listtail
    BY PoolSizeAssumption DEF TypeInv, TypeOK, Slots, NULL, CanRotate
  <2>3. TypeOK'
    BY <1>1, <2>2, AdvanceInRing
       DEF TypeInv, TypeOK, PoolTypeOK, HandlerPCs, poolvars, sendervars,
           history
  <2>4. SlotInv'
    BY <1>1, <2>2 DEF TypeInv, TypeOK, SlotInv
  <2>5. SenderInv'
    BY <2>2 DEF TypeInv, TypeOK, SenderInv, Waiting, sendervars
  <2>6. HandlerInv'
    BY <1>1 DEF TypeInv, HandlerInv
  <2>7. QED
    BY <2>1, <2>3, <2>4, <2>5, <2>6 DEF TypeInv
<1>4. QED
  BY <1>2, <1>3

LEMMA CheckTypes ==
  ASSUME TypeInv, HandlerCheck
  PROVE  TypeInv'
<1> USE DEF HandlerCheck
<1>1. TypeOK'
  BY PoolSizeAssumption
     DEF TypeInv, TypeOK, PoolTypeOK, HandlerPCs, Slots, poolvars, queuevars,
         sendervars, history
<1>2. HandlerInv'
  BY DEF TypeInv, TypeOK, HandlerInv, QueueRing, RingShape, Slots, queuevars
<1>3. QueueRing' /\ SlotInv'
  BY DEF TypeInv, QueueRing, SlotInv, queuevars
<1>4. QED
  BY <1>1, <1>2, <1>3, SenderTypes DEF TypeInv, queuevars

LEMMA DropTypes ==
  ASSUME TypeInv, HandlerDrop
  PROVE  TypeInv'
<1> USE DEF HandlerDrop
<1>1. /\ hcount < listcount
      /\ hcount \in Nat
      /\ listcount > 0
      /\ listcount \in Int
      /\ hloc \in Slots
  BY PoolSizeAssumption DEF TypeInv, TypeOK, HandlerInv, QueueRing, RingShape,
                            Slots
<1>2. QueueRing'
  BY <1>1, RingTake DEF TypeInv, QueueRing
<1>3. TypeOK'
  BY <1>1, AdvanceInRing, PoolSizeAssumption
     DEF TypeInv, TypeOK, PoolTypeOK, QStates, HandlerPCs, Slots, poolvars,
         sendervars, history
<1>4. SlotInv'
  BY <1>1 DEF TypeInv, TypeOK, SlotInv
<1>5. HandlerInv'
  BY <1>1 DEF TypeInv, TypeOK, HandlerInv, NULL
<1>6. QED
  BY <1>2, <1>3, <1>4, <1>5, SenderTypes DEF TypeInv

LEMMA DrainTypes ==
  ASSUME TypeInv, HandlerDrain
  PROVE  TypeInv'
<1> USE DEF HandlerDrain
<1>1. PoolTypeOK'
  BY DropMbxType DEF TypeInv, TypeOK
<1>2. TypeOK'
  BY <1>1 DEF TypeInv, TypeOK, HandlerPCs, queuevars, sendervars, history
<1>3. HandlerInv' /\ QueueRing' /\ SlotInv'
  BY DEF TypeInv, HandlerInv, QueueRing, SlotInv, queuevars
<1>4. QED
  BY <1>2, <1>3, SenderTypes DEF TypeInv, queuevars

LEMMA StutterTypes == TypeInv /\ UNCHANGED vars => TypeInv'
<1> SUFFICES ASSUME TypeInv, UNCHANGED vars PROVE TypeInv'
  OBVIOUS
<1>1. TypeOK'
  BY DEF TypeInv, TypeOK, PoolTypeOK, vars, poolvars, queuevars, sendervars,
         handlervars, history
<1>2. QED
  BY <1>1, QueueTypes, SenderTypes DEF TypeInv, vars, queuevars

LEMMA SenderStepTypes ==
  ASSUME TypeInv, NEW s \in Senders, Sender(s)
  PROVE  TypeInv'
  BY QueueAssumption, CallTypes, AddQueueTypes, TimeoutTypes, LeaveTypes,
     DirectWriteTypes, ReleaseTypes DEF Sender

LEMMA HandlerStepTypes ==
  ASSUME TypeInv, Handler
  PROVE  TypeInv'
  BY StartTypes, PickTypes, WriteTypes, FreeTypes, RotateTypes, CheckTypes,
     DropTypes, DrainTypes DEF Handler

LEMMA NextTypes == TypeInv /\ [Next]_vars => TypeInv'
  BY SenderStepTypes, HandlerStepTypes, StutterTypes DEF Next

(* Types: no step of the threads or of the handler stores an index outside *)
(* the rings of pool and queue or a ticket outside the ticket table, even  *)
(* when the handler has dropped a wrong entry.                             *)
THEOREM TypeCorrect == Spec => []TypeOK
<1>1. Init => TypeInv
  BY InitInv DEF Inv
<1>2. TypeInv /\ [Next]_vars => TypeInv'
  BY NextTypes
<1>3. TypeInv => TypeOK
  BY DEF TypeInv
<1>4. QED
  BY <1>1, <1>2, <1>3, PTL DEF Spec
-----------------------------------------------------------------------------
(* The facts that end when a wrong entry is dropped. *)

(* A step that leaves the queue and the handler alone. *)
LEMMA QueueUntouched ==
  ASSUME Inv, UNCHANGED <<queuevars, handlervars>>
  PROVE  TicketInv' /\ EntryInv' /\ VacatedInv'
<1>1. Live' = Live
  BY DEF Live, Occupied, queuevars
<1>2. QED
  BY <1>1 DEF Inv, TicketInv, EntryInv, VacatedInv, queuevars, handlervars

LEMMA CallInv ==
  ASSUME Inv, NEW s \in Senders, NEW sl \in Slaves, Call(s, sl)
  PROVE  Inv'
  BY CallTypes, QueueUntouched DEF Inv, Call

LEMMA AddQueueInv ==
  ASSUME Inv, NEW s \in Senders, AddQueue(s)
  PROVE  Inv'
<1> USE DEF AddQueue, HasRoom
<1>1. PICK t \in FreeTickets :
        /\ mbxticket' = [mbxticket EXCEPT ![t] = listhead]
        /\ sticket' = [sticket EXCEPT ![s] = t]
  OBVIOUS
<1>2. t \in Tickets /\ mbxticket[t] = NULL
  BY DEF FreeTickets
<1>3. /\ listhead \in Slots
      /\ listhead \notin Live
      /\ Live' = Live \cup {listhead}
  BY RingPut DEF Inv, TypeInv, QueueRing, Live
<1>4. listhead # NULL
  BY <1>3, PoolSizeAssumption DEF Slots, NULL
<1>5. TicketInv'
  BY <1>1, <1>2, <1>3, <1>4 DEF Inv, TypeInv, TypeOK, TicketInv
<1>6. EntryInv'
  BY <1>3 DEF Inv, TypeInv, TypeOK, EntryInv, Live, Occupied
<1>7. VacatedInv'
  BY <1>3 DEF Inv, TypeInv, TypeOK, VacatedInv, handlervars
<1>8. QED
  BY <1>5, <1>6, <1>7, AddQueueTypes DEF Inv, history

LEMMA AddQueueTimeoutInv ==
  ASSUME Inv, NEW s \in Senders, AddQueueTimeout(s)
  PROVE  Inv'
  BY TimeoutTypes, QueueUntouched DEF Inv, AddQueueTimeout, history

LEMMA PollTimeoutInv ==
  ASSUME Inv, NEW s \in Senders, PollTimeout(s)
  PROVE  Inv'
  BY TimeoutTypes, QueueUntouched DEF Inv, PollTimeout, history

LEMMA DirectWriteInv ==
  ASSUME Inv, NEW s \in Senders, DirectWrite(s)
  PROVE  Inv'
<1>1. UNCHANGED <<queuevars, handlervars, misdropped>>
  BY DEF DirectWrite, Transmit
<1>2. QED
  BY <1>1, DirectWriteTypes, QueueUntouched DEF Inv

LEMMA ReleaseInv ==
  ASSUME Inv, NEW s \in Senders, Release(s)
  PROVE  Inv'
  BY ReleaseTypes, QueueUntouched DEF Inv, Release

(* A waiting thread gives its entry up. *)
LEMMA SurrenderInv ==
  ASSUME Inv, NEW s \in Senders, Waiting(s), Surrender(s),
         UNCHANGED handlervars
  PROVE  TicketInv' /\ EntryInv' /\ VacatedInv'
<1> USE DEF Surrender
<1> DEFINE loc == mbxticket[sticket[s]]
<1>1. sticket[s] \in Tickets /\ loc # NULL
  BY DEF Inv, TypeInv, SenderInv
<1>2. loc \in Live
  BY <1>1 DEF Inv, TicketInv
<1>3. Live' = Live
  BY DEF Live, Occupied
<1>4. TicketInv'
  <2> SUFFICES ASSUME NEW t \in Tickets, mbxticket'[t] # NULL
               PROVE  /\ mbxticket'[t] \in Live
                      /\ ~ mbxremove'[mbxticket'[t]]
                      /\ \A u \in Tickets : mbxticket'[u] = mbxticket'[t]
                                            => u = t
    BY <1>3 DEF TicketInv
  <2>1. t # sticket[s] /\ mbxticket'[t] = mbxticket[t]
    BY DEF Inv, TypeInv, TypeOK
  <2>2. /\ mbxticket[t] \in Live
        /\ ~ mbxremove[mbxticket[t]]
        /\ \A u \in Tickets : mbxticket[u] = mbxticket[t] => u = t
    BY <2>1 DEF Inv, TicketInv
  <2>3. mbxticket[t] # loc
    BY <1>1, <2>1, <2>2
  <2>4. ~ mbxremove'[mbxticket'[t]]
    BY <2>1, <2>2, <2>3 DEF Inv, TypeInv, TypeOK
  <2>5. \A u \in Tickets : mbxticket'[u] = mbxticket'[t] => u = t
    BY <2>1, <2>2 DEF Inv, TypeInv, TypeOK
  <2>6. QED
    BY <2>1, <2>2, <2>4, <2>5
<1>5. EntryInv'
  BY <1>3 DEF Inv, EntryInv
<1>6. VacatedInv'
  BY <1>2, <1>3 DEF Inv, TypeInv, TypeOK, VacatedInv, handlervars, Live,
                    Occupied
<1>7. QED
  BY <1>4, <1>5, <1>6

LEMMA DoneQueueInv ==
  ASSUME Inv, NEW s \in Senders, DoneQueue(s)
  PROVE  Inv'
<1>1. Waiting(s) /\ Surrender(s) /\ UNCHANGED <<handlervars, misdropped>>
  BY DEF DoneQueue, Waiting
<1>2. QED
  BY <1>1, LeaveTypes, SurrenderInv DEF Inv

LEMMA ExpireQueueInv ==
  ASSUME Inv, NEW s \in Senders, ExpireQueue(s)
  PROVE  Inv'
<1> USE DEF ExpireQueue
<1>1. Waiting(s) /\ UNCHANGED <<handlervars, misdropped>>
  BY DEF Waiting
<1>2. Surrender(s)
  BY <1>1 DEF Inv, TypeInv, SenderInv, TicketInv, EntryInv
<1>3. QED
  BY <1>1, <1>2, LeaveTypes, SurrenderInv DEF Inv
-----------------------------------------------------------------------------
(* Steps of the handler that leave the queue alone. *)
LEMMA HandlerLocal ==
  ASSUME Inv, UNCHANGED queuevars
  PROVE  TicketInv' /\ EntryInv' /\ Live' = Live
<1>1. Live' = Live
  BY DEF Live, Occupied, queuevars
<1>2. QED
  BY <1>1 DEF Inv, TicketInv, EntryInv, queuevars

(* While a ring has elements its count is positive and its tail in use. *)
LEMMA TailLive ==
  ASSUME Inv, listcount > 0
  PROVE  listtail \in Live /\ listcount \in Nat
  BY RingTake, PoolSizeAssumption DEF Inv, TypeInv, QueueRing, RingShape, Live,
                                      Slots

LEMMA HandlerStartInv == Inv /\ HandlerStart => Inv'
  BY StartTypes, HandlerLocal DEF Inv, HandlerStart, VacatedInv, history

LEMMA HandlerEndInv == Inv /\ HandlerEnd => Inv'
  BY StartTypes, HandlerLocal DEF Inv, HandlerEnd, VacatedInv, history

LEMMA HandlerPickInv == Inv /\ HandlerPick => Inv'
<1> SUFFICES ASSUME Inv, HandlerPick PROVE Inv'
  OBVIOUS
<1>1. VacatedInv'
  BY DEF Inv, HandlerPick, VacatedInv, queuevars
<1>2. QED
  BY <1>1, PickTypes, HandlerLocal DEF Inv, HandlerPick, history

LEMMA HandlerWriteInv == Inv /\ HandlerWrite => Inv'
<1> SUFFICES ASSUME Inv, HandlerWrite PROVE Inv'
  OBVIOUS
<1> USE DEF HandlerWrite
<1>1. Live' = Live
  BY DEF Live, Occupied
<1>2. TicketInv'
  BY <1>1 DEF Inv, TicketInv
<1>3. EntryInv'
  BY <1>1 DEF Inv, TypeInv, TypeOK, EntryInv, Live, Occupied
<1>4. VacatedInv' /\ misdropped' = misdropped
  BY <1>1 DEF VacatedInv, Transmit
<1>5. QED
  BY <1>2, <1>3, <1>4, WriteTypes DEF Inv

LEMMA HandlerFreeInv == Inv /\ HandlerFree => Inv'
<1> SUFFICES ASSUME Inv, HandlerFree PROVE Inv'
  OBVIOUS
<1> USE DEF HandlerFree
<1>1. Live' = Live
  BY DEF Live, Occupied
<1>2. TicketInv' /\ EntryInv' /\ VacatedInv' /\ misdropped' = misdropped
  BY <1>1 DEF Inv, TicketInv, EntryInv, VacatedInv, history
<1>3. QED
  BY <1>2, FreeTypes DEF Inv

LEMMA HandlerRotateInv == Inv /\ HandlerRotate => Inv'
<1> SUFFICES ASSUME Inv, HandlerRotate PROVE Inv'
  OBVIOUS
<1> USE DEF HandlerRotate
<1>1. /\ hloc = listtail
      /\ listcount > 0
      /\ listtail \in Live
  BY TailLive, PoolSizeAssumption
     DEF Inv, TypeInv, HandlerInv, QueueRing, RingShape, Slots
<1>2. TypeInv' /\ ~ misdropped'
  BY RotateTypes DEF Inv, history
<1>3. CASE UNCHANGED queuevars
  <2>1. VacatedInv'
    BY <1>1, <1>3 DEF VacatedInv, queuevars
  <2>2. QED
    BY <1>2, <1>3, <2>1, HandlerLocal DEF Inv
<1>4. ASSUME NEW t \in Tickets, mbxticket[t] = hloc, CanRotate, MoveToHead(t)
      PROVE  Inv'
  <2> USE <1>4 DEF MoveToHead
  <2>1. /\ listhead \notin Live
        /\ Live' = (Live \cup {listhead}) \ {listtail}
    BY <1>1, RingRotate DEF Inv, TypeInv, QueueRing, Live, CanRotate
  <2>2. listhead \in Slots /\ listhead # NULL /\ listtail # NULL
        /\ listhead # listtail
    BY PoolSizeAssumption DEF Inv, TypeInv, TypeOK, Slots, NULL, CanRotate
  <2>3. ~ mbxremove[listtail]
        /\ \A u \in Tickets : mbxticket[u] = listtail => u = t
    BY <1>1, <2>2 DEF Inv, TicketInv
  <2>4. TicketInv'
    BY <2>1, <2>2, <2>3 DEF Inv, TypeInv, TypeOK, TicketInv
  <2>5. EntryInv'
    BY <1>1, <2>1, <2>2 DEF Inv, TypeInv, TypeOK, EntryInv
  <2>6. VacatedInv'
    BY <1>1, <2>2, <2>3 DEF Inv, TypeInv, TypeOK, VacatedInv
  <2>7. QED
    BY <1>2, <2>4, <2>5, <2>6 DEF Inv
<1>5. QED
  BY <1>3, <1>4

LEMMA HandlerCheckInv == Inv /\ HandlerCheck => Inv'
<1> SUFFICES ASSUME Inv, HandlerCheck PROVE Inv'
  OBVIOUS
<1> USE DEF HandlerCheck
<1>1. hpc' = "drop" => hloc' = hloc /\ mbxremove[hloc] /\ hloc \in Live
  BY TailLive DEF Inv, TypeInv, TypeOK, HandlerInv, VacatedInv
<1>2. VacatedInv'
  BY <1>1, HandlerLocal DEF VacatedInv, queuevars
<1>3. QED
  BY <1>2, CheckTypes, HandlerLocal DEF Inv, history

(* The step in question. *)
LEMMA HandlerDropInv == Inv /\ HandlerDrop => Inv' \/ misdropped'
<1> SUFFICES ASSUME Inv, HandlerDrop, ~ misdropped' PROVE Inv'
  OBVIOUS
<1> USE DEF HandlerDrop
<1>1. /\ hloc = listtail
      /\ listcount > 0
      /\ listcount \in Int
      /\ mbxremove[hloc]
  <2>1. hloc = listtail
    BY Zenon
  <2>2. QED
    BY <2>1 DEF Inv, TypeInv, TypeOK, HandlerInv, VacatedInv
<1>2. Live' = Live \ {listtail}
  BY <1>1, RingTake DEF Inv, TypeInv, QueueRing, Live
<1>3. TicketInv'
  <2> SUFFICES ASSUME NEW t \in Tickets, mbxticket[t] # NULL
               PROVE  /\ mbxticket[t] \in Live'
                      /\ ~ mbxremove'[mbxticket[t]]
                      /\ \A u \in Tickets : mbxticket[u] = mbxticket[t]
                                            => u = t
    BY DEF TicketInv
  <2>1. /\ mbxticket[t] \in Live
        /\ ~ mbxremove[mbxticket[t]]
        /\ \A u \in Tickets : mbxticket[u] = mbxticket[t] => u = t
    BY DEF Inv, TicketInv
  <2>2. mbxticket[t] # hloc
    BY <1>1, <2>1
  <2>3. QED
    BY <1>1, <1>2, <2>1, <2>2 DEF Inv, TypeInv, TypeOK
<1>4. EntryInv'
  BY <1>1, <1>2 DEF Inv, TypeInv, TypeOK, EntryInv
<1>5. VacatedInv'
  BY DEF VacatedInv
<1>6. QED
  BY <1>3, <1>4, <1>5, DropTypes DEF Inv

LEMMA HandlerDrainInv == Inv /\ HandlerDrain => Inv'
  BY DrainTypes, HandlerLocal DEF Inv, HandlerDrain, VacatedInv, history

LEMMA StutterInv == Inv /\ UNCHANGED vars => Inv'
  BY StutterTypes, QueueUntouched DEF Inv, vars, history

LEMMA NextInv == Inv /\ [Next]_vars => Inv' \/ misdropped'
<1> SUFFICES ASSUME Inv, [Next]_vars, ~ misdropped' PROVE Inv'
  OBVIOUS
<1>1. ASSUME NEW s \in Senders, Sender(s) PROVE Inv'
  BY <1>1, QueueAssumption, CallInv, AddQueueInv, AddQueueTimeoutInv, DoneQueueInv,
     PollTimeoutInv, ExpireQueueInv, DirectWriteInv, ReleaseInv DEF Sender
<1>2. CASE Handler
  BY <1>2, HandlerStartInv, HandlerEndInv, HandlerPickInv, HandlerWriteInv,
     HandlerFreeInv, HandlerRotateInv, HandlerCheckInv, HandlerDropInv,
     HandlerDrainInv DEF Handler
<1>3. CASE UNCHANGED vars
  BY <1>3, StutterInv
<1>4. QED
  BY <1>1, <1>2, <1>3 DEF Next

(* A wrong entry dropped is not forgotten. *)
LEMMA StaysMisdropped == misdropped /\ [Next]_vars => misdropped'
<1> SUFFICES ASSUME misdropped, [Next]_vars PROVE misdropped'
  OBVIOUS
<1>1. ASSUME NEW s \in Senders, Sender(s) PROVE misdropped'
  BY <1>1 DEF Sender, Call, AddQueue, AddQueueTimeout, DoneQueue, PollTimeout,
              ExpireQueue, DirectWrite, Release, Transmit, history
<1>2. CASE Handler
  BY <1>2 DEF Handler, HandlerStart, HandlerEnd, HandlerPick, HandlerWrite,
              HandlerFree, HandlerRotate, HandlerCheck, HandlerDrop,
              HandlerDrain, Transmit, history
<1>3. QED
  BY <1>1, <1>2 DEF Next, vars, history
-----------------------------------------------------------------------------
(* Inv holds until the handler drops a wrong entry. *)
THEOREM InvHolds == Spec => [](Inv \/ misdropped)
<1>1. Init => Inv
  BY InitInv
<1>2. (Inv \/ misdropped) /\ [Next]_vars => (Inv \/ misdropped)'
  BY NextInv, StaysMisdropped
<1>3. QED
  BY <1>1, <1>2, PTL DEF Spec

(* The ticket a thread waits with in ecx_mbxsend names its own entry for   *)
(* as long as it waits, however often ecx_mbxrotatequeue moves the entry,  *)
(* until the handler has dropped a wrong entry.                            *)
THEOREM TicketsSafe == Spec => []TicketsNameOwnEntries
<1>1. Inv \/ misdropped => TicketsNameOwnEntries
  BY DEF Inv, TypeInv, SenderInv, TicketInv, TicketsNameOwnEntries
<1>2. QED
  BY <1>1, InvHolds, PTL

-----------------------------------------------------------------------------
(* What ecx_mbxsend promises: tickets do not run out, no buffer is lost or *)
(* owned twice, and success means that the slave has the message.          *)
(*                                                                         *)
(* BuffersConserved is kept by moving a buffer from one place to another,  *)
(* and a move is sound where the place it goes to is free: a sender that   *)
(* takes a buffer has none, the slot at the head of the queue is not in    *)
(* use, and the pool has room for a buffer that is elsewhere.  BufInv adds *)
(* this to Inv, and that the handler's copy of a pointer is that of the    *)
(* entry it works on.  The refinement of MbxService needs both, for a      *)
(* buffer that is rewritten while an entry still points to it would send a *)
(* message to the wrong slave.                                             *)

(* Every ticket in use names a queue slot of its own, so when the tickets  *)
(* run out so do the slots: ecx_mbxaddqueue, which does not test that its  *)
(* search has found a ticket, always finds one.                            *)
LEMMA TicketFree == Inv => TicketAvailable
<1> SUFFICES ASSUME Inv, listcount < PoolSize, FreeTickets = {}
             PROVE  FALSE
  BY DEF TicketAvailable
<1>1. \A t \in Slots : mbxticket[t] # NULL
  BY DEF FreeTickets, Tickets, Slots
<1>2. listhead \in Slots /\ listhead \notin Live
  BY RingPut DEF Inv, TypeInv, QueueRing, Live
<1>3. \A t \in Slots : mbxticket[t] \in Live
  BY <1>1 DEF Inv, TicketInv, Tickets, Slots
<1>4. mbxticket \in [Slots -> Slots] /\ \A t \in Slots : mbxticket[t] # listhead
  BY <1>2, <1>3 DEF Inv, TypeInv, TypeOK, Live, Occupied, Tickets, Slots
<1>5. \E t, u \in Slots : t # u /\ mbxticket[t] = mbxticket[u]
  BY <1>2, <1>4, NoInjectionToFewer
<1>6. QED
  BY <1>1, <1>5 DEF Inv, TicketInv, Tickets, Slots

(* ecx_mbxaddqueue never runs past its table of tickets, until the handler *)
(* has dropped a wrong entry.                                              *)
THEOREM TicketsSuffice == Spec => []TicketAvailable
<1>1. misdropped => TicketAvailable
  BY DEF TicketAvailable
<1>2. QED
  BY <1>1, TicketFree, InvHolds, PTL

EmptyHanded ==
  \A s \in Senders : spc[s] \in {"idle", "poll", "expire"} => sbuf[s] = NULL

OwnCopy == hpc \in {"write", "free"} => hbuf = mbx[hloc]

BufInv == Inv /\ PoolRing /\ EmptyHanded /\ OwnCopy /\ EveryBufferHasAPlace

(* The four kinds of places, one by one. *)
Sending(b) == {s \in Senders : sbuf[s] = b}
Queued(b)  == {j \in Live : mbx[j] = b}
Drained(b) == {j \in {hloc} : hpc = "drain" /\ hbuf = b}

InOnePlace(b) == JustOne(Pooled(b), Sending(b), Queued(b), Drained(b))

LEMMA Tagged ==
  ASSUME NEW P, NEW S, NEW Q, NEW D, NEW T,
         T = {<<"pool", i>> : i \in P} \cup {<<"sender", i>> : i \in S}
             \cup {<<"queue", i>> : i \in Q} \cup {<<"handler", i>> : i \in D}
  PROVE  (\E p \in T : T = {p}) <=> JustOne(P, S, Q, D)
<1>1. ASSUME JustOne(P, S, Q, D) PROVE \E p \in T : T = {p}
  <2>1. CASE (\E i : P = {i}) /\ S = {} /\ Q = {} /\ D = {}
    <3>1. PICK i : P = {i}
      BY <2>1
    <3>2. T = {<<"pool", i>>}
      BY <2>1, <3>1
    <3>3. QED
      BY <3>2
  <2>2. CASE (\E i : S = {i}) /\ P = {} /\ Q = {} /\ D = {}
    <3>1. PICK i : S = {i}
      BY <2>2
    <3>2. T = {<<"sender", i>>}
      BY <2>2, <3>1
    <3>3. QED
      BY <3>2
  <2>3. CASE (\E i : Q = {i}) /\ P = {} /\ S = {} /\ D = {}
    <3>1. PICK i : Q = {i}
      BY <2>3
    <3>2. T = {<<"queue", i>>}
      BY <2>3, <3>1
    <3>3. QED
      BY <3>2
  <2>4. CASE (\E i : D = {i}) /\ P = {} /\ S = {} /\ Q = {}
    <3>1. PICK i : D = {i}
      BY <2>4
    <3>2. T = {<<"handler", i>>}
      BY <2>4, <3>1
    <3>3. QED
      BY <3>2
  <2>5. QED
    BY <1>1, <2>1, <2>2, <2>3, <2>4 DEF JustOne
<1>2. ASSUME NEW p \in T, T = {p} PROVE JustOne(P, S, Q, D)
  <2>1. \A x, y \in T : x = y
    BY <1>2
  <2>2. /\ \A i \in P : <<"pool", i>> \in T
        /\ \A i \in S : <<"sender", i>> \in T
        /\ \A i \in Q : <<"queue", i>> \in T
        /\ \A i \in D : <<"handler", i>> \in T
    OBVIOUS
  <2>3. CASE P # {}
    <3>1. PICK i \in P : TRUE
      BY <2>3
    <3>2. P = {i} /\ S = {} /\ Q = {} /\ D = {}
      BY <2>1, <2>2, <3>1
    <3>3. QED
      BY <3>2 DEF JustOne
  <2>4. CASE S # {}
    <3>1. PICK i \in S : TRUE
      BY <2>4
    <3>2. S = {i} /\ P = {} /\ Q = {} /\ D = {}
      BY <2>1, <2>2, <3>1
    <3>3. QED
      BY <3>2 DEF JustOne
  <2>5. CASE Q # {}
    <3>1. PICK i \in Q : TRUE
      BY <2>5
    <3>2. Q = {i} /\ P = {} /\ S = {} /\ D = {}
      BY <2>1, <2>2, <3>1
    <3>3. QED
      BY <3>2 DEF JustOne
  <2>6. CASE D # {}
    <3>1. PICK i \in D : TRUE
      BY <2>6
    <3>2. D = {i} /\ P = {} /\ S = {} /\ Q = {}
      BY <2>1, <2>2, <3>1
    <3>3. QED
      BY <3>2 DEF JustOne
  <2>7. P # {} \/ S # {} \/ Q # {} \/ D # {}
    BY <1>2
  <2>8. QED
    BY <2>3, <2>4, <2>5, <2>6, <2>7
<1>3. QED
  BY <1>1, <1>2

AllInOnePlace == \A b \in Buffers : InOnePlace(b)

LEMMA ConservedNow == EveryBufferHasAPlace <=> AllInOnePlace
<1>1. ASSUME NEW b \in Buffers
      PROVE  (\E p \in Places(b) : Places(b) = {p}) <=> InOnePlace(b)
  <2> DEFINE P == Pooled(b)
             S == Sending(b)
             Q == Queued(b)
             D == Drained(b)
             T == Places(b)
  <2>1. T = {<<"pool", i>> : i \in P} \cup {<<"sender", i>> : i \in S}
             \cup {<<"queue", i>> : i \in Q} \cup {<<"handler", i>> : i \in D}
    BY DEF Places, Pooled, Sending, Queued, Drained
  <2> HIDE DEF P, S, Q, D, T
  <2>2. (\E p \in T : T = {p}) <=> JustOne(P, S, Q, D)
    BY <2>1, Tagged
  <2>3. QED
    BY <2>2 DEF P, S, Q, D, T, InOnePlace
<1>2. QED
  BY <1>1 DEF EveryBufferHasAPlace, AllInOnePlace

LEMMA ConservedNext == AllInOnePlace' => EveryBufferHasAPlace'
  BY ConservedNow, PTL

LEMMA RoomInPool ==
  ASSUME BufInv, NEW b \in Buffers, Pooled(b) = {}
  PROVE  poolcount < PoolSize
<1>1. \A c \in Buffers : \A i, j \in Pooled(c) : i = j
  BY ConservedNow DEF BufInv, AllInOnePlace, InOnePlace, JustOne
<1>2. QED
  BY <1>1, PoolHasRoom DEF BufInv, Inv, TypeInv, TypeOK

-----------------------------------------------------------------------------
(* A step that moves no buffer. *)
LEMMA BuffersStay ==
  ASSUME BufInv,
         UNCHANGED <<poolvars, sbuf, listhead, listtail, listcount, mbx>>,
         UNCHANGED <<hpc, hloc, hbuf>> \/ (hpc # "drain" /\ hpc' # "drain")
  PROVE  PoolRing' /\ AllInOnePlace'
<1>1. PoolRing'
  BY DEF BufInv, PoolRing, RingShape, poolvars
<1>2. ASSUME NEW b \in Buffers PROVE InOnePlace(b)'
  <2>1. InOnePlace(b)
    BY ConservedNow DEF BufInv, AllInOnePlace
  <2>2. Pooled(b)' = Pooled(b)
    BY DEF Pooled, FreeSlots, Occupied, poolvars
  <2>3. Sending(b)' = Sending(b) /\ Queued(b)' = Queued(b)
    BY DEF Sending, Queued, Live, Occupied
  <2>4. Drained(b)' = Drained(b)
    BY DEF Drained
  <2>5. QED
    BY <2>1, <2>2, <2>3, <2>4 DEF InOnePlace
<1>3. QED
  BY <1>1, <1>2 DEF AllInOnePlace, Buffers

(* A caller of ecx_mbxsend comes with a buffer from the pool. *)
LEMMA CallMoves ==
  ASSUME BufInv, NEW s \in Senders, NEW sl \in Slaves, Call(s, sl)
  PROVE  PoolRing' /\ EmptyHanded' /\ OwnCopy' /\ AllInOnePlace'
<1> USE DEF Call, Goto
<1>1. PICK b \in Buffers : GetMbx(b) /\ sbuf' = [sbuf EXCEPT ![s] = b]
  OBVIOUS
<1>2. /\ PoolRing'
      /\ pooltail \in Pooled(b)
      /\ Pooled(b)' = Pooled(b) \ {pooltail}
      /\ \A c \in Buffers \ {b} : Pooled(c)' = Pooled(c)
  BY <1>1, PoolTake DEF BufInv, Inv, TypeInv, TypeOK
<1>3. EmptyHanded'
  BY <1>1 DEF BufInv, Inv, TypeInv, TypeOK, EmptyHanded
<1>4. OwnCopy'
  BY DEF BufInv, OwnCopy, queuevars, handlervars
<1>5. sbuf[s] = NULL
  BY DEF BufInv, EmptyHanded
<1>6. ASSUME NEW c \in Buffers PROVE InOnePlace(c)'
  <2>1. InOnePlace(c)
    BY ConservedNow DEF BufInv, AllInOnePlace
  <2>2. Queued(c)' = Queued(c) /\ Drained(c)' = Drained(c)
    BY DEF Queued, Drained, Live, Occupied, queuevars, handlervars
  <2>3. CASE c = b
    <3>1. /\ Pooled(c) = {pooltail} /\ Sending(c) = {}
          /\ Queued(c) = {} /\ Drained(c) = {}
      BY <1>2, <2>1, <2>3 DEF InOnePlace, JustOne
    <3>2. Pooled(c)' = {}
      BY <1>2, <2>3, <3>1
    <3>3. Sending(c)' = {s}
      BY <1>1, <2>3, <3>1 DEF Sending, BufInv, Inv, TypeInv, TypeOK
    <3>4. QED
      BY <2>2, <3>1, <3>2, <3>3 DEF InOnePlace, JustOne
  <2>4. CASE c # b
    <3>1. Pooled(c)' = Pooled(c)
      BY <1>2, <2>4
    <3>2. Sending(c)' = Sending(c)
      BY <1>1, <1>5, <2>4, PoolSizeAssumption
         DEF Sending, BufInv, Inv, TypeInv, TypeOK, Buffers, NULL
    <3>3. QED
      BY <2>1, <2>2, <3>1, <3>2 DEF InOnePlace
  <2>5. QED
    BY <2>3, <2>4
<1>7. QED
  BY <1>2, <1>3, <1>4, <1>6 DEF AllInOnePlace, Buffers

(* ecx_mbxaddqueue puts the buffer into the slot at the head of the queue, *)
(* which is not in use.                                                    *)
LEMMA AddQueueMoves ==
  ASSUME BufInv, NEW s \in Senders, AddQueue(s)
  PROVE  PoolRing' /\ EmptyHanded' /\ OwnCopy' /\ AllInOnePlace'
<1> USE DEF AddQueue, Goto, HasRoom
<1>1. PoolRing'
  BY DEF BufInv, PoolRing, RingShape, poolvars
<1>2. EmptyHanded'
  BY DEF BufInv, Inv, TypeInv, TypeOK, EmptyHanded
<1>3. /\ listhead \in Slots
      /\ listhead \notin Live
      /\ Live' = Live \cup {listhead}
  BY RingPut DEF BufInv, Inv, TypeInv, QueueRing, Live
<1>4. OwnCopy'
  <2>1. hpc \in {"write", "free"} => hloc \in Live
    BY TailLive, PoolSizeAssumption
       DEF BufInv, Inv, TypeInv, HandlerInv, QueueRing, RingShape, Slots
  <2>2. QED
    BY <1>3, <2>1 DEF BufInv, Inv, TypeInv, TypeOK, OwnCopy, handlervars
<1>5. sbuf[s] \in Buffers /\ NULL \notin Buffers
  BY DEF BufInv, Inv, TypeInv, SenderInv, Buffers, NULL
<1>6. ASSUME NEW c \in Buffers PROVE InOnePlace(c)'
  <2>1. InOnePlace(c)
    BY ConservedNow DEF BufInv, AllInOnePlace
  <2>2. Pooled(c)' = Pooled(c) /\ Drained(c)' = Drained(c)
    BY DEF Pooled, Drained, FreeSlots, Occupied, poolvars, handlervars
  <2>3. CASE c = sbuf[s]
    <3>1. /\ Sending(c) = {s} /\ Pooled(c) = {}
          /\ Queued(c) = {} /\ Drained(c) = {}
      <4>1. s \in Sending(c)
        BY <2>3 DEF Sending
      <4>2. QED
        BY <2>1, <4>1 DEF InOnePlace, JustOne
    <3>2. Sending(c)' = {}
      BY <1>5, <3>1 DEF Sending, BufInv, Inv, TypeInv, TypeOK
    <3>3. Queued(c)' = {listhead}
      BY <1>3, <2>3, <3>1 DEF Queued, BufInv, Inv, TypeInv, TypeOK
    <3>4. QED
      BY <2>2, <3>1, <3>2, <3>3 DEF InOnePlace, JustOne
  <2>4. CASE c # sbuf[s]
    <3>1. Queued(c)' = Queued(c)
      BY <1>3, <2>4 DEF Queued, BufInv, Inv, TypeInv, TypeOK
    <3>2. Sending(c)' = Sending(c)
      BY <1>5, <2>4 DEF Sending, BufInv, Inv, TypeInv, TypeOK
    <3>3. QED
      BY <2>1, <2>2, <3>1, <3>2 DEF InOnePlace
  <2>5. QED
    BY <2>3, <2>4
<1>7. QED
  BY <1>1, <1>2, <1>4, <1>6 DEF AllInOnePlace, Buffers

(* The end of ecx_mbxsend drops a buffer it still owns. *)
LEMMA ReleaseMoves ==
  ASSUME BufInv, NEW s \in Senders, Release(s)
  PROVE  PoolRing' /\ EmptyHanded' /\ OwnCopy' /\ AllInOnePlace'
<1> USE DEF Release, Return, Goto
<1>1. PICK b \in Buffers : b = sbuf[s]
  BY DEF BufInv, Inv, TypeInv, SenderInv
<1>2. s \in Sending(b) /\ NULL \notin Buffers
  BY <1>1 DEF Sending, Buffers, NULL
<1>3. /\ Sending(b) = {s} /\ Pooled(b) = {}
      /\ Queued(b) = {} /\ Drained(b) = {}
  BY <1>2, ConservedNow DEF BufInv, AllInOnePlace, InOnePlace, JustOne
<1>4. poolcount < PoolSize
  BY <1>3, RoomInPool
<1>5. /\ PoolRing'
      /\ Pooled(b)' = {poolhead}
      /\ \A c \in Buffers \ {b} : Pooled(c)' = Pooled(c)
  BY <1>1, <1>3, <1>4, PoolPut DEF BufInv, Inv, TypeInv, TypeOK
<1>6. EmptyHanded'
  BY DEF BufInv, Inv, TypeInv, TypeOK, EmptyHanded
<1>7. OwnCopy'
  BY DEF BufInv, OwnCopy, queuevars, handlervars
<1>8. ASSUME NEW c \in Buffers PROVE InOnePlace(c)'
  <2>1. InOnePlace(c)
    BY ConservedNow DEF BufInv, AllInOnePlace
  <2>2. Queued(c)' = Queued(c) /\ Drained(c)' = Drained(c)
    BY DEF Queued, Drained, Live, Occupied, queuevars, handlervars
  <2>3. CASE c = b
    <3>1. Sending(c)' = {}
      BY <1>2, <1>3, <2>3 DEF Sending, BufInv, Inv, TypeInv, TypeOK
    <3>2. QED
      BY <1>3, <1>5, <2>2, <2>3, <3>1 DEF InOnePlace, JustOne
  <2>4. CASE c # b
    <3>1. Sending(c)' = Sending(c)
      BY <1>1, <1>2, <2>4 DEF Sending, BufInv, Inv, TypeInv, TypeOK
    <3>2. QED
      BY <1>5, <2>1, <2>2, <2>4, <3>1 DEF InOnePlace
  <2>5. QED
    BY <2>3, <2>4
<1>9. QED
  BY <1>5, <1>6, <1>7, <1>8 DEF AllInOnePlace, Buffers
-----------------------------------------------------------------------------
(* The handler returns the buffer of a message that was sent. *)
LEMMA FreeMoves ==
  ASSUME BufInv, HandlerFree
  PROVE  PoolRing' /\ EmptyHanded' /\ OwnCopy' /\ AllInOnePlace'
<1> USE DEF HandlerFree
<1>1. PICK b \in Buffers : b = hbuf
  BY DEF BufInv, Inv, TypeInv, HandlerInv
<1>2. /\ hloc \in Live
      /\ mbx[hloc] = b
      /\ NULL \notin Buffers
  BY <1>1, TailLive, PoolSizeAssumption
     DEF BufInv, Inv, TypeInv, HandlerInv, QueueRing, RingShape, Slots, OwnCopy,
         Buffers, NULL
<1>3. /\ Queued(b) = {hloc} /\ Pooled(b) = {}
      /\ Sending(b) = {} /\ Drained(b) = {}
  <2>1. hloc \in Queued(b)
    BY <1>2 DEF Queued
  <2>2. QED
    BY <2>1, ConservedNow DEF BufInv, AllInOnePlace, InOnePlace, JustOne
<1>4. poolcount < PoolSize
  BY <1>3, RoomInPool
<1>5. /\ PoolRing'
      /\ Pooled(b)' = {poolhead}
      /\ \A c \in Buffers \ {b} : Pooled(c)' = Pooled(c)
  BY <1>1, <1>3, <1>4, PoolPut DEF BufInv, Inv, TypeInv, TypeOK
<1>6. EmptyHanded' /\ OwnCopy'
  BY DEF BufInv, EmptyHanded, OwnCopy, sendervars
<1>7. ASSUME NEW c \in Buffers PROVE InOnePlace(c)'
  <2>1. InOnePlace(c)
    BY ConservedNow DEF BufInv, AllInOnePlace
  <2>2. Sending(c)' = Sending(c) /\ Drained(c)' = Drained(c)
    BY DEF Sending, Drained, sendervars
  <2>3. Live' = Live
    BY DEF Live, Occupied
  <2>4. CASE c = b
    <3>1. Queued(c)' = {}
      BY <1>2, <1>3, <2>3, <2>4 DEF Queued, BufInv, Inv, TypeInv, TypeOK
    <3>2. QED
      BY <1>3, <1>5, <2>2, <2>4, <3>1 DEF InOnePlace, JustOne
  <2>5. CASE c # b
    <3>1. Queued(c)' = Queued(c)
      BY <1>2, <2>3, <2>5 DEF Queued, BufInv, Inv, TypeInv, TypeOK
    <3>2. QED
      BY <1>5, <2>1, <2>2, <2>5, <3>1 DEF InOnePlace
  <2>6. QED
    BY <2>4, <2>5
<1>8. QED
  BY <1>5, <1>6, <1>7 DEF AllInOnePlace, Buffers

(* Rotation moves the buffer of the oldest entry with it. *)
LEMMA RotateMoves ==
  ASSUME BufInv, HandlerRotate
  PROVE  PoolRing' /\ EmptyHanded' /\ OwnCopy' /\ AllInOnePlace'
<1> USE DEF HandlerRotate
<1>1. EmptyHanded' /\ OwnCopy'
  BY DEF BufInv, EmptyHanded, OwnCopy, sendervars
<1>2. CASE UNCHANGED queuevars
  <2>1. UNCHANGED <<poolvars, sbuf, listhead, listtail, listcount, mbx>>
        /\ hpc # "drain" /\ hpc' # "drain"
    BY <1>2 DEF queuevars, sendervars
  <2>2. QED
    BY <1>1, <2>1, BuffersStay
<1>3. ASSUME NEW t \in Tickets, CanRotate, MoveToHead(t)
      PROVE  PoolRing' /\ AllInOnePlace'
  <2> USE <1>3 DEF MoveToHead
  <2>1. PoolRing'
    BY DEF BufInv, PoolRing, RingShape, poolvars
  <2>2. listcount > 0
    BY PoolSizeAssumption DEF BufInv, Inv, TypeInv, HandlerInv, QueueRing, RingShape, Slots
  <2>3. /\ listhead \notin Live
        /\ listtail \in Live
        /\ listhead \in Slots
        /\ Live' = (Live \cup {listhead}) \ {listtail}
    BY <2>2, RingRotate DEF BufInv, Inv, TypeInv, TypeOK, QueueRing, Live, CanRotate
  <2>4. ASSUME NEW c \in Buffers PROVE InOnePlace(c)'
    <3>1. InOnePlace(c)
      BY ConservedNow DEF BufInv, AllInOnePlace
    <3>2. /\ Pooled(c)' = Pooled(c)
          /\ Sending(c)' = Sending(c)
          /\ Drained(c)' = Drained(c)
      BY DEF Pooled, Sending, Drained, FreeSlots, Occupied, poolvars, sendervars
    <3>3. CASE c = mbx[listtail]
      <4>1. /\ Queued(c) = {listtail} /\ Pooled(c) = {}
            /\ Sending(c) = {} /\ Drained(c) = {}
        <5>1. listtail \in Queued(c)
          BY <2>3, <3>3 DEF Queued
        <5>2. QED
          BY <3>1, <5>1 DEF InOnePlace, JustOne
      <4>2. Queued(c)' = {listhead}
        BY <2>3, <3>3, <4>1 DEF Queued, BufInv, Inv, TypeInv, TypeOK
      <4>3. QED
        BY <3>2, <4>1, <4>2 DEF InOnePlace, JustOne
    <3>4. CASE c # mbx[listtail]
      <4>1. Queued(c)' = Queued(c)
        BY <2>3, <3>4 DEF Queued, BufInv, Inv, TypeInv, TypeOK
      <4>2. QED
        BY <3>1, <3>2, <4>1 DEF InOnePlace
    <3>5. QED
      BY <3>3, <3>4
  <2>5. QED
    BY <2>1, <2>4 DEF AllInOnePlace, Buffers
<1>4. QED
  BY <1>1, <1>2, <1>3

(* A dropped entry that was not sent leaves its buffer with the handler.   *)
LEMMA DropMoves ==
  ASSUME BufInv, HandlerDrop, ~ misdropped'
  PROVE  PoolRing' /\ EmptyHanded' /\ OwnCopy' /\ AllInOnePlace'
<1> USE DEF HandlerDrop
<1>1. PoolRing' /\ EmptyHanded' /\ OwnCopy'
  BY DEF BufInv, PoolRing, RingShape, EmptyHanded, OwnCopy, poolvars, sendervars
<1>2. hloc = listtail /\ listcount > 0
  <2>1. hloc = listtail
    BY Zenon
  <2>2. QED
    BY <2>1 DEF BufInv, Inv, TypeInv, TypeOK, HandlerInv
<1>3. hloc \in Live /\ Live' = Live \ {hloc}
  BY <1>2, RingTake DEF BufInv, Inv, TypeInv, QueueRing, Live
<1>4. ASSUME NEW c \in Buffers PROVE InOnePlace(c)'
  <2>1. InOnePlace(c)
    BY ConservedNow DEF BufInv, AllInOnePlace
  <2>2. Pooled(c)' = Pooled(c) /\ Sending(c)' = Sending(c)
    BY DEF Pooled, Sending, FreeSlots, Occupied, poolvars, sendervars
  <2>3. CASE c = mbx[hloc]
    <3>1. /\ Queued(c) = {hloc} /\ Pooled(c) = {} /\ Sending(c) = {}
      <4>1. hloc \in Queued(c)
        BY <1>3, <2>3 DEF Queued
      <4>2. QED
        BY <2>1, <4>1 DEF InOnePlace, JustOne
    <3>2. Queued(c)' = {}
      BY <1>3, <3>1 DEF Queued, BufInv, Inv, TypeInv, TypeOK
    <3>3. Drained(c)' = {0}
      BY <2>3 DEF Drained, Buffers, NULL
    <3>4. QED
      BY <2>2, <3>1, <3>2, <3>3 DEF InOnePlace, JustOne
  <2>4. CASE c # mbx[hloc]
    <3>1. Queued(c)' = Queued(c)
      BY <1>3, <2>4 DEF Queued, BufInv, Inv, TypeInv, TypeOK
    <3>2. Drained(c)' = {} /\ Drained(c) = {}
      BY <2>4 DEF Drained
    <3>3. QED
      BY <2>1, <2>2, <3>1, <3>2 DEF InOnePlace
  <2>5. QED
    BY <2>3, <2>4
<1>5. QED
  BY <1>1, <1>4 DEF AllInOnePlace, Buffers

(* The handler returns the buffer of an entry it has dropped unsent.       *)
LEMMA DrainMoves ==
  ASSUME BufInv, HandlerDrain
  PROVE  PoolRing' /\ EmptyHanded' /\ OwnCopy' /\ AllInOnePlace'
<1> USE DEF HandlerDrain
<1>1. PICK b \in Buffers : b = hbuf
  BY DEF BufInv, Inv, TypeInv, HandlerInv
<1>2. /\ Drained(b) = {hloc} /\ Pooled(b) = {}
      /\ Sending(b) = {} /\ Queued(b) = {}
  <2>1. hloc \in Drained(b)
    BY <1>1 DEF Drained
  <2>2. QED
    BY <2>1, ConservedNow DEF BufInv, AllInOnePlace, InOnePlace, JustOne
<1>3. poolcount < PoolSize
  BY <1>2, RoomInPool
<1>4. /\ PoolRing'
      /\ Pooled(b)' = {poolhead}
      /\ \A c \in Buffers \ {b} : Pooled(c)' = Pooled(c)
  BY <1>1, <1>2, <1>3, PoolPut DEF BufInv, Inv, TypeInv, TypeOK
<1>5. EmptyHanded' /\ OwnCopy'
  BY DEF BufInv, EmptyHanded, OwnCopy, sendervars
<1>6. ASSUME NEW c \in Buffers PROVE InOnePlace(c)'
  <2>1. InOnePlace(c)
    BY ConservedNow DEF BufInv, AllInOnePlace
  <2>2. Sending(c)' = Sending(c) /\ Queued(c)' = Queued(c)
    BY DEF Sending, Queued, Live, Occupied, sendervars, queuevars
  <2>3. Drained(c)' = {}
    BY DEF Drained
  <2>4. c # b => Drained(c) = {}
    BY <1>1 DEF Drained
  <2>5. CASE c = b
    BY <1>2, <1>4, <2>2, <2>3, <2>5 DEF InOnePlace, JustOne
  <2>6. CASE c # b
    BY <1>4, <2>1, <2>2, <2>3, <2>4, <2>6 DEF InOnePlace
  <2>7. QED
    BY <2>5, <2>6
<1>7. QED
  BY <1>4, <1>5, <1>6 DEF AllInOnePlace, Buffers
-----------------------------------------------------------------------------
LEMMA InitBufInv == Init => BufInv
<1> SUFFICES ASSUME Init PROVE BufInv
  OBVIOUS
<1> USE PoolSizeAssumption DEF Init, PoolInit
<1>1. PoolRing /\ EmptyHanded /\ OwnCopy
  BY DEF PoolRing, RingShape, Slots, EmptyHanded, OwnCopy
<1>2. FreeSlots = Slots /\ Live = {}
  BY DEF FreeSlots, Live, Occupied, Slots
<1>3. ASSUME NEW b \in Buffers PROVE InOnePlace(b)
  <2>1. Pooled(b) = {b}
    BY <1>2 DEF Pooled, Slots, Buffers
  <2>2. Sending(b) = {} /\ Queued(b) = {} /\ Drained(b) = {}
    BY <1>2 DEF Sending, Queued, Drained, Buffers, NULL
  <2>3. QED
    BY <2>1, <2>2 DEF InOnePlace, JustOne
<1>4. QED
  BY <1>1, <1>3, InitInv, ConservedNow DEF BufInv, AllInOnePlace

(* The other steps of a thread in ecx_mbxsend move no buffer. *)
LEMMA SenderMoves ==
  ASSUME BufInv, NEW s \in Senders, Sender(s)
  PROVE  PoolRing' /\ EmptyHanded' /\ OwnCopy' /\ AllInOnePlace'
<1>1. CASE \E sl \in Partners[s] : Call(s, sl)
  BY <1>1, CallMoves, QueueAssumption
<1>2. CASE AddQueue(s)
  BY <1>2, AddQueueMoves
<1>3. CASE Release(s)
  BY <1>3, ReleaseMoves
<1>4. CASE AddQueueTimeout(s) \/ DoneQueue(s) \/ PollTimeout(s)
           \/ ExpireQueue(s) \/ DirectWrite(s)
  <2> USE <1>4 DEF AddQueueTimeout, DoneQueue, PollTimeout, ExpireQueue,
                   DirectWrite, Surrender, Return, Goto
  <2>1. UNCHANGED <<poolvars, sbuf, listhead, listtail, listcount, mbx>>
        /\ UNCHANGED <<hpc, hloc, hbuf>>
    BY DEF queuevars, handlervars
  <2>2. EmptyHanded'
    BY <2>1 DEF BufInv, Inv, TypeInv, TypeOK, EmptyHanded
  <2>3. OwnCopy'
    BY <2>1 DEF BufInv, OwnCopy
  <2>4. QED
    BY <2>1, <2>2, <2>3, BuffersStay
<1>5. QED
  BY <1>1, <1>2, <1>3, <1>4 DEF Sender

LEMMA HandlerMoves ==
  ASSUME BufInv, Handler, ~ misdropped'
  PROVE  PoolRing' /\ EmptyHanded' /\ OwnCopy' /\ AllInOnePlace'
<1>1. CASE HandlerStart \/ HandlerEnd \/ HandlerPick \/ HandlerWrite
           \/ HandlerCheck
  <2> USE <1>1 DEF HandlerStart, HandlerEnd, HandlerPick, HandlerWrite,
                   HandlerCheck
  <2>1. UNCHANGED <<poolvars, sbuf, listhead, listtail, listcount, mbx>>
        /\ hpc # "drain" /\ hpc' # "drain"
    BY DEF queuevars, sendervars
  <2>2. EmptyHanded'
    BY DEF BufInv, EmptyHanded, sendervars
  <2>3. OwnCopy'
    BY <2>1 DEF BufInv, OwnCopy
  <2>4. QED
    BY <2>1, <2>2, <2>3, BuffersStay
<1>2. QED
  BY <1>1, FreeMoves, RotateMoves, DropMoves, DrainMoves DEF Handler

LEMMA NextBufInv == BufInv /\ [Next]_vars => BufInv' \/ misdropped'
<1> SUFFICES ASSUME BufInv, [Next]_vars, ~ misdropped' PROVE BufInv'
  OBVIOUS
<1>1. Inv'
  BY NextInv DEF BufInv
<1>2. PoolRing' /\ EmptyHanded' /\ OwnCopy' /\ AllInOnePlace'
  <2>1. ASSUME NEW s \in Senders, Sender(s)
        PROVE  PoolRing' /\ EmptyHanded' /\ OwnCopy' /\ AllInOnePlace'
    BY <2>1, SenderMoves
  <2>2. CASE Handler
    BY <2>2, HandlerMoves
  <2>3. CASE UNCHANGED vars
    <3>1. /\ UNCHANGED <<poolvars, sbuf, listhead, listtail, listcount, mbx>>
          /\ UNCHANGED <<hpc, hloc, hbuf, spc>>
      BY <2>3 DEF vars, queuevars, sendervars, handlervars
    <3>2. EmptyHanded' /\ OwnCopy'
      BY <3>1 DEF BufInv, EmptyHanded, OwnCopy
    <3>3. QED
      BY <3>1, <3>2, BuffersStay
  <2>4. QED
    BY <2>1, <2>2, <2>3 DEF Next
<1>3. QED
  BY <1>1, <1>2, ConservedNext DEF BufInv

(* Ownership of a buffer passes from the caller to the queue and back to   *)
(* the pool without it being lost or held twice, whatever messages time    *)
(* out, are given up, fail or are rotated, until the handler drops a wrong *)
(* entry.                                                                  *)
THEOREM BuffersAreConserved == Spec => []BuffersConserved
<1>1. Init => BufInv
  BY InitBufInv
<1>2. (BufInv \/ misdropped) /\ [Next]_vars => (BufInv \/ misdropped)'
  BY NextBufInv, StaysMisdropped
<1>3. BufInv \/ misdropped => BuffersConserved
  BY DEF BufInv, BuffersConserved
<1>4. QED
  BY <1>1, <1>2, <1>3, PTL DEF Spec
-----------------------------------------------------------------------------
(* ecx_mbxsend implements MbxService.  What it rests on: the buffer of an  *)
(* entry that is still to be sent holds the message of the thread that     *)
(* waits for it, or of a call that has failed, and an entry is done only   *)
(* when its message has been accepted.                                     *)

Entry(s) == mbxticket[sticket[s]]

Unsent == {i \in Live : mbxstate[i] # "done"}

PhaseInv ==
  \A s \in Senders :
    /\ spc[s] # "idle" => phase[Current(s)] = "pending"
    /\ \A m \in Messages : m.from = s /\ m.seq > sends[s] => phase[m] = "unused"

InHand ==
  \A s \in Senders : spc[s] \in {"enqueue", "direct", "retry"}
                       => content[sbuf[s]] = Current(s)

OwnEntry ==
  \A s \in Senders : Waiting(s) =>
    IF mbxstate[Entry(s)] = "done" THEN Current(s) \in accepted
                                   ELSE content[mbx[Entry(s)]] = Current(s)

UnsentInv ==
  \A i \in Unsent :
    /\ content[mbx[i]] \in Messages
    /\ mbxslave[i] = content[mbx[i]].to
    /\ \/ phase[content[mbx[i]]] = "failed"
       \/ \E s \in Senders : /\ Waiting(s) /\ Entry(s) = i
                             /\ content[mbx[i]] = Current(s)

ReportInv ==
  \A s \in Senders : wkc[s] => /\ spc[s] = "release"
                               /\ Current(s) \in accepted

OwnSlave == hpc = "write" => hslave = mbxslave[hloc]

MailInv == PhaseInv /\ InHand /\ OwnEntry /\ UnsentInv /\ ReportInv /\ OwnSlave

(* No message is on its way twice, or once more after its acceptance. *)
Holding(s) == spc[s] \in {"enqueue", "direct", "retry"}

FreshInv ==
  /\ \A m \in accepted : m \in Messages /\ phase[m] # "unused"
  /\ \A s \in Senders : Holding(s) => Current(s) \notin accepted
  /\ \A i \in Unsent : content[mbx[i]] \notin accepted
  /\ \A i, j \in Unsent : content[mbx[i]] = content[mbx[j]] => i = j

ServiceInv == BufInv /\ MailInv /\ FreshInv

ServiceStep == [Service!Next]_<<phase, accepted, amiss>>

(* A message of a sender, present or next. *)
LEMMA IsMessage ==
  ASSUME NEW s \in Senders, NEW n \in 1 .. MaxSends[s], NEW sl \in Slaves
  PROVE  [from |-> s, seq |-> n, to |-> sl] \in Messages
  BY DEF Messages

(* The message of a call is pending, and it is a message. *)
LEMMA CurrentPending ==
  ASSUME BufInv, PhaseInv, NEW s \in Senders, spc[s] # "idle"
  PROVE  /\ Current(s) \in Messages
         /\ Current(s).to = sto[s] /\ Current(s).from = s
         /\ Current(s).seq = sends[s]
         /\ phase[Current(s)] = "pending"
<1>1. sto[s] \in Slaves /\ sends[s] \in 1 .. MaxSends[s]
  BY DEF BufInv, Inv, TypeInv, SenderInv
<1>2. QED
  BY <1>1, IsMessage DEF PhaseInv, Current

(* What a waiting thread's ticket says about its entry. *)
LEMMA EntryOwned ==
  ASSUME BufInv, NEW s \in Senders, Waiting(s)
  PROVE  /\ sticket[s] \in Tickets /\ Entry(s) \in Live
         /\ Entry(s) \in Slots
         /\ ~ mbxremove[Entry(s)]
         /\ mbxstate[Entry(s)] \in {"req", "fail", "done"}
         /\ mbxstate[Entry(s)] # "done" => mbx[Entry(s)] \in Buffers
         /\ \A t \in Tickets : mbxticket[t] = Entry(s) => t = sticket[s]
         /\ \A r \in Senders : Waiting(r) /\ sticket[r] = sticket[s] => r = s
<1>1. /\ sticket[s] \in Tickets /\ Entry(s) # NULL
      /\ \A r \in Senders : Waiting(r) /\ sticket[r] = sticket[s] => r = s
  BY DEF BufInv, Inv, TypeInv, SenderInv, Entry
<1>2. /\ Entry(s) \in Live /\ ~ mbxremove[Entry(s)]
      /\ \A t \in Tickets : mbxticket[t] = Entry(s) => t = sticket[s]
  BY <1>1 DEF BufInv, Inv, TicketInv, Entry
<1>3. Entry(s) \in Slots
  BY <1>2 DEF Live, Occupied
<1>4. mbxstate[Entry(s)] \in {"req", "fail", "done"}
  BY <1>2, <1>3 DEF BufInv, Inv, TypeInv, TypeOK, EntryInv, QStates
<1>5. mbxstate[Entry(s)] # "done" => mbx[Entry(s)] \in Buffers
  BY <1>3, <1>4 DEF BufInv, Inv, TypeInv, SlotInv
<1>6. QED
  BY <1>1, <1>2, <1>3, <1>4, <1>5

(* A buffer taken from the pool is no sender's and no entry's. *)
LEMMA FreshBuffer ==
  ASSUME BufInv, NEW b \in Buffers, GetMbx(b)
  PROVE  /\ \A s \in Senders : sbuf[s] # b
         /\ \A i \in Live : mbx[i] # b
<1>1. pooltail \in Pooled(b)
  BY PoolTake DEF BufInv, Inv, TypeInv, TypeOK
<1>2. Sending(b) = {} /\ Queued(b) = {}
  BY <1>1, ConservedNow DEF BufInv, AllInOnePlace, InOnePlace, JustOne
<1>3. QED
  BY <1>2 DEF Sending, Queued

LEMMA InitMail == Init => Service!Init /\ MailInv
<1> SUFFICES ASSUME Init PROVE Service!Init /\ MailInv
  OBVIOUS
<1>1. Live = {}
  BY DEF Init, Live, Occupied
<1>2. QED
  BY <1>1 DEF Init, Service!Init, MailInv, PhaseInv, InHand, OwnEntry, Unsent,
              UnsentInv, ReportInv, OwnSlave, Waiting

LEMMA CallServes ==
  ASSUME ServiceInv, NEW s \in Senders, NEW sl \in Slaves, Call(s, sl)
  PROVE  ServiceStep /\ MailInv'
<1> USE DEF Call, Goto
<1> DEFINE m == [from |-> s, seq |-> sends[s] + 1, to |-> sl]
<1>1. PICK b \in Buffers : /\ GetMbx(b)
                           /\ sbuf' = [sbuf EXCEPT ![s] = b]
                           /\ content' = [content EXCEPT ![b] = m]
  OBVIOUS
<1>2. /\ \A r \in Senders : sbuf[r] # b
      /\ \A i \in Live : mbx[i] # b
  BY <1>1, FreshBuffer DEF ServiceInv
<1>3. m \in Messages /\ phase[m] = "unused"
  <2>1. sends[s] + 1 \in 1 .. MaxSends[s] /\ sends[s] + 1 > sends[s]
    <3>1. sends[s] \in Nat /\ MaxSends[s] \in Nat /\ sends[s] < MaxSends[s]
      BY QueueAssumption DEF ServiceInv, BufInv, Inv, TypeInv, TypeOK
    <3>2. QED
      BY <3>1
  <2>2. m \in Messages
    BY <2>1, IsMessage
  <2>3. QED
    BY <2>1, <2>2 DEF ServiceInv, MailInv, PhaseInv
<1>4. ServiceStep
  BY <1>3 DEF ServiceStep, Service!Next, Service!Call
<1>5. /\ Current(s)' = m
      /\ \A r \in Senders \ {s} : /\ Current(r)' = Current(r)
                                  /\ spc'[r] = spc[r] /\ sto'[r] = sto[r]
                                  /\ sends'[r] = sends[r] /\ sbuf'[r] = sbuf[r]
  BY <1>1 DEF Current, ServiceInv, BufInv, Inv, TypeInv, TypeOK
<1>6. phase'[m] = "pending" /\ \A n \in Messages \ {m} : phase'[n] = phase[n]
  BY <1>3 DEF ServiceInv, BufInv, Inv, TypeInv, TypeOK
<1>7. spc'[s] \in {"enqueue", "direct", "release"} /\ sends'[s] = sends[s] + 1
      /\ sends[s] \in Nat
  BY DEF ServiceInv, BufInv, Inv, TypeInv, TypeOK
<1>8. PhaseInv'
  <2>1. \A r \in Senders \ {s} : spc'[r] # "idle" => phase'[Current(r)'] = "pending"
    <3> SUFFICES ASSUME NEW r \in Senders \ {s}, spc'[r] # "idle"
                 PROVE  phase'[Current(r)'] = "pending"
      OBVIOUS
    <3>1. /\ Current(r) \in Messages /\ Current(r).from = r
          /\ phase[Current(r)] = "pending"
      BY <1>5, CurrentPending DEF ServiceInv, MailInv
    <3>2. QED
      BY <1>3, <1>5, <1>6, <3>1
  <2>2. \A n \in Messages : n.from = s /\ n.seq > sends'[s] => phase'[n] = "unused"
    <3> SUFFICES ASSUME NEW n \in Messages, n.from = s, n.seq > sends'[s]
                 PROVE  phase'[n] = "unused"
      OBVIOUS
    <3>1. n.seq \in Nat
      BY QueueAssumption DEF Messages
    <3>2. n.seq > sends[s] /\ n.seq # m.seq
      BY <1>7, <3>1
    <3>3. QED
      BY <1>6, <3>2 DEF ServiceInv, MailInv, PhaseInv
  <2>3. \A r \in Senders \ {s}, n \in Messages :
          n.from = r /\ n.seq > sends'[r] => phase'[n] = "unused"
    BY <1>5, <1>6 DEF ServiceInv, MailInv, PhaseInv
  <2>4. QED
    BY <1>5, <1>6, <2>1, <2>2, <2>3 DEF PhaseInv
<1>9. InHand'
  BY <1>1, <1>2, <1>5 DEF ServiceInv, BufInv, Inv, TypeInv, TypeOK, SenderInv, MailInv, InHand
<1>10. Live' = Live
  BY DEF Live, Occupied, queuevars
<1>11. OwnEntry'
  <2> SUFFICES ASSUME NEW r \in Senders, Waiting(r)'
               PROVE  IF mbxstate[Entry(r)] = "done"
                      THEN Current(r)' \in accepted
                      ELSE content'[mbx[Entry(r)]] = Current(r)'
    BY DEF OwnEntry, Entry, queuevars
  <2>1. r # s /\ Waiting(r)
    BY <1>5, <1>7 DEF Waiting
  <2>2. mbxstate[Entry(r)] # "done" => mbx[Entry(r)] \in Buffers \ {b}
    BY <1>2, <2>1, EntryOwned DEF ServiceInv
  <2>3. QED
    BY <1>1, <1>5, <2>1, <2>2
       DEF ServiceInv, MailInv, OwnEntry, BufInv, Inv, TypeInv, TypeOK
<1>12. UnsentInv'
  <2> SUFFICES ASSUME NEW i \in Unsent
               PROVE  /\ content'[mbx[i]] \in Messages
                      /\ mbxslave[i] = content'[mbx[i]].to
                      /\ \/ phase'[content'[mbx[i]]] = "failed"
                         \/ \E r \in Senders :
                              /\ Waiting(r)' /\ Entry(r)' = i
                              /\ content'[mbx[i]] = Current(r)'
    BY <1>10 DEF UnsentInv, Unsent, queuevars
  <2>1. mbx[i] \in Buffers \ {b}
    <3>1. i \in Slots /\ mbxstate[i] \in {"req", "fail"}
      BY DEF Unsent, Live, Occupied, ServiceInv, BufInv, Inv, TypeInv, TypeOK,
             EntryInv, QStates
    <3>2. QED
      BY <1>2, <3>1 DEF Unsent, ServiceInv, BufInv, Inv, TypeInv, SlotInv
  <2>2. content'[mbx[i]] = content[mbx[i]]
    BY <1>1, <2>1 DEF ServiceInv, BufInv, Inv, TypeInv, TypeOK
  <2>3. content[mbx[i]] \in Messages /\ mbxslave[i] = content[mbx[i]].to
    BY DEF ServiceInv, MailInv, UnsentInv
  <2>4. CASE phase[content[mbx[i]]] = "failed"
    BY <1>3, <1>6, <2>2, <2>3, <2>4
  <2>5. ASSUME NEW r \in Senders, Waiting(r), Entry(r) = i,
               content[mbx[i]] = Current(r)
        PROVE  Waiting(r)' /\ Entry(r)' = i /\ content[mbx[i]] = Current(r)'
    BY <1>5, <2>5 DEF Waiting, Entry, queuevars
  <2>6. QED
    BY <2>2, <2>3, <2>4, <2>5 DEF ServiceInv, MailInv, UnsentInv
<1>13. ReportInv'
  <2>1. wkc' = wkc /\ accepted' = accepted /\ ~ wkc[s]
    BY DEF ServiceInv, MailInv, ReportInv
  <2>2. QED
    BY <1>5, <2>1 DEF ServiceInv, MailInv, ReportInv
<1>14. OwnSlave'
  BY DEF ServiceInv, MailInv, OwnSlave, queuevars, handlervars
<1>15. QED
  BY <1>4, <1>8, <1>9, <1>11, <1>12, <1>13, <1>14 DEF MailInv

(* A message that enters the queue is that of the thread that waits.       *)
LEMMA AddQueueServes ==
  ASSUME ServiceInv, NEW s \in Senders, AddQueue(s)
  PROVE  ServiceStep /\ MailInv'
<1> USE DEF AddQueue, Goto, HasRoom
<1>1. PICK t \in FreeTickets :
        /\ mbxticket' = [mbxticket EXCEPT ![t] = listhead]
        /\ sticket' = [sticket EXCEPT ![s] = t]
  OBVIOUS
<1>2. t \in Tickets /\ mbxticket[t] = NULL
  BY DEF FreeTickets
<1>3. /\ listhead \in Slots
      /\ listhead \notin Live
      /\ Live' = Live \cup {listhead}
  BY RingPut DEF ServiceInv, BufInv, Inv, TypeInv, QueueRing, Live
<1>4. ServiceStep
  BY DEF ServiceStep, history
<1>5. /\ \A r \in Senders : Current(r)' = Current(r) /\ sto'[r] = sto[r]
      /\ \A r \in Senders \ {s} : spc'[r] = spc[r] /\ sbuf'[r] = sbuf[r]
      /\ spc'[s] = "poll" /\ spc[s] = "enqueue"
  BY DEF Current, ServiceInv, BufInv, Inv, TypeInv, TypeOK
<1>6. /\ Entry(s)' = listhead
      /\ \A r \in Senders \ {s} : Waiting(r) => Entry(r)' = Entry(r)
  <2>1. \A r \in Senders : Waiting(r) => sticket[r] \in Tickets
                                         /\ mbxticket[sticket[r]] # NULL
    BY DEF ServiceInv, BufInv, Inv, TypeInv, SenderInv
  <2>2. QED
    BY <1>1, <1>2, <2>1 DEF Entry, ServiceInv, BufInv, Inv, TypeInv, TypeOK
<1>7. /\ mbxstate'[listhead] = "req" /\ mbx'[listhead] = sbuf[s]
      /\ mbxslave'[listhead] = sto[s]
      /\ \A i \in Live : /\ mbxstate'[i] = mbxstate[i] /\ mbx'[i] = mbx[i]
                         /\ mbxslave'[i] = mbxslave[i]
  BY <1>3 DEF ServiceInv, BufInv, Inv, TypeInv, TypeOK, Live, Occupied
<1>8. content[sbuf[s]] = Current(s) /\ content' = content
  BY DEF ServiceInv, MailInv, InHand, history
<1>9. Current(s) \in Messages /\ Current(s).to = sto[s]
  BY <1>5, CurrentPending DEF ServiceInv, MailInv
<1>10. PhaseInv' /\ InHand' /\ ReportInv'
  <2>1. PhaseInv'
    BY <1>5 DEF ServiceInv, MailInv, PhaseInv, history
  <2>2. InHand'
    BY <1>5, <1>8 DEF ServiceInv, MailInv, InHand
  <2>3. wkc' = wkc /\ accepted' = accepted /\ ~ wkc[s]
    BY DEF ServiceInv, MailInv, ReportInv, history
  <2>4. ReportInv'
    BY <1>5, <2>3 DEF ServiceInv, MailInv, ReportInv
  <2>5. QED
    BY <2>1, <2>2, <2>4
<1>11. OwnEntry'
  <2>1. ASSUME NEW r \in Senders \ {s}, Waiting(r)'
        PROVE  IF mbxstate'[Entry(r)'] = "done"
               THEN Current(r)' \in accepted'
               ELSE content'[mbx'[Entry(r)']] = Current(r)'
    <3>1. Waiting(r)
      BY <1>5, <2>1 DEF Waiting
    <3>2. Entry(r) \in Live
      BY <3>1, EntryOwned DEF ServiceInv
    <3>3. QED
      BY <1>5, <1>6, <1>7, <1>8, <3>1, <3>2
         DEF ServiceInv, MailInv, OwnEntry, history
  <2>2. QED
    BY <1>5, <1>6, <1>7, <1>8, <2>1 DEF OwnEntry
<1>12. UnsentInv'
  <2> SUFFICES ASSUME NEW i \in Unsent'
               PROVE  /\ content'[mbx'[i]] \in Messages
                      /\ mbxslave'[i] = content'[mbx'[i]].to
                      /\ \/ phase'[content'[mbx'[i]]] = "failed"
                         \/ \E r \in Senders :
                              /\ Waiting(r)' /\ Entry(r)' = i
                              /\ content'[mbx'[i]] = Current(r)'
    BY DEF UnsentInv
  <2>1. CASE i = listhead
    BY <1>5, <1>6, <1>7, <1>8, <1>9, <2>1 DEF Waiting
  <2>2. CASE i # listhead
    <3>1. i \in Unsent
      BY <1>3, <1>7, <2>2 DEF Unsent
    <3>2. mbx'[i] = mbx[i] /\ mbxslave'[i] = mbxslave[i] /\ phase' = phase
      BY <1>7, <3>1 DEF Unsent, history
    <3>3. ASSUME NEW r \in Senders, Waiting(r), Entry(r) = i,
                 content[mbx[i]] = Current(r)
          PROVE  Waiting(r)' /\ Entry(r)' = i /\ content[mbx[i]] = Current(r)'
      BY <1>5, <1>6, <3>3 DEF Waiting
    <3>4. QED
      BY <1>8, <3>1, <3>2, <3>3 DEF ServiceInv, MailInv, UnsentInv
  <2>3. QED
    BY <2>1, <2>2
<1>13. OwnSlave'
  <2>1. hpc = "write" => hloc \in Live
    BY TailLive, PoolSizeAssumption
       DEF ServiceInv, BufInv, Inv, TypeInv, HandlerInv, QueueRing, RingShape, Slots
  <2>2. QED
    BY <1>7, <2>1 DEF ServiceInv, MailInv, OwnSlave, handlervars
<1>14. QED
  BY <1>4, <1>10, <1>11, <1>12, <1>13 DEF MailInv

(* A timer that runs out before or after the message was queued.           *)
LEMMA TimeoutServes ==
  ASSUME ServiceInv, NEW s \in Senders, AddQueueTimeout(s) \/ PollTimeout(s)
  PROVE  ServiceStep /\ MailInv'
<1> USE DEF AddQueueTimeout, PollTimeout, Goto
<1>1. /\ UNCHANGED <<queuevars, handlervars, history, sbuf, sticket, sends, sto, wkc>>
      /\ \A r \in Senders \ {s} : spc'[r] = spc[r]
      /\ Waiting(s)' = Waiting(s)
      /\ spc[s] # "idle" /\ spc'[s] \notin {"enqueue", "direct", "retry"}
  BY DEF ServiceInv, BufInv, Inv, TypeInv, TypeOK, Waiting
<1>2. ~ wkc[s]
  BY DEF ServiceInv, MailInv, ReportInv
<1>3. ServiceStep
  BY <1>1 DEF ServiceStep, history
<1>4. PhaseInv' /\ InHand' /\ ReportInv'
  BY <1>1, <1>2 DEF ServiceInv, MailInv, PhaseInv, InHand, ReportInv, Current, history
<1>5. /\ \A r \in Senders : /\ Waiting(r)' = Waiting(r)
                            /\ Entry(r)' = Entry(r) /\ Current(r)' = Current(r)
      /\ Unsent' = Unsent
  BY <1>1 DEF Waiting, Entry, Current, Unsent, Live, Occupied, queuevars
<1>6. OwnEntry' /\ UnsentInv'
  BY <1>1, <1>5 DEF ServiceInv, MailInv, OwnEntry, UnsentInv, queuevars, history
<1>7. OwnSlave'
  BY <1>1 DEF ServiceInv, MailInv, OwnSlave, queuevars, handlervars
<1>8. QED
  BY <1>3, <1>4, <1>6, <1>7 DEF MailInv

(* A call ends: its message is "ok" or "failed" from now on, and an entry  *)
(* that is still to be sent may only be left behind by a failed one.       *)
LEMMA ReturnServes ==
  ASSUME ServiceInv, NEW s \in Senders, NEW p \in {"ok", "failed"},
         spc[s] # "idle", Return(s, p),
         UNCHANGED <<listhead, listtail, listcount, mbx, mbxstate, mbxslave,
                     handlervars, accepted, amiss, content, sends>>,
         p = "ok" => Current(s) \in accepted,
         p = "ok" /\ Waiting(s) => mbxstate[Entry(s)] = "done",
         \A r \in Senders \ {s} : sbuf'[r] = sbuf[r],
         \A r \in Senders \ {s} : Waiting(r) => Entry(r)' = Entry(r)
  PROVE  ServiceStep /\ MailInv'
<1> USE DEF Return, Goto
<1>1. /\ Current(s) \in Messages /\ Current(s).to = sto[s]
      /\ Current(s).from = s /\ Current(s).seq = sends[s]
      /\ phase[Current(s)] = "pending"
  BY CurrentPending DEF ServiceInv, MailInv
<1>2. phase' = [phase EXCEPT ![Current(s)] = p]
  OBVIOUS
<1>3. ServiceStep
  BY <1>1, <1>2 DEF ServiceStep, Service!Next, Service!Succeed, Service!Fail
<1>4. /\ spc'[s] = "idle" /\ ~ wkc'[s]
      /\ \A r \in Senders \ {s} : /\ spc'[r] = spc[r] /\ Current(r)' = Current(r)
                                  /\ wkc'[r] = wkc[r] /\ sto'[r] = sto[r]
  BY DEF Current, ServiceInv, BufInv, Inv, TypeInv, TypeOK
<1>5. /\ phase'[Current(s)] = p
      /\ \A n \in Messages \ {Current(s)} : phase'[n] = phase[n]
  BY <1>1, <1>2 DEF ServiceInv, BufInv, Inv, TypeInv, TypeOK
<1>6. PhaseInv'
  <2>1. ASSUME NEW r \in Senders \ {s}, spc'[r] # "idle"
        PROVE  phase'[Current(r)'] = "pending"
    <3>1. /\ Current(r) \in Messages /\ Current(r).from = r
          /\ phase[Current(r)] = "pending"
      BY <1>4, <2>1, CurrentPending DEF ServiceInv, MailInv
    <3>2. QED
      BY <1>1, <1>4, <1>5, <3>1
  <2>2. ASSUME NEW r \in Senders, NEW n \in Messages, n.from = r, n.seq > sends'[r]
        PROVE  phase'[n] = "unused"
    <3>1. phase[n] = "unused"
      BY <2>2 DEF ServiceInv, MailInv, PhaseInv
    <3>2. QED
      BY <1>1, <1>5, <3>1
  <2>3. QED
    BY <1>4, <2>1, <2>2 DEF PhaseInv
<1>7. InHand' /\ ReportInv'
  BY <1>4 DEF ServiceInv, MailInv, InHand, ReportInv
<1>8. \A r \in Senders : Waiting(r)' => r # s /\ Waiting(r)
  BY <1>4 DEF Waiting
<1>9. OwnEntry'
  BY <1>4, <1>8 DEF ServiceInv, MailInv, OwnEntry
<1>10. UnsentInv'
  <2> SUFFICES ASSUME NEW i \in Unsent
               PROVE  /\ content[mbx[i]] \in Messages
                      /\ mbxslave[i] = content[mbx[i]].to
                      /\ \/ phase'[content[mbx[i]]] = "failed"
                         \/ \E r \in Senders : /\ Waiting(r)' /\ Entry(r)' = i
                                               /\ content[mbx[i]] = Current(r)'
    BY DEF UnsentInv, Unsent, Live, Occupied
  <2>1. content[mbx[i]] \in Messages /\ mbxslave[i] = content[mbx[i]].to
    BY DEF ServiceInv, MailInv, UnsentInv
  <2>2. CASE phase[content[mbx[i]]] = "failed"
    BY <1>1, <1>5, <2>1, <2>2
  <2>3. ASSUME NEW r \in Senders, Waiting(r), Entry(r) = i,
               content[mbx[i]] = Current(r)
        PROVE  \/ phase'[content[mbx[i]]] = "failed"
               \/ Waiting(r)' /\ Entry(r)' = i /\ content[mbx[i]] = Current(r)'
    <3>1. CASE r = s
      BY <1>5, <2>3, <3>1 DEF Unsent
    <3>2. CASE r # s
      BY <1>4, <2>3, <3>2 DEF Waiting
    <3>3. QED
      BY <3>1, <3>2
  <2>4. QED
    BY <2>1, <2>2, <2>3 DEF ServiceInv, MailInv, UnsentInv
<1>11. OwnSlave'
  BY DEF ServiceInv, MailInv, OwnSlave, handlervars
<1>12. QED
  BY <1>3, <1>6, <1>7, <1>9, <1>10, <1>11 DEF MailInv

LEMMA DoneServes ==
  ASSUME ServiceInv, NEW s \in Senders, DoneQueue(s)
  PROVE  ServiceStep /\ MailInv'
<1> USE DEF DoneQueue, IsDone, Surrender
<1>1. Waiting(s) /\ mbxstate[Entry(s)] = "done"
  BY DEF Waiting, Entry
<1>2. Current(s) \in accepted
  BY <1>1 DEF ServiceInv, MailInv, OwnEntry
<1>3. \A r \in Senders \ {s} : Waiting(r) => Entry(r)' = Entry(r)
  BY <1>1, EntryOwned DEF Entry, Return, ServiceInv, BufInv, Inv, TypeInv, TypeOK
<1>4. QED
  BY <1>1, <1>2, <1>3, ReturnServes

LEMMA ExpireServes ==
  ASSUME ServiceInv, NEW s \in Senders, ExpireQueue(s)
  PROVE  ServiceStep /\ MailInv'
<1> USE DEF ExpireQueue, Surrender
<1>1. Waiting(s)
  BY DEF Waiting
<1>2. mbxstate[mbxticket[sticket[s]]] # "none"
  BY <1>1, EntryOwned DEF ServiceInv, Entry
<1>3. \A r \in Senders \ {s} : Waiting(r) => Entry(r)' = Entry(r)
  BY <1>1, <1>2, EntryOwned DEF Entry, Return, ServiceInv, BufInv, Inv, TypeInv, TypeOK
<1>4. QED
  BY <1>1, <1>2, <1>3, ReturnServes

LEMMA ReleaseServes ==
  ASSUME ServiceInv, NEW s \in Senders, Release(s)
  PROVE  ServiceStep /\ MailInv'
<1> USE DEF Release
<1>1. wkc[s] => Current(s) \in accepted
  BY DEF ServiceInv, MailInv, ReportInv
<1>2. \A r \in Senders \ {s} : /\ sbuf'[r] = sbuf[r]
                               /\ Waiting(r) => Entry(r)' = Entry(r)
  BY DEF Entry, Return, queuevars, ServiceInv, BufInv, Inv, TypeInv, TypeOK
<1>3. ~ Waiting(s)
  BY DEF Waiting
<1>4. /\ UNCHANGED <<listhead, listtail, listcount, mbx, mbxstate, mbxslave>>
      /\ UNCHANGED <<handlervars, accepted, amiss, content, sends>>
  BY DEF queuevars
<1>5. CASE wkc[s]
  <2>1. Return(s, "ok")
    BY <1>5
  <2>2. QED
    BY <1>1, <1>2, <1>3, <1>4, <1>5, <2>1, ReturnServes
<1>6. CASE ~ wkc[s]
  <2>1. Return(s, "failed")
    BY <1>6
  <2>2. QED
    BY <1>2, <1>3, <1>4, <2>1, ReturnServes
<1>7. QED
  BY <1>5, <1>6

(* A write to a mailbox puts a message there that is its slave's and not   *)
(* yet accepted, or nothing.                                               *)
LEMMA TransmitServes ==
  ASSUME NEW b \in Buffers, NEW sl, NEW ok \in BOOLEAN, Transmit(b, sl, ok),
         content[b] \in Messages \ accepted, content[b].to = sl,
         phase[content[b]] \in {"pending", "failed"}, UNCHANGED phase
  PROVE  /\ ServiceStep
         /\ accepted \subseteq accepted'
         /\ ok => content[b] \in accepted'
  BY DEF Transmit, ServiceStep, Service!Next, Service!Accept

LEMMA DirectServes ==
  ASSUME ServiceInv, NEW s \in Senders, DirectWrite(s)
  PROVE  ServiceStep /\ MailInv'
<1> USE DEF DirectWrite, Goto
<1>1. PICK ok \in BOOLEAN :
        /\ Transmit(sbuf[s], sto[s], ok)
        /\ wkc' = [wkc EXCEPT ![s] = ok]
        /\ spc' = [spc EXCEPT ![s] =
                     IF ~ ok /\ spc[s] = "direct" THEN "retry" ELSE "release"]
  OBVIOUS
<1>2. /\ sbuf[s] \in Buffers /\ content[sbuf[s]] = Current(s)
      /\ Current(s) \in Messages \ accepted /\ Current(s).to = sto[s]
      /\ phase[Current(s)] = "pending"
  BY CurrentPending
     DEF ServiceInv, BufInv, Inv, TypeInv, SenderInv, MailInv, InHand, FreshInv,
         Holding
<1>3. /\ ServiceStep
      /\ accepted \subseteq accepted'
      /\ ok => Current(s) \in accepted'
  BY <1>1, <1>2, TransmitServes
<1>4. content' = content
  BY <1>1 DEF Transmit
<1>5. /\ \A r \in Senders : /\ Current(r)' = Current(r) /\ sto'[r] = sto[r]
                            /\ Waiting(r)' <=> Waiting(r)
                            /\ Entry(r)' = Entry(r)
      /\ \A r \in Senders \ {s} : spc'[r] = spc[r] /\ wkc'[r] = wkc[r]
      /\ spc'[s] \in {"retry", "release"}
      /\ Unsent' = Unsent
  BY <1>1 DEF Current, Entry, Waiting, Unsent, Live, Occupied, queuevars, ServiceInv,
              BufInv, Inv, TypeInv, TypeOK
<1>6. PhaseInv' /\ InHand'
  BY <1>4, <1>5 DEF ServiceInv, MailInv, PhaseInv, InHand
<1>7. OwnEntry' /\ UnsentInv'
  BY <1>3, <1>4, <1>5
     DEF ServiceInv, MailInv, OwnEntry, UnsentInv, queuevars
<1>8. ReportInv'
  <2>1. wkc'[s] => spc'[s] = "release" /\ Current(s)' \in accepted'
    <3>1. wkc'[s] = ok
      BY <1>1 DEF ServiceInv, BufInv, Inv, TypeInv, TypeOK
    <3>2. ok => spc'[s] = "release"
      BY <1>1 DEF ServiceInv, BufInv, Inv, TypeInv, TypeOK
    <3>3. QED
      BY <1>3, <1>5, <3>1, <3>2
  <2>2. QED
    BY <1>3, <1>5, <2>1 DEF ServiceInv, MailInv, ReportInv
<1>9. OwnSlave'
  BY DEF ServiceInv, MailInv, OwnSlave, queuevars, handlervars
<1>10. QED
  BY <1>3, <1>6, <1>7, <1>8, <1>9 DEF MailInv

(* The handler's steps that move no entry, send nothing and change no      *)
(* state; a buffer may leave a slot whose message is done.                 *)
LEMMA HandlerServes ==
  ASSUME ServiceInv,
         UNCHANGED <<sendervars, history, listhead, listtail, listcount,
                     mbxstate, mbxslave, mbxticket>>,
         UNCHANGED mbx
           \/ (mbxstate[hloc] = "done" /\ mbx' = [mbx EXCEPT ![hloc] = NULL]),
         OwnSlave'
  PROVE  ServiceStep /\ MailInv'
<1>1. ServiceStep
  BY DEF ServiceStep, history
<1>2. /\ \A r \in Senders : /\ Waiting(r)' = Waiting(r)
                            /\ Entry(r)' = Entry(r) /\ Current(r)' = Current(r)
      /\ Unsent' = Unsent
  BY DEF Waiting, Entry, Current, Unsent, Live, Occupied, sendervars
<1>3. PhaseInv' /\ InHand' /\ ReportInv'
  BY DEF ServiceInv, MailInv, PhaseInv, InHand, ReportInv, Current, sendervars,
         history
<1>4. \A i \in Slots : mbxstate[i] # "done" => mbx'[i] = mbx[i]
  BY DEF ServiceInv, BufInv, Inv, TypeInv, TypeOK
<1>5. OwnEntry'
  BY <1>2, <1>4, EntryOwned DEF ServiceInv, MailInv, OwnEntry, sendervars, history
<1>6. UnsentInv'
  BY <1>2, <1>4 DEF ServiceInv, MailInv, UnsentInv, Unsent, Live, Occupied, history
<1>7. QED
  BY <1>1, <1>3, <1>5, <1>6 DEF MailInv

LEMMA QuietServes ==
  ASSUME ServiceInv,
         HandlerStart \/ HandlerEnd \/ HandlerPick \/ HandlerCheck
           \/ HandlerFree \/ HandlerDrain
  PROVE  ServiceStep /\ MailInv'
<1>1. UNCHANGED <<sendervars, history, listhead, listtail, listcount,
                  mbxstate, mbxslave, mbxticket>>
  BY DEF HandlerStart, HandlerEnd, HandlerPick, HandlerCheck, HandlerFree,
         HandlerDrain, queuevars
<1>2. OwnSlave'
  BY DEF HandlerStart, HandlerEnd, HandlerPick, HandlerCheck, HandlerFree,
         HandlerDrain, queuevars, OwnSlave
<1>3. UNCHANGED mbx \/ (mbxstate[hloc] = "done" /\ mbx' = [mbx EXCEPT ![hloc] = NULL])
  BY DEF HandlerStart, HandlerEnd, HandlerPick, HandlerCheck, HandlerFree,
         HandlerDrain, queuevars, ServiceInv, BufInv, Inv, TypeInv, HandlerInv
<1>4. QED
  BY <1>1, <1>2, <1>3, HandlerServes

(* The handler sends the message of the oldest entry. *)
LEMMA WriteServes ==
  ASSUME ServiceInv, HandlerWrite
  PROVE  ServiceStep /\ MailInv'
<1> USE DEF HandlerWrite
<1>1. /\ UNCHANGED <<sendervars, listhead, listtail, listcount, mbx, mbxslave,
                     mbxticket, phase>>
      /\ hpc' # "write"
  OBVIOUS
<1>2. OwnSlave'
  BY <1>1 DEF OwnSlave
<1>3. CASE UNCHANGED <<mbxstate, accepted, amiss, content, misdropped>>
  BY <1>1, <1>2, <1>3, HandlerServes DEF history
<1>4. ASSUME NEW ok \in BOOLEAN, Transmit(hbuf, hslave, ok),
             mbxstate' = [mbxstate EXCEPT ![hloc] = IF ok THEN "done" ELSE "fail"]
      PROVE  ServiceStep /\ MailInv'
  <2>1. hloc \in Live /\ mbxstate[hloc] # "done" /\ hbuf = mbx[hloc]
        /\ hbuf \in Buffers /\ hslave = mbxslave[hloc]
    BY TailLive, PoolSizeAssumption
       DEF ServiceInv, BufInv, Inv, TypeInv, HandlerInv, QueueRing, RingShape, Slots,
           OwnCopy, MailInv, OwnSlave
  <2>2. /\ content[hbuf] \in Messages \ accepted
        /\ content[hbuf].to = hslave
        /\ \/ phase[content[hbuf]] = "failed"
           \/ \E s \in Senders : /\ Waiting(s) /\ Entry(s) = hloc
                                 /\ content[hbuf] = Current(s)
    BY <2>1 DEF ServiceInv, MailInv, UnsentInv, Unsent, FreshInv
  <2>3. phase[content[hbuf]] \in {"pending", "failed"}
    BY <2>2, CurrentPending DEF ServiceInv, MailInv, Waiting
  <2>4. /\ ServiceStep
        /\ accepted \subseteq accepted'
        /\ ok => content[hbuf] \in accepted'
    BY <1>1, <1>4, <2>1, <2>2, <2>3, TransmitServes
  <2>5. content' = content
    BY <1>4 DEF Transmit
  <2>6. /\ \A r \in Senders : /\ Waiting(r)' = Waiting(r)
                              /\ Entry(r)' = Entry(r) /\ Current(r)' = Current(r)
        /\ Live' = Live
    BY <1>1 DEF Waiting, Entry, Current, Live, Occupied, sendervars
  <2>7. /\ mbxstate'[hloc] = (IF ok THEN "done" ELSE "fail")
        /\ \A i \in Slots \ {hloc} : mbxstate'[i] = mbxstate[i]
        /\ hloc \in Slots
    BY <1>4 DEF ServiceInv, BufInv, Inv, TypeInv, TypeOK
  <2>8. PhaseInv' /\ InHand' /\ ReportInv'
    BY <1>1, <2>4, <2>5, <2>6
       DEF ServiceInv, MailInv, PhaseInv, InHand, ReportInv, sendervars
  <2>9. OwnEntry'
    <3> SUFFICES ASSUME NEW r \in Senders, Waiting(r)
                 PROVE  IF mbxstate'[Entry(r)] = "done"
                        THEN Current(r) \in accepted'
                        ELSE content[mbx[Entry(r)]] = Current(r)
      BY <1>1, <2>5, <2>6 DEF OwnEntry, sendervars
    <3>1. CASE Entry(r) = hloc
      <4>1. content[hbuf] = Current(r)
        BY <2>1, <3>1 DEF ServiceInv, MailInv, OwnEntry
      <4>2. Current(r).to = sto[r]
        BY DEF Current
      <4>3. QED
        BY <2>1, <2>2, <2>4, <2>7, <3>1, <4>1, <4>2
    <3>2. CASE Entry(r) # hloc
      <4>1. mbxstate'[Entry(r)] = mbxstate[Entry(r)]
        BY <2>7, <3>2, EntryOwned DEF ServiceInv
      <4>2. QED
        BY <2>4, <4>1 DEF ServiceInv, MailInv, OwnEntry
    <3>3. QED
      BY <3>1, <3>2
  <2>10. UnsentInv'
    <3>1. Unsent' \subseteq Unsent
      BY <2>1, <2>6, <2>7 DEF Unsent, Live, Occupied
    <3>2. QED
      BY <1>1, <2>5, <2>6, <3>1 DEF ServiceInv, MailInv, UnsentInv
  <2>11. QED
    BY <1>2, <2>4, <2>8, <2>9, <2>10 DEF MailInv
<1>5. QED
  BY <1>3, <1>4

(* Rotation takes the entry and its ticket along. *)
LEMMA RotateServes ==
  ASSUME ServiceInv, HandlerRotate
  PROVE  ServiceStep /\ MailInv'
<1> USE DEF HandlerRotate
<1>1. OwnSlave'
  BY DEF OwnSlave
<1>2. CASE UNCHANGED queuevars
  BY <1>1, <1>2, HandlerServes DEF queuevars
<1>3. ASSUME NEW t \in Tickets, mbxticket[t] = hloc, CanRotate, MoveToHead(t)
      PROVE  ServiceStep /\ MailInv'
  <2> USE <1>3 DEF MoveToHead
  <2>1. listcount > 0 /\ hloc = listtail
    BY PoolSizeAssumption
       DEF ServiceInv, BufInv, Inv, TypeInv, HandlerInv, QueueRing, RingShape, Slots
  <2>2. /\ listhead \notin Live
        /\ listtail \in Live
        /\ listhead \in Slots /\ listhead # listtail
        /\ Live' = (Live \cup {listhead}) \ {listtail}
    BY <2>1, RingRotate
       DEF ServiceInv, BufInv, Inv, TypeInv, TypeOK, QueueRing, Live, CanRotate
  <2>3. /\ mbxstate'[listhead] = mbxstate[listtail]
        /\ mbx'[listhead] = mbx[listtail]
        /\ mbxslave'[listhead] = mbxslave[listtail]
        /\ \A i \in Live : /\ mbxstate'[i] = mbxstate[i] /\ mbx'[i] = mbx[i]
                           /\ mbxslave'[i] = mbxslave[i]
    BY <2>2 DEF ServiceInv, BufInv, Inv, TypeInv, TypeOK, Live, Occupied
  <2>4. /\ \A r \in Senders : Waiting(r)' = Waiting(r) /\ Current(r)' = Current(r)
        /\ UNCHANGED <<spc, sto, sends, sbuf, wkc, phase, accepted, amiss, content>>
    BY DEF Waiting, Current, sendervars, history
  <2>5. \A r \in Senders : Waiting(r) =>
          Entry(r)' = IF Entry(r) = listtail THEN listhead ELSE Entry(r)
    <3> SUFFICES ASSUME NEW r \in Senders, Waiting(r)
                 PROVE  Entry(r)' = IF Entry(r) = listtail THEN listhead ELSE Entry(r)
      OBVIOUS
    <3>1. /\ sticket[r] \in Tickets
          /\ \A u \in Tickets : mbxticket[u] = Entry(r) => u = sticket[r]
      BY EntryOwned DEF ServiceInv
    <3>2. sticket'[r] = sticket[r]
      BY DEF sendervars
    <3>3. QED
      BY <2>1, <3>1, <3>2 DEF Entry, ServiceInv, BufInv, Inv, TypeInv, TypeOK
  <2>6. ServiceStep
    BY <2>4 DEF ServiceStep
  <2>7. PhaseInv' /\ InHand' /\ ReportInv'
    BY <2>4 DEF ServiceInv, MailInv, PhaseInv, InHand, ReportInv
  <2>8. OwnEntry'
    <3> SUFFICES ASSUME NEW r \in Senders, Waiting(r)
                 PROVE  IF mbxstate'[Entry(r)'] = "done"
                        THEN Current(r) \in accepted
                        ELSE content[mbx'[Entry(r)']] = Current(r)
      BY <2>4 DEF OwnEntry
    <3>1. Entry(r) \in Live
      BY EntryOwned DEF ServiceInv
    <3>2. /\ mbxstate'[Entry(r)'] = mbxstate[Entry(r)]
          /\ mbx'[Entry(r)'] = mbx[Entry(r)]
      BY <2>3, <2>5, <3>1
    <3>3. QED
      BY <3>2 DEF ServiceInv, MailInv, OwnEntry
  <2>9. UnsentInv'
    <3> SUFFICES ASSUME NEW i \in Unsent'
                 PROVE  /\ content[mbx'[i]] \in Messages
                        /\ mbxslave'[i] = content[mbx'[i]].to
                        /\ \/ phase[content[mbx'[i]]] = "failed"
                           \/ \E r \in Senders : /\ Waiting(r) /\ Entry(r)' = i
                                                 /\ content[mbx'[i]] = Current(r)
      BY <2>4 DEF UnsentInv
    <3> DEFINE old == IF i = listhead THEN listtail ELSE i
    <3>1. /\ old \in Unsent
          /\ mbx'[i] = mbx[old] /\ mbxslave'[i] = mbxslave[old]
      BY <2>2, <2>3 DEF Unsent
    <3>2. ASSUME NEW r \in Senders, Waiting(r), Entry(r) = old
          PROVE  Entry(r)' = i
      BY <2>2, <2>5, <3>2 DEF Unsent
    <3> HIDE DEF old
    <3>3. QED
      BY <3>1, <3>2 DEF ServiceInv, MailInv, UnsentInv
  <2>10. QED
    BY <1>1, <2>6, <2>7, <2>8, <2>9 DEF MailInv
<1>4. QED
  BY <1>2, <1>3

(* An entry that is dropped has no owner any more. *)
LEMMA DropServes ==
  ASSUME ServiceInv, HandlerDrop, ~ misdropped'
  PROVE  ServiceStep /\ MailInv'
<1> USE DEF HandlerDrop
<1>1. /\ hloc = listtail /\ listcount > 0 /\ mbxremove[hloc]
  <2>1. hloc = listtail
    BY Zenon
  <2>2. QED
    BY <2>1 DEF ServiceInv, BufInv, Inv, TypeInv, TypeOK, HandlerInv, VacatedInv
<1>2. Live' = Live \ {hloc}
  BY <1>1, RingTake DEF ServiceInv, BufInv, Inv, TypeInv, QueueRing, Live
<1>3. \A i \in Live' : /\ mbxstate'[i] = mbxstate[i] /\ mbx'[i] = mbx[i]
                       /\ mbxslave'[i] = mbxslave[i]
  BY <1>2 DEF ServiceInv, BufInv, Inv, TypeInv, TypeOK
<1>4. /\ \A r \in Senders : /\ Waiting(r)' = Waiting(r)
                            /\ Entry(r)' = Entry(r) /\ Current(r)' = Current(r)
      /\ UNCHANGED <<spc, sto, sends, sbuf, wkc, phase, accepted, amiss, content>>
  BY DEF Waiting, Entry, Current, sendervars, history
<1>5. ServiceStep
  BY <1>4 DEF ServiceStep
<1>6. PhaseInv' /\ InHand' /\ ReportInv' /\ OwnSlave'
  BY <1>4 DEF ServiceInv, MailInv, PhaseInv, InHand, ReportInv, OwnSlave
<1>7. OwnEntry'
  <2>1. \A r \in Senders : Waiting(r) => Entry(r) \in Live'
    BY <1>1, <1>2, EntryOwned DEF ServiceInv
  <2>2. QED
    BY <1>3, <1>4, <2>1 DEF ServiceInv, MailInv, OwnEntry
<1>8. UnsentInv'
  <2>1. Unsent' \subseteq Unsent
    BY <1>2, <1>3 DEF Unsent
  <2>2. QED
    BY <1>3, <1>4, <2>1 DEF ServiceInv, MailInv, UnsentInv, Unsent
<1>9. QED
  BY <1>5, <1>6, <1>7, <1>8 DEF MailInv

LEMMA StutterServes ==
  ASSUME ServiceInv, UNCHANGED vars
  PROVE  ServiceStep /\ MailInv'
<1>1. UNCHANGED <<sendervars, history, listhead, listtail, listcount,
                  mbxstate, mbxslave, mbxticket, mbx, hpc, hslave, hloc>>
  BY DEF vars, queuevars, handlervars
<1>2. OwnSlave'
  BY <1>1 DEF ServiceInv, MailInv, OwnSlave
<1>3. QED
  BY <1>1, <1>2, HandlerServes

(* No message is sent twice at the same time, or after its acceptance. *)

LEMMA HandNotQueued ==
  ASSUME ServiceInv, NEW s \in Senders, Holding(s), NEW i \in Unsent
  PROVE  content[mbx[i]] # Current(s)
<1> SUFFICES ASSUME content[mbx[i]] = Current(s) PROVE FALSE
  OBVIOUS
<1>1. phase[Current(s)] = "pending" /\ ~ Waiting(s)
  BY CurrentPending DEF ServiceInv, MailInv, Holding, Waiting
<1>2. PICK r \in Senders : Waiting(r) /\ Current(s) = Current(r)
  BY <1>1 DEF ServiceInv, MailInv, UnsentInv
<1>3. r = s
  BY <1>2 DEF Current
<1>4. QED
  BY <1>1, <1>2, <1>3

(* A step that neither sends nor queues anything. *)
LEMMA QuietFresh ==
  ASSUME ServiceInv, accepted' = accepted,
         \A m \in Messages : phase[m] # "unused" => phase'[m] # "unused",
         \A s \in Senders : Holding(s)' => Holding(s) /\ Current(s)' = Current(s),
         Unsent' \subseteq Unsent,
         \A i \in Unsent' : content'[mbx'[i]] = content[mbx[i]]
  PROVE  FreshInv'
<1> USE DEF ServiceInv
<1>1. \A m \in accepted' : m \in Messages /\ phase'[m] # "unused"
  BY DEF FreshInv
<1>2. \A s \in Senders : Holding(s)' => Current(s)' \notin accepted'
  BY DEF FreshInv
<1>3. \A i \in Unsent' : content'[mbx'[i]] \notin accepted'
  BY DEF FreshInv
<1>4. \A i, j \in Unsent' : content'[mbx'[i]] = content'[mbx'[j]] => i = j
  BY DEF FreshInv
<1>5. QED
  BY <1>1, <1>2, <1>3, <1>4 DEF FreshInv

LEMMA CallFresh ==
  ASSUME ServiceInv, NEW s \in Senders, NEW sl \in Slaves, Call(s, sl)
  PROVE  FreshInv'
<1> USE DEF Call, Goto
<1> DEFINE m == [from |-> s, seq |-> sends[s] + 1, to |-> sl]
<1>1. PICK b \in Buffers : /\ GetMbx(b)
                           /\ content' = [content EXCEPT ![b] = m]
  OBVIOUS
<1>2. \A i \in Live : mbx[i] # b
  BY <1>1, FreshBuffer DEF ServiceInv
<1>3. m \in Messages /\ phase[m] = "unused"
  <2>1. sends[s] + 1 \in 1 .. MaxSends[s] /\ sends[s] + 1 > sends[s]
    <3>1. sends[s] \in Nat /\ MaxSends[s] \in Nat /\ sends[s] < MaxSends[s]
      BY QueueAssumption DEF ServiceInv, BufInv, Inv, TypeInv, TypeOK
    <3>2. QED
      BY <3>1
  <2>2. m \in Messages
    BY <2>1, IsMessage
  <2>3. QED
    BY <2>1, <2>2 DEF ServiceInv, MailInv, PhaseInv
<1>4. m \notin accepted /\ accepted' = accepted
  BY <1>3 DEF ServiceInv, FreshInv
<1>5. /\ Current(s)' = m
      /\ \A r \in Senders \ {s} : Current(r)' = Current(r) /\ spc'[r] = spc[r]
  BY DEF Current, ServiceInv, BufInv, Inv, TypeInv, TypeOK
<1>6. /\ phase'[m] = "pending" /\ \A n \in Messages \ {m} : phase'[n] = phase[n]
  BY <1>3 DEF ServiceInv, BufInv, Inv, TypeInv, TypeOK
<1>7. Unsent' = Unsent /\ mbx' = mbx
  BY DEF Unsent, Live, Occupied, queuevars
<1>8. \A i \in Unsent : content'[mbx[i]] = content[mbx[i]]
  BY <1>1, <1>2 DEF Unsent, ServiceInv, BufInv, Inv, TypeInv, TypeOK
<1>9. \A n \in accepted' : n \in Messages /\ phase'[n] # "unused"
  BY <1>4, <1>6 DEF ServiceInv, FreshInv
<1>10. \A r \in Senders : Holding(r)' => Current(r)' \notin accepted'
  BY <1>4, <1>5 DEF ServiceInv, FreshInv, Holding
<1>11. /\ \A i \in Unsent' : content'[mbx'[i]] \notin accepted'
       /\ \A i, j \in Unsent' : content'[mbx'[i]] = content'[mbx'[j]] => i = j
  BY <1>4, <1>7, <1>8 DEF ServiceInv, FreshInv
<1>12. QED
  BY <1>9, <1>10, <1>11 DEF FreshInv

LEMMA AddQueueFresh ==
  ASSUME ServiceInv, NEW s \in Senders, AddQueue(s)
  PROVE  FreshInv'
<1> USE DEF AddQueue, Goto, HasRoom
<1>1. /\ listhead \in Slots
      /\ listhead \notin Live
      /\ Live' = Live \cup {listhead}
  BY RingPut DEF ServiceInv, BufInv, Inv, TypeInv, QueueRing, Live
<1>2. /\ mbx'[listhead] = sbuf[s]
      /\ \A i \in Live : mbxstate'[i] = mbxstate[i] /\ mbx'[i] = mbx[i]
  BY <1>1 DEF ServiceInv, BufInv, Inv, TypeInv, TypeOK, Live, Occupied
<1>3. UNCHANGED <<phase, accepted, content>>
  BY DEF history
<1>4. /\ Holding(s) /\ content[sbuf[s]] = Current(s)
      /\ \A r \in Senders : /\ Current(r)' = Current(r)
                            /\ Holding(r)' => Holding(r)
  BY DEF ServiceInv, BufInv, Inv, TypeInv, TypeOK, MailInv, InHand, Holding,
         Current
<1>5. Unsent' \subseteq Unsent \cup {listhead}
  BY <1>1, <1>2 DEF Unsent
<1>6. \A i \in Unsent : mbx'[i] = mbx[i] /\ content[mbx[i]] # Current(s)
                        /\ i # listhead
  BY <1>1, <1>2, <1>4, HandNotQueued DEF Unsent
<1>7. /\ \A n \in accepted' : n \in Messages /\ phase'[n] # "unused"
      /\ \A r \in Senders : Holding(r)' => Current(r)' \notin accepted'
  BY <1>3, <1>4 DEF ServiceInv, FreshInv
<1>8. \A i \in Unsent' : content'[mbx'[i]] \notin accepted'
  BY <1>2, <1>3, <1>4, <1>5, <1>6 DEF ServiceInv, FreshInv
<1>9. \A i, j \in Unsent' : content'[mbx'[i]] = content'[mbx'[j]] => i = j
  BY <1>2, <1>3, <1>4, <1>5, <1>6 DEF ServiceInv, FreshInv
<1>10. QED
  BY <1>7, <1>8, <1>9 DEF FreshInv

LEMMA DirectFresh ==
  ASSUME ServiceInv, NEW s \in Senders, DirectWrite(s)
  PROVE  FreshInv'
<1> USE DEF DirectWrite, Goto
<1>1. PICK ok \in BOOLEAN :
        /\ Transmit(sbuf[s], sto[s], ok)
        /\ spc' = [spc EXCEPT ![s] =
                     IF ~ ok /\ spc[s] = "direct" THEN "retry" ELSE "release"]
  OBVIOUS
<1>2. /\ Holding(s) /\ content[sbuf[s]] = Current(s)
      /\ Current(s) \in Messages /\ phase[Current(s)] = "pending"
  BY CurrentPending DEF ServiceInv, MailInv, InHand, Holding
<1>3. /\ accepted' = IF ok THEN accepted \cup {Current(s)} ELSE accepted
      /\ content' = content
  BY <1>1, <1>2 DEF Transmit
<1>4. /\ \A r \in Senders : Current(r)' = Current(r)
      /\ \A r \in Senders \ {s} : Holding(r)' = Holding(r)
      /\ ok => ~ Holding(s)'
      /\ Unsent' = Unsent /\ mbx' = mbx
  BY <1>1 DEF Current, Holding, Unsent, Live, Occupied, queuevars, ServiceInv,
              BufInv, Inv, TypeInv, TypeOK
<1>5. \A n \in accepted' : n \in Messages /\ phase'[n] # "unused"
  BY <1>2, <1>3 DEF ServiceInv, FreshInv
<1>6. ASSUME NEW r \in Senders, Holding(r)' PROVE Current(r)' \notin accepted'
  <2>1. Holding(r) /\ Current(r) \notin accepted
    BY <1>2, <1>4, <1>6 DEF ServiceInv, FreshInv
  <2>2. CASE r = s
    BY <1>3, <1>4, <1>6, <2>1, <2>2
  <2>3. CASE r # s
    <3>1. Current(r) # Current(s)
      BY <2>3 DEF Current
    <3>2. QED
      BY <1>3, <1>4, <2>1, <3>1
  <2>4. QED
    BY <2>2, <2>3
<1>7. /\ \A i \in Unsent' : content'[mbx'[i]] \notin accepted'
      /\ \A i, j \in Unsent' : content'[mbx'[i]] = content'[mbx'[j]] => i = j
  BY <1>2, <1>3, <1>4, HandNotQueued DEF ServiceInv, FreshInv
<1>8. QED
  BY <1>5, <1>6, <1>7 DEF FreshInv

LEMMA WriteFresh ==
  ASSUME ServiceInv, HandlerWrite
  PROVE  FreshInv'
<1> USE DEF HandlerWrite
<1>1. hloc \in Unsent /\ hloc \in Slots /\ hbuf = mbx[hloc]
  BY TailLive, PoolSizeAssumption
     DEF ServiceInv, BufInv, Inv, TypeInv, TypeOK, HandlerInv, QueueRing,
         RingShape, Slots, OwnCopy, Unsent
<1>2. /\ \A r \in Senders : Current(r)' = Current(r) /\ Holding(r)' = Holding(r)
      /\ mbx' = mbx /\ phase' = phase /\ Live' = Live
  BY DEF Current, Holding, Live, Occupied, sendervars
<1>3. CASE UNCHANGED <<mbxstate, accepted, amiss, content, misdropped>>
  <2>1. Unsent' = Unsent
    BY <1>2, <1>3 DEF Unsent
  <2>2. QED
    BY <1>2, <1>3, <2>1, QuietFresh
<1>4. ASSUME NEW ok \in BOOLEAN, Transmit(hbuf, hslave, ok),
             mbxstate' = [mbxstate EXCEPT ![hloc] = IF ok THEN "done" ELSE "fail"]
      PROVE  FreshInv'
  <2>1. /\ accepted' = IF ok THEN accepted \cup {content[mbx[hloc]]} ELSE accepted
        /\ content' = content
    BY <1>1, <1>4 DEF Transmit
  <2>2. Unsent' \subseteq Unsent /\ (ok => hloc \notin Unsent')
    BY <1>1, <1>2, <1>4
       DEF Unsent, Live, Occupied, ServiceInv, BufInv, Inv, TypeInv, TypeOK
  <2>3. content[mbx[hloc]] \in Messages
        /\ phase[content[mbx[hloc]]] # "unused"
    BY <1>1, CurrentPending DEF ServiceInv, MailInv, UnsentInv, Waiting
  <2>4. \A n \in accepted' : n \in Messages /\ phase'[n] # "unused"
    BY <1>2, <2>1, <2>3 DEF ServiceInv, FreshInv
  <2>5. \A r \in Senders : Holding(r)' => Current(r)' \notin accepted'
    BY <1>1, <1>2, <2>1, HandNotQueued DEF ServiceInv, FreshInv
  <2>6. \A i \in Unsent' : content'[mbx'[i]] \notin accepted'
    BY <1>1, <1>2, <2>1, <2>2 DEF ServiceInv, FreshInv
  <2>7. \A i, j \in Unsent' : content'[mbx'[i]] = content'[mbx'[j]] => i = j
    BY <1>2, <2>1, <2>2 DEF ServiceInv, FreshInv
  <2>8. QED
    BY <2>4, <2>5, <2>6, <2>7 DEF FreshInv
<1>5. QED
  BY <1>3, <1>4

LEMMA RotateFresh ==
  ASSUME ServiceInv, HandlerRotate
  PROVE  FreshInv'
<1> USE DEF HandlerRotate
<1>1. /\ \A r \in Senders : Current(r)' = Current(r) /\ Holding(r)' = Holding(r)
      /\ UNCHANGED <<accepted, phase, content>>
  BY DEF Current, Holding, sendervars, history
<1>2. CASE UNCHANGED queuevars
  <2>1. Unsent' = Unsent /\ mbx' = mbx
    BY <1>2 DEF Unsent, Live, Occupied, queuevars
  <2>2. QED
    BY <1>1, <2>1, QuietFresh
<1>3. ASSUME NEW t \in Tickets, CanRotate, MoveToHead(t)
      PROVE  FreshInv'
  <2> USE <1>3 DEF MoveToHead
  <2>1. listcount > 0
    BY PoolSizeAssumption
       DEF ServiceInv, BufInv, Inv, TypeInv, HandlerInv, QueueRing, RingShape,
           Slots
  <2>2. /\ listhead \notin Live
        /\ listtail \in Live
        /\ listhead \in Slots /\ listhead # listtail
        /\ Live' = (Live \cup {listhead}) \ {listtail}
    BY <2>1, RingRotate
       DEF ServiceInv, BufInv, Inv, TypeInv, TypeOK, QueueRing, Live, CanRotate
  <2>3. /\ mbxstate'[listhead] = mbxstate[listtail]
        /\ mbx'[listhead] = mbx[listtail]
        /\ \A i \in Live : mbxstate'[i] = mbxstate[i] /\ mbx'[i] = mbx[i]
    BY <2>2 DEF ServiceInv, BufInv, Inv, TypeInv, TypeOK, Live, Occupied
  <2> DEFINE old(i) == IF i = listhead THEN listtail ELSE i
  <2>4. /\ \A i \in Unsent' : old(i) \in Unsent /\ mbx'[i] = mbx[old(i)]
        /\ \A i, j \in Unsent' : old(i) = old(j) => i = j
    BY <2>2, <2>3 DEF Unsent
  <2> HIDE DEF old
  <2>5. /\ \A i \in Unsent' : content'[mbx'[i]] \notin accepted'
        /\ \A i, j \in Unsent' : content'[mbx'[i]] = content'[mbx'[j]] => i = j
    BY <1>1, <2>4 DEF ServiceInv, FreshInv
  <2>6. /\ \A n \in accepted' : n \in Messages /\ phase'[n] # "unused"
        /\ \A r \in Senders : Holding(r)' => Current(r)' \notin accepted'
    BY <1>1 DEF ServiceInv, FreshInv
  <2>7. QED
    BY <2>5, <2>6 DEF FreshInv
<1>4. QED
  BY <1>2, <1>3

(* The steps of a thread that send and queue nothing. *)
LEMMA LeaveFresh ==
  ASSUME ServiceInv, NEW s \in Senders,
         AddQueueTimeout(s) \/ PollTimeout(s) \/ DoneQueue(s)
           \/ ExpireQueue(s) \/ Release(s)
  PROVE  FreshInv'
<1> USE DEF AddQueueTimeout, PollTimeout, DoneQueue, ExpireQueue, Release,
            Surrender, Return, Goto
<1>1. /\ UNCHANGED <<listhead, listtail, listcount, mbx, mbxstate>>
      /\ UNCHANGED <<accepted, content, sends>>
  BY DEF queuevars, history
<1>2. \A r \in Senders : Holding(r)' => Holding(r) /\ Current(r)' = Current(r)
  <2>1. ~ Holding(s)' /\ \A r \in Senders \ {s} : spc'[r] = spc[r] /\ sto'[r] = sto[r]
    BY DEF Holding, ServiceInv, BufInv, Inv, TypeInv, TypeOK
  <2>2. QED
    BY <1>1, <2>1 DEF Holding, Current
<1>3. \A m \in Messages : phase[m] # "unused" => phase'[m] # "unused"
  BY DEF ServiceInv, BufInv, Inv, TypeInv, TypeOK, history
<1>4. Unsent' = Unsent
  BY <1>1 DEF Unsent, Live, Occupied
<1>5. QED
  BY <1>1, <1>2, <1>3, <1>4, QuietFresh

(* The steps of the handler that send and move nothing. *)
LEMMA OthersFresh ==
  ASSUME ServiceInv,
         HandlerStart \/ HandlerEnd \/ HandlerPick \/ HandlerCheck
           \/ HandlerFree \/ HandlerDrain \/ UNCHANGED vars
  PROVE  FreshInv'
<1>1. UNCHANGED <<sendervars, history, listhead, listtail, listcount, mbxstate>>
  BY DEF HandlerStart, HandlerEnd, HandlerPick, HandlerCheck, HandlerFree,
         HandlerDrain, queuevars, vars
<1>2. UNCHANGED mbx \/ (mbxstate[hloc] = "done" /\ mbx' = [mbx EXCEPT ![hloc] = NULL])
  BY DEF HandlerStart, HandlerEnd, HandlerPick, HandlerCheck, HandlerFree,
         HandlerDrain, queuevars, vars, ServiceInv, BufInv, Inv, TypeInv, HandlerInv
<1>3. Unsent' = Unsent /\ \A i \in Unsent : mbx'[i] = mbx[i]
  BY <1>1, <1>2 DEF Unsent, Live, Occupied, ServiceInv, BufInv, Inv, TypeInv, TypeOK
<1>4. \A r \in Senders : Holding(r)' = Holding(r) /\ Current(r)' = Current(r)
  BY <1>1 DEF Holding, Current, sendervars
<1>5. QED
  BY <1>1, <1>3, <1>4, QuietFresh DEF history

LEMMA DropFresh ==
  ASSUME ServiceInv, HandlerDrop, ~ misdropped'
  PROVE  FreshInv'
<1> USE DEF HandlerDrop
<1>1. hloc = listtail
  BY Zenon
<1>2. listcount > 0
  BY DEF ServiceInv, BufInv, Inv, TypeInv, TypeOK, HandlerInv
<1>3. Live' = Live \ {hloc}
  BY <1>1, <1>2, RingTake DEF ServiceInv, BufInv, Inv, TypeInv, QueueRing, Live
<1>4. \A i \in Live' : mbxstate'[i] = mbxstate[i] /\ mbx'[i] = mbx[i]
  BY <1>3 DEF ServiceInv, BufInv, Inv, TypeInv, TypeOK
<1>5. /\ Unsent' \subseteq Unsent
      /\ \A i \in Unsent' : mbx'[i] = mbx[i]
  BY <1>3, <1>4 DEF Unsent
<1>6. /\ \A r \in Senders : Holding(r)' = Holding(r) /\ Current(r)' = Current(r)
      /\ UNCHANGED <<accepted, phase, content>>
  BY DEF Holding, Current, sendervars
<1>7. QED
  BY <1>5, <1>6, QuietFresh

LEMMA NextFresh ==
  ASSUME ServiceInv, [Next]_vars, ~ misdropped'
  PROVE  FreshInv'
<1>1. ASSUME NEW s \in Senders, Sender(s) PROVE FreshInv'
  BY <1>1, QueueAssumption, CallFresh, AddQueueFresh, LeaveFresh, DirectFresh
     DEF Sender
<1>2. CASE Handler
  BY <1>2, OthersFresh, WriteFresh, RotateFresh, DropFresh DEF Handler
<1>3. CASE UNCHANGED vars
  BY <1>3, OthersFresh
<1>4. QED
  BY <1>1, <1>2, <1>3 DEF Next

LEMMA NextServes ==
  ASSUME ServiceInv, [Next]_vars, ~ misdropped'
  PROVE  ServiceStep /\ MailInv'
<1>1. ASSUME NEW s \in Senders, Sender(s) PROVE ServiceStep /\ MailInv'
  BY <1>1, QueueAssumption, CallServes, AddQueueServes, TimeoutServes, DoneServes,
     ExpireServes, DirectServes, ReleaseServes DEF Sender
<1>2. CASE Handler
  BY <1>2, QuietServes, WriteServes, RotateServes, DropServes DEF Handler
<1>3. CASE UNCHANGED vars
  BY <1>3, StutterServes
<1>4. QED
  BY <1>1, <1>2, <1>3 DEF Next

(* A message is put into the mailbox of the slave it is addressed to only, *)
(* and not again once a write of it is confirmed, neither by the handler   *)
(* nor by a thread; and a call that reports success has had a write        *)
(* confirmed: ecx_mbxsend, the queue, the pool and the handler together    *)
(* implement MbxService, until the handler drops a wrong entry.            *)
THEOREM KeepsPromise == Spec => ServiceSpec
<1>1. Init => Service!Init /\ ServiceInv
  <2>1. Init => FreshInv
    BY DEF Init, FreshInv, Holding, Unsent, Live, Occupied
  <2>2. QED
    BY <2>1, InitBufInv, InitMail DEF ServiceInv
<1>2. (ServiceInv \/ misdropped) /\ [Next]_vars => (ServiceInv \/ misdropped)'
  BY NextBufInv, NextServes, NextFresh, StaysMisdropped DEF ServiceInv
<1>3. (ServiceInv \/ misdropped) /\ [Next]_vars
        => [Service!Next \/ misdropped']_(Service!vars)
  BY NextServes, StaysMisdropped DEF ServiceStep, Service!vars
<1>4. QED
  BY <1>1, <1>2, <1>3, PTL DEF Spec, ServiceSpec
=============================================================================
