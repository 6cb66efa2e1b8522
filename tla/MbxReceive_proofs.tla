------------------------- MODULE MbxReceive_proofs -------------------------
(***************************************************************************)
(* The hand-over of mails between ecx_mbxinhandler and the threads in      *)
(* ecx_mbxreceive, for any number of slaves, mails, buffers, lost frames   *)
(* and faults.                                                             *)
(*                                                                         *)
(* Pointer and flag of a slot are accessed without a lock, each by its own *)
(* step.  Inv says for every moment between two such steps what pointer    *)
(* and flag may be, given where the handler and the receiver are: a slot   *)
(* without its flag holds no buffer unless the handler is about to set the *)
(* flag, and a slot with its flag holds one unless its receiver is about   *)
(* to clear it.  TurnInv is about the order of the handler's visits.       *)
(*                                                                         *)
(* LinkInv, at the end, shows that reception implements MailLink: it says  *)
(* for every moment of a read that failed where its repetition stands,     *)
(* between the reader, the registers and the firmware of the slave.        *)
(***************************************************************************)
EXTENDS MbxReceive, FiniteSetTheorems, TLAPS

(* Of four sets, one has one element and the others have none.             *)
JustOne(P, S, Q, D) ==
  \/ (\E i : P = {i}) /\ S = {} /\ Q = {} /\ D = {}
  \/ (\E i : S = {i}) /\ P = {} /\ Q = {} /\ D = {}
  \/ (\E i : Q = {i}) /\ P = {} /\ S = {} /\ D = {}
  \/ (\E i : D = {i}) /\ P = {} /\ S = {} /\ Q = {}

(* No function from a set of numbers to fewer of them is one to one.       *)
LEMMA NoInjectionToFewer ==
  ASSUME NEW f \in [Slots -> Slots], NEW b \in Slots,
         \A i \in Slots : f[i] # b
  PROVE  \E i, j \in Slots : i # j /\ f[i] = f[j]
<1>1. IsFiniteSet(Slots) /\ Cardinality(Slots) = PoolSize
  BY FS_Interval, PoolSizeAssumption DEF Slots
<1>2. IsFiniteSet(Slots \ {b}) /\ Cardinality(Slots \ {b}) = PoolSize - 1
  BY <1>1, FS_RemoveElement
<1>3. f \in [Slots -> Slots \ {b}]
  OBVIOUS
<1>4. Cardinality(Slots \ {b}) < Cardinality(Slots)
  BY <1>1, <1>2, PoolSizeAssumption
<1> HIDE DEF Slots
<1>5. QED
  BY <1>1, <1>2, <1>3, <1>4, FS_PigeonHole

(* While a buffer is elsewhere, and none is in the pool twice, the pool is *)
(* not full.                                                               *)
LEMMA PoolHasRoom ==
  ASSUME PoolTypeOK, PoolRing, NEW b \in Buffers, Pooled(b) = {},
         \A c \in Buffers : \A i, j \in Pooled(c) : i = j
  PROVE  poolcount < PoolSize
<1> SUFFICES ASSUME poolcount >= PoolSize PROVE FALSE
  BY PoolSizeAssumption DEF PoolTypeOK
<1>1. FreeSlots = Slots
  BY PoolSizeAssumption DEF PoolRing, RingShape, FreeSlots, Occupied, Slots
<1>2. mbxemptylist \in [Slots -> Slots] /\ b \in Slots
  BY DEF PoolTypeOK, Slots, Buffers
<1>3. \A i \in Slots : mbxemptylist[i] # b
  BY <1>1 DEF Pooled
<1>4. PICK i \in Slots, j \in Slots : i # j /\ mbxemptylist[i] = mbxemptylist[j]
  BY <1>2, <1>3, NoInjectionToFewer
<1>5. mbxemptylist[i] \in Buffers
  BY <1>2 DEF Slots, Buffers
<1>6. i \in Pooled(mbxemptylist[i]) /\ j \in Pooled(mbxemptylist[i])
  BY <1>1, <1>4 DEF Pooled
<1>7. QED
  BY <1>4, <1>5, <1>6

(* ecx_dropmbx of a buffer the pool has room for. *)
LEMMA PoolPut ==
  ASSUME PoolTypeOK, PoolRing, NEW b \in Buffers, poolcount < PoolSize, DropMbx(b)
  PROVE  /\ PoolRing'
         /\ poolhead \notin Pooled(b)
         /\ Pooled(b)' = Pooled(b) \cup {poolhead}
         /\ \A c \in Buffers \ {b} : Pooled(c)' = Pooled(c)
<1> USE DEF DropMbx
<1> USE PoolSizeAssumption
<1>1. /\ PoolRing'
      /\ poolhead \in Slots
      /\ poolhead \notin FreeSlots
      /\ FreeSlots' = FreeSlots \cup {poolhead}
  <2>1. PoolRing' /\ poolhead \in Slots /\ poolhead \notin FreeSlots
    BY DEF PoolRing, RingShape, Slots, Advance, FreeSlots, Occupied
  <2>2. ASSUME NEW i \in Slots
        PROVE  i \in FreeSlots' <=> i \in FreeSlots \cup {poolhead}
    BY DEF PoolRing, RingShape, Slots, Advance, FreeSlots, Occupied
  <2>3. QED
    BY <2>1, <2>2 DEF FreeSlots, Occupied
<1>2. /\ mbxemptylist'[poolhead] = b
      /\ \A j \in FreeSlots : mbxemptylist'[j] = mbxemptylist[j]
  BY <1>1 DEF PoolTypeOK, FreeSlots, Occupied
<1>3. QED
  BY <1>1, <1>2 DEF Pooled

(* ecx_getmbx takes the buffer at the tail of the free list. *)
LEMMA PoolTake ==
  ASSUME PoolTypeOK, PoolRing, NEW b \in Buffers, GetMbx(b)
  PROVE  /\ PoolRing'
         /\ pooltail \in Pooled(b)
         /\ Pooled(b)' = Pooled(b) \ {pooltail}
         /\ \A c \in Buffers \ {b} : Pooled(c)' = Pooled(c)
<1> USE DEF GetMbx
<1> USE PoolSizeAssumption
<1>1. /\ PoolRing'
      /\ pooltail \in FreeSlots
      /\ FreeSlots' = FreeSlots \ {pooltail}
  <2>1. PoolRing' /\ pooltail \in FreeSlots
    BY DEF PoolRing, RingShape, Slots, Advance, FreeSlots, Occupied
  <2>2. ASSUME NEW i \in Slots
        PROVE  i \in FreeSlots' <=> i \in FreeSlots \ {pooltail}
    BY DEF PoolRing, RingShape, Slots, Advance, FreeSlots, Occupied
  <2>3. QED
    BY <2>1, <2>2 DEF FreeSlots, Occupied
<1>2. QED
  BY <1>1 DEF Pooled
-----------------------------------------------------------------------------

HandlerInv ==
  /\ IF hpc \in {"fetch", "deliver", "drop"} THEN mbx \in Buffers ELSE mbx = NULL
  /\ hpc \in Protocols => /\ ~mbxinfull[lastmbxpos][hpc]
                          /\ mbxin[lastmbxpos][hpc] \in Buffers
                          /\ content[mbxin[lastmbxpos][hpc]].kind = hpc

ReceiverInv ==
  \A s \in Slaves :
    /\ rpc[s] \in {"idle", "poll", "await"} => rbuf[s] = NULL
    /\ rpc[s] \in {"enable", "clear", "own", "sort"} => rbuf[s] \in Buffers
    /\ rpc[s] = "enable" => mbxinfull[s][Slot(s)] /\ mbxin[s][Slot(s)] = rbuf[s]
    /\ rpc[s] = "clear" => mbxinfull[s][Slot(s)] /\ mbxin[s][Slot(s)] = ENABLE

SlotInv ==
  \A s \in Slaves, p \in Protocols :
    ~mbxinfull[s][p] => \/ mbxin[s][p] \in {NULL, ENABLE}
                        \/ hpc = p /\ lastmbxpos = s

(* The four kinds of holders, one by one. *)
Slotted(b)  == {sp \in Slaves \X Protocols : /\ mbxin[sp[1]][sp[2]] = b
                                             /\ ~Copied(sp[1], sp[2])}
Received(b) == {s \in Slaves : rbuf[s] = b}
Handled(b)  == {mbx} \cap {b}

OneHolder(b) == JustOne(Pooled(b), Slotted(b), Received(b), Handled(b))
AllHeld == \A b \in Buffers : OneHolder(b)

RunInv == limitcnt <= cnt /\ (hpc = "serve" => limitcnt < cnt)

BufInv == PoolRing /\ HandlerInv /\ ReceiverInv /\ SlotInv /\ SlotsMatch /\ AllHeld

Inv == TypeOK /\ RunInv /\ BufInv

LEMMA HeldIsConserved == AllHeld => BuffersConserved
<1> SUFFICES ASSUME AllHeld, NEW b \in Buffers PROVE Cardinality(Holders(b)) = 1
  BY DEF BuffersConserved
<1> DEFINE P == Pooled(b)
           S == Slotted(b)
           R == Received(b)
           H == Handled(b)
<1>1. Holders(b) = {<<"pool", i>> : i \in P} \cup {<<"slot", at>> : at \in S}
                   \cup {<<"receiver", s>> : s \in R}
                   \cup {<<"handler", h>> : h \in H}
  BY DEF Holders, Pooled, Slotted, Received, Handled
<1>2. JustOne(P, S, R, H)
  BY DEF AllHeld, OneHolder
<1> HIDE DEF P, S, R, H
<1>3. \E x : Holders(b) = {x}
  <2>1. CASE (\E i : P = {i}) /\ S = {} /\ R = {} /\ H = {}
    <3>1. PICK i : P = {i}
      BY <2>1
    <3>2. Holders(b) = {<<"pool", i>>}
      BY <1>1, <2>1, <3>1
    <3>3. QED
      BY <3>2
  <2>2. CASE (\E i : S = {i}) /\ P = {} /\ R = {} /\ H = {}
    <3>1. PICK i : S = {i}
      BY <2>2
    <3>2. Holders(b) = {<<"slot", i>>}
      BY <1>1, <2>2, <3>1
    <3>3. QED
      BY <3>2
  <2>3. CASE (\E i : R = {i}) /\ P = {} /\ S = {} /\ H = {}
    <3>1. PICK i : R = {i}
      BY <2>3
    <3>2. Holders(b) = {<<"receiver", i>>}
      BY <1>1, <2>3, <3>1
    <3>3. QED
      BY <3>2
  <2>4. CASE (\E i : H = {i}) /\ P = {} /\ S = {} /\ R = {}
    <3>1. PICK i : H = {i}
      BY <2>4
    <3>2. Holders(b) = {<<"handler", i>>}
      BY <1>1, <2>4, <3>1
    <3>3. QED
      BY <3>2
  <2>5. QED
    BY <1>2, <2>1, <2>2, <2>3, <2>4 DEF JustOne
<1>4. QED
  BY <1>3, FS_Singleton

LEMMA SlotIsProtocol ==
  ASSUME TypeOK, NEW s \in Slaves
  PROVE  Slot(s) \in Protocols
<1>1. rpos[s] \in 1 .. 4
  BY DEF TypeOK, FetchOrder
<1>2. QED
  BY <1>1 DEF Slot, FetchOrder, Protocols

LEMMA InitRecv == Init => Inv
<1> SUFFICES ASSUME Init PROVE Inv
  OBVIOUS
<1> USE PoolSizeAssumption, MailAssumption, ReceiveAssumption DEF Init, PoolInit, SlaveInit
<1>1. SlaveTypeOK
  BY DEF SlaveTypeOK
<1>2. PoolTypeOK /\ poolcount \in 0 .. PoolSize
  BY DEF PoolTypeOK, Slots, Buffers
<1>3. mbxin \in [Slaves -> [Protocols -> {NULL, ENABLE}]]
  OBVIOUS
<1>4. TypeOK
  BY <1>1, <1>2, <1>3 DEF TypeOK, Slaves, FetchOrder
<1>5. RunInv
  BY DEF RunInv
<1>6. PoolRing /\ HandlerInv /\ ReceiverInv /\ SlotInv /\ SlotsMatch
  BY <1>3 DEF PoolRing, RingShape, Slots, HandlerInv, ReceiverInv, SlotInv, SlotsMatch,
              Protocols
<1>7. ASSUME NEW b \in Buffers PROVE OneHolder(b)
  <2>1. Pooled(b) = {b}
    <3>1. FreeSlots = Slots
      BY DEF FreeSlots, Occupied, Slots
    <3>2. QED
      BY <3>1 DEF Pooled, Slots, Buffers
  <2>2. b # NULL /\ b # ENABLE
    BY DEF Buffers, NULL, ENABLE
  <2>3. Slotted(b) = {} /\ Received(b) = {} /\ Handled(b) = {}
    BY <1>3, <2>2 DEF Slotted, Received, Handled
  <2>4. QED
    BY <2>1, <2>3 DEF OneHolder, JustOne
<1>8. QED
  BY <1>4, <1>5, <1>6, <1>7 DEF Inv, BufInv, AllHeld
-----------------------------------------------------------------------------
(* Where buffers, slots and flags stay as they are.                        *)

Moving == {"fetch", "deliver", "drop"}
Resting == {"idle", "visit", "serve"}

LEMMA QuietBuffers ==
  ASSUME Inv, UNCHANGED <<poolvars, mbxin, mbxinfull, content, mbx, rbuf>>,
         \/ UNCHANGED <<hpc, lastmbxpos>>
         \/ hpc \in Resting /\ hpc' \in Resting
         \/ hpc \in Moving /\ hpc' \in Moving /\ UNCHANGED lastmbxpos,
         \A s \in Slaves :
           \/ rpc'[s] = rpc[s] /\ rpos'[s] = rpos[s]
           \/ /\ rpc[s] \notin {"enable", "clear"}
              /\ rpc'[s] \notin {"enable", "clear"}
              /\ rpc'[s] \in {"idle", "poll", "await"} => rbuf[s] = NULL
              /\ rpc'[s] \in {"own", "sort"} => rbuf[s] \in Buffers
  PROVE  BufInv'
<1>1. PoolRing'
  BY DEF Inv, BufInv, PoolRing, RingShape, poolvars
<1>2. HandlerInv'
  BY DEF Inv, BufInv, HandlerInv, Moving, Resting, Protocols
<1>3. ReceiverInv'
  BY DEF Inv, BufInv, ReceiverInv, Slot
<1>4. SlotInv' /\ SlotsMatch'
  <2>1. \A s \in Slaves : rpc[s] = "clear" => rpc'[s] = "clear" /\ Slot(s)' = Slot(s)
    BY DEF Slot
  <2>2. SlotsMatch'
    BY <2>1 DEF Inv, BufInv, SlotsMatch
  <2>3. SlotInv'
    BY DEF Inv, BufInv, SlotInv, Moving, Resting, Protocols
  <2>4. QED
    BY <2>2, <2>3
<1>5. ASSUME NEW b \in Buffers PROVE OneHolder(b)'
  <2>1. Pooled(b)' = Pooled(b)
    BY DEF Pooled, FreeSlots, Occupied, poolvars
  <2>2. \A s \in Slaves, p \in Protocols : Copied(s, p)' <=> Copied(s, p)
    BY DEF Copied, Slot
  <2>3. Slotted(b)' = Slotted(b) /\ Received(b)' = Received(b)
        /\ Handled(b)' = Handled(b)
    BY <2>2 DEF Slotted, Received, Handled
  <2>4. QED
    BY <2>1, <2>3 DEF Inv, BufInv, AllHeld, OneHolder
<1>6. QED
  BY <1>1, <1>2, <1>3, <1>4, <1>5 DEF BufInv, AllHeld, Buffers

(* No slot in use points to a buffer that the handler or a receiver has.   *)
LEMMA NotInSlots ==
  ASSUME Inv, NEW b \in Buffers,
         \/ mbx = b
         \/ \E r \in Slaves : rbuf[r] = b /\ rpc[r] # "enable"
  PROVE  \A s \in Slaves, p \in Protocols : mbxin[s][p] # b
<1> SUFFICES ASSUME NEW s \in Slaves, NEW p \in Protocols, mbxin[s][p] = b
             PROVE  FALSE
  OBVIOUS
<1>1. OneHolder(b)
  BY DEF Inv, BufInv, AllHeld
<1>2. Handled(b) # {} \/ \E r \in Slaves : r \in Received(b) /\ rpc[r] # "enable"
  BY DEF Handled, Received
<1>3. CASE Copied(s, p)
  <2>1. s \in Received(b) /\ rpc[s] = "enable"
    BY <1>3 DEF Copied, Received, Inv, BufInv, ReceiverInv
  <2>2. QED
    BY <1>1, <1>2, <2>1 DEF OneHolder, JustOne
<1>4. CASE ~Copied(s, p)
  <2>1. <<s, p>> \in Slotted(b)
    BY <1>4 DEF Slotted
  <2>2. QED
    BY <1>1, <1>2, <2>1 DEF OneHolder, JustOne
<1>5. QED
  BY <1>3, <1>4

(* A mail is read into a buffer of the handler or of a receiver.           *)
LEMMA FillBuffer ==
  ASSUME Inv, NEW b \in Buffers, NEW mail, content' = [content EXCEPT ![b] = mail],
         UNCHANGED <<poolvars, mbxin, mbxinfull, mbx, rbuf, rpos, lastmbxpos>>,
         \/ /\ hpc = "fetch" /\ hpc' = "deliver" /\ mbx = b
            /\ UNCHANGED rpc
         \/ \E r \in Slaves : /\ rbuf[r] = b /\ rpc[r] = "read"
                              /\ rpc' = [rpc EXCEPT ![r] = "sort"]
                              /\ UNCHANGED hpc
  PROVE  BufInv'
<1>1. \A s \in Slaves, p \in Protocols : mbxin[s][p] # b
  BY NotInSlots
<1>2. \A c \in Buffers \ {b} : content'[c] = content[c]
  BY DEF Inv, TypeOK
<1>3. PoolRing'
  BY DEF Inv, BufInv, PoolRing, RingShape, poolvars
<1>4. HandlerInv'
  <2>1. hpc' \in Protocols => hpc = hpc'
    BY DEF Protocols
  <2>2. lastmbxpos \in Slaves
    BY DEF Inv, TypeOK
  <2>3. QED
    BY <1>1, <1>2, <2>1, <2>2 DEF Inv, BufInv, HandlerInv
<1>5. ReceiverInv'
  <2> SUFFICES ASSUME NEW s \in Slaves PROVE
        /\ rpc'[s] \in {"idle", "poll", "await"} => rbuf[s] = NULL
        /\ rpc'[s] \in {"enable", "clear", "own", "sort"} => rbuf[s] \in Buffers
        /\ rpc'[s] = "enable" => mbxinfull[s][Slot(s)] /\ mbxin[s][Slot(s)] = rbuf[s]
        /\ rpc'[s] = "clear" => mbxinfull[s][Slot(s)] /\ mbxin[s][Slot(s)] = ENABLE
    <3>1. \A s \in Slaves : Slot(s)' = Slot(s)
      BY DEF Slot
    <3>2. QED
      BY <3>1 DEF ReceiverInv
  <2>1. rpc'[s] = rpc[s] \/ (rpc'[s] = "sort" /\ rbuf[s] = b)
    BY DEF Inv, TypeOK
  <2>2. QED
    BY <2>1 DEF Inv, BufInv, ReceiverInv
<1>6. SlotInv' /\ SlotsMatch'
  <2>1. \A s \in Slaves : /\ rpc'[s] = "clear" <=> rpc[s] = "clear"
                          /\ Slot(s)' = Slot(s)
    BY DEF Inv, TypeOK, Slot
  <2>2. SlotsMatch'
    BY <1>1, <1>2, <2>1 DEF Inv, BufInv, SlotsMatch
  <2>3. SlotInv'
    BY DEF Inv, BufInv, SlotInv, Protocols
  <2>4. QED
    BY <2>2, <2>3
<1>7. ASSUME NEW c \in Buffers PROVE OneHolder(c)'
  <2>1. Pooled(c)' = Pooled(c)
    BY DEF Pooled, FreeSlots, Occupied, poolvars
  <2>2. \A s \in Slaves, p \in Protocols : Copied(s, p)' <=> Copied(s, p)
    BY DEF Copied, Slot, Inv, TypeOK
  <2>3. Slotted(c)' = Slotted(c) /\ Received(c)' = Received(c)
        /\ Handled(c)' = Handled(c)
    BY <2>2 DEF Slotted, Received, Handled
  <2>4. QED
    BY <2>1, <2>3 DEF Inv, BufInv, AllHeld, OneHolder
<1>8. QED
  BY <1>3, <1>4, <1>5, <1>6, <1>7 DEF BufInv, AllHeld, Buffers
-----------------------------------------------------------------------------
(* Where a buffer changes hands. *)

LEMMA RoomForBuffer ==
  ASSUME Inv, NEW b \in Buffers, Pooled(b) = {}
  PROVE  poolcount < PoolSize
<1>1. \A c \in Buffers : \A i, j \in Pooled(c) : i = j
  BY DEF Inv, BufInv, AllHeld, OneHolder, JustOne
<1>2. QED
  BY <1>1, PoolHasRoom DEF Inv, TypeOK, BufInv

(* A buffer is taken from the pool, by the handler or by a receiver. *)
LEMMA TakeBuffers ==
  ASSUME Inv, NEW b \in Buffers, GetMbx(b),
         UNCHANGED <<mbxin, mbxinfull, content, rpos, lastmbxpos>>,
         \/ /\ hpc = "serve" /\ hpc' = "fetch" /\ mbx' = b
            /\ UNCHANGED <<rpc, rbuf>>
         \/ \E r \in Slaves : /\ rpc[r] = "await" /\ rbuf' = [rbuf EXCEPT ![r] = b]
                              /\ rpc' = [rpc EXCEPT ![r] = "read"]
                              /\ UNCHANGED <<mbx, hpc>>
  PROVE  BufInv'
<1>1. /\ PoolRing'
      /\ pooltail \in Pooled(b)
      /\ Pooled(b)' = Pooled(b) \ {pooltail}
      /\ \A c \in Buffers \ {b} : Pooled(c)' = Pooled(c)
  BY PoolTake DEF Inv, TypeOK, BufInv
<1>2. HandlerInv'
  BY DEF Inv, BufInv, HandlerInv, Protocols
<1>3. \A s \in Slaves : /\ rpc'[s] = "clear" <=> rpc[s] = "clear"
                        /\ rpc'[s] = "enable" <=> rpc[s] = "enable"
                        /\ Slot(s)' = Slot(s)
  BY DEF Inv, TypeOK, Slot
<1>4. ReceiverInv'
  <2> SUFFICES ASSUME NEW s \in Slaves PROVE
        /\ rpc'[s] \in {"idle", "poll", "await"} => rbuf'[s] = NULL
        /\ rpc'[s] \in {"enable", "clear", "own", "sort"} => rbuf'[s] \in Buffers
        /\ rpc'[s] = "enable" => mbxinfull[s][Slot(s)] /\ mbxin[s][Slot(s)] = rbuf'[s]
        /\ rpc'[s] = "clear" => mbxinfull[s][Slot(s)] /\ mbxin[s][Slot(s)] = ENABLE
    BY <1>3 DEF ReceiverInv
  <2>1. CASE rpc'[s] = rpc[s] /\ rbuf'[s] = rbuf[s]
    BY <2>1 DEF Inv, BufInv, ReceiverInv
  <2>2. CASE rpc'[s] = "read"
    BY <2>2
  <2>3. QED
    BY <2>1, <2>2 DEF Inv, TypeOK
<1>5. SlotInv' /\ SlotsMatch'
  BY <1>3 DEF Inv, BufInv, SlotInv, SlotsMatch, Protocols
<1>6. NULL \notin Buffers
  BY DEF Buffers, NULL
<1>7. ASSUME NEW c \in Buffers PROVE OneHolder(c)'
  <2>1. OneHolder(c)
    BY DEF Inv, BufInv, AllHeld
  <2>2. Slotted(c)' = Slotted(c)
    BY <1>3 DEF Slotted, Copied
  <2>3. CASE c = b
    <3>1. /\ Pooled(c) = {pooltail} /\ Slotted(c) = {}
          /\ Received(c) = {} /\ Handled(c) = {}
      BY <1>1, <2>1, <2>3 DEF OneHolder, JustOne
    <3>2. Pooled(c)' = {}
      BY <1>1, <2>3, <3>1
    <3>3. CASE hpc = "serve" /\ hpc' = "fetch" /\ mbx' = b /\ UNCHANGED <<rpc, rbuf>>
      <4>1. Handled(c)' = {b} /\ Received(c)' = {}
        BY <2>3, <3>1, <3>3 DEF Handled, Received
      <4>2. QED
        BY <2>2, <3>1, <3>2, <4>1 DEF OneHolder, JustOne
    <3>4. ASSUME NEW r \in Slaves, rbuf' = [rbuf EXCEPT ![r] = b], UNCHANGED mbx
          PROVE  OneHolder(c)'
      <4>1. Received(c)' = {r} /\ Handled(c)' = {}
        BY <2>3, <3>1, <3>4 DEF Handled, Received, Inv, TypeOK
      <4>2. QED
        BY <2>2, <3>1, <3>2, <4>1 DEF OneHolder, JustOne
    <3>5. QED
      BY <3>3, <3>4
  <2>4. CASE c # b
    <3>1. Handled(c)' = Handled(c)
      BY <1>6, <2>4 DEF Handled, Inv, BufInv, HandlerInv
    <3>2. Received(c)' = Received(c)
      BY <1>6, <2>4 DEF Received, Inv, TypeOK, BufInv, ReceiverInv
    <3>3. QED
      BY <1>1, <2>1, <2>2, <2>4, <3>1, <3>2 DEF OneHolder
  <2>5. QED
    BY <2>3, <2>4
<1>8. QED
  BY <1>1, <1>2, <1>4, <1>5, <1>7 DEF BufInv, AllHeld, Buffers

(* The handler, or a receiver, returns its buffer to the pool. *)
LEMMA ReturnBuffers ==
  ASSUME Inv, NEW b \in Buffers, DropMbx(b),
         UNCHANGED <<mbxin, mbxinfull, content, lastmbxpos>>,
         \/ /\ hpc = "drop" /\ hpc' = "visit" /\ mbx = b /\ mbx' = NULL
            /\ UNCHANGED <<rpc, rpos, rbuf>>
         \/ \E r \in Slaves :
              /\ rbuf[r] = b /\ rbuf' = [rbuf EXCEPT ![r] = NULL]
              /\ rpc[r] \notin {"enable", "clear"}
              /\ \E next \in {"idle", "read"} : rpc' = [rpc EXCEPT ![r] = next]
              /\ \A s \in Slaves \ {r} : rpos'[s] = rpos[s]
              /\ UNCHANGED <<mbx, hpc>>
  PROVE  BufInv'
<1>1. NULL \notin Buffers
  BY DEF Buffers, NULL
<1>2. OneHolder(b) /\ (Handled(b) # {} \/ Received(b) # {})
  BY DEF Inv, BufInv, AllHeld, Handled, Received
<1>3. Pooled(b) = {} /\ Slotted(b) = {}
  BY <1>2 DEF OneHolder, JustOne
<1>4. poolcount < PoolSize
  BY <1>3, RoomForBuffer
<1>5. /\ PoolRing'
      /\ Pooled(b)' = {poolhead}
      /\ \A c \in Buffers \ {b} : Pooled(c)' = Pooled(c)
  BY <1>3, <1>4, PoolPut DEF Inv, TypeOK, BufInv
<1>6. HandlerInv'
  BY DEF Inv, BufInv, HandlerInv, Protocols
<1>7. \A s \in Slaves : /\ rpc'[s] = "clear" <=> rpc[s] = "clear"
                        /\ rpc'[s] = "enable" <=> rpc[s] = "enable"
                        /\ rpc[s] \in {"clear", "enable"} => Slot(s)' = Slot(s)
  BY DEF Inv, TypeOK, Slot
<1>8. ReceiverInv'
  <2> SUFFICES ASSUME NEW s \in Slaves PROVE
        /\ rpc'[s] \in {"idle", "poll", "await"} => rbuf'[s] = NULL
        /\ rpc'[s] \in {"enable", "clear", "own", "sort"} => rbuf'[s] \in Buffers
        /\ rpc'[s] = "enable" => mbxinfull[s][Slot(s)] /\ mbxin[s][Slot(s)] = rbuf'[s]
        /\ rpc'[s] = "clear" => mbxinfull[s][Slot(s)] /\ mbxin[s][Slot(s)] = ENABLE
    BY <1>7 DEF ReceiverInv
  <2>1. CASE rpc'[s] = rpc[s] /\ rbuf'[s] = rbuf[s]
    BY <2>1 DEF Inv, BufInv, ReceiverInv
  <2>2. CASE rpc'[s] \in {"idle", "read"} /\ rbuf'[s] = NULL
    BY <2>2
  <2>3. \/ rpc'[s] = rpc[s] /\ rbuf'[s] = rbuf[s]
        \/ rpc'[s] \in {"idle", "read"} /\ rbuf'[s] = NULL
    BY SMTT(30) DEF Inv, TypeOK
  <2>4. QED
    BY <2>1, <2>2, <2>3
<1>9. SlotInv' /\ SlotsMatch'
  BY <1>7 DEF Inv, BufInv, SlotInv, SlotsMatch, Protocols
<1>10. ASSUME NEW c \in Buffers PROVE OneHolder(c)'
  <2>1. OneHolder(c)
    BY DEF Inv, BufInv, AllHeld
  <2>2. Slotted(c)' = Slotted(c)
    BY <1>7 DEF Slotted, Copied
  <2>3. CASE c = b
    <3>1. Handled(c)' = {} /\ Received(c)' = {}
      <4>1. CASE mbx = b /\ mbx' = NULL /\ UNCHANGED rbuf
        <5>1. Handled(b) = {b}
          BY <4>1 DEF Handled
        <5>2. Received(b) = {}
          BY <1>2, <5>1 DEF OneHolder, JustOne
        <5>3. QED
          BY <1>1, <2>3, <4>1, <5>2 DEF Handled, Received
      <4>2. ASSUME NEW r \in Slaves, rbuf[r] = b, rbuf' = [rbuf EXCEPT ![r] = NULL],
                   UNCHANGED mbx
            PROVE  Handled(c)' = {} /\ Received(c)' = {}
        <5>1. r \in Received(b)
          BY <4>2 DEF Received
        <5>2. Received(b) = {r} /\ Handled(b) = {}
          BY <1>2, <5>1 DEF OneHolder, JustOne
        <5>3. QED
          <6>1. Handled(c)' = {}
            BY <2>3, <4>2, <5>2 DEF Handled
          <6>2. \A t \in Slaves : rbuf'[t] # b
            BY <1>1, <4>2, <5>2, SMTT(30) DEF Received, Inv, TypeOK
          <6>3. QED
            BY <2>3, <6>1, <6>2 DEF Received
      <4>3. QED
        BY <4>1, <4>2
    <3>2. QED
      BY <1>3, <1>5, <2>2, <2>3, <3>1 DEF OneHolder, JustOne
  <2>4. CASE c # b
    <3>1. Handled(c)' = Handled(c) /\ Received(c)' = Received(c)
      BY <1>1, <2>4 DEF Handled, Received, Inv, TypeOK
    <3>2. QED
      BY <1>5, <2>1, <2>2, <2>4, <3>1 DEF OneHolder
  <2>5. QED
    BY <2>3, <2>4
<1>11. QED
  BY <1>5, <1>6, <1>8, <1>9, <1>10 DEF BufInv, AllHeld, Buffers
-----------------------------------------------------------------------------
(* The steps of the hand-over itself. *)

(* The handler is to deliver a mail: a slot of its slave that is free holds *)
(* no buffer.                                                              *)
LEMMA HandOverBuffers ==
  ASSUME Inv, HandOver
  PROVE  BufInv'
<1> DEFINE s == lastmbxpos
           q == content[mbx].kind
           b == mbx
<1>1. /\ s \in Slaves /\ q \in Protocols /\ b \in Buffers
      /\ mbxin[s][q] = ENABLE /\ ~mbxinfull[s][q]
      /\ hpc = "deliver" /\ hpc' = q
  <2>1. hpc = "deliver" /\ hpc' = q /\ q \in Protocols /\ SlotFree(s, q)
    BY DEF HandOver, Deliver
  <2>2. s \in Slaves /\ b \in Buffers
    BY <2>1 DEF Inv, TypeOK, BufInv, HandlerInv
  <2>3. mbxin[s][q] \in {NULL, ENABLE}
    BY <2>1, <2>2 DEF Inv, BufInv, SlotInv, SlotFree, Protocols
  <2>4. QED
    BY <2>1, <2>2, <2>3 DEF SlotFree
<1>2. /\ mbxin' = [mbxin EXCEPT ![s][q] = b]
      /\ mbx' = NULL
      /\ UNCHANGED <<poolvars, mbxinfull, content, lastmbxpos, rpc, rpos, rbuf>>
  BY DEF HandOver, Deliver, recvvars
<1>3. b \notin {NULL, ENABLE}
  BY <1>1 DEF Buffers, NULL, ENABLE
<1> HIDE DEF s, q, b
<1>4. \A t \in Slaves, p \in Protocols :
         mbxin'[t][p] = IF t = s /\ p = q THEN b ELSE mbxin[t][p]
  BY <1>1, <1>2 DEF Inv, TypeOK
<1>5. PoolRing'
  BY <1>2 DEF Inv, BufInv, PoolRing, RingShape, poolvars
<1>6. HandlerInv'
  BY <1>1, <1>2, <1>4 DEF HandlerInv, Protocols, s, q, b
<1>7. ASSUME NEW t \in Slaves
      PROVE  /\ Slot(t)' = Slot(t) /\ Slot(t) \in Protocols
             /\ mbxinfull[t][Slot(t)] => ~(t = s /\ Slot(t) = q)
  BY <1>1, <1>2, SlotIsProtocol DEF Inv, Slot
<1>8. ReceiverInv'
  BY <1>2, <1>4, <1>7 DEF Inv, BufInv, ReceiverInv
<1>9. SlotInv' /\ SlotsMatch'
  <2> SUFFICES ASSUME NEW t \in Slaves, NEW p \in Protocols
               PROVE  /\ ~mbxinfull'[t][p] => \/ mbxin'[t][p] \in {NULL, ENABLE}
                                              \/ hpc' = p /\ lastmbxpos' = t
                      /\ mbxinfull'[t][p] =>
                           \/ /\ mbxin'[t][p] \in Buffers
                              /\ content'[mbxin'[t][p]].kind = p
                           \/ rpc'[t] = "clear" /\ p = Slot(t)'
    BY DEF SlotInv, SlotsMatch, Buffers
  <2>1. CASE t = s /\ p = q
    BY <1>1, <1>2, <1>4, <1>7, <2>1 DEF s, q
  <2>2. CASE ~(t = s /\ p = q)
    BY <1>1, <1>2, <1>4, <1>7, <2>2 DEF Inv, BufInv, SlotInv, SlotsMatch, Protocols
  <2>3. QED
    BY <2>1, <2>2
<1>10. ASSUME NEW t \in Slaves, NEW p \in Protocols
       PROVE  Copied(t, p)' <=> Copied(t, p)
  BY <1>2 DEF Copied, Slot
<1>11. ~Copied(s, q)
  BY <1>1, <1>7 DEF Copied, Inv, BufInv, ReceiverInv
<1>12. ASSUME NEW c \in Buffers PROVE OneHolder(c)'
  <2>1. OneHolder(c)
    BY DEF Inv, BufInv, AllHeld
  <2>2. Pooled(c)' = Pooled(c) /\ Received(c)' = Received(c)
    BY <1>2 DEF Pooled, FreeSlots, Occupied, poolvars, Received
  <2>3. CASE c = b
    <3>1. Handled(c) = {b} /\ Handled(c)' = {}
      BY <1>2, <1>3, <2>3 DEF Handled, b
    <3>2. Pooled(c) = {} /\ Received(c) = {} /\ Slotted(c) = {}
      BY <2>1, <3>1 DEF OneHolder, JustOne
    <3>3. Slotted(c)' = {<<s, q>>}
      BY <1>1, <1>4, <1>10, <1>11, <2>3, <3>2 DEF Slotted
    <3>4. QED
      BY <2>2, <3>1, <3>2, <3>3 DEF OneHolder, JustOne
  <2>4. CASE c # b
    <3>1. Handled(c)' = {} /\ Handled(c) = {}
      BY <1>2, <2>4 DEF Handled, b, Buffers, NULL
    <3>2. c # ENABLE
      BY DEF Buffers, ENABLE
    <3>3. Slotted(c)' = Slotted(c)
      BY <1>1, <1>4, <1>10, <2>4, <3>2 DEF Slotted, s, q
    <3>4. QED
      BY <2>1, <2>2, <3>1, <3>3 DEF OneHolder
  <2>5. QED
    BY <2>3, <2>4
<1>13. QED
  BY <1>5, <1>6, <1>8, <1>9, <1>12 DEF BufInv, AllHeld, Buffers

(* The handler sets the flag of the slot it has filled.                    *)
LEMMA PublishBuffers ==
  ASSUME Inv, Publish
  PROVE  BufInv'
<1> DEFINE s == lastmbxpos
           q == hpc
<1>1. /\ s \in Slaves /\ q \in Protocols /\ hpc' = "visit"
      /\ mbxinfull' = [mbxinfull EXCEPT ![s][q] = TRUE]
      /\ UNCHANGED <<poolvars, mbxin, content, mbx, lastmbxpos, rpc, rpos, rbuf>>
  BY DEF Inv, TypeOK, Publish, recvvars
<1>2. /\ mbx = NULL /\ ~mbxinfull[s][q]
      /\ mbxin[s][q] \in Buffers /\ content[mbxin[s][q]].kind = q
  BY <1>1 DEF Inv, BufInv, HandlerInv, Protocols
<1>3. \A t \in Slaves, p \in Protocols :
         mbxinfull'[t][p] = IF t = s /\ p = q THEN TRUE ELSE mbxinfull[t][p]
  BY <1>1 DEF Inv, TypeOK
<1> HIDE DEF s, q
<1>4. PoolRing'
  BY <1>1 DEF Inv, BufInv, PoolRing, RingShape, poolvars
<1>5. HandlerInv'
  BY <1>1, <1>2 DEF HandlerInv, Protocols
<1>6. ASSUME NEW t \in Slaves
      PROVE  Slot(t)' = Slot(t) /\ Slot(t) \in Protocols
  BY <1>1, SlotIsProtocol DEF Inv, Slot
<1>7. ReceiverInv'
  BY <1>1, <1>3, <1>6 DEF Inv, BufInv, ReceiverInv
<1>8. SlotInv' /\ SlotsMatch'
  <2> SUFFICES ASSUME NEW t \in Slaves, NEW p \in Protocols
               PROVE  /\ ~mbxinfull'[t][p] => \/ mbxin'[t][p] \in {NULL, ENABLE}
                                              \/ hpc' = p /\ lastmbxpos' = t
                      /\ mbxinfull'[t][p] =>
                           \/ /\ mbxin'[t][p] \in Buffers
                              /\ content'[mbxin'[t][p]].kind = p
                           \/ rpc'[t] = "clear" /\ p = Slot(t)'
    BY DEF SlotInv, SlotsMatch, Buffers
  <2>1. CASE t = s /\ p = q
    BY <1>1, <1>2, <1>3, <1>6, <2>1 DEF s, q
  <2>2. CASE ~(t = s /\ p = q)
    BY <1>1, <1>2, <1>3, <1>6, <2>2 DEF Inv, BufInv, SlotInv, SlotsMatch, Protocols, s, q
  <2>3. QED
    BY <2>1, <2>2
<1>9. ASSUME NEW c \in Buffers PROVE OneHolder(c)'
  <2>1. \A t \in Slaves, p \in Protocols : Copied(t, p)' <=> Copied(t, p)
    BY <1>1 DEF Copied, Slot
  <2>2. /\ Pooled(c)' = Pooled(c) /\ Received(c)' = Received(c)
        /\ Slotted(c)' = Slotted(c) /\ Handled(c)' = Handled(c)
    BY <1>1, <2>1 DEF Pooled, FreeSlots, Occupied, poolvars, Received, Slotted, Handled
  <2>3. QED
    BY <2>2 DEF Inv, BufInv, AllHeld, OneHolder
<1>10. QED
  BY <1>4, <1>5, <1>7, <1>8, <1>9 DEF BufInv, AllHeld, Buffers

(* A receiver copies the pointer of a slot with its flag set.              *)
LEMMA TakeMailBuffers ==
  ASSUME Inv, NEW r \in Slaves, TakeMail(r)
  PROVE  BufInv'
<1> DEFINE q == Slot(r)
           b == mbxin[r][q]
<1>1. /\ rpc[r] = "poll" /\ rpc' = [rpc EXCEPT ![r] = "enable"]
      /\ mbxinfull[r][q] /\ rbuf' = [rbuf EXCEPT ![r] = b]
      /\ UNCHANGED <<poolvars, mbxin, mbxinfull, content, mbx, hpc, lastmbxpos, rpos>>
  BY DEF TakeMail, Receiver, handlervars
<1>2. q \in Protocols
  BY SlotIsProtocol DEF Inv
<1>3. b \in Buffers /\ rbuf[r] = NULL
  BY <1>1, <1>2 DEF Inv, BufInv, SlotsMatch, ReceiverInv
<1>4. \A t \in Slaves : /\ rpc'[t] = IF t = r THEN "enable" ELSE rpc[t]
                        /\ rbuf'[t] = IF t = r THEN b ELSE rbuf[t]
                        /\ Slot(t)' = Slot(t)
  BY <1>1 DEF Inv, TypeOK, Slot
<1>5. mbxin[r][q] = b
  OBVIOUS
<1>6. NULL \notin Buffers
  BY DEF Buffers, NULL
<1> HIDE DEF q, b
<1>7. PoolRing' /\ HandlerInv'
  BY <1>1 DEF Inv, BufInv, PoolRing, RingShape, poolvars, HandlerInv
<1>8. ReceiverInv'
  BY <1>1, <1>3, <1>4, <1>5 DEF Inv, BufInv, ReceiverInv, q
<1>9. SlotInv' /\ SlotsMatch'
  BY <1>1, <1>4 DEF Inv, BufInv, SlotInv, SlotsMatch
<1>10. ASSUME NEW t \in Slaves, NEW p \in Protocols
       PROVE  Copied(t, p)' <=> Copied(t, p) \/ (t = r /\ p = q)
  BY <1>1, <1>4 DEF Copied, q
<1>11. ASSUME NEW c \in Buffers PROVE OneHolder(c)'
  <2>1. OneHolder(c)
    BY DEF Inv, BufInv, AllHeld
  <2>2. Pooled(c)' = Pooled(c) /\ Handled(c)' = Handled(c)
    BY <1>1 DEF Pooled, FreeSlots, Occupied, poolvars, Handled
  <2>3. ~Copied(r, q)
    BY <1>1 DEF Copied
  <2>4. CASE c = b
    <3>1. <<r, q>> \in Slotted(c)
      BY <1>2, <1>5, <2>3, <2>4 DEF Slotted
    <3>2. /\ Slotted(c) = {<<r, q>>} /\ Pooled(c) = {}
          /\ Received(c) = {} /\ Handled(c) = {}
      BY <2>1, <3>1 DEF OneHolder, JustOne
    <3>3. Slotted(c)' = {}
      BY <1>1, <1>10, <3>2 DEF Slotted
    <3>4. Received(c)' = {r}
      BY <1>4, <2>4, <3>2 DEF Received
    <3>5. QED
      BY <2>2, <3>2, <3>3, <3>4 DEF OneHolder, JustOne
  <2>5. CASE c # b
    <3>1. Slotted(c)' = Slotted(c)
      BY <1>1, <1>5, <1>10, <2>5 DEF Slotted
    <3>2. Received(c)' = Received(c)
      BY <1>3, <1>4, <1>6, <2>5 DEF Received
    <3>3. QED
      BY <2>1, <2>2, <3>1, <3>2 DEF OneHolder
  <2>6. QED
    BY <2>4, <2>5
<1>12. QED
  BY <1>7, <1>8, <1>9, <1>11 DEF BufInv, AllHeld, Buffers

(* It marks the slot as empty, the flag still set.                         *)
LEMMA EnableSlotBuffers ==
  ASSUME Inv, NEW r \in Slaves, EnableSlot(r)
  PROVE  BufInv'
<1> DEFINE q == Slot(r)
<1>1. /\ rpc[r] = "enable" /\ rpc' = [rpc EXCEPT ![r] = "clear"]
      /\ mbxin' = [mbxin EXCEPT ![r][q] = ENABLE]
      /\ UNCHANGED <<poolvars, mbxinfull, content, mbx, hpc, lastmbxpos, rpos, rbuf>>
  BY DEF EnableSlot, Receiver, handlervars
<1>2. q \in Protocols
  BY SlotIsProtocol DEF Inv
<1>3. mbxinfull[r][q] /\ mbxin[r][q] = rbuf[r] /\ rbuf[r] \in Buffers
  BY <1>1 DEF Inv, BufInv, ReceiverInv
<1>4. \A t \in Slaves : /\ rpc'[t] = IF t = r THEN "clear" ELSE rpc[t]
                        /\ Slot(t)' = Slot(t)
  BY <1>1 DEF Inv, TypeOK, Slot
<1>5. \A t \in Slaves, p \in Protocols :
         mbxin'[t][p] = IF t = r /\ p = q THEN ENABLE ELSE mbxin[t][p]
  BY <1>1, <1>2 DEF Inv, TypeOK
<1>6. Slot(r) = q
  OBVIOUS
<1> HIDE DEF q
<1>7. PoolRing'
  BY <1>1 DEF Inv, BufInv, PoolRing, RingShape, poolvars
<1>8. HandlerInv'
  BY <1>1, <1>2, <1>3, <1>5 DEF Inv, TypeOK, BufInv, HandlerInv
<1>9. ReceiverInv'
  BY <1>1, <1>2, <1>3, <1>4, <1>5, <1>6, SlotIsProtocol DEF Inv, BufInv, ReceiverInv
<1>10. SlotInv' /\ SlotsMatch'
  BY <1>1, <1>2, <1>3, <1>4, <1>5, <1>6 DEF Inv, BufInv, SlotInv, SlotsMatch
<1>11. ASSUME NEW c \in Buffers PROVE OneHolder(c)'
  <2>1. c # ENABLE
    BY DEF Buffers, ENABLE
  <2>2. \A t \in Slaves, p \in Protocols :
          Copied(t, p)' <=> Copied(t, p) /\ ~(t = r /\ p = q)
    BY <1>1, <1>4, <1>6 DEF Copied
  <2>3. Copied(r, q)
    BY <1>1, <1>6 DEF Copied
  <2>4. Slotted(c)' = Slotted(c)
    BY <1>5, <2>1, <2>2, <2>3 DEF Slotted
  <2>5. /\ Pooled(c)' = Pooled(c) /\ Received(c)' = Received(c)
        /\ Handled(c)' = Handled(c)
    BY <1>1 DEF Pooled, FreeSlots, Occupied, poolvars, Received, Handled
  <2>6. QED
    BY <2>4, <2>5 DEF Inv, BufInv, AllHeld, OneHolder
<1>12. QED
  BY <1>7, <1>8, <1>9, <1>10, <1>11 DEF BufInv, AllHeld, Buffers

(* It clears the flag: the handler may fill the slot again.                *)
LEMMA ClearFlagBuffers ==
  ASSUME Inv, NEW r \in Slaves, ClearFlag(r)
  PROVE  BufInv'
<1> DEFINE q == Slot(r)
<1>1. /\ rpc[r] = "clear" /\ rpc' = [rpc EXCEPT ![r] = "own"]
      /\ mbxinfull' = [mbxinfull EXCEPT ![r][q] = FALSE]
      /\ UNCHANGED <<poolvars, mbxin, content, mbx, hpc, lastmbxpos, rpos, rbuf>>
  BY DEF ClearFlag, Receiver, handlervars
<1>2. q \in Protocols
  BY SlotIsProtocol DEF Inv
<1>3. mbxinfull[r][q] /\ mbxin[r][q] = ENABLE /\ rbuf[r] \in Buffers
  BY <1>1 DEF Inv, BufInv, ReceiverInv
<1>4. \A t \in Slaves : /\ rpc'[t] = IF t = r THEN "own" ELSE rpc[t]
                        /\ Slot(t)' = Slot(t)
  BY <1>1 DEF Inv, TypeOK, Slot
<1>5. \A t \in Slaves, p \in Protocols :
         mbxinfull'[t][p] = IF t = r /\ p = q THEN FALSE ELSE mbxinfull[t][p]
  BY <1>1, <1>2 DEF Inv, TypeOK
<1>6. Slot(r) = q
  OBVIOUS
<1> HIDE DEF q
<1>7. PoolRing'
  BY <1>1 DEF Inv, BufInv, PoolRing, RingShape, poolvars
<1>8. HandlerInv'
  BY <1>1, <1>2, <1>3, <1>5 DEF Inv, TypeOK, BufInv, HandlerInv
<1>9. ReceiverInv'
  BY <1>1, <1>2, <1>3, <1>4, <1>5, <1>6, SlotIsProtocol DEF Inv, BufInv, ReceiverInv
<1>10. SlotInv' /\ SlotsMatch'
  <2> SUFFICES ASSUME NEW t \in Slaves, NEW p \in Protocols
               PROVE  /\ ~mbxinfull'[t][p] => \/ mbxin'[t][p] \in {NULL, ENABLE}
                                              \/ hpc' = p /\ lastmbxpos' = t
                      /\ mbxinfull'[t][p] =>
                           \/ /\ mbxin'[t][p] \in Buffers
                              /\ content'[mbxin'[t][p]].kind = p
                           \/ rpc'[t] = "clear" /\ p = Slot(t)'
    BY DEF SlotInv, SlotsMatch, Buffers
  <2>1. CASE t = r /\ p = q
    BY <1>1, <1>3, <1>5, <2>1
  <2>2. CASE ~(t = r /\ p = q)
    BY <1>1, <1>4, <1>5, <1>6, <2>2 DEF Inv, BufInv, SlotInv, SlotsMatch
  <2>3. QED
    BY <2>1, <2>2
<1>11. ASSUME NEW c \in Buffers PROVE OneHolder(c)'
  <2>1. \A t \in Slaves, p \in Protocols : Copied(t, p)' <=> Copied(t, p)
    BY <1>1, <1>4 DEF Copied
  <2>2. /\ Pooled(c)' = Pooled(c) /\ Received(c)' = Received(c)
        /\ Slotted(c)' = Slotted(c) /\ Handled(c)' = Handled(c)
    BY <1>1, <2>1 DEF Pooled, FreeSlots, Occupied, poolvars, Received, Slotted, Handled
  <2>3. QED
    BY <2>2 DEF Inv, BufInv, AllHeld, OneHolder
<1>12. QED
  BY <1>7, <1>8, <1>9, <1>10, <1>11 DEF BufInv, AllHeld, Buffers
-----------------------------------------------------------------------------
(* The steps of the handler. *)

LEMMA OutboxTypes ==
  ASSUME SlaveTypeOK, NEW s \in Slaves, NEW outcome \in Outcomes,
         Datagram(s, outcome), ReadOutbox(s, outcome), UNCHANGED linkvars
  PROVE  SlaveTypeOK'
<1>1. lost' \in 0 .. MaxLost
  BY MailAssumption DEF SlaveTypeOK, Datagram
<1>2. /\ outbox' \in [Slaves -> Mail \cup {NoMail}]
      /\ lastread' \in [Slaves -> Mail \cup {NoMail}]
      /\ UNCHANGED <<deferred, repeatreq, repeatack, posted>>
  BY DEF SlaveTypeOK, ReadOutbox, slavevars
<1>3. QED
  BY <1>1, <1>2 DEF SlaveTypeOK, linkvars, Mail, NoMail, Slaves

LEMMA TakeTypes ==
  ASSUME PoolTypeOK, poolcount \in 0 .. PoolSize, NEW b \in Buffers, GetMbx(b)
  PROVE  PoolTypeOK' /\ poolcount' \in 0 .. PoolSize
BY PoolSizeAssumption DEF PoolTypeOK, GetMbx, Advance, Slots, Buffers

LEMMA PutTypes ==
  ASSUME PoolTypeOK, poolcount \in 0 .. PoolSize, poolcount < PoolSize,
         NEW b \in Buffers, DropMbx(b)
  PROVE  PoolTypeOK' /\ poolcount' \in 0 .. PoolSize
<1>1. /\ mbxemptylist' = [mbxemptylist EXCEPT ![poolhead] = b]
      /\ poolhead' = Advance(poolhead)
      /\ poolcount' = poolcount + 1
      /\ UNCHANGED pooltail
  BY DEF DropMbx
<1>2. Advance(poolhead) \in Slots
  BY PoolSizeAssumption DEF PoolTypeOK, Advance, Slots
<1>3. poolcount' \in 0 .. PoolSize
  BY <1>1, PoolSizeAssumption
<1>4. QED
  BY <1>1, <1>2, <1>3 DEF PoolTypeOK, Slots, Buffers

(* The handler's own steps through the slaves. *)
LEMMA RoundSteps ==
  ASSUME Inv, Cycle \/ Visit \/ Skip \/ Finish
  PROVE  Inv'
<1>1. /\ UNCHANGED <<poolvars, slavevars, linkvars, appvars, robustvars, slotvars,
                     content, mbx, recvvars, mailvars>>
      /\ hpc \in Resting /\ hpc' \in Resting
  BY DEF Resting, Cycle, Visit, Skip, Finish
<1>9. lost' \in 0 .. MaxLost
  <2>1. lost \in 0 .. MaxLost
    BY DEF Inv, TypeOK, SlaveTypeOK
  <2>2. QED
    BY <2>1, MailAssumption DEF Cycle, Visit, Skip, Finish
<1>2. /\ RunInv'
      /\ lastmbxpos' \in Slaves
      /\ firstmbxpos' \in 0 .. NSlaves
      /\ cnt' \in 0 .. NSlaves
      /\ maxcnt' \in {0, NSlaves}
      /\ limit' \in Limits
      /\ limitcnt' \in 0 .. NSlaves
  <2> USE MailAssumption DEF Inv, TypeOK, RunInv, runvars, Slaves
  <2>1. CASE Cycle
    BY <2>1 DEF Cycle, FirstPos
  <2>2. CASE Visit
    <3>1. /\ cnt < maxcnt /\ cnt' = cnt + 1
          /\ lastmbxpos' = Place(firstmbxpos + cnt)
          /\ UNCHANGED <<firstmbxpos, maxcnt, limit, limitcnt>>
      BY <2>2 DEF Visit
    <3>2. lastmbxpos' \in Slaves
      BY <3>1 DEF Place
    <3>3. QED
      BY <3>1, <3>2, SMTT(30)
  <2>3. CASE Skip
    BY <2>3 DEF Skip
  <2>4. CASE Finish
    BY <2>4 DEF Finish
  <2>5. QED
    BY <2>1, <2>2, <2>3, <2>4
<1>3. BufInv'
  BY <1>1, QuietBuffers DEF slotvars, recvvars
<1>4. PoolTypeOK' /\ (poolcount \in 0 .. PoolSize)'
  BY <1>1 DEF Inv, TypeOK, PoolTypeOK, poolvars
<1>5. SlaveTypeOK'
  <2>1. lost' \in 0 .. MaxLost
    BY <1>9
  <2>2. SlaveTypeOK
    BY DEF Inv, TypeOK
  <2>3. QED
    BY <1>1, <2>1, <2>2 DEF SlaveTypeOK, slavevars, linkvars
<1>6. /\ mbxstatus' \in [Slaves -> BOOLEAN]
      /\ waited' \in [Slaves -> Nat]
  <2>1. CASE Cycle
    BY <2>1 DEF Cycle, Inv, TypeOK, SlaveTypeOK
  <2>2. CASE Finish
    BY <2>2 DEF Finish, Inv, TypeOK
  <2>3. CASE Visit \/ Skip
    BY <2>3 DEF Visit, Skip, Inv, TypeOK
  <2>4. QED
    BY <2>1, <2>2, <2>3
<1>7. TypeOK'
  BY <1>1, <1>2, <1>4, <1>5, <1>6 DEF Inv, TypeOK, Resting, appvars, robustvars,
                                      slotvars, recvvars, mailvars, Buffers
<1>8. QED
  BY <1>2, <1>3, <1>7 DEF Inv

(* A step of a repetition, or its end.                                     *)
LEMMA RepeatSteps ==
  ASSUME Inv, \/ \E state \in 1 .. 3 : GiveUpRepeat(state)
              \/ RepeatRead \/ RepeatWrite \/ RepeatWait
  PROVE  Inv'
<1> DEFINE s == lastmbxpos
<1>1. /\ hpc = "serve" /\ hpc' = "visit"
      /\ UNCHANGED <<poolvars, linkvars, appvars, slotvars, content, mbxstatus,
                     lastmbxpos, mbx, waited, recvvars>>
      /\ \/ UNCHANGED runvars
         \/ limitcnt' = limitcnt + 1 /\ maxcnt' \in {0, maxcnt}
            /\ UNCHANGED <<firstmbxpos, cnt, limit>>
      /\ s \in Slaves
  BY DEF GiveUpRepeat, RepeatRead, RepeatWrite, RepeatWait, Repeating, RobustStep,
         CountOperation, Inv, TypeOK
<1>2. RunInv'
  BY <1>1 DEF Inv, TypeOK, RunInv, runvars, Slaves
<1>3. BufInv'
  BY <1>1, QuietBuffers DEF Resting, slotvars, recvvars
<1>4. PoolTypeOK' /\ (poolcount \in 0 .. PoolSize)'
  BY <1>1 DEF Inv, TypeOK, PoolTypeOK, poolvars
<1>5. /\ limitcnt' \in 0 .. NSlaves
      /\ maxcnt' \in {0, NSlaves}
      /\ firstmbxpos' \in 0 .. NSlaves
      /\ cnt' \in 0 .. NSlaves
      /\ limit' \in Limits
  BY <1>1, MailAssumption DEF Inv, TypeOK, RunInv, runvars
<1>6. ASSUME NEW outcome \in Outcomes, Datagram(s, outcome)
      PROVE  lost' \in 0 .. MaxLost
  BY <1>6, MailAssumption DEF Datagram, Inv, TypeOK, SlaveTypeOK
<1>7. /\ SlaveTypeOK'
      /\ mbxrmpstate' \in [Slaves -> 0 .. 3]
      /\ mbxinstateex' \in [Slaves -> BOOLEAN]
      /\ accepted' \in [Slaves -> 0 .. MaxMail]
      /\ excused' \in [Slaves -> BOOLEAN]
  <2>1. CASE \E state \in 1 .. 3 : GiveUpRepeat(state)
    BY <1>1, <2>1 DEF Inv, TypeOK, SlaveTypeOK, GiveUpRepeat, slavevars, linkvars
  <2>2. CASE RepeatRead
    <3>1. UNCHANGED <<slavevars, mailvars>> /\ lost' \in 0 .. MaxLost
      BY <1>6, <2>2 DEF RepeatRead
    <3>2. /\ mbxrmpstate' \in [Slaves -> 0 .. 3]
          /\ mbxinstateex' \in [Slaves -> BOOLEAN]
      <4>1. Toggled(repeatreq[s]) \in BOOLEAN
        BY DEF Toggled
      <4>2. \/ mbxinstateex' = [mbxinstateex EXCEPT ![s] = Toggled(repeatreq[s])]
               /\ mbxrmpstate' = [mbxrmpstate EXCEPT ![s] = 2]
            \/ UNCHANGED robustvars
        BY <2>2 DEF RepeatRead
      <4>3. /\ mbxrmpstate \in [Slaves -> 0 .. 3]
            /\ mbxinstateex \in [Slaves -> BOOLEAN]
        BY DEF Inv, TypeOK
      <4>4. QED
        BY <4>1, <4>2, <4>3 DEF robustvars
    <3>3. QED
      BY <1>1, <3>1, <3>2 DEF Inv, TypeOK, SlaveTypeOK, slavevars, mailvars, linkvars
  <2>3. CASE RepeatWrite
    <3>1. /\ UNCHANGED <<outbox, lastread, deferred, repeatack, posted, mbxinstateex,
                         mailvars>>
          /\ lost' \in 0 .. MaxLost
      BY <1>6, <2>3 DEF RepeatWrite
    <3>2. /\ mbxrmpstate' \in [Slaves -> 0 .. 3]
          /\ repeatreq' \in [Slaves -> BOOLEAN]
      BY <2>3 DEF RepeatWrite, Inv, TypeOK, SlaveTypeOK
    <3>3. QED
      BY <1>1, <3>1, <3>2 DEF Inv, TypeOK, SlaveTypeOK, mailvars, linkvars
  <2>4. CASE RepeatWait
    <3>1. UNCHANGED <<slavevars, mbxinstateex, mailvars>> /\ lost' \in 0 .. MaxLost
      BY <1>6, <2>4 DEF RepeatWait
    <3>2. mbxrmpstate' \in [Slaves -> 0 .. 3]
      BY <2>4 DEF RepeatWait, Inv, TypeOK
    <3>3. QED
      BY <1>1, <3>1, <3>2 DEF Inv, TypeOK, SlaveTypeOK, slavevars, mailvars, linkvars
  <2>5. QED
    BY <2>1, <2>2, <2>3, <2>4
<1>8. TypeOK'
  BY <1>1, <1>4, <1>5, <1>7 DEF Inv, TypeOK, appvars, slotvars, recvvars, Buffers
<1>9. QED
  BY <1>2, <1>3, <1>8 DEF Inv

(* A buffer for a full mailbox, its read, and the return of the buffer.    *)
LEMMA FetchSteps ==
  ASSUME Inv, TakeBuffer \/ Fetch \/ Drop
  PROVE  Inv'
<1>1. CASE TakeBuffer
  <2>1. PICK b \in Buffers : GetMbx(b) /\ mbx' = b
    BY <1>1 DEF TakeBuffer
  <2>2. RunInv'
    BY <1>1 DEF Inv, TypeOK, RunInv, TakeBuffer, CountOperation
  <2>3. BufInv'
    BY <1>1, <2>1, TakeBuffers DEF TakeBuffer, slotvars, recvvars
  <2>4. PoolTypeOK' /\ (poolcount \in 0 .. PoolSize)'
    BY <2>1, TakeTypes DEF Inv, TypeOK
  <2>5. SlaveTypeOK'
    BY <1>1 DEF Inv, TypeOK, SlaveTypeOK, TakeBuffer, slavevars, linkvars
  <2>6. TypeOK'
    <3>1. limitcnt' \in 0 .. NSlaves /\ maxcnt' \in {0, NSlaves}
          /\ UNCHANGED <<firstmbxpos, cnt, limit>>
      BY <1>1, MailAssumption DEF Inv, TypeOK, RunInv, TakeBuffer, CountOperation
    <3>2. mbx' \in Buffers /\ hpc' = "fetch"
      BY <1>1, <2>1 DEF TakeBuffer
    <3>3. UNCHANGED <<appvars, robustvars, slotvars, content, mbxstatus, lastmbxpos,
                      waited, recvvars, mailvars>>
      BY <1>1 DEF TakeBuffer
    <3>4. QED
      BY <2>4, <2>5, <3>1, <3>2, <3>3
         DEF Inv, TypeOK, appvars, robustvars, slotvars, recvvars, mailvars, Buffers
  <2>7. QED
    BY <2>2, <2>3, <2>6 DEF Inv
<1>2. CASE Fetch
  <2> DEFINE s == lastmbxpos
  <2>1. PICK outcome \in Outcomes :
          /\ Datagram(s, outcome) /\ ReadOutbox(s, outcome)
          /\ IF GotMail(s, outcome)
             THEN /\ content' = [content EXCEPT ![mbx] = outbox[s]]
                  /\ accepted' = [accepted EXCEPT ![s] = outbox[s].no]
                  /\ excused' = [excused EXCEPT ![s] = ExcusedAfter(s, outbox[s])]
                  /\ hpc' = "deliver"
                  /\ UNCHANGED mbxrmpstate
             ELSE /\ mbxrmpstate' = [mbxrmpstate EXCEPT ![s] = AfterFailedRead]
                  /\ hpc' = "drop"
                  /\ UNCHANGED <<content, mailvars>>
    BY <1>2 DEF Fetch
  <2>2. /\ hpc = "fetch"
        /\ UNCHANGED <<poolvars, linkvars, appvars, mbxinstateex, slotvars, mbxstatus,
                       lastmbxpos, runvars, mbx, waited, recvvars>>
    BY <1>2 DEF Fetch
  <2>3. s \in Slaves /\ mbx \in Buffers
    BY <2>2 DEF Inv, TypeOK, BufInv, HandlerInv
  <2>4. RunInv'
    BY <2>1, <2>2 DEF Inv, RunInv, runvars
  <2>5. BufInv'
    <3>1. CASE GotMail(s, outcome)
      BY <2>1, <2>2, <2>3, <3>1, FillBuffer DEF slotvars, recvvars
    <3>2. CASE ~GotMail(s, outcome)
      BY <2>1, <2>2, <3>2, QuietBuffers DEF slotvars, recvvars, Moving
    <3>3. QED
      BY <3>1, <3>2
  <2>6. PoolTypeOK' /\ (poolcount \in 0 .. PoolSize)'
    BY <2>2 DEF Inv, TypeOK, PoolTypeOK, poolvars
  <2>7. SlaveTypeOK'
    BY <2>1, <2>2, <2>3, OutboxTypes DEF Inv, TypeOK
  <2>8. GotMail(s, outcome) => outbox[s] \in Mail
    BY <2>3 DEF GotMail, Inv, TypeOK, SlaveTypeOK
  <2>9. ExcusedAfter(s, outbox[s]) \in BOOLEAN
    BY <2>3 DEF ExcusedAfter, Shared, Inv, TypeOK
  <2>10. hpc' \in {"deliver", "drop"}
    BY <2>1
  <2>11. mbxrmpstate' \in [Slaves -> 0 .. 3]
    <3>1. UNCHANGED mbxrmpstate \/ mbxrmpstate' = [mbxrmpstate EXCEPT ![s] = 1]
      BY <2>1 DEF AfterFailedRead
    <3>2. mbxrmpstate \in [Slaves -> 0 .. 3]
      BY DEF Inv, TypeOK
    <3>3. QED
      BY <2>3, <3>1, <3>2
  <2>12. content' \in [Buffers -> Mail \cup {NoMail}]
    BY <2>1, <2>3, <2>8 DEF Inv, TypeOK
  <2>13. /\ accepted' \in [Slaves -> 0 .. MaxMail]
         /\ excused' \in [Slaves -> BOOLEAN]
    <3>1. CASE GotMail(s, outcome)
      <4>1. outbox[s].no \in 0 .. MaxMail
        BY <2>8, <3>1, MailAssumption DEF Mail
      <4>2. QED
        BY <2>1, <2>3, <2>9, <3>1, <4>1 DEF Inv, TypeOK
    <3>2. CASE ~GotMail(s, outcome)
      BY <2>1, <2>3, <3>2 DEF Inv, TypeOK, mailvars
    <3>3. QED
      BY <3>1, <3>2
  <2>14. TypeOK'
    BY <2>2, <2>6, <2>7, <2>10, <2>11, <2>12, <2>13
       DEF Inv, TypeOK, appvars, slotvars, recvvars, runvars, Buffers
  <2>15. QED
    BY <2>4, <2>5, <2>14 DEF Inv
<1>3. CASE Drop
  <2>1. hpc = "drop" /\ mbx \in Buffers
    BY <1>3 DEF Drop, Inv, BufInv, HandlerInv
  <2>2. poolcount < PoolSize
    <3>1. Handled(mbx) # {} /\ OneHolder(mbx)
      BY <2>1 DEF Handled, Inv, BufInv, AllHeld
    <3>2. Pooled(mbx) = {}
      BY <3>1 DEF OneHolder, JustOne
    <3>3. QED
      BY <2>1, <3>2, RoomForBuffer
  <2>3. RunInv'
    BY <1>3 DEF Inv, RunInv, Drop, runvars
  <2>4. BufInv'
    BY <1>3, <2>1, ReturnBuffers DEF Drop, slotvars, recvvars
  <2>5. PoolTypeOK' /\ (poolcount \in 0 .. PoolSize)'
    BY <1>3, <2>1, <2>2, PutTypes DEF Inv, TypeOK, Drop
  <2>6. SlaveTypeOK'
    BY <1>3 DEF Inv, TypeOK, SlaveTypeOK, Drop, slavevars, linkvars
  <2>7. TypeOK'
    BY <1>3, <2>5, <2>6 DEF Inv, TypeOK, Drop, appvars, robustvars, slotvars,
           recvvars, mailvars, runvars, Buffers
  <2>8. QED
    BY <2>3, <2>4, <2>7 DEF Inv
<1>4. QED
  BY <1>1, <1>2, <1>3

(* What becomes of a mail that was read.                                   *)
LEMMA DeliverSteps ==
  ASSUME Inv, Report \/ HandOver \/ Publish \/ Overrun \/ Tunnel
  PROVE  Inv'
<1> USE DEF Report, Overrun, Tunnel, Deliver, CountOverrun
<1>1. RunInv'
  BY DEF Inv, RunInv, HandOver, Publish, runvars, Protocols
<1>2. BufInv'
  <2>1. CASE Report \/ Overrun \/ Tunnel
    BY <2>1, QuietBuffers DEF Moving, slotvars, recvvars
  <2>2. QED
    BY <2>1, HandOverBuffers, PublishBuffers
<1>3. PoolTypeOK' /\ (poolcount \in 0 .. PoolSize)'
  BY DEF Inv, TypeOK, PoolTypeOK, HandOver, Publish, poolvars
<1>4. SlaveTypeOK'
  BY DEF Inv, TypeOK, SlaveTypeOK, HandOver, Publish, slavevars, linkvars
<1>5. /\ mbxin' \in [Slaves -> [Protocols -> Buffers \cup {NULL, ENABLE}]]
      /\ mbxinfull' \in [Slaves -> [Protocols -> BOOLEAN]]
      /\ overrun' \in [Slaves -> [Protocols -> Nat]]
      /\ tunnelled' \in [Slaves -> Nat]
      /\ mbx' \in Buffers \cup {NULL}
      /\ hpc' \in {"visit", "drop"} \cup Protocols
  <2>1. CASE Report
    BY <2>1 DEF Inv, TypeOK, slotvars
  <2>2. CASE HandOver
    BY <2>2 DEF Inv, TypeOK, HandOver
  <2>3. CASE Publish
    BY <2>3 DEF Inv, TypeOK, Publish
  <2>4. CASE Overrun
    BY <2>4 DEF Inv, TypeOK
  <2>5. CASE Tunnel
    <3>1. "eoe" \in Protocols
      BY DEF Protocols
    <3>2. QED
      BY <2>5, <3>1 DEF Inv, TypeOK
  <2>6. QED
    BY <2>1, <2>2, <2>3, <2>4, <2>5
<1>6. TypeOK'
  BY <1>3, <1>4, <1>5 DEF Inv, TypeOK, HandOver, Publish, appvars, robustvars,
                          recvvars, mailvars, runvars, Buffers
<1>7. QED
  BY <1>1, <1>2, <1>6 DEF Inv
-----------------------------------------------------------------------------
(* The steps of a receiver. *)

Stops == {"idle", "poll", "enable", "clear", "own", "crashed"} \cup Waits \cup Repeats

(* What a receiver may change, part by part.                               *)
LEMMA ReceiverTypes ==
  ASSUME Inv, NEW s \in Slaves, NEW next \in Stops,
         UNCHANGED <<appvars, robustvars, overrun, tunnelled, handlervars>>,
         rpc' = [rpc EXCEPT ![s] = next],
         PoolTypeOK', poolcount' \in 0 .. PoolSize, SlaveTypeOK',
         mbxin' \in [Slaves -> [Protocols -> Buffers \cup {NULL, ENABLE}]],
         mbxinfull' \in [Slaves -> [Protocols -> BOOLEAN]],
         content' \in [Buffers -> Mail \cup {NoMail}],
         rpos' \in [Slaves -> 1 .. Len(FetchOrder)],
         rbuf' \in [Slaves -> Buffers \cup {NULL}],
         rtoggle' \in [Slaves -> BOOLEAN],
         accepted' \in [Slaves -> 0 .. MaxMail],
         excused' \in [Slaves -> BOOLEAN]
  PROVE  TypeOK' /\ RunInv'
<1>1. rpc' \in [Slaves -> Stops]
  BY DEF Inv, TypeOK, Stops
<1>2. RunInv'
  BY DEF Inv, RunInv, handlervars, runvars
<1>3. QED
  BY <1>1, <1>2 DEF Inv, TypeOK, appvars, robustvars, handlervars, runvars, Stops, Buffers

(* Polling the slots of a slave that is handled cyclically.                *)
LEMMA PollSteps ==
  ASSUME Inv, NEW s \in Slaves,
         \/ Receive(s) \/ PollMiss(s) \/ TakeMail(s) \/ EnableSlot(s) \/ ClearFlag(s)
         \/ Release(s)
  PROVE  Inv'
<1>1. PICK at \in Stops, next \in Stops : Receiver(s, at, next)
  BY DEF Receive, PollMiss, TakeMail, EnableSlot, ClearFlag, Release, Stops
<1>2. /\ rpc[s] = at /\ rpc' = [rpc EXCEPT ![s] = next]
      /\ UNCHANGED <<slavevars, linkvars, lost, appvars, robustvars, overrun, tunnelled,
                     content, handlervars, rtoggle, mailvars>>
  BY <1>1 DEF Receiver
<1>3. SlaveTypeOK'
  BY <1>2 DEF Inv, TypeOK, SlaveTypeOK, slavevars, linkvars
<1>4. rpos' \in [Slaves -> 1 .. Len(FetchOrder)]
  <2>1. rpos \in [Slaves -> 1 .. 4] /\ Len(FetchOrder) = 4
    BY DEF Inv, TypeOK, FetchOrder
  <2>2. CASE Receive(s) \/ Release(s)
    BY <2>1, <2>2 DEF Receive, Release
  <2>3. CASE PollMiss(s)
    BY <2>1, <2>3 DEF PollMiss, AtLastSlot
  <2>4. CASE TakeMail(s) \/ EnableSlot(s) \/ ClearFlag(s)
    BY <2>1, <2>4 DEF TakeMail, EnableSlot, ClearFlag
  <2>5. QED
    BY <2>2, <2>3, <2>4
<1>5. Slot(s) \in Protocols
  BY SlotIsProtocol DEF Inv
<1>6. /\ mbxin' \in [Slaves -> [Protocols -> Buffers \cup {NULL, ENABLE}]]
      /\ mbxinfull' \in [Slaves -> [Protocols -> BOOLEAN]]
  <2>1. /\ mbxin \in [Slaves -> [Protocols -> Buffers \cup {NULL, ENABLE}]]
        /\ mbxinfull \in [Slaves -> [Protocols -> BOOLEAN]]
    BY DEF Inv, TypeOK
  <2>2. /\ UNCHANGED mbxin \/ mbxin' = [mbxin EXCEPT ![s][Slot(s)] = ENABLE]
        /\ UNCHANGED mbxinfull \/ mbxinfull' = [mbxinfull EXCEPT ![s][Slot(s)] = FALSE]
    BY DEF Receive, PollMiss, TakeMail, EnableSlot, ClearFlag, Release
  <2>3. mbxin' \in [Slaves -> [Protocols -> Buffers \cup {NULL, ENABLE}]]
    BY <1>5, <2>1, <2>2
  <2>4. mbxinfull' \in [Slaves -> [Protocols -> BOOLEAN]]
    <3>1. [mbxinfull[s] EXCEPT ![Slot(s)] = FALSE] \in [Protocols -> BOOLEAN]
      BY <1>5, <2>1
    <3>2. QED
      BY <2>1, <2>2, <3>1
  <2>5. QED
    BY <2>3, <2>4
<1>7. CASE Receive(s) \/ PollMiss(s)
  <2>1. /\ UNCHANGED <<poolvars, mbxin, mbxinfull, rbuf>>
        /\ rpc[s] \in {"idle", "poll"} /\ next \in {"idle", "poll"}
    <3>4. rpc'[s] = next
      BY <1>2 DEF Inv, TypeOK
    <3>5. ASSUME NEW a, NEW n, Receiver(s, a, n) PROVE rpc[s] = a /\ rpc'[s] = n
      BY <3>5 DEF Receiver, Inv, TypeOK
    <3>1. CASE Receive(s)
      <4>1. next = "poll" /\ rpc[s] = "idle"
        BY <3>1, <3>4, <3>5 DEF Receive
      <4>2. QED
        BY <3>1, <4>1 DEF Receive
    <3>2. CASE PollMiss(s)
      <4>1. \E n \in {"idle", "poll"} : Receiver(s, "poll", n)
        BY <3>2 DEF PollMiss
      <4>2. next \in {"idle", "poll"} /\ rpc[s] = "poll"
        BY <3>4, <3>5, <4>1
      <4>3. QED
        BY <3>2, <4>2 DEF PollMiss
    <3>3. QED
      BY <1>7, <3>1, <3>2
  <2>0. \A t \in Slaves \ {s} : rpos'[t] = rpos[t]
    BY <1>7 DEF Receive, PollMiss, Inv, TypeOK
  <2>2. rbuf[s] = NULL
    BY <2>1 DEF Inv, BufInv, ReceiverInv
  <2>3. BufInv'
    <3>1. \A t \in Slaves : \/ rpc'[t] = rpc[t] /\ rpos'[t] = rpos[t]
                            \/ /\ rpc[t] \in {"idle", "poll"} /\ rbuf[t] = NULL
                               /\ rpc'[t] \in {"idle", "poll"}
      BY <1>2, <2>0, <2>1, <2>2 DEF Inv, TypeOK
    <3>2. QED
      BY <1>2, <2>0, <2>1, <3>1, QuietBuffers DEF handlervars
  <2>4. PoolTypeOK' /\ poolcount' \in 0 .. PoolSize
    BY <2>1 DEF Inv, TypeOK, PoolTypeOK, poolvars
  <2>5. TypeOK' /\ RunInv'
    BY <1>2, <1>3, <1>4, <1>6, <2>0, <2>1, <2>4, ReceiverTypes DEF Inv, TypeOK, mailvars
  <2>6. QED
    BY <2>3, <2>5 DEF Inv
<1>8. CASE TakeMail(s) \/ EnableSlot(s) \/ ClearFlag(s)
  <2>1. BufInv'
    BY <1>8, TakeMailBuffers, EnableSlotBuffers, ClearFlagBuffers
  <2>2. rbuf' \in [Slaves -> Buffers \cup {NULL}]
    <3>1. CASE TakeMail(s)
      <4>1. mbxin[s][Slot(s)] \in Buffers
        BY <1>2, <1>5, <3>1 DEF TakeMail, Receiver, Inv, BufInv, SlotsMatch
      <4>2. QED
        BY <3>1, <4>1 DEF TakeMail, Inv, TypeOK
    <3>2. CASE EnableSlot(s) \/ ClearFlag(s)
      BY <3>2 DEF EnableSlot, ClearFlag, Inv, TypeOK
    <3>3. QED
      BY <1>8, <3>1, <3>2
  <2>3. PoolTypeOK' /\ poolcount' \in 0 .. PoolSize
    BY <1>8 DEF Inv, TypeOK, PoolTypeOK, poolvars, TakeMail, EnableSlot, ClearFlag
  <2>4. TypeOK' /\ RunInv'
    BY <1>2, <1>3, <1>4, <1>6, <2>2, <2>3, ReceiverTypes DEF Inv, TypeOK, mailvars
  <2>5. QED
    BY <2>1, <2>4 DEF Inv
<1>9. CASE Release(s)
  <2>1. /\ rpc[s] = "own" /\ rpc' = [rpc EXCEPT ![s] = "idle"]
        /\ DropMbx(rbuf[s]) /\ rbuf' = [rbuf EXCEPT ![s] = NULL]
        /\ rpos' = [rpos EXCEPT ![s] = 1]
        /\ UNCHANGED <<mbxin, mbxinfull>>
    BY <1>9 DEF Release, Receiver
  <2>2. rbuf[s] \in Buffers
    BY <2>1 DEF Inv, BufInv, ReceiverInv
  <2>3. BufInv'
    <3>1. \A t \in Slaves \ {s} : rpos'[t] = rpos[t]
      BY <2>1 DEF Inv, TypeOK
    <3>2. QED
      BY <1>2, <2>1, <2>2, <3>1, ReturnBuffers DEF handlervars
  <2>4. poolcount < PoolSize
    <3>1. s \in Received(rbuf[s]) /\ OneHolder(rbuf[s])
      BY <2>2 DEF Received, Inv, BufInv, AllHeld
    <3>2. Pooled(rbuf[s]) = {}
      BY <3>1 DEF OneHolder, JustOne
    <3>3. QED
      BY <2>2, <3>2, RoomForBuffer
  <2>5. PoolTypeOK' /\ poolcount' \in 0 .. PoolSize
    BY <2>1, <2>2, <2>4, PutTypes DEF Inv, TypeOK
  <2>6. rbuf' \in [Slaves -> Buffers \cup {NULL}]
    BY <2>1 DEF Inv, TypeOK
  <2>7. TypeOK' /\ RunInv'
    BY <1>2, <1>3, <1>4, <1>6, <2>5, <2>6, ReceiverTypes DEF Inv, TypeOK, mailvars
  <2>8. QED
    BY <2>3, <2>7 DEF Inv
<1>10. QED
  BY <1>7, <1>8, <1>9

(* What the steps of a call that reads the mailbox itself leave alone.     *)
LEMMA PollerTypes ==
  ASSUME Inv, NEW s \in Slaves, NEW at \in Stops, NEW next \in Stops,
         Poller(s, at, next),
         PoolTypeOK', poolcount' \in 0 .. PoolSize, SlaveTypeOK',
         content' \in [Buffers -> Mail \cup {NoMail}],
         rbuf' \in [Slaves -> Buffers \cup {NULL}],
         rtoggle' \in [Slaves -> BOOLEAN],
         accepted' \in [Slaves -> 0 .. MaxMail],
         excused' \in [Slaves -> BOOLEAN]
  PROVE  TypeOK' /\ RunInv'
<1>1. /\ UNCHANGED <<appvars, robustvars, overrun, tunnelled, handlervars>>
      /\ rpc' = [rpc EXCEPT ![s] = next]
  BY DEF Poller
<1>2. /\ mbxin' \in [Slaves -> [Protocols -> Buffers \cup {NULL, ENABLE}]]
      /\ mbxinfull' \in [Slaves -> [Protocols -> BOOLEAN]]
      /\ rpos' \in [Slaves -> 1 .. Len(FetchOrder)]
  BY DEF Poller, Inv, TypeOK
<1>3. QED
  BY <1>1, <1>2, ReceiverTypes

LEMMA PollerQuiet ==
  ASSUME Inv, NEW s \in Slaves, NEW at \in Stops, NEW next \in Stops,
         Poller(s, at, next), UNCHANGED <<poolvars, content, rbuf>>,
         at \notin {"enable", "clear"}, next \notin {"enable", "clear"},
         next \in {"idle", "poll", "await"} => rbuf[s] = NULL,
         next \in {"own", "sort"} => rbuf[s] \in Buffers
  PROVE  BufInv'
<1>1. /\ rpc[s] = at /\ rpc' = [rpc EXCEPT ![s] = next]
      /\ UNCHANGED <<mbxin, mbxinfull, hpc, lastmbxpos, mbx, rpos>>
  BY DEF Poller, handlervars
<1>2. \A t \in Slaves : \/ rpc'[t] = rpc[t] /\ rpos'[t] = rpos[t]
                        \/ t = s /\ rpc[t] = at /\ rpc'[t] = next
  BY <1>1 DEF Inv, TypeOK
<1>3. QED
  BY <1>1, <1>2, QuietBuffers

LEMMA PollerReturns ==
  ASSUME Inv, NEW s \in Slaves, NEW at \in Stops, NEW next \in {"idle", "read"},
         Poller(s, at, next), UNCHANGED content,
         at \notin {"enable", "clear"},
         DropMbx(rbuf[s]), rbuf' = [rbuf EXCEPT ![s] = NULL]
  PROVE  BufInv' /\ PoolTypeOK' /\ poolcount' \in 0 .. PoolSize
<1>1. /\ rpc[s] = at /\ rpc' = [rpc EXCEPT ![s] = next]
      /\ UNCHANGED <<mbxin, mbxinfull, hpc, lastmbxpos, mbx, rpos>>
  BY DEF Poller, handlervars
<1>2. CASE rbuf[s] \in Buffers
  <2>1. BufInv'
    BY <1>1, <1>2, ReturnBuffers
  <2>2. s \in Received(rbuf[s]) /\ OneHolder(rbuf[s])
    BY <1>2 DEF Received, Inv, BufInv, AllHeld
  <2>3. Pooled(rbuf[s]) = {}
    BY <2>2 DEF OneHolder, JustOne
  <2>4. poolcount < PoolSize
    BY <1>2, <2>3, RoomForBuffer
  <2>5. QED
    BY <1>2, <2>1, <2>4, PutTypes DEF Inv, TypeOK
<1>3. CASE rbuf[s] \notin Buffers
  <2>1. rbuf[s] = NULL /\ UNCHANGED <<poolvars, rbuf>>
    BY <1>3 DEF DropMbx, Inv, TypeOK
  <2>2. next \in Stops
    BY DEF Stops, Waits
  <2>3. BufInv'
    BY <2>1, <2>2, PollerQuiet
  <2>4. QED
    BY <2>1, <2>3 DEF Inv, TypeOK, PoolTypeOK, poolvars
<1>4. QED
  BY <1>2, <1>3

(* Reading the mailbox of a slave that is not handled cyclically.          *)
LEMMA ReadSteps ==
  ASSUME Inv, NEW s \in Slaves,
         \/ DirectCall(s) \/ AwaitMore(s) \/ AwaitFull(s) \/ ReadDirect(s)
         \/ ToCaller(s) \/ Settle(s)
  PROVE  Inv'
<1> USE DEF Stops, Waits, Repeats
<1>0. /\ PoolTypeOK /\ poolcount \in 0 .. PoolSize
      /\ SlaveTypeOK
      /\ content \in [Buffers -> Mail \cup {NoMail}]
      /\ rbuf \in [Slaves -> Buffers \cup {NULL}]
      /\ rtoggle \in [Slaves -> BOOLEAN]
      /\ accepted \in [Slaves -> 0 .. MaxMail]
      /\ excused \in [Slaves -> BOOLEAN]
  BY DEF Inv, TypeOK
<1>1. ASSUME UNCHANGED poolvars PROVE PoolTypeOK' /\ poolcount' \in 0 .. PoolSize
  BY <1>0, <1>1 DEF PoolTypeOK, poolvars
<1>2. ASSUME UNCHANGED <<slavevars, linkvars>>, lost' \in 0 .. MaxLost
      PROVE  SlaveTypeOK'
  BY <1>0, <1>2 DEF SlaveTypeOK, slavevars, linkvars
<1>3. /\ rpc[s] \in {"idle", "await"} => rbuf[s] = NULL
      /\ rpc[s] = "sort" => rbuf[s] \in Buffers
  BY DEF Inv, BufInv, ReceiverInv
<1>4. ASSUME NEW full \in BOOLEAN, AskFull(s, full) PROVE lost' \in 0 .. MaxLost
  BY <1>0, <1>4, MailAssumption DEF AskFull, Datagram, SlaveTypeOK
<1>5. CASE DirectCall(s)
  <2>1. /\ Poller(s, "idle", "await") /\ rpc[s] = "idle"
        /\ UNCHANGED <<poolvars, slavevars, linkvars, lost, content, rbuf, rtoggle,
                       accepted>>
    BY <1>5 DEF DirectCall, Poller
  <2>2. excused' \in [Slaves -> BOOLEAN]
    BY <1>0, <1>5 DEF DirectCall
  <2>3. BufInv'
    BY <1>3, <2>1, PollerQuiet
  <2>4. SlaveTypeOK'
    BY <1>0, <1>2, <2>1 DEF SlaveTypeOK
  <2>5. TypeOK' /\ RunInv'
    BY <1>0, <1>1, <2>1, <2>2, <2>4, PollerTypes
  <2>6. QED
    BY <2>3, <2>5 DEF Inv
<1>6. CASE AwaitMore(s)
  <2>1. PICK next \in {"await", "idle"} : Poller(s, "await", next)
    BY <1>6 DEF AwaitMore
  <2>2. /\ UNCHANGED <<poolvars, slavevars, linkvars, content, rbuf, rtoggle, mailvars>>
        /\ rpc[s] = "await"
    BY <1>6, <2>1 DEF AwaitMore, Poller
  <2>3. lost' \in 0 .. MaxLost
    BY <1>4, <1>6 DEF AwaitMore
  <2>4. BufInv'
    BY <1>3, <2>1, <2>2, PollerQuiet
  <2>5. TypeOK' /\ RunInv'
    BY <1>0, <1>1, <1>2, <2>1, <2>2, <2>3, PollerTypes DEF mailvars
  <2>6. QED
    BY <2>4, <2>5 DEF Inv
<1>7. CASE AwaitFull(s)
  <2>1. /\ Poller(s, "await", "read") /\ rpc[s] = "await"
        /\ UNCHANGED <<slavevars, linkvars, content, rtoggle, mailvars>>
    BY <1>7 DEF AwaitFull, Poller
  <2>2. lost' \in 0 .. MaxLost
    BY <1>4, <1>7 DEF AwaitFull
  <2>3. SlaveTypeOK'
    BY <1>2, <2>1, <2>2
  <2>4. CASE UNCHANGED <<poolvars, rbuf>>
    <3>1. BufInv'
      BY <2>1, <2>4, PollerQuiet
    <3>2. TypeOK' /\ RunInv'
      BY <1>0, <1>1, <2>1, <2>3, <2>4, PollerTypes DEF mailvars
    <3>3. QED
      BY <3>1, <3>2 DEF Inv
  <2>5. ASSUME NEW b \in Buffers, GetMbx(b), rbuf' = [rbuf EXCEPT ![s] = b] PROVE Inv'
    <3>1. BufInv'
      BY <2>1, <2>5, TakeBuffers DEF Poller, handlervars
    <3>2. PoolTypeOK' /\ poolcount' \in 0 .. PoolSize
      BY <1>0, <2>5, TakeTypes
    <3>3. rbuf' \in [Slaves -> Buffers \cup {NULL}]
      BY <1>0, <2>5
    <3>4. TypeOK' /\ RunInv'
      BY <1>0, <2>1, <2>3, <3>2, <3>3, PollerTypes DEF mailvars
    <3>5. QED
      BY <3>1, <3>4 DEF Inv
  <2>6. QED
    BY <1>7, <2>4, <2>5 DEF AwaitFull
<1>8. CASE ReadDirect(s)
  <2>1. PICK outcome \in Outcomes :
          /\ Datagram(s, outcome)
          /\ ReadOutbox(s, outcome)
          /\ CASE ~GotMail(s, outcome) ->
                    /\ Poller(s, "read", "status")
                    /\ UNCHANGED <<content, mailvars>>
               [] GotMail(s, outcome) /\ rbuf[s] = NULL ->
                    /\ Poller(s, "read", "crashed")
                    /\ UNCHANGED <<content, mailvars>>
               [] OTHER ->
                    /\ Poller(s, "read", "sort")
                    /\ content' = [content EXCEPT ![rbuf[s]] = outbox[s]]
                    /\ accepted' = [accepted EXCEPT ![s] = outbox[s].no]
                    /\ excused' = [excused EXCEPT ![s] = ExcusedAfter(s, outbox[s])]
          /\ UNCHANGED <<poolvars, rbuf, rtoggle>>
    BY <1>8 DEF ReadDirect
  <2>2. UNCHANGED <<poolvars, rbuf, rtoggle>>
    BY <2>1
  <2>3. CASE /\ \E next \in {"status", "crashed"} : Poller(s, "read", next)
             /\ UNCHANGED <<content, mailvars>>
    <3>1. PICK next \in {"status", "crashed"} : Poller(s, "read", next)
      BY <2>3
    <3>2. BufInv'
      BY <2>2, <2>3, <3>1, PollerQuiet
    <3>3. SlaveTypeOK'
      BY <1>0, <2>1, <3>1, OutboxTypes DEF Poller
    <3>4. TypeOK' /\ RunInv'
      BY <1>0, <1>1, <2>2, <2>3, <3>1, <3>3, PollerTypes DEF mailvars
    <3>5. QED
      BY <3>2, <3>4 DEF Inv
  <2>4. CASE /\ GotMail(s, outcome) /\ rbuf[s] # NULL
             /\ Poller(s, "read", "sort")
             /\ content' = [content EXCEPT ![rbuf[s]] = outbox[s]]
             /\ accepted' = [accepted EXCEPT ![s] = outbox[s].no]
             /\ excused' = [excused EXCEPT ![s] = ExcusedAfter(s, outbox[s])]
    <3>1. rbuf[s] \in Buffers /\ outbox[s] \in Mail
      BY <1>0, <2>4 DEF GotMail, SlaveTypeOK
    <3>2. BufInv'
      BY <2>2, <2>4, <3>1, FillBuffer DEF Poller, handlervars
    <3>3. SlaveTypeOK'
      BY <1>0, <2>1, <2>4, OutboxTypes DEF Poller
    <3>4. outbox[s].no \in 0 .. MaxMail /\ ExcusedAfter(s, outbox[s]) \in BOOLEAN
      <4>1. outbox[s].no \in 0 .. MaxMail
        BY <3>1, MailAssumption DEF Mail
      <4>2. Shared(s) \in BOOLEAN
        BY DEF Shared
      <4>3. QED
        BY <1>0, <4>1, <4>2 DEF ExcusedAfter
    <3>5. /\ content' \in [Buffers -> Mail \cup {NoMail}]
          /\ accepted' \in [Slaves -> 0 .. MaxMail]
          /\ excused' \in [Slaves -> BOOLEAN]
      BY <1>0, <2>4, <3>1, <3>4
    <3>6. TypeOK' /\ RunInv'
      BY <1>0, <1>1, <2>2, <2>4, <3>3, <3>5, PollerTypes
    <3>7. QED
      BY <3>2, <3>6 DEF Inv
  <2>5. QED
    BY <2>1, <2>3, <2>4
<1>9. CASE ToCaller(s)
  <2>1. /\ Poller(s, "sort", "own") /\ rpc[s] = "sort"
        /\ UNCHANGED <<poolvars, slavevars, linkvars, lost, content, rbuf, rtoggle,
                       mailvars>>
    BY <1>9 DEF ToCaller, Poller
  <2>2. BufInv'
    BY <1>3, <2>1, PollerQuiet
  <2>3. SlaveTypeOK'
    BY <1>0, <1>2, <2>1 DEF SlaveTypeOK
  <2>4. TypeOK' /\ RunInv'
    BY <1>0, <1>1, <2>1, <2>3, PollerTypes DEF mailvars
  <2>5. QED
    BY <2>2, <2>4 DEF Inv
<1>10. CASE Settle(s)
  <2>1. PICK next \in {"read", "idle"} : Poller(s, "sort", next)
    BY <1>10 DEF Settle
  <2>2. /\ DropMbx(rbuf[s])
        /\ rbuf' = [rbuf EXCEPT ![s] = NULL]
        /\ UNCHANGED <<slavevars, linkvars, lost, content, rtoggle, mailvars>>
    BY <1>10, <2>1 DEF Settle, Poller
  <2>3. BufInv' /\ PoolTypeOK' /\ poolcount' \in 0 .. PoolSize
    BY <2>1, <2>2, PollerReturns
  <2>4. rbuf' \in [Slaves -> Buffers \cup {NULL}]
    BY <1>0, <2>2
  <2>5. SlaveTypeOK'
    BY <1>0, <1>2, <2>2 DEF SlaveTypeOK
  <2>6. TypeOK' /\ RunInv'
    BY <1>0, <2>1, <2>2, <2>3, <2>4, <2>5, PollerTypes DEF mailvars
  <2>7. QED
    BY <2>3, <2>6 DEF Inv
<1>11. QED
  BY <1>5, <1>6, <1>7, <1>8, <1>9, <1>10

(* Asking a slave to repeat a mail whose read failed.                      *)
LEMMA AskAgainSteps ==
  ASSUME Inv, NEW s \in Slaves,
         \/ StatusRead(s) \/ RequestWrite(s) \/ AckWait(s) \/ RefillWait(s)
         \/ GiveUpMail(s)
  PROVE  Inv'
<1> USE DEF Stops, Waits, Repeats
<1>0. /\ PoolTypeOK /\ poolcount \in 0 .. PoolSize
      /\ SlaveTypeOK
      /\ content \in [Buffers -> Mail \cup {NoMail}]
      /\ rbuf \in [Slaves -> Buffers \cup {NULL}]
      /\ rtoggle \in [Slaves -> BOOLEAN]
      /\ accepted \in [Slaves -> 0 .. MaxMail]
      /\ excused \in [Slaves -> BOOLEAN]
  BY DEF Inv, TypeOK
<1>1. CASE GiveUpMail(s)
  <2>1. PICK at \in {"ack", "refill", "spent"} : Poller(s, at, "idle")
    BY <1>1 DEF GiveUpMail
  <2>2. /\ DropMbx(rbuf[s])
        /\ rbuf' = [rbuf EXCEPT ![s] = NULL]
        /\ excused' = [excused EXCEPT ![s] = TRUE]
        /\ UNCHANGED <<slavevars, linkvars, lost, content, rtoggle, accepted>>
    BY <1>1, <2>1 DEF GiveUpMail, Poller
  <2>3. BufInv' /\ PoolTypeOK' /\ poolcount' \in 0 .. PoolSize
    BY <2>1, <2>2, PollerReturns
  <2>4. /\ rbuf' \in [Slaves -> Buffers \cup {NULL}]
        /\ excused' \in [Slaves -> BOOLEAN]
    BY <1>0, <2>2
  <2>5. SlaveTypeOK'
    BY <1>0, <2>2 DEF SlaveTypeOK, slavevars, linkvars
  <2>6. TypeOK' /\ RunInv'
    BY <1>0, <2>1, <2>2, <2>3, <2>4, <2>5, PollerTypes
  <2>7. QED
    BY <2>3, <2>6 DEF Inv
<1>2. CASE ~GiveUpMail(s)
  <2>1. PICK at \in Repeats, next \in Repeats \cup {"read"}, outcome \in Outcomes :
          RepeatStep(s, at, outcome, next)
    BY <1>2 DEF StatusRead, RequestWrite, AckWait, RefillWait, Outcomes
  <2>2. /\ Poller(s, at, next) /\ Datagram(s, outcome)
        /\ UNCHANGED <<poolvars, outbox, lastread, deferred, repeatack, posted,
                       content, rbuf, mailvars, linkvars>>
    BY <2>1 DEF RepeatStep, Poller
  <2>3. BufInv'
    BY <2>2, PollerQuiet
  <2>4. PoolTypeOK' /\ poolcount' \in 0 .. PoolSize
    BY <1>0, <2>2 DEF PoolTypeOK, poolvars
  <2>5. lost' \in 0 .. MaxLost
    BY <1>0, <2>2, MailAssumption DEF Datagram, SlaveTypeOK
  <2>6. /\ repeatreq' \in [Slaves -> BOOLEAN]
        /\ rtoggle' \in [Slaves -> BOOLEAN]
    <3>1. CASE StatusRead(s)
      <4>1. /\ UNCHANGED repeatreq
            /\ \/ \E bit \in BOOLEAN : rtoggle' = [rtoggle EXCEPT ![s] = bit]
               \/ UNCHANGED rtoggle
        BY <3>1 DEF StatusRead, Toggled
      <4>2. QED
        BY <1>0, <4>1 DEF SlaveTypeOK
    <3>2. CASE RequestWrite(s) \/ AckWait(s) \/ RefillWait(s)
      <4>1. /\ UNCHANGED rtoggle
            /\ \/ UNCHANGED repeatreq
               \/ repeatreq' = [repeatreq EXCEPT ![s] = rtoggle[s]]
        BY <3>2 DEF RequestWrite, AckWait, RefillWait
      <4>2. QED
        BY <1>0, <4>1 DEF SlaveTypeOK
    <3>3. QED
      BY <1>2, <3>1, <3>2
  <2>7. SlaveTypeOK'
    BY <1>0, <2>2, <2>5, <2>6 DEF SlaveTypeOK, linkvars
  <2>8. TypeOK' /\ RunInv'
    BY <1>0, <2>2, <2>4, <2>6, <2>7, PollerTypes DEF mailvars
  <2>9. QED
    BY <2>3, <2>8 DEF Inv
<1>3. QED
  BY <1>1, <1>2
-----------------------------------------------------------------------------
(* What the slaves and the application do. *)

LEMMA MasterUntouched ==
  ASSUME Inv, UNCHANGED mastervars, SlaveTypeOK', UNCHANGED accepted,
         excused' \in [Slaves -> BOOLEAN]
  PROVE  Inv'
<1> USE DEF mastervars, appvars, robustvars, slotvars, handlervars, runvars, recvvars
<1>1. RunInv'
  BY DEF Inv, RunInv
<1>2. BufInv'
  BY QuietBuffers
<1>3. PoolTypeOK' /\ poolcount' \in 0 .. PoolSize
  BY DEF Inv, TypeOK, PoolTypeOK, poolvars
<1>4. TypeOK'
  BY <1>3 DEF Inv, TypeOK, Buffers
<1>5. QED
  BY <1>1, <1>2, <1>4 DEF Inv

LEMMA SlaveSteps ==
  ASSUME Inv, NEW s \in Slaves, Firmware(s) \/ Fault(s)
  PROVE  Inv'
<1>0. SlaveTypeOK /\ accepted \in [Slaves -> 0 .. MaxMail]
      /\ excused \in [Slaves -> BOOLEAN]
  BY DEF Inv, TypeOK
<1>1. /\ UNCHANGED mastervars /\ UNCHANGED accepted
      /\ UNCHANGED excused \/ excused' = [excused EXCEPT ![s] = TRUE]
  BY DEF Firmware, Fault, mailvars
<1>2. excused' \in [Slaves -> BOOLEAN]
  BY <1>0, <1>1
<1>3. SlaveTypeOK'
  <2>1. ASSUME NEW kind \in Kinds, Post(s, kind) PROVE SlaveTypeOK'
    <3>1. CASE deferred[s] # NoMail
      BY <1>0, <2>1, <3>1 DEF Post, SlaveTypeOK, linkvars
    <3>2. CASE deferred[s] = NoMail
      <4>1. posted[s] + 1 \in 1 .. MaxMail /\ posted[s] + 1 \in 0 .. MaxMail
        BY <1>0, <2>1, <3>2, MailAssumption DEF Post, SlaveTypeOK
      <4>2. [no |-> posted[s] + 1, kind |-> kind] \in Mail
        BY <4>1 DEF Mail
      <4>3. /\ posted' \in [Slaves -> 0 .. MaxMail]
            /\ outbox' \in [Slaves -> Mail \cup {NoMail}]
        BY <1>0, <2>1, <3>2, <4>1, <4>2 DEF Post, SlaveTypeOK
      <4>4. QED
        BY <1>0, <2>1, <3>2, <4>3 DEF Post, SlaveTypeOK, linkvars
    <3>3. QED
      BY <3>1, <3>2
  <2>2. CASE Repeat(s)
    <3>1. repeatack' \in [Slaves -> BOOLEAN]
      BY <1>0, <2>2 DEF Repeat, SlaveTypeOK
    <3>2. /\ outbox' \in [Slaves -> Mail \cup {NoMail}]
          /\ deferred' \in [Slaves -> Mail \cup {NoMail}]
      BY <1>0, <2>2 DEF Repeat, SlaveTypeOK
    <3>3. QED
      BY <1>0, <2>2, <3>1, <3>2 DEF Repeat, SlaveTypeOK, linkvars
  <2>3. CASE Disconnect(s) \/ Reconnect(s)
    <3>1. UNCHANGED <<slavevars, lost>>
      BY <2>3 DEF Disconnect, Reconnect
    <3>2. reachable' \in [Slaves -> BOOLEAN]
      BY <1>0, <2>3 DEF Disconnect, Reconnect, SlaveTypeOK
    <3>3. faults' \in 0 .. MaxFaults
      BY <1>0, <2>3, MailAssumption DEF Disconnect, Reconnect, SlaveTypeOK
    <3>4. QED
      BY <1>0, <3>1, <3>2, <3>3 DEF SlaveTypeOK, slavevars
  <2>4. CASE Restart(s)
    <3>1. /\ outbox' \in [Slaves -> Mail \cup {NoMail}]
          /\ lastread' \in [Slaves -> Mail \cup {NoMail}]
          /\ deferred' \in [Slaves -> Mail \cup {NoMail}]
      BY <1>0, <2>4 DEF Restart, SlaveTypeOK
    <3>2. /\ repeatreq' \in [Slaves -> BOOLEAN]
          /\ repeatack' \in [Slaves -> BOOLEAN]
      BY <1>0, <2>4 DEF Restart, SlaveTypeOK
    <3>3. QED
      BY <1>0, <2>4, <3>1, <3>2 DEF Restart, SlaveTypeOK, linkvars
  <2>5. QED
    BY <2>1, <2>2, <2>3, <2>4 DEF Firmware, Fault
<1>4. QED
  BY <1>1, <1>2, <1>3, MasterUntouched

LEMMA MarkSteps ==
  ASSUME Inv, NEW s \in Slaves, Mark(s)
  PROVE  Inv'
<1>1. UNCHANGED <<poolvars, slavevars, reachable, lost, robustvars, slotvars, content,
                  handlervars, recvvars, accepted>>
  BY DEF Mark
<1>2. BufInv'
  BY <1>1, QuietBuffers DEF slotvars, handlervars, recvvars
<1>3. RunInv'
  BY <1>1 DEF Inv, RunInv, handlervars, runvars
<1>4. PoolTypeOK' /\ poolcount' \in 0 .. PoolSize
  BY <1>1 DEF Inv, TypeOK, PoolTypeOK, poolvars
<1>5. SlaveTypeOK'
  <2>1. faults' \in 0 .. MaxFaults
    BY MailAssumption DEF Mark, Inv, TypeOK, SlaveTypeOK
  <2>2. QED
    BY <1>1, <2>1 DEF Inv, TypeOK, SlaveTypeOK, slavevars
<1>6. /\ islost' \in [Slaves -> BOOLEAN]
      /\ mbxhandlerstate' \in [Slaves -> {"none", "cyclic", "lost"}]
      /\ excused' \in [Slaves -> BOOLEAN]
  <2>1. /\ islost \in [Slaves -> BOOLEAN]
        /\ mbxhandlerstate \in [Slaves -> {"none", "cyclic", "lost"}]
        /\ excused \in [Slaves -> BOOLEAN]
    BY DEF Inv, TypeOK
  <2>2. /\ UNCHANGED islost \/ islost' = [islost EXCEPT ![s] = ~@]
        /\ \/ UNCHANGED <<mbxhandlerstate, excused>>
           \/ /\ \E state \in {"cyclic", "lost"} :
                   mbxhandlerstate' = [mbxhandlerstate EXCEPT ![s] = state]
              /\ \E bit \in BOOLEAN : excused' = [excused EXCEPT ![s] = bit]
    BY <2>1 DEF Mark
  <2>3. QED
    BY <2>1, <2>2
<1>7. TypeOK'
  BY <1>1, <1>4, <1>5, <1>6
     DEF Inv, TypeOK, robustvars, slotvars, handlervars, runvars, recvvars, Buffers
<1>8. QED
  BY <1>2, <1>3, <1>7 DEF Inv
-----------------------------------------------------------------------------
LEMMA InvStep == Inv /\ [Next]_vars => Inv'
<1> SUFFICES ASSUME Inv, [Next]_vars PROVE Inv'
  OBVIOUS
<1>1. CASE Handler
  BY <1>1, RoundSteps, RepeatSteps, FetchSteps, DeliverSteps DEF Handler
<1>2. ASSUME NEW s \in Callers, Receive(s) \/ DirectCall(s) \/ ReceiverStep(s)
      PROVE  Inv'
  <2>1. s \in Slaves
    BY ReceiveAssumption
  <2>2. QED
    BY <1>2, <2>1, PollSteps, ReadSteps, AskAgainSteps DEF ReceiverStep
<1>3. ASSUME NEW s \in Slaves, Firmware(s) \/ Fault(s) \/ Mark(s) PROVE Inv'
  BY <1>3, SlaveSteps, MarkSteps
<1>4. CASE UNCHANGED vars
  <2>1. UNCHANGED <<mastervars, slavevars, linkvars, lost, accepted, excused>>
    BY <1>4 DEF vars, mastervars, mailvars
  <2>2. SlaveTypeOK' /\ excused' \in [Slaves -> BOOLEAN]
    BY <2>1 DEF Inv, TypeOK, SlaveTypeOK, slavevars, linkvars
  <2>3. QED
    BY <2>1, <2>2, MasterUntouched
<1>5. QED
  BY <1>1, <1>2, <1>3, <1>4 DEF Next

(* Whatever is lost and fails, handler, receivers and slots stay in step   *)
(* with each other between any two of their accesses.                      *)
THEOREM InvHolds == Spec => []Inv
<1>1. QED
  BY InitRecv, InvStep, PTL DEF Spec

(* Every variable keeps its type; in particular the pool never counts more *)
(* buffers than it has, and the handler never visits more slaves than      *)
(* there are, whatever frames are lost and slaves fail.                    *)
THEOREM TypeCorrect == Spec => []TypeOK
<1>1. Inv => TypeOK
  BY DEF Inv
<1>2. QED
  BY InvHolds, <1>1, PTL

(* The handler, which fills slots, and the threads in ecx_mbxreceive,      *)
(* which empty them without a lock or read a mailbox themselves, neither   *)
(* lose a buffer nor ever own one twice.                                   *)
THEOREM ReceiveBuffersConserved == Spec => []BuffersConserved
<1>1. Inv => BuffersConserved
  BY HeldIsConserved DEF Inv, BufInv
<1>2. QED
  BY InvHolds, <1>1, PTL

(* A slot whose flag is set points to a mail of its protocol: no receiver  *)
(* ever sees the flag of a mail without its pointer.                       *)
THEOREM SlotsAreMatched == Spec => []SlotsMatch
<1>1. Inv => SlotsMatch
  BY DEF Inv, BufInv
<1>2. QED
  BY InvHolds, <1>1, PTL
-----------------------------------------------------------------------------
(* Whose turn it is.  A run of the handler goes on round the ring from     *)
(* where the one before stopped and visits at least one slave, so that a   *)
(* slave it leaves out is nearer at the next run.                          *)

(* How many visits a handler at pos is away from slave s. *)
Ahead(pos, s) == IF s > pos THEN s - pos ELSE s - pos + NSlaves

(* Where the last run ended. *)
Before == IF hpc = "idle" THEN lastmbxpos ELSE firstmbxpos - 1

TurnInv ==
  /\ \A s \in Slaves : waited[s] + Ahead(Before, s) <= NSlaves
  /\ hpc # "idle" => /\ firstmbxpos >= 1
                     /\ lastmbxpos = Place(firstmbxpos - 1 + cnt)
                     /\ cnt = 0 => hpc = "visit" /\ maxcnt = NSlaves

LEMMA AheadBounds ==
  ASSUME NEW pos \in Slaves, NEW s \in Slaves
  PROVE  Ahead(pos, s) \in 1 .. NSlaves
BY MailAssumption DEF Ahead, Slaves

(* A run that went cnt slaves on has visited those that were not further   *)
(* ahead, and is so much nearer to the others.                             *)
LEMMA NearerOrVisited ==
  ASSUME firstmbxpos \in 1 .. NSlaves, cnt \in 0 .. NSlaves, NEW s \in Slaves,
         s \notin Visited
  PROVE  Ahead(Place(firstmbxpos - 1 + cnt), s) = Ahead(firstmbxpos - 1, s) - cnt
<1> DEFINE d == Ahead(firstmbxpos - 1, s)
<1>1. d \in 1 .. NSlaves
  BY MailAssumption DEF Ahead, Slaves
<1>2. s = Place(firstmbxpos + (d - 1))
  BY MailAssumption DEF Ahead, Slaves, Place
<1>3. d > cnt
  <2>1. SUFFICES ASSUME d <= cnt PROVE FALSE
    BY <1>1
  <2>2. d - 1 \in 0 .. cnt - 1
    BY <1>1, <2>1
  <2>3. QED
    BY <1>2, <2>2 DEF Visited
<1>4. QED
  BY <1>1, <1>3, MailAssumption DEF Ahead, Slaves, Place

LEMMA TurnStep == Inv /\ TurnInv /\ [Next]_vars => TurnInv'
<1> SUFFICES ASSUME Inv, TurnInv, [Next]_vars PROVE TurnInv'
  OBVIOUS
<1>0. /\ lastmbxpos \in Slaves /\ firstmbxpos \in 0 .. NSlaves /\ cnt \in 0 .. NSlaves
      /\ maxcnt \in {0, NSlaves} /\ waited \in [Slaves -> Nat] /\ NSlaves \in Nat \ {0}
  BY MailAssumption DEF Inv, TypeOK
<1>1. CASE Cycle
  <2>1. /\ hpc = "idle" /\ hpc' = "visit" /\ cnt' = 0 /\ maxcnt' = NSlaves
        /\ firstmbxpos' = lastmbxpos + 1 /\ UNCHANGED <<lastmbxpos, waited>>
    BY <1>1 DEF Cycle, FirstPos
  <2>2. Before' = Before
    BY <1>0, <2>1 DEF Before, Slaves
  <2>3. lastmbxpos' = Place(firstmbxpos' - 1 + cnt')
    BY <1>0, <2>1 DEF Place, Slaves
  <2>4. firstmbxpos' >= 1
    BY <1>0, <2>1 DEF Slaves
  <2>5. \A s \in Slaves : waited'[s] + Ahead(Before', s) <= NSlaves
    BY <2>1, <2>2 DEF TurnInv
  <2>6. QED
    BY <2>1, <2>3, <2>4, <2>5 DEF TurnInv, Ahead, Slaves, Place
<1>2. CASE Visit
  <2>1. /\ hpc = "visit" /\ hpc' \in {"serve", "visit"} /\ cnt' = cnt + 1
        /\ lastmbxpos' = Place(firstmbxpos + cnt)
        /\ UNCHANGED <<firstmbxpos, maxcnt, waited>>
    BY <1>2 DEF Visit
  <2>2. Before' = Before
    BY <2>1 DEF Before
  <2>3. firstmbxpos' - 1 + cnt' = firstmbxpos + cnt /\ cnt' # 0
    BY <1>0, <2>1
  <2>4. QED
    BY <2>1, <2>2, <2>3 DEF TurnInv, Ahead, Slaves, Place
<1>3. CASE Finish
  <2>1. /\ hpc = "visit" /\ cnt >= maxcnt /\ hpc' = "idle"
        /\ waited' = [s \in Slaves |-> IF mbxstatus[s] /\ s \notin Visited
                                       THEN waited[s] + 1 ELSE 0]
        /\ UNCHANGED lastmbxpos
    BY <1>3 DEF Finish
  <2>2. cnt >= 1 /\ firstmbxpos \in 1 .. NSlaves
    BY <1>0, <2>1 DEF TurnInv
  <2>3. Before' = Place(firstmbxpos - 1 + cnt) /\ Before = firstmbxpos - 1
    BY <2>1 DEF TurnInv, Before
  <2>4. ASSUME NEW s \in Slaves PROVE waited'[s] + Ahead(Before', s) <= NSlaves
    <3>1. Ahead(Before', s) \in 1 .. NSlaves /\ Ahead(Before, s) \in 1 .. NSlaves
      <4>1. Before' \in Slaves /\ Before \in Slaves
        BY <1>0, <2>1, <2>2, <2>3 DEF Before, Slaves
      <4>2. QED
        BY <4>1, AheadBounds
    <3>2. CASE mbxstatus[s] /\ s \notin Visited
      <4>1. Ahead(Before', s) = Ahead(Before, s) - cnt
        BY <1>0, <2>2, <2>3, <3>2, NearerOrVisited
      <4>2. waited[s] + Ahead(Before, s) <= NSlaves
        BY DEF TurnInv
      <4>3. QED
        BY <1>0, <2>1, <2>2, <3>1, <3>2, <4>1, <4>2
    <3>3. CASE ~(mbxstatus[s] /\ s \notin Visited)
      BY <1>0, <2>1, <3>1, <3>3
    <3>4. QED
      BY <3>2, <3>3
  <2>5. QED
    BY <2>1, <2>4 DEF TurnInv, Ahead, Slaves
<1>4. CASE /\ UNCHANGED <<waited, lastmbxpos, firstmbxpos, cnt>>
           /\ \/ UNCHANGED <<hpc, maxcnt>>
              \/ hpc \notin {"idle", "visit"} /\ hpc' # "idle"
  BY <1>4 DEF TurnInv, Before, Ahead, Slaves, Place
<1>5. CASE Handler
  <2>1. CASE \/ \E state \in 1 .. 3 : GiveUpRepeat(state)
             \/ RepeatRead \/ RepeatWrite \/ RepeatWait
    BY <1>4, <2>1 DEF GiveUpRepeat, RepeatRead, RepeatWrite, RepeatWait, Repeating,
                      RobustStep, CountOperation, runvars
  <2>2. CASE TakeBuffer \/ Skip \/ Fetch \/ Drop
    BY <1>4, <2>2 DEF TakeBuffer, Skip, Fetch, Drop, CountOperation, runvars
  <2>3. CASE Report \/ HandOver \/ Publish \/ Overrun \/ Tunnel
    BY <1>4, <2>3 DEF Report, HandOver, Publish, Overrun, Tunnel, Deliver, runvars,
                      Protocols
  <2>4. QED
    BY <1>1, <1>2, <1>3, <1>5, <2>1, <2>2, <2>3 DEF Handler
<1>6. CASE UNCHANGED handlervars
  BY <1>4, <1>6 DEF handlervars, runvars
<1>7. ASSUME NEW s \in Callers, Receive(s) \/ DirectCall(s) \/ ReceiverStep(s)
      PROVE  UNCHANGED handlervars
  BY <1>7 DEF ReceiverStep, Receive, PollMiss, TakeMail, EnableSlot, ClearFlag, Release,
     Receiver, DirectCall, AwaitMore, AwaitFull, ReadDirect, ToCaller, Settle,
     StatusRead, RequestWrite, AckWait, RefillWait, GiveUpMail, RepeatStep, Poller
<1>8. ASSUME NEW s \in Slaves, Firmware(s) \/ Fault(s) \/ Mark(s)
      PROVE  UNCHANGED handlervars
  BY <1>8 DEF Firmware, Fault, Mark, mastervars
<1>9. QED
  BY <1>5, <1>6, <1>7, <1>8 DEF Next, vars

(* However many operations a run of the handler is limited to, and however *)
(* few buffers it finds, a slave whose mailbox is full is left out by at   *)
(* most NSlaves - 1 runs in a row.                                         *)
THEOREM TurnsAreFair == Spec => []FairTurn
<1>1. Init => TurnInv
  <2>1. ASSUME Init, NEW s \in Slaves PROVE waited[s] + Ahead(Before, s) <= NSlaves
    BY <2>1, MailAssumption DEF Init, Before, Ahead, Slaves
  <2>2. QED
    BY <2>1 DEF TurnInv, Init
<1>2. Inv /\ TurnInv => FairTurn
  <2> SUFFICES ASSUME Inv, TurnInv, NEW s \in Slaves PROVE waited[s] < NSlaves
    BY DEF FairTurn
  <2>1. Before \in Slaves
    BY MailAssumption DEF Inv, TypeOK, TurnInv, Before, Slaves
  <2>2. Ahead(Before, s) \in 1 .. NSlaves
    BY <2>1, AheadBounds
  <2>3. waited[s] + Ahead(Before, s) <= NSlaves /\ waited[s] \in Nat
    BY DEF Inv, TypeOK, TurnInv
  <2>4. QED
    BY <2>2, <2>3, MailAssumption
<1>3. QED
  BY InvHolds, <1>1, <1>2, TurnStep, PTL DEF Spec

-----------------------------------------------------------------------------
(* The refinement.  What is known of the mails of each slave: the last     *)
(* ones it sent are the ones it holds (MailShape), and unless the slave is *)
(* excused the main device either has accepted all that were read, or the  *)
(* answer to the last read was lost and the reader that missed it is about *)
(* to have it repeated, with no fresh mail in the way (StreamInv).         *)

Polling == Waits \cup Repeats
Fresh(s) == outbox[s] # NoMail /\ outbox[s] # lastread[s]
Quiet(s) == repeatreq[s] = repeatack[s]

(* The mails a slave holds are the last ones it sent. *)
MailShape(s) ==
  /\ lastread[s] = NoMail => deferred[s] = NoMail
  /\ outbox[s] = NoMail /\ deferred[s] = NoMail
       => lastread[s] = NoMail \/ lastread[s].no = posted[s]
  /\ Fresh(s) => /\ deferred[s] = NoMail
                 /\ outbox[s].no = posted[s]
                 /\ lastread[s] # NoMail => lastread[s].no = posted[s] - 1
  /\ outbox[s] # NoMail /\ outbox[s] = lastread[s] /\ deferred[s] = NoMail
       => lastread[s].no = posted[s]
  /\ deferred[s] # NoMail => /\ deferred[s].no = posted[s]
                             /\ lastread[s].no = posted[s] - 1
  /\ accepted[s] <= posted[s]
  /\ lastread[s] # NoMail => accepted[s] <= lastread[s].no

InStep(s) ==
  IF lastread[s] = NoMail
  THEN accepted[s] = 0 /\ posted[s] = (IF outbox[s] = NoMail THEN 0 ELSE 1)
  ELSE lastread[s].no = accepted[s]

(* The repetition is under way: outbox changes only to it. *)
Asked(s, bit) == repeatreq[s] = bit /\ (Quiet(s) => outbox[s] = lastread[s])
Toggle(s, bit) == Quiet(s) /\ repeatreq[s] # bit

HandlerRepeats(s) ==
  /\ mbxhandlerstate[s] # "none"
  /\ \/ mbxrmpstate[s] = 0 /\ Quiet(s) /\ outbox[s] = lastread[s]
     \/ mbxrmpstate[s] = 1 /\ Quiet(s)
     \/ mbxrmpstate[s] = 2 /\ Toggle(s, mbxinstateex[s])
     \/ mbxrmpstate[s] \in {2, 3} /\ Asked(s, mbxinstateex[s])

CallerRepeats(s) ==
  \/ rpc[s] \in {"read", "refill"} /\ Quiet(s) /\ outbox[s] = lastread[s]
  \/ rpc[s] = "status" /\ Quiet(s)
  \/ rpc[s] = "request" /\ Toggle(s, rtoggle[s])
  \/ rpc[s] = "ack" /\ (Toggle(s, rtoggle[s]) \/ Asked(s, rtoggle[s]))
  \/ rpc[s] \in {"overdue", "spent"}

MissedOne(s) ==
  /\ lastread[s] # NoMail
  /\ lastread[s].no = accepted[s] + 1
  /\ IF rpc[s] \in Polling THEN CallerRepeats(s) ELSE HandlerRepeats(s)

(* A request is only pending beside a fresh mail for its owner. *)
RequestInv(s) ==
  Fresh(s) /\ ~Quiet(s) =>
    IF rpc[s] \in Polling
    THEN rpc[s] = "spent" \/ (rpc[s] = "ack" /\ repeatreq[s] = rtoggle[s])
    ELSE mbxrmpstate[s] \in {2, 3} /\ repeatreq[s] = mbxinstateex[s]

StreamInv(s) ==
  ~excused[s] /\ rpc[s] # "crashed" => /\ InStep(s) \/ MissedOne(s)
                                       /\ RequestInv(s)
PlaceInv ==
  /\ hpc \notin {"idle", "visit"} => mbxhandlerstate[lastmbxpos] # "none"
  /\ hpc = "fetch" => mbxrmpstate[lastmbxpos] = 0
  /\ \A s \in Slaves : mbxhandlerstate[s] = "none" => mbxrmpstate[s] = 0

LinkInv ==
  /\ PlaceInv
  /\ \A s \in Slaves : /\ MailShape(s)
                       /\ Shared(s) => excused[s]
                       /\ StreamInv(s)

SlaveLink(s) == MailShape(s) /\ (Shared(s) => excused[s]) /\ StreamInv(s)

LEMMA MailTypes ==
  ASSUME TypeOK, NEW s \in Slaves
  PROVE  /\ posted[s] \in Nat /\ accepted[s] \in Nat
         /\ outbox[s] # NoMail => outbox[s].no \in Nat \ {0}
         /\ lastread[s] # NoMail => lastread[s].no \in Nat \ {0}
         /\ deferred[s] # NoMail => deferred[s].no \in Nat \ {0}
         /\ excused[s] \in BOOLEAN
<1> USE MailAssumption DEF TypeOK, SlaveTypeOK, Mail
<1>1. /\ posted[s] \in Nat /\ accepted[s] \in Nat /\ excused[s] \in BOOLEAN
  OBVIOUS
<1>2. /\ outbox[s] # NoMail => outbox[s] \in Mail
      /\ lastread[s] # NoMail => lastread[s] \in Mail
      /\ deferred[s] # NoMail => deferred[s] \in Mail
  OBVIOUS
<1>3. \A m \in Mail : m.no \in Nat \ {0}
  OBVIOUS
<1>4. QED
  BY <1>1, <1>2, <1>3

LEMMA LinkInit == Init => Link!Init /\ LinkInv
<1> SUFFICES ASSUME Init PROVE Link!Init /\ LinkInv
  OBVIOUS
<1> USE DEF Init, SlaveInit
<1>1. Link!Init
  BY DEF Link!Init, Link!Slaves, Slaves
<1>2. PlaceInv
  BY DEF PlaceInv
<1>3. ASSUME NEW s \in Slaves PROVE SlaveLink(s)
  <2>1. /\ outbox[s] = NoMail /\ lastread[s] = NoMail /\ deferred[s] = NoMail
        /\ posted[s] = 0 /\ accepted[s] = 0 /\ rpc[s] = "idle"
    OBVIOUS
  <2>2. QED
    BY <2>1 DEF SlaveLink, MailShape, Shared, Waits, Repeats, StreamInv, InStep,
                RequestInv, Fresh
<1>4. QED
  BY <1>1, <1>2, <1>3 DEF LinkInv, SlaveLink

-----------------------------------------------------------------------------
(* What a step that does not concern the mails of a slave leaves alone.    *)

StreamKept(s) ==
  /\ outbox'[s] = outbox[s] /\ lastread'[s] = lastread[s]
  /\ deferred'[s] = deferred[s]
  /\ posted'[s] = posted[s] /\ accepted'[s] = accepted[s]

RequestKept(s) ==
  /\ repeatreq'[s] = repeatreq[s] /\ repeatack'[s] = repeatack[s]

HandlerKept(s) ==
  /\ mbxhandlerstate'[s] = mbxhandlerstate[s]
  /\ mbxrmpstate'[s] = mbxrmpstate[s] /\ mbxinstateex'[s] = mbxinstateex[s]

CallerKept(s) ==
  \/ rpc'[s] = rpc[s] /\ rtoggle'[s] = rtoggle[s]
  \/ rpc[s] \notin Polling \cup {"crashed"} /\ rpc'[s] \notin Polling \cup {"crashed"}

Kept(s) ==
  /\ StreamKept(s) /\ RequestKept(s) /\ HandlerKept(s) /\ CallerKept(s)
  /\ excused'[s] = excused[s]
  /\ Shared(s)' => Shared(s)

LEMMA ShapeKept ==
  ASSUME NEW s \in Slaves, MailShape(s), StreamKept(s)
  PROVE  MailShape(s)'
BY DEF MailShape, StreamKept, Fresh

LEMMA StreamInvKept ==
  ASSUME NEW s \in Slaves, StreamInv(s), Kept(s)
  PROVE  StreamInv(s)'
<1> SUFFICES ASSUME ~excused'[s], rpc'[s] # "crashed"
             PROVE  (InStep(s) \/ MissedOne(s))' /\ RequestInv(s)'
  BY DEF StreamInv
<1> USE DEF Kept, StreamKept, RequestKept, HandlerKept, CallerKept, Polling
<1>1. (InStep(s) \/ MissedOne(s)) /\ RequestInv(s)
  BY DEF StreamInv
<1>2. InStep(s) => InStep(s)'
  BY DEF InStep
<1>3. /\ HandlerRepeats(s) => HandlerRepeats(s)'
      /\ rpc'[s] = rpc[s] /\ rtoggle'[s] = rtoggle[s]
           => (CallerRepeats(s) => CallerRepeats(s)')
  BY DEF HandlerRepeats, CallerRepeats, Quiet, Asked, Toggle
<1>4. MissedOne(s) => MissedOne(s)'
  BY <1>3 DEF MissedOne
<1>5. RequestInv(s)'
  BY <1>1 DEF RequestInv, Fresh, Quiet
<1>6. QED
  BY <1>1, <1>2, <1>4, <1>5

LEMMA KeptLink ==
  ASSUME NEW s \in Slaves, SlaveLink(s), Kept(s)
  PROVE  SlaveLink(s)'
BY ShapeKept, StreamInvKept DEF SlaveLink, Kept

(* A step that concerns the mails of one slave. *)
LEMMA OneSlave ==
  ASSUME LinkInv, NEW s \in Slaves,
         \A t \in Slaves \ {s} : Kept(t),
         SlaveLink(s)', PlaceInv'
  PROVE  LinkInv'
BY KeptLink DEF LinkInv, SlaveLink

(* Once excused, a slave only owes the shape of its mails. *)
LEMMA ExcusedLink ==
  ASSUME NEW s \in Slaves, MailShape(s)', excused'[s]
  PROVE  SlaveLink(s)'
BY DEF SlaveLink, StreamInv

(* A read of the mailbox: the mail goes to lastread, and if the answer     *)
(* comes back to the main device as well.                                  *)
LEMMA ReadShape ==
  ASSUME TypeOK, NEW s \in Slaves, MailShape(s), NEW outcome \in Outcomes,
         ReadOutbox(s, outcome),
         \/ accepted'[s] = accepted[s]
         \/ GotMail(s, outcome) /\ accepted'[s] = outbox[s].no
  PROVE  /\ MailShape(s)'
         /\ outbox[s] # NoMail => accepted[s] <= outbox[s].no /\ outbox[s].no <= posted[s]
<1>1. /\ outbox[s] # NoMail /\ outbox[s] # lastread[s] => Fresh(s)
      /\ outbox[s] # NoMail =>
           accepted[s] <= outbox[s].no /\ outbox[s].no <= posted[s]
  BY MailTypes DEF MailShape, Fresh
<1>2. CASE outcome # "unsent" /\ outbox[s] # NoMail
  <2>1. /\ lastread'[s] = outbox[s] /\ outbox'[s] = NoMail
        /\ deferred'[s] = deferred[s] /\ posted'[s] = posted[s]
    BY <1>2 DEF ReadOutbox, TypeOK, SlaveTypeOK
  <2>2. QED
    BY <1>1, <1>2, <2>1, MailTypes DEF MailShape, Fresh, GotMail
<1>3. CASE ~(outcome # "unsent" /\ outbox[s] # NoMail)
  <2>1. StreamKept(s)
    BY <1>3 DEF ReadOutbox, slavevars, StreamKept, GotMail
  <2>2. QED
    BY <1>1, <2>1, ShapeKept
<1>4. QED
  BY <1>2, <1>3

(* What the steps need of the types. *)
LEMMA LinkTypes ==
  ASSUME TypeOK
  PROVE  /\ \A f \in {outbox, lastread, deferred, posted, accepted, excused} :
              f = [s \in Slaves |-> f[s]]
         /\ \A f \in {repeatreq, repeatack, mbxhandlerstate, mbxrmpstate} :
              f = [s \in Slaves |-> f[s]]
         /\ \A f \in {mbxinstateex, rpc, rtoggle, reachable, islost} :
              f = [s \in Slaves |-> f[s]]
         /\ lastmbxpos \in Slaves
         /\ excused \in [Slaves -> BOOLEAN]
         /\ repeatreq \in [Slaves -> BOOLEAN]
BY DEF TypeOK, SlaveTypeOK

(* While the handler is at a slave that a caller polls, it is excused.     *)
LEMMA HandlerAlone ==
  ASSUME LinkInv, NEW s \in Slaves, lastmbxpos = s, hpc \in {"serve", "fetch"},
         ~excused[s]
  PROVE  rpc[s] \notin Polling
BY DEF LinkInv, Shared, Polling

-----------------------------------------------------------------------------
(* The handler. *)

LEMMA RoundLink ==
  ASSUME Inv, LinkInv,
         \/ Cycle \/ Visit \/ Finish \/ TakeBuffer \/ Skip \/ Report
         \/ HandOver \/ Publish \/ Overrun \/ Tunnel \/ Drop
  PROVE  LinkInv' /\ UNCHANGED <<posted, mailvars>>
<1>1. UNCHANGED <<slavevars, appvars, robustvars, recvvars, mailvars>>
  BY DEF Cycle, Visit, Finish, TakeBuffer, Skip, Report, HandOver, Publish, Overrun,
         Tunnel, Drop, Deliver, GetMbx, DropMbx
<1>2. \/ hpc' \in {"idle", "visit"}
      \/ hpc' = "serve" /\ mbxhandlerstate[lastmbxpos'] = "cyclic"
      \/ /\ lastmbxpos' = lastmbxpos
         /\ \/ hpc = "serve" /\ hpc' = "fetch" /\ mbxrmpstate[lastmbxpos] = 0
            \/ hpc = "deliver" /\ hpc' \notin {"idle", "visit", "serve", "fetch"}
  BY DEF Cycle, Visit, Finish, TakeBuffer, Skip, Report, HandOver, Publish, Overrun,
         Tunnel, Drop, Deliver, CountOverrun, Protocols
<1>3. ASSUME NEW s \in Slaves PROVE Kept(s)
  <2>1. Shared(s)' => Shared(s)
    BY <1>1, <1>2 DEF Shared, appvars, recvvars
  <2>2. QED
    BY <1>1, <2>1 DEF Kept, StreamKept, RequestKept, HandlerKept, CallerKept,
                      slavevars, appvars, robustvars, recvvars, mailvars
<1>4. PlaceInv'
  BY <1>1, <1>2 DEF LinkInv, PlaceInv, appvars, robustvars
<1>5. QED
  BY <1>1, <1>3, <1>4, KeptLink DEF LinkInv, SlaveLink, slavevars

LEMMA GiveUpRepeatLink ==
  ASSUME Inv, LinkInv, NEW state \in 1 .. 3, GiveUpRepeat(state)
  PROVE  LinkInv' /\ Link!Next
<1>0. TypeOK
  BY DEF Inv
<1>9. PICK s \in Slaves : s = lastmbxpos
  BY <1>0, LinkTypes
<1>1. /\ UNCHANGED <<slavevars, mbxinstateex, accepted, appvars, lastmbxpos, recvvars>>
      /\ mbxrmpstate' = [mbxrmpstate EXCEPT ![s] = 0]
      /\ excused' = [excused EXCEPT ![s] = TRUE]
      /\ hpc = "serve" /\ hpc' = "visit" /\ islost[s]
  BY <1>9 DEF GiveUpRepeat, Repeating
<1>2. ASSUME NEW t \in Slaves \ {s} PROVE Kept(t)
  <2>1. mbxrmpstate'[t] = mbxrmpstate[t] /\ excused'[t] = excused[t]
    BY <1>0, <1>1, LinkTypes
  <2>2. Shared(t)' => Shared(t)
    BY <1>1 DEF Shared, appvars, recvvars
  <2>3. QED
    BY <1>1, <2>1, <2>2 DEF Kept, StreamKept, RequestKept, HandlerKept, CallerKept,
                            slavevars, appvars, recvvars
<1>3. SlaveLink(s)'
  <2>1. MailShape(s)'
    BY <1>0, <1>1, ShapeKept DEF LinkInv, StreamKept, slavevars
  <2>2. excused'[s]
    BY <1>0, <1>1, LinkTypes
  <2>3. QED
    BY <1>0, <1>1, <2>1, <2>2 DEF SlaveLink, StreamInv
<1>4. PlaceInv'
  BY <1>0, <1>1, <1>9, LinkTypes DEF LinkInv, PlaceInv, appvars
<1>5. Link!Excuse(s)
  BY <1>0, <1>1 DEF Link!Excuse, slavevars
<1>6. LinkInv'
  BY <1>0, <1>2, <1>3, <1>4, OneSlave
<1>7. Link!Next
  BY <1>0, <1>5 DEF Link!Next, Link!Slaves, Slaves
<1>8. QED
  BY <1>6, <1>7

(* A step of the repetition, which changes the request and what the        *)
(* handler knows of it.                                                    *)
LEMMA RobustLink ==
  ASSUME TypeOK, LinkInv, NEW s \in Slaves, s = lastmbxpos,
         hpc = "serve", hpc' = "visit",
         UNCHANGED <<outbox, lastread, deferred, posted, repeatack, appvars,
                     lastmbxpos, recvvars, mailvars>>,
         \A t \in Slaves \ {s} : /\ repeatreq'[t] = repeatreq[t]
                                 /\ mbxrmpstate'[t] = mbxrmpstate[t]
                                 /\ mbxinstateex'[t] = mbxinstateex[t],
         HandlerRepeats(s) => HandlerRepeats(s)',
         rpc[s] \notin Polling /\ RequestInv(s) => RequestInv(s)'
  PROVE  LinkInv' /\ UNCHANGED <<posted, mailvars>>
<1>1. \A t \in Slaves : Shared(t)' => Shared(t)
  BY DEF Shared, appvars, recvvars
<1>2. ASSUME NEW t \in Slaves \ {s} PROVE Kept(t)
  BY <1>1 DEF Kept, StreamKept, RequestKept, HandlerKept, CallerKept, appvars, recvvars,
              mailvars
<1>3. SlaveLink(s)'
  <2>1. MailShape(s)'
    BY ShapeKept DEF LinkInv, StreamKept, mailvars
  <2>2. Shared(s)' => excused'[s]
    BY <1>1 DEF LinkInv, mailvars
  <2>3. ASSUME ~excused'[s], rpc'[s] # "crashed"
        PROVE  (InStep(s) \/ MissedOne(s))' /\ RequestInv(s)'
    <3>1. ~excused[s] /\ rpc[s] # "crashed" /\ rpc'[s] = rpc[s]
      BY <2>3 DEF mailvars, recvvars
    <3>2. rpc[s] \notin Polling
      BY <3>1, HandlerAlone
    <3>3. (InStep(s) \/ MissedOne(s)) /\ RequestInv(s)
      BY <3>1 DEF LinkInv, StreamInv
    <3>4. InStep(s) => InStep(s)'
      BY DEF InStep, mailvars
    <3>5. MissedOne(s) => MissedOne(s)'
      BY <3>1, <3>2 DEF MissedOne, mailvars
    <3>6. QED
      BY <3>2, <3>3, <3>4, <3>5
  <2>4. QED
    BY <2>1, <2>2, <2>3 DEF SlaveLink, StreamInv
<1>4. PlaceInv'
  <2>1. mbxhandlerstate[s] # "none"
    BY DEF LinkInv, PlaceInv
  <2>2. \A t \in Slaves : mbxhandlerstate[t] = "none" => mbxrmpstate[t] = 0
    BY DEF LinkInv, PlaceInv
  <2>3. QED
    BY <2>1, <2>2 DEF PlaceInv, appvars
<1>5. LinkInv'
  BY <1>2, <1>3, <1>4, OneSlave
<1>6. QED
  BY <1>5 DEF mailvars

LEMMA RepeatReadLink ==
  ASSUME Inv, LinkInv, RepeatRead
  PROVE  LinkInv' /\ UNCHANGED <<posted, mailvars>>
<1>0. TypeOK
  BY DEF Inv
<1>1. PICK s \in Slaves : s = lastmbxpos
  BY <1>0, LinkTypes
<1>2. /\ hpc = "serve" /\ hpc' = "visit" /\ mbxrmpstate[s] = 1
      /\ UNCHANGED <<slavevars, appvars, lastmbxpos, recvvars, mailvars>>
  BY <1>1 DEF RepeatRead, RobustStep, Repeating
<1>3. \/ /\ mbxinstateex' = [mbxinstateex EXCEPT ![s] = Toggled(repeatreq[s])]
         /\ mbxrmpstate' = [mbxrmpstate EXCEPT ![s] = 2]
      \/ UNCHANGED <<mbxrmpstate, mbxinstateex>>
  BY <1>1 DEF RepeatRead, robustvars
<1>4. \/ /\ mbxinstateex'[s] = Toggled(repeatreq[s]) /\ mbxrmpstate'[s] = 2
      \/ mbxinstateex'[s] = mbxinstateex[s] /\ mbxrmpstate'[s] = mbxrmpstate[s]
  BY <1>0, <1>3, LinkTypes
<1>5. \A t \in Slaves \ {s} : /\ mbxrmpstate'[t] = mbxrmpstate[t]
                              /\ mbxinstateex'[t] = mbxinstateex[t]
  BY <1>0, <1>3, LinkTypes
<1>6. repeatreq[s] # Toggled(repeatreq[s])
  <2>1. repeatreq[s] \in BOOLEAN
    BY <1>0, LinkTypes
  <2>2. QED
    BY <2>1 DEF Toggled
<1>7. HandlerRepeats(s) => HandlerRepeats(s)'
  BY <1>2, <1>4, <1>6 DEF HandlerRepeats, Toggle, Quiet, appvars, slavevars
<1>8. rpc[s] \notin Polling /\ RequestInv(s) => RequestInv(s)'
  BY <1>2 DEF RequestInv, Fresh, Quiet, slavevars, recvvars
<1>9. QED
  BY <1>0, <1>1, <1>2, <1>5, <1>7, <1>8, RobustLink DEF slavevars

LEMMA RepeatWriteLink ==
  ASSUME Inv, LinkInv, RepeatWrite
  PROVE  LinkInv' /\ UNCHANGED <<posted, mailvars>>
<1>0. TypeOK
  BY DEF Inv
<1>1. PICK s \in Slaves : s = lastmbxpos
  BY <1>0, LinkTypes
<1>2. /\ hpc = "serve" /\ hpc' = "visit" /\ mbxrmpstate[s] = 2
      /\ UNCHANGED <<outbox, lastread, deferred, repeatack, posted, mbxinstateex,
                     appvars, lastmbxpos, recvvars, mailvars>>
  BY <1>1 DEF RepeatWrite, RobustStep, Repeating
<1>3. /\ \/ repeatreq' = repeatreq /\ mbxrmpstate' = mbxrmpstate
         \/ repeatreq' = [repeatreq EXCEPT ![s] = mbxinstateex[s]]
      /\ \/ mbxrmpstate' = mbxrmpstate
         \/ mbxrmpstate' = [mbxrmpstate EXCEPT ![s] = 3]
  BY <1>1 DEF RepeatWrite
<1>4. /\ \/ repeatreq'[s] = repeatreq[s] /\ mbxrmpstate'[s] = 2
         \/ repeatreq'[s] = mbxinstateex[s]
      /\ mbxrmpstate'[s] \in {2, 3}
  BY <1>0, <1>2, <1>3, LinkTypes
<1>5. \A t \in Slaves \ {s} : /\ mbxrmpstate'[t] = mbxrmpstate[t]
                              /\ repeatreq'[t] = repeatreq[t]
  BY <1>0, <1>3, LinkTypes
<1>7. HandlerRepeats(s) => HandlerRepeats(s)'
  BY <1>2, <1>4 DEF HandlerRepeats, Toggle, Asked, Quiet, appvars
<1>8. rpc[s] \notin Polling /\ RequestInv(s) => RequestInv(s)'
  BY <1>2, <1>4 DEF RequestInv, Fresh, Quiet, recvvars
<1>9. QED
  BY <1>0, <1>1, <1>2, <1>5, <1>7, <1>8, RobustLink

LEMMA RepeatWaitLink ==
  ASSUME Inv, LinkInv, RepeatWait
  PROVE  LinkInv' /\ UNCHANGED <<posted, mailvars>>
<1>0. TypeOK
  BY DEF Inv
<1>1. PICK s \in Slaves : s = lastmbxpos
  BY <1>0, LinkTypes
<1>2. /\ hpc = "serve" /\ hpc' = "visit" /\ mbxrmpstate[s] = 3
      /\ UNCHANGED <<slavevars, mbxinstateex, appvars, lastmbxpos, recvvars, mailvars>>
  BY <1>1 DEF RepeatWait, RobustStep, Repeating
<1>3. \/ mbxrmpstate' = mbxrmpstate
      \/ /\ mbxrmpstate' = [mbxrmpstate EXCEPT ![s] = 0]
         /\ repeatack[s] = mbxinstateex[s]
  BY <1>1 DEF RepeatWait, Acknowledged
<1>4. \/ mbxrmpstate'[s] = 3
      \/ mbxrmpstate'[s] = 0 /\ repeatack[s] = mbxinstateex[s]
  BY <1>0, <1>2, <1>3, LinkTypes
<1>5. \A t \in Slaves \ {s} : mbxrmpstate'[t] = mbxrmpstate[t]
  BY <1>0, <1>3, LinkTypes
<1>7. HandlerRepeats(s) => HandlerRepeats(s)'
  BY <1>2, <1>4 DEF HandlerRepeats, Asked, Quiet, appvars, slavevars
<1>8. rpc[s] \notin Polling /\ RequestInv(s) => RequestInv(s)'
  BY <1>2, <1>4 DEF RequestInv, Fresh, Quiet, recvvars, slavevars
<1>9. QED
  BY <1>0, <1>1, <1>2, <1>5, <1>7, <1>8, RobustLink DEF slavevars

-----------------------------------------------------------------------------
(* Reading a mailbox. *)

(* The mail in the mailbox of a slave that is not excused is the last one  *)
(* accepted, or the next one.                                              *)
NextInLine(s) ==
  InStep(s) \/ (outbox[s] = lastread[s] /\ lastread[s].no = accepted[s] + 1)

LEMMA NextMail ==
  ASSUME TypeOK, NEW s \in Slaves, MailShape(s), outbox[s] # NoMail, NextInLine(s)
  PROVE  outbox[s].no \in {accepted[s], accepted[s] + 1}
BY MailTypes DEF NextInLine, MailShape, Fresh, InStep

LEMMA AcceptServes ==
  ASSUME TypeOK, NEW s \in Slaves, MailShape(s), outbox[s] # NoMail,
         excused[s] \/ NextInLine(s),
         UNCHANGED posted,
         accepted' = [accepted EXCEPT ![s] = outbox[s].no],
         excused' = [excused EXCEPT ![s] = ExcusedAfter(s, outbox[s])]
  PROVE  Link!Next
<1>1. /\ outbox[s].no \in Nat \ {0} /\ accepted[s] \in Nat /\ posted[s] \in Nat
      /\ accepted[s] <= outbox[s].no /\ outbox[s].no <= posted[s]
  BY MailTypes DEF MailShape, Fresh
<1>2. CASE outbox[s].no = accepted[s]
  <2>1. accepted' = accepted /\ excused' = excused
    BY <1>2, LinkTypes DEF ExcusedAfter
  <2>2. QED
    BY <2>1 DEF Link!Next, Link!mailvars
<1>3. CASE outbox[s].no # accepted[s]
  <2>1. \/ outbox[s].no = accepted[s] + 1
        \/ excused[s] /\ outbox[s].no > accepted[s]
    BY <1>1, <1>3, NextMail
  <2>2. excused' = [excused EXCEPT ![s] = [t \in Slaves |-> Shared(t)][s]]
    BY <1>3 DEF ExcusedAfter
  <2>3. outbox[s].no \in 1 .. posted[s]
    BY <1>1
  <2>4. Link!Accept(s)
    BY <2>1, <2>2, <2>3 DEF Link!Accept
  <2>5. QED
    BY <2>4 DEF Link!Next, Link!Slaves, Slaves
<1>4. QED
  BY <1>2, <1>3

(* After a mail was accepted everything is in step again. *)
LEMMA AcceptKeeps ==
  ASSUME NEW s \in Slaves, Shared(s) => excused[s],
         outbox[s] # NoMail, lastread'[s] = outbox[s], outbox'[s] = NoMail,
         accepted'[s] = outbox[s].no, excused'[s] = ExcusedAfter(s, outbox[s]),
         Shared(s)' => Shared(s)
  PROVE  (Shared(s)' => excused'[s]) /\ StreamInv(s)'
<1>1. Shared(s)' => excused'[s]
  BY DEF ExcusedAfter
<1>2. InStep(s)'
  BY DEF InStep
<1>3. RequestInv(s)'
  BY DEF RequestInv, Fresh
<1>4. QED
  BY <1>1, <1>2, <1>3 DEF StreamInv

(* A read whose answer is lost leaves the slave one mail ahead, unless it  *)
(* was a repetition.                                                       *)
LEMMA LostRead ==
  ASSUME TypeOK, NEW s \in Slaves, MailShape(s), NextInLine(s), outbox[s] # NoMail,
         lastread'[s] = outbox[s], outbox'[s] = NoMail,
         accepted'[s] = accepted[s], posted'[s] = posted[s]
  PROVE  /\ lastread'[s] # NoMail
         /\ \/ InStep(s)'
            \/ lastread'[s].no = accepted'[s] + 1 /\ (Fresh(s) \/ ~InStep(s))
<1>1. CASE outbox[s] = lastread[s]
  BY <1>1 DEF NextInLine, InStep
<1>2. CASE outbox[s] # lastread[s]
  BY <1>2, NextMail DEF NextInLine, InStep, Fresh
<1>3. QED
  BY <1>1, <1>2

LEMMA FetchLink ==
  ASSUME Inv, LinkInv, \A s \in Slaves : rpc[s] # "crashed", Fetch
  PROVE  LinkInv' /\ Link!Next
<1>0. TypeOK
  BY DEF Inv
<1>1. PICK s \in Slaves : s = lastmbxpos
  BY <1>0, LinkTypes
<1>2. /\ hpc = "fetch" /\ hpc' \in {"deliver", "drop"}
      /\ UNCHANGED <<appvars, mbxinstateex, lastmbxpos, recvvars>>
  BY DEF Fetch
<1>3. PICK outcome \in Outcomes :
        /\ ReadOutbox(s, outcome)
        /\ IF GotMail(s, outcome)
           THEN /\ accepted' = [accepted EXCEPT ![s] = outbox[s].no]
                /\ excused' = [excused EXCEPT ![s] = ExcusedAfter(s, outbox[s])]
                /\ UNCHANGED mbxrmpstate
           ELSE /\ mbxrmpstate' = [mbxrmpstate EXCEPT ![s] = 1]
                /\ UNCHANGED mailvars
  BY <1>1 DEF Fetch, AfterFailedRead
<1>4. SlaveLink(s) /\ mbxrmpstate[s] = 0 /\ mbxhandlerstate[s] # "none"
  BY <1>1, <1>2 DEF LinkInv, SlaveLink, PlaceInv
<1>5. ~excused[s] => rpc[s] \notin Polling /\ NextInLine(s) /\ RequestInv(s)
  <2>1. SUFFICES ASSUME ~excused[s]
                 PROVE  rpc[s] \notin Polling /\ NextInLine(s) /\ RequestInv(s)
    OBVIOUS
  <2>2. rpc[s] \notin Polling
    BY <1>1, <1>2, <2>1, HandlerAlone
  <2>3. (InStep(s) \/ MissedOne(s)) /\ RequestInv(s)
    BY <1>4, <2>1 DEF SlaveLink, StreamInv
  <2>4. MissedOne(s) => outbox[s] = lastread[s] /\ lastread[s].no = accepted[s] + 1
    BY <1>4, <2>2 DEF MissedOne, HandlerRepeats
  <2>5. QED
    BY <2>2, <2>3, <2>4 DEF NextInLine
<1>6. \A t \in Slaves : Shared(t)' => Shared(t)
  BY <1>2 DEF Shared, appvars, recvvars
<1>7. ASSUME NEW t \in Slaves \ {s} PROVE Kept(t)
  <2>1. /\ StreamKept(t) /\ RequestKept(t)
        /\ mbxrmpstate'[t] = mbxrmpstate[t] /\ excused'[t] = excused[t]
    BY <1>0, <1>3, LinkTypes DEF ReadOutbox, StreamKept, RequestKept, slavevars, mailvars
  <2>2. QED
    BY <1>2, <1>6, <2>1 DEF Kept, HandlerKept, CallerKept, appvars, recvvars
<1>8. PlaceInv'
  <2>1. mbxrmpstate' = mbxrmpstate \/ mbxrmpstate' = [mbxrmpstate EXCEPT ![s] = 1]
    BY <1>3
  <2>2. \A t \in Slaves \ {s} : mbxrmpstate'[t] = mbxrmpstate[t]
    BY <1>0, <2>1, LinkTypes
  <2>3. QED
    BY <1>1, <1>2, <1>4, <2>2 DEF LinkInv, PlaceInv, appvars
<1>9. MailShape(s)'
  <2>1. \/ accepted'[s] = accepted[s]
        \/ GotMail(s, outcome) /\ accepted'[s] = outbox[s].no
    BY <1>0, <1>3, LinkTypes DEF mailvars
  <2>2. QED
    BY <1>0, <1>3, <1>4, <2>1, ReadShape DEF SlaveLink
<1>10. CASE GotMail(s, outcome)
  <2>1. /\ outbox[s] # NoMail /\ lastread'[s] = outbox[s] /\ outbox'[s] = NoMail
        /\ UNCHANGED posted
    BY <1>0, <1>3, <1>10, LinkTypes DEF GotMail, ReadOutbox
  <2>2. accepted'[s] = outbox[s].no /\ excused'[s] = ExcusedAfter(s, outbox[s])
    BY <1>0, <1>3, <1>10, LinkTypes
  <2>3. SlaveLink(s)'
    BY <1>4, <1>6, <1>9, <2>1, <2>2, AcceptKeeps DEF SlaveLink
  <2>4. Link!Next
    <3>1. excused[s] \/ NextInLine(s)
      BY <1>5
    <3>2. QED
      BY <1>0, <1>3, <1>4, <1>10, <2>1, <3>1, AcceptServes DEF SlaveLink
  <2>5. QED
    BY <1>7, <1>8, <2>3, <2>4, OneSlave
<1>11. CASE ~GotMail(s, outcome)
  <2>1. /\ mbxrmpstate'[s] = 1 /\ accepted'[s] = accepted[s] /\ excused'[s] = excused[s]
        /\ UNCHANGED <<posted, mailvars>>
    BY <1>0, <1>3, <1>11, LinkTypes DEF ReadOutbox, slavevars, mailvars
  <2>2. RequestKept(s) /\ rpc'[s] = rpc[s] /\ mbxhandlerstate'[s] = mbxhandlerstate[s]
    BY <1>2, <1>3 DEF ReadOutbox, RequestKept, slavevars, recvvars, appvars
  <2>3. Shared(s)' => excused'[s]
    BY <1>4, <1>6, <2>1 DEF SlaveLink
  <2>4. ASSUME ~excused'[s] PROVE (InStep(s) \/ MissedOne(s))' /\ RequestInv(s)'
    <3>1. /\ rpc'[s] \notin Polling /\ rpc[s] \notin Polling
          /\ NextInLine(s) /\ RequestInv(s)
      BY <1>5, <2>1, <2>2, <2>4
    <3>9. rpc[s] # "crashed"
      OBVIOUS
    <3>2. Fresh(s) => Quiet(s)
      BY <1>4, <3>1 DEF RequestInv
    <3>3. Quiet(s)' <=> Quiet(s)
      BY <2>2 DEF Quiet, RequestKept
    <3>4. ~InStep(s) => Quiet(s)
      BY <1>4, <2>1, <2>4, <3>1 DEF SlaveLink, StreamInv, MissedOne, HandlerRepeats
    <3>5. Quiet(s) => HandlerRepeats(s)'
      BY <1>4, <2>1, <2>2, <3>3 DEF HandlerRepeats
    <3>6. CASE outcome # "unsent" /\ outbox[s] # NoMail
      <4>1. /\ lastread'[s] = outbox[s] /\ outbox'[s] = NoMail
        BY <1>0, <1>3, <3>6, LinkTypes DEF ReadOutbox
      <4>2. InStep(s)' \/ MissedOne(s)'
        BY <1>0, <1>4, <2>1, <3>1, <3>2, <3>4, <3>5, <3>6, <4>1, LostRead
           DEF SlaveLink, MissedOne
      <4>3. QED
        BY <4>1, <4>2 DEF RequestInv, Fresh
    <3>7. CASE ~(outcome # "unsent" /\ outbox[s] # NoMail)
      <4>1. UNCHANGED slavevars
        BY <1>3, <3>7 DEF ReadOutbox
      <4>2. InStep(s) => InStep(s)'
        BY <2>1, <4>1 DEF InStep, slavevars
      <4>3. ~InStep(s) => MissedOne(s)'
        <5>1. ~InStep(s) => MissedOne(s)
          BY <1>4, <2>1, <2>2, <2>4, <3>9 DEF SlaveLink, StreamInv
        <5>2. QED
          BY <2>1, <3>1, <3>4, <3>5, <4>1, <5>1 DEF MissedOne, slavevars
      <4>4. RequestInv(s)'
        BY <3>2, <3>3, <4>1 DEF RequestInv, Fresh, slavevars
      <4>5. QED
        BY <4>2, <4>3, <4>4
    <3>8. QED
      BY <3>6, <3>7
  <2>5. SlaveLink(s)'
    BY <1>9, <2>3, <2>4 DEF SlaveLink, StreamInv
  <2>6. Link!Next
    BY <2>1 DEF Link!Next, Link!mailvars, mailvars
  <2>7. QED
    BY <1>7, <1>8, <2>5, <2>6, OneSlave
<1>12. QED
  BY <1>10, <1>11

-----------------------------------------------------------------------------
(* The receivers. *)

LEMMA SlotLink ==
  ASSUME Inv, LinkInv, NEW s \in Slaves,
         \/ Receive(s) \/ PollMiss(s) \/ TakeMail(s) \/ EnableSlot(s) \/ ClearFlag(s)
         \/ Release(s)
  PROVE  LinkInv' /\ UNCHANGED <<posted, mailvars>>
<1> DEFINE Elsewhere == {"idle", "poll", "enable", "clear", "own"}
<1>0. TypeOK
  BY DEF Inv
<1>1. PICK at \in Elsewhere, next \in Elsewhere : Receiver(s, at, next)
  BY DEF Receive, PollMiss, TakeMail, EnableSlot, ClearFlag, Release
<1>2. /\ rpc[s] = at /\ rpc' = [rpc EXCEPT ![s] = next]
      /\ UNCHANGED <<slavevars, appvars, robustvars, lastmbxpos, hpc, rtoggle, mailvars>>
  BY <1>1 DEF Receiver, handlervars
<1>3. /\ rpc'[s] = next
      /\ \A t \in Slaves \ {s} : rpc'[t] = rpc[t]
  BY <1>0, <1>2, LinkTypes
<1>4. ASSUME NEW t \in Slaves PROVE Kept(t)
  <2>1. CallerKept(t)
    BY <1>1, <1>2, <1>3 DEF CallerKept, Polling, Waits, Repeats
  <2>2. Shared(t)' => Shared(t)
    BY <1>1, <1>2, <1>3 DEF Shared, Waits, Repeats, appvars
  <2>3. QED
    BY <1>2, <2>1, <2>2 DEF Kept, StreamKept, RequestKept, HandlerKept,
                            slavevars, appvars, robustvars, mailvars
<1>5. PlaceInv'
  BY <1>2 DEF LinkInv, PlaceInv, appvars, robustvars
<1>6. QED
  BY <1>2, <1>4, <1>5, KeptLink DEF LinkInv, SlaveLink, slavevars

(* A step of a caller that reads the mailbox itself. *)
LEMMA PollerLink ==
  ASSUME TypeOK, LinkInv, NEW s \in Slaves, NEW at, NEW next, Poller(s, at, next),
         \A t \in Slaves \ {s} : /\ StreamKept(t) /\ RequestKept(t)
                                 /\ rtoggle'[t] = rtoggle[t]
                                 /\ excused'[t] = excused[t]
  PROVE  /\ rpc[s] = at /\ rpc'[s] = next
         /\ HandlerKept(s)
         /\ at \in Polling => (Shared(s)' => Shared(s))
         /\ SlaveLink(s)' => LinkInv'
<1>1. /\ rpc[s] = at /\ rpc' = [rpc EXCEPT ![s] = next]
      /\ UNCHANGED <<appvars, robustvars, lastmbxpos, hpc>>
  BY DEF Poller, handlervars
<1>2. rpc'[s] = next /\ \A t \in Slaves \ {s} : rpc'[t] = rpc[t]
  BY <1>1, LinkTypes
<1>3. \A t \in Slaves : HandlerKept(t)
  BY <1>1 DEF HandlerKept, appvars, robustvars
<1>4. ASSUME NEW t \in Slaves, t # s \/ at \in Polling PROVE Shared(t)' => Shared(t)
  BY <1>1, <1>2, <1>4 DEF Shared, Polling, appvars
<1>5. ASSUME NEW t \in Slaves \ {s} PROVE Kept(t)
  BY <1>2, <1>3, <1>4 DEF Kept, CallerKept
<1>6. PlaceInv'
  BY <1>1 DEF LinkInv, PlaceInv, appvars, robustvars
<1>7. QED
  BY <1>1, <1>2, <1>3, <1>4, <1>5, <1>6, OneSlave

LEMMA DirectCallLink ==
  ASSUME Inv, LinkInv, NEW s \in Slaves, DirectCall(s)
  PROVE  LinkInv' /\ Link!Next
<1>0. TypeOK /\ SlaveLink(s)
  BY DEF Inv, LinkInv, SlaveLink
<1>1. /\ Poller(s, "idle", "await") /\ mbxhandlerstate[s] # "cyclic"
      /\ excused' = [excused EXCEPT ![s] = @ \/ mbxhandlerstate[s] = "lost"]
      /\ UNCHANGED <<slavevars, rtoggle, accepted>>
  BY DEF DirectCall
<1>2. /\ excused'[s] = (excused[s] \/ mbxhandlerstate[s] = "lost")
      /\ \A t \in Slaves \ {s} : excused'[t] = excused[t]
  BY <1>0, <1>1, LinkTypes
<1>3. \A t \in Slaves : StreamKept(t) /\ RequestKept(t)
  BY <1>1 DEF StreamKept, RequestKept, slavevars
<1>4. /\ rpc[s] = "idle" /\ rpc'[s] = "await" /\ HandlerKept(s)
      /\ SlaveLink(s)' => LinkInv'
  BY <1>0, <1>1, <1>2, <1>3, PollerLink
<1>5. MailShape(s)'
  BY <1>0, <1>3, ShapeKept DEF SlaveLink
<1>6. CASE mbxhandlerstate[s] = "lost"
  <2>1. excused'[s]
    BY <1>2, <1>6
  <2>2. Link!Excuse(s)
    BY <1>1, <1>6 DEF Link!Excuse, slavevars
  <2>3. QED
    BY <1>4, <1>5, <2>1, <2>2, ExcusedLink DEF Link!Next, Link!Slaves, Slaves
<1>7. CASE mbxhandlerstate[s] # "lost"
  <2>1. mbxhandlerstate[s] = "none" /\ mbxrmpstate[s] = 0
    BY <1>0, <1>1, <1>7 DEF TypeOK, LinkInv, PlaceInv
  <2>2. excused'[s] = excused[s] /\ excused' = excused
    BY <1>0, <1>1, <1>2, <1>7, LinkTypes
  <2>3. ~Shared(s)'
    BY <1>1, <2>1 DEF Shared, LinkInv, PlaceInv, Poller, appvars, handlervars
  <2>4. ASSUME ~excused'[s] PROVE InStep(s)' /\ RequestInv(s)'
    <3>1. (InStep(s) \/ MissedOne(s)) /\ RequestInv(s)
      BY <1>0, <1>4, <2>2, <2>4 DEF SlaveLink, StreamInv
    <3>2. rpc[s] \notin Polling
      BY <1>4 DEF Polling, Waits, Repeats
    <3>3. ~MissedOne(s)
      BY <2>1, <3>2 DEF MissedOne, HandlerRepeats
    <3>4. Fresh(s) => Quiet(s)
      BY <2>1, <3>1, <3>2 DEF RequestInv
    <3>5. InStep(s)'
      BY <1>3, <3>1, <3>3 DEF InStep, StreamKept
    <3>6. RequestInv(s)'
      BY <1>3, <3>4 DEF RequestInv, Fresh, Quiet, StreamKept, RequestKept
    <3>7. QED
      BY <3>5, <3>6
  <2>5. SlaveLink(s)'
    BY <1>5, <2>3, <2>4 DEF SlaveLink, StreamInv
  <2>6. Link!Next
    BY <1>1, <2>2 DEF Link!Next, Link!mailvars, slavevars
  <2>7. QED
    BY <1>4, <2>5, <2>6
<1>8. QED
  BY <1>6, <1>7

(* Before a mailbox is read and after its mail was accepted, nothing is    *)
(* asked for.                                                              *)
LEMMA SettledLink ==
  ASSUME Inv, LinkInv, NEW s \in Slaves,
         AwaitMore(s) \/ AwaitFull(s) \/ ToCaller(s) \/ Settle(s)
  PROVE  LinkInv' /\ UNCHANGED <<posted, mailvars>>
<1>0. TypeOK /\ SlaveLink(s)
  BY DEF Inv, LinkInv, SlaveLink
<1>1. PICK at \in {"await", "sort"}, next \in {"await", "idle", "read", "own"} :
        Poller(s, at, next)
  BY DEF AwaitMore, AwaitFull, ToCaller, Settle
<1>2. UNCHANGED <<slavevars, rtoggle, mailvars>>
  BY DEF AwaitMore, AwaitFull, ToCaller, Settle
<1>3. \A t \in Slaves : StreamKept(t) /\ RequestKept(t)
  BY <1>2 DEF StreamKept, RequestKept, slavevars, mailvars
<1>4. /\ rpc[s] = at /\ rpc'[s] = next
      /\ at \in Polling => (Shared(s)' => Shared(s))
      /\ SlaveLink(s)' => LinkInv'
  BY <1>0, <1>1, <1>2, <1>3, PollerLink DEF mailvars
<1>5. at \in Polling /\ at # "crashed"
  BY DEF Polling, Waits, Repeats
<1>6. ASSUME ~excused'[s] PROVE InStep(s)' /\ RequestInv(s)'
  <2>1. (InStep(s) \/ MissedOne(s)) /\ RequestInv(s)
    BY <1>0, <1>2, <1>4, <1>5, <1>6 DEF SlaveLink, StreamInv, mailvars
  <2>2. ~MissedOne(s)
    BY <1>1, <1>4, <1>5 DEF MissedOne, CallerRepeats
  <2>3. Fresh(s) => Quiet(s)
    BY <1>1, <1>4, <1>5, <2>1 DEF RequestInv
  <2>4. InStep(s)'
    BY <1>3, <2>1, <2>2 DEF InStep, StreamKept
  <2>5. RequestInv(s)'
    BY <1>3, <2>3 DEF RequestInv, Fresh, Quiet, StreamKept, RequestKept
  <2>6. QED
    BY <2>4, <2>5
<1>7. MailShape(s)' /\ (Shared(s)' => excused'[s])
  BY <1>0, <1>2, <1>3, <1>4, <1>5, ShapeKept DEF SlaveLink, mailvars
<1>8. SlaveLink(s)'
  BY <1>6, <1>7 DEF SlaveLink, StreamInv
<1>9. QED
  BY <1>2, <1>4, <1>8 DEF slavevars

LEMMA ReadDirectLink ==
  ASSUME Inv, LinkInv, NEW s \in Slaves, ReadDirect(s)
  PROVE  LinkInv' /\ Link!Next
<1>0. TypeOK /\ SlaveLink(s)
  BY DEF Inv, LinkInv, SlaveLink
<1>1. PICK outcome \in Outcomes, next \in {"status", "crashed", "sort"} :
        /\ ReadOutbox(s, outcome)
        /\ Poller(s, "read", next)
        /\ UNCHANGED rtoggle
        /\ \/ /\ ~GotMail(s, outcome) /\ next = "status"
              /\ UNCHANGED mailvars
           \/ /\ GotMail(s, outcome) /\ next = "crashed"
              /\ UNCHANGED mailvars
           \/ /\ GotMail(s, outcome) /\ next = "sort"
              /\ accepted' = [accepted EXCEPT ![s] = outbox[s].no]
              /\ excused' = [excused EXCEPT ![s] = ExcusedAfter(s, outbox[s])]
  BY DEF ReadDirect
<1>2. \/ UNCHANGED mailvars
      \/ /\ accepted' = [accepted EXCEPT ![s] = outbox[s].no]
         /\ excused' = [excused EXCEPT ![s] = ExcusedAfter(s, outbox[s])]
  BY <1>1
<1>3. \A t \in Slaves \ {s} : /\ StreamKept(t) /\ RequestKept(t)
                              /\ excused'[t] = excused[t]
  <2>1. \A t \in Slaves \ {s} : accepted'[t] = accepted[t] /\ excused'[t] = excused[t]
    BY <1>0, <1>2, LinkTypes DEF mailvars
  <2>2. QED
    BY <1>0, <1>1, <2>1, LinkTypes DEF ReadOutbox, StreamKept, RequestKept, slavevars
<1>4. /\ rpc[s] = "read" /\ rpc'[s] = next
      /\ Shared(s)' => Shared(s)
      /\ SlaveLink(s)' => LinkInv'
  <2>1. "read" \in Polling
    BY DEF Polling, Waits
  <2>2. QED
    BY <1>0, <1>1, <1>3, <2>1, PollerLink
<1>5. ~excused[s] => NextInLine(s) /\ (Fresh(s) \/ ~InStep(s) => Quiet(s))
  <2> SUFFICES ASSUME ~excused[s]
               PROVE  NextInLine(s) /\ (Fresh(s) \/ ~InStep(s) => Quiet(s))
    OBVIOUS
  <2>1. (InStep(s) \/ MissedOne(s)) /\ RequestInv(s)
    BY <1>0, <1>4 DEF SlaveLink, StreamInv
  <2>2. rpc[s] \in Polling
    BY <1>4 DEF Polling, Waits
  <2>3. MissedOne(s) => /\ outbox[s] = lastread[s] /\ Quiet(s)
                        /\ lastread[s].no = accepted[s] + 1
    BY <1>4, <2>2 DEF MissedOne, CallerRepeats
  <2>4. Fresh(s) => Quiet(s)
    BY <1>4, <2>1, <2>2 DEF RequestInv
  <2>5. QED
    BY <2>1, <2>3, <2>4 DEF NextInLine
<1>6. MailShape(s)'
  <2>1. \/ accepted'[s] = accepted[s]
        \/ GotMail(s, outcome) /\ accepted'[s] = outbox[s].no
    BY <1>0, <1>1, LinkTypes DEF mailvars
  <2>2. QED
    BY <1>0, <1>1, <2>1, ReadShape DEF SlaveLink
<1>7. UNCHANGED posted
  BY <1>1 DEF ReadOutbox, slavevars
<1>8. CASE next = "sort"
  <2>1. /\ outbox[s] # NoMail /\ lastread'[s] = outbox[s] /\ outbox'[s] = NoMail
    BY <1>0, <1>1, <1>8, LinkTypes DEF GotMail, ReadOutbox
  <2>2. accepted'[s] = outbox[s].no /\ excused'[s] = ExcusedAfter(s, outbox[s])
    BY <1>0, <1>1, <1>8, LinkTypes
  <2>3. SlaveLink(s)'
    BY <1>0, <1>4, <1>6, <2>1, <2>2, AcceptKeeps DEF SlaveLink
  <2>4. Link!Next
    BY <1>0, <1>1, <1>5, <1>7, <1>8, <2>1, AcceptServes DEF SlaveLink
  <2>5. QED
    BY <1>4, <2>3, <2>4
<1>9. CASE next = "crashed"
  <2>1. ~Shared(s)'
    BY <1>4, <1>9 DEF Shared, Waits, Repeats
  <2>2. SlaveLink(s)'
    BY <1>4, <1>6, <1>9, <2>1 DEF SlaveLink, StreamInv
  <2>3. Link!Next
    BY <1>1, <1>7, <1>9 DEF Link!Next, Link!mailvars, mailvars
  <2>4. QED
    BY <1>4, <2>2, <2>3
<1>10. CASE next = "status"
  <2>1. /\ accepted'[s] = accepted[s] /\ excused'[s] = excused[s]
        /\ UNCHANGED <<posted, mailvars>>
    BY <1>1, <1>7, <1>10 DEF mailvars
  <2>2. RequestKept(s)
    BY <1>1 DEF ReadOutbox, RequestKept, slavevars
  <2>3. ASSUME ~excused'[s] PROVE (InStep(s) \/ MissedOne(s))' /\ RequestInv(s)'
    <3>1. NextInLine(s) /\ (Fresh(s) \/ ~InStep(s) => Quiet(s))
      BY <1>5, <2>1, <2>3
    <3>2. Quiet(s)' <=> Quiet(s)
      BY <2>2 DEF Quiet, RequestKept
    <3>3. rpc'[s] \in Polling /\ (Quiet(s) => CallerRepeats(s)')
      BY <1>4, <1>10, <3>2 DEF CallerRepeats, Polling, Repeats
    <3>4. CASE outcome # "unsent" /\ outbox[s] # NoMail
      <4>1. lastread'[s] = outbox[s] /\ outbox'[s] = NoMail
        BY <1>0, <1>1, <3>4, LinkTypes DEF ReadOutbox
      <4>2. InStep(s)' \/ MissedOne(s)'
        BY <1>0, <1>7, <2>1, <3>1, <3>3, <3>4, <4>1, LostRead DEF SlaveLink, MissedOne
      <4>3. QED
        BY <4>1, <4>2 DEF RequestInv, Fresh
    <3>5. CASE ~(outcome # "unsent" /\ outbox[s] # NoMail)
      <4>1. UNCHANGED slavevars
        BY <1>1, <3>5 DEF ReadOutbox
      <4>2. InStep(s) => InStep(s)'
        BY <2>1, <4>1 DEF InStep, slavevars
      <4>3. ~InStep(s) => MissedOne(s)'
        <5>1. ~InStep(s) => MissedOne(s)
          BY <1>0, <1>4, <2>1, <2>3 DEF SlaveLink, StreamInv
        <5>2. QED
          BY <2>1, <3>1, <3>3, <4>1, <5>1 DEF MissedOne, slavevars
      <4>4. RequestInv(s)'
        BY <3>1, <3>2, <4>1 DEF RequestInv, Fresh, slavevars
      <4>5. QED
        BY <4>2, <4>3, <4>4
    <3>6. QED
      BY <3>4, <3>5
  <2>4. SlaveLink(s)'
    BY <1>0, <1>4, <1>6, <2>1, <2>3 DEF SlaveLink, StreamInv
  <2>5. Link!Next
    BY <2>1 DEF Link!Next, Link!mailvars, mailvars
  <2>6. QED
    BY <1>4, <2>4, <2>5
<1>11. QED
  BY <1>8, <1>9, <1>10

(* A step of the repetition a caller asks for. *)
LEMMA AskLink ==
  ASSUME TypeOK, LinkInv, NEW s \in Slaves, NEW at \in Repeats,
         NEW next \in Repeats \cup {"read"}, NEW outcome,
         RepeatStep(s, at, outcome, next),
         \A t \in Slaves \ {s} : /\ repeatreq'[t] = repeatreq[t]
                                 /\ rtoggle'[t] = rtoggle[t],
         CallerRepeats(s) /\ rpc'[s] = next => CallerRepeats(s)',
         RequestInv(s) /\ rpc[s] = at /\ rpc'[s] = next => RequestInv(s)'
  PROVE  LinkInv' /\ UNCHANGED <<posted, mailvars>>
<1>0. SlaveLink(s)
  BY DEF LinkInv, SlaveLink
<1>1. Poller(s, at, next) /\ UNCHANGED <<outbox, lastread, deferred, repeatack, posted,
                                         mailvars>>
  BY DEF RepeatStep
<1>2. /\ \A t \in Slaves : StreamKept(t)
      /\ \A t \in Slaves \ {s} : RequestKept(t)
  BY <1>1 DEF StreamKept, RequestKept, mailvars
<1>3. at \in Polling /\ next \in Polling /\ at # "crashed"
  BY DEF Polling, Waits, Repeats
<1>4. /\ rpc[s] = at /\ rpc'[s] = next
      /\ Shared(s)' => Shared(s)
      /\ SlaveLink(s)' => LinkInv'
  BY <1>1, <1>2, <1>3, PollerLink DEF mailvars
<1>5. MailShape(s)' /\ (Shared(s)' => excused'[s])
  BY <1>0, <1>1, <1>2, <1>4, ShapeKept DEF SlaveLink, mailvars
<1>6. ASSUME ~excused'[s] PROVE (InStep(s) \/ MissedOne(s))' /\ RequestInv(s)'
  <2>1. (InStep(s) \/ MissedOne(s)) /\ RequestInv(s)
    BY <1>0, <1>1, <1>3, <1>4, <1>6 DEF SlaveLink, StreamInv, mailvars
  <2>2. InStep(s) => InStep(s)'
    BY <1>2 DEF InStep, StreamKept
  <2>3. MissedOne(s) => MissedOne(s)'
    BY <1>2, <1>3, <1>4 DEF MissedOne, StreamKept
  <2>4. QED
    BY <1>4, <2>1, <2>2, <2>3
<1>7. QED
  BY <1>1, <1>4, <1>5, <1>6 DEF SlaveLink, StreamInv

LEMMA StatusReadLink ==
  ASSUME Inv, LinkInv, NEW s \in Slaves, StatusRead(s)
  PROVE  LinkInv' /\ UNCHANGED <<posted, mailvars>>
<1>0. TypeOK
  BY DEF Inv
<1>1. PICK outcome \in Outcomes, next \in {"request", "status", "overdue"} :
        /\ RepeatStep(s, "status", outcome, next)
        /\ UNCHANGED repeatreq
        /\ next = "request" => rtoggle' = [rtoggle EXCEPT ![s] = Toggled(repeatreq[s])]
        /\ \/ UNCHANGED rtoggle
           \/ \E bit \in BOOLEAN : rtoggle' = [rtoggle EXCEPT ![s] = bit]
  <2>1. ASSUME RepeatStep(s, "status", "answered", "request")
               /\ rtoggle' = [rtoggle EXCEPT ![s] = Toggled(repeatreq[s])]
               /\ UNCHANGED repeatreq
        PROVE  \E bit \in BOOLEAN : rtoggle' = [rtoggle EXCEPT ![s] = bit]
    <3>1. Toggled(repeatreq[s]) \in BOOLEAN
      BY DEF Toggled
    <3>2. QED
      BY <2>1, <3>1
  <2>2. QED
    BY <2>1 DEF StatusRead, Outcomes
<1>2. /\ \A t \in Slaves \ {s} : rtoggle'[t] = rtoggle[t]
      /\ next = "request" => rtoggle'[s] = Toggled(repeatreq[s])
  BY <1>0, <1>1, LinkTypes
<1>3. /\ rpc[s] = "status" /\ UNCHANGED <<outbox, lastread, repeatreq, repeatack>>
  BY <1>1 DEF RepeatStep, Poller
<1>4. repeatreq[s] # Toggled(repeatreq[s])
  <2>1. repeatreq[s] \in BOOLEAN
    BY <1>0, LinkTypes
  <2>2. QED
    BY <2>1 DEF Toggled
<1>5. CallerRepeats(s) /\ rpc'[s] = next => CallerRepeats(s)'
  BY <1>2, <1>3, <1>4 DEF CallerRepeats, Toggle, Quiet
<1>6. RequestInv(s) /\ rpc[s] = "status" /\ rpc'[s] = next => RequestInv(s)'
  BY <1>3 DEF RequestInv, Fresh, Quiet, Polling, Repeats
<1>7. QED
  BY <1>0, <1>1, <1>2, <1>5, <1>6, AskLink DEF Repeats

LEMMA RequestWriteLink ==
  ASSUME Inv, LinkInv, NEW s \in Slaves, RequestWrite(s)
  PROVE  LinkInv' /\ UNCHANGED <<posted, mailvars>>
<1>0. TypeOK
  BY DEF Inv
<1>1. PICK outcome \in Outcomes, at \in {"request", "overdue"} :
        /\ RepeatStep(s, at, outcome, IF at = "request" THEN "ack" ELSE "spent")
        /\ \/ repeatreq' = repeatreq
           \/ repeatreq' = [repeatreq EXCEPT ![s] = rtoggle[s]]
        /\ UNCHANGED rtoggle
  BY DEF RequestWrite
<1>2. /\ \A t \in Slaves \ {s} : repeatreq'[t] = repeatreq[t]
      /\ repeatreq'[s] \in {repeatreq[s], rtoggle[s]}
  BY <1>0, <1>1, LinkTypes
<1>3. rpc[s] = at /\ UNCHANGED <<outbox, lastread, repeatack, rtoggle>>
  BY <1>1 DEF RepeatStep, Poller
<1>4. CASE at = "request"
  <2>1. CallerRepeats(s) /\ rpc'[s] = "ack" => CallerRepeats(s)'
    BY <1>2, <1>3, <1>4 DEF CallerRepeats, Toggle, Asked, Quiet
  <2>2. RequestInv(s) /\ rpc[s] = at /\ rpc'[s] = "ack" => RequestInv(s)'
    BY <1>2, <1>3, <1>4 DEF RequestInv, Fresh, Quiet, Polling, Repeats
  <2>3. QED
    BY <1>0, <1>1, <1>2, <1>3, <1>4, <2>1, <2>2, AskLink DEF Repeats
<1>5. CASE at = "overdue"
  <2>1. /\ CallerRepeats(s) /\ rpc'[s] = "spent" => CallerRepeats(s)'
        /\ RequestInv(s) /\ rpc[s] = at /\ rpc'[s] = "spent" => RequestInv(s)'
    BY DEF CallerRepeats, RequestInv, Polling, Repeats
  <2>2. QED
    BY <1>0, <1>1, <1>2, <1>3, <1>5, <2>1, AskLink DEF Repeats
<1>6. QED
  BY <1>4, <1>5

LEMMA WaitLink ==
  ASSUME Inv, LinkInv, NEW s \in Slaves, AckWait(s) \/ RefillWait(s)
  PROVE  LinkInv' /\ UNCHANGED <<posted, mailvars>>
<1>0. TypeOK
  BY DEF Inv
<1>1. PICK outcome \in Outcomes, at \in {"ack", "refill"}, next \in {"ack", "refill", "read"} :
        /\ RepeatStep(s, at, outcome, next)
        /\ \/ at = "ack" /\ next = "ack"
           \/ at = "ack" /\ next = "refill" /\ repeatack[s] = rtoggle[s]
           \/ at = "refill" /\ next \in {"refill", "read"}
        /\ UNCHANGED <<repeatreq, rtoggle>>
  BY DEF AckWait, RefillWait, Acknowledged
<1>2. rpc[s] = at /\ UNCHANGED <<outbox, lastread, repeatreq, repeatack, rtoggle>>
  BY <1>1 DEF RepeatStep, Poller
<1>3. CallerRepeats(s) /\ rpc'[s] = next => CallerRepeats(s)'
  BY <1>1, <1>2 DEF CallerRepeats, Toggle, Asked, Quiet
<1>4. RequestInv(s) /\ rpc[s] = at /\ rpc'[s] = next => RequestInv(s)'
  BY <1>1, <1>2 DEF RequestInv, Fresh, Quiet, Polling, Waits, Repeats
<1>5. QED
  BY <1>0, <1>1, <1>2, <1>3, <1>4, AskLink DEF Repeats

LEMMA GiveUpMailLink ==
  ASSUME Inv, LinkInv, NEW s \in Slaves, GiveUpMail(s)
  PROVE  LinkInv' /\ Link!Next
<1>0. TypeOK /\ SlaveLink(s)
  BY DEF Inv, LinkInv, SlaveLink
<1>1. PICK at \in {"ack", "refill", "spent"} : Poller(s, at, "idle")
  BY DEF GiveUpMail
<1>2. /\ UNCHANGED <<slavevars, rtoggle, accepted>>
      /\ excused' = [excused EXCEPT ![s] = TRUE]
  BY DEF GiveUpMail
<1>3. excused'[s] /\ \A t \in Slaves \ {s} : excused'[t] = excused[t]
  BY <1>0, <1>2, LinkTypes
<1>4. \A t \in Slaves : StreamKept(t) /\ RequestKept(t)
  BY <1>2 DEF StreamKept, RequestKept, slavevars
<1>5. rpc[s] = at /\ rpc'[s] = "idle" /\ (SlaveLink(s)' => LinkInv')
  BY <1>0, <1>1, <1>2, <1>3, <1>4, PollerLink
<1>6. LinkInv'
  BY <1>0, <1>3, <1>4, <1>5, ShapeKept, ExcusedLink DEF SlaveLink
<1>7. Link!GivesUp(s)
  BY <1>5 DEF Link!GivesUp, Waits, Repeats
<1>8. Link!Excuse(s)
  BY <1>2, <1>7 DEF Link!Excuse, slavevars
<1>9. QED
  BY <1>6, <1>8 DEF Link!Next, Link!Slaves, Slaves

-----------------------------------------------------------------------------
(* The firmware, the faults and the marks.                                 *)

(* A step of the firmware of one slave: what is left to show.              *)
LEMMA FirmwareLink ==
  ASSUME TypeOK, LinkInv, NEW s \in Slaves,
         UNCHANGED <<mastervars, mailvars>>,
         \A t \in Slaves \ {s} : StreamKept(t) /\ RequestKept(t),
         MailShape(s)', RequestInv(s)',
         InStep(s) => InStep(s)', MissedOne(s) => MissedOne(s)'
  PROVE  LinkInv'
<1>1. UNCHANGED <<appvars, robustvars, hpc, lastmbxpos, rpc, rtoggle, excused>>
  BY DEF mastervars, handlervars, recvvars, mailvars
<1>2. \A t \in Slaves : Shared(t)' => Shared(t)
  BY <1>1 DEF Shared, appvars
<1>3. \A t \in Slaves \ {s} : Kept(t)
  BY <1>1, <1>2 DEF Kept, HandlerKept, CallerKept, appvars, robustvars
<1>4. PlaceInv'
  BY <1>1 DEF LinkInv, PlaceInv, appvars, robustvars
<1>5. SlaveLink(s)'
  BY <1>1, <1>2 DEF LinkInv, SlaveLink, StreamInv
<1>6. QED
  BY <1>3, <1>4, <1>5, OneSlave

LEMMA PostLink ==
  ASSUME Inv, LinkInv, NEW s \in Slaves, NEW kind \in Kinds, Post(s, kind),
         UNCHANGED <<mastervars, mailvars>>
  PROVE  LinkInv' /\ Link!Next
<1>0. TypeOK /\ MailShape(s)
  BY DEF Inv, LinkInv
<1>1. /\ outbox[s] = NoMail /\ Quiet(s) /\ Quiet(s)'
      /\ UNCHANGED <<lastread, repeatreq, repeatack>>
  BY DEF Post, Quiet
<1>2. /\ UNCHANGED <<accepted, excused, appvars, robustvars, rpc, rtoggle>>
      /\ accepted'[s] = accepted[s]
  BY DEF mastervars, recvvars, mailvars
<1>3. RequestInv(s)'
  BY <1>1 DEF RequestInv
<1>4. CASE deferred[s] # NoMail
  <2>1. /\ outbox' = [outbox EXCEPT ![s] = deferred[s]]
        /\ deferred' = [deferred EXCEPT ![s] = NoMail]
        /\ posted' = posted
    BY <1>4 DEF Post
  <2>2. /\ outbox'[s] = deferred[s] /\ deferred'[s] = NoMail
        /\ \A t \in Slaves \ {s} : outbox'[t] = outbox[t] /\ deferred'[t] = deferred[t]
    BY <1>0, <2>1, LinkTypes
  <2>3. /\ lastread[s] # NoMail /\ deferred[s] # lastread[s]
        /\ deferred[s].no = posted[s] /\ lastread[s].no = posted[s] - 1
    BY <1>0, <1>4, MailTypes DEF MailShape
  <2>4. MailShape(s)'
    BY <1>0, <1>1, <1>2, <1>4, <2>1, <2>2, <2>3 DEF MailShape, Fresh
  <2>5. InStep(s) => InStep(s)'
    BY <1>1, <1>2, <2>3 DEF InStep
  <2>6. MissedOne(s) => MissedOne(s)'
    <3>1. HandlerRepeats(s) => HandlerRepeats(s)'
      BY <1>1, <1>2, <2>3 DEF HandlerRepeats, Toggle, Asked, Quiet, appvars, robustvars
    <3>2. CallerRepeats(s) => CallerRepeats(s)'
      BY <1>1, <1>2, <2>3 DEF CallerRepeats, Toggle, Asked, Quiet
    <3>3. QED
      BY <1>1, <1>2, <3>1, <3>2 DEF MissedOne
  <2>7. \A t \in Slaves \ {s} : StreamKept(t) /\ RequestKept(t)
    BY <1>1, <1>2, <2>1, <2>2 DEF StreamKept, RequestKept
  <2>8. LinkInv'
    BY <1>0, <1>3, <2>4, <2>5, <2>6, <2>7, FirmwareLink
  <2>9. QED
    BY <1>2, <2>1, <2>8 DEF Link!Next, Link!mailvars
<1>5. CASE deferred[s] = NoMail
  <2>1. /\ outbox' = [outbox EXCEPT ![s] = [no |-> posted[s] + 1, kind |-> kind]]
        /\ posted' = [posted EXCEPT ![s] = @ + 1]
        /\ deferred' = deferred
    BY <1>5 DEF Post
  <2>2. /\ outbox'[s].no = posted[s] + 1 /\ posted'[s] = posted[s] + 1
        /\ \A t \in Slaves \ {s} : outbox'[t] = outbox[t] /\ posted'[t] = posted[t]
    BY <1>0, <2>1, LinkTypes
  <2>3. /\ lastread[s] = NoMail \/ lastread[s].no = posted[s]
        /\ accepted[s] <= posted[s]
        /\ lastread[s] # NoMail => accepted[s] <= lastread[s].no
    BY <1>0, <1>1, <1>5 DEF MailShape
  <2>4. outbox'[s] # NoMail /\ outbox'[s] # lastread[s]
    <3>1. posted[s] \in Nat /\ NoMail.no = 0
      BY <1>0, MailTypes DEF NoMail
    <3>2. QED
      BY <2>2, <2>3, <3>1
  <2>5. MailShape(s)'
    BY <1>0, <1>1, <1>2, <1>5, <2>1, <2>2, <2>3, <2>4, MailTypes DEF MailShape, Fresh
  <2>6. InStep(s) => InStep(s)'
    BY <1>1, <1>2, <2>2, <2>4, MailTypes DEF InStep
  <2>7. MissedOne(s) => MissedOne(s)'
    <3>1. lastread[s] # NoMail => outbox[s] # lastread[s]
      BY <1>1
    <3>2. lastread[s] # NoMail /\ HandlerRepeats(s) => HandlerRepeats(s)'
      BY <1>1, <1>2, <3>1 DEF HandlerRepeats, Toggle, Asked, Quiet, appvars, robustvars
    <3>3. lastread[s] # NoMail /\ CallerRepeats(s) => CallerRepeats(s)'
      BY <1>1, <1>2, <3>1 DEF CallerRepeats, Toggle, Asked, Quiet
    <3>4. QED
      BY <1>1, <1>2, <3>2, <3>3 DEF MissedOne
  <2>8. \A t \in Slaves \ {s} : StreamKept(t) /\ RequestKept(t)
    BY <1>1, <1>2, <2>1, <2>2 DEF StreamKept, RequestKept
  <2>9. LinkInv'
    BY <1>0, <1>3, <2>5, <2>6, <2>7, <2>8, FirmwareLink
  <2>10. Link!Post(s)
    BY <1>2, <2>1 DEF Link!Post
  <2>11. QED
    BY <2>9, <2>10 DEF Link!Next, Link!Slaves, Slaves
<1>6. QED
  BY <1>4, <1>5

LEMMA RepeatLink ==
  ASSUME Inv, LinkInv, NEW s \in Slaves, Repeat(s), UNCHANGED <<mastervars, mailvars>>
  PROVE  LinkInv' /\ UNCHANGED <<posted, mailvars>>
<1>0. TypeOK /\ MailShape(s)
  BY DEF Inv, LinkInv
<1>1. /\ ~Quiet(s)
      /\ repeatack' = [repeatack EXCEPT ![s] = repeatreq[s]]
      /\ UNCHANGED <<lastread, repeatreq, posted>>
  BY DEF Repeat, Quiet
<1>2. /\ UNCHANGED <<accepted, excused, appvars, robustvars, rpc, rtoggle>>
      /\ accepted'[s] = accepted[s]
  BY DEF mastervars, recvvars, mailvars
<1>3. Quiet(s)' /\ \A t \in Slaves \ {s} : repeatack'[t] = repeatack[t]
  BY <1>0, <1>1, LinkTypes DEF Quiet
<1>4. /\ \A t \in Slaves \ {s} : outbox'[t] = outbox[t] /\ deferred'[t] = deferred[t]
      /\ lastread[s] = NoMail => outbox'[s] = outbox[s] /\ deferred'[s] = deferred[s]
      /\ lastread[s] # NoMail =>
           /\ outbox'[s] = lastread[s]
           /\ deferred'[s] = IF outbox[s] \in {NoMail, lastread[s]}
                             THEN deferred[s] ELSE outbox[s]
  BY <1>0, LinkTypes DEF Repeat
<1>5. MailShape(s)'
  BY <1>0, <1>1, <1>2, <1>4, MailTypes DEF MailShape, Fresh
<1>6. RequestInv(s)'
  BY <1>3 DEF RequestInv
<1>7. InStep(s) => InStep(s)'
  BY <1>1, <1>2, <1>4 DEF InStep
<1>8. MissedOne(s) => MissedOne(s)'
  <2>1. lastread[s] # NoMail => outbox'[s] = lastread'[s]
    BY <1>1, <1>4
  <2>2. lastread[s] # NoMail /\ HandlerRepeats(s) => HandlerRepeats(s)'
    BY <1>1, <1>2, <2>1 DEF HandlerRepeats, Toggle, Asked, appvars, robustvars
  <2>3. lastread[s] # NoMail /\ CallerRepeats(s) => CallerRepeats(s)'
    BY <1>1, <1>2, <2>1 DEF CallerRepeats, Toggle, Asked
  <2>4. QED
    BY <1>1, <1>2, <2>2, <2>3 DEF MissedOne
<1>9. \A t \in Slaves \ {s} : StreamKept(t) /\ RequestKept(t)
  BY <1>1, <1>2, <1>3, <1>4 DEF StreamKept, RequestKept
<1>10. LinkInv'
  BY <1>0, <1>5, <1>6, <1>7, <1>8, <1>9, FirmwareLink
<1>11. QED
  BY <1>1, <1>10 DEF mailvars

LEMMA FaultLink ==
  ASSUME Inv, LinkInv, NEW s \in Slaves, Fault(s)
  PROVE  LinkInv' /\ Link!Next
<1>0. TypeOK
  BY DEF Inv
<1>1. /\ UNCHANGED <<appvars, robustvars, hpc, lastmbxpos, rpc, rtoggle, accepted>>
      /\ posted' = posted
  BY DEF Fault, mastervars, handlervars, recvvars, Disconnect, Reconnect, Restart,
         slavevars
<1>2. \A t \in Slaves : Shared(t)' => Shared(t)
  BY <1>1 DEF Shared, appvars
<1>3. PlaceInv'
  BY <1>1 DEF LinkInv, PlaceInv, appvars, robustvars
<1>4. CASE UNCHANGED <<slavevars, excused>>
  <2>1. \A t \in Slaves : Kept(t)
    BY <1>1, <1>2, <1>4 DEF Kept, StreamKept, RequestKept, HandlerKept, CallerKept,
                            appvars, robustvars, slavevars
  <2>2. LinkInv'
    BY <1>3, <2>1, KeptLink DEF LinkInv, SlaveLink
  <2>3. QED
    BY <1>1, <1>4, <2>2 DEF Link!Next, Link!mailvars
<1>5. CASE Restart(s) /\ excused' = [excused EXCEPT ![s] = TRUE]
  <2>1. /\ \A t \in Slaves \ {s} :
             /\ outbox'[t] = outbox[t] /\ lastread'[t] = lastread[t]
             /\ deferred'[t] = deferred[t] /\ excused'[t] = excused[t]
             /\ repeatreq'[t] = repeatreq[t] /\ repeatack'[t] = repeatack[t]
        /\ outbox'[s] = NoMail /\ lastread'[s] = NoMail /\ deferred'[s] = NoMail
        /\ excused'[s]
    BY <1>0, <1>5, LinkTypes DEF Restart
  <2>2. \A t \in Slaves \ {s} : Kept(t)
    BY <1>1, <1>2, <2>1 DEF Kept, StreamKept, RequestKept, HandlerKept, CallerKept,
                            appvars, robustvars
  <2>3. MailShape(s)'
    BY <1>1, <2>1 DEF LinkInv, MailShape, Fresh
  <2>4. LinkInv'
    BY <1>3, <2>1, <2>2, <2>3, ExcusedLink, OneSlave
  <2>5. Link!Excuse(s)
    BY <1>1, <1>5 DEF Link!Excuse, Restart
  <2>6. QED
    BY <2>4, <2>5 DEF Link!Next, Link!Slaves, Slaves
<1>6. QED
  BY <1>4, <1>5 DEF Fault, Disconnect, Reconnect

LEMMA MarkLink ==
  ASSUME Inv, LinkInv, NEW s \in Slaves, Mark(s)
  PROVE  LinkInv' /\ Link!Next
<1>0. TypeOK /\ SlaveLink(s)
  BY DEF Inv, LinkInv, SlaveLink
<1>1. UNCHANGED <<slavevars, robustvars, hpc, lastmbxpos, rpc, rtoggle, accepted>>
  BY DEF Mark, handlervars, recvvars
<1>2. \A t \in Slaves : StreamKept(t) /\ RequestKept(t)
  BY <1>1 DEF StreamKept, RequestKept, slavevars
<1>3. CASE UNCHANGED <<mbxhandlerstate, excused>>
  <2>1. \A t \in Slaves : Shared(t)' => Shared(t)
    BY <1>1, <1>3 DEF Shared
  <2>2. \A t \in Slaves : Kept(t)
    BY <1>1, <1>2, <1>3, <2>1 DEF Kept, HandlerKept, CallerKept, robustvars
  <2>3. PlaceInv'
    BY <1>1, <1>3 DEF LinkInv, PlaceInv, robustvars
  <2>4. LinkInv'
    BY <2>2, <2>3, KeptLink DEF LinkInv, SlaveLink
  <2>5. QED
    BY <1>1, <1>3, <2>4 DEF Link!Next, Link!mailvars, slavevars
<1>4. CASE /\ mbxhandlerstate[s] # "none"
           /\ mbxhandlerstate' = [mbxhandlerstate EXCEPT ![s] =
                                    IF @ = "cyclic" THEN "lost" ELSE "cyclic"]
           /\ excused' = [excused EXCEPT ![s] = @ \/ rpc[s] \in Waits \cup Repeats]
  <2>1. /\ \A t \in Slaves \ {s} : /\ mbxhandlerstate'[t] = mbxhandlerstate[t]
                                   /\ excused'[t] = excused[t]
        /\ mbxhandlerstate'[s] = IF mbxhandlerstate[s] = "cyclic" THEN "lost" ELSE "cyclic"
        /\ excused'[s] = (excused[s] \/ rpc[s] \in Polling)
    BY <1>0, <1>4, LinkTypes DEF Polling
  <2>2. \A t \in Slaves \ {s} : Kept(t)
    <3>1. \A t \in Slaves \ {s} : Shared(t)' => Shared(t)
      BY <1>1, <2>1 DEF Shared
    <3>2. QED
      BY <1>1, <1>2, <2>1, <3>1 DEF Kept, HandlerKept, CallerKept, robustvars
  <2>3. PlaceInv'
    BY <1>1, <1>4, <2>1 DEF LinkInv, PlaceInv, robustvars
  <2>4. MailShape(s)'
    BY <1>0, <1>2, ShapeKept DEF SlaveLink
  <2>5. SlaveLink(s)'
    <3>1. CASE excused'[s]
      BY <2>4, <3>1, ExcusedLink
    <3>2. CASE ~excused'[s]
      <4>1. ~excused[s] /\ rpc[s] \notin Polling
        BY <2>1, <3>2
      <4>2. ~Shared(s)'
        BY <1>1, <4>1 DEF Shared, Polling
      <4>3. HandlerRepeats(s) => HandlerRepeats(s)'
        BY <1>1, <2>1 DEF HandlerRepeats, Quiet, Asked, Toggle, slavevars, robustvars
      <4>4. StreamInv(s)'
        BY <1>0, <1>1, <4>1, <4>3 DEF SlaveLink, StreamInv, InStep, MissedOne, RequestInv,
                                      Fresh, Quiet, slavevars, robustvars
      <4>5. QED
        BY <2>4, <4>2, <4>4 DEF SlaveLink
    <3>3. QED
      BY <3>1, <3>2
  <2>6. LinkInv'
    BY <2>2, <2>3, <2>5, OneSlave
  <2>7. Link!Next
    <3>1. CASE rpc[s] \notin Polling \/ excused[s]
      <4>1. excused' = excused
        BY <1>0, <1>4, <3>1, LinkTypes DEF Polling
      <4>2. QED
        BY <1>1, <4>1 DEF Link!Next, Link!mailvars, slavevars
    <3>2. CASE rpc[s] \in Polling /\ ~excused[s]
      <4>1. mbxhandlerstate[s] = "lost"
        BY <1>0, <1>4, <3>2 DEF SlaveLink, Shared, Polling, TypeOK
      <4>2. excused' = [excused EXCEPT ![s] = TRUE]
        BY <1>4, <3>2 DEF Polling
      <4>3. Link!Excuse(s)
        BY <1>1, <4>1, <4>2 DEF Link!Excuse, slavevars
      <4>4. QED
        BY <4>3 DEF Link!Next, Link!Slaves, Slaves
    <3>3. QED
      BY <3>1, <3>2
  <2>8. QED
    BY <2>6, <2>7
<1>5. QED
  BY <1>3, <1>4 DEF Mark

-----------------------------------------------------------------------------
(* Every step, and with it the whole behaviour.                            *)

LEMMA LinkStep ==
  ASSUME Inv, LinkInv, [Next]_vars
  PROVE  LinkInv' /\ Link!Next
<1>0. UNCHANGED <<posted, mailvars>> => Link!Next
  BY DEF Link!Next, Link!mailvars, mailvars
<1>1. CASE Next
  <2>1. \A s \in Slaves : rpc[s] # "crashed"
    BY <1>1 DEF Next
  <2>2. CASE Handler
    <3>1. \/ Fetch \/ RepeatRead \/ RepeatWrite \/ RepeatWait
          \/ \E state \in 1 .. 3 : GiveUpRepeat(state)
          \/ Cycle \/ Visit \/ Finish \/ TakeBuffer \/ Skip \/ Report
          \/ HandOver \/ Publish \/ Overrun \/ Tunnel \/ Drop
      BY <2>2 DEF Handler
    <3>2. CASE Fetch
      BY <2>1, <3>2, FetchLink
    <3>3. CASE RepeatRead \/ RepeatWrite \/ RepeatWait
      BY <1>0, <3>3, RepeatReadLink, RepeatWriteLink, RepeatWaitLink
    <3>4. CASE \E state \in 1 .. 3 : GiveUpRepeat(state)
      BY <3>4, GiveUpRepeatLink
    <3>5. CASE \/ Cycle \/ Visit \/ Finish \/ TakeBuffer \/ Skip \/ Report
               \/ HandOver \/ Publish \/ Overrun \/ Tunnel \/ Drop
      BY <1>0, <3>5, RoundLink
    <3>6. QED
      BY <3>1, <3>2, <3>3, <3>4, <3>5
  <2>3. ASSUME NEW s \in Callers, Receive(s) \/ DirectCall(s) \/ ReceiverStep(s)
        PROVE  LinkInv' /\ Link!Next
    <3>1. s \in Slaves
      BY ReceiveAssumption
    <3>2. CASE \/ Receive(s) \/ PollMiss(s) \/ TakeMail(s) \/ EnableSlot(s)
               \/ ClearFlag(s) \/ Release(s)
      BY <1>0, <3>1, <3>2, SlotLink
    <3>3. CASE DirectCall(s)
      BY <3>1, <3>3, DirectCallLink
    <3>4. CASE AwaitMore(s) \/ AwaitFull(s) \/ ToCaller(s) \/ Settle(s)
      BY <1>0, <3>1, <3>4, SettledLink
    <3>5. CASE ReadDirect(s)
      BY <3>1, <3>5, ReadDirectLink
    <3>6. CASE StatusRead(s) \/ RequestWrite(s) \/ AckWait(s) \/ RefillWait(s)
      BY <1>0, <3>1, <3>6, StatusReadLink, RequestWriteLink, WaitLink
    <3>7. CASE GiveUpMail(s)
      BY <3>1, <3>7, GiveUpMailLink
    <3>8. QED
      BY <2>3, <3>2, <3>3, <3>4, <3>5, <3>6, <3>7 DEF ReceiverStep
  <2>4. ASSUME NEW s \in Slaves, Firmware(s) PROVE LinkInv' /\ Link!Next
    <3>1. UNCHANGED <<mastervars, mailvars>> /\ ((\E kind \in Kinds : Post(s, kind)) \/ Repeat(s))
      BY <2>4 DEF Firmware
    <3>2. QED
      BY <1>0, <3>1, PostLink, RepeatLink
  <2>5. ASSUME NEW s \in Slaves, Fault(s) \/ Mark(s) PROVE LinkInv' /\ Link!Next
    BY <2>5, FaultLink, MarkLink
  <2>6. QED
    BY <1>1, <2>2, <2>3, <2>4, <2>5 DEF Next
<1>2. CASE UNCHANGED vars
  <2>1. UNCHANGED <<slavevars, appvars, robustvars, hpc, lastmbxpos, rpc, rtoggle, mailvars>>
    BY <1>2 DEF vars, handlervars, recvvars
  <2>2. \A s \in Slaves : Kept(s)
    BY <2>1 DEF Kept, StreamKept, RequestKept, HandlerKept, CallerKept, Shared,
                slavevars, appvars, robustvars, mailvars
  <2>3. PlaceInv'
    BY <2>1 DEF LinkInv, PlaceInv, appvars, robustvars
  <2>4. LinkInv'
    BY <2>2, <2>3, KeptLink DEF LinkInv, SlaveLink
  <2>5. QED
    BY <1>0, <2>1, <2>4 DEF slavevars
<1>3. QED
  BY <1>1, <1>2

(* Mails are read in the order they were sent and none is left out, though *)
(* reads fail and repetitions are asked for over the same lossy link; the  *)
(* excuses of the abstract specification are the only ones.                *)
THEOREM MailsInOrder == Spec => LinkSpec
<1>1. Init => Link!Init /\ LinkInv
  BY LinkInit
<1>2. Inv /\ LinkInv /\ [Next]_vars => LinkInv' /\ [Link!Next]_(Link!vars)
  BY LinkStep
<1>3. QED
  BY InvHolds, <1>1, <1>2, PTL DEF Spec, LinkSpec, Link!Spec
=============================================================================
