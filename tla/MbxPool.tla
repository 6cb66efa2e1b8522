------------------------------ MODULE MbxPool ------------------------------
(***************************************************************************)
(* The mailbox buffer pool of a SOEM context (ec_mbxpoolt): a ring of the  *)
(* numbers of the free buffers, taken at poolhead and put back at the      *)
(* other end.  ecx_getmbx and ecx_dropmbx hold mbxmutex for their whole    *)
(* body, so each is one step.  The module gives the pool's state and its   *)
(* operations; the modules that extend it give the threads that use it.    *)
(***************************************************************************)
EXTENDS Integers

CONSTANT PoolSize              \* EC_MBXPOOLSIZE, the size of every ring below

ASSUME PoolSizeAssumption == PoolSize \in Nat \ {0}

VARIABLES mbxemptylist,        \* ring slot -> number of a free buffer
          poolhead,            \* slot the next returned buffer goes to
          pooltail,            \* slot the next buffer is taken from
          poolcount            \* number of free buffers

poolvars == <<mbxemptylist, poolhead, pooltail, poolcount>>

Slots   == 0 .. PoolSize - 1
Buffers == 0 .. PoolSize - 1
NULL    == -1                  \* no buffer, no ticket

AdvanceTooFar(i) == IF i + 1 > PoolSize THEN 0 ELSE i + 1

(* An index one further round a ring of PoolSize slots. *)
Advance(i) == IF i + 1 >= PoolSize THEN 0 ELSE i + 1

(* The slots of a ring that hold its count elements, oldest at tail. *)
Occupied(head, tail, count) ==
  {i \in Slots : /\ count > 0
                 /\ IF tail < head THEN tail <= i /\ i < head
                                   ELSE tail <= i \/ i < head}

(* head, tail and count of a ring describe the same set of slots. *)
RingShape(head, tail, count) ==
  /\ head \in Slots
  /\ tail \in Slots
  /\ \/ tail < head /\ count = head - tail
     \/ head < tail /\ count = PoolSize - (tail - head)
     \/ head = tail /\ count \in {0, PoolSize}

PoolTypeOK ==
  /\ mbxemptylist \in [Slots -> Buffers]
  /\ poolhead \in Slots
  /\ pooltail \in Slots
  /\ poolcount \in Int

PoolInit ==
  /\ mbxemptylist = [i \in Slots |-> i]
  /\ poolhead = 0
  /\ pooltail = 0
  /\ poolcount = PoolSize

(* ecx_getmbx when it returns buffer b. *)
GetMbx(b) ==
  /\ poolcount > 0
  /\ b = mbxemptylist[pooltail]
  /\ pooltail' = Advance(pooltail)
  /\ poolcount' = poolcount - 1
  /\ UNCHANGED <<mbxemptylist, poolhead>>

(* ecx_dropmbx: a pointer that is no buffer of the pool is ignored. *)
DropMbx(b) ==
  IF b \in Buffers
  THEN /\ mbxemptylist' = [mbxemptylist EXCEPT ![poolhead] = b]
       /\ poolhead' = Advance(poolhead)
       /\ poolcount' = poolcount + 1
       /\ UNCHANGED pooltail
  ELSE UNCHANGED poolvars

(* The slots that hold free buffers. *)
FreeSlots   == Occupied(poolhead, pooltail, poolcount)

(* The free list is a ring, and the slots in which buffer b waits there. *)
PoolRing == RingShape(poolhead, pooltail, poolcount)

Pooled(b) == {j \in FreeSlots : mbxemptylist[j] = b}
=============================================================================
