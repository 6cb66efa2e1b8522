-------------------------- MODULE FramePort_proofs --------------------------
(***************************************************************************)
(* Indices and answers of FramePort, for any number of threads, requests,  *)
(* transmissions and indices, as long as the indices outnumber the threads *)
(* and the requests given up, and send() does not fail.                    *)
(*                                                                         *)
(* IndexExclusive alone is not inductive: that ecx_getindex finds an index *)
(* in state EC_BUF_EMPTY needs a bound on those that are lost.  Charged is *)
(* the set of the lost ones together with the ones that a request given up *)
(* may still lose; it never outgrows the number of requests given up.      *)
(***************************************************************************)
EXTENDS FramePort, FiniteSetTheorems, WellFoundedInduction, TLAPS

LockInv ==
  /\ \A t \in Threads : pc[t] \in {"locked", "store"} <=> lock = t
  /\ \A t \in Threads : pc[t] = "store" => tempinbuf \in Frames

RequestInv ==
  \A t \in Threads :
    /\ Busy(t) => txbuf[idx[t]] \in Requests /\ requests[t] \in Nat
    /\ pc[t] = "send" => tries[t] < MaxTries

StatusInv ==
  /\ \A t \in Threads : Busy(t) => InUse(idx[t])
  /\ \A t \in Threads : pc[t] = "take" => rxbufstat[idx[t]] = "complete"
  /\ \A t \in Threads : pc[t] \notin {"idle", "take", "release"}
                          => rxbufstat[idx[t]] # "complete"
  /\ \A i \in Indices : ~ Owned(i) => rxbufstat[i] \in {"empty", "rcvd"}

StoreInv ==
  \A t \in Threads : pc[t] = "store"
                       => rxbufstat[tempinbuf.idx] \in {"tx", "empty", "alloc"}

Pending(i) == \E t \in Threads : pc[t] = "store" /\ tempinbuf.idx = i

IsCharged(i) ==
  \/ ~ Owned(i) /\ (InUse(i) \/ Pending(i))
  \/ \E t \in Threads : /\ pc[t] = "release" /\ idx[t] = i
                        /\ rxbufstat[i] # "complete"

Charged == {i \in Indices : IsCharged(i)}

ChargeInv == Cardinality(Charged) <= giveups

Inv == /\ TypeOK
       /\ LockInv
       /\ RequestInv
       /\ StatusInv
       /\ StoreInv
       /\ IndexExclusive
       /\ ChargeInv

(* What travels, and what lies in the buffers, of a request under way.     *)
ContentInv ==
  \A t \in Threads : Busy(t) =>
    /\ txbuf[idx[t]] = Current(t)
    /\ \A f \in network : f.idx = idx[t] => f.of = Current(t)
    /\ Pending(idx[t]) => tempinbuf.of = Current(t)
    /\ rxbufstat[idx[t]] \in {"rcvd", "complete"} => rxbuf[idx[t]] = Current(t)
    /\ reply[t] \in {Current(t), NoRequest}
    /\ pc[t] # "release" => reply[t] = NoRequest

(* The indices outnumber the threads and the requests given up. *)
EnoughIndices == /\ IsFiniteSet(Threads)
                 /\ Cardinality(Threads) + MaxGiveUps <= MaxBuf
-----------------------------------------------------------------------------
LEMMA IndicesFinite ==
  IsFiniteSet(Indices) /\ Cardinality(Indices) = MaxBuf
<1>1. MaxBuf \in Nat \ {0}
  BY PortAssumption
<1>2. 0 \in Int /\ MaxBuf - 1 \in Int /\ 0 <= MaxBuf - 1
  BY <1>1
<1>3. /\ IsFiniteSet(0 .. MaxBuf - 1)
      /\ Cardinality(0 .. MaxBuf - 1)
           = IF 0 > MaxBuf - 1 THEN 0 ELSE MaxBuf - 1 - 0 + 1
  BY <1>2, FS_Interval
<1>4. QED
  BY <1>1, <1>2, <1>3 DEF Indices

LEMMA ChargedFinite == IsFiniteSet(Charged)
<1>1. Charged \in SUBSET Indices
  BY DEF Charged
<1>2. QED
  BY <1>1, IndicesFinite, FS_Subset

(* What a step must show of the count of lost indices.                     *)
LEMMA ChargeKept ==
  ASSUME giveups \in Nat, ChargeInv, Charged' \subseteq Charged, giveups' = giveups
  PROVE  ChargeInv'
<1>1. Charged' \in SUBSET Charged
  OBVIOUS
<1>2. Cardinality(Charged') <= Cardinality(Charged)
      /\ IsFiniteSet(Charged')
  BY <1>1, ChargedFinite, FS_Subset
<1>3. Cardinality(Charged) \in Nat /\ Cardinality(Charged') \in Nat
  BY <1>2, ChargedFinite, FS_CardinalityType
<1>4. QED
  BY <1>2, <1>3 DEF ChargeInv

LEMMA InitInv ==
  ASSUME Init PROVE Inv
<1> USE PortAssumption DEF Init
<1>0. requests = [t \in Threads |-> 0] /\ requests \in [Threads -> Nat]
  OBVIOUS
<1>1. TypeOK
  <2>1. {MaxBuf, MaxTries, MaxGiveUps} \subseteq Nat /\ MaxBuf > 0
    OBVIOUS
  <2>2. /\ 0 \in Indices /\ 0 \in 0 .. MaxTries /\ giveups \in 0 .. MaxGiveUps
        /\ lost \in BOOLEAN
    <3>1. MaxBuf \in Nat /\ MaxTries \in Nat /\ MaxGiveUps \in Nat /\ MaxBuf > 0
      BY <2>1
    <3>2. 0 \in Indices /\ 0 \in 0 .. MaxTries
      BY <3>1 DEF Indices
    <3>3. giveups \in 0 .. MaxGiveUps
      <4>1. giveups = 0
        OBVIOUS
      <4>2. QED
        BY <3>1, <4>1
    <3>4. QED
      BY <3>2, <3>3
  <2>3. /\ rxbufstat \in [Indices -> BufStates] /\ pc \in [Threads -> PCs]
        /\ idx \in [Threads -> Indices] /\ tries \in [Threads -> 0 .. MaxTries]
    BY <2>2 DEF BufStates, PCs
  <2>4. QED
    BY <1>0, <2>2, <2>3 DEF TypeOK
<1>2. LockInv /\ RequestInv /\ StatusInv /\ StoreInv /\ IndexExclusive
  BY DEF LockInv, RequestInv, StatusInv, StoreInv, IndexExclusive, Busy, Owned
<1>3. Charged = {}
  BY DEF Charged, IsCharged, InUse, Pending
<1>4. ChargeInv
  BY <1>3, FS_EmptySet DEF ChargeInv
<1>5. QED
  BY <1>1, <1>2, <1>4 DEF Inv

LEMMA PollAgainKeeps ==
  ASSUME Inv, NEW t \in Threads, PollAgain(t) PROVE Inv'
<1> USE DEF PollAgain, Goto, portvars, readvars, Inv
<1>1. TypeOK'
  BY DEF TypeOK, PCs
<1>2. LockInv' /\ RequestInv'
  BY PortAssumption DEF TypeOK, LockInv, RequestInv, Busy
<1>3. StatusInv' /\ StoreInv' /\ IndexExclusive'
  BY DEF TypeOK, StatusInv, StoreInv, IndexExclusive, Busy, Owned, InUse
<1>4. Charged' \subseteq Charged
  BY DEF TypeOK, Charged, IsCharged, InUse, Owned, Busy, Pending
<1>5. QED
  BY <1>1, <1>2, <1>3, <1>4, ChargeKept DEF TypeOK

LEMMA RetryKeeps ==
  ASSUME Inv, NEW t \in Threads, Retry(t) PROVE Inv'
<1> USE DEF Retry, Goto, portvars, readvars, Inv
<1>1. TypeOK'
  BY DEF TypeOK, PCs
<1>2. LockInv' /\ RequestInv'
  BY PortAssumption DEF TypeOK, LockInv, RequestInv, Busy
<1>3. StatusInv' /\ StoreInv' /\ IndexExclusive'
  BY DEF TypeOK, StatusInv, StoreInv, IndexExclusive, Busy, Owned, InUse
<1>4. Charged' \subseteq Charged
  BY DEF TypeOK, Charged, IsCharged, InUse, Owned, Busy, Pending
<1>5. QED
  BY <1>1, <1>2, <1>3, <1>4, ChargeKept DEF TypeOK

LEMMA SendKeeps ==
  ASSUME Inv, ~ SendFails, NEW t \in Threads, Send(t) PROVE Inv'
<1> USE DEF Send, Goto, Inv
<1>0. idx[t] \in Indices /\ tries[t] \in 0 .. MaxTries
  BY DEF TypeOK
<1>1. TypeOK'
  <2>1. tries[t] + 1 \in 1 .. MaxTries
    BY <1>0, PortAssumption DEF RequestInv
  <2>2. [idx |-> idx[t], of |-> txbuf[idx[t]], try |-> tries[t] + 1] \in Frames
    BY <1>0, <2>1 DEF RequestInv, Busy, Frames
  <2>3. QED
    BY <1>0, <2>1, <2>2 DEF TypeOK, PCs, BufStates
<1>2. LockInv' /\ RequestInv'
  BY PortAssumption DEF TypeOK, LockInv, RequestInv, Busy
<1>3. StatusInv'
  BY <1>0 DEF TypeOK, StatusInv, IndexExclusive, Busy, Owned, InUse
<1>4. StoreInv' /\ IndexExclusive'
  BY <1>0 DEF TypeOK, LockInv, StoreInv, IndexExclusive, Busy, Frames
<1>5. Charged' \subseteq Charged
  BY <1>0 DEF TypeOK, StatusInv, IndexExclusive, Charged, IsCharged, InUse, Owned, Busy, Pending
<1>6. QED
  BY <1>1, <1>2, <1>3, <1>4, <1>5, ChargeKept DEF TypeOK

LEMMA FindStoredKeeps ==
  ASSUME Inv, NEW t \in Threads, FindStored(t) PROVE Inv'
<1> USE DEF FindStored, Goto, Inv, portvars, readvars
<1>1. idx[t] \in Indices
  BY DEF TypeOK
<1>2. TypeOK'
  BY <1>1 DEF TypeOK, PCs, BufStates
<1>3. LockInv' /\ RequestInv'
  BY <1>1, PortAssumption DEF TypeOK, LockInv, RequestInv, Busy
<1>4. StatusInv'
  BY <1>1 DEF TypeOK, StatusInv, IndexExclusive, Busy, Owned, InUse, LockInv, StoreInv
<1>5. StoreInv'
  BY <1>1 DEF TypeOK, LockInv, StatusInv, StoreInv, Frames, Busy
<1>6. IndexExclusive'
  BY <1>1 DEF TypeOK, IndexExclusive, Busy
<1>7. Charged' \subseteq Charged
  BY <1>1 DEF TypeOK, LockInv, StatusInv, StoreInv, IndexExclusive, Charged, IsCharged,
         InUse, Owned, Busy, Pending
<1>8. QED
  BY <1>2, <1>3, <1>4, <1>5, <1>6, <1>7, ChargeKept DEF TypeOK

LEMMA MissKeeps ==
  ASSUME Inv, NEW t \in Threads, Miss(t) PROVE Inv'
<1> USE DEF Miss, Goto, Inv, portvars, readvars
<1>1. idx[t] \in Indices
  BY DEF TypeOK
<1>2. TypeOK'
  BY <1>1 DEF TypeOK, PCs, BufStates
<1>3. LockInv' /\ RequestInv'
  BY <1>1, PortAssumption DEF TypeOK, LockInv, RequestInv, Busy
<1>4. StatusInv'
  BY <1>1 DEF TypeOK, StatusInv, IndexExclusive, Busy, Owned, InUse, LockInv, StoreInv
<1>5. StoreInv'
  BY <1>1 DEF TypeOK, LockInv, StatusInv, StoreInv, Frames, Busy
<1>6. IndexExclusive'
  BY <1>1 DEF TypeOK, IndexExclusive, Busy
<1>7. Charged' \subseteq Charged
  BY <1>1 DEF TypeOK, LockInv, StatusInv, StoreInv, IndexExclusive, Charged, IsCharged,
         InUse, Owned, Busy, Pending
<1>8. QED
  BY <1>2, <1>3, <1>4, <1>5, <1>6, <1>7, ChargeKept DEF TypeOK

LEMMA LockKeeps ==
  ASSUME Inv, NEW t \in Threads, Lock(t) PROVE Inv'
<1> USE DEF Lock, Goto, Inv, portvars, readvars
<1>1. idx[t] \in Indices
  BY DEF TypeOK
<1>2. TypeOK'
  BY <1>1 DEF TypeOK, PCs, BufStates
<1>3. LockInv' /\ RequestInv'
  BY <1>1, PortAssumption DEF TypeOK, LockInv, RequestInv, Busy
<1>4. StatusInv'
  BY <1>1 DEF TypeOK, StatusInv, IndexExclusive, Busy, Owned, InUse, LockInv, StoreInv
<1>5. StoreInv'
  BY <1>1 DEF TypeOK, LockInv, StatusInv, StoreInv, Frames, Busy
<1>6. IndexExclusive'
  BY <1>1 DEF TypeOK, IndexExclusive, Busy
<1>7. Charged' \subseteq Charged
  BY <1>1 DEF TypeOK, LockInv, StatusInv, StoreInv, IndexExclusive, Charged, IsCharged,
         InUse, Owned, Busy, Pending
<1>8. QED
  BY <1>2, <1>3, <1>4, <1>5, <1>6, <1>7, ChargeKept DEF TypeOK

LEMMA FindLockedKeeps ==
  ASSUME Inv, NEW t \in Threads, FindLocked(t) PROVE Inv'
<1> USE DEF FindLocked, Goto, Inv, portvars, readvars
<1>1. idx[t] \in Indices
  BY DEF TypeOK
<1>2. TypeOK'
  BY <1>1 DEF TypeOK, PCs, BufStates
<1>3. LockInv' /\ RequestInv'
  BY <1>1, PortAssumption DEF TypeOK, LockInv, RequestInv, Busy
<1>4. StatusInv'
  BY <1>1 DEF TypeOK, StatusInv, IndexExclusive, Busy, Owned, InUse, LockInv, StoreInv
<1>5. StoreInv'
  BY <1>1 DEF TypeOK, LockInv, StatusInv, StoreInv, Frames, Busy
<1>6. IndexExclusive'
  BY <1>1 DEF TypeOK, IndexExclusive, Busy
<1>7. Charged' \subseteq Charged
  BY <1>1 DEF TypeOK, LockInv, StatusInv, StoreInv, IndexExclusive, Charged, IsCharged,
         InUse, Owned, Busy, Pending
<1>8. QED
  BY <1>2, <1>3, <1>4, <1>5, <1>6, <1>7, ChargeKept DEF TypeOK

LEMMA ReadNothingKeeps ==
  ASSUME Inv, NEW t \in Threads, ReadNothing(t) PROVE Inv'
<1> USE DEF ReadNothing, Goto, Inv, portvars, readvars
<1>1. idx[t] \in Indices
  BY DEF TypeOK
<1>2. TypeOK'
  BY <1>1 DEF TypeOK, PCs, BufStates
<1>3. LockInv' /\ RequestInv'
  BY <1>1, PortAssumption DEF TypeOK, LockInv, RequestInv, Busy
<1>4. StatusInv'
  BY <1>1 DEF TypeOK, StatusInv, IndexExclusive, Busy, Owned, InUse, LockInv, StoreInv
<1>5. StoreInv'
  BY <1>1 DEF TypeOK, LockInv, StatusInv, StoreInv, Frames, Busy
<1>6. IndexExclusive'
  BY <1>1 DEF TypeOK, IndexExclusive, Busy
<1>7. Charged' \subseteq Charged
  BY <1>1 DEF TypeOK, LockInv, StatusInv, StoreInv, IndexExclusive, Charged, IsCharged,
         InUse, Owned, Busy, Pending
<1>8. QED
  BY <1>2, <1>3, <1>4, <1>5, <1>6, <1>7, ChargeKept DEF TypeOK

LEMMA TakeKeeps ==
  ASSUME Inv, NEW t \in Threads, Take(t) PROVE Inv'
<1> USE DEF Take, Goto, Inv, portvars, readvars
<1>1. idx[t] \in Indices
  BY DEF TypeOK
<1>2. TypeOK'
  BY <1>1 DEF TypeOK, PCs, BufStates
<1>3. LockInv' /\ RequestInv'
  BY <1>1, PortAssumption DEF TypeOK, LockInv, RequestInv, Busy
<1>4. StatusInv'
  BY <1>1 DEF TypeOK, StatusInv, IndexExclusive, Busy, Owned, InUse, LockInv, StoreInv
<1>5. StoreInv'
  BY <1>1 DEF TypeOK, LockInv, StatusInv, StoreInv, Frames, Busy
<1>6. IndexExclusive'
  BY <1>1 DEF TypeOK, IndexExclusive, Busy
<1>7. Charged' \subseteq Charged
  BY <1>1 DEF TypeOK, LockInv, StatusInv, StoreInv, IndexExclusive, Charged, IsCharged,
         InUse, Owned, Busy, Pending
<1>8. QED
  BY <1>2, <1>3, <1>4, <1>5, <1>6, <1>7, ChargeKept DEF TypeOK

LEMMA ReadOwnKeeps ==
  ASSUME Inv, NEW t \in Threads, ReadOwn(t) PROVE Inv'
<1> USE DEF ReadOwn, Goto, Inv, portvars
<1>1. idx[t] \in Indices
  BY DEF TypeOK
<1>2. TypeOK'
  BY <1>1 DEF TypeOK, PCs, BufStates, Frames
<1>3. LockInv' /\ RequestInv'
  BY <1>1, PortAssumption DEF TypeOK, LockInv, RequestInv, Busy
<1>4. StatusInv'
  BY <1>1 DEF TypeOK, StatusInv, IndexExclusive, Busy, Owned, InUse, LockInv, StoreInv
<1>5. StoreInv'
  BY <1>1 DEF TypeOK, LockInv, StatusInv, StoreInv, Frames, Busy
<1>6. IndexExclusive'
  BY <1>1 DEF TypeOK, IndexExclusive, Busy
<1>7. Charged' \subseteq Charged
  BY <1>1 DEF TypeOK, LockInv, StatusInv, StoreInv, IndexExclusive, Charged, IsCharged,
         InUse, Owned, Busy, Pending
<1>8. QED
  BY <1>2, <1>3, <1>4, <1>5, <1>6, <1>7, ChargeKept DEF TypeOK

LEMMA ReadOtherKeeps ==
  ASSUME Inv, NEW t \in Threads, ReadOther(t) PROVE Inv'
<1> USE DEF ReadOther, Goto, Inv, portvars
<1>1. idx[t] \in Indices /\ \A s \in Threads : lock = s => s = t
  BY DEF TypeOK, LockInv
<1>2. TypeOK'
  BY <1>1 DEF TypeOK, PCs, BufStates, Frames
<1>3. LockInv' /\ RequestInv'
  BY <1>1, PortAssumption DEF TypeOK, LockInv, RequestInv, Busy
<1>4. StatusInv' /\ IndexExclusive'
  BY <1>1 DEF TypeOK, StatusInv, IndexExclusive, Busy, Owned, InUse
<1>5. StoreInv' /\ Charged' \subseteq Charged
  <2>1. PICK f \in network : ReadOther(t)!(f)
    OBVIOUS
  <2>2. f.idx \in Indices
    BY DEF TypeOK, Frames
  <2>3. CASE SomeoneWaits(f.idx)
    <3>1. /\ tempinbuf' = f
          /\ pc' = [pc EXCEPT ![t] = "store"]
          /\ rxbufstat[f.idx] = "tx"
          /\ UNCHANGED <<rxbufstat, idx, lock>>
      BY <2>1, <2>3 DEF SomeoneWaits
    <3>2. \A s \in Threads : pc'[s] = "store" => s = t
      BY <3>1, <1>1 DEF TypeOK, LockInv
    <3>3. StoreInv'
      BY <3>1, <3>2 DEF StoreInv
    <3>4. Owned(f.idx)
      BY <3>1, <2>2 DEF StatusInv
    <3>5. \A i : Owned(i)' <=> Owned(i)
      BY <3>1, <1>1 DEF Owned, Busy, TypeOK, LockInv
    <3>6. \A i : Pending(i)' => i = f.idx
      BY <3>1, <3>2 DEF Pending
    <3>7. Charged' \subseteq Charged
      BY <3>1, <3>4, <3>5, <3>6 DEF Charged, IsCharged, InUse, TypeOK
    <3>8. QED
      BY <3>3, <3>7
  <2>4. CASE ~ SomeoneWaits(f.idx)
    <3>1. /\ pc' = [pc EXCEPT ![t] = "timer"]
          /\ UNCHANGED <<rxbufstat, idx, tempinbuf>>
      BY <2>1, <2>4
    <3>2. StoreInv'
      BY <3>1 DEF StoreInv, TypeOK
    <3>3. Charged' \subseteq Charged
      BY <3>1, <1>1 DEF Charged, IsCharged, InUse, Owned, Busy, Pending, TypeOK, LockInv
    <3>4. QED
      BY <3>2, <3>3
  <2>5. QED
    BY <2>3, <2>4
<1>6. QED
  BY <1>2, <1>3, <1>4, <1>5, ChargeKept DEF TypeOK

LEMMA StoreKeeps ==
  ASSUME Inv, NEW t \in Threads, Store(t) PROVE Inv'
<1> USE DEF Store, Goto, Inv, portvars
<1>1. idx[t] \in Indices
  BY DEF TypeOK
<1>2. TypeOK'
  BY <1>1 DEF TypeOK, LockInv, PCs, BufStates, Frames
<1>3. LockInv' /\ RequestInv'
  BY <1>1, PortAssumption DEF TypeOK, LockInv, RequestInv, Busy
<1>4. StatusInv'
  BY <1>1 DEF TypeOK, StatusInv, IndexExclusive, Busy, Owned, InUse, LockInv, StoreInv
<1>5. StoreInv'
  BY <1>1 DEF TypeOK, LockInv, StatusInv, StoreInv, Frames, Busy
<1>6. IndexExclusive'
  BY <1>1 DEF TypeOK, IndexExclusive, Busy
<1>7. Charged' \subseteq Charged
  BY <1>1 DEF TypeOK, LockInv, StatusInv, StoreInv, IndexExclusive, Charged, IsCharged,
         InUse, Owned, Busy, Pending
<1>8. QED
  BY <1>2, <1>3, <1>4, <1>5, <1>6, <1>7, ChargeKept DEF TypeOK

LEMMA LoseKeeps ==
  ASSUME Inv, Lose PROVE Inv'
<1> USE DEF Lose, Inv, portvars, threadvars
<1>1. TypeOK'
  BY DEF TypeOK
<1>2. LockInv' /\ RequestInv' /\ StatusInv' /\ StoreInv' /\ IndexExclusive'
  BY DEF LockInv, RequestInv, StatusInv, StoreInv, IndexExclusive, Busy,
         Owned, InUse
<1>3. Charged' \subseteq Charged
  BY DEF Charged, IsCharged, InUse, Owned, Busy, Pending
<1>4. QED
  BY <1>1, <1>2, <1>3, ChargeKept DEF TypeOK

(* A request that is given up may lose its index: it pays for it here.     *)
LEMMA GiveUpKeeps ==
  ASSUME Inv, NEW t \in Threads, GiveUp(t) PROVE Inv'
<1> USE DEF GiveUp, Goto, Inv, portvars, readvars
<1>1. idx[t] \in Indices /\ giveups \in Nat /\ giveups + 1 \in 0 .. MaxGiveUps
  BY PortAssumption DEF TypeOK
<1>2. TypeOK'
  BY <1>1 DEF TypeOK, PCs
<1>3. LockInv' /\ RequestInv' /\ StatusInv' /\ StoreInv' /\ IndexExclusive'
  BY <1>1 DEF TypeOK, LockInv, RequestInv, StatusInv, StoreInv,
     IndexExclusive, Busy, Owned, InUse
<1>4. Charged' \subseteq Charged \cup {idx[t]}
  BY <1>1 DEF TypeOK, Charged, IsCharged, InUse, Owned, Busy, Pending
<1>5. /\ IsFiniteSet(Charged \cup {idx[t]})
      /\ Cardinality(Charged \cup {idx[t]})
           = IF idx[t] \in Charged THEN Cardinality(Charged)
                                   ELSE Cardinality(Charged) + 1
  BY ChargedFinite, FS_AddElement
<1>6. Charged' \in SUBSET (Charged \cup {idx[t]})
  BY <1>4
<1>7. /\ IsFiniteSet(Charged')
      /\ Cardinality(Charged') <= Cardinality(Charged \cup {idx[t]})
  BY <1>5, <1>6, FS_Subset
<1>8. Cardinality(Charged) \in Nat /\ Cardinality(Charged') \in Nat
  BY <1>7, ChargedFinite, FS_CardinalityType
<1>9. ChargeInv'
  BY <1>1, <1>5, <1>7, <1>8 DEF ChargeInv
<1>10. QED
  BY <1>2, <1>3, <1>9

LEMMA ReleaseKeeps ==
  ASSUME Inv, NEW t \in Threads, Release(t) PROVE Inv'
<1> USE DEF Release, Goto, Inv, readvars, StatusAfter
<1>1. idx[t] \in Indices
  BY DEF TypeOK
<1>2. TypeOK'
  BY <1>1 DEF TypeOK, PCs, BufStates
<1>3. LockInv' /\ RequestInv' /\ IndexExclusive'
  BY <1>1 DEF TypeOK, LockInv, RequestInv, IndexExclusive, Busy
<1>4. \A i \in Indices : Owned(i)' <=> Owned(i) /\ i # idx[t]
  BY <1>1 DEF TypeOK, IndexExclusive, Owned, Busy
<1>5. \A i : Pending(i)' <=> Pending(i)
  BY DEF TypeOK, Pending
<1>6. StatusInv'
  BY <1>1, <1>4 DEF TypeOK, StatusInv, IndexExclusive, Busy, InUse
<1>7. StoreInv'
  BY <1>1 DEF TypeOK, LockInv, StoreInv, Frames
<1>8. \A i \in Indices : i # idx[t] /\ IsCharged(i)' => IsCharged(i)
  BY <1>1, <1>4, <1>5 DEF TypeOK, IsCharged, InUse
<1>9. IsCharged(idx[t])' => IsCharged(idx[t])
  <2>1. SUFFICES ASSUME IsCharged(idx[t])' PROVE IsCharged(idx[t])
    OBVIOUS
  <2>2. UNCHANGED idx
    OBVIOUS
  <2>3. ~ InUse(idx[t])'
    BY <1>1 DEF TypeOK, InUse
  <2>4. \A s \in Threads : idx[s] = idx[t] /\ pc'[s] = "release" => FALSE
    BY <1>1 DEF TypeOK, IndexExclusive, Busy
  <2>5. Pending(idx[t])
    BY <2>1, <2>2, <2>3, <2>4, <1>5 DEF IsCharged, InUse, Pending, TypeOK
  <2>6. rxbufstat[idx[t]] # "complete"
    BY <2>5 DEF Pending, StoreInv
  <2>7. QED
    BY <2>6 DEF IsCharged
<1>10. Charged' \subseteq Charged
  BY <1>8, <1>9 DEF Charged
<1>11. QED
  BY <1>2, <1>3, <1>6, <1>7, <1>10, ChargeKept DEF TypeOK
-----------------------------------------------------------------------------
LEMMA IndexAfterInRange ==
  ASSUME TypeOK, NEW k \in 0 .. MaxBuf - 1
  PROVE  IndexAfter(k) \in Indices
BY PortAssumption DEF TypeOK, Indices, IndexAfter

(* A non-empty set of naturals has a least element. *)
LEMMA LeastExists ==
  ASSUME NEW S, S \subseteq Nat, S # {}
  PROVE  \E k \in S : \A j \in S : k <= j
<1> DEFINE R == OpToRel(<, Nat)
<1>1. IsWellFoundedOn(R, Nat)
  BY NatLessThanWellFounded
<1>2. \A j \in Nat, k \in Nat : <<j, k>> \in R <=> j < k
  BY DEF OpToRel
<1> HIDE DEF R
<1>3. \E k \in S : \A j \in S : ~ (<<j, k>> \in R)
  BY <1>1, WFMin
<1>4. PICK k \in S : \A j \in S : ~ (<<j, k>> \in R)
  BY <1>3
<1>5. \A j \in S : ~ (j < k)
  BY <1>2, <1>4
<1>6. QED
  BY <1>5

(* What the search of ecx_getindex finds if there is anything to find.     *)
LEMMA NextIndexEmpty ==
  ASSUME TypeOK, NEW i \in Indices, rxbufstat[i] = "empty"
  PROVE  NextIndex \in Indices /\ rxbufstat[NextIndex] = "empty"
<1> DEFINE empty == {k \in 0 .. MaxBuf - 1 : rxbufstat[IndexAfter(k)] = "empty"}
<1>1. \E k \in 0 .. MaxBuf - 1 : IndexAfter(k) = i
  <2>1. lastidx \in 0 .. MaxBuf - 1 /\ i \in 0 .. MaxBuf - 1 /\ MaxBuf \in Nat
    BY PortAssumption DEF TypeOK, Indices
  <2>2. CASE i > lastidx
    <3>1. i - lastidx - 1 \in 0 .. MaxBuf - 1 /\ IndexAfter(i - lastidx - 1) = i
      BY <2>1, <2>2 DEF IndexAfter
    <3>2. QED
      BY <3>1
  <2>3. CASE i <= lastidx
    <3>1. /\ i - lastidx - 1 + MaxBuf \in 0 .. MaxBuf - 1
          /\ IndexAfter(i - lastidx - 1 + MaxBuf) = i
      BY <2>1, <2>3 DEF IndexAfter
    <3>2. QED
      BY <3>1
  <2>4. QED
    BY <2>1, <2>2, <2>3
<1>2. empty # {} /\ empty \subseteq Nat
  BY <1>1
<1>3. \E k \in empty : \A j \in empty : k <= j
  BY <1>2, LeastExists
<1>4. PICK k \in empty : NextIndex = IndexAfter(k)
  BY <1>2, <1>3 DEF NextIndex
<1>5. QED
  BY <1>4, IndexAfterInRange

LEMMA NextIndexInRange ==
  ASSUME TypeOK PROVE NextIndex \in Indices
<1>1. CASE \E i \in Indices : rxbufstat[i] = "empty"
  BY <1>1, NextIndexEmpty
<1>2. CASE ~ \E i \in Indices : rxbufstat[i] = "empty"
  <2>1. {k \in 0 .. MaxBuf - 1 : rxbufstat[IndexAfter(k)] = "empty"} = {}
    BY <1>2, IndexAfterInRange
  <2>2. NextIndex = IndexAfter(0) /\ 0 \in 0 .. MaxBuf - 1
    BY <2>1, PortAssumption DEF NextIndex
  <2>3. QED
    BY <2>2, IndexAfterInRange
<1>3. QED
  BY <1>1, <1>2

(* An idle thread leaves at least one index empty.                         *)
LEMMA SomeIndexEmpty ==
  ASSUME Inv, EnoughIndices, NEW t \in Threads, ~ Busy(t)
  PROVE  \E i \in Indices : rxbufstat[i] = "empty"
<1> DEFINE InHand == {i \in Indices : Owned(i)}
           Others == Threads \ {t}
           owner == [i \in InHand |-> CHOOSE s \in Threads : Busy(s) /\ idx[s] = i]
           Used == {i \in Indices : InUse(i)}
<1>1. /\ IsFiniteSet(Others)
      /\ Cardinality(Others) = Cardinality(Threads) - 1
  BY FS_RemoveElement DEF EnoughIndices
<1>2. \A i \in InHand : /\ owner[i] \in Threads
                        /\ Busy(owner[i])
                        /\ idx[owner[i]] = i
  BY DEF Owned
<1>3. owner \in Injection(InHand, Others)
  <2>1. owner \in [InHand -> Others]
    BY <1>2
  <2>2. \A i, j \in InHand : owner[i] = owner[j] => i = j
    BY <1>2
  <2>3. QED
    BY <2>1, <2>2 DEF Injection, IsInjective
<1>4. /\ IsFiniteSet(InHand)
      /\ Cardinality(InHand) <= Cardinality(Others)
  BY <1>1, <1>3, FS_Injection
<1>5. Used \subseteq InHand \cup Charged
  BY DEF Charged, IsCharged
<1>6. /\ IsFiniteSet(InHand \cup Charged)
      /\ Cardinality(InHand \cup Charged)
           = Cardinality(InHand) + Cardinality(Charged)
               - Cardinality(InHand \cap Charged)
      /\ IsFiniteSet(InHand \cap Charged)
  BY <1>4, ChargedFinite, FS_Union, FS_Intersection
<1>7. Used \in SUBSET (InHand \cup Charged)
  BY <1>5
<1>8. /\ IsFiniteSet(Used)
      /\ Cardinality(Used) <= Cardinality(InHand \cup Charged)
  BY <1>6, <1>7, FS_Subset
<1>9. /\ Cardinality(Used) \in Nat
      /\ Cardinality(InHand) \in Nat
      /\ Cardinality(Charged) \in Nat
      /\ Cardinality(InHand \cap Charged) \in Nat
      /\ Cardinality(InHand \cup Charged) \in Nat
      /\ Cardinality(Threads) \in Nat
  BY <1>4, <1>6, <1>8, ChargedFinite, FS_CardinalityType DEF EnoughIndices
<1>10. Cardinality(Charged) <= MaxGiveUps
  BY <1>9, PortAssumption DEF Inv, ChargeInv, TypeOK
<1>11. Cardinality(Used) < MaxBuf
  BY <1>1, <1>4, <1>6, <1>8, <1>9, <1>10, PortAssumption DEF EnoughIndices
<1>12. Used # Indices
  BY <1>9, <1>11, IndicesFinite, PortAssumption
<1>13. QED
  BY <1>12 DEF InUse

LEMMA BeginKeeps ==
  ASSUME Inv, EnoughIndices, NEW t \in Threads, Begin(t) PROVE Inv'
<1> USE DEF Begin, Goto, Inv, readvars
<1> DEFINE n == NextIndex
<1>1. n \in Indices /\ rxbufstat[n] = "empty"
  BY SomeIndexEmpty, NextIndexEmpty DEF Busy
<1>2. [from |-> t, seq |-> requests[t] + 1] \in Requests
      /\ requests[t] + 1 \in Nat
  BY PortAssumption DEF TypeOK, Requests
<1> HIDE DEF n
<1>3. /\ idx' = [idx EXCEPT ![t] = n]
      /\ rxbufstat' = [rxbufstat EXCEPT ![n] = "alloc"]
      /\ lastidx' = n
      /\ txbuf' = [txbuf EXCEPT ![n] = [from |-> t, seq |-> requests[t] + 1]]
  BY DEF n, Datagram
<1>4. TypeOK'
  BY <1>1, <1>2, <1>3, PortAssumption DEF TypeOK, PCs, BufStates
<1>5. ~ Owned(n)
  BY <1>1 DEF StatusInv, Owned, InUse
<1>6. LockInv' /\ RequestInv' /\ IndexExclusive'
  BY <1>1, <1>2, <1>3, <1>5, PortAssumption
     DEF TypeOK, LockInv, RequestInv, IndexExclusive, Busy, Owned
<1>7. \A i \in Indices : Owned(i)' <=> Owned(i) \/ i = n
  BY <1>3 DEF TypeOK, Owned, Busy
<1>8. StatusInv'
  BY <1>1, <1>3, <1>5, <1>7 DEF TypeOK, StatusInv, Busy, InUse, Owned
<1>9. StoreInv'
  BY <1>1, <1>3 DEF TypeOK, StoreInv, LockInv, Frames
<1>10. Charged' \subseteq Charged
  BY <1>1, <1>3, <1>7 DEF TypeOK, Charged, IsCharged, InUse, Pending
<1>11. QED
  BY <1>4, <1>6, <1>8, <1>9, <1>10, ChargeKept DEF TypeOK
-----------------------------------------------------------------------------
LEMMA NextKeeps ==
  ASSUME Inv, EnoughIndices, ~ SendFails, [Next]_vars PROVE Inv'
<1>1. CASE UNCHANGED vars
  BY <1>1 DEF Inv, TypeOK, LockInv, RequestInv, StatusInv, StoreInv,
     IndexExclusive, ChargeInv, Charged, IsCharged, Pending, Owned, Busy,
     InUse, vars, portvars, readvars, threadvars
<1>2. CASE Lose
  BY <1>2, LoseKeeps
<1>3. ASSUME NEW t \in Threads, Progress(t) \/ Retry(t) \/ GiveUp(t)
      PROVE  Inv'
  <2>1. CASE Read(t)
    BY <2>1, FindStoredKeeps, MissKeeps, LockKeeps, FindLockedKeeps, ReadNothingKeeps,
       ReadOwnKeeps, ReadOtherKeeps, StoreKeeps DEF Read
  <2>2. CASE Begin(t) \/ Send(t) \/ PollAgain(t) \/ Take(t) \/ Release(t)
    BY <2>2, BeginKeeps, SendKeeps, PollAgainKeeps, TakeKeeps, ReleaseKeeps
  <2>3. CASE Retry(t) \/ GiveUp(t)
    BY <2>3, RetryKeeps, GiveUpKeeps
  <2>4. QED
    BY <1>3, <2>1, <2>2, <2>3 DEF Progress
<1>4. QED
  BY <1>1, <1>2, <1>3 DEF Next

(* The inductive invariant holds in every state of a port with enough      *)
(* indices: types, the reader's lock, states of the indices, and the count *)
(* of those that requests given up have lost (ecx_getindex, ecx_inframe).  *)
THEOREM InvHolds ==
  ASSUME EnoughIndices, ~ SendFails
  PROVE  Spec => []Inv
<1>1. Init => Inv
  BY InitInv
<1>2. Inv /\ [Next]_vars => Inv'
  BY NextKeeps
<1>3. QED
  BY <1>1, <1>2, PTL DEF Spec

(* No two requests under way share an index (ecx_getindex), for any number *)
(* of requests and so any number of rounds through the indices.            *)
THEOREM IndexIsExclusive ==
  ASSUME EnoughIndices, ~ SendFails
  PROVE  Spec => []IndexExclusive
<1>1. Inv => IndexExclusive
  BY DEF Inv
<1>2. QED
  BY <1>1, InvHolds, PTL

(* ecx_inframe stores no second answer into a receive buffer that its      *)
(* owner is copying, though the two hold no common lock.                   *)
THEOREM ReplyIsStable ==
  ASSUME EnoughIndices, ~ SendFails
  PROVE  Spec => []ReplyStable
<1>1. Inv => ReplyStable
  <2>1. SUFFICES ASSUME Inv, NEW r \in Threads, NEW t \in Threads,
                        pc[t] = "take", pc[r] = "store",
                        tempinbuf.idx = idx[t]
                 PROVE  FALSE
    BY DEF ReplyStable
  <2>2. rxbufstat[idx[t]] = "complete"
    BY <2>1 DEF Inv, StatusInv
  <2>3. rxbufstat[idx[t]] \in {"tx", "empty", "alloc"}
    BY <2>1 DEF Inv, StoreInv
  <2>4. QED
    BY <2>2, <2>3
<1>2. QED
  BY <1>1, InvHolds, PTL

(* An index that is neither free nor owned was lost to a late answer, and  *)
(* there is at most one of them for each request given up.                 *)
THEOREM OnlyGiveUpsLoseIndices ==
  ASSUME EnoughIndices, ~ SendFails
  PROVE  Spec => []OnlyGiveUpsStrand
<1>1. Inv => OnlyGiveUpsStrand
  <2>1. SUFFICES ASSUME Inv PROVE OnlyGiveUpsStrand
    OBVIOUS
  <2> DEFINE Stranded == {i \in Indices : ~ Owned(i) /\ InUse(i)}
  <2>2. Stranded \in SUBSET Charged
    BY DEF Charged, IsCharged
  <2>3. IsFiniteSet(Stranded) /\ Cardinality(Stranded) <= Cardinality(Charged)
    BY <2>2, ChargedFinite, FS_Subset
  <2>4. Cardinality(Stranded) \in Nat /\ Cardinality(Charged) \in Nat
    BY <2>3, ChargedFinite, FS_CardinalityType
  <2>5. Cardinality(Stranded) <= giveups
    BY <2>1, <2>3, <2>4, PortAssumption DEF Inv, ChargeInv, TypeOK
  <2>6. QED
    BY <2>1, <2>5 DEF OnlyGiveUpsStrand, Inv, StatusInv
<1>2. QED
  BY <1>1, InvHolds, PTL
-----------------------------------------------------------------------------
(* The steps that move a request or an answer, for ContentInv.             *)
LEMMA BeginContent ==
  ASSUME Inv, ContentInv, EnoughIndices, ~ FramesOutlive,
         NEW t \in Threads, Begin(t)
  PROVE  ContentInv'
<1> USE DEF Begin, Goto, Inv, readvars
<1> DEFINE n == NextIndex
<1>1. n \in Indices /\ rxbufstat[n] = "empty"
  BY SomeIndexEmpty, NextIndexEmpty DEF Busy
<1>2. \A f \in network : f.idx # n
  BY DEF NoOldFrame
<1>3. ~ Pending(n)
  BY PortAssumption
     DEF NoOldFrame, Pending, LockInv, Frames, Requests, NoRequest
<1>4. \A s \in Threads : Busy(s) => idx[s] # n
  BY <1>1 DEF StatusInv, InUse
<1> HIDE DEF n
<1>5. /\ idx' = [idx EXCEPT ![t] = n]
      /\ rxbufstat' = [rxbufstat EXCEPT ![n] = "alloc"]
      /\ txbuf' = [txbuf EXCEPT ![n] = [from |-> t, seq |-> requests[t] + 1]]
  BY DEF n, Datagram
<1>6. \A i : Pending(i)' <=> Pending(i)
  BY DEF Pending, TypeOK
<1>7. requests[t] + 1 = requests'[t]
  BY DEF TypeOK
<1>8. ASSUME NEW s \in Threads, Busy(s)', s # t
      PROVE  ContentInv!(s)'
  BY <1>1, <1>4, <1>5, <1>6, <1>8 DEF ContentInv, TypeOK, Busy, Current
<1>9. ContentInv!(t)'
  BY <1>1, <1>2, <1>3, <1>5, <1>6, <1>7 DEF ContentInv, TypeOK, Busy, Current
<1>10. QED
  BY <1>8, <1>9 DEF ContentInv

LEMMA SendContent ==
  ASSUME Inv, ContentInv, ~ SendFails, NEW t \in Threads, Send(t)
  PROVE  ContentInv'
<1> USE DEF Send, Goto, Inv
<1>1. \A i : Pending(i)' <=> Pending(i)
  BY DEF Pending, TypeOK
<1>2. idx[t] \in Indices /\ Busy(t) /\ txbuf[idx[t]] = Current(t)
  BY DEF TypeOK, ContentInv, Busy
<1>3. \A s \in Threads : Busy(s)' <=> Busy(s)
  BY DEF Busy, TypeOK
<1>4. ASSUME NEW s \in Threads, Busy(s), s # t
      PROVE  ContentInv!(s)'
  <2>1. idx[s] # idx[t]
    BY <1>2, <1>4 DEF IndexExclusive
  <2>2. QED
    BY <1>1, <1>2, <1>4, <2>1 DEF ContentInv, TypeOK, Busy, Current
<1>5. ContentInv!(t)'
  BY <1>1, <1>2 DEF ContentInv, TypeOK, Busy, Current
<1>6. QED
  BY <1>3, <1>4, <1>5 DEF ContentInv

LEMMA ReadOwnContent ==
  ASSUME Inv, ContentInv, NEW t \in Threads, ReadOwn(t)
  PROVE  ContentInv'
<1> USE DEF ReadOwn, Goto, Inv, IsRequested
<1>1. \A i : Pending(i)' <=> Pending(i)
  BY DEF Pending, TypeOK
<1>2. idx[t] \in Indices /\ Busy(t)
  BY DEF TypeOK, Busy
<1>3. \A s \in Threads : Busy(s)' <=> Busy(s)
  BY DEF Busy, TypeOK
<1>4. ASSUME NEW s \in Threads, Busy(s), s # t
      PROVE  ContentInv!(s)'
  <2>1. idx[s] # idx[t]
    BY <1>2, <1>4 DEF IndexExclusive
  <2>2. QED
    BY <1>1, <1>2, <1>4, <2>1 DEF ContentInv, TypeOK, Busy, Current
<1>5. ContentInv!(t)'
  BY <1>1, <1>2 DEF ContentInv, TypeOK, Busy, Current
<1>6. QED
  BY <1>3, <1>4, <1>5 DEF ContentInv

LEMMA ReadOtherContent ==
  ASSUME Inv, ContentInv, NEW t \in Threads, ReadOther(t)
  PROVE  ContentInv'
<1> USE DEF ReadOther, Goto, Inv
<1>1. PICK f \in network : ReadOther(t)!(f)
  OBVIOUS
<1>2. \A s \in Threads : Busy(s)' <=> Busy(s)
  BY <1>1 DEF Busy, TypeOK
<1>3. ASSUME NEW s \in Threads, Busy(s), Pending(idx[s])'
      PROVE  tempinbuf'.of = Current(s)
  <2>1. CASE SomeoneWaits(f.idx)
    <3>1. \A r \in Threads : pc'[r] = "store" => r = t
      BY <1>1, <2>1 DEF TypeOK, LockInv
    <3>2. tempinbuf' = f /\ f.idx = idx[s]
      BY <1>1, <1>3, <2>1, <3>1 DEF Pending
    <3>3. QED
      BY <1>3, <3>2 DEF ContentInv
  <2>2. CASE ~ SomeoneWaits(f.idx)
    BY <1>1, <1>3, <2>2 DEF ContentInv, Pending, TypeOK
  <2>3. QED
    BY <2>1, <2>2
<1>4. ASSUME NEW s \in Threads, Busy(s)
      PROVE  ContentInv!(s)'
  BY <1>1, <1>3, <1>4 DEF ContentInv, TypeOK, Busy, Current, portvars
<1>5. QED
  BY <1>2, <1>4 DEF ContentInv

LEMMA StoreContent ==
  ASSUME Inv, ContentInv, NEW t \in Threads, Store(t)
  PROVE  ContentInv'
<1> USE DEF Store, Goto, Inv
<1>1. \A s \in Threads : Busy(s)' <=> Busy(s)
  BY DEF Busy, TypeOK
<1>2. \A i : ~ Pending(i)'
  BY DEF Pending, TypeOK, LockInv
<1>3. Pending(tempinbuf.idx) /\ tempinbuf.idx \in Indices
  BY DEF Pending, LockInv, Frames
<1>4. ASSUME NEW s \in Threads, Busy(s)
      PROVE  ContentInv!(s)'
  BY <1>2, <1>3, <1>4 DEF ContentInv, TypeOK, Busy, Current
<1>5. QED
  BY <1>1, <1>4 DEF ContentInv

LEMMA TakeContent ==
  ASSUME Inv, ContentInv, NEW t \in Threads, Take(t)
  PROVE  ContentInv'
<1> USE DEF Take, Goto, Inv, portvars, readvars
<1>1. \A i : Pending(i)' <=> Pending(i)
  BY DEF Pending, TypeOK
<1>2. rxbuf[idx[t]] = Current(t)
  BY DEF ContentInv, StatusInv, Busy
<1>3. QED
  BY <1>1, <1>2 DEF ContentInv, TypeOK, Busy, Current

LEMMA ReleaseContent ==
  ASSUME Inv, ContentInv, NEW t \in Threads, Release(t)
  PROVE  ContentInv'
<1> USE DEF Release, Goto, Inv, readvars, StatusAfter
<1>1. \A i : Pending(i)' <=> Pending(i)
  BY DEF Pending, TypeOK
<1>2. QED
  BY <1>1 DEF ContentInv, TypeOK, Busy, Current, IndexExclusive

(* The steps of a reader that only mark an answer as taken.                *)
LEMMA FindContent ==
  ASSUME Inv, ContentInv, NEW t \in Threads, FindStored(t) \/ FindLocked(t)
  PROVE  ContentInv'
<1> USE DEF FindStored, FindLocked, Goto, Inv, readvars
<1>1. \A i : Pending(i)' <=> Pending(i)
  BY DEF Pending, TypeOK
<1>2. QED
  BY <1>1 DEF ContentInv, TypeOK, Busy, Current

(* The steps that move neither.                                            *)
LEMMA QuietContent ==
  ASSUME Inv, ContentInv, NEW t \in Threads,
         \/ Miss(t) \/ Lock(t) \/ ReadNothing(t)
         \/ PollAgain(t) \/ Retry(t) \/ GiveUp(t)
  PROVE  ContentInv'
<1> USE DEF Miss, Lock, ReadNothing, PollAgain, Retry, GiveUp, Goto, Inv, portvars,
           readvars
<1>1. \A i : Pending(i)' <=> Pending(i)
  BY DEF Pending, TypeOK
<1>2. QED
  BY <1>1 DEF ContentInv, TypeOK, Busy, Current

LEMMA LoseContent ==
  ASSUME ContentInv, Lose PROVE ContentInv'
BY DEF Lose, ContentInv, Pending, Busy, Current, portvars, threadvars

LEMMA ContentKeeps ==
  ASSUME Inv, ContentInv, EnoughIndices, ~ SendFails, ~ FramesOutlive,
         [Next]_vars
  PROVE  ContentInv'
<1>1. CASE UNCHANGED vars
  BY <1>1 DEF ContentInv, Pending, Busy, Current, vars, portvars, readvars,
     threadvars
<1>2. CASE Lose
  BY <1>2, LoseContent
<1>3. ASSUME NEW t \in Threads, Progress(t) \/ Retry(t) \/ GiveUp(t)
      PROVE  ContentInv'
  <2>1. CASE Read(t)
    BY <2>1, FindContent, QuietContent, ReadOwnContent, ReadOtherContent,
       StoreContent DEF Read
  <2>2. CASE Begin(t) \/ Send(t) \/ Take(t) \/ Release(t)
    BY <2>2, BeginContent, SendContent, TakeContent, ReleaseContent
  <2>3. CASE PollAgain(t) \/ Retry(t) \/ GiveUp(t)
    BY <2>3, QuietContent
  <2>4. QED
    BY <1>3, <2>1, <2>2, <2>3 DEF Progress
<1>4. QED
  BY <1>1, <1>2, <1>3 DEF Next

(* A primitive returns the answer to its own request or none, whichever    *)
(* thread read it (ecx_inframe, ecx_srconfirm), if no answer outlives the  *)
(* use of its index.                                                       *)
THEOREM RepliesMatch ==
  ASSUME EnoughIndices, ~ SendFails, ~ FramesOutlive
  PROVE  Spec => []ReplyMatches
<1>1. Init => Inv /\ ContentInv
  <2>1. Init => Inv
    BY InitInv
  <2>2. Init => ContentInv
    BY DEF Init, ContentInv, Busy
  <2>3. QED
    BY <2>1, <2>2
<1>2. Inv /\ ContentInv /\ [Next]_vars => Inv' /\ ContentInv'
  BY NextKeeps, ContentKeeps
<1>3. ContentInv => ReplyMatches
  BY DEF ContentInv, ReplyMatches, Busy
<1>4. QED
  BY <1>1, <1>2, <1>3, PTL DEF Spec
=============================================================================
