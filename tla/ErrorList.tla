----------------------------- MODULE ErrorList -----------------------------
(***************************************************************************)
(* The error list of a context (ec_eringt) with the flag ecaterror that    *)
(* tells the application to look at it.  The list has no lock: Push and    *)
(* Pop are whole calls, which is what a program that reports and reads     *)
(* errors from one thread gets.  Where several threads report, a push is   *)
(* two steps, Store and Count.                                             *)
(***************************************************************************)
EXTENDS Integers, Sequences

CONSTANTS MaxElist,            \* EC_MAXELIST, one less than the slots
          Errors,              \* error records
          NoError

ASSUME ErrorListAssumption == /\ MaxElist \in Nat \ {0}
                              /\ NoError \notin Errors

VARIABLES Error,               \* slot -> error record
          Signal,              \* slot -> Signal field of the record
          head, tail,
          ecaterror,
          taken                \* history: what ecx_poperror last handed out

listvars == <<Error, Signal, head, tail, ecaterror, taken>>

ErrorSlots == 0 .. MaxElist

Wrap(i) == IF i > MaxElist THEN 0 ELSE i

ListInit == /\ Error = [i \in ErrorSlots |-> NoError]
            /\ Signal = [i \in ErrorSlots |-> FALSE]
            /\ head = 0 /\ tail = 0
            /\ ecaterror = FALSE
            /\ taken = NoError

EvictNothing(h) == tail
(* The new tail when head becomes h: a full ring gives its oldest away. *)
Evict(h) == IF h = tail THEN Wrap(tail + 1) ELSE tail

(* The halves of ecx_pusherror: the record goes into the slot at head, and *)
(* head moves on from h.                                                   *)
StoreOnly(e) ==
  /\ Error' = [Error EXCEPT ![head] = e]
  /\ Signal' = [Signal EXCEPT ![head] = TRUE]
CountOnly(h) == head' = Wrap(h + 1) /\ ecaterror' = TRUE

Store(e) == StoreOnly(e) /\ UNCHANGED <<head, tail, ecaterror, taken>>
Count(h) == CountOnly(h) /\ tail' = Evict(Wrap(h + 1)) /\ UNCHANGED <<Error, Signal, taken>>

(* ecx_pusherror, also on behalf of ecx_packeterror, ecx_mbxerror and      *)
(* ecx_mbxemergencyerror.                                                  *)
Push(e) == /\ StoreOnly(e) /\ CountOnly(head)
           /\ tail' = Evict(Wrap(head + 1)) /\ UNCHANGED taken

(* ecx_iserror. *)
IsError == head # tail

(* The error ecx_poperror copies out, the flag it leaves and what counts   *)
(* for its caller: the record only if it returns TRUE.                     *)
Pop ==
  /\ Signal' = [Signal EXCEPT ![tail] = FALSE]
  /\ tail' = IF IsError THEN Wrap(tail + 1) ELSE tail
  /\ ecaterror' = (IsError /\ ecaterror)
  /\ taken' = IF IsError THEN Error[tail] ELSE NoError
  /\ UNCHANGED <<Error, head>>

ListNext == (\E e \in Errors : Push(e)) \/ Pop

ListSpec == ListInit /\ [][ListNext]_listvars
-----------------------------------------------------------------------------
ListTypeOK == /\ Error \in [ErrorSlots -> Errors \cup {NoError}]
              /\ Signal \in [ErrorSlots -> BOOLEAN]
              /\ head \in ErrorSlots
              /\ tail \in ErrorSlots
              /\ ecaterror \in BOOLEAN
              /\ taken \in Errors \cup {NoError}

(* The number of errors in the list, and the slot of the k-th of them. *)
Length == IF tail <= head THEN head - tail ELSE head - tail + MaxElist + 1
SlotOf(k) == IF tail + k - 1 > MaxElist THEN tail + k - 2 - MaxElist
                                        ELSE tail + k - 1

(* An application that looks only when ecaterror is set misses no error,   *)
(* and every error in the list still has its Signal.                       *)
FlagCoversList ==
  /\ IsError => ecaterror
  /\ \A k \in 1 .. Length : Signal[SlotOf(k)]

(* Through wrap-around and eviction the ring is the log of the latest      *)
(* errors in the order they were reported.                                 *)
Log == INSTANCE ErrorLog WITH log <- [k \in 1 .. Length |-> Error[SlotOf(k)]]
RingSpec == Log!Spec
=============================================================================
