-------------------------- MODULE Mapping_proofs --------------------------
(***************************************************************************)
(* The error ring implements the log of the latest errors, for any length  *)
(* of the list and any errors.  The inductive invariant adds to the types  *)
(* that ecaterror and the Signal fields cover the list.  The same holds of *)
(* the ring while the mapper threads of ecx_config_map_group push into it  *)
(* one after the other: MapperInv says that the error of each report is    *)
(* one the ring has room for, and Entering where it is while it has not    *)
(* been counted.                                                           *)
(***************************************************************************)
EXTENDS Mapping, TLAPS

Inv == ListTypeOK /\ FlagCoversList

log == [k \in 1 .. Length |-> Error[SlotOf(k)]]

(* The slots of a list are slots of the ring, and there are at most        *)
(* MaxElist errors in it.                                                  *)
LEMMA SlotFacts ==
  ASSUME ListTypeOK
  PROVE  /\ Length \in 0 .. MaxElist
         /\ \A k \in 1 .. Length + 1 : SlotOf(k) \in ErrorSlots
         /\ \A k \in 1 .. Length : SlotOf(k) # head
         /\ SlotOf(Length + 1) = head
         /\ Length = 0 <=> head = tail
         /\ Length > 0 => SlotOf(1) = tail
  BY ErrorListAssumption DEF ListTypeOK, ErrorSlots, Length, SlotOf

(* What a push does to the log, and what it leaves aside: ecaterror and    *)
(* the Signal fields.                                                      *)
Pushed(e) == /\ Error' = [Error EXCEPT ![head] = e]
             /\ head' = Wrap(head + 1) /\ tail' = Evict(Wrap(head + 1))
             /\ UNCHANGED taken

LEMMA PushPushes ==
  ASSUME NEW e, Push(e)
  PROVE  Pushed(e) /\ Signal' = [Signal EXCEPT ![head] = TRUE] /\ ecaterror' = TRUE
  BY DEF Push, Pushed, StoreOnly, CountOnly

(* A push into a list that is not full leaves the errors in it where they  *)
(* are and adds the new one behind them.                                   *)
LEMMA PushWithRoom ==
  ASSUME ListTypeOK, NEW e \in Errors, Pushed(e), Length < MaxElist
  PROVE  /\ Length' = Length + 1
         /\ \A k \in 1 .. Length + 1 : SlotOf(k)' = SlotOf(k)
  BY ErrorListAssumption
     DEF ListTypeOK, ErrorSlots, Length, SlotOf, Pushed, Evict, Wrap

(* A push into a full list moves every error one place forward. *)
LEMMA PushFull ==
  ASSUME ListTypeOK, NEW e \in Errors, Pushed(e), ~ (Length < MaxElist)
  PROVE  /\ Length = MaxElist /\ Length' = MaxElist
         /\ \A k \in 1 .. Length : SlotOf(k)' = SlotOf(k + 1)
  BY ErrorListAssumption
     DEF ListTypeOK, ErrorSlots, Length, SlotOf, Pushed, Evict, Wrap

(* A pop of a list with errors moves every later error one place forward.  *)
LEMMA PopOne ==
  ASSUME ListTypeOK, Pop, IsError
  PROVE  /\ Length > 0 /\ Length' = Length - 1
         /\ \A k \in 1 .. Length - 1 : SlotOf(k)' = SlotOf(k + 1)
  BY ErrorListAssumption
     DEF ListTypeOK, ErrorSlots, Length, SlotOf, Pop, IsError, Wrap

LEMMA InitInv == ListInit => Inv
<1> SUFFICES ASSUME ListInit PROVE Inv
  OBVIOUS
<1>1. ListTypeOK
  <2>1. 0 \in ErrorSlots
    BY ErrorListAssumption DEF ErrorSlots
  <2>2. Signal \in [ErrorSlots -> BOOLEAN] /\ ecaterror \in BOOLEAN
    BY DEF ListInit
  <2>3. QED
    BY <2>1, <2>2 DEF ListInit, ListTypeOK
<1>2. Length = 0 /\ ~ IsError
  BY DEF ListInit, Length, IsError
<1>3. QED
  BY <1>1, <1>2 DEF Inv, FlagCoversList

LEMMA TypeStep == ListTypeOK /\ [ListNext]_listvars => ListTypeOK'
<1> SUFFICES ASSUME ListTypeOK, [ListNext]_listvars PROVE ListTypeOK'
  OBVIOUS
<1> USE ErrorListAssumption DEF ListTypeOK, ErrorSlots
<1>1. ASSUME NEW e \in Errors, Push(e) PROVE ListTypeOK'
  BY <1>1 DEF Push, StoreOnly, CountOnly, Evict, Wrap
<1>2. CASE Pop
  BY <1>2 DEF Pop, IsError, Wrap
<1>3. CASE UNCHANGED listvars
  BY <1>3 DEF listvars
<1>4. QED
  BY <1>1, <1>2, <1>3 DEF ListNext

LEMMA FlagStep == Inv /\ [ListNext]_listvars => FlagCoversList'
<1> SUFFICES ASSUME Inv, [ListNext]_listvars PROVE FlagCoversList'
  OBVIOUS
<1>1. ListTypeOK /\ FlagCoversList /\ ListTypeOK'
  BY TypeStep DEF Inv
<1>2. ASSUME NEW e \in Errors, Push(e) PROVE FlagCoversList'
  <2>1. CASE Length < MaxElist
    <3>1. ASSUME NEW k \in 1 .. Length' PROVE Signal'[SlotOf(k)']
      <4>1. k \in 1 .. Length + 1 /\ SlotOf(k)' = SlotOf(k)
        BY <1>1, <1>2, <2>1, PushPushes, PushWithRoom
      <4>2. k \in 1 .. Length \/ k = Length + 1
        BY <1>1, <4>1, SlotFacts
      <4>3. QED
        BY <1>1, <1>2, <4>1, <4>2, SlotFacts DEF FlagCoversList, Push, StoreOnly, ListTypeOK
    <3>2. QED
      BY <1>2, <3>1, PushPushes DEF FlagCoversList
  <2>2. CASE ~ (Length < MaxElist)
    <3>1. ASSUME NEW k \in 1 .. Length' PROVE Signal'[SlotOf(k)']
      <4>1. k \in 1 .. Length /\ SlotOf(k)' = SlotOf(k + 1)
        BY <1>1, <1>2, <2>2, PushPushes, PushFull
      <4>2. k + 1 \in 1 .. Length \/ k + 1 = Length + 1
        BY <1>1, <4>1, SlotFacts
      <4>3. QED
        BY <1>1, <1>2, <4>1, <4>2, SlotFacts DEF FlagCoversList, Push, StoreOnly, ListTypeOK
    <3>2. QED
      BY <1>2, <3>1, PushPushes DEF FlagCoversList
  <2>3. QED
    BY <2>1, <2>2
<1>3. CASE Pop
  <2>1. CASE IsError
    <3>1. ecaterror'
      BY <1>1, <1>3, <2>1 DEF Pop, FlagCoversList, ListTypeOK
    <3>2. ASSUME NEW k \in 1 .. Length' PROVE Signal'[SlotOf(k)']
      <4>1. k \in 1 .. Length - 1 /\ SlotOf(k)' = SlotOf(k + 1)
        BY <1>1, <1>3, <2>1, PopOne
      <4>2. k + 1 \in 1 .. Length
        BY <1>1, <4>1, SlotFacts
      <4>3. SlotOf(k + 1) # tail
        BY <1>1, <4>2, ErrorListAssumption
           DEF ListTypeOK, ErrorSlots, Length, SlotOf
      <4>4. QED
        BY <1>1, <1>3, <4>1, <4>2, <4>3, SlotFacts
           DEF FlagCoversList, Pop, ListTypeOK
    <3>3. QED
      BY <3>1, <3>2 DEF FlagCoversList
  <2>2. CASE ~ IsError
    <3>1. head' = head /\ tail' = tail /\ head = tail
      BY <1>3, <2>2 DEF Pop, IsError
    <3>2. Length' = 0
      BY <1>1, <3>1 DEF Length, ListTypeOK, ErrorSlots
    <3>3. QED
      BY <3>1, <3>2 DEF FlagCoversList, IsError
  <2>3. QED
    BY <2>1, <2>2
<1>4. CASE UNCHANGED listvars
  BY <1>1, <1>4 DEF FlagCoversList, IsError, Length, SlotOf, listvars
<1>5. QED
  BY <1>2, <1>3, <1>4 DEF ListNext

(* Types, and an application that looks at the list only when ecaterror is *)
(* set misses no error.                                                    *)
THEOREM FlagCorrect == ListSpec => [](ListTypeOK /\ FlagCoversList)
<1>1. ListInit => Inv
  BY InitInv
<1>2. Inv /\ [ListNext]_listvars => Inv'
  BY TypeStep, FlagStep DEF Inv
<1>3. QED
  BY <1>1, <1>2, PTL DEF ListSpec, Inv
-----------------------------------------------------------------------------
(* What the log is, element by element. *)
LogView == /\ log \in Seq(Errors \cup {NoError})
           /\ Len(log) = Length
           /\ \A k \in 1 .. Length : log[k] = Error[SlotOf(k)]

LEMMA LogFacts == ListTypeOK => LogView
<1> SUFFICES ASSUME ListTypeOK PROVE LogView
  OBVIOUS
<1>1. Length \in Nat
  BY SlotFacts
<1>2. \A k \in 1 .. Length : Error[SlotOf(k)] \in Errors \cup {NoError}
  BY SlotFacts DEF ListTypeOK
<1>3. QED
  BY <1>1, <1>2 DEF log, LogView

LEMMA LogFactsNext == ListTypeOK' => LogView'
  BY LogFacts, PTL

(* Two sequences of the same length and with the same elements are equal.  *)
LEMMA SameSequence ==
  ASSUME NEW S, NEW a \in Seq(S), NEW b \in Seq(S), Len(a) = Len(b),
         \A k \in 1 .. Len(a) : a[k] = b[k]
  PROVE  a = b
  OBVIOUS

LEMMA PushRefines ==
  ASSUME ListTypeOK, ListTypeOK', NEW e \in Errors, Pushed(e)
  PROVE  Log!Report(e)
<1> DEFINE S == Errors \cup {NoError}
<1>1. ListTypeOK' /\ taken' = taken
  BY DEF Pushed
<1>2. /\ log \in Seq(S) /\ Len(log) = Length
      /\ \A k \in 1 .. Length : log[k] = Error[SlotOf(k)]
  BY LogFacts DEF LogView
<1>3. /\ log' \in Seq(S) /\ Len(log') = Length'
      /\ \A k \in 1 .. Length' : log'[k] = Error'[SlotOf(k)']
  BY <1>1, LogFactsNext DEF LogView
<1>4. /\ Length \in 0 .. MaxElist /\ head \in ErrorSlots
      /\ \A k \in 1 .. Length + 1 : SlotOf(k) \in ErrorSlots
      /\ \A k \in 1 .. Length : SlotOf(k) # head
      /\ SlotOf(Length + 1) = head
  BY SlotFacts DEF ListTypeOK
<1>5. /\ Error'[head] = e
      /\ \A i \in ErrorSlots : i # head => Error'[i] = Error[i]
  BY <1>4 DEF ListTypeOK, Pushed
<1>6. CASE Length < MaxElist
  <2>1. /\ Length' = Length + 1
        /\ \A k \in 1 .. Length + 1 : SlotOf(k)' = SlotOf(k)
    BY <1>6, PushWithRoom
  <2>2. /\ Append(log, e) \in Seq(S)
        /\ Len(Append(log, e)) = Length + 1
        /\ Append(log, e)[Length + 1] = e
        /\ \A k \in 1 .. Length : Append(log, e)[k] = log[k]
    BY <1>2
  <2>3. ASSUME NEW k \in 1 .. Length + 1 PROVE log'[k] = Append(log, e)[k]
    <3>1. log'[k] = Error'[SlotOf(k)]
      BY <1>3, <2>1
    <3>2. k \in 1 .. Length \/ k = Length + 1
      BY <1>4
    <3>3. QED
      BY <1>2, <1>4, <1>5, <2>2, <3>1, <3>2
  <2>4. log' = Append(log, e)
    BY <1>3, <2>1, <2>2, <2>3, SameSequence
  <2>5. QED
    BY <1>1, <1>2, <1>6, <2>4 DEF Log!Report, log
<1>7. CASE ~ (Length < MaxElist)
  <2>1. /\ Length = MaxElist /\ Length' = MaxElist
        /\ \A k \in 1 .. Length : SlotOf(k)' = SlotOf(k + 1)
    BY <1>7, PushFull
  <2>2. Length \in Nat \ {0}
    BY <2>1, ErrorListAssumption
  <2>3. /\ Tail(log) \in Seq(S) /\ Len(Tail(log)) = Length - 1
        /\ \A k \in 1 .. Length - 1 : Tail(log)[k] = log[k + 1]
    BY <1>2, <2>2
  <2>4. /\ Append(Tail(log), e) \in Seq(S)
        /\ Len(Append(Tail(log), e)) = Length
        /\ Append(Tail(log), e)[Length] = e
        /\ \A k \in 1 .. Length - 1 : Append(Tail(log), e)[k] = log[k + 1]
    BY <2>2, <2>3
  <2>5. ASSUME NEW k \in 1 .. Length
        PROVE  log'[k] = Append(Tail(log), e)[k]
    <3>1. log'[k] = Error'[SlotOf(k + 1)]
      BY <1>3, <2>1
    <3>2. (k \in 1 .. Length - 1 /\ k + 1 \in 1 .. Length) \/ k = Length
      BY <2>2
    <3>3. QED
      BY <1>2, <1>4, <1>5, <2>4, <3>1, <3>2
  <2>6. log' = Append(Tail(log), e)
    BY <1>3, <2>1, <2>4, <2>5, SameSequence
  <2>7. QED
    BY <1>1, <1>2, <1>7, <2>6 DEF Log!Report, log
<1>8. QED
  BY <1>6, <1>7

LEMMA PopRefines ==
  ASSUME ListTypeOK, Pop
  PROVE  Log!Take \/ Log!TakeNothing
<1> DEFINE S == Errors \cup {NoError}
<1>1. ListTypeOK'
  BY TypeStep DEF ListNext
<1>2. /\ log \in Seq(S) /\ Len(log) = Length /\ Length \in Nat
      /\ \A k \in 1 .. Length : log[k] = Error[SlotOf(k)]
  BY LogFacts, SlotFacts DEF LogView
<1>3. /\ log' \in Seq(S) /\ Len(log') = Length'
      /\ \A k \in 1 .. Length' : log'[k] = Error'[SlotOf(k)']
  BY <1>1, LogFactsNext DEF LogView
<1>4. CASE IsError
  <2>1. /\ Length > 0 /\ Length' = Length - 1
        /\ \A k \in 1 .. Length - 1 : SlotOf(k)' = SlotOf(k + 1)
    BY <1>4, PopOne
  <2>2. /\ Tail(log) \in Seq(S) /\ Len(Tail(log)) = Length - 1
        /\ \A k \in 1 .. Length - 1 : Tail(log)[k] = log[k + 1]
        /\ log # << >>
    BY <1>2, <2>1
  <2>3. ASSUME NEW k \in 1 .. Length - 1 PROVE log'[k] = Tail(log)[k]
    <3>1. log'[k] = Error[SlotOf(k + 1)] /\ k + 1 \in 1 .. Length
      BY <1>2, <1>3, <2>1 DEF Pop
    <3>2. QED
      BY <1>2, <2>2, <3>1
  <2>4. log' = Tail(log)
    BY <1>3, <2>1, <2>2, <2>3, SameSequence
  <2>5. taken' = Head(log)
    BY <1>2, <1>4, <2>1, SlotFacts DEF Pop
  <2>6. QED
    BY <2>2, <2>4, <2>5 DEF Log!Take, log
<1>5. CASE ~ IsError
  <2>1. head' = head /\ tail' = tail /\ Error' = Error /\ taken' = NoError
    BY <1>5 DEF Pop, IsError
  <2>2. log' = log
    BY <2>1 DEF log, Length, SlotOf
  <2>3. log = << >>
    BY <1>2, <1>5, SlotFacts DEF IsError
  <2>4. QED
    BY <2>1, <2>2, <2>3 DEF Log!TakeNothing, log
<1>6. QED
  BY <1>4, <1>5

(* The ring of ecx_pusherror and ecx_poperror is the log of the latest     *)
(* MaxElist errors: read in the order of reporting, the oldest evicted.    *)
THEOREM RingIsLog == ListSpec => RingSpec
<1>1. ListInit => Log!Init
  <2> SUFFICES ASSUME ListInit PROVE Log!Init
    OBVIOUS
  <2>1. Length = 0 /\ ListTypeOK /\ taken = NoError
    BY InitInv DEF ListInit, Length, Inv
  <2>2. log = << >>
    BY <2>1, LogFacts DEF LogView
  <2>3. QED
    BY <2>1, <2>2 DEF Log!Init, log
<1>2. ListTypeOK /\ [ListNext]_listvars => [Log!Next]_(Log!vars)
  <2> SUFFICES ASSUME ListTypeOK, [ListNext]_listvars PROVE [Log!Next]_(Log!vars)
    OBVIOUS
  <2>1. ASSUME NEW e \in Errors, Push(e) PROVE Log!Next
    BY <2>1, TypeStep, PushPushes, PushRefines DEF Log!Next, ListNext
  <2>2. CASE Pop
    BY <2>2, PopRefines DEF Log!Next
  <2>3. CASE UNCHANGED listvars
    BY <2>3 DEF listvars, Log!vars, Length, SlotOf
  <2>4. QED
    BY <2>1, <2>2, <2>3 DEF ListNext
<1>3. QED
  BY <1>1, <1>2, FlagCorrect, PTL DEF ListSpec, RingSpec, Log!Spec
-----------------------------------------------------------------------------
(* The list of errors under the mapper threads and the reader of Mapping.  *)

(* What a mapper that works on slave s carries with it. *)
WorksOn(t, s) == DOMAIN t = DOMAIN Idle /\ t.s = s

MapperInv ==
  /\ Len(bus) \in Nat \ {0} /\ Slaves \subseteq Errors
  /\ slave \in Slaves
  /\ th = [n \in Mappers |-> th[n]]
  /\ \A n \in Mappers : /\ DOMAIN th[n] = DOMAIN Idle
                        /\ th[n].at # "idle" => th[n].s \in Slaves

(* No part of a thread's program changes the slave it works on.            *)
LEMMA KeepsSlave ==
  ASSUME NEW t, NEW s, WorksOn(t, s)
  PROVE  /\ WorksOn(NextSm(t), s) /\ WorksOn(NextPdo(t), s)
         /\ WorksOn(NextEntry(t), s) /\ WorksOn(AfterEni(t), s)
         /\ WorksOn(NextIdn(t), s)
         /\ \A c : WorksOn(FirstSm(t, c), s) /\ WorksOn(FirstPdo(t, c), s)
         /\ \A b : WorksOn(Mapped(t, b), s)
         /\ WorksOn(Closed(t), s)
<1> USE DEF WorksOn, Idle
<1>1. ASSUME NEW u, WorksOn(u, s) PROVE WorksOn(NextSm(u), s) /\ WorksOn(NextPdo(u), s)
  BY <1>1 DEF NextSm, NextPdo
<1>2. WorksOn(NextEntry(t), s) /\ WorksOn(AfterEni(t), s) /\ WorksOn(NextIdn(t), s)
  BY <1>1 DEF NextEntry, AfterEni, NextIdn
<1>3. ASSUME NEW c PROVE WorksOn(FirstSm(t, c), s) /\ WorksOn(FirstPdo(t, c), s)
  BY <1>1 DEF FirstSm, FirstPdo
<1>4. ASSUME NEW b PROVE WorksOn(Mapped(t, b), s)
  BY DEF Mapped
<1>5. WorksOn(Closed(t), s)
  BY <1>1 DEF Closed
<1>6. QED
  BY <1>1, <1>2, <1>3, <1>4, <1>5

(* What a step of mapper n may do to the list of errors and to th.         *)
Reports(n) == Report(n) \/ UNCHANGED errors
MapperStep(n) ==
  /\ th[n].at # "idle"
  /\ Reports(n)
  /\ UNCHANGED <<bus, slave>>
  /\ \E u : /\ th' = [th EXCEPT ![n] = u]
            /\ u = Idle \/ WorksOn(u, th[n].s)

LEMMA MapperSteps ==
  ASSUME MapperInv, NEW n \in Mappers, Reads(n)
  PROVE  MapperStep(n)
<1> DEFINE t == th[n]
           s == th[n].s
<1>1. WorksOn(t, s) /\ (t.at # "idle" => s \in Errors)
  BY DEF MapperInv, WorksOn
<1>2. ASSUME t.at # "idle", Fails(n) PROVE Reports(n)
  BY <1>2 DEF Fails, Reports
<1>3. ASSUME t.at # "idle", NEW r, NEW v, Answers(n, r, v) PROVE Reports(n)
  BY <1>2, <1>3 DEF Answers, Answered, Reports
<1>4. ASSUME NEW u, t.at # "idle", WorksOn(u, s), Step(n, u), UNCHANGED <<bus, slave>>,
             Reports(n)
      PROVE  MapperStep(n)
  BY <1>4 DEF Step, MapperStep
<1>5. CASE EniCommand(n)
  <2>1. t.at # "idle" /\ UNCHANGED <<bus, slave>>
    BY <1>5 DEF EniCommand, mainvars
  <2>2. Reports(n)
    BY <1>2, <1>5, <2>1 DEF EniCommand, Answered, trouble, Reports
  <2>3. WorksOn([t EXCEPT !.k = @ + 1], s) /\ WorksOn(AfterEni(t), s)
    BY <1>1, KeepsSlave DEF WorksOn, Idle
  <2>4. QED
    BY <1>4, <1>5, <2>1, <2>2, <2>3 DEF EniCommand
<1>6. CASE ReadComplete(n)
  <2>1. t.at # "idle" /\ UNCHANGED <<bus, slave>>
    BY <1>6 DEF ReadComplete, mainvars
  <2>2. Reports(n)
    BY <1>2, <1>6, <2>1 DEF ReadComplete, Reports
  <2>3. WorksOn([t EXCEPT !.ca = TRUE], s)
    BY <1>1 DEF WorksOn, Idle
  <2>4. \A c : WorksOn(FirstSm([t EXCEPT !.ca = TRUE], c), s)
    BY <2>3, KeepsSlave
  <2>5. QED
    BY <1>4, <1>6, <2>1, <2>2, <2>4 DEF ReadComplete
<1>7. CASE ReadCount(n)
  <2>1. t.at # "idle" /\ UNCHANGED <<bus, slave>>
    BY <1>7 DEF ReadCount, mainvars
  <2>2. QED
    <3>1. PICK v : Answers(n, Len(bus[s].types), v)
      BY <1>7 DEF ReadCount
    <3>2. PICK c : Step(n, FirstSm(t, c))
      BY <1>7 DEF ReadCount
    <3>3. WorksOn(FirstSm(t, c), s)
      BY <1>1, KeepsSlave
    <3>4. QED
      BY <1>3, <1>4, <2>1, <3>1, <3>2, <3>3
<1>8. ASSUME NEW v, t.at # "idle", SetType(n, t, v), UNCHANGED <<bus, slave>>, Reports(n)
      PROVE  MapperStep(n)
  <2> DEFINE u == [t EXCEPT !.add = IF t.sm = 2 /\ v = 2 THEN 1 ELSE @]
  <2>1. WorksOn(u, s)
    BY <1>1 DEF WorksOn, Idle
  <2>2. CASE Step(n, NextSm(u))
    <3>1. WorksOn(NextSm(u), s)
      BY <2>1, KeepsSlave
    <3>2. QED
      BY <1>4, <1>8, <2>2, <3>1
  <2>3. ASSUME NEW w, Step(n, [u EXCEPT !.ty = w, !.at = IF t.ca THEN "assigns" ELSE "assign"])
        PROVE  MapperStep(n)
    <3>1. WorksOn([u EXCEPT !.ty = w, !.at = IF t.ca THEN "assigns" ELSE "assign"], s)
      BY <2>1 DEF WorksOn, Idle
    <3>2. QED
      BY <1>4, <1>8, <2>3, <3>1
  <2>4. QED
    BY <1>8, <2>2, <2>3 DEF SetType
<1>9. CASE ReadType(n)
  <2>1. t.at # "idle" /\ UNCHANGED <<bus, slave>>
    BY <1>9 DEF ReadType, mainvars
  <2>2. QED
    BY <1>1, <1>3, <1>4, <1>8, <1>9, <2>1, KeepsSlave DEF ReadType
<1>10. CASE TakeType(n)
  BY <1>8, <1>10 DEF TakeType, mainvars, trouble, Reports
<1>11. CASE ReadAssign(n)
  <2>1. t.at # "idle" /\ UNCHANGED <<bus, slave>>
    BY <1>11 DEF ReadAssign, mainvars
  <2>2. QED
    BY <1>1, <1>3, <1>4, <1>11, <2>1, KeepsSlave DEF ReadAssign
<1>12. CASE ReadIndex(n)
  <2> DEFINE p == [t EXCEPT !.k = @ + 1]
  <2>1. t.at # "idle" /\ UNCHANGED <<bus, slave>>
    BY <1>12 DEF ReadIndex, mainvars
  <2>2. WorksOn(p, s)
    BY <1>1 DEF WorksOn, Idle
  <2>3. WorksOn([p EXCEPT !.at = "entries"], s) /\ WorksOn(NextPdo(p), s)
    BY <2>2, KeepsSlave DEF WorksOn, Idle
  <2>4. QED
    BY <1>3, <1>4, <1>12, <2>1, <2>3 DEF ReadIndex
<1>13. CASE ReadEntries(n)
  <2>1. t.at # "idle" /\ UNCHANGED <<bus, slave>>
    BY <1>13 DEF ReadEntries, mainvars
  <2>2. ASSUME NEW v PROVE WorksOn(NextEntry([t EXCEPT !.e = 0, !.es = v]), s)
    <3>1. WorksOn([t EXCEPT !.e = 0, !.es = v], s)
      BY <1>1 DEF WorksOn, Idle
    <3>2. QED
      BY ONLY <3>1, KeepsSlave
  <2>3. PICK v : Answers(n, Len(Assigned(t)[t.k]), v) /\ Step(n, NextEntry([t EXCEPT !.e = 0, !.es = v]))
    BY <1>13 DEF ReadEntries
  <2>4. QED
    BY <1>3, <1>4, <2>1, <2>2, <2>3
<1>14. CASE ReadEntry(n)
  <2> DEFINE p == [t EXCEPT !.e = @ + 1]
             q(v) == [p EXCEPT !.sum = @ + IF v = NoAnswer THEN 0 ELSE v]
  <2>1. t.at # "idle" /\ UNCHANGED <<bus, slave>>
    BY <1>14 DEF ReadEntry, mainvars
  <2>2. ASSUME NEW v PROVE WorksOn(NextEntry(q(v)), s)
    <3>1. WorksOn(q(v), s)
      BY <1>1 DEF WorksOn, Idle
    <3>2. QED
      BY ONLY <3>1, KeepsSlave
  <2>3. PICK v : Answers(n, Assigned(p)[p.k][p.e], v) /\ Step(n, NextEntry(q(v)))
    BY <1>14 DEF ReadEntry
  <2>4. QED
    BY <1>3, <1>4, <2>1, <2>2, <2>3
<1>15. CASE ReadAssigns(n)
  <2>1. t.at # "idle" /\ UNCHANGED <<bus, slave>>
    BY <1>15 DEF ReadAssigns, mainvars
  <2>2. Reports(n)
    BY <1>2, <1>15, <2>1 DEF ReadAssigns, Answered, Reports
  <2>3. QED
    BY <1>1, <1>4, <1>15, <2>1, <2>2, KeepsSlave DEF ReadAssigns
<1>16. CASE ReadPdo(n)
  <2> DEFINE p == [t EXCEPT !.k = @ + 1]
             q(v) == [p EXCEPT !.sum = @ + IF v = NoAnswer THEN 0 ELSE v]
  <2>1. t.at # "idle" /\ UNCHANGED <<bus, slave>>
    BY <1>16 DEF ReadPdo, mainvars
  <2>2. ASSUME NEW v PROVE WorksOn(NextPdo(q(v)), s)
    <3>1. WorksOn(q(v), s)
      BY <1>1 DEF WorksOn, Idle
    <3>2. QED
      BY ONLY <3>1, KeepsSlave
  <2>3. PICK v : Answers(n, Total(scratch[n].assign[p.k]), v) /\ Step(n, NextPdo(q(v)))
    BY <1>16 DEF ReadPdo
  <2>4. QED
    BY <1>3, <1>4, <2>1, <2>2, <2>3
<1>17. CASE Close(n) \/ CloseShown(n)
  BY <1>1, <1>4, <1>17, KeepsSlave DEF Close, CloseShown, mainvars, trouble, Reports
<1>18. CASE FoundCA(n)
  <2>1. WorksOn([t EXCEPT !.ca = FALSE, !.at = IF Empty(t) THEN "count" ELSE @], s)
    BY <1>1 DEF WorksOn, Idle
  <2>2. QED
    BY <1>4, <1>18, <2>1 DEF FoundCA, mainvars, Reports
<1>19. CASE Found(n)
  <2>1. WorksOn([t EXCEPT !.at = IF Empty(t) /\ bus[s].soe THEN "idn" ELSE "end",
                          !.k = 0], s)
    BY <1>1 DEF WorksOn, Idle
  <2>2. QED
    BY <1>4, <1>19, <2>1 DEF Found, mainvars, trouble, Reports
<1>20. CASE FoundShown(n)
  BY <1>20 DEF FoundShown, mainvars, trouble, Step, MapperStep, Reports
<1>21. CASE ReadIdn(n)
  <2> DEFINE read(v) == [Mapped(t, 16) EXCEPT !.at = "attribute", !.es = v]
  <2>1. t.at # "idle" /\ UNCHANGED <<bus, slave>>
    BY <1>21 DEF ReadIdn, mainvars
  <2>2. WorksOn(NextIdn(t), s) /\ \A v : WorksOn(read(v), s)
    BY <1>1, KeepsSlave DEF WorksOn, Idle
  <2>3. Reports(n)
    BY <1>2, <1>21, <2>1 DEF ReadIdn, NothingToCopy, Answered, Reports
  <2>4. Step(n, NextIdn(t)) \/ UNCHANGED th \/ \E v : Step(n, read(v))
    BY <1>21 DEF ReadIdn, NothingToCopy
  <2>5. UNCHANGED th => Step(n, t)
    BY DEF Step, MapperInv
  <2>6. QED
    BY <1>1, <1>4, <2>1, <2>2, <2>3, <2>4, <2>5
<1>22. CASE ReadAttribute(n)
  <2> DEFINE p == [t EXCEPT !.e = @ + 1]
             q(v) == Mapped(p, v)
  <2>1. t.at # "idle" /\ UNCHANGED <<bus, slave>>
    BY <1>22 DEF ReadAttribute, mainvars
  <2>2. WorksOn(p, s)
    BY <1>1 DEF WorksOn, Idle
  <2>3. ASSUME NEW v PROVE WorksOn(q(v), s) /\ WorksOn(NextIdn(q(v)), s)
    <3>1. WorksOn(q(v), s)
      BY <2>2, KeepsSlave
    <3>2. QED
      BY <3>1, KeepsSlave
  <2>4. Reports(n)
    BY <1>2, <1>22, <2>1 DEF ReadAttribute, NothingToCopy, Answered, Reports
  <2>5. UNCHANGED th \/ \E v : Step(n, q(v)) \/ Step(n, NextIdn(q(v)))
    BY <1>22 DEF ReadAttribute, NothingToCopy
  <2>6. UNCHANGED th => Step(n, t)
    BY DEF Step, MapperInv
  <2>7. QED
    BY <1>1, <1>4, <2>1, <2>3, <2>4, <2>5, <2>6
<1>23. CASE IdnEnd(n)
  <2>1. WorksOn([t EXCEPT !.at = "end"], s)
    BY <1>1 DEF WorksOn, Idle
  <2>2. QED
    BY <1>4, <1>23, <2>1 DEF IdnEnd, mainvars, trouble, Reports
<1>24. CASE End(n)
  BY <1>24 DEF End, mainvars, trouble, Step, MapperStep, Reports
<1>25. QED
  BY <1>5, <1>6, <1>7, <1>9, <1>10, <1>11, <1>12, <1>13, <1>14, <1>15, <1>16, <1>17,
     <1>18, <1>19, <1>20, <1>21, <1>22, <1>23, <1>24 DEF Reads

LEMMA MapperStepKeeps ==
  ASSUME MapperInv, NEW n \in Mappers, MapperStep(n)
  PROVE  MapperInv'
<1>1. PICK u : th' = [th EXCEPT ![n] = u] /\ (u = Idle \/ WorksOn(u, th[n].s))
  BY DEF MapperStep
<1>2. UNCHANGED <<bus, slave>> /\ Slaves' = Slaves
  BY DEF MapperStep, Slaves
<1>3. u = Idle => DOMAIN u = DOMAIN Idle /\ u.at = "idle"
  BY DEF Idle
<1>4. QED
  <2>1. DOMAIN u = DOMAIN Idle /\ (u.at # "idle" => u.s \in Slaves)
    BY <1>1, <1>3 DEF MapperStep, MapperInv, WorksOn
  <2>2. QED
    BY <1>1, <1>2, <2>1 DEF MapperInv

(* The main thread pops an error or leaves the list alone. *)
ListKept == UNCHANGED errors \/ (Pop /\ UNCHANGED <<pushing, torn>>)

LEMMA MainSteps ==
  ASSUME MapperInv, Main
  PROVE  ListKept /\ MapperInv'
<1>1. ASSUME NEW this, NEW then, NextSlave(this, then), bus' = bus
      PROVE  Slaves' = Slaves /\ slave' \in Slaves'
  BY <1>1 DEF NextSlave, MapperInv, Slaves
<1>4. CASE Spawn
  <2>1. Slaves' = Slaves /\ slave' \in Slaves' /\ ListKept
        /\ Len(bus') = Len(bus)
    BY <1>1, <1>4 DEF Spawn, ListKept
  <2>2. CASE th' = th
    BY <2>1, <2>2 DEF MapperInv
  <2>3. ASSUME NEW n \in Mappers,
               NEW at, th' = [th EXCEPT ![n] = [Idle EXCEPT !.at = at, !.s = slave]]
        PROVE  MapperInv'
    <3>1. /\ DOMAIN [Idle EXCEPT !.at = at, !.s = slave] = DOMAIN Idle
          /\ [Idle EXCEPT !.at = at, !.s = slave].s = slave
      BY DEF Idle
    <3>2. QED
      BY <2>1, <2>3, <3>1 DEF MapperInv
  <2>4. QED
    BY <1>4, <2>1, <2>2, <2>3 DEF Spawn, Step
<1>5. CASE Join
  BY <1>5 DEF Join, MapperInv, Slaves, trouble, ListKept
<1>6. CASE MapSii
  BY <1>6 DEF MapSii, MapperInv, Slaves, ListKept
<1>7. CASE MapSm
  BY <1>1, <1>7 DEF MapSm, MapperInv, ListKept
<1>8. CASE PassOver
  BY <1>1, <1>8 DEF PassOver, MapperInv, trouble, ListKept
<1>9. CASE Tell
  BY <1>9 DEF Tell, MapperInv, Slaves, ListKept, errors
<1>10. CASE Show
  <2>1. Slaves' = Slaves /\ slave' \in Slaves' /\ ListKept
        /\ Len(bus') = Len(bus) /\ 0 \in Mappers
    BY <1>1, <1>10, MappingAssumption DEF Show, trouble, Mappers, ListKept
  <2>2. CASE th' = th
    BY <2>1, <2>2 DEF MapperInv
  <2>3. CASE th' = [th EXCEPT ![0] = [Idle EXCEPT !.at = "count", !.s = slave,
                                                  !.show = TRUE]]
    <3>1. /\ DOMAIN [Idle EXCEPT !.at = "count", !.s = slave, !.show = TRUE] = DOMAIN Idle
          /\ [Idle EXCEPT !.at = "count", !.s = slave, !.show = TRUE].s = slave
      BY DEF Idle
    <3>2. QED
      BY <2>1, <2>3, <3>1 DEF MapperInv
  <2>4. QED
    BY <1>10, <2>1, <2>2, <2>3 DEF Show, Step
<1>11. QED
  BY <1>4, <1>5, <1>6, <1>7, <1>8, <1>9, <1>10 DEF Main

(* As long as no two errors have been entered at the same time, one that   *)
(* is entered but not yet counted is in the slot at head, which is not one *)
(* of the list.                                                            *)
Entering ==
  /\ ListTypeOK /\ torn \in BOOLEAN
  /\ pushing \in [Mappers -> ErrorSlots \cup {NoSlot}]
  /\ ~torn => \A n \in Mappers : pushing[n] # NoSlot =>
       /\ pushing[n] = head /\ Error[head] \in Errors
       /\ \A m \in Mappers \ {n} : pushing[m] = NoSlot

LEMMA SlotsAreNumbers == /\ ErrorSlots \subseteq Nat /\ NoSlot \notin ErrorSlots
                         /\ \A i \in ErrorSlots : Wrap(i + 1) \in ErrorSlots
  BY ErrorListAssumption DEF ErrorSlots, NoSlot, Wrap

(* The slot at head is written: the log stays as it is.                    *)
LEMMA Reported ==
  ASSUME Entering, NEW n \in Mappers, Report(n), th[n].s \in Errors
  PROVE  Entering' /\ UNCHANGED Log!vars
<1>1. /\ Error' = [Error EXCEPT ![head] = th[n].s] /\ Signal' = [Signal EXCEPT ![head] = TRUE]
      /\ UNCHANGED <<head, tail, ecaterror, taken>>
  BY DEF Report, Store, StoreOnly
<1>2. ListTypeOK'
  BY <1>1 DEF Entering, ListTypeOK, ErrorSlots
<1>3. pushing' \in [Mappers -> ErrorSlots \cup {NoSlot}] /\ torn' \in BOOLEAN
  BY DEF Entering, Report, ListTypeOK
<1>4. ~torn' => \A m \in Mappers : pushing'[m] # NoSlot =>
        /\ pushing'[m] = head' /\ Error'[head'] \in Errors
        /\ \A k \in Mappers \ {m} : pushing'[k] = NoSlot
  BY <1>1 DEF Entering, Report, ListTypeOK
<1>5. Length' = Length /\ \A k \in 1 .. Length : SlotOf(k)' = SlotOf(k)
  BY <1>1 DEF Length, SlotOf
<1>6. \A k \in 1 .. Length : Error'[SlotOf(k)] = Error[SlotOf(k)]
  BY <1>1, SlotFacts DEF Entering, ListTypeOK
<1>7. log' = log
  BY <1>5, <1>6 DEF log
<1> QED BY <1>1, <1>2, <1>3, <1>4, <1>7 DEF Entering, Log!vars, log

(* An error is counted: unless another was entered at the same time, it is *)
(* reported now.                                                           *)
LEMMA CountedKeeps ==
  ASSUME Entering, NEW n \in Mappers, Counted(n)
  PROVE  Entering' /\ (torn' \/ Log!Next)
<1>1. PICK h \in {pushing[n], head} :
        \/ Count(h)
        \/ torn /\ CountOnly(h) /\ UNCHANGED <<Error, Signal, tail, taken>>
  BY DEF Counted
<1>2. h \in ErrorSlots /\ pushing[n] # NoSlot /\ torn' = torn
      /\ pushing' = [pushing EXCEPT ![n] = NoSlot]
  BY DEF Counted, Entering, ListTypeOK
<1>3. /\ head' = Wrap(h + 1) /\ ecaterror' = TRUE /\ tail' \in {tail, Evict(Wrap(h + 1))}
      /\ UNCHANGED <<Error, Signal, taken>>
  BY <1>1 DEF Count, CountOnly
<1>4. ListTypeOK'
  <2>1. tail' \in ErrorSlots
    BY <1>3, SlotsAreNumbers DEF Evict, Entering, ListTypeOK
  <2> QED BY <1>2, <1>3, <2>1, SlotsAreNumbers DEF Entering, ListTypeOK, ErrorSlots
<1>5. ~torn => \A m \in Mappers : pushing'[m] = NoSlot
  BY <1>2 DEF Entering
<1>6. CASE torn
  BY <1>2, <1>4, <1>6 DEF Entering
<1>7. CASE ~torn
  <2>1. h = head /\ Error[head] \in Errors /\ Count(head)
    BY <1>1, <1>2, <1>7 DEF Entering
  <2>2. Pushed(Error[head])
    BY <2>1 DEF Count, CountOnly, Pushed, Entering, ListTypeOK
  <2>3. Log!Next
    BY <1>4, <2>1, <2>2, PushRefines DEF Log!Next, Entering
  <2> QED BY <1>2, <1>4, <1>5, <2>3 DEF Entering
<1> QED BY <1>6, <1>7

(* An error is taken out.                                                  *)
LEMMA PopKeeps ==
  ASSUME Entering, Pop, UNCHANGED <<pushing, torn>>
  PROVE  Entering' /\ Log!Next
<1>1. ListTypeOK'
  BY TypeStep DEF Entering, ListNext
<1>2. UNCHANGED <<Error, head>>
  BY DEF Pop
<1>3. Log!Next
  BY PopRefines DEF Entering, Log!Next
<1> QED BY <1>1, <1>2, <1>3 DEF Entering

LEMMA ErrorsKept ==
  ASSUME Entering, UNCHANGED errors
  PROVE  Entering' /\ UNCHANGED Log!vars
<1>1. UNCHANGED <<Error, Signal, head, tail, ecaterror, taken, pushing, torn>>
  BY DEF errors, listvars
<1> QED BY <1>1 DEF Entering, ListTypeOK, Log!vars, log, Length, SlotOf

(* While mapper threads report what goes wrong and the application prints  *)
(* it, the list of errors stays the log of the latest MaxElist of them, as *)
(* long as no two mappers have been in ecx_pusherror at the same time, for *)
(* any slaves, any number of mappers and any faults.                       *)
THEOREM ReportsAreLogged == Spec => LogSpec
<1> DEFINE Inv2 == MapperInv /\ Entering
<1>1. Init => Inv2 /\ Log!Init
  <2> SUFFICES ASSUME Init PROVE Inv2 /\ Log!Init
    OBVIOUS
  <2>1. PICK b \in Buses : bus = b.slaves
    BY DEF Init
  <2>2. Len(bus) \in Nat \ {0} /\ Slaves \subseteq Errors
    BY <2>1, BusesAssumption DEF Slaves
  <2>3. \A n \in Mappers : th[n] = Idle
    BY DEF Init
  <2>4. MapperInv
    BY <2>2, <2>3 DEF Init, MapperInv, Slaves, Idle
  <2>5. ListInit /\ ListTypeOK
    BY InitInv DEF Init, Inv
  <2>6. Entering
    BY <2>5 DEF Entering, Init
  <2>7. Length = 0 /\ taken = NoError
    BY <2>5 DEF ListInit, Length
  <2>8. log = << >>
    BY <2>5, <2>7, LogFacts DEF LogView
  <2> QED BY <2>4, <2>6, <2>7, <2>8 DEF Log!Init, log
<1>2. Inv2 /\ [Next]_vars => Inv2' /\ [Log!Next \/ torn']_(Log!vars)
  <2> SUFFICES ASSUME MapperInv, Entering, [Next]_vars
               PROVE  MapperInv' /\ Entering' /\ [Log!Next \/ torn']_(Log!vars)
    OBVIOUS
  <2>1. CASE UNCHANGED vars
    BY <2>1, ErrorsKept DEF vars, mainvars, trouble, MapperInv, Slaves
  <2>2. ASSUME NEW n \in Mappers, Counted(n)
        PROVE  MapperInv' /\ Entering' /\ [Log!Next \/ torn']_(Log!vars)
    <3>1. UNCHANGED <<bus, slave, th>>
      BY <2>2 DEF Counted, mainvars
    <3> QED BY <2>2, <3>1, CountedKeeps DEF MapperInv, Slaves
  <2>3. ASSUME NEW n \in Mappers, Reads(n)
        PROVE  MapperInv' /\ Entering' /\ [Log!Next \/ torn']_(Log!vars)
    <3>1. MapperStep(n)
      BY <2>3, MapperSteps
    <3>2. th[n].s \in Errors
      BY <3>1 DEF MapperStep, MapperInv
    <3> QED BY <3>1, <3>2, MapperStepKeeps, Reported, ErrorsKept DEF MapperStep, Reports
  <2>4. CASE Main
    BY <2>4, MainSteps, PopKeeps, ErrorsKept DEF ListKept
  <2> QED BY <2>1, <2>2, <2>3, <2>4 DEF Next, Mapper
<1>3. QED
  BY <1>1, <1>2, PTL DEF Spec, LogSpec
=============================================================================
