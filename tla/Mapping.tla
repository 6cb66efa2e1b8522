------------------------------ MODULE Mapping ------------------------------
(***************************************************************************)
(* How ecx_config_map_group finds out what process data the slaves have:   *)
(* mapper threads read the mapping over CoE or SoE, the main thread fills  *)
(* the gaps from earlier slaves of the same kind and from the EEPROMs and  *)
(* programs the sync managers, and slaveinfo prints the errors of it all   *)
(* and the mapping, which it reads once more.                              *)
(*                                                                         *)
(* One mailbox read or write is one step, whose answer is right, or a      *)
(* refusal, or missing.  What goes wrong is entered in the list of errors, *)
(* which is not locked: a push is two steps, and those of several threads  *)
(* may overlap.  A read of an IDN, which ecx_SoEread copies from the mail  *)
(* that it found before it asked, is the end of the program where it found *)
(* none.  With one thread the code calls ecx_map_coe_soe directly, which   *)
(* differs only in that the main thread waits for its end.                 *)
(***************************************************************************)
EXTENDS ErrorList, SequencesExt

CONSTANTS MaxSM,               \* EC_MAXSM
          MaxMapt,             \* EC_MAX_MAPT
          MaxDrives,           \* EC_SOE_MAX_DRIVES
          Group,               \* argument "group"
          Buses,               \* descriptions of slaves, with an ENI table
          MaxFaults            \* bound: refused or lost mails and frames, and
                               \* threads that do not start

ASSUME MappingAssumption == /\ {MaxSM, MaxMapt, MaxDrives} \subseteq Nat \ {0}
                            /\ {Group, MaxFaults} \subseteq Nat

(* There is a slave, and the number of each is in its error records.       *)
ASSUME BusesAssumption == \A b \in Buses : /\ Len(b.slaves) \in Nat \ {0}
                                          /\ 1 .. Len(b.slaves) \subseteq Errors

VARIABLES bus, eni,            \* the slaves, and what an ENI file says of them
          dict,                \* slave -> sync manager -> the PDOs assigned
          regs,                \* slave -> sync manager registers
          pc, slave,           \* main thread
          mapt, th, scratch,   \* mapper threads, their work, and PDOassign,
                               \* PDOdesc and SMcommtype of the context
          list,                \* what slavelist says of the mapping
          shown,               \* slave -> sizes of the mapping as printed
          faults,
          failed,              \* slaves that something was not read from
          late,                \* slaves with an answer to an earlier mail waiting
          dead,                \* the program has ended, of a null pointer
          pushing,             \* mapper -> slot of the error it is entering
          torn                 \* history: two entered errors at the same time

mainvars == <<bus, eni, regs, pc, slave>>
errors   == <<listvars, pushing, torn>>
trouble  == <<faults, failed, late, dead, errors>>
vars == <<mainvars, dict, mapt, th, scratch, list, shown, trouble>>

Slaves    == 1 .. Len(bus)
SMs       == 0 .. MaxSM - 1      \* an assignment may have one more
Mappers   == 0 .. MaxMapt - 1
InGroup(s) == Group = 0 \/ Group = bus[s].group
NoAnswer  == -1
NoSlot    == -1
Bytes(bits) == (bits + 7) \div 8
Total(seq) == FoldLeft(LAMBDA a, b : a + b, 0, seq)

Sizes == [O |-> 0, I |-> 0]
Idle  == [at |-> "idle", s |-> 0, show |-> FALSE, ca |-> FALSE,
          sm |-> 0, sms |-> 0, ty |-> 0, add |-> 0,    \* sync manager
          k |-> 0, ks |-> 0, e |-> 0, es |-> 0,        \* PDO, entry
          sum |-> 0, O |-> 0, I |-> 0]
Clear == [types |-> << >>, assign |-> << >>]

Init ==
  /\ ListInit
  /\ \E b \in Buses : /\ bus = b.slaves /\ eni = b.eni
                      /\ dict = [s \in DOMAIN b.slaves |-> b.slaves[s].pdos]
  /\ regs = [s \in Slaves |-> [m \in SMs |-> [len |-> 0, on |-> FALSE]]]
  /\ pc = "spawn" /\ slave = 1
  /\ mapt = [n \in Mappers |-> FALSE]
  /\ th = [n \in Mappers |-> Idle]
  /\ scratch = [n \in Mappers |-> Clear]
  /\ list = [s \in Slaves |-> [O |-> 0, I |-> 0, len |-> bus[s].len,
                               type |-> [m \in SMs |-> 0],
                               on |-> [m \in SMs |-> TRUE]]]
  /\ shown = [s \in Slaves |-> Sizes]
  /\ faults = 0 /\ failed = {} /\ late = {} /\ dead = FALSE
  /\ pushing = [n \in Mappers |-> NoSlot] /\ torn = FALSE
-----------------------------------------------------------------------------
(* A mapper thread, which runs ecx_map_coe_soe.                            *)

Step(n, t) == th' = [th EXCEPT ![n] = t]

(* ecx_pusherror in mapper n: the slot is written, then the error counted. *)
(* Head may be read once or twice, and the eviction another push calls for *)
(* may be missed.                                                          *)
Report(n) == /\ Store(th[n].s)
             /\ pushing' = [pushing EXCEPT ![n] = head]
             /\ torn' = (torn \/ \E m \in Mappers : pushing[m] # NoSlot)

Counted(n) ==
  /\ pushing[n] # NoSlot
  /\ \E h \in {pushing[n], head} :
       \/ Count(h)
       \/ torn /\ CountOnly(h) /\ UNCHANGED <<Error, Signal, tail, taken>>
  /\ pushing' = [pushing EXCEPT ![n] = NoSlot]
  /\ UNCHANGED <<mainvars, dict, mapt, th, scratch, list, shown, faults, failed,
                 late, dead, torn>>

(* A service first takes a mail that waits.  One that is refused enters an *)
(* error; an answer that is missed may come later.                         *)
Answered(s) == late' = late \ {s} /\ UNCHANGED <<faults, failed, dead, errors>>
Fails(n) ==
  LET s == th[n].s IN
  /\ faults < MaxFaults
  /\ faults' = faults + 1
  /\ failed' = failed \cup {s}
  /\ late' = late \ {s} \/ (bus[s].soe /\ late' = late \cup {s})
  /\ Report(n) \/ UNCHANGED errors
  /\ UNCHANGED dead

(* What a read of right into v gives. *)
Answers(n, right, v) == \/ v = right /\ Answered(th[n].s)
                        \/ v = NoAnswer /\ Fails(n)

(* Where the loops of ecx_readPDOmap and ecx_readPDOassign go on. *)
NextSm(t) == IF t.sm + 1 < t.sms
             THEN [t EXCEPT !.sm = @ + 1, !.at = IF t.ca THEN "types" ELSE "type"]
             ELSE [t EXCEPT !.at = "found"]
NextPdo(t) == [t EXCEPT !.at = IF t.k < t.ks THEN "index" ELSE "close"]
NextEntry(t) == IF t.e < t.es THEN [t EXCEPT !.at = "entry"] ELSE NextPdo(t)
FirstSm(t, count) == NextSm([t EXCEPT !.sm = 1, !.sms = count, !.add = 0,
                                      !.O = 0, !.I = 0])
FirstPdo(t, count) == NextPdo([t EXCEPT !.k = 0, !.ks = count, !.sum = 0])

AfterEni(t) == [t EXCEPT !.k = 0,
                  !.at = IF ~bus[t.s].coe THEN "found"
                         ELSE IF bus[t.s].ca THEN "complete" ELSE "count"]

(* The entry of the ENI table for a slave: the table is in order of slaves. *)
EniFrom(s) == {i \in 1 .. Len(eni) - 1 : s <= eni[i].Slave}
EniEntry(s) == IF EniFrom(s) = {} THEN Len(eni)
               ELSE CHOOSE i \in EniFrom(s) : \A j \in EniFrom(s) : i <= j
EniCommands(s) ==
  IF /\ eni # << >> /\ bus[s].coe
     /\ eni[EniEntry(s)].Slave = s /\ eni[EniEntry(s)].id = bus[s].id
  THEN eni[EniEntry(s)].cmds ELSE << >>

(* The assignments of slave s with all commands done. *)
AsOrdered(s) ==
  LET own == {i \in 1 .. Len(eni) : eni[i].Slave = s /\ eni[i].id = bus[s].id}
      Done(d, c) == [d EXCEPT ![c.sm] = c.pdos]
  IN IF own = {} \/ ~bus[s].coe THEN bus[s].pdos
     ELSE FoldLeft(Done, bus[s].pdos, eni[CHOOSE i \in own : TRUE].cmds)

(* ecx_mbxENIinitcmds, one SDO write at a time.  The commands assign PDOs, *)
(* and those behind one that fails are not sent.                           *)
EniCommand(n) ==
  LET t == th[n]  cmds == EniCommands(t.s)
      Done(c) == dict' = [dict EXCEPT ![t.s][c.sm] = c.pdos] IN
  /\ t.at = "eni"
  /\ IF t.k < Len(cmds)
     THEN \/ /\ Done(cmds[t.k + 1]) /\ Answered(t.s)
             /\ Step(n, [t EXCEPT !.k = @ + 1])
          \/ /\ Done(cmds[t.k + 1]) \/ UNCHANGED dict
             /\ Fails(n) /\ Step(n, AfterEni(t))
     ELSE Step(n, AfterEni(t)) /\ UNCHANGED <<dict, trouble>>
  /\ UNCHANGED <<mainvars, mapt, scratch, list, shown>>

(* Object 1C00 by complete access. *)
ReadComplete(n) ==
  LET t == th[n]  types == bus[t.s].types IN
  /\ t.at = "complete"
  /\ \/ /\ scratch' = [scratch EXCEPT ![n].types = types]
        /\ IF Len(types) > MaxSM THEN Report(n) ELSE UNCHANGED errors
        /\ Step(n, FirstSm([t EXCEPT !.ca = TRUE],
                           IF Len(types) > MaxSM THEN MaxSM ELSE Len(types)))
        /\ late' = late \ {t.s} /\ UNCHANGED <<faults, failed, dead>>
     \/ /\ Fails(n) /\ UNCHANGED scratch
        /\ Step(n, FirstSm([t EXCEPT !.ca = TRUE], 0))
  /\ UNCHANGED <<mainvars, dict, mapt, list, shown>>

(* Its subindex 0.  si_map_sdo counts from one sync manager less, but goes *)
(* on to the last one.                                                     *)
ReadCount(n) ==
  LET t == th[n]
      Limit(c, max) == IF c <= 2 THEN 0 ELSE IF c > max THEN max ELSE c IN
  /\ t.at = "count"
  /\ \E v \in {Len(bus[t.s].types), NoAnswer} :
       /\ Answers(n, Len(bus[t.s].types), v)
       /\ Step(n, FirstSm(t, Limit(v, IF t.show THEN MaxSM + 1 ELSE MaxSM)))
  /\ UNCHANGED <<mainvars, dict, mapt, scratch, list, shown>>

(* The type of a sync manager as corrected for slaves that number types    *)
(* from 0, and, in single reads only, for slaves that do not tell them.    *)
Corrected(t, v) ==
  IF v # 0 THEN v + t.add
  ELSE IF t.ca \/ t.show THEN 0
  ELSE IF t.sm = 2 THEN 3 ELSE IF t.sm = 3 THEN 4 ELSE 0

(* What follows from the type of the sync manager at t. *)
SetType(n, t, v) ==
  LET u == [t EXCEPT !.add = IF t.sm = 2 /\ v = 2 THEN 1 ELSE @]
      w == Corrected(u, v) IN
  /\ list' = IF t.show THEN list
             ELSE [list EXCEPT ![t.s].type[t.sm] = w,
                               ![t.s].on[t.sm] = @ /\ w # 0]
  /\ Step(n, IF w \in {3, 4}
             THEN [u EXCEPT !.ty = w, !.at = IF t.ca THEN "assigns" ELSE "assign"]
             ELSE NextSm(u))

ReadType(n) ==
  LET t == th[n]  types == bus[t.s].types IN
  /\ t.at = "type"
  /\ \E v \in {types[t.sm + 1], NoAnswer} :
       /\ Answers(n, types[t.sm + 1], v)
       /\ IF v = NoAnswer THEN Step(n, NextSm(t)) /\ UNCHANGED list
                          ELSE SetType(n, t, v)
  /\ UNCHANGED <<mainvars, dict, mapt, scratch, shown>>

TakeType(n) ==
  /\ th[n].at = "types"
  /\ SetType(n, th[n], scratch[n].types[th[n].sm + 1])
  /\ UNCHANGED <<mainvars, dict, mapt, scratch, shown, trouble>>
-----------------------------------------------------------------------------
(* ecx_readPDOassign and ecx_readPDOassignCA for the sync manager at t.    *)
Assigned(t) == dict[t.s][t.sm]
IndexOf(pdo) == IF pdo = << >> THEN 0 ELSE 1          \* a gap has none

ReadAssign(n) ==
  LET t == th[n] IN
  /\ t.at = "assign"
  /\ \E v \in {Len(Assigned(t)), NoAnswer} :
       /\ Answers(n, Len(Assigned(t)), v)
       /\ Step(n, FirstPdo(t, v))
  /\ UNCHANGED <<mainvars, dict, mapt, scratch, list, shown>>

(* A PDO: its index, or a gap in the assignment, and the number of its     *)
(* entries.  By complete access one read brings all of it.                 *)
ReadIndex(n) ==
  LET t == [th[n] EXCEPT !.k = @ + 1] IN
  /\ th[n].at = "index" /\ ~t.ca
  /\ \E v \in {IndexOf(Assigned(t)[t.k]), NoAnswer} :
       /\ Answers(n, IndexOf(Assigned(t)[t.k]), v)
       /\ Step(n, IF v > 0 THEN [t EXCEPT !.at = "entries"] ELSE NextPdo(t))
  /\ UNCHANGED <<mainvars, dict, mapt, scratch, list, shown>>

ReadEntries(n) ==
  LET t == th[n] IN
  /\ t.at = "entries"
  /\ \E v \in {Len(Assigned(t)[t.k]), NoAnswer} :
       /\ Answers(n, Len(Assigned(t)[t.k]), v)
       /\ Step(n, NextEntry([t EXCEPT !.e = 0, !.es = v]))
  /\ UNCHANGED <<mainvars, dict, mapt, scratch, list, shown>>

ReadEntry(n) ==
  LET t == [th[n] EXCEPT !.e = @ + 1] IN
  /\ th[n].at = "entry"
  /\ \E v \in {Assigned(t)[t.k][t.e], NoAnswer} :
       /\ Answers(n, Assigned(t)[t.k][t.e], v)
       /\ Step(n, NextEntry([t EXCEPT !.sum = @ + IF v = NoAnswer THEN 0 ELSE v]))
  /\ UNCHANGED <<mainvars, dict, mapt, scratch, list, shown>>

ReadAssigns(n) ==
  LET t == th[n] IN
  /\ t.at = "assigns"
  /\ \/ /\ scratch' = [scratch EXCEPT ![n].assign = Assigned(t)]
        /\ Step(n, FirstPdo(t, Len(Assigned(t)))) /\ Answered(t.s)
     \/ UNCHANGED scratch /\ Step(n, FirstPdo(t, 0)) /\ Fails(n)
  /\ UNCHANGED <<mainvars, dict, mapt, list, shown>>

ReadPdo(n) ==
  LET t == [th[n] EXCEPT !.k = @ + 1]  bits == Total(scratch[n].assign[t.k]) IN
  /\ th[n].at = "index" /\ t.ca
  /\ \E v \in IF scratch[n].assign[t.k] = << >> THEN {0} ELSE {bits, NoAnswer} :
       /\ Answers(n, bits, v)
       /\ Step(n, NextPdo([t EXCEPT !.sum = @ + IF v = NoAnswer THEN 0 ELSE v]))
  /\ UNCHANGED <<mainvars, dict, mapt, scratch, list, shown>>

(* All PDOs of the sync manager are read. *)
Closed(t) == NextSm(IF t.ty = 3 THEN [t EXCEPT !.O = @ + t.sum]
                                ELSE [t EXCEPT !.I = @ + t.sum])

Close(n) ==
  LET t == th[n] IN
  /\ t.at = "close" /\ ~t.show
  /\ Step(n, Closed(t))
  /\ list' = IF t.sum = 0 THEN list
             ELSE [list EXCEPT ![t.s].len[t.sm] = Bytes(t.sum)]
  /\ UNCHANGED <<mainvars, dict, mapt, scratch, shown, trouble>>

(* si_PDOassign, whose reads are those of ecx_readPDOassign. *)
CloseShown(n) ==
  /\ th[n].at = "close" /\ th[n].show
  /\ Step(n, Closed(th[n]))
  /\ UNCHANGED <<mainvars, dict, mapt, scratch, list, shown, trouble>>

Empty(t) == t.O = 0 /\ t.I = 0

(* Complete access that found nothing is followed by single reads. *)
FoundCA(n) ==
  LET t == th[n] IN
  /\ t.at = "found" /\ t.ca
  /\ Step(n, [t EXCEPT !.ca = FALSE, !.at = IF Empty(t) THEN "count" ELSE @])
  /\ failed' = IF Empty(t) /\ dict[t.s] = AsOrdered(t.s) THEN failed \ {t.s}
                                                       ELSE failed
  /\ UNCHANGED <<mainvars, dict, mapt, scratch, list, shown, faults, late, dead,
                 errors>>

(* So is CoE, by SoE. *)
Found(n) ==
  LET t == th[n] IN
  /\ t.at = "found" /\ ~t.ca /\ ~t.show
  /\ Step(n, [t EXCEPT !.at = IF Empty(t) /\ bus[t.s].soe THEN "idn" ELSE "end",
                       !.k = 0])
  /\ UNCHANGED <<mainvars, dict, mapt, scratch, list, shown, trouble>>

(* si_map_sdo is through. *)
FoundShown(n) ==
  LET t == th[n] IN
  /\ t.at = "found" /\ t.show
  /\ shown' = [shown EXCEPT ![t.s] = [O |-> t.O, I |-> t.I]]
  /\ Step(n, Idle)
  /\ UNCHANGED <<mainvars, dict, mapt, scratch, list, trouble>>
-----------------------------------------------------------------------------
(* ecx_readIDNmap.  List k is the one of the outputs of drive k \div 2, or *)
(* of its inputs; a drive that is not there refuses.  What ecx_SoEread     *)
(* hands out is what was in the mail it found waiting, whatever the slave  *)
(* answers.                                                                *)
IdnLists(s) == bus[s].idn
NextIdn(t) == [t EXCEPT !.k = @ + 1, !.e = 0,
                        !.at = IF t.k + 1 < 2 * MaxDrives THEN "idn" ELSE "idnend"]
Mapped(t, bits) == IF t.k % 2 = 0 THEN [t EXCEPT !.O = @ + bits]
                                  ELSE [t EXCEPT !.I = @ + bits]

NothingToCopy(n) == /\ th[n].s \notin late
                    /\ dead' = TRUE
                    /\ UNCHANGED <<th, faults, failed, late, errors>>

ReadIdn(n) ==
  LET t == th[n]  idn == IdnLists(t.s) IN
  /\ t.at = "idn"
  /\ IF t.k >= Len(idn)
     THEN /\ Report(n) /\ Step(n, NextIdn(t))
          /\ late' = late \ {t.s} /\ UNCHANGED <<faults, failed, dead>>
     ELSE \/ Fails(n) /\ Step(n, NextIdn(t))
          \/ NothingToCopy(n)
          \/ /\ t.s \in late /\ Answered(t.s)
             /\ \E v \in {0} \cup {Len(idn[i]) : i \in 1 .. Len(idn)} :
                  Step(n, IF v > 0 THEN [Mapped(t, 16) EXCEPT !.at = "attribute", !.es = v]
                                   ELSE NextIdn(t))
  /\ UNCHANGED <<mainvars, dict, mapt, scratch, list, shown>>

ReadAttribute(n) ==
  LET t == [th[n] EXCEPT !.e = @ + 1]
      Add(bits) == LET u == Mapped(t, bits)
                   IN  Step(n, IF t.e < t.es THEN u ELSE NextIdn(u)) IN
  /\ th[n].at = "attribute"
  /\ \/ Fails(n) /\ Add(0)
     \/ NothingToCopy(n)
     \/ /\ t.s \in late /\ Answered(t.s)
        /\ \E bits \in {0} \cup ToSet(FlattenSeq(IdnLists(t.s))) : Add(bits)
  /\ UNCHANGED <<mainvars, dict, mapt, scratch, list, shown>>

IdnEnd(n) ==
  LET t == th[n] IN
  /\ t.at = "idnend"
  /\ list' = [list EXCEPT ![t.s].len[2] = Bytes(t.O), ![t.s].len[3] = Bytes(t.I)]
  /\ Step(n, [t EXCEPT !.at = "end"])
  /\ UNCHANGED <<mainvars, dict, mapt, scratch, shown, trouble>>

(* ecx_map_coe_soe and the thread end. *)
StillRunning(n) == mapt
Running(n) == [mapt EXCEPT ![n] = FALSE]
End(n) ==
  LET t == th[n] IN
  /\ t.at = "end"
  /\ list' = [list EXCEPT ![t.s].O = t.O, ![t.s].I = t.I]
  /\ mapt' = Running(n)
  /\ Step(n, Idle)
  /\ UNCHANGED <<mainvars, dict, scratch, shown, trouble>>

Reads(n) ==
  \/ EniCommand(n) \/ ReadComplete(n) \/ ReadCount(n) \/ ReadType(n) \/ TakeType(n)
  \/ ReadAssign(n) \/ ReadIndex(n) \/ ReadEntries(n) \/ ReadEntry(n)
  \/ ReadAssigns(n) \/ ReadPdo(n) \/ Close(n) \/ CloseShown(n) \/ FoundCA(n)
  \/ Found(n) \/ FoundShown(n)
  \/ ReadIdn(n) \/ ReadAttribute(n) \/ IdnEnd(n) \/ End(n)

(* The program of a mapper goes on when its error is counted.              *)
Mapper(n) == /\ ~dead
             /\ Counted(n) \/ (pushing[n] = NoSlot /\ Reads(n))
-----------------------------------------------------------------------------
(* The main thread: ecx_config_find_mappings, then slaveinfo.              *)

NextSlave(this, then) ==
  IF slave < Len(bus) THEN pc' = this /\ slave' = slave + 1
                      ELSE pc' = then /\ slave' = 1

SomeMapper(n) == TRUE
FreeMapper(n) == ~mapt[n] /\ \A m \in Mappers : m < n => mapt[m]

(* The result of osal_thread_create is not looked at: a thread that does   *)
(* not start counts as running.                                            *)
Spawn ==
  /\ pc = "spawn"
  /\ IF InGroup(slave)
     THEN \E n \in Mappers :
            /\ FreeMapper(n)
            /\ mapt' = [mapt EXCEPT ![n] = TRUE]
            /\ \/ Step(n, [Idle EXCEPT !.at = "eni", !.s = slave]) /\ UNCHANGED faults
               \/ /\ Step(n, [Idle EXCEPT !.at = "unstarted", !.s = slave])
                  /\ faults < MaxFaults /\ faults' = faults + 1
     ELSE UNCHANGED <<mapt, th, faults>>
  /\ NextSlave("spawn", "join")
  /\ UNCHANGED <<bus, eni, regs, dict, scratch, list, shown, failed, late, dead, errors>>

AllEnded == \A n \in Mappers : ~mapt[n]

Join ==
  /\ pc = "join"
  /\ AllEnded
  /\ pc' = "sii"
  /\ UNCHANGED <<bus, eni, regs, slave, dict, mapt, th, scratch, list, shown, trouble>>

(* ecx_siiPDO: the bits each sync manager has in the PDOs of section t,    *)
(* which name the sync manager they are for, or none.                      *)
SiiBits(s, t) ==
  [m \in SMs |-> Total([k \in 1 .. Len(bus[s].sii[t]) |->
                          IF bus[s].sii[t][k].sm = m THEN bus[s].sii[t][k].bits ELSE 0])]
SiiSize(s, t) == Total([m \in 1 .. MaxSM |-> SiiBits(s, t)[m - 1]])

SameKind(s) == {i \in 1 .. s - 1 : bus[i].id = bus[s].id}
Earlier(s) == CHOOSE i \in SameKind(s) : \A j \in SameKind(s) : i <= j

(* ecx_lookup_mapping: the mapping of the first slave of the same kind. *)
CopyMapping(s, i) == [list[s] EXCEPT !.O = list[i].O, !.I = list[i].I,
                                     !.len = list[i].len, !.type = list[i].type]
LookUp(s) == IF SameKind(s) = {} THEN list[s] ELSE CopyMapping(s, Earlier(s))

FromSii(s, l) ==
  LET out == SiiBits(s, "RxPDO")  in == SiiBits(s, "TxPDO")
      Pick(m, o, i, old) == IF out[m] > 0 THEN o ELSE IF in[m] > 0 THEN i ELSE old
  IN [l EXCEPT !.O = SiiSize(s, "RxPDO"), !.I = SiiSize(s, "TxPDO"),
               !.len = [m \in SMs |-> Pick(m, Bytes(out[m]), Bytes(in[m]), @[m])],
               !.type = [m \in SMs |-> Pick(m, 3, 4, @[m])]]

Unmapped(l) == l.O = 0 /\ l.I = 0

(* ecx_map_sii. *)
MapSii ==
  LET s == slave  l == LookUp(s) IN
  /\ pc = "sii" /\ InGroup(s) /\ pc' = "sm"
  /\ list' = [list EXCEPT ![s] = IF ~Unmapped(@) THEN @
                                 ELSE IF ~Unmapped(l) THEN l ELSE FromSii(s, l)]
  /\ failed' = IF Unmapped(list[s]) /\ SameKind(s) \cap failed # {}
               THEN failed \cup {s} ELSE failed
  /\ UNCHANGED <<bus, eni, regs, slave, dict, mapt, th, scratch, shown, faults,
                 late, dead, errors>>

(* ecx_map_sm: a sync manager is enabled if it has a length.  Those of the *)
(* mailbox are programmed elsewhere, and those a slave without mailbox has *)
(* in their place keep their flags.  A lost datagram goes unnoticed.       *)
Programmed(s) == {m \in SMs : m \in bus[s].sms /\ (m > 1 \/ ~bus[s].mbx)}
On(s, m) == IF m > 1 THEN list[s].len[m] > 0 ELSE list[s].on[m]

MapSm ==
  LET s == slave IN
  /\ pc = "sm"
  /\ list' = [list EXCEPT ![s].on = [m \in SMs |->
                IF m \in Programmed(s) THEN On(s, m) ELSE @[m]]]
  /\ \E missed \in SUBSET Programmed(s) :
       /\ faults' = faults + Cardinality(missed) /\ faults' <= MaxFaults
       /\ failed' = IF missed = {} THEN failed ELSE failed \cup {s}
       /\ regs' = [regs EXCEPT ![s] = [m \in SMs |->
                     IF m \in Programmed(s) \ missed
                     THEN [len |-> list[s].len[m], on |-> On(s, m)] ELSE @[m]]]
  /\ NextSlave("sii", "tell")
  /\ UNCHANGED <<bus, eni, dict, mapt, th, scratch, shown, late, dead, errors>>

PassOver ==
  /\ pc = "sii" /\ ~InGroup(slave)
  /\ NextSlave("sii", "tell")
  /\ UNCHANGED <<bus, eni, regs, dict, mapt, th, scratch, list, shown, trouble>>

(* "while (ctx.ecaterror) printf(...ecx_elist2string(&ctx))". *)
Tell ==
  /\ pc = "tell"
  /\ IF ecaterror THEN Pop /\ UNCHANGED pc ELSE pc' = "show" /\ UNCHANGED listvars
  /\ UNCHANGED <<bus, eni, regs, slave, dict, mapt, th, scratch, list, shown, faults,
                 failed, late, dead, pushing, torn>>

(* si_siiPDO goes through the section again, si_map_sii through both. *)
PrintedBits(s, t) == Total([k \in 1 .. Len(bus[s].sii[t]) |->
                              IF bus[s].sii[t][k].sm < MaxSM THEN bus[s].sii[t][k].bits
                                                             ELSE 0])
ShowSii(s) == [O |-> PrintedBits(s, "RxPDO"), I |-> PrintedBits(s, "TxPDO")]

(* slaveinfo, whose si_map_sdo runs through the program of mapper 0. *)
Show ==
  /\ pc = "show" /\ th[0] = Idle
  /\ IF bus[slave].coe
     THEN Step(0, [Idle EXCEPT !.at = "count", !.s = slave, !.show = TRUE])
          /\ UNCHANGED shown
     ELSE shown' = [shown EXCEPT ![slave] = ShowSii(slave)] /\ UNCHANGED th
  /\ NextSlave("show", "end")
  /\ UNCHANGED <<bus, eni, regs, dict, mapt, scratch, list, trouble>>

Main == ~dead /\ (Spawn \/ Join \/ MapSii \/ MapSm \/ PassOver \/ Tell \/ Show)

Next == Main \/ \E n \in Mappers : Mapper(n)

Spec == Init /\ [][Next]_vars

(* Every thread runs, and ecx_SDOread and ecx_SoEread return. *)
FairSpec == /\ Spec /\ WF_vars(Main)
            /\ \A n \in Mappers : WF_vars(Mapper(n))
-----------------------------------------------------------------------------
(* What the slaves have to map, by their own account: the PDOs assigned,   *)
(* once the commands of the ENI file are in, or else what the EEPROM says. *)
(* The lists of drives are none of it: no read of one comes out right.     *)
Ended == pc = "end" /\ \A n \in Mappers : th[n] = Idle

Sum(f) == Total([k \in 1 .. MaxSM |-> f[k - 1]])
TrueType(s, m) ==
  LET types == bus[s].types
      Told(k) == IF k <= Len(types) THEN types[k] ELSE 0
  IN  IF m < 2 \/ m >= Len(types) THEN 0
      ELSE IF Told(m + 1) > 0 THEN Told(m + 1) + (IF Told(3) = 2 THEN 1 ELSE 0)
      ELSE IF m = 2 THEN 3 ELSE IF m = 3 THEN 4 ELSE 0
CoeBits(s) == [m \in SMs |->
  IF bus[s].coe /\ TrueType(s, m) \in {3, 4}
  THEN Total(FlattenSeq(AsOrdered(s)[m])) ELSE 0]
Share(s) == IF Sum(CoeBits(s)) > 0 THEN CoeBits(s)
            ELSE [m \in SMs |-> SiiBits(s, "RxPDO")[m] + SiiBits(s, "TxPDO")[m]]
Outputs(s) == IF Sum(CoeBits(s)) > 0 THEN {m \in SMs : TrueType(s, m) = 3}
              ELSE {m \in SMs : SiiBits(s, "RxPDO")[m] > 0}
SizeOf(s, ms) == Sum([m \in SMs |-> IF m \in ms THEN Share(s)[m] ELSE 0])

(* A slave that offers complete access says what its sync managers are     *)
(* for, and "SII mapping is constant for same slave ID".                   *)
Telling(s) == bus[s].ca => \A m \in SMs : CoeBits(s)[m] > 0 => bus[s].types[m + 1] # 0
Constant(s) == Sum(CoeBits(s)) = 0 => \A i \in SameKind(s) : Share(i) = Share(s)

(* A slave is mapped as it wants to be, whoever reads its mapping at the   *)
(* same time, by complete access or object by object or from the EEPROM,   *)
(* and although complete access failed: the sizes for the IO map and the   *)
(* sync managers, in the list and in the slave.  Nothing is said of a      *)
(* slave with a read or write that failed.  A slave whose drives have      *)
(* lists is always one of these, as the first answer ends the program.     *)
MappedRight ==
  Ended => \A s \in Slaves \ failed :
    InGroup(s) /\ Telling(s) /\ Constant(s) =>
      /\ list[s].O = SizeOf(s, Outputs(s))
      /\ list[s].I = SizeOf(s, SMs \ Outputs(s))
      /\ \A m \in SMs : Share(s)[m] > 0 =>
           /\ list[s].len[m] = Bytes(Share(s)[m])
           /\ m \in Programmed(s) => regs[s][m] = [len |-> list[s].len[m], on |-> TRUE]

(* slaveinfo prints the mapping that is used, if the slave tells the types *)
(* of all its sync managers.                                               *)
ShownRight ==
  Ended => \A s \in Slaves \ failed :
    /\ InGroup(s) /\ Constant(s) /\ Len(bus[s].types) <= MaxSM
    /\ \A k \in 3 .. Len(bus[s].types) : bus[s].types[k] # 0
    /\ bus[s].coe <=> Sum(CoeBits(s)) > 0
    /\ bus[s].soe => bus[s].coe
    => shown[s] = [O |-> list[s].O, I |-> list[s].I]

MappingRight == MappedRight /\ ShownRight

(* The comment of ecx_lookup_mapping, "This is safe because SII mapping is *)
(* constant for same slave ID": what is copied is not always the SII's.    *)
CopySafe ==
  Ended => \A s \in Slaves \ failed :
    InGroup(s) /\ Sum(CoeBits(s)) = 0 => list[s].O = SizeOf(s, Outputs(s))

(* The log of errors, as ecx_pusherror and ecx_poperror keep it while no   *)
(* two mappers are in ecx_pusherror at the same time.                      *)
LogSpec == Log!Init /\ [][Log!Next \/ torn']_(Log!vars)

(* All slaves get mapped, however many there are for the mappers, unless   *)
(* the program ends of a null pointer or a thread did not start: its place *)
(* in ecx_mapt stays taken, and the main thread waits for it for ever.     *)
MappingEnds == <>(Ended \/ dead \/ \E n \in Mappers : th[n].at = "unstarted")
=============================================================================
