-------------------------- MODULE Programs_proofs --------------------------
(***************************************************************************)
(* Proofs about programs on the library.  First the EEPROMs of Startup and *)
(* EepromTool, for any number of slaves with any content, any faults,      *)
(* restarts and calls: the master works only on an EEPROM it controls and  *)
(* gives control back, a cell of its cache holds what is in the EEPROM of  *)
(* the slave, and so does all that is kept, read, found, written or shown. *)
(* Then ForceControl and ForceSensor, for every depth of the queue, every  *)
(* number of polls, retries, faults and lost frames, and every place of    *)
(* the arm.                                                                *)
(***************************************************************************)
EXTENDS EepromTool, ForceControl, WellFoundedInduction, TLAPS

JobFields == DOMAIN NoJob
SameAccess(n, j) == /\ DOMAIN n = JobFields
                    /\ n.kind = j.kind /\ n.slave = j.slave
                    /\ n.addr = j.addr /\ n.val = j.val
                    /\ n.nacks \in {j.nacks, j.nacks + 1}

(* What follows "wait for eeprom ready". *)
CommandOf(j) == CASE j.kind = "collect" -> "data"
                  [] j.kind = "write" -> "latch"
                  [] OTHER -> "command"

(* The frames that may follow one whatever the answer to it. *)
NextFrames(j) ==
  CASE j.pc = "force" -> {"claim"}
    [] j.pc = "claim" -> {"wait"}
    [] j.pc = "release" -> {"end"}
    [] j.pc = "wait" -> {"wait", CommandOf(j)}
                        \cup (IF j.kind = "collect" THEN {} ELSE {"clear"})
    [] j.pc = "clear" -> {CommandOf(j)}
    [] j.pc = "latch" -> {"command"}
    [] j.pc = "command" -> {IF j.kind = "request" THEN "end" ELSE "await"}
    [] j.pc = "await" -> {"await", "data", "end", CommandOf(j)}
    [] j.pc = "data" -> {"end"}

LEMMA CommandGoes ==
  ASSUME NEW j, DOMAIN j = JobFields
  PROVE  /\ SameAccess(Command(j), j)
         /\ Command(j).pc = CommandOf(j) /\ Command(j).cnt = 0
         /\ Command(j).nacks = j.nacks
BY DEF Command, CommandOf, Goto, SameAccess, JobFields, NoJob

LEMMA OverGoes ==
  ASSUME NEW j, DOMAIN j = JobFields, NEW data
  PROVE  /\ SameAccess(Over(j, data, TRUE), j) /\ SameAccess(Over(j, data, FALSE), j)
         /\ Over(j, data, TRUE).pc = "end" /\ Over(j, data, FALSE).pc = "end"
         /\ Over(j, data, TRUE).cnt = 0 /\ Over(j, data, FALSE).cnt = 0
         /\ Over(j, data, TRUE).data = data
BY DEF Over, Goto, SameAccess, JobFields, NoJob

LEMMA GotoGoes ==
  ASSUME NEW j, DOMAIN j = JobFields, NEW to
  PROVE  LET n == Goto(j, to) IN SameAccess(n, j) /\ n.pc = to /\ n.cnt = 0
BY DEF Goto, SameAccess, JobFields, NoJob

LEMMA NackedGoes ==
  ASSUME NEW j, DOMAIN j = JobFields
  PROVE  LET n == Nacked(j)
         IN  SameAccess(n, j) /\ n.pc \in {CommandOf(j), "end"} /\ n.cnt = 0
<1>1. CASE j.nacks + 1 < MaxNacks
  BY <1>1, CommandGoes DEF Nacked, SameAccess, JobFields, NoJob
<1>2. CASE ~(j.nacks + 1 < MaxNacks)
  BY <1>2, OverGoes DEF Nacked
<1> QED
  BY <1>1, <1>2

LEMMA AnsweredGoes ==
  ASSUME NEW j, DOMAIN j = JobFields, j.pc \in Frames, NEW e
  PROVE  LET n == Answered(j, e)
         IN  /\ SameAccess(n, j) /\ n.pc \in NextFrames(j)
             /\ n.cnt = 0 \/ n = j
             /\ n.pc = "wait" /\ j.pc = "wait" => n = j
             /\ n.pc = "await" /\ j.pc = "await" => n = j
<1> DEFINE n == Answered(j, e)
<1> USE DEF NextFrames
<1>1. CASE j.pc \in {"force", "claim", "latch"}
  BY <1>1, GotoGoes DEF Answered
<1>2. CASE j.pc \in {"release", "data"}
  BY <1>2, OverGoes DEF Answered
<1>3. CASE j.pc = "clear"
  BY <1>3, CommandGoes DEF Answered
<1>4. CASE j.pc = "wait"
  <2>1. n = IF e.busy THEN j
            ELSE IF e.nack /\ j.kind # "collect" THEN Goto(j, "clear") ELSE Command(j)
    BY <1>4 DEF Answered
  <2>2. CommandOf(j) # "wait"
    BY DEF CommandOf
  <2> QED
    BY <1>4, <2>1, <2>2, GotoGoes, CommandGoes DEF SameAccess
<1>5. CASE j.pc = "command"
  <2>1. CASE n = Over(j, j.data, TRUE) /\ j.kind = "request"
    <3>1. /\ SameAccess(Over(j, j.data, TRUE), j)
          /\ Over(j, j.data, TRUE).pc = "end" /\ Over(j, j.data, TRUE).cnt = 0
      BY OverGoes
    <3>2. SameAccess(n, j) /\ n.pc = "end" /\ n.cnt = 0 /\ j.kind = "request"
      BY <1>5, <2>1, <3>1
    <3> QED
      BY <1>5, <3>2
  <2>2. CASE n = Goto(j, "await") /\ j.kind # "request"
    BY <1>5, <2>2, GotoGoes
  <2> QED
    BY <1>5, <2>1, <2>2 DEF Answered
<1>6. CASE j.pc = "await"
  <2>1. n = IF e.busy THEN j ELSE IF e.nack THEN Nacked(j) ELSE Acknowledged(j)
    BY <1>6 DEF Answered
  <2>2. CommandOf(j) # "await"
    BY DEF CommandOf
  <2>3. CASE n = j
    BY <2>3, <1>6 DEF SameAccess
  <2>4. CASE n = Nacked(j)
    BY <2>4, <1>6, <2>2, NackedGoes
  <2>5. CASE n = Acknowledged(j)
    <3>1. CASE n = Over(j, <<Zero, Zero>>, TRUE)
      <4>1. /\ SameAccess(Over(j, <<Zero, Zero>>, TRUE), j)
            /\ Over(j, <<Zero, Zero>>, TRUE).pc = "end" /\ Over(j, <<Zero, Zero>>, TRUE).cnt = 0
        BY OverGoes
      <4>2. SameAccess(n, j) /\ n.pc = "end" /\ n.cnt = 0
        BY <1>6, <3>1, <4>1
      <4> QED
        BY <1>6, <4>2
    <3>2. CASE n = Goto(j, "data")
      BY <1>6, <3>2, GotoGoes
    <3> QED
      BY <2>5, <3>1, <3>2 DEF Acknowledged
  <2> QED
    BY <2>1, <2>3, <2>4, <2>5
<1> QED
  BY <1>1, <1>2, <1>3, <1>4, <1>5, <1>6 DEF Frames

LEMMA UnansweredGoes ==
  ASSUME NEW j, DOMAIN j = JobFields, j.pc \in Frames, j.cnt \in Nat
  PROVE  LET n == Unanswered(j)
         IN  /\ SameAccess(n, j) /\ n.pc \in NextFrames(j) \cup {j.pc} /\ n.cnt \in Nat
             /\ Patient(j) => n.pc = j.pc /\ (n.cnt # 0 \/ j.pc \in {"wait", "await"})
             /\ j.pc = "clear" => n.pc = CommandOf(j)
<1> DEFINE n == Unanswered(j)
<1>1. CASE Patient(j)
  <2>1. n = [j EXCEPT !.cnt = IF j.pc \in {"wait", "await"} THEN 0 ELSE j.cnt + 1]
    BY <1>1 DEF Unanswered
  <2>2. SameAccess(n, j) /\ n.pc = j.pc
        /\ n.cnt = IF j.pc \in {"wait", "await"} THEN 0 ELSE j.cnt + 1
    BY <2>1 DEF SameAccess, JobFields, NoJob
  <2> QED
    BY <1>1, <2>2 DEF Patient
<1>2. CASE ~Patient(j) /\ j.pc = "data"
  <2>1. n = Over(j, <<Zero, Zero>>, TRUE)
    BY <1>2 DEF Unanswered
  <2>2. /\ SameAccess(Over(j, <<Zero, Zero>>, TRUE), j)
        /\ Over(j, <<Zero, Zero>>, TRUE).pc = "end" /\ Over(j, <<Zero, Zero>>, TRUE).cnt = 0
    BY OverGoes
  <2>3. SameAccess(n, j) /\ n.pc = "end" /\ n.cnt = 0
    BY <2>1, <2>2
  <2> QED
    BY <1>2, <2>3 DEF NextFrames
<1>3. CASE ~Patient(j) /\ j.pc # "data"
  <2>1. n = Answered(j, [Controller EXCEPT !.busy = FALSE])
    BY <1>3 DEF Unanswered
  <2>2. /\ SameAccess(n, j) /\ n.pc \in NextFrames(j)
        /\ n.cnt = 0 \/ n = j
    BY <2>1, AnsweredGoes
  <2>3. j.pc = "clear" => n.pc = CommandOf(j)
    BY <2>2 DEF NextFrames
  <2> QED
    BY <1>3, <2>2, <2>3
<1> QED
  BY <1>1, <1>2, <1>3

LEMMA ExpiredGoes ==
  ASSUME NEW j, DOMAIN j = JobFields, j.pc \in {"wait", "await"}, j.cnt \in Nat,
         NEW gone \in BOOLEAN
  PROVE  LET n == Expired(j, gone)
         IN  SameAccess(n, j) /\ n.pc \in NextFrames(j) \cup {"end"} /\ n.cnt \in Nat
<1> DEFINE n == Expired(j, gone)
<1>1. CASE gone
  <2>1. n = Answered(j, Controller)
    BY <1>1 DEF Expired
  <2>2. SameAccess(n, j) /\ n.pc \in NextFrames(j) /\ (n.cnt = 0 \/ n = j)
    BY <2>1, AnsweredGoes DEF Frames
  <2> QED
    BY <2>2
<1>2. CASE ~gone /\ j.pc = "await" /\ j.nacks > 0
  <2>1. n = Command(j)
    BY <1>2 DEF Expired
  <2>2. SameAccess(n, j) /\ n.pc = CommandOf(j) /\ n.cnt = 0
    BY <2>1, CommandGoes
  <2> QED
    BY <1>2, <2>2 DEF NextFrames
<1>3. CASE ~gone /\ ~(j.pc = "await" /\ j.nacks > 0)
  <2>1. n = Over(j, <<Zero, Zero>>, FALSE)
    BY <1>3 DEF Expired
  <2>2. /\ SameAccess(Over(j, <<Zero, Zero>>, FALSE), j)
        /\ Over(j, <<Zero, Zero>>, FALSE).pc = "end" /\ Over(j, <<Zero, Zero>>, FALSE).cnt = 0
    BY OverGoes
  <2>3. SameAccess(n, j) /\ n.pc = "end" /\ n.cnt = 0
    BY <2>1, <2>2
  <2> QED
    BY <2>3
<1> QED
  BY <1>1, <1>2, <1>3

LEMMA ExchangeGoes ==
  ASSUME DOMAIN job = JobFields, job.cnt \in Nat, Exchange
  PROVE  /\ SameAccess(job', job) /\ job'.cnt \in Nat
         /\ job'.pc \in NextFrames(job) \cup {job.pc}
              \cup (IF job.pc \in {"wait", "await"} THEN {"end"} ELSE {})
<1>1. job.pc \in Frames
  BY DEF Exchange
<1>2. ASSUME NEW e, job' = Answered(job, e) PROVE SameAccess(job', job) /\ job'.cnt \in Nat
                                                 /\ job'.pc \in NextFrames(job)
  BY <1>1, <1>2, AnsweredGoes
<1>3. CASE job' = Unanswered(job)
  BY <1>1, <1>3, UnansweredGoes
<1>4. ASSUME job.pc \in {"wait", "await"}, NEW gone \in BOOLEAN, job' = Expired(job, gone)
      PROVE  SameAccess(job', job) /\ job'.cnt \in Nat
             /\ job'.pc \in NextFrames(job) \cup {"end"}
  BY <1>4, ExpiredGoes
<1>5. \/ \E e : job' = Answered(job, e)
      \/ job' = Unanswered(job)
      \/ job.pc \in {"wait", "await"} /\ \E gone \in BOOLEAN : job' = Expired(job, gone)
  BY DEF Exchange
<1> QED
  BY <1>2, <1>3, <1>4, <1>5

LEMMA BeginGoes ==
  ASSUME NEW kind, NEW s, NEW addr, NEW val
  PROVE  LET n == Begin(kind, s, addr, val)
         IN  /\ DOMAIN n = JobFields /\ n.kind = kind /\ n.slave = s
             /\ n.addr = addr /\ n.val = val
             /\ n.cnt = 0 /\ n.nacks = 0
             /\ kind = "release" /\ eep_pdi[s] => n.pc = "end"
             /\ kind = "release" /\ ~eep_pdi[s] => n.pc = "release"
             /\ kind = "collect" => n.pc = "wait"
             /\ kind \notin {"release", "collect"} /\ eep_pdi[s] => n.pc = "force"
             /\ kind \notin {"release", "collect"} /\ ~eep_pdi[s] => n.pc = "wait"
BY DEF Begin, JobFields, NoJob
-----------------------------------------------------------------------------
(* The inductive invariant.  First the slaves, the access, the search, and *)
(* who has one of them under way.                                          *)
Kinds == {"read", "write", "request", "collect", "release"}
Ready == {"wait", "clear", "latch", "command", "await", "data"}

SlaveInv ==
  /\ \E n \in Nat \ {0} : Slaves = 1 .. n
  /\ rom = [s \in Slaves |-> rom[s]] /\ esc = [s \in Slaves |-> esc[s]]
  /\ \A s \in Slaves : DOMAIN rom[s] = Cells /\ DOMAIN esc[s] = DOMAIN Controller
  /\ \A s \in Slaves : esc[s].busy \in BOOLEAN
  /\ eep_pdi \in [Slaves -> BOOLEAN]
  /\ slave \in Slaves
  /\ esimap \subseteq Cells /\ DOMAIN esibuf = Cells

JobInv ==
  /\ DOMAIN job = JobFields /\ job.cnt \in Nat /\ job.nacks \in Nat
  /\ job.pc \in Frames \cup {"idle", "end"}
  /\ job.pc # "idle" => job.slave \in Slaves /\ job.kind \in Kinds
  /\ job.pc = "release" => job.kind = "release" /\ ~eep_pdi[job.slave]
  /\ job.kind = "release" => job.pc \in {"release", "end"}
  /\ job.pc \in {"force", "claim"} => eep_pdi[job.slave]
  /\ job.pc \in Frames \ {"wait", "data"} => job.kind # "collect"
  /\ job.pc \in Ready /\ job.kind # "collect" => ~eep_pdi[job.slave]
  /\ job.pc = "end" /\ job.kind = "release" => eep_pdi[job.slave]

FindInv ==
  /\ DOMAIN find = DOMAIN NoFind
  /\ find.pc \in {"idle", "header", "content", "restore", "end"}
  /\ find.pc # "idle" => find.slave \in Slaves /\ find.eectl \in BOOLEAN
  /\ find.pc \in {"header", "content"} /\ job.pc # "idle" =>
       /\ job.kind = "read" /\ job.slave = find.slave /\ job.addr = find.a
       /\ find.a \in Cells /\ esislave = find.slave
  /\ find.pc = "restore" /\ job.pc # "idle" =>
       find.eectl /\ job.kind = "release" /\ job.slave = find.slave
  /\ find.pc = "end" => job.pc = "idle" /\ (find.eectl => eep_pdi[find.slave])
  /\ find.pc # "idle" /\ ~find.eectl => ~eep_pdi[find.slave]

Passes == {"info", "rest", "write", "alias", "crc"}

PhaseInv ==
  /\ find.pc # "idle" => \/ pc = "section"
                         \/ /\ pc = "run" /\ call.op = "find"
                            /\ call.slave = find.slave /\ call.pdi = find.eectl
  /\ job.pc # "idle" => \/ pc \in AccessPcs /\ Wanted # << >>
                        \/ find.pc # "idle"
                        \/ pc = "run" /\ call.op \in {"read", "write"}
                        \/ tool.pc = "access"
  /\ call # NoCall => /\ pc = "run" /\ call.op \in {"read", "write", "find"}
                      /\ call.op = "find" => find.pc # "idle"
  /\ pc \in {"detect", "force", "claim"} => eep_pdi = [s \in Slaves |-> FALSE]
  /\ tool # NoTool => /\ pc = "detect" /\ tool.slave \in Slaves
                      /\ DOMAIN tool = DOMAIN NoTool /\ tool.pass \in Passes
                      /\ tool.pc \in {"force", "claim", "status", "access", "done"}
                      /\ job.pc # "idle" => /\ tool.pc = "access" /\ job.slave = tool.slave
                                            /\ job.kind \in {"read", "write"}

Shape == SlaveInv /\ JobInv /\ FindInv /\ PhaseInv

(* Of the slaves no access to which was given up: the master knows who has *)
(* control, once it has taken it, but while control changes hands.         *)
Busy(s) == job.pc \in Frames /\ job.slave = s
Settled(s) == \/ pc \notin {"detect", "force", "stopped"}
              \/ tool.slave = s /\ tool.pc \in {"claim", "status", "access"}

OwnInv ==
  \A s \in Slaves \ doubt : Settled(s) =>
    /\ (Busy(s) => job.pc \notin {"force", "claim", "release"})
         => (eep_pdi[s] <=> esc[s].owner # "master")
    /\ job.pc = "claim" /\ job.slave = s => esc[s].owner = "master"

(* The EEPROM has finished what it did when it is given something to do,   *)
ReadyInv ==
  job.slave \notin doubt /\ (job.pc \in {"clear", "latch"} \/ (job.pc = "command" /\ job.cnt = 0))
    => ~esc[job.slave].busy

(* a write it is busy with is the one under way,                           *)
WriteInv ==
  \A s \in Slaves \ doubt : esc[s].busy /\ esc[s].cmd = "write" =>
    /\ job.slave = s /\ job.kind = "write" /\ job.pc \in {"command", "await"}
    /\ <<s, esc[s].addr>> \in rewritten

(* and what it has read is the content at the address of the access.       *)
DataOf(s, a, d) == d[1] = rom[s][a] /\ (wide[s] => d[2] = Beyond(rom[s], a + 1))

ReadInv ==
  job.kind = "read" /\ job.slave \notin doubt =>
    LET e == esc[job.slave]
        meant == e.addr = job.addr /\ e.cmd = "read"
        right == DataOf(job.slave, job.addr, e.data)
    IN  /\ job.pc = "command" /\ e.busy => meant
        /\ job.pc = "await" => meant /\ (~e.busy /\ ~e.nack => right)
        /\ job.pc = "data" => ~e.busy /\ right
        /\ job.pc = "end" => DataOf(job.slave, job.addr, job.data)

ContentInv == OwnInv /\ ReadyInv /\ WriteInv /\ ReadInv
IInv == Shape /\ ContentInv /\ CacheIsOfSlave
-----------------------------------------------------------------------------
(* The shape.                                                              *)

(* What the commands of a slave do to its EEPROM interface. *)
LEMMA EffectGoes ==
  ASSUME NEW j, NEW e, DOMAIN e = DOMAIN Controller, e.busy \in BOOLEAN
  PROVE  /\ DOMAIN Effect(j, e) = DOMAIN Controller
         /\ Effect(j, e).busy \in BOOLEAN
BY DEF Effect, Controller

LEMMA ShapeExchange ==
  ASSUME Shape, Exchange, UNCHANGED <<startvars, toolvars>>
  PROVE  Shape'
<1> USE DEF Shape
<1>1. /\ SameAccess(job', job) /\ job'.cnt \in Nat /\ job.pc \in Frames
      /\ job'.pc \in NextFrames(job) \cup {job.pc}
              \cup (IF job.pc \in {"wait", "await"} THEN {"end"} ELSE {})
  <2>1. DOMAIN job = JobFields /\ job.cnt \in Nat
    BY DEF JobInv
  <2> QED
    BY <2>1, ExchangeGoes DEF Exchange
<1>2. job.slave \in Slaves /\ job.kind \in Kinds
  BY <1>1 DEF JobInv, Frames
<1>3. /\ UNCHANGED <<Slaves, wide, rom, esislave, esimap, esibuf, find>>
      /\ UNCHANGED <<pc, slave, round, list, call, tool>>
  BY DEF Exchange, cachevars, startvars, toolvars
<1>4. eep_pdi' = IF job.pc = "claim" /\ job'.pc # "claim"
                 THEN [eep_pdi EXCEPT ![job.slave] = FALSE]
                 ELSE IF job.pc = "release" /\ job'.pc # "release"
                 THEN [eep_pdi EXCEPT ![job.slave] = TRUE]
                 ELSE eep_pdi
  BY DEF Exchange, Control
<1>5. SlaveInv'
  <2>1. \A s \in Slaves : /\ DOMAIN Effect(job, esc[s]) = DOMAIN Controller
                          /\ Effect(job, esc[s]).busy \in BOOLEAN
    BY EffectGoes DEF SlaveInv
  <2>2. esc' = esc \/ esc' = [esc EXCEPT ![job.slave] = Effect(job, esc[job.slave])]
    BY DEF Exchange
  <2>3. /\ esc' = [s \in Slaves |-> esc'[s]]
        /\ \A s \in Slaves : DOMAIN esc'[s] = DOMAIN Controller /\ esc'[s].busy \in BOOLEAN
    BY <1>2, <2>1, <2>2 DEF SlaveInv
  <2>4. eep_pdi' \in [Slaves -> BOOLEAN]
    BY <1>4 DEF SlaveInv
  <2> QED
    BY <1>3, <2>3, <2>4 DEF SlaveInv
<1>6. JobInv'
  BY <1>1, <1>2, <1>3, <1>4 DEF JobInv, SlaveInv, NextFrames, CommandOf, Frames, Ready, SameAccess,
      Kinds
<1>7. FindInv'
  BY <1>1, <1>2, <1>3, <1>4 DEF FindInv, JobInv, SlaveInv, Frames, SameAccess
<1>8. PhaseInv'
  <2>1. Wanted' = Wanted
    BY <1>3 DEF Wanted, HasMailbox
  <2>2. job.pc # "idle"
    BY <1>1 DEF Frames
  <2>3. pc \in {"detect", "force", "claim"} => UNCHANGED eep_pdi
    <3>1. ASSUME pc \in {"detect", "force", "claim"} PROVE job.pc \notin {"claim", "release"}
      BY <1>2, <2>2, <3>1 DEF PhaseInv, JobInv, AccessPcs, SlaveInv, NoTool
    <3> QED
      BY <1>4, <3>1
  <2> QED
    BY <1>1, <1>3, <2>1, <2>2, <2>3 DEF PhaseInv, SameAccess
<1> QED
  BY <1>5, <1>6, <1>7, <1>8

(* A slave that has finished a command is no longer busy; of its EEPROM    *)
(* only the cell of a write has changed.                                   *)
Kept(e, d) == e.owner = d.owner /\ e.cmd = d.cmd /\ e.addr = d.addr
ReadOf(s, e) == <<rom[s][e.addr], IF wide[s] THEN Beyond(rom[s], e.addr + 1) ELSE Zero>>

LEMMA DoneGoes ==
  ASSUME SlaveInv, EepromDone
  PROVE  \E s \in Slaves :
           /\ esc[s].busy /\ esc'[s].busy = FALSE /\ Kept(esc'[s], esc[s])
           /\ DOMAIN esc'[s] = DOMAIN Controller
           /\ esc' = [t \in Slaves |-> IF t = s THEN esc'[s] ELSE esc[t]]
           /\ rom' = [t \in Slaves |-> IF t = s THEN rom'[s] ELSE rom[t]]
           /\ DOMAIN rom'[s] = Cells
           /\ \A c \in Cells : (esc[s].cmd = "write" /\ c = esc[s].addr) \/ rom'[s][c] = rom[s][c]
           /\ esc[s].cmd # "write" => rom'[s] = rom[s]
           /\ esc'[s].nack \/ esc'[s].data = IF esc[s].cmd = "read" THEN ReadOf(s, esc[s])
                                                                     ELSE esc[s].data
<1>1. PICK s \in Slaves :
        /\ esc[s].busy
        /\ \/ /\ esc' = [esc EXCEPT ![s].busy = FALSE,
                                    ![s].data = IF esc[s].cmd = "read" THEN ReadOf(s, esc[s]) ELSE @]
              /\ rom' = IF esc[s].cmd = "write"
                        THEN [rom EXCEPT ![s][esc[s].addr][1] = esc[s].latch] ELSE rom
           \/ /\ esc' = [esc EXCEPT ![s].busy = FALSE, ![s].nack = TRUE]
              /\ rom' = rom
  BY DEF EepromDone, ReadOf
<1>2. CASE /\ esc' = [esc EXCEPT ![s].busy = FALSE,
                                 ![s].data = IF esc[s].cmd = "read" THEN ReadOf(s, esc[s]) ELSE @]
           /\ rom' = IF esc[s].cmd = "write"
                     THEN [rom EXCEPT ![s][esc[s].addr][1] = esc[s].latch] ELSE rom
  <2>1. /\ esc' = [t \in Slaves |-> IF t = s THEN esc'[s] ELSE esc[t]]
        /\ esc'[s].busy = FALSE /\ Kept(esc'[s], esc[s]) /\ DOMAIN esc'[s] = DOMAIN Controller
        /\ esc'[s].data = IF esc[s].cmd = "read" THEN ReadOf(s, esc[s]) ELSE esc[s].data
    BY <1>2 DEF SlaveInv, Kept, Controller
  <2>2. CASE esc[s].cmd = "write"
    <3>1. rom' = [rom EXCEPT ![s] = [rom[s] EXCEPT ![esc[s].addr] =
                                       [rom[s][esc[s].addr] EXCEPT ![1] = esc[s].latch]]]
      BY <1>2, <2>2
    <3> QED
      BY <1>1, <2>1, <2>2, <3>1 DEF SlaveInv
  <2>3. CASE esc[s].cmd # "write"
    BY <1>1, <1>2, <2>1, <2>3 DEF SlaveInv
  <2> QED
    BY <2>2, <2>3
<1>3. CASE esc' = [esc EXCEPT ![s].busy = FALSE, ![s].nack = TRUE] /\ rom' = rom
  <2>1. /\ esc' = [t \in Slaves |-> IF t = s THEN esc'[s] ELSE esc[t]]
        /\ esc'[s].busy = FALSE /\ Kept(esc'[s], esc[s]) /\ DOMAIN esc'[s] = DOMAIN Controller
        /\ esc'[s].nack
    BY <1>3 DEF SlaveInv, Kept, Controller
  <2> QED
    BY <1>1, <1>3, <2>1 DEF SlaveInv
<1> QED
  BY <1>1, <1>2, <1>3

LEMMA PdiGoes ==
  ASSUME SlaveInv, PdiTakes
  PROVE  \E s \in Slaves :
           /\ esc[s].owner = "offered" /\ ~esc[s].busy
           /\ esc' = [t \in Slaves |-> IF t = s THEN [esc[s] EXCEPT !.owner = "pdi"] ELSE esc[t]]
BY DEF SlaveInv, PdiTakes

(* Steps of the slaves. *)
LEMMA ShapeSlaves ==
  ASSUME Shape, EepromDone \/ PdiTakes, UNCHANGED <<startvars, toolvars>>
  PROVE  Shape'
<1> USE DEF Shape
<1>1. /\ UNCHANGED <<Slaves, wide, eep_pdi, esislave, esimap, esibuf, job, find>>
      /\ UNCHANGED <<pc, slave, round, list, call, tool>>
  BY DEF EepromDone, PdiTakes, cachevars, startvars, toolvars
<1>2. SlaveInv'
  <2>1. /\ esc' = [s \in Slaves |-> esc'[s]]
        /\ \A s \in Slaves : DOMAIN esc'[s] = DOMAIN Controller /\ esc'[s].busy \in BOOLEAN
    <3>1. CASE EepromDone
      <4>1. PICK s \in Slaves :
              /\ esc'[s].busy = FALSE /\ DOMAIN esc'[s] = DOMAIN Controller
              /\ esc' = [t \in Slaves |-> IF t = s THEN esc'[s] ELSE esc[t]]
        BY <3>1, DoneGoes
      <4>2. \A t \in Slaves : esc'[t] = IF t = s THEN esc'[s] ELSE esc[t]
        BY <4>1
      <4>3. \A t \in Slaves : DOMAIN esc'[t] = DOMAIN Controller /\ esc'[t].busy \in BOOLEAN
        BY <4>1, <4>2 DEF SlaveInv
      <4>4. esc' = [t \in Slaves |-> esc'[t]]
        BY <4>1
      <4> QED
        BY <4>3, <4>4
    <3>2. CASE PdiTakes
      BY <3>2, PdiGoes DEF SlaveInv, Controller
    <3> QED
      BY <3>1, <3>2
  <2>2. /\ rom' = [s \in Slaves |-> rom'[s]]
        /\ \A s \in Slaves : DOMAIN rom'[s] = Cells
    <3>1. CASE EepromDone
      BY <3>1, DoneGoes DEF SlaveInv
    <3>2. CASE PdiTakes
      BY <3>2 DEF SlaveInv, PdiTakes
    <3> QED
      BY <3>1, <3>2
  <2> QED
    BY <1>1, <2>1, <2>2 DEF SlaveInv
<1>3. JobInv' /\ FindInv'
  BY <1>1 DEF JobInv, FindInv
<1>4. PhaseInv'
  <2>1. Wanted' = Wanted
    BY <1>1 DEF Wanted, HasMailbox
  <2> QED
    BY <1>1, <2>1 DEF PhaseInv
<1> QED
  BY <1>2, <1>3, <1>4

LEMMA ShapeBroadcast ==
  ASSUME Shape, tool = NoTool, Broadcast, UNCHANGED toolvars
  PROVE  Shape'
<1> USE DEF Shape
<1>1. /\ UNCHANGED <<Slaves, wide, rom, eep_pdi, esislave, esimap, esibuf, job, find>>
      /\ UNCHANGED <<slave, call, tool>>
      /\ pc \in {"force", "claim"} /\ pc' \in {"claim", "request"}
  BY DEF Broadcast, cachevars, toolvars
<1>2. SlaveInv'
  <2>1. \A s \in Slaves : LET e == Effect([NoJob EXCEPT !.pc = pc], esc[s])
                          IN  DOMAIN e = DOMAIN Controller /\ e.busy \in BOOLEAN
    BY EffectGoes DEF SlaveInv
  <2>2. /\ esc' = [s \in Slaves |-> esc'[s]]
        /\ \A s \in Slaves : DOMAIN esc'[s] = DOMAIN Controller /\ esc'[s].busy \in BOOLEAN
    BY <2>1 DEF SlaveInv, Broadcast
  <2> QED
    BY <1>1, <2>2 DEF SlaveInv
<1>3. job.pc = "idle" /\ find.pc = "idle"
  BY <1>1 DEF PhaseInv, AccessPcs, NoTool
<1>4. JobInv' /\ FindInv'
  BY <1>1 DEF JobInv, FindInv
<1>5. PhaseInv'
  BY <1>1, <1>3 DEF PhaseInv
<1> QED
  BY <1>2, <1>4, <1>5

(* The steps of ecx_config_init and ecx_configdc that have no access and   *)
(* no search under way.                                                    *)
LEMMA InRange ==
  ASSUME SlaveInv
  PROVE  /\ 1 \in Slaves /\ (slave < SlaveCount => slave + 1 \in Slaves)
         /\ slave < SlaveCount \/ slave = SlaveCount
<1>1. PICK n \in Nat \ {0} : Slaves = 1 .. n
  BY DEF SlaveInv
<1>2. rom \in Seq({rom[s] : s \in Slaves})
  <2>1. rom \in [1 .. n -> {rom[s] : s \in Slaves}]
    BY <1>1 DEF SlaveInv
  <2> QED
    BY <1>1, <2>1
<1>3. SlaveCount = n
  BY <1>1, <1>2 DEF SlaveInv, SlaveCount
<1> QED
  BY <1>1, <1>3 DEF SlaveInv

LEMMA ShapeIdle ==
  ASSUME Shape, tool = NoTool, UNCHANGED toolvars,
         Detect \/ ReadTopology \/ Lookup \/ ConfigDc \/ Sync \/ PlugIn
  PROVE  Shape'
<1> USE DEF Shape
<1>1. /\ UNCHANGED <<Slaves, wide, esc, rom, eep_pdi, esislave, esimap, esibuf, job, find>>
      /\ UNCHANGED <<call, tool>>
  BY DEF Detect, ReadTopology, Lookup, ConfigDc, Sync, PlugIn, cachevars, siivars, toolvars
<1>2. /\ pc \in {"detect", "topology", "lookup", "dc", "sync"}
      /\ pc' \in {"force", "claim"} => pc \in {"detect", "force"}
      /\ pc' # "detect"
  BY DEF Detect, ReadTopology, Lookup, ConfigDc, Sync, PlugIn, Proceed, NextSync
<1>3. slave' \in Slaves
  BY InRange DEF Detect, ReadTopology, Lookup, ConfigDc, Sync, PlugIn, Proceed, NextSync, SlaveInv
<1>4. job.pc = "idle" /\ find.pc = "idle" /\ call = NoCall
  BY <1>2 DEF PhaseInv, AccessPcs, NoTool
<1>5. SlaveInv' /\ JobInv' /\ FindInv'
  BY <1>1, <1>3 DEF SlaveInv, JobInv, FindInv
<1>6. PhaseInv'
  BY <1>1, <1>2, <1>4 DEF PhaseInv
<1> QED
  BY <1>5, <1>6

(* The accesses of ecx_config_init begin and end.                          *)
LEMMA ShapeAccess ==
  ASSUME Shape, tool = NoTool, UNCHANGED toolvars, BeginAccess \/ EndAccess
  PROVE  Shape'
<1> USE DEF Shape
<1>1. /\ UNCHANGED <<Slaves, wide, esc, rom, eep_pdi, esislave, esimap, esibuf, find>>
      /\ UNCHANGED <<call, tool>> /\ pc \in AccessPcs
  BY DEF BeginAccess, EndAccess, cachevars, startvars, toolvars
<1>2. find.pc = "idle" /\ call = NoCall /\ tool.pc = "none"
  BY <1>1 DEF PhaseInv, AccessPcs, NoTool
<1>3. CASE BeginAccess
  <2>1. /\ UNCHANGED <<pc, slave, round, list>> /\ Wanted' = Wanted /\ Wanted # << >>
    BY <1>3 DEF BeginAccess, startvars, Wanted, HasMailbox
  <2>2. Wanted[1] \in Kinds \ {"write", "read"}
    BY <2>1 DEF Wanted, Kinds
  <2>3. JobInv'
    <3>1. job' = Begin(Wanted[1], slave, Wanted[2], 0) /\ slave \in Slaves
      BY <1>3 DEF BeginAccess, SlaveInv
    <3> QED
      BY <1>1, <2>2, <3>1, BeginGoes DEF JobInv, SlaveInv, Kinds, Frames, Ready
  <2>4. SlaveInv' /\ FindInv'
    BY <1>1, <1>2, <2>1 DEF SlaveInv, FindInv
  <2>5. PhaseInv'
    BY <1>1, <1>2, <2>1 DEF PhaseInv, NoTool, NoCall
  <2> QED
    BY <2>3, <2>4, <2>5
<1>4. CASE EndAccess
  <2>1. job' = NoJob \/ (job.pc = "idle" /\ UNCHANGED job)
    <3>1. CASE Wanted = << >>
      BY <1>1, <1>2, <1>4, <3>1 DEF EndAccess, PhaseInv, AccessPcs
    <3>2. CASE Wanted # << >>
      BY <1>4, <3>2 DEF EndAccess
    <3> QED
      BY <3>1, <3>2
  <2>2. slave' \in Slaves /\ pc' \notin {"detect", "force", "claim"}
    BY <1>1, <1>4, InRange DEF EndAccess, Following, Proceed, AccessPcs, SlaveInv
  <2>3. SlaveInv' /\ FindInv' /\ JobInv'
    BY <1>1, <1>2, <2>1, <2>2 DEF SlaveInv, FindInv, JobInv, NoJob, JobFields, Frames, Ready
  <2>4. PhaseInv'
    BY <1>1, <1>2, <2>1, <2>2 DEF PhaseInv, NoJob
  <2> QED
    BY <2>3, <2>4
<1> QED
  BY <1>3, <1>4

(* A search goes on in the same slave.                                     *)
SameSearch(n, f) == /\ DOMAIN n = DOMAIN NoFind
                    /\ n.slave = f.slave /\ n.eectl = f.eectl

LEMMA SearchGoes ==
  ASSUME NEW s, NEW cat
  PROVE  LET n == Search(s, cat, TRUE)
         IN  DOMAIN n = DOMAIN NoFind /\ n.pc = "header" /\ n.slave = s /\ n.eectl = eep_pdi[s]
BY DEF Search, NoFind

LEMMA SearchedGoes ==
  ASSUME NEW f, DOMAIN f = DOMAIN NoFind, NEW cell
  PROVE  /\ SameSearch(Searched(f, cell), f)
         /\ Searched(f, cell).pc \in {f.pc, "restore"}
         /\ SameSearch(Restored(f), f)
         /\ Restored(f).pc = (IF f.more THEN "content" ELSE "end")
BY DEF Searched, SectionRead, Restored, SameSearch, NoFind

LEMMA ShapeSection ==
  ASSUME Shape, tool = NoTool, UNCHANGED toolvars, BeginSection \/ EndSection
  PROVE  Shape'
<1> USE DEF Shape
<1>1. /\ UNCHANGED <<Slaves, wide, esc, rom, eep_pdi, esislave, esimap, esibuf, job>>
      /\ UNCHANGED <<call, tool, slave>> /\ pc = "section"
  BY DEF BeginSection, EndSection, cachevars, startvars, toolvars, Proceed
<1>2. call = NoCall /\ tool.pc = "none"
  BY <1>1 DEF PhaseInv, NoTool
<1>3. job.pc = "idle"
  BY <1>1, <1>2 DEF PhaseInv, FindInv, BeginSection, EndSection, AccessPcs
<1>4. SlaveInv' /\ JobInv'
  BY <1>1 DEF SlaveInv, JobInv
<1>5. CASE BeginSection
  <2>1. pc' = "section" /\ find' = Search(slave, Categories[round], TRUE) /\ slave \in Slaves
    BY <1>1, <1>5 DEF BeginSection, startvars, SlaveInv
  <2>2. /\ DOMAIN find' = DOMAIN NoFind /\ find'.pc = "header" /\ find'.slave = slave
        /\ find'.eectl = eep_pdi[slave]
    BY <2>1, SearchGoes
  <2>3. FindInv'
    BY <1>1, <1>3, <2>1, <2>2 DEF FindInv, SlaveInv
  <2>4. PhaseInv'
    BY <1>1, <1>2, <1>3, <2>1 DEF PhaseInv
  <2> QED
    BY <1>4, <2>3, <2>4
<1>6. CASE EndSection
  <2>1. pc' \in {"section", "pdi"} /\ find' = NoFind
    BY <1>6 DEF EndSection, Proceed
  <2>2. FindInv'
    BY <1>1, <1>3, <2>1 DEF FindInv, NoFind
  <2>3. PhaseInv'
    BY <1>1, <1>2, <1>3, <2>1 DEF PhaseInv, NoFind
  <2> QED
    BY <1>4, <2>2, <2>3
<1> QED
  BY <1>5, <1>6

LEMMA ShapeSearch ==
  ASSUME Shape, tool = NoTool, UNCHANGED toolvars, UNCHANGED startvars,
         GetCached \/ GetUncached \/ EnterCache \/ Restore
  PROVE  Shape'
<1> USE DEF Shape
<1>1. /\ UNCHANGED <<Slaves, wide, esc, rom, eep_pdi>>
      /\ UNCHANGED <<pc, slave, round, list, call, tool>>
      /\ find.pc \in {"header", "content", "restore"}
  BY DEF GetCached, GetUncached, EnterCache, Restore, Reading, startvars, toolvars
<1>2. /\ pc = "section" \/ (pc = "run" /\ call.op = "find")
      /\ pc \notin AccessPcs /\ tool.pc = "none"
      /\ find.slave \in Slaves /\ find.eectl \in BOOLEAN /\ DOMAIN find = DOMAIN NoFind
  BY <1>1 DEF PhaseInv, FindInv, AccessPcs, NoTool
<1>3. SlaveInv'
  <2>1. esimap' \subseteq Cells /\ DOMAIN esibuf' = Cells
    <3>1. CASE UNCHANGED <<esimap, esibuf>> \/ ClearFor(find.slave)
      BY <3>1 DEF SlaveInv, ClearFor
    <3>2. CASE EnterCache
      <4>1. find.a \in Cells
        BY <3>2 DEF EnterCache, FindInv
      <4> QED
        BY <3>2, <4>1 DEF SlaveInv, EnterCache, Fill, Read8
    <3> QED
      BY <3>1, <3>2 DEF GetCached, GetUncached, Restore, cachevars
  <2> QED
    BY <1>1, <2>1 DEF SlaveInv
<1>4. SameSearch(find', find)
  <2>1. SameSearch(find, find)
    BY <1>2 DEF SameSearch
  <2> QED
    BY <1>2, <2>1, SearchedGoes DEF GetCached, GetUncached, EnterCache, Restore
<1>5. PhaseInv'
  <2>1. find'.pc # "idle"
    BY <1>1, <1>2, SearchedGoes DEF GetCached, GetUncached, EnterCache, Restore, FindInv
  <2> QED
    BY <1>1, <1>2, <1>4, <2>1 DEF PhaseInv, SameSearch
<1>6. CASE GetCached
  <2>1. UNCHANGED job /\ job.pc = "idle" /\ find'.pc \in {"header", "content", "restore"}
    BY <1>1, <1>2, <1>6, SearchedGoes DEF GetCached, Reading
  <2>2. JobInv' /\ FindInv'
    BY <1>1, <1>2, <1>4, <2>1 DEF JobInv, FindInv, SameSearch
  <2> QED
    BY <1>3, <1>5, <2>2
<1>7. CASE GetUncached
  <2>1. /\ UNCHANGED find /\ find.pc \in {"header", "content"} /\ find.a \in Cells
        /\ job' = Begin("read", find.slave, find.a, 0) /\ esislave' = find.slave
    BY <1>7 DEF GetUncached, Known, ClearFor, Reading
  <2>2. /\ DOMAIN job' = JobFields /\ job'.kind = "read" /\ job'.slave = find.slave
        /\ job'.addr = find.a /\ job'.cnt = 0 /\ job'.nacks = 0
        /\ job'.pc = IF eep_pdi[find.slave] THEN "force" ELSE "wait"
    BY <2>1, BeginGoes
  <2>3. JobInv'
    BY <1>1, <1>2, <2>2 DEF JobInv, Kinds, Frames, Ready, SlaveInv
  <2>4. FindInv'
    BY <1>1, <1>2, <2>1, <2>2 DEF FindInv
  <2> QED
    BY <1>3, <1>5, <2>3, <2>4
<1>8. CASE EnterCache
  <2>1. UNCHANGED find /\ find.pc \in {"header", "content"} /\ job' = NoJob
    BY <1>8 DEF EnterCache
  <2>2. JobInv' /\ FindInv'
    BY <1>1, <1>2, <2>1 DEF JobInv, FindInv, NoJob, JobFields, Frames, Ready
  <2> QED
    BY <1>3, <1>5, <2>2
<1>9. CASE Restore
  <2>1. CASE job.pc = "idle" /\ find.eectl /\ job' = Begin("release", find.slave, 0, 0)
             /\ UNCHANGED find
    <3>1. /\ DOMAIN job' = JobFields /\ job'.kind = "release" /\ job'.slave = find.slave
          /\ job'.cnt = 0 /\ job'.nacks = 0 /\ job'.pc = IF eep_pdi[find.slave] THEN "end" ELSE "release"
      BY <2>1, BeginGoes
    <3>2. JobInv'
      BY <1>1, <1>2, <3>1 DEF JobInv, Kinds, Frames, Ready, SlaveInv
    <3>3. FindInv'
      BY <1>1, <1>2, <1>9, <2>1, <3>1 DEF FindInv, Restore
    <3> QED
      BY <1>3, <1>5, <3>2, <3>3
  <2>2. CASE /\ IF find.eectl THEN job.pc = "end" ELSE job.pc = "idle"
             /\ job' = NoJob /\ find' = Restored(find)
    <3>1. find'.pc \in {"content", "end"}
      BY <1>2, <2>2, SearchedGoes
    <3>2. JobInv'
      BY <1>1, <2>2 DEF JobInv, NoJob, JobFields, Frames, Ready
    <3>3. find.eectl => eep_pdi[find.slave]
      BY <1>9, <2>2 DEF Restore, FindInv, JobInv
    <3>4. FindInv'
      BY <1>1, <1>2, <1>4, <2>2, <3>1, <3>3 DEF FindInv, NoJob, SameSearch
    <3> QED
      BY <1>3, <1>5, <3>2, <3>4
  <2> QED
    BY <1>9, <2>1, <2>2 DEF Restore
<1> QED
  BY <1>6, <1>7, <1>8, <1>9

(* The calls of the application, and a second start.                       *)
LEMMA ShapeCall ==
  ASSUME Shape, tool = NoTool, UNCHANGED toolvars, BeginCall \/ EndCall \/ StartAgain
  PROVE  Shape'
<1> USE DEF Shape
<1>1. /\ UNCHANGED <<Slaves, wide, esc, rom>> /\ UNCHANGED tool
      /\ pc = "run" /\ tool.pc = "none" /\ pc \notin AccessPcs
  BY DEF BeginCall, EndCall, StartAgain, Idle, Returning, toolvars, NoTool, AccessPcs
<1>2. CASE BeginCall
  <2>1. job.pc = "idle" /\ find.pc = "idle"
    BY <1>1, <1>2 DEF BeginCall, Idle, PhaseInv, NoCall
  <2>2. UNCHANGED <<eep_pdi, esislave, esimap, esibuf, pc, slave, round, list>>
    BY <1>2 DEF BeginCall, cachevars
  <2>3. SlaveInv'
    BY <1>1, <2>2 DEF SlaveInv
  <2>4. ASSUME NEW s \in Slaves, NEW a, NEW op \in {"read", "write"},
               call' = [op |-> op, slave |-> s, addr |-> a, val |-> 7, pdi |-> eep_pdi[s]],
               job' = Begin(op, s, a, 7), UNCHANGED find
        PROVE  JobInv' /\ FindInv' /\ PhaseInv'
    <3>1. /\ DOMAIN job' = JobFields /\ job'.kind = op /\ job'.slave = s
          /\ job'.cnt = 0 /\ job'.nacks = 0 /\ job'.pc = IF eep_pdi[s] THEN "force" ELSE "wait"
      BY <2>4, BeginGoes
    <3>2. JobInv'
      BY <2>2, <2>4, <3>1, <1>1 DEF JobInv, Kinds, Frames, Ready, SlaveInv
    <3>3. FindInv'
      BY <2>1, <2>2, <2>4, <1>1 DEF FindInv
    <3>4. PhaseInv'
      BY <1>1, <2>1, <2>2, <2>4 DEF PhaseInv
    <3> QED
      BY <3>2, <3>3, <3>4
  <2>5. ASSUME NEW s \in Slaves, NEW cat,
               call' = [op |-> "find", slave |-> s, addr |-> cat, val |-> 0,
                        pdi |-> eep_pdi[s]],
               find' = Search(s, cat, TRUE), UNCHANGED job
        PROVE  JobInv' /\ FindInv' /\ PhaseInv'
    <3>1. /\ DOMAIN find' = DOMAIN NoFind /\ find'.pc = "header" /\ find'.slave = s
          /\ find'.eectl = eep_pdi[s]
      BY <2>5, SearchGoes
    <3>2. JobInv'
      BY <1>1, <2>2, <2>5 DEF JobInv
    <3>3. FindInv'
      BY <1>1, <2>1, <2>2, <2>5, <3>1 DEF FindInv, SlaveInv
    <3>4. PhaseInv'
      BY <1>1, <2>1, <2>2, <2>5, <3>1 DEF PhaseInv
    <3> QED
      BY <3>2, <3>3, <3>4
  <2> QED
    BY <1>2, <2>3, <2>4, <2>5 DEF BeginCall
<1>3. CASE EndCall
  <2>1. UNCHANGED <<eep_pdi, esislave, esimap, esibuf, pc, slave, round, list>>
        /\ call' = NoCall /\ job' = NoJob /\ find' = NoFind
    BY <1>3 DEF EndCall, cachevars
  <2>2. SlaveInv' /\ JobInv'
    BY <1>1, <2>1 DEF SlaveInv, JobInv, NoJob, JobFields, Frames, Ready
  <2>3. FindInv' /\ PhaseInv'
    BY <1>1, <2>1 DEF FindInv, PhaseInv, NoJob, NoFind, NoCall
  <2> QED
    BY <2>2, <2>3
<1>4. CASE StartAgain
  <2>1. job.pc = "idle" /\ find.pc = "idle"
    BY <1>1, <1>4 DEF StartAgain, Idle, PhaseInv, NoCall
  <2>2. /\ pc' = "detect" /\ slave' = 1 /\ UNCHANGED <<job, find, call>> /\ call = NoCall
        /\ eep_pdi' = [s \in Slaves |-> FALSE]
        /\ esimap' \in {esimap, {}} /\ esibuf' = esibuf
    BY <1>4 DEF StartAgain, Proceed, ClearFor, Idle
  <2>3. SlaveInv' /\ JobInv'
    BY <1>1, <2>1, <2>2, InRange DEF SlaveInv, JobInv, Frames, Ready
  <2>4. FindInv' /\ PhaseInv'
    BY <1>1, <2>1, <2>2 DEF FindInv, PhaseInv
  <2> QED
    BY <2>3, <2>4
<1> QED
  BY <1>2, <1>3, <1>4

(* The steps of eepromtool.                                                *)
LEMMA ToolGoes ==
  ASSUME NEW t, DOMAIN t = DOMAIN NoTool, t.pass \in Passes, NEW buf, NEW ok
  PROVE  LET n == Continued(t, buf, ok)
         IN  /\ DOMAIN n = DOMAIN NoTool /\ n.slave = t.slave /\ n.pass \in Passes
             /\ n.pc \in {t.pc, "force", "done"}
<1>1. LET n == NextCall(t, buf, TRUE)
      IN  /\ DOMAIN n = DOMAIN NoTool /\ n.slave = t.slave /\ n.pass \in Passes
          /\ n.pc \in {"force", "done"}
  BY DEF NextCall, Pass, Done, NoTool, Passes
<1>2. CASE t.pass \in {"alias", "crc"}
  BY <1>2 DEF Continued, Done, NoTool, Passes
<1>3. CASE t.pass \notin {"alias", "crc"}
  BY <1>1, <1>3 DEF Continued, NoTool
<1> QED
  BY <1>2, <1>3

LEMMA ShapeTool ==
  ASSUME Shape, tool # NoTool, TakeControl \/ ReadStatus \/ ToolBegins \/ ToolEnds
  PROVE  Shape'
<1> USE DEF Shape
<1>1. /\ UNCHANGED <<Slaves, wide, rom, eep_pdi, esislave, esimap, esibuf, find>>
      /\ UNCHANGED <<pc, slave, round, list, call>>
      /\ pc = "detect" /\ tool.slave \in Slaves /\ DOMAIN tool = DOMAIN NoTool
      /\ tool.pass \in Passes
  BY DEF TakeControl, ReadStatus, ToolBegins, ToolEnds, cachevars, startvars, PhaseInv
<1>2. find.pc = "idle" /\ call = NoCall /\ pc \notin AccessPcs /\ ~eep_pdi[tool.slave]
  BY <1>1 DEF PhaseInv, AccessPcs
<1>3. FindInv'
  BY <1>1, <1>2 DEF FindInv
<1>4. CASE TakeControl
  <2>1. /\ UNCHANGED job /\ job.pc = "idle" /\ tool.pc \in {"force", "claim"}
        /\ tool' = [tool EXCEPT !.pc = IF @ = "force" THEN "claim" ELSE "status"]
    BY <1>1, <1>2, <1>4 DEF TakeControl, PhaseInv
  <2>2. /\ esc' = [s \in Slaves |-> esc'[s]]
        /\ \A s \in Slaves : DOMAIN esc'[s] = DOMAIN Controller /\ esc'[s].busy \in BOOLEAN
    <3>1. \A s \in Slaves : LET e == Effect([NoJob EXCEPT !.pc = tool.pc], esc[s])
                            IN  DOMAIN e = DOMAIN Controller /\ e.busy \in BOOLEAN
      BY EffectGoes DEF SlaveInv
    <3> QED
      BY <1>4, <1>1, <3>1 DEF TakeControl, SlaveInv
  <2>3. SlaveInv' /\ JobInv'
    BY <1>1, <2>1, <2>2 DEF SlaveInv, JobInv
  <2>4. PhaseInv'
    BY <1>1, <1>2, <2>1 DEF PhaseInv, NoTool
  <2> QED
    BY <1>3, <2>3, <2>4
<1>5. CASE ReadStatus
  <2>1. /\ UNCHANGED <<job, esc>> /\ job.pc = "idle"
    BY <1>1, <1>2, <1>5 DEF ReadStatus, PhaseInv
  <2>2. \E i : tool' = [tool EXCEPT !.pc = "access", !.inc = i]
    BY <1>5 DEF ReadStatus
  <2>3. SlaveInv' /\ JobInv'
    BY <1>1, <2>1 DEF SlaveInv, JobInv
  <2>4. PhaseInv'
    BY <1>1, <1>2, <2>1, <2>2 DEF PhaseInv, NoTool
  <2> QED
    BY <1>3, <2>3, <2>4
<1>6. CASE ToolBegins
  <2>1. UNCHANGED <<esc, tool>> /\ tool.pc = "access" /\ job' = Access
    BY <1>6 DEF ToolBegins, toolvars
  <2>2. /\ DOMAIN job' = JobFields /\ job'.pc = "wait" /\ job'.kind \in {"read", "write"}
        /\ job'.slave = tool.slave /\ job'.cnt = 0 /\ job'.nacks = 0
    BY <1>1, <2>1 DEF Access, IsRead, Passes, readeepromAP, writeeepromAP, NoJob, JobFields
  <2>3. SlaveInv' /\ JobInv'
    BY <1>1, <1>2, <2>1, <2>2 DEF SlaveInv, JobInv, Kinds, Frames, Ready
  <2>4. PhaseInv'
    BY <1>1, <1>2, <2>1, <2>2 DEF PhaseInv
  <2> QED
    BY <1>3, <2>3, <2>4
<1>7. CASE ToolEnds
  <2>1. /\ UNCHANGED esc /\ tool.pc = "access" /\ job' = NoJob
        /\ tool' = Continued(tool, ebuf', job.ok)
    BY <1>7 DEF ToolEnds
  <2>2. /\ DOMAIN tool' = DOMAIN NoTool /\ tool'.slave = tool.slave /\ tool'.pass \in Passes
        /\ tool'.pc \in {"access", "force", "done"}
    BY <1>1, <2>1, ToolGoes
  <2>3. SlaveInv' /\ JobInv'
    BY <1>1, <2>1 DEF SlaveInv, JobInv, NoJob, JobFields, Frames, Ready
  <2>4. PhaseInv'
    BY <1>1, <1>2, <2>1, <2>2 DEF PhaseInv, NoJob
  <2> QED
    BY <1>3, <2>3, <2>4
<1> QED
  BY <1>4, <1>5, <1>6, <1>7

LEMMA ShapeInit == ToolInit => Shape
<1> SUFFICES ASSUME ToolInit PROVE Shape
  OBVIOUS
<1>1. PICK stock \in Stocks, owner \in {"master", "pdi"} :
        /\ Slaves = 1 .. Len(stock)
        /\ rom = [s \in Slaves |-> stock[s].rom]
        /\ esc = [s \in Slaves |-> [Controller EXCEPT !.owner = owner]]
        /\ InitSii /\ pc = "detect" /\ slave = 1 /\ call = NoCall
  <2>1. Init
    BY DEF ToolInit
  <2> QED
    BY <2>1, Zenon DEF Init
<1>2. Len(stock) \in Nat \ {0} /\ \A s \in 1 .. Len(stock) : DOMAIN stock[s].rom = Cells
  BY StartupAssumption
<1>3. SlaveInv
  <2>1. LET e == [Controller EXCEPT !.owner = owner]
        IN  DOMAIN e = DOMAIN Controller /\ e.busy = FALSE
    BY DEF Controller
  <2>2. /\ esc = [s \in Slaves |-> esc[s]]
        /\ \A s \in Slaves : DOMAIN esc[s] = DOMAIN Controller /\ esc[s].busy \in BOOLEAN
    BY <1>1, <2>1
  <2>3. rom = [s \in Slaves |-> rom[s]] /\ \A s \in Slaves : DOMAIN rom[s] = Cells
    BY <1>1, <1>2
  <2>4. /\ eep_pdi \in [Slaves -> BOOLEAN] /\ slave \in Slaves
        /\ esimap \subseteq Cells /\ DOMAIN esibuf = Cells
    BY <1>1, <1>2 DEF InitSii
  <2> QED
    BY <1>1, <1>2, <2>2, <2>3, <2>4 DEF SlaveInv
<1>4. JobInv /\ FindInv
  BY <1>1 DEF JobInv, FindInv, InitSii, NoJob, NoFind, JobFields, Frames, Ready
<1>5. PhaseInv
  <2>1. tool # NoTool => /\ tool.pc = "force" /\ tool.slave \in Slaves
                         /\ DOMAIN tool = DOMAIN NoTool /\ tool.pass \in Passes
    <3>1. CASE tool = NoTool
      BY <3>1
    <3>2. CASE tool # NoTool
      <4>1. PICK m \in Modes, s \in Slaves :
              tool = [NoTool EXCEPT !.pc = "force", !.mode = m, !.slave = s,
                                    !.pass = IF m = "write" THEN "write" ELSE "info"]
        BY <3>2 DEF ToolInit
      <4> QED
        BY <4>1 DEF NoTool, Passes
    <3> QED
      BY <3>1, <3>2
  <2> QED
    BY <1>1, <2>1 DEF PhaseInv, InitSii, NoJob, NoFind
<1> QED
  BY <1>3, <1>4, <1>5 DEF Shape

LEMMA ShapeStep ==
  ASSUME Shape, [BothNext]_allvars
  PROVE  Shape'
<1>1. CASE tool = NoTool /\ Next /\ UNCHANGED toolvars
  BY <1>1, ShapeExchange, ShapeSlaves, ShapeBroadcast, ShapeIdle, ShapeAccess, ShapeSection,
     ShapeSearch, ShapeCall DEF Next, Master
<1>2. CASE ToolNext
  BY <1>2, ShapeExchange, ShapeSlaves, ShapeTool DEF ToolNext
<1>3. CASE UNCHANGED allvars
  <2>1. /\ UNCHANGED <<Slaves, rom, esc, eep_pdi, esislave, esimap, esibuf, job, find>>
        /\ UNCHANGED <<pc, slave, round, list, call, tool>>
    BY <1>3 DEF allvars, vars, siivars, cachevars, startvars, toolvars
  <2>2. Wanted' = Wanted
    BY <2>1 DEF Wanted, HasMailbox
  <2>3. SlaveInv' /\ JobInv' /\ FindInv'
    BY <2>1 DEF Shape, SlaveInv, JobInv, FindInv
  <2>4. PhaseInv'
    BY <2>1, <2>2 DEF Shape, PhaseInv
  <2> QED
    BY <2>3, <2>4 DEF Shape
<1> QED
  BY <1>1, <1>2, <1>3 DEF BothNext
-----------------------------------------------------------------------------
(* Control and content.                                                    *)

(* Steps in which no frame passes and no slave acts: at most an access     *)
(* begins or ends.                                                         *)
Rests == {"idle", "end"}
Begins(j) == j.pc \in {"idle", "force", "wait", "release"} \/ (j.pc = "end" /\ j.kind = "release")

LEMMA ContentQuiet ==
  ASSUME ContentInv,
         UNCHANGED <<Slaves, wide, esc, rom, eep_pdi, doubt>>,
         rewritten' = rewritten \/ job.pc = "idle",
         \A s \in Slaves : Settled(s)' => Settled(s),
         job' = job \/ (job.pc \in Rests /\ Begins(job'))
  PROVE  ContentInv'
<1> USE DEF ContentInv, Rests, Begins
<1>1. CASE job' = job
  <2>1. OwnInv'
    BY <1>1 DEF OwnInv, Busy
  <2>2. ReadyInv' /\ WriteInv' /\ ReadInv'
    BY <1>1 DEF ReadyInv, WriteInv, ReadInv, DataOf
  <2> QED
    BY <2>1, <2>2
<1>2. CASE job.pc \in Rests /\ Begins(job')
  <2>1. OwnInv'
    BY <1>2 DEF OwnInv, Busy, Frames
  <2>2. ReadyInv' /\ WriteInv' /\ ReadInv'
    BY <1>2 DEF ReadyInv, WriteInv, ReadInv
  <2> QED
    BY <2>1, <2>2
<1> QED
  BY <1>1, <1>2

(* What a frame does to the EEPROM interface it reaches. *)
LEMMA EffectKeeps ==
  ASSUME NEW j, NEW e, DOMAIN e = DOMAIN Controller
  PROVE  LET n == Effect(j, e)
         IN  /\ n.owner = CASE j.pc = "force" -> "master"
                            [] j.pc = "claim" /\ e.owner = "offered" -> "master"
                            [] j.pc = "release" /\ e.owner = "master" -> "offered"
                            [] OTHER -> e.owner
             /\ n.data = e.data
             /\ j.pc # "command" => n.busy = e.busy /\ n.cmd = e.cmd /\ n.addr = e.addr
             /\ j.pc \notin {"clear", "command"} => n.nack = e.nack
             /\ j.pc = "command" /\ ~(e.owner = "master" /\ ~e.busy) => n = e
             /\ j.pc = "command" /\ e.owner = "master" /\ ~e.busy =>
                  /\ n.busy /\ n.addr = j.addr
                  /\ n.cmd = IF j.kind = "write" THEN "write" ELSE "read"
BY DEF Effect, Controller

(* What the answer says when the access goes on. *)
LEMMA AwaitGoes ==
  ASSUME NEW j, DOMAIN j = JobFields, j.nacks \in Nat, NEW e
  PROVE  LET n == Answered(j, e)
         IN  /\ j.pc \in {"wait", "await"} /\ n.pc # j.pc => ~e.busy
             /\ j.pc = "await" /\ n.pc = "data" /\ j.kind # "collect" => ~e.nack
             /\ j.pc = "await" /\ n.pc = "end" /\ j.kind # "write" => Doubtful(j, e)
             /\ j.pc = "data" /\ j.kind # "collect" => n.data = e.data
<1> DEFINE n == Answered(j, e)
<1>1. CASE j.pc = "wait"
  BY <1>1 DEF Answered
<1>2. CASE j.pc = "await"
  <2>1. n = IF e.busy THEN j ELSE IF e.nack THEN Nacked(j) ELSE Acknowledged(j)
    BY <1>2 DEF Answered
  <2>2. CASE e.busy
    BY <1>2, <2>1, <2>2
  <2>3. CASE ~e.busy /\ e.nack
    <3>1. n = Nacked(j)
      BY <2>1, <2>3
    <3>2. CASE j.nacks + 1 < MaxNacks
      <4>1. n.pc = CommandOf(j)
        <5>1. Command(j).pc = CommandOf(j) /\ DOMAIN Command(j) = JobFields
          BY CommandGoes DEF SameAccess
        <5>2. n = [Command(j) EXCEPT !.nacks = @ + 1]
          BY <3>1, <3>2 DEF Nacked
        <5> QED
          BY <5>1, <5>2
      <4> QED
        BY <1>2, <2>3, <4>1 DEF CommandOf
    <3>3. CASE ~(j.nacks + 1 < MaxNacks)
      <4>1. Doubtful(j, e)
        BY <1>2, <2>3, <3>3, SiiAssumption DEF Doubtful
      <4>2. n.pc = "end"
        <5>1. n = Over(j, <<Zero, Zero>>, FALSE)
          BY <3>1, <3>3 DEF Nacked
        <5>2. Over(j, <<Zero, Zero>>, FALSE).pc = "end"
          BY OverGoes
        <5> QED
          BY <5>1, <5>2
      <4> QED
        BY <1>2, <2>3, <4>1, <4>2
    <3> QED
      BY <3>2, <3>3
  <2>4. CASE ~e.busy /\ ~e.nack
    <3>1. n = Acknowledged(j)
      BY <2>1, <2>4
    <3>2. j.kind # "write" => n.pc = "data"
      BY <3>1, GotoGoes DEF Acknowledged
    <3> QED
      BY <1>2, <2>4, <3>2
  <2> QED
    BY <2>2, <2>3, <2>4
<1>3. CASE j.pc = "data"
  <2>1. n = Over(j, IF j.kind = "collect" THEN <<e.data[1], Zero>> ELSE e.data, TRUE)
    BY <1>3 DEF Answered
  <2>2. Over(j, e.data, TRUE).data = e.data
    BY OverGoes
  <2> QED
    BY <1>3, <2>1, <2>2
<1> QED
  BY <1>1, <1>2, <1>3

(* A frame of an access whose slave stays free of doubt was answered, or   *)
(* lost and is sent again, or it is the one that clears a missing          *)
(* acknowledge.                                                            *)
LEMMA Undoubted ==
  ASSUME Shape, Exchange, job.slave \notin doubt'
  PROVE  LET s == job.slave
             e == Effect(job, esc[s])
         IN  /\ doubt' = doubt /\ s \notin doubt
             /\ \/ /\ esc' = [esc EXCEPT ![s] = e] /\ job' = Answered(job, e)
                   /\ ~Doubtful(job, e)
                \/ /\ esc' = [esc EXCEPT ![s] = e] \/ UNCHANGED esc
                   /\ job' = Unanswered(job) /\ (Patient(job) \/ job.pc = "clear")
             /\ rewritten \subseteq rewritten'
             /\ job.pc = "command" /\ job.kind = "write" => <<s, job.addr>> \in rewritten'
BY DEF Exchange

LEMMA OthersLeft ==
  ASSUME Shape, Exchange, NEW t \in Slaves, t # job.slave
  PROVE  /\ esc'[t] = esc[t] /\ eep_pdi'[t] = eep_pdi[t]
         /\ job'.slave = job.slave /\ (t \notin doubt' => t \notin doubt)
<1>1. DOMAIN job = JobFields /\ job.cnt \in Nat
  BY DEF Shape, JobInv
<1>2. job'.slave = job.slave
  BY <1>1, ExchangeGoes DEF SameAccess
<1>3. esc'[t] = esc[t] /\ (t \notin doubt' => t \notin doubt)
  BY DEF Exchange, Shape, SlaveInv
<1>4. eep_pdi'[t] = eep_pdi[t]
  BY DEF Exchange, Control, Shape, SlaveInv
<1> QED
  BY <1>2, <1>3, <1>4

LEMMA ContentExchange ==
  ASSUME Shape, ContentInv, Exchange, UNCHANGED <<startvars, toolvars>>
  PROVE  ContentInv'
<1> DEFINE s == job.slave
           e == Effect(job, esc[s])
<1>1. /\ UNCHANGED <<Slaves, wide, rom, pc, tool>> /\ job.pc \in Frames
      /\ \A t : Settled(t)' = Settled(t)
  BY DEF Exchange, startvars, toolvars, Settled
<1>2. /\ s \in Slaves /\ DOMAIN job = JobFields /\ job.cnt \in Nat /\ job.nacks \in Nat
      /\ DOMAIN esc[s] = DOMAIN Controller /\ esc = [t \in Slaves |-> esc[t]]
  BY <1>1 DEF Shape, JobInv, SlaveInv, Frames
<1>3. /\ SameAccess(job', job)
      /\ job'.pc \in NextFrames(job) \cup {job.pc}
              \cup (IF job.pc \in {"wait", "await"} THEN {"end"} ELSE {})
  BY <1>2, ExchangeGoes
<1>4. CASE s \in doubt'
  <2>1. OwnInv'
    BY <1>1, <1>3, <1>4, OthersLeft DEF ContentInv, OwnInv, Busy, SameAccess
  <2>2. ReadyInv' /\ ReadInv'
    BY <1>3, <1>4 DEF ReadyInv, ReadInv, SameAccess
  <2>3. WriteInv'
    BY <1>1, <1>4, OthersLeft DEF ContentInv, WriteInv
  <2> QED
    BY <2>1, <2>2, <2>3 DEF ContentInv
<1>5. CASE s \notin doubt'
  <2>1. /\ doubt' = doubt /\ s \notin doubt
        /\ \/ /\ esc' = [esc EXCEPT ![s] = e] /\ job' = Answered(job, e)
              /\ ~Doubtful(job, e)
           \/ /\ esc' = [esc EXCEPT ![s] = e] \/ UNCHANGED esc
              /\ job' = Unanswered(job) /\ (Patient(job) \/ job.pc = "clear")
        /\ rewritten \subseteq rewritten'
        /\ job.pc = "command" /\ job.kind = "write" => <<s, job.addr>> \in rewritten'
    BY <1>5, Undoubted
  <2>2. esc'[s] = e \/ (esc'[s] = esc[s] /\ (job.pc = "clear" \/ job'.pc = job.pc))
    BY <1>1, <1>2, <2>1, UnansweredGoes
  <2>3. /\ e.owner = CASE job.pc = "force" -> "master"
                       [] job.pc = "claim" /\ esc[s].owner = "offered" -> "master"
                       [] job.pc = "release" /\ esc[s].owner = "master" -> "offered"
                       [] OTHER -> esc[s].owner
        /\ e.data = esc[s].data
        /\ job.pc # "command" => e.busy = esc[s].busy /\ e.cmd = esc[s].cmd /\ e.addr = esc[s].addr
        /\ job.pc \notin {"clear", "command"} => e.nack = esc[s].nack
        /\ job.pc = "command" /\ ~(esc[s].owner = "master" /\ ~esc[s].busy) => e = esc[s]
        /\ job.pc = "command" /\ esc[s].owner = "master" /\ ~esc[s].busy =>
             /\ e.busy /\ e.addr = job.addr
             /\ e.cmd = IF job.kind = "write" THEN "write" ELSE "read"
    BY <1>2, EffectKeeps
  <2>4. /\ job.pc \in {"wait", "await"} /\ job'.pc # job.pc => ~esc[s].busy
        /\ job.pc = "await" /\ job'.pc = "data" /\ job.kind # "collect" => ~esc[s].nack
        /\ job.pc = "await" /\ job.kind # "write" => job'.pc # "end"
        /\ job.pc = "wait" => job'.pc # "end"
        /\ job.pc = "data" /\ job'.pc # "data" /\ job.kind # "collect" => job'.data = e.data
        /\ job.pc = job'.pc => job.pc \in {"wait", "await"} \/ job'.cnt # 0
    <3>1. CASE job' = Answered(job, e) /\ ~Doubtful(job, e)
      <4>1. job'.pc \in NextFrames(job)
        BY <1>1, <1>2, <3>1, AnsweredGoes
      <4>2. /\ job.pc \in {"wait", "await"} /\ job'.pc # job.pc => ~e.busy
            /\ job.pc = "await" /\ job'.pc = "data" /\ job.kind # "collect" => ~e.nack
            /\ job.pc = "await" /\ job'.pc = "end" /\ job.kind # "write" => Doubtful(job, e)
            /\ job.pc = "data" /\ job.kind # "collect" => job'.data = e.data
        BY <1>1, <1>2, <3>1, AwaitGoes
      <4>3. /\ job.pc = "wait" => job'.pc # "end"
            /\ job.pc = job'.pc => job.pc \in {"wait", "await"}
        BY <1>1, <4>1 DEF NextFrames, CommandOf, Frames
      <4> QED
        BY <2>3, <3>1, <4>2, <4>3
    <3>2. CASE job' = Unanswered(job) /\ (Patient(job) \/ job.pc = "clear")
      BY <1>1, <1>2, <3>2, UnansweredGoes DEF CommandOf
    <3> QED
      BY <2>1, <3>1, <3>2
  <2>5. Settled(s)
    BY <1>1, <1>2 DEF Shape, PhaseInv, Settled, AccessPcs, NoTool, Frames
  <2>6. job.pc \in Ready /\ job.kind # "collect" => esc[s].owner = "master"
    BY <1>2, <2>1, <2>5 DEF Shape, JobInv, Ready, ContentInv, OwnInv, Busy, Frames, SlaveInv
  <2> HIDE DEF s, e
  <2>7. OwnInv'
    <3>1. eep_pdi'[s] = IF job.pc = "claim" /\ job'.pc # "claim" THEN FALSE
                        ELSE IF job.pc = "release" /\ job'.pc # "release" THEN TRUE
                        ELSE eep_pdi[s]
      BY <1>2 DEF Exchange, Control, Shape, SlaveInv, s
    <3>2. ASSUME NEW t \in Slaves \ doubt', Settled(t)', t # s
          PROVE  /\ (Busy(t)' => job'.pc \notin {"force", "claim", "release"})
                      => (eep_pdi'[t] <=> esc'[t].owner # "master")
                 /\ job'.pc = "claim" /\ job'.slave = t => esc'[t].owner = "master"
      BY <1>1, <1>3, <3>2, OthersLeft DEF ContentInv, OwnInv, Busy, SameAccess, s
    <3>3. job'.pc = "claim" => esc'[s].owner = "master"
      <4>1. job'.pc = "claim" => job.pc \in {"force", "claim"}
        BY <1>1, <1>3 DEF NextFrames, CommandOf, Frames
      <4>2. job.pc = "claim" => esc[s].owner = "master"
        BY <1>2, <2>1, <2>5 DEF ContentInv, OwnInv, s
      <4> QED
        BY <2>2, <2>3, <4>1, <4>2
    <3>4. ASSUME job'.pc \notin {"force", "claim", "release"}
          PROVE  eep_pdi'[s] <=> esc'[s].owner # "master"
      <4>1. CASE job.pc = "force"
        BY <1>3, <3>4, <4>1 DEF NextFrames
      <4>2. CASE job.pc = "claim"
        <5>1. esc[s].owner = "master" /\ eep_pdi'[s] = FALSE
          BY <1>2, <2>1, <2>5, <3>1, <3>4, <4>2 DEF ContentInv, OwnInv, s
        <5> QED
          BY <2>2, <2>3, <4>2, <5>1
      <4>3. CASE job.pc = "release"
        <5>1. esc'[s] = e /\ eep_pdi'[s] = TRUE
          BY <2>2, <3>1, <3>4, <4>3
        <5> QED
          BY <2>3, <4>3, <5>1
      <4>4. CASE job.pc \notin {"force", "claim", "release"}
        <5>1. eep_pdi[s] <=> esc[s].owner # "master"
          BY <1>2, <2>1, <2>5, <4>4 DEF ContentInv, OwnInv, s
        <5>2. esc'[s].owner = esc[s].owner /\ eep_pdi'[s] = eep_pdi[s]
          BY <2>2, <2>3, <3>1, <4>4
        <5> QED
          BY <5>1, <5>2
      <4> QED
        BY <4>1, <4>2, <4>3, <4>4
    <3> QED
      <4>1. job'.slave = s
        BY <1>3 DEF SameAccess, s
      <4>2. ASSUME NEW t \in Slaves \ doubt', Settled(t)'
            PROVE  /\ (Busy(t)' => job'.pc \notin {"force", "claim", "release"})
                        => (eep_pdi'[t] <=> esc'[t].owner # "master")
                   /\ job'.pc = "claim" /\ job'.slave = t => esc'[t].owner = "master"
        <5>1. CASE t = s
          <6>1. Busy(t)' <=> job'.pc \in Frames
            BY <4>1, <5>1 DEF Busy
          <6> QED
            BY <3>3, <3>4, <5>1, <6>1 DEF Frames
        <5>2. CASE t # s
          BY <3>2, <4>2, <5>2
        <5> QED
          BY <5>1, <5>2
      <4> QED
        BY <1>1, <4>2 DEF OwnInv
  <2>8. ReadyInv'
    BY <1>1, <1>3, <2>1, <2>2, <2>3, <2>4, <2>6 DEF ContentInv, ReadyInv, SameAccess, s, NextFrames, CommandOf, Frames
  <2>9. WriteInv'
    <3>1. ASSUME NEW t \in Slaves \ doubt', t # s PROVE ~(esc'[t].busy /\ esc'[t].cmd = "write")
      BY <1>1, <3>1, OthersLeft DEF ContentInv, WriteInv, s
    <3>2. ASSUME esc'[s].busy, esc'[s].cmd = "write"
          PROVE  /\ job'.kind = "write" /\ job'.pc \in {"command", "await"}
                 /\ <<s, esc'[s].addr>> \in rewritten'
      <4>1. job'.kind = job.kind /\ s \in Slaves \ doubt
        BY <1>2, <1>3, <2>1 DEF SameAccess, s
      <4>2. CASE job.pc = "command" /\ esc[s].owner = "master" /\ ~esc[s].busy
        <5>1. esc'[s] = e
          BY <2>2, <3>2, <4>2
        <5>2. job.kind = "write" /\ esc'[s].addr = job.addr /\ <<s, job.addr>> \in rewritten'
          BY <2>1, <2>3, <3>2, <4>2, <5>1
        <5>3. job'.pc \in {"command", "await"}
          BY <1>3, <4>2, <5>2 DEF NextFrames
        <5> QED
          BY <4>1, <5>2, <5>3
      <4>3. CASE ~(job.pc = "command" /\ esc[s].owner = "master" /\ ~esc[s].busy)
        <5>1. /\ esc'[s].busy = esc[s].busy /\ esc'[s].cmd = esc[s].cmd
              /\ esc'[s].addr = esc[s].addr
          BY <2>2, <2>3, <4>3
        <5>2. /\ job.kind = "write" /\ job.pc \in {"command", "await"}
              /\ <<s, esc[s].addr>> \in rewritten
          BY <3>2, <4>1, <5>1 DEF ContentInv, WriteInv
        <5>3. job'.pc \in {"command", "await"}
          BY <1>3, <2>4, <3>2, <5>1, <5>2 DEF NextFrames
        <5> QED
          BY <2>1, <4>1, <5>1, <5>2, <5>3
      <4> QED
        BY <4>2, <4>3
    <3> QED
      BY <1>1, <1>3, <3>1, <3>2 DEF WriteInv, SameAccess, s
  <2>10. ReadInv'
    <3> SUFFICES ASSUME job.kind = "read"
                 PROVE  /\ job'.pc = "command" /\ esc'[s].busy =>
                             esc'[s].addr = job.addr /\ esc'[s].cmd = "read"
                        /\ job'.pc = "await" =>
                             /\ esc'[s].addr = job.addr /\ esc'[s].cmd = "read"
                             /\ ~esc'[s].busy /\ ~esc'[s].nack
                                  => DataOf(s, job.addr, esc'[s].data)
                        /\ job'.pc = "data" => ~esc'[s].busy /\ DataOf(s, job.addr, esc'[s].data)
                        /\ job'.pc = "end" => DataOf(s, job.addr, job'.data)
      BY <1>1, <1>3 DEF ReadInv, DataOf, SameAccess, s
    <3>1. /\ job.pc = "command" /\ esc[s].busy => esc[s].addr = job.addr /\ esc[s].cmd = "read"
          /\ job.pc = "await" =>
               /\ esc[s].addr = job.addr /\ esc[s].cmd = "read"
               /\ ~esc[s].busy /\ ~esc[s].nack => DataOf(s, job.addr, esc[s].data)
          /\ job.pc = "data" => ~esc[s].busy /\ DataOf(s, job.addr, esc[s].data)
      BY <2>1 DEF ContentInv, ReadInv, s
    <3>2. job.pc \in {"clear", "latch"} \/ (job.pc = "command" /\ job.cnt = 0) => ~esc[s].busy
      BY <2>1 DEF ContentInv, ReadyInv, s
    <3>3. job'.pc = "command" /\ esc'[s].busy =>
            esc'[s].addr = job.addr /\ esc'[s].cmd = "read"
      <4>1. job'.pc = "command" => job.pc \in {"wait", "await", "clear", "latch", "command"}
        BY <1>1, <1>3 DEF NextFrames, CommandOf, Frames
      <4>2. CASE job.pc \in {"wait", "await", "clear", "latch"}
        BY <2>2, <2>3, <2>4, <3>2, <4>2
      <4>3. CASE job.pc = "command"
        BY <2>2, <2>3, <3>1, <4>3
      <4> QED
        BY <4>1, <4>2, <4>3
    <3>4. job'.pc = "await" =>
            /\ esc'[s].addr = job.addr /\ esc'[s].cmd = "read"
            /\ ~esc'[s].busy /\ ~esc'[s].nack => DataOf(s, job.addr, esc'[s].data)
      <4>1. job'.pc = "await" => job.pc \in {"await", "command"}
        BY <1>1, <1>3 DEF NextFrames, CommandOf, Frames
      <4>2. CASE job.pc = "await"
        BY <2>2, <2>3, <3>1, <4>2
      <4>3. CASE job.pc = "command" /\ job'.pc = "await"
        <5>1. esc'[s] = e /\ esc[s].owner = "master"
          BY <2>2, <2>6, <4>3 DEF Ready
        <5> QED
          BY <2>3, <3>1, <4>3, <5>1
      <4> QED
        BY <4>1, <4>2, <4>3
    <3>5. job'.pc = "data" => ~esc'[s].busy /\ DataOf(s, job.addr, esc'[s].data)
      <4>1. job'.pc = "data" => job.pc \in {"await", "data"}
        BY <1>1, <1>3 DEF NextFrames, CommandOf, Frames
      <4>2. CASE job.pc \in {"await", "data"}
        BY <2>2, <2>3, <2>4, <3>1, <4>2
      <4> QED
        BY <4>1, <4>2
    <3>6. job'.pc = "end" => DataOf(s, job.addr, job'.data)
      <4>1. job'.pc = "end" => job.pc = "data"
        BY <1>1, <1>3, <2>4 DEF NextFrames, CommandOf, Frames, Shape, JobInv
      <4> QED
        BY <2>3, <2>4, <3>1, <4>1
    <3> QED
      BY <3>3, <3>4, <3>5, <3>6
  <2> QED
    BY <2>7, <2>8, <2>9, <2>10 DEF ContentInv
<1> QED
  BY <1>4, <1>5

LEMMA ContentSlaves ==
  ASSUME Shape, ContentInv, EepromDone \/ PdiTakes, UNCHANGED <<startvars, toolvars>>
  PROVE  ContentInv'
<1>1. /\ UNCHANGED <<Slaves, wide, eep_pdi, job, doubt, rewritten, pc, tool>>
      /\ \A t : Settled(t)' = Settled(t)
  BY DEF EepromDone, PdiTakes, startvars, toolvars, Settled
<1>2. SlaveInv
  BY DEF Shape
<1>3. CASE EepromDone
  <2>1. PICK s \in Slaves :
           /\ esc[s].busy /\ esc'[s].busy = FALSE /\ Kept(esc'[s], esc[s])
           /\ esc' = [t \in Slaves |-> IF t = s THEN esc'[s] ELSE esc[t]]
           /\ rom' = [t \in Slaves |-> IF t = s THEN rom'[s] ELSE rom[t]]
           /\ esc[s].cmd # "write" => rom'[s] = rom[s]
           /\ esc'[s].nack \/ esc'[s].data = IF esc[s].cmd = "read" THEN ReadOf(s, esc[s])
                                                                     ELSE esc[s].data
    BY <1>2, <1>3, DoneGoes
  <2>2. \A t \in Slaves : /\ esc'[t].owner = esc[t].owner /\ (esc'[t].busy => esc[t].busy)
                          /\ esc'[t].cmd = esc[t].cmd /\ esc'[t].addr = esc[t].addr
                          /\ t # s => esc'[t] = esc[t] /\ rom'[t] = rom[t]
    BY <2>1 DEF Kept
  <2>3. OwnInv'
    BY <1>1, <2>2 DEF ContentInv, OwnInv, Busy
  <2>4. ReadyInv'
    BY <1>1, <2>2 DEF ContentInv, ReadyInv, Shape, JobInv
  <2>5. WriteInv'
    BY <1>1, <2>2 DEF ContentInv, WriteInv
  <2>6. ReadInv'
    <3> SUFFICES ASSUME job.kind = "read", job.slave \notin doubt
                 PROVE  ReadInv'
      BY <1>1 DEF ReadInv
    <3>1. /\ job.pc = "command" /\ esc[job.slave].busy =>
               esc[job.slave].addr = job.addr /\ esc[job.slave].cmd = "read"
          /\ job.pc = "await" =>
               /\ esc[job.slave].addr = job.addr /\ esc[job.slave].cmd = "read"
               /\ ~esc[job.slave].busy /\ ~esc[job.slave].nack =>
                    DataOf(job.slave, job.addr, esc[job.slave].data)
          /\ job.pc = "data" => /\ ~esc[job.slave].busy
                                /\ DataOf(job.slave, job.addr, esc[job.slave].data)
          /\ job.pc = "end" => DataOf(job.slave, job.addr, job.data)
      BY DEF ContentInv, ReadInv
    <3>2. CASE job.pc \notin {"command", "await", "data", "end"}
      BY <1>1, <3>2 DEF ReadInv
    <3>3. CASE job.pc \in {"command", "await", "data", "end"}
      <4>1. job.slave \in Slaves
        BY <3>3 DEF Shape, JobInv
      <4>2. rom'[job.slave] = rom[job.slave]
        BY <2>1, <2>2, <4>1 DEF ContentInv, WriteInv
      <4>3. \A a, d : DataOf(job.slave, a, d)' <=> DataOf(job.slave, a, d)
        BY <1>1, <4>2 DEF DataOf
      <4>4. CASE s = job.slave
        <5>1. job.pc = "await" /\ ~esc'[s].nack => DataOf(s, job.addr, esc'[s].data)
          BY <2>1, <3>1, <4>4 DEF DataOf, ReadOf
        <5> QED
          BY <1>1, <2>1, <2>2, <3>1, <4>1, <4>3, <4>4, <5>1 DEF ReadInv
      <4>5. CASE s # job.slave
        BY <1>1, <2>2, <3>1, <4>1, <4>3, <4>5 DEF ReadInv
      <4> QED
        BY <4>4, <4>5
    <3> QED
      BY <3>2, <3>3
  <2> QED
    BY <2>3, <2>4, <2>5, <2>6 DEF ContentInv
<1>4. CASE PdiTakes
  <2>1. PICK s \in Slaves :
          /\ esc[s].owner = "offered" /\ ~esc[s].busy
          /\ esc' = [t \in Slaves |-> IF t = s THEN [esc[s] EXCEPT !.owner = "pdi"] ELSE esc[t]]
    BY <1>2, <1>4, PdiGoes
  <2>2. /\ UNCHANGED rom
        /\ \A t \in Slaves : /\ esc'[t].busy = esc[t].busy /\ esc'[t].nack = esc[t].nack
                             /\ esc'[t].cmd = esc[t].cmd /\ esc'[t].addr = esc[t].addr
                             /\ esc'[t].data = esc[t].data
                             /\ esc'[t].owner = IF t = s THEN "pdi" ELSE esc[t].owner
    BY <1>2, <1>4, <2>1 DEF PdiTakes, SlaveInv, Controller
  <2>3. OwnInv'
    BY <1>1, <2>1, <2>2 DEF ContentInv, OwnInv, Busy
  <2>4. ReadyInv' /\ WriteInv'
    BY <1>1, <2>2 DEF ContentInv, ReadyInv, WriteInv, Shape, JobInv
  <2>5. ReadInv'
    BY <1>1, <2>2 DEF ContentInv, ReadInv, DataOf, Shape, JobInv
  <2> QED
    BY <2>3, <2>4, <2>5 DEF ContentInv
<1> QED
  BY <1>3, <1>4

(* Control is taken without an access, of all slaves or of one.            *)
LEMMA TakeKeeps ==
  ASSUME NEW to \in {"force", "claim"}, NEW e, DOMAIN e = DOMAIN Controller
  PROVE  LET n == Effect([NoJob EXCEPT !.pc = to], e)
         IN  /\ n.busy = e.busy /\ n.cmd = e.cmd /\ n.addr = e.addr
             /\ to = "force" \/ e.owner = "master" => n.owner = "master"
<1> DEFINE j == [NoJob EXCEPT !.pc = to]
<1>1. j.pc = to
  BY DEF NoJob
<1> HIDE DEF j
<1>2. LET n == Effect(j, e)
      IN  /\ n.busy = e.busy /\ n.cmd = e.cmd /\ n.addr = e.addr
          /\ to = "force" \/ e.owner = "master" => n.owner = "master"
  BY <1>1, EffectKeeps
<1> QED
  BY <1>2 DEF j

LEMMA ContentBroadcast ==
  ASSUME Shape, ContentInv, tool = NoTool, Broadcast, UNCHANGED toolvars
  PROVE  ContentInv'
<1>1. /\ UNCHANGED <<Slaves, wide, rom, eep_pdi, job, rewritten, tool>>
      /\ pc \in {"force", "claim"} /\ pc' = IF pc = "force" THEN "claim" ELSE "request"
  BY DEF Broadcast, toolvars
<1>2. job.pc = "idle" /\ eep_pdi = [s \in Slaves |-> FALSE]
  BY <1>1 DEF Shape, PhaseInv, AccessPcs, NoTool
<1>3. ReadyInv' /\ ReadInv'
  BY <1>1, <1>2 DEF ReadyInv, ReadInv
<1>4. CASE doubt' = Slaves
  BY <1>1, <1>3, <1>4 DEF ContentInv, OwnInv, WriteInv
<1>5. CASE /\ UNCHANGED doubt
           /\ esc' = [s \in Slaves |-> Effect([NoJob EXCEPT !.pc = pc], esc[s])]
  <2>1. \A s \in Slaves :
          /\ esc'[s].busy = esc[s].busy /\ esc'[s].cmd = esc[s].cmd /\ esc'[s].addr = esc[s].addr
          /\ pc = "force" \/ esc[s].owner = "master" => esc'[s].owner = "master"
    <3> SUFFICES ASSUME NEW s \in Slaves
                 PROVE  /\ esc'[s].busy = esc[s].busy /\ esc'[s].cmd = esc[s].cmd
                        /\ esc'[s].addr = esc[s].addr
                        /\ pc = "force" \/ esc[s].owner = "master" => esc'[s].owner = "master"
      OBVIOUS
    <3>1. esc'[s] = Effect([NoJob EXCEPT !.pc = pc], esc[s]) /\ DOMAIN esc[s] = DOMAIN Controller
      BY <1>5 DEF Shape, SlaveInv
    <3> QED
      BY <1>1, <3>1, TakeKeeps
  <2>2. WriteInv'
    BY <1>1, <1>5, <2>1 DEF ContentInv, WriteInv
  <2>3. \A s \in Slaves \ doubt : pc = "claim" => esc[s].owner = "master"
    BY <1>2 DEF ContentInv, OwnInv, Settled, Busy, Frames
  <2>4. \A s \in Slaves \ doubt : esc'[s].owner = "master"
    BY <1>1, <2>1, <2>3
  <2>5. OwnInv'
    BY <1>1, <1>2, <1>5, <2>4 DEF OwnInv
  <2> QED
    BY <1>3, <2>2, <2>5 DEF ContentInv
<1> QED
  BY <1>4, <1>5 DEF Broadcast

LEMMA ContentTake ==
  ASSUME Shape, ContentInv, tool # NoTool, TakeControl
  PROVE  ContentInv'
<1> DEFINE s == tool.slave
<1>1. /\ UNCHANGED <<Slaves, wide, rom, eep_pdi, job, rewritten, pc>>
      /\ tool.pc \in {"force", "claim"}
      /\ tool' = [tool EXCEPT !.pc = IF @ = "force" THEN "claim" ELSE "status"]
  BY DEF TakeControl, startvars
<1>2. /\ pc = "detect" /\ s \in Slaves /\ DOMAIN tool = DOMAIN NoTool
      /\ job.pc = "idle" /\ eep_pdi = [t \in Slaves |-> FALSE]
  BY <1>1 DEF Shape, PhaseInv
<1>3. tool'.slave = s /\ tool'.pc = IF tool.pc = "force" THEN "claim" ELSE "status"
  BY <1>1, <1>2 DEF NoTool
<1>4. ReadyInv' /\ ReadInv'
  BY <1>1, <1>2 DEF ReadyInv, ReadInv
<1>5. \A t \in Slaves : t # s => ~Settled(t)'
  BY <1>1, <1>2, <1>3 DEF Settled
<1>6. CASE doubt' = doubt \cup {s} /\ UNCHANGED esc
  <2>1. OwnInv'
    BY <1>1, <1>5, <1>6 DEF OwnInv
  <2>2. WriteInv'
    BY <1>1, <1>6 DEF ContentInv, WriteInv
  <2> QED
    BY <1>4, <2>1, <2>2 DEF ContentInv
<1>7. CASE /\ UNCHANGED doubt
           /\ esc' = [esc EXCEPT ![s] = Effect([NoJob EXCEPT !.pc = tool.pc], esc[s])]
  <2>1. /\ esc'[s].busy = esc[s].busy /\ esc'[s].cmd = esc[s].cmd /\ esc'[s].addr = esc[s].addr
        /\ tool.pc = "force" \/ esc[s].owner = "master" => esc'[s].owner = "master"
    BY <1>1, <1>2, <1>7, TakeKeeps DEF Shape, SlaveInv
  <2>2. \A t \in Slaves : t # s => esc'[t] = esc[t]
    BY <1>2, <1>7 DEF Shape, SlaveInv
  <2>3. WriteInv'
    BY <1>1, <1>7, <2>1, <2>2 DEF ContentInv, WriteInv
  <2>4. s \notin doubt => esc'[s].owner = "master"
    BY <1>1, <1>2, <2>1 DEF ContentInv, OwnInv, Settled, Busy, Frames
  <2>5. OwnInv'
    BY <1>1, <1>2, <1>5, <1>7, <2>4 DEF OwnInv
  <2> QED
    BY <1>4, <2>3, <2>5 DEF ContentInv
<1> QED
  BY <1>6, <1>7 DEF TakeControl

(* The other steps leave the EEPROMs alone.                                *)
LEMMA ContentStep ==
  ASSUME Shape, ContentInv, [BothNext]_allvars
  PROVE  ContentInv'
<1>1. CASE EepromDone /\ UNCHANGED <<startvars, toolvars>>
  BY <1>1, ContentSlaves
<1>2. CASE PdiTakes /\ UNCHANGED <<startvars, toolvars>>
  BY <1>2, ContentSlaves
<1>3. CASE Exchange /\ UNCHANGED <<startvars, toolvars>>
  BY <1>3, ContentExchange
<1>4. CASE tool = NoTool /\ Broadcast /\ UNCHANGED toolvars
  BY <1>4, ContentBroadcast
<1>5. CASE tool # NoTool /\ TakeControl
  BY <1>5, ContentTake
<1> DEFINE Rest ==
      \/ Detect \/ BeginAccess \/ EndAccess \/ ReadTopology \/ Lookup \/ BeginSection
      \/ EndSection \/ ConfigDc \/ Sync \/ EndCall \/ BeginCall \/ PlugIn
      \/ (GetCached \/ GetUncached \/ EnterCache \/ Restore) /\ UNCHANGED startvars
<1>6. CASE tool = NoTool /\ Rest /\ UNCHANGED toolvars
  <2>1. UNCHANGED <<Slaves, wide, esc, rom, eep_pdi, doubt, rewritten, tool>>
    BY <1>6 DEF Detect, BeginAccess, EndAccess, ReadTopology, Lookup, BeginSection, EndSection,
                ConfigDc, Sync, EndCall, BeginCall, PlugIn, GetCached, GetUncached, EnterCache,
                Restore, siivars, toolvars
  <2>2. pc' \notin {"detect", "force", "stopped"} => pc \notin {"detect", "force", "stopped"}
    BY <1>6 DEF Detect, BeginAccess, EndAccess, ReadTopology, Lookup, BeginSection, EndSection,
                ConfigDc, Sync, EndCall, BeginCall, PlugIn, GetCached, GetUncached, EnterCache,
                Restore, startvars, AccessPcs, Idle, Returning
  <2>3. \A s \in Slaves : Settled(s)' => Settled(s)
    BY <2>1, <2>2 DEF Settled
  <2>4. job' = job \/ (job.pc \in Rests /\ Begins(job'))
    <3>1. CASE \/ Detect \/ ReadTopology \/ Lookup \/ BeginSection \/ EndSection \/ ConfigDc
               \/ Sync \/ PlugIn \/ GetCached
      BY <3>1 DEF Detect, ReadTopology, Lookup, BeginSection, EndSection, ConfigDc, Sync, PlugIn,
                  GetCached, siivars
    <3>2. CASE EndAccess \/ EndCall \/ EnterCache
      <4>1. job' = job \/ (job.pc \in Rests /\ job' = NoJob)
        <5>1. CASE EndAccess \/ EnterCache
          BY <5>1 DEF EndAccess, EnterCache, Rests
        <5>2. CASE EndCall
          <6>1. IF call.op = "find" THEN find.pc = "end" ELSE job.pc = "end"
            BY <5>2 DEF EndCall, Returning
          <6>2. job.pc \in Rests
            BY <6>1 DEF Shape, FindInv, Rests
          <6> QED
            BY <5>2, <6>2 DEF EndCall
        <5> QED
          BY <3>2, <5>1, <5>2
      <4> QED
        BY <4>1 DEF Begins, NoJob
    <3>3. ASSUME NEW kind \in Kinds, NEW s, NEW addr, NEW val, job' = Begin(kind, s, addr, val)
          PROVE  Begins(job')
      <4>1. eep_pdi[s] \/ ~eep_pdi[s]
        OBVIOUS
      <4> QED
        BY <3>3, <4>1, BeginGoes DEF Begins, Kinds
    <3>4. CASE BeginAccess
      <4>1. /\ Wanted # << >> /\ job.pc = "idle"
            /\ job' = Begin(Wanted[1], slave, Wanted[2], 0)
        BY <3>4 DEF BeginAccess
      <4>2. Wanted[1] \in Kinds
        BY <4>1 DEF Wanted, Kinds
      <4> QED
        BY <3>3, <4>1, <4>2 DEF Rests
    <3>5. CASE BeginCall
      <4>1. job.pc = "idle"
        BY <1>6, <3>5 DEF BeginCall, Idle, Shape, PhaseInv, NoCall, NoTool, AccessPcs
      <4>2. \/ job' = job
            \/ \E op \in {"read", "write"} : \E s, a : job' = Begin(op, s, a, 7)
        BY <3>5 DEF BeginCall
      <4> QED
        BY <3>3, <4>1, <4>2 DEF Rests, Kinds
    <3>6. CASE GetUncached \/ Restore
      <4>1. \/ job' = NoJob /\ job.pc \in Rests
            \/ job.pc = "idle" /\ \E kind \in Kinds : \E s, a : job' = Begin(kind, s, a, 0)
        <5>1. CASE GetUncached
          BY <5>1 DEF GetUncached, Reading, Kinds
        <5>2. CASE Restore
          BY <5>2 DEF Restore, Rests, Kinds
        <5> QED
          BY <3>6, <5>1, <5>2
      <4> QED
        BY <3>3, <4>1 DEF Rests, Begins, NoJob
    <3> QED
      BY <1>6, <3>1, <3>2, <3>4, <3>5, <3>6
  <2> QED
    BY <2>1, <2>3, <2>4, ContentQuiet
<1>7. CASE tool = NoTool /\ StartAgain /\ UNCHANGED toolvars
  <2>1. job.pc = "idle"
    BY <1>7 DEF StartAgain, Idle, Shape, PhaseInv, NoCall, AccessPcs, NoTool
  <2>2. UNCHANGED <<Slaves, wide, esc, rom, doubt, job, tool>> /\ pc' = "detect"
    BY <1>7 DEF StartAgain, Proceed, toolvars
  <2>3. \A s \in Slaves : ~Settled(s)'
    BY <1>7, <2>2 DEF Settled, NoTool
  <2>4. OwnInv' /\ ReadyInv' /\ WriteInv' /\ ReadInv'
    BY <2>1, <2>2, <2>3 DEF ContentInv, OwnInv, ReadyInv, WriteInv, ReadInv
  <2> QED
    BY <2>4 DEF ContentInv
<1>8. CASE tool # NoTool /\ (ReadStatus \/ ToolBegins \/ ToolEnds)
  <2>1. /\ UNCHANGED <<Slaves, wide, esc, rom, eep_pdi, doubt, rewritten, pc>>
        /\ pc = "detect" /\ DOMAIN tool = DOMAIN NoTool /\ tool.slave \in Slaves
        /\ tool.pass \in Passes
    BY <1>8 DEF ReadStatus, ToolBegins, ToolEnds, startvars, Shape, PhaseInv
  <2>2. \A s \in Slaves : Settled(s)' => Settled(s)
    <3>1. CASE ReadStatus
      <4>1. \E i : tool' = [tool EXCEPT !.pc = "access", !.inc = i]
        BY <3>1 DEF ReadStatus
      <4>2. tool'.slave = tool.slave /\ tool.pc = "status"
        BY <2>1, <3>1, <4>1 DEF ReadStatus, NoTool
      <4> QED
        BY <2>1, <4>2 DEF Settled
    <3>2. CASE ToolBegins
      BY <2>1, <3>2 DEF Settled, ToolBegins, toolvars
    <3>3. CASE ToolEnds
      <4>1. tool' = Continued(tool, ebuf', job.ok) /\ tool.pc = "access"
        BY <3>3 DEF ToolEnds
      <4>2. tool'.slave = tool.slave
        BY <2>1, <4>1, ToolGoes
      <4> QED
        BY <2>1, <4>1, <4>2 DEF Settled
    <3> QED
      BY <1>8, <3>1, <3>2, <3>3
  <2>3. job' = job \/ (job.pc \in Rests /\ Begins(job'))
    <3>1. CASE ToolBegins
      <4>1. job' = Access /\ job.pc = "idle"
        BY <3>1 DEF ToolBegins
      <4>2. job'.pc = "wait"
        BY <2>1, <4>1 DEF Access, IsRead, Passes, readeepromAP, writeeepromAP, NoJob
      <4> QED
        BY <4>1, <4>2 DEF Rests, Begins
    <3>2. CASE ReadStatus \/ ToolEnds
      BY <3>2 DEF ReadStatus, ToolEnds, Rests, Begins, NoJob
    <3> QED
      BY <1>8, <3>1, <3>2
  <2> QED
    BY <2>1, <2>2, <2>3, ContentQuiet
<1>9. CASE UNCHANGED allvars
  <2>1. UNCHANGED <<Slaves, wide, esc, rom, eep_pdi, doubt, rewritten, job, pc, tool>>
    BY <1>9 DEF allvars, vars, siivars, startvars, toolvars
  <2>2. \A s \in Slaves : Settled(s)' => Settled(s)
    BY <2>1 DEF Settled
  <2> QED
    BY <2>1, <2>2, ContentQuiet
<1> QED
  BY <1>1, <1>2, <1>3, <1>4, <1>5, <1>6, <1>7, <1>8, <1>9 DEF BothNext, ToolNext, Next, Master
-----------------------------------------------------------------------------
(* The cache and the control.                                              *)
LEMMA CacheKept ==
  ASSUME CacheIsOfSlave, UNCHANGED <<Slaves, rom, cachevars>>,
         Slaves \ doubt' \subseteq Slaves \ doubt, rewritten \subseteq rewritten'
  PROVE  CacheIsOfSlave'
BY DEF CacheIsOfSlave, cachevars

LEMMA CacheDone ==
  ASSUME Shape, ContentInv, CacheIsOfSlave, EepromDone
  PROVE  CacheIsOfSlave'
<1>1. PICK s \in Slaves :
        /\ esc[s].busy
        /\ rom' = [t \in Slaves |-> IF t = s THEN rom'[s] ELSE rom[t]]
        /\ \A c \in Cells : (esc[s].cmd = "write" /\ c = esc[s].addr) \/ rom'[s][c] = rom[s][c]
  BY DoneGoes DEF Shape
<1>2. UNCHANGED <<Slaves, esislave, esimap, esibuf, doubt, rewritten>> /\ esimap \subseteq Cells
  BY DEF EepromDone, cachevars, Shape, SlaveInv
<1> SUFFICES ASSUME esislave \in Slaves \ doubt, NEW c \in esimap
             PROVE  <<esislave, c>> \in rewritten \/ esibuf[c] = rom'[esislave][c]
  BY <1>2 DEF CacheIsOfSlave
<1>3. <<esislave, c>> \in rewritten \/ esibuf[c] = rom[esislave][c]
  BY DEF CacheIsOfSlave
<1>4. CASE s = esislave /\ esc[s].cmd = "write" /\ c = esc[s].addr
  BY <1>1, <1>4 DEF ContentInv, WriteInv
<1>5. CASE ~(s = esislave /\ esc[s].cmd = "write" /\ c = esc[s].addr)
  BY <1>1, <1>2, <1>3, <1>5
<1> QED
  BY <1>4, <1>5

(* What a search enters in the cache is what it has just read.             *)
LEMMA CacheEnter ==
  ASSUME Shape, ContentInv, CacheIsOfSlave, EnterCache
  PROVE  CacheIsOfSlave'
<1>1. /\ UNCHANGED <<Slaves, wide, rom, doubt, rewritten, esislave>>
      /\ find.pc \in {"header", "content"} /\ job.pc = "end"
      /\ esimap' = esimap \cup Read8(find.slave, find.a)
      /\ esibuf' = [d \in Cells |-> IF d \in Read8(find.slave, find.a)
                                    THEN job.data[d - find.a + 1] ELSE esibuf[d]]
  BY DEF EnterCache, Fill
<1>2. /\ job.kind = "read" /\ job.slave = find.slave /\ job.addr = find.a
      /\ find.a \in Cells /\ esislave = find.slave /\ esimap \subseteq Cells
  BY <1>1 DEF Shape, FindInv, SlaveInv
<1> SUFFICES ASSUME esislave \in Slaves \ doubt, NEW c \in esimap'
             PROVE  <<esislave, c>> \in rewritten \/ esibuf'[c] = rom[esislave][c]
  BY <1>1 DEF CacheIsOfSlave
<1>3. /\ job.data[1] = rom[esislave][find.a]
      /\ wide[esislave] => job.data[2] = Beyond(rom[esislave], find.a + 1)
  BY <1>1, <1>2 DEF ContentInv, ReadInv, DataOf
<1>4. CASE c \in Read8(find.slave, find.a)
  <2>1. c \in Cells /\ esibuf'[c] = job.data[c - find.a + 1]
    BY <1>1, <1>2, <1>4 DEF Read8
  <2>2. CASE c = find.a
    BY <1>2, <1>3, <2>1, <2>2 DEF Cells
  <2>3. CASE c = find.a + 1 /\ wide[esislave]
    <3>1. c - find.a + 1 = 2
      BY <1>2, <2>3 DEF Cells
    <3> QED
      BY <1>3, <2>1, <2>3, <3>1 DEF Beyond
  <2> QED
    BY <1>2, <1>4, <2>2, <2>3 DEF Read8
<1>5. CASE c \notin Read8(find.slave, find.a)
  BY <1>1, <1>2, <1>5 DEF CacheIsOfSlave
<1> QED
  BY <1>4, <1>5

LEMMA CacheStep ==
  ASSUME Shape, ContentInv, CacheIsOfSlave, [BothNext]_allvars
  PROVE  CacheIsOfSlave'
<1>1. CASE EepromDone
  BY <1>1, CacheDone
<1>2. CASE EnterCache
  BY <1>2, CacheEnter
<1>3. CASE GetCached \/ GetUncached
  BY <1>3 DEF GetCached, GetUncached, ClearFor, CacheIsOfSlave
<1>4. CASE StartAgain
  BY <1>4 DEF StartAgain, ClearFor, CacheIsOfSlave, Shape, SlaveInv
<1>5. CASE \/ Detect \/ Broadcast \/ BeginAccess \/ EndAccess \/ ReadTopology \/ Lookup
           \/ BeginSection \/ EndSection \/ ConfigDc \/ Sync \/ EndCall \/ BeginCall \/ PlugIn
           \/ Exchange \/ Restore \/ PdiTakes \/ TakeControl \/ ReadStatus \/ ToolBegins
           \/ ToolEnds \/ UNCHANGED allvars
  <2>1. /\ UNCHANGED <<Slaves, rom, cachevars>>
        /\ Slaves \ doubt' \subseteq Slaves \ doubt /\ rewritten \subseteq rewritten'
    <3>1. CASE Broadcast
      BY <3>1 DEF Broadcast
    <3>2. CASE Exchange
      BY <3>2 DEF Exchange
    <3>3. CASE ~Broadcast /\ ~Exchange
      BY <1>5, <3>3 DEF Detect, BeginAccess, EndAccess, ReadTopology, Lookup, BeginSection,
           EndSection, ConfigDc, Sync, EndCall, BeginCall, PlugIn, Restore, PdiTakes,
           TakeControl, ReadStatus, ToolBegins, ToolEnds, allvars, vars, siivars
    <3> QED
      BY <3>1, <3>2, <3>3
  <2> QED
    BY <2>1, CacheKept
<1> QED
  BY <1>1, <1>2, <1>3, <1>4, <1>5 DEF BothNext, ToolNext, Next, Master

(* The invariant holds through the start, the topology, the reading of the *)
(* EEPROMs, the caches and the commands of eepromtool, whatever commands a *)
(* slave refuses and however busy it is.                                   *)
THEOREM InvariantHolds == BothSpec => []IInv
<1>1. ToolInit => IInv
  <2> SUFFICES ASSUME ToolInit PROVE IInv
    OBVIOUS
  <2>1. Shape
    BY ShapeInit
  <2>2. /\ job = NoJob /\ esislave = 0 /\ pc = "detect" /\ doubt = {}
        /\ \A s \in Slaves : ~esc[s].busy
    <3>1. PICK owner \in {"master", "pdi"} :
            /\ esc = [s \in Slaves |-> [Controller EXCEPT !.owner = owner]]
            /\ InitSii /\ pc = "detect"
      BY DEF ToolInit, Init
    <3>2. [Controller EXCEPT !.owner = owner].busy = FALSE
      BY DEF Controller
    <3> QED
      BY <3>1, <3>2 DEF InitSii
  <2>3. ContentInv
    <3>1. OwnInv
      <4>1. \A s \in Slaves : ~Settled(s)
        <5>1. tool.pc \in {"none", "force"}
          <6>1. CASE tool = NoTool
            BY <6>1 DEF NoTool
          <6>2. CASE tool # NoTool
            <7>1. PICK m \in Modes, s \in Slaves :
                    tool = [NoTool EXCEPT !.pc = "force", !.mode = m, !.slave = s,
                                          !.pass = IF m = "write" THEN "write" ELSE "info"]
              BY <6>2 DEF ToolInit
            <7> QED
              BY <7>1 DEF NoTool
          <6> QED
            BY <6>1, <6>2
        <5> QED
          BY <2>2, <5>1 DEF Settled
      <4> QED
        BY <4>1 DEF OwnInv
    <3>2. ReadyInv /\ WriteInv /\ ReadInv
      BY <2>2 DEF ReadyInv, WriteInv, ReadInv, NoJob
    <3> QED
      BY <3>1, <3>2 DEF ContentInv
  <2>4. CacheIsOfSlave
    BY <2>1, <2>2 DEF CacheIsOfSlave, Shape, SlaveInv
  <2> QED
    BY <2>1, <2>3, <2>4 DEF IInv
<1>2. IInv /\ [BothNext]_allvars => IInv'
  BY ShapeStep, ContentStep, CacheStep DEF IInv
<1> QED
  BY <1>1, <1>2, PTL DEF BothSpec

(* What the search for sections reads from its cache is what is in the     *)
(* EEPROM of the slave it searches, over any sequence of searches, starts  *)
(* and writes, unless an access to that slave was given up or the cell was *)
(* written since: ecx_siigetbyte, for any slaves, contents and faults.     *)
THEOREM CacheIsRight == BothSpec => []CacheIsOfSlave
<1>1. IInv => CacheIsOfSlave
  BY DEF IInv
<1> QED
  BY <1>1, InvariantHolds, PTL

(* Commands are given only to an EEPROM the master controls and that is    *)
(* not busy, and the control of an EEPROM that was with the processor of   *)
(* the slave before a search is there after it: ecx_eeprom2master and      *)
(* ecx_eeprom2pdi, for any slaves and faults.                              *)
THEOREM ControlIsKept == BothSpec => []ControlKept
<1>1. IInv => ControlKept
  <2> SUFFICES ASSUME IInv PROVE ControlKept
    OBVIOUS
  <2>1. InControl
    <3> SUFFICES ASSUME job.pc \in {"latch", "command"}, job.cnt = 0, job.slave \notin doubt
                 PROVE  esc[job.slave].owner = "master" /\ ~esc[job.slave].busy
      BY DEF InControl
    <3>1. job.slave \in Slaves /\ ~eep_pdi[job.slave]
      BY DEF IInv, Shape, JobInv, Frames, Ready
    <3>2. Settled(job.slave)
      BY <3>1 DEF IInv, Shape, PhaseInv, Settled, AccessPcs, NoTool
    <3>3. esc[job.slave].owner = "master"
      BY <3>1, <3>2 DEF IInv, ContentInv, OwnInv
    <3> QED
      BY <3>3 DEF IInv, ContentInv, ReadyInv
  <2>2. Idle => \A s \in Slaves \ doubt : eep_pdi[s] <=> esc[s].owner # "master"
    <3> SUFFICES ASSUME Idle, NEW s \in Slaves \ doubt
                 PROVE  eep_pdi[s] <=> esc[s].owner # "master"
      OBVIOUS
    <3>1. Settled(s) /\ job.pc = "idle"
      BY DEF IInv, Shape, PhaseInv, Idle, Settled, NoCall, NoTool, AccessPcs
    <3> QED
      BY <3>1 DEF IInv, ContentInv, OwnInv, Busy, Frames
  <2>3. Returning /\ call.op = "find" => eep_pdi[call.slave] = call.pdi
    BY DEF IInv, Shape, FindInv, PhaseInv, SlaveInv, Returning
  <2> QED
    BY <2>1, <2>2, <2>3 DEF ControlKept, ControlReturned
<1> QED
  BY <1>1, InvariantHolds, PTL
-----------------------------------------------------------------------------
(* What the EEPROMs hold and what the master has of it.  To the invariant  *)
(* above belongs what the access, the search and the tool under way are    *)
(* for; with no access given up, what is read, written and found is right. *)

(* The records of the slaves, and where ecx_config_init is. *)
Fields(l) == [s \in Slaves |-> l[s].field]
Sects(l) == [s \in Slaves |-> l[s].sect]
Listed(l) ==
  /\ l = [s \in Slaves |-> l[s]]
  /\ \A s \in Slaves : /\ DOMAIN l[s] = DOMAIN NoEntry
                       /\ DOMAIN l[s].field = Manuf .. MbxProto
                       /\ DOMAIN l[s].sect = 1 .. Len(Categories)
EntryInv ==
  /\ Listed(list)
  /\ \A s \in Slaves : rom[s] = [c \in Cells |-> rom[s][c]]
  /\ \A s \in Slaves, c \in Cells : rom[s][c] = <<rom[s][c][1], rom[s][c][2]>>
                                    /\ rom[s][c][2] \in Nat

RoundInv ==
  /\ pc \in {"detect", "force", "claim"} => slave = 1 /\ round = 0
  /\ pc = "request" => round \in 0 .. Len(Rounds)
  /\ pc = "collect" => round \in 1 .. Len(Rounds)
  /\ pc = "section" => round \in 1 .. Len(Categories)

(* Who has the access and the search under way, and what they are for. *)
PurposeInv ==
  /\ job.pc = "idle" => job = NoJob
  /\ pc \in AccessPcs /\ job.pc # "idle" =>
       job.kind = Wanted[1] /\ job.addr = Wanted[2] /\ job.slave = slave
  /\ pc = "run" /\ call.op \in {"read", "write"} =>
       /\ job.kind = call.op /\ job.slave = call.slave
       /\ job.addr = call.addr /\ job.val = call.val
       /\ call.addr \in {FirstSection, FirstSection + 1}
  /\ find.pc # "idle" => find.cat # End[1]
  /\ pc = "section" /\ find.pc # "idle" =>
       find.slave = slave /\ find.cat = Categories[round]
  /\ pc = "run" /\ call.op = "find" => find.cat = call.addr
  /\ tool = NoTool /\ pc # "run" => rewritten = {}
  /\ tool # NoTool /\ job.pc # "idle" =>
       job.kind = Access.kind /\ job.addr = Access.addr /\ job.val = Access.val

(* A write puts its word where it should, *)
WrittenInv ==
  job.kind = "write" /\ job.slave \notin doubt =>
    LET e == esc[job.slave]
        meant == e.addr = job.addr /\ e.cmd = "write" /\ e.latch = job.val
        there == rom[job.slave][job.addr][1] = job.val
    IN  /\ job.pc # "data"
        /\ job.pc = "command" => e.latch = job.val /\ (e.busy => meant)
        /\ job.pc = "await" => meant /\ (~e.busy /\ ~e.nack => there)
        /\ job.pc = "end" => there

(* and a read that was requested ends with the content.                    *)
Outstanding(s, a) == /\ esc[s].addr = a /\ esc[s].cmd = "read"
                     /\ ~esc[s].busy /\ ~esc[s].nack => esc[s].data[1] = rom[s][a]

Sound == doubt = {} /\ tool = NoTool

AskedInv ==
  Sound =>
    LET e == esc[job.slave]
    IN  /\ job.kind = "request" =>
             /\ job.pc \notin {"await", "data"}
             /\ job.pc = "command" /\ e.busy => e.addr = job.addr /\ e.cmd = "read"
             /\ job.pc = "end" => Outstanding(job.slave, job.addr)
        /\ job.kind = "collect" =>
             /\ job.pc = "wait" => Outstanding(job.slave, job.addr)
             /\ job.pc = "data" => ~e.busy /\ e.data[1] = rom[job.slave][job.addr]
             /\ job.pc = "end" => job.data[1] = rom[job.slave][job.addr]

(* The cells asked of the slaves and not collected yet. *)
Mail(s, c) == IF HasMailbox(s) THEN {c} ELSE {}
NextAsked(s) == IF round < Len(Rounds) THEN {Rounds[round + 1]} ELSE Mail(s, TxMbx)
LastAsked == IF round = 0 THEN {} ELSE {Rounds[round]}

Due(s) ==
  CASE pc = "request" -> (IF s < slave THEN NextAsked(s) ELSE {})
                         \cup (IF s > slave THEN LastAsked ELSE {})
    [] pc = "collect" -> IF s < slave THEN NextAsked(s) ELSE LastAsked
    [] pc = "tx" -> IF s >= slave THEN Mail(s, TxMbx) ELSE {}
    [] pc \in {"topology", "proto"} -> (IF s > slave THEN Mail(s, TxMbx) ELSE {})
                                       \cup (IF s = slave THEN Mail(s, MbxProto) ELSE {})
    [] pc \in {"txdone", "lookup", "section", "pdi"} ->
         IF s > slave THEN Mail(s, TxMbx) ELSE {}
    [] OTHER -> {}

DueInv == Sound => \A s \in Slaves : \A a \in Due(s) : Outstanding(s, a)

(* What has been collected and found of each slave. *)
Later == {"tx", "txdone", "topology", "proto", "lookup", "section", "pdi", "dc"}
Past(s, pcs) == pc = "dc" \/ (pc \in Later /\ s < slave) \/ (pc \in pcs /\ s = slave)
Collected(s, k) == \/ pc \in Later
                   \/ pc \in {"request", "collect"} /\ k < round
                   \/ pc = "collect" /\ k = round /\ s < slave
                   \/ pc = "request" /\ k = round /\ s <= slave

FieldInv ==
  Sound => \A s \in Slaves :
    /\ \A k \in 1 .. Len(Rounds) :
         Collected(s, k) => list[s].field[Rounds[k]] = rom[s][Rounds[k]]
    /\ HasMailbox(s) /\ Past(s, Later \ {"tx"}) => list[s].field[TxMbx][1] = rom[s][TxMbx][1]
    /\ HasMailbox(s) /\ Past(s, {"lookup", "section", "pdi"}) =>
         list[s].field[MbxProto] = rom[s][MbxProto]

SectInv ==
  Sound =>
    /\ \A s \in Slaves, k \in 1 .. Len(Categories) :
         Past(s, {"pdi"}) \/ (pc = "section" /\ s = slave /\ k < round)
           => list[s].sect[k] = Content(FirstLike(s), Categories[k])
    /\ pc = "section" => FirstLike(slave) = slave

(* A search goes from section to section and passes none of its category. *)
Untouched(s) == s \notin doubt /\ \A c \in Cells : <<s, c>> \notin rewritten
Passed(r, cat, a) ==
  /\ a \in Nat /\ FirstSection <= a
  /\ a \in SectionCells => a \in SectionsOf(r)
  /\ \A c \in SectionsOf(r) : c < a => /\ r[c][1] \notin {cat, End[1]}
                                       /\ NextSection(c, r[c][2]) <= a

WalkInv ==
  find.pc # "idle" /\ Untouched(find.slave) =>
    LET r == rom[find.slave]
        first == FirstOf(r, find.cat)
    IN  /\ find.pc = "header" => find.more /\ find.val = Zero /\ Passed(r, find.cat, find.a)
        /\ find.pc = "restore" /\ find.more => find.found = first /\ first # 0
        /\ find.pc = "content" => find.more /\ find.a = first + 1 /\ first # 0
        /\ find.pc = "restore" /\ ~find.more => find.val = Content(find.slave, find.cat)
        /\ find.pc = "end" => ~find.more /\ find.val = Content(find.slave, find.cat)

(* How far eepromtool is. *)
PassesOf(mode) == CASE mode = "read" -> {"info", "rest"}
                    [] mode = "write" -> {"write"}
                    [] mode = "alias" -> {"info", "alias", "crc"}

ToolPlace ==
  /\ tool.mode \in {"read", "write", "alias"} /\ tool.pass \in PassesOf(tool.mode)
  /\ tool.inc \in {1, 2} /\ tool.at \in 0 .. LastOf(tool.pass)
  /\ tool.pass = "rest" => InfoLast < LastCell
  /\ tool.pc # "done" => tool.ok = FALSE
  /\ tool.mode = "alias" /\ tool.pass = "info" => tool.pc # "done"
  /\ tool.pc = "access" /\ tool.inc = 2 => wide[tool.slave] /\ IsRead
  /\ DOMAIN ebuf = Cells
  /\ tool.mode = "write" => \A c \in Cells : ebuf[c] = <<Word, Word>>

ToolProgress ==
  LET r == rom[tool.slave]
      head == [ebuf EXCEPT ![AliasCell][1] = Word]
  IN  /\ IsRead /\ tool.pc # "done" => \A c \in 0 .. tool.at - 1 : ebuf[c] = r[c]
      /\ tool.mode = "read" /\ tool.pc = "done" =>
           \A c \in 0 .. LastOf(tool.pass) : ebuf[c] = r[c]
      /\ tool.pass = "write" =>
           \A c \in Cells : c < tool.at \/ tool.pc = "done" => r[c][1] = Word
      /\ tool.pass \in {"alias", "crc"} =>
           /\ tool.crc = SIIcrc(head)
           /\ \A c \in 0 .. CrcCell - 1 : c # AliasCell => ebuf[c] = r[c]
           /\ ebuf[AliasCell] = <<ebuf[AliasCell][1], r[AliasCell][2]>>
      /\ tool.pass = "alias" => ~tool.ok
      /\ tool.pass = "crc" => /\ r[AliasCell][1] = Word
                              /\ tool.pc = "done" => r[CrcCell][1] = tool.crc

ToolInv == tool # NoTool => ToolPlace /\ (tool.slave \notin doubt => ToolProgress)

PlaceInv == EntryInv /\ RoundInv /\ PurposeInv
WorkInv == WrittenInv /\ AskedInv /\ DueInv
KnownInv == FieldInv /\ SectInv /\ WalkInv
RInv == PlaceInv /\ WorkInv /\ KnownInv /\ ToolInv

(* A non-empty set of naturals has a least element. *)
LEMMA MinIsLeast ==
  ASSUME NEW S, S \subseteq Nat, S # {}
  PROVE  Min(S) \in S /\ \A y \in S : Min(S) <= y
<1> DEFINE R == OpToRel(<, Nat)
<1>1. IsWellFoundedOn(R, Nat)
  BY NatLessThanWellFounded
<1>2. \A j \in Nat, k \in Nat : <<j, k>> \in R <=> j < k
  BY DEF OpToRel
<1> HIDE DEF R
<1>3. PICK k \in S : \A j \in S : ~(<<j, k>> \in R)
  BY <1>1, WFMin
<1>4. \A j \in S : ~(j < k)
  BY <1>2, <1>3
<1>5. \A j \in S : k <= j
  BY <1>4
<1> QED
  BY <1>5 DEF Min

(* The sections of an EEPROM, and a search that goes along them. *)
LEMMA SectionCellsAre ==
  /\ SectionCells \subseteq Cells /\ SectionCells \subseteq Nat /\ 0 \notin SectionCells
  /\ FirstSection \in SectionCells /\ FirstSection + 1 \in Cells
  /\ FirstSection \in Nat /\ LastCell \in Nat
BY SiiAssumption DEF SectionCells, Cells

LEMMA FirstIsSection == ASSUME NEW r PROVE FirstSection \in SectionsOf(r)
BY SectionCellsAre DEF SectionsOf, Chain

LEMMA NextIsSection ==
  ASSUME NEW r, NEW c \in SectionsOf(r), r[c][1] # End[1],
         NextSection(c, r[c][2]) \in SectionCells
  PROVE  NextSection(c, r[c][2]) \in SectionsOf(r)
BY DEF SectionsOf, Chain

LEMMA NothingBetween ==
  ASSUME NEW r, NEW cat, NEW a \in SectionCells, Passed(r, cat, a),
         \A c \in Cells : r[c][2] \in Nat
  PROVE  \A d \in SectionsOf(r) :
           d <= a \/ (r[a][1] # End[1] /\ d >= NextSection(a, r[a][2]))
<1> DEFINE after == {d \in SectionCells : r[a][1] # End[1] /\ d >= NextSection(a, r[a][2])}
           set == {d \in SectionsOf(r) : d <= a} \cup after
<1>1. set \in SUBSET SectionCells
  BY DEF SectionsOf
<1>2. FirstSection \in set
  BY FirstIsSection DEF Passed
<1>3. ASSUME NEW c \in set, r[c][1] # End[1], NextSection(c, r[c][2]) \in SectionCells
      PROVE  NextSection(c, r[c][2]) \in set
  <2>1. c \in Nat /\ r[c][2] \in Nat
    BY <1>1, SectionCellsAre
  <2>2. CASE c \in after
    <3>1. NextSection(c, r[c][2]) >= c
      BY <2>1 DEF NextSection
    <3>2. a \in Nat /\ r[a][2] \in Nat
      BY SectionCellsAre
    <3> QED
      BY <1>3, <2>1, <2>2, <3>1, <3>2 DEF NextSection
  <2>3. CASE c \in SectionsOf(r) /\ c < a
    BY <1>3, <2>3, NextIsSection DEF Passed
  <2>4. CASE c = a
    <3>1. a \in Nat /\ r[a][2] \in Nat
      BY SectionCellsAre
    <3> QED
      BY <1>3, <2>4, <3>1 DEF NextSection
  <2>5. a \in Nat
    BY SectionCellsAre
  <2> QED
    BY <2>1, <2>2, <2>3, <2>4, <2>5
<1>4. Chain(r, set)
  BY <1>2, <1>3 DEF Chain
<1>5. \A d \in SectionsOf(r) : d \in set
  BY <1>1, <1>4 DEF SectionsOf
<1> QED
  BY <1>5

LEMMA PassedNext ==
  ASSUME NEW r, NEW cat, NEW a \in SectionCells, Passed(r, cat, a),
         \A c \in Cells : r[c][2] \in Nat, r[a][1] \notin {cat, End[1]}
  PROVE  Passed(r, cat, NextSection(a, r[a][2]))
<1> DEFINE n == NextSection(a, r[a][2])
<1>1. a \in Nat /\ r[a][2] \in Nat /\ n \in Nat /\ a < n
  BY SectionCellsAre DEF NextSection
<1>2. a \in SectionsOf(r)
  BY DEF Passed
<1>3. n \in SectionCells => n \in SectionsOf(r)
  BY <1>2, NextIsSection
<1>4. ASSUME NEW c \in SectionsOf(r), c < n
      PROVE  r[c][1] \notin {cat, End[1]} /\ NextSection(c, r[c][2]) <= n
  <2>1. c \in Nat /\ r[c][2] \in Nat
    BY SectionCellsAre DEF SectionsOf
  <2>2. c <= a
    BY <1>1, <1>4, <2>1, NothingBetween
  <2>3. CASE c < a
    <3>1. NextSection(c, r[c][2]) \in Nat
      BY <2>1 DEF NextSection
    <3> QED
      BY <1>1, <2>1, <2>3, <3>1 DEF Passed
  <2>4. CASE c = a
    BY <1>1, <2>4
  <2> QED
    BY <1>1, <2>1, <2>2, <2>3, <2>4
<1>5. FirstSection <= n
  BY <1>1, SectionCellsAre DEF Passed
<1> QED
  BY <1>1, <1>3, <1>4, <1>5 DEF Passed

LEMMA PassedFound ==
  ASSUME NEW r, NEW cat, NEW a \in SectionCells, Passed(r, cat, a), r[a][1] = cat
  PROVE  FirstOf(r, cat) = a /\ a # 0
<1> DEFINE at == {c \in SectionsOf(r) : r[c][1] = cat}
<1>1. a \in at
  <2>1. a \in SectionsOf(r)
    BY DEF Passed
  <2> QED
    BY <2>1
<1>2. \A c \in at : a <= c /\ c \in Nat
  <2>1. SUFFICES ASSUME NEW c \in at PROVE a <= c /\ c \in Nat
    OBVIOUS
  <2>2. c \in SectionsOf(r) /\ r[c][1] = cat /\ c \in Nat /\ a \in Nat
    BY SectionCellsAre DEF SectionsOf
  <2>3. ~(c < a)
    BY <2>2 DEF Passed
  <2> QED
    BY <2>2, <2>3
<1>3. \A x \in at : (\A y \in at : x <= y) => x = a
  BY <1>1, <1>2
<1>4. Min(at) = a
  BY <1>1, <1>2, <1>3 DEF Min
<1> QED
  BY <1>1, <1>4, SectionCellsAre DEF FirstOf

LEMMA PassedNone ==
  ASSUME NEW r, NEW cat, NEW a, Passed(r, cat, a), cat # End[1],
         \A c \in Cells : r[c][2] \in Nat,
         a \in SectionCells => r[a][1] = End[1]
  PROVE  FirstOf(r, cat) = 0
<1>1. ASSUME NEW c \in SectionsOf(r), r[c][1] = cat PROVE FALSE
  <2>1. c \in Nat /\ a \in Nat /\ c \in SectionCells
    BY SectionCellsAre DEF SectionsOf, Passed
  <2>2. ~(c < a)
    BY <1>1 DEF Passed
  <2>3. CASE a \in SectionCells
    BY <1>1, <2>1, <2>2, <2>3, NothingBetween
  <2>4. CASE a \notin SectionCells
    BY <2>1, <2>2, <2>4, SectionCellsAre DEF SectionCells, Passed
  <2> QED
    BY <2>3, <2>4
<1> QED
  BY <1>1 DEF FirstOf
-----------------------------------------------------------------------------
(* The steps of ecx_config_init and ecx_configdc without an access.        *)
LEMMA EntryChanged ==
  ASSUME NEW l, Listed(l), NEW i \in Slaves, NEW e, DOMAIN e = DOMAIN NoEntry,
         e.field = l[i].field, e.sect = l[i].sect
  PROVE  LET n == [l EXCEPT ![i] = e]
         IN  Listed(n) /\ Fields(n) = Fields(l) /\ Sects(n) = Sects(l)
BY DEF Listed, Fields, Sects

SameLists(n, l) == Listed(n) /\ Fields(n) = Fields(l) /\ Sects(n) = Sects(l)

LEMMA EntryUpdates ==
  ASSUME NEW l, Listed(l), NEW i \in Slaves, NEW v, NEW n,
         \/ n = [l EXCEPT ![i].time = v]
         \/ n = [l EXCEPT ![i].entryport = v]
         \/ n = [l EXCEPT ![i].pdelay = v]
         \/ n = [l EXCEPT ![i].sync = v]
  PROVE  SameLists(n, l)
BY DEF Listed, Fields, Sects, NoEntry, SameLists

LEMMA ListKept ==
  ASSUME Listed(list), slave \in Slaves, ReadTopology \/ ConfigDc \/ Sync
  PROVE  Listed(list') /\ Fields(list') = Fields(list) /\ Sects(list') = Sects(list)
<1>1. CASE ReadTopology
  <2>1. ASSUME NEW hasdc, NEW ports, Seen(hasdc, ports)
        PROVE  Listed(list') /\ Fields(list') = Fields(list) /\ Sects(list') = Sects(list)
    <3> DEFINE seen == [list[slave] EXCEPT !.hasdc = hasdc, !.activeports = ports,
                                           !.topology = Cardinality(ports)]
    <3>1. PICK parent : list' = [list EXCEPT ![slave] = [seen EXCEPT !.parent = parent]]
      BY <2>1 DEF Seen
    <3> DEFINE e == [seen EXCEPT !.parent = parent]
    <3>2. DOMAIN e = DOMAIN NoEntry /\ e.field = list[slave].field /\ e.sect = list[slave].sect
      BY DEF Listed, NoEntry
    <3> HIDE DEF e
    <3>3. list' = [list EXCEPT ![slave] = e]
      BY <3>1 DEF e
    <3> QED
      BY <3>2, <3>3, EntryChanged
  <2> QED
    BY <1>1, <2>1 DEF ReadTopology
<1>2. CASE ConfigDc
  <2>1. CASE list' = list
    BY <2>1
  <2>2. CASE WithClock(slave)
    <3>1. PICK time, by, pdelay :
            LET known == [[list EXCEPT ![slave].time = time] EXCEPT ![slave].entryport = by]
            IN  list' = known \/ list' = [known EXCEPT ![slave].pdelay = pdelay]
      BY <2>2 DEF WithClock
    <3>2. PICK timed : timed = [list EXCEPT ![slave].time = time]
      OBVIOUS
    <3>3. PICK known : known = [timed EXCEPT ![slave].entryport = by]
      OBVIOUS
    <3>4. list' = known \/ list' = [known EXCEPT ![slave].pdelay = pdelay]
      BY <3>1, <3>2, <3>3
    <3>5. SameLists(timed, list)
      BY <3>2, EntryUpdates
    <3>6. SameLists(known, timed)
      <4>1. Listed(timed)
        BY <3>5 DEF SameLists
      <4> QED
        BY <3>3, <4>1, EntryUpdates
    <3>7. list' = known \/ SameLists(list', known)
      BY <3>4, <3>6, EntryUpdates DEF SameLists
    <3> QED
      BY <3>5, <3>6, <3>7 DEF SameLists
  <2> QED
    BY <1>2, <2>1, <2>2 DEF ConfigDc, WithoutClock
<1>3. CASE Sync
  <2>1. list' = list \/ \E v : list' = [list EXCEPT ![slave].sync = v]
    BY <1>3 DEF Sync
  <2> QED
    BY <2>1, EntryUpdates DEF SameLists
<1> QED
  BY <1>1, <1>2, <1>3

SectSet(n, l, i, v) ==
  /\ Listed(n) /\ Fields(n) = Fields(l)
  /\ \A s \in Slaves : n[s].sect = IF s = i THEN v ELSE l[s].sect

LEMMA SectUpdated ==
  ASSUME NEW l, Listed(l), NEW i \in Slaves, NEW v, DOMAIN v = 1 .. Len(Categories)
  PROVE  SectSet([l EXCEPT ![i].sect = v], l, i, v)
BY DEF Listed, Fields, NoEntry, SectSet

FieldSet(n, l, i, c, v) ==
  /\ Listed(n) /\ Sects(n) = Sects(l)
  /\ \A s \in Slaves, d \in Manuf .. MbxProto :
       n[s].field[d] = IF s = i /\ d = c THEN v ELSE l[s].field[d]

LEMMA FieldUpdated ==
  ASSUME NEW l, Listed(l), NEW i \in Slaves, NEW c \in Manuf .. MbxProto, NEW v
  PROVE  FieldSet([l EXCEPT ![i].field[c] = v], l, i, c, v)
<1> DEFINE n == [l EXCEPT ![i].field[c] = v]
           e == [l[i] EXCEPT !.field[c] = v]
<1>1. /\ DOMAIN e = DOMAIN NoEntry /\ e.sect = l[i].sect /\ DOMAIN e.field = Manuf .. MbxProto
      /\ \A d \in Manuf .. MbxProto : e.field[d] = IF d = c THEN v ELSE l[i].field[d]
  BY DEF Listed, NoEntry
<1>2. /\ n = [s \in Slaves |-> n[s]]
      /\ \A s \in Slaves : n[s] = IF s = i THEN e ELSE l[s]
  BY DEF Listed
<1> HIDE DEF e, n
<1>3. Listed(n)
  BY <1>1, <1>2 DEF Listed
<1>4. Sects(n) = Sects(l)
  BY <1>1, <1>2 DEF Sects
<1>5. FieldSet(n, l, i, c, v)
  BY <1>1, <1>2, <1>3, <1>4 DEF FieldSet
<1> QED
  BY <1>5 DEF n

LEMMA FieldsSame ==
  ASSUME Fields(list') = Fields(list)
  PROVE  \A s \in Slaves : list'[s].field = list[s].field /\ HasMailbox(s)' = HasMailbox(s)
<1>1. \A s \in Slaves : list'[s].field = list[s].field
  <2>1. \A s \in Slaves : Fields(list')[s] = list'[s].field /\ Fields(list)[s] = list[s].field
    BY DEF Fields
  <2> QED
    BY <2>1
<1> QED
  BY <1>1 DEF HasMailbox

LEMMA SectsSame ==
  ASSUME Sects(list') = Sects(list)
  PROVE  \A s \in Slaves : list'[s].sect = list[s].sect
<1>1. \A s \in Slaves : Sects(list')[s] = list'[s].sect /\ Sects(list)[s] = list[s].sect
  BY DEF Sects
<1> QED
  BY <1>1

(* The first slave of a type is that of all slaves of the type. *)
Alike(i, s) == \A c \in {Manuf, Id, Rev} : rom[i][c] = rom[s][c]

LEMMA FirstLikeIs ==
  ASSUME NEW s \in Nat \ {0}
  PROVE  /\ FirstLike(s) \in 1 .. s /\ Alike(FirstLike(s), s)
         /\ \A m \in 1 .. s : Alike(m, s) /\ (\A i \in 1 .. s : Alike(i, s) => m <= i)
                               => m = FirstLike(s) /\ m = FirstLike(m)
<1>1. \A t \in Nat \ {0} : LET set == {i \in 1 .. t : Alike(i, t)}
                           IN  set \subseteq Nat /\ set # {} /\ FirstLike(t) = Min(set)
  <2> TAKE t \in Nat \ {0}
  <2>1. t \in 1 .. t /\ Alike(t, t)
    BY DEF Alike
  <2> QED
    BY <2>1 DEF FirstLike, Alike
<1>2. \A t \in Nat \ {0} : /\ FirstLike(t) \in 1 .. t /\ Alike(FirstLike(t), t)
                           /\ \A i \in 1 .. t : Alike(i, t) => FirstLike(t) <= i
  <2> TAKE t \in Nat \ {0}
  <2> DEFINE set == {i \in 1 .. t : Alike(i, t)}
  <2>1. set \subseteq Nat /\ set # {} /\ FirstLike(t) = Min(set)
    BY <1>1
  <2>2. FirstLike(t) \in set /\ \A y \in set : FirstLike(t) <= y
    BY <2>1, MinIsLeast
  <2> QED
    BY <2>2
<1>3. ASSUME NEW m \in 1 .. s, Alike(m, s), \A i \in 1 .. s : Alike(i, s) => m <= i
      PROVE  m = FirstLike(s) /\ m = FirstLike(m)
  <2>1. m = FirstLike(s)
    BY <1>2, <1>3
  <2>2. FirstLike(m) \in 1 .. s /\ Alike(FirstLike(m), s) /\ FirstLike(m) <= m
    BY <1>2, <1>3 DEF Alike
  <2> QED
    BY <1>3, <2>1, <2>2
<1> QED
  BY <1>2, <1>3

(* What a step leaves alone of the access and the search under way. *)
LEMMA WorkKept ==
  ASSUME WorkInv, UNCHANGED <<Slaves, wide, esc, rom, doubt, job, tool>>
  PROVE  WrittenInv' /\ AskedInv'
BY DEF WorkInv, WrittenInv, AskedInv, Outstanding, Sound

LEMMA WalkKept ==
  ASSUME WalkInv, UNCHANGED <<find, rom>>,
         find.pc # "idle" => doubt \subseteq doubt' /\ rewritten \subseteq rewritten'
  PROVE  WalkInv'
<1>1. \A s, cat : Content(s, cat)' = Content(s, cat)
  BY DEF Content
<1>2. find.pc # "idle" /\ Untouched(find.slave)' => Untouched(find.slave)
  BY DEF Untouched
<1> QED
  BY <1>1, <1>2 DEF WalkInv

LEMMA RIdle ==
  ASSUME Shape, RInv, tool = NoTool, UNCHANGED toolvars,
         Detect \/ ReadTopology \/ Lookup \/ ConfigDc \/ Sync \/ PlugIn
  PROVE  RInv'
<1> USE DEF Shape
<1>1. /\ UNCHANGED <<Slaves, wide, esc, rom, job, find, doubt, rewritten, call, tool, ebuf>>
      /\ pc \in {"detect", "topology", "lookup", "dc", "sync"}
  BY DEF Detect, ReadTopology, Lookup, ConfigDc, Sync, PlugIn, cachevars, siivars, toolvars
<1>2. job.pc = "idle" /\ find.pc = "idle" /\ call = NoCall /\ slave \in Slaves
  BY <1>1 DEF PhaseInv, AccessPcs, NoTool, SlaveInv
<1>3. EntryInv /\ Listed(list)
  BY DEF RInv, PlaceInv, EntryInv
<1>4. CASE ~Lookup
  <2>1. Listed(list') /\ Fields(list') = Fields(list) /\ Sects(list') = Sects(list)
    BY <1>2, <1>3, <1>4, ListKept DEF Detect, PlugIn
  <2>2. \A s \in Slaves : /\ list'[s].field = list[s].field /\ HasMailbox(s)' = HasMailbox(s)
                          /\ list'[s].sect = list[s].sect
    BY <2>1, FieldsSame, SectsSame
  <2>3. \/ pc = "detect" /\ pc' \in {"force", "stopped"} /\ UNCHANGED <<slave, round>>
        \/ pc = "topology" /\ pc' \in {"topology", "proto"} /\ UNCHANGED <<slave, round>>
        \/ pc = "dc" /\ pc' \in {"dc", "sync"}
        \/ pc = "sync" /\ pc' \in {"sync", "run"}
    BY <1>4 DEF Detect, ReadTopology, ConfigDc, Sync, PlugIn, Proceed, NextSync
  <2>4. EntryInv'
    BY <1>1, <1>3, <2>1 DEF EntryInv, Listed
  <2>5. PlaceInv'
    BY <1>1, <1>2, <2>3, <2>4 DEF RInv, PlaceInv, RoundInv, PurposeInv, AccessPcs, NoTool, NoCall
  <2>6. DueInv'
    <3>1. \A s \in Slaves : Due(s)' \subseteq Due(s)
      BY <2>2, <2>3 DEF Due, Mail
    <3> QED
      BY <1>1, <3>1 DEF RInv, WorkInv, DueInv, Outstanding, Sound
  <2>7. FieldInv' /\ SectInv'
    <3>1. \A s \in Slaves :
            /\ \A k : Collected(s, k)' => Collected(s, k)
            /\ \A pcs \in SUBSET Later : Past(s, pcs)' /\ ~Past(s, pcs) => pc = "topology" /\ pc' = "proto"
      BY <2>3 DEF Collected, Past, Later
    <3>2. \A s, cat : Content(s, cat)' = Content(s, cat) /\ FirstLike(s)' = FirstLike(s)
      BY <1>1 DEF Content, FirstLike
    <3> QED
      BY <1>1, <2>2, <2>3, <3>1, <3>2 DEF RInv, KnownInv, FieldInv, SectInv, Sound, Past, Later
  <2>8. WrittenInv' /\ AskedInv' /\ WalkInv'
    BY <1>1, WorkKept, WalkKept DEF RInv, KnownInv
  <2> QED
    BY <1>1, <2>5, <2>6, <2>7, <2>8 DEF RInv, WorkInv, KnownInv, ToolInv
<1>5. CASE Lookup
  <2>1. /\ pc = "lookup" /\ pc' \in {"section", "pdi"} /\ UNCHANGED slave
        /\ \/ /\ SameType(slave) # {} /\ pc' = "pdi"
              /\ list' = [list EXCEPT ![slave].sect = list[Min(SameType(slave))].sect]
           \/ SameType(slave) = {} /\ pc' = "section" /\ round' = 1 /\ UNCHANGED list
    BY <1>5 DEF Lookup, Proceed
  <2>2. /\ slave \in Nat \ {0} /\ SameType(slave) \subseteq 1 .. slave - 1
        /\ 1 .. slave \subseteq Slaves /\ SameType(slave) \subseteq Nat
    BY <1>2 DEF SlaveInv, SameType
  <2> DEFINE m == Min(SameType(slave))
  <2>3. SameType(slave) # {} => m \in SameType(slave) /\ \A y \in SameType(slave) : m <= y
    BY <2>2, MinIsLeast
  <2> HIDE DEF m
  <2>4. SameType(slave) # {} => /\ Listed(list') /\ Fields(list') = Fields(list)
                                /\ \A s \in Slaves : list'[s].sect =
                                     IF s = slave THEN list[m].sect ELSE list[s].sect
    <3> SUFFICES ASSUME SameType(slave) # {}
                 PROVE  /\ Listed(list') /\ Fields(list') = Fields(list)
                        /\ \A s \in Slaves : list'[s].sect =
                             IF s = slave THEN list[m].sect ELSE list[s].sect
      OBVIOUS
    <3>1. m \in Slaves
      BY <2>2, <2>3
    <3>2. DOMAIN list[m].sect = 1 .. Len(Categories)
      BY <1>3, <3>1 DEF Listed
    <3>3. PICK v : v = list[m].sect
      OBVIOUS
    <3>4. list' = [list EXCEPT ![slave].sect = v]
      BY <2>1, <3>3 DEF m
    <3>5. SectSet(list', list, slave, v)
      BY <1>2, <1>3, <3>2, <3>3, <3>4, SectUpdated
    <3> QED
      BY <3>3, <3>5 DEF SectSet
  <2>5. Listed(list') /\ Fields(list') = Fields(list)
    BY <1>3, <2>1, <2>4
  <2>6. \A s \in Slaves : list'[s].field = list[s].field /\ HasMailbox(s)' = HasMailbox(s)
    BY <2>5, FieldsSame
  <2>7. PlaceInv'
    <3>1. EntryInv'
      BY <1>1, <1>3, <2>5 DEF EntryInv, Listed
    <3>2. RoundInv' /\ PurposeInv'
      BY <1>1, <1>2, <2>1, StartupAssumption DEF RInv, PlaceInv, RoundInv, PurposeInv, AccessPcs, NoTool, NoCall
    <3> QED
      BY <3>1, <3>2 DEF PlaceInv
  <2>8. DueInv'
    <3>1. \A s \in Slaves : Due(s)' = Due(s)
      BY <2>1, <2>6 DEF Due, Mail
    <3> QED
      BY <1>1, <3>1 DEF RInv, WorkInv, DueInv, Outstanding, Sound
  <2>9. FieldInv'
    <3>1. \A s \in Slaves :
            /\ \A k : Collected(s, k)' => Collected(s, k)
            /\ \A pcs \in SUBSET Later : Past(s, pcs)' /\ ~Past(s, pcs) => "lookup" \notin pcs
      BY <2>1 DEF Collected, Past, Later
    <3> QED
      BY <1>1, <2>1, <2>6, <3>1 DEF RInv, KnownInv, FieldInv, Sound, Later
  <2>10. SectInv'
    <3> SUFFICES ASSUME Sound PROVE SectInv'
      BY <1>1 DEF SectInv, Sound
    <3>1. \A s, cat : Content(s, cat)' = Content(s, cat) /\ FirstLike(s)' = FirstLike(s)
      BY <1>1 DEF Content, FirstLike
    <3>2. \A i \in 1 .. slave - 1 : i \in SameType(slave) <=> Alike(i, slave)
      <4>1. \A s \in Slaves, c \in {Manuf, Id, Rev} : list[s].field[c] = rom[s][c]
        <5>1. \A s \in Slaves, k \in 1 .. Len(Rounds) : list[s].field[Rounds[k]] = rom[s][Rounds[k]]
          BY <2>1 DEF RInv, KnownInv, FieldInv, Collected, Later
        <5>2. \A c \in {Manuf, Id, Rev} : \E k \in 1 .. Len(Rounds) : Rounds[k] = c
          BY DEF Rounds, Manuf, Id, Rev
        <5> QED
          BY <5>1, <5>2
      <4> QED
        BY <1>2, <2>2, <4>1 DEF SameType, Alike
    <3>3. SameType(slave) # {} => m \in 1 .. slave - 1 /\ m = FirstLike(slave) /\ m = FirstLike(m)
      <4> SUFFICES ASSUME SameType(slave) # {}
                   PROVE  m \in 1 .. slave - 1 /\ m = FirstLike(slave) /\ m = FirstLike(m)
        OBVIOUS
      <4>1. m \in 1 .. slave - 1 /\ Alike(m, slave)
        BY <2>2, <2>3, <3>2
      <4>2. \A i \in 1 .. slave : Alike(i, slave) => m <= i
        BY <2>2, <2>3, <3>2, <4>1
      <4> QED
        BY <2>2, <4>1, <4>2, FirstLikeIs
    <3>4. SameType(slave) = {} => FirstLike(slave) = slave
      BY <2>2, <3>2, FirstLikeIs
    <3>5. \A s \in Slaves, k \in 1 .. Len(Categories) :
            Past(s, {"pdi"}) => list[s].sect[k] = Content(FirstLike(s), Categories[k])
      BY DEF RInv, KnownInv, SectInv
    <3>6. CASE SameType(slave) = {}
      <4>1. \A s \in Slaves : Past(s, {"pdi"})' => Past(s, {"pdi"})
        BY <2>1, <3>6 DEF Past, Later
      <4>2. pc' = "section" => ~\E k \in 1 .. Len(Categories) : k < round'
        BY <2>1, <3>6
      <4> QED
        BY <1>1, <2>1, <3>1, <3>4, <3>5, <3>6, <4>1, <4>2 DEF SectInv
    <3>7. CASE SameType(slave) # {}
      <4>1. pc' = "pdi"
        BY <2>1, <3>7
      <4>2. \A s \in Slaves : Past(s, {"pdi"})' => s = slave \/ Past(s, {"pdi"})
        BY <2>1, <3>7 DEF Past, Later
      <4>3. m \in Slaves /\ Past(m, {"pdi"})
        BY <2>1, <2>2, <3>3, <3>7 DEF Past, Later
      <4>4. ASSUME NEW s \in Slaves, NEW k \in 1 .. Len(Categories), Past(s, {"pdi"})'
            PROVE  list'[s].sect[k] = Content(FirstLike(s), Categories[k])
        <5>1. CASE s = slave
          BY <2>4, <3>3, <3>5, <3>7, <4>3, <5>1
        <5>2. CASE s # slave
          BY <2>4, <3>5, <3>7, <4>2, <4>4, <5>2
        <5> QED
          BY <5>1, <5>2
      <4> QED
        BY <1>1, <3>1, <4>1, <4>4 DEF SectInv
    <3> QED
      BY <3>6, <3>7
  <2>11. WrittenInv' /\ AskedInv' /\ WalkInv'
    BY <1>1, WorkKept, WalkKept DEF RInv, KnownInv
  <2> QED
    BY <1>1, <2>7, <2>8, <2>9, <2>10, <2>11 DEF RInv, WorkInv, KnownInv, ToolInv
<1> QED
  BY <1>4, <1>5

LEMMA RBroadcast ==
  ASSUME Shape, RInv, tool = NoTool, UNCHANGED toolvars, Broadcast
  PROVE  RInv'
<1> USE DEF Shape
<1>1. /\ UNCHANGED <<Slaves, wide, rom, job, find, rewritten, call, tool, ebuf, list, slave, round>>
      /\ pc \in {"force", "claim"} /\ pc' \in {"claim", "request"}
  BY DEF Broadcast, cachevars, toolvars
<1>2. /\ job.pc = "idle" /\ find.pc = "idle" /\ call = NoCall
      /\ slave = 1 /\ round = 0 /\ job = NoJob
  BY <1>1 DEF PhaseInv, AccessPcs, NoTool, RInv, PlaceInv, RoundInv, PurposeInv
<1>3. PlaceInv'
  BY <1>1, <1>2 DEF RInv, PlaceInv, EntryInv, Listed, RoundInv, PurposeInv, AccessPcs, NoTool,
     NoCall, Rounds
<1>4. WorkInv'
  <2>1. WrittenInv' /\ AskedInv'
    BY <1>1, <1>2 DEF WrittenInv, AskedInv, NoJob
  <2>2. \A s \in Slaves : Due(s)' = {}
    BY <1>1, <1>2 DEF Due, LastAsked, SlaveInv
  <2> QED
    BY <1>1, <2>1, <2>2 DEF WorkInv, DueInv
<1>5. FieldInv' /\ SectInv'
  <2>1. \A s \in Slaves : /\ \A k \in 1 .. Len(Rounds) : ~Collected(s, k)'
                          /\ \A pcs \in SUBSET Later : ~Past(s, pcs)'
    BY <1>1, <1>2 DEF Collected, Past, Later, Rounds
  <2> QED
    BY <1>1, <2>1 DEF FieldInv, SectInv, Later
<1>6. WalkInv'
  BY <1>1, <1>2, WalkKept DEF RInv, KnownInv
<1> QED
  BY <1>1, <1>3, <1>4, <1>5, <1>6 DEF RInv, KnownInv, ToolInv

(* The accesses of ecx_config_init. *)
LEMMA RBeginAccess ==
  ASSUME Shape, RInv, tool = NoTool, UNCHANGED toolvars, BeginAccess
  PROVE  RInv'
<1> USE DEF Shape
<1>1. /\ UNCHANGED <<Slaves, wide, esc, rom, find, doubt, rewritten, call, tool, ebuf, list>>
      /\ UNCHANGED <<pc, slave, round>> /\ pc \in AccessPcs /\ Wanted # << >>
      /\ job.pc = "idle" /\ job' = Begin(Wanted[1], slave, Wanted[2], 0)
  BY DEF BeginAccess, cachevars, startvars, toolvars
<1>2. find.pc = "idle" /\ call = NoCall /\ slave \in Slaves /\ Wanted' = Wanted
  BY <1>1 DEF PhaseInv, AccessPcs, NoTool, SlaveInv, Wanted, HasMailbox
<1>3. /\ job'.kind = Wanted[1] /\ job'.slave = slave /\ job'.addr = Wanted[2]
      /\ job'.kind \in {"collect", "request", "release"}
      /\ job'.pc \in {"force", "wait", "release", "end"}
      /\ job'.kind = "request" => job'.pc \in {"force", "wait"}
      /\ job'.kind = "collect" => job'.pc = "wait"
  <2>1. Wanted[1] \in {"collect", "request", "release"}
    BY <1>1 DEF Wanted
  <2> QED
    BY <1>1, <1>2, <2>1, BeginGoes DEF SlaveInv
<1>4. PlaceInv'
  BY <1>1, <1>2, <1>3 DEF RInv, PlaceInv, EntryInv, Listed, RoundInv, PurposeInv, AccessPcs, NoTool
<1>5. DueInv' /\ FieldInv' /\ SectInv'
  <2>1. \A s, cat : Content(s, cat)' = Content(s, cat) /\ FirstLike(s)' = FirstLike(s)
    BY <1>1 DEF Content, FirstLike
  <2>2. \A s \in Slaves : /\ HasMailbox(s)' = HasMailbox(s) /\ Due(s)' = Due(s)
                          /\ \A k : Collected(s, k)' = Collected(s, k)
                          /\ \A pcs \in SUBSET Later : Past(s, pcs)' = Past(s, pcs)
    BY <1>1 DEF HasMailbox, Due, Mail, NextAsked, LastAsked, Collected, Past
  <2> QED
    BY <1>1, <2>1, <2>2 DEF RInv, WorkInv, KnownInv, DueInv, FieldInv, SectInv, Outstanding, Sound, Later
<1>6. WrittenInv'
  BY <1>3 DEF WrittenInv
<1>7. AskedInv'
  <2> SUFFICES ASSUME Sound, job'.kind = "collect"
               PROVE  Outstanding(slave, Wanted[2])'
    BY <1>1, <1>2, <1>3 DEF AskedInv, Sound, Outstanding
  <2>1. Wanted[2] \in Due(slave)
    BY <1>1, <1>2, <1>3 DEF Wanted, Due, LastAsked, Mail, RInv, PlaceInv, RoundInv, Rounds, SlaveInv
  <2> QED
    BY <1>1, <1>2, <2>1 DEF RInv, WorkInv, DueInv, Outstanding
<1>8. WalkInv'
  BY <1>1, WalkKept DEF RInv, KnownInv
<1> QED
  BY <1>1, <1>4, <1>5, <1>6, <1>7, <1>8 DEF RInv, WorkInv, KnownInv, ToolInv

LEMMA CountIs == SlaveInv => SlaveCount \in Nat \ {0} /\ Slaves = 1 .. SlaveCount
<1> SUFFICES ASSUME SlaveInv PROVE SlaveCount \in Nat \ {0} /\ Slaves = 1 .. SlaveCount
  OBVIOUS
<1>1. PICK n \in Nat \ {0} : Slaves = 1 .. n
  BY DEF SlaveInv
<1>2. rom \in Seq({rom[s] : s \in Slaves})
  <2>1. rom \in [1 .. n -> {rom[s] : s \in Slaves}]
    BY <1>1 DEF SlaveInv
  <2> QED
    BY <1>1, <2>1
<1>3. SlaveCount = n
  BY <1>1, <1>2 DEF SlaveInv, SlaveCount
<1> QED
  BY <1>1, <1>3

LEMMA FollowingGoes ==
  ASSUME pc \in AccessPcs, Following, slave \in 1 .. SlaveCount, SlaveCount \in Nat
  PROVE  \/ pc = "collect" /\ pc' = "request" /\ slave' = slave /\ round' = round
         \/ /\ pc = "request" /\ slave < SlaveCount /\ slave' = slave + 1 /\ round' = round
            /\ pc' = IF round = 0 THEN "request" ELSE "collect"
         \/ /\ pc = "request" /\ slave = SlaveCount /\ slave' = 1 /\ round' = round + 1
            /\ pc' = IF round = Len(Rounds) THEN "tx" ELSE "collect"
         \/ pc = "tx" /\ pc' = "txdone" /\ slave' = slave /\ round' = round
         \/ pc = "txdone" /\ pc' = "topology" /\ slave' = slave /\ round' = round
         \/ pc = "proto" /\ pc' = "lookup" /\ slave' = slave /\ round' = round
         \/ pc = "pdi" /\ slave < SlaveCount /\ pc' = "tx" /\ slave' = slave + 1
         \/ pc = "pdi" /\ slave = SlaveCount /\ pc' = "dc" /\ slave' = 1
<1>1. CASE pc = "request" /\ slave < SlaveCount
  BY <1>1 DEF Following, Proceed
<1>2. CASE pc = "request" /\ slave = SlaveCount
  BY <1>2 DEF Following, Proceed
<1>3. CASE pc = "pdi" /\ slave < SlaveCount
  BY <1>3 DEF Following, Proceed
<1>4. CASE pc = "pdi" /\ slave = SlaveCount
  BY <1>4 DEF Following, Proceed
<1>5. CASE pc \notin {"request", "pdi"}
  BY <1>5 DEF Following, Proceed, AccessPcs
<1> QED
  BY <1>1, <1>2, <1>3, <1>4, <1>5

LEMMA REndAccess ==
  ASSUME Shape, RInv, tool = NoTool, UNCHANGED toolvars, EndAccess
  PROVE  RInv'
<1> USE DEF Shape
<1>1. /\ UNCHANGED <<Slaves, wide, esc, rom, find, doubt, rewritten, call, tool, ebuf>>
      /\ pc \in AccessPcs /\ Following
      /\ Wanted = << >> => UNCHANGED <<job, list>>
      /\ Wanted # << >> =>
           /\ job.pc = "end" /\ job' = NoJob
           /\ list' = IF Wanted[1] # "collect" THEN list
                      ELSE [list EXCEPT ![slave].field[Wanted[2]] =
                              Entered(Wanted[2], job.data[1])]
  BY DEF EndAccess, cachevars, toolvars
<1>2. /\ find.pc = "idle" /\ call = NoCall /\ slave \in Slaves
      /\ Slaves = 1 .. SlaveCount /\ SlaveCount \in Nat \ {0} /\ Len(Rounds) = 5
  BY <1>1, CountIs DEF Rounds, PhaseInv, AccessPcs, NoTool, SlaveInv
<1>3. /\ Wanted = << >> => job.pc = "idle"
      /\ Wanted # << >> => job.kind = Wanted[1] /\ job.slave = slave /\ job.addr = Wanted[2]
      /\ job'.pc = "idle" /\ job' = NoJob
  <2>1. Wanted = << >> => job.pc = "idle"
    BY <1>1, <1>2 DEF PhaseInv, NoTool, AccessPcs
  <2>2. Wanted # << >> => job.pc = "end" /\ job' = NoJob
    BY <1>1
  <2> QED
    BY <1>1, <2>1, <2>2 DEF RInv, PlaceInv, PurposeInv, NoJob
<1>4. Listed(list) /\ EntryInv
  BY DEF RInv, PlaceInv, EntryInv
<1>5. /\ Wanted # << >> /\ Wanted[1] = "collect" => Wanted[2] \in Manuf .. MbxProto
      /\ pc = "collect" => Wanted = <<"collect", Rounds[round]>> /\ round \in 1 .. Len(Rounds)
      /\ pc = "request" => round \in 0 .. Len(Rounds)
      /\ pc \in {"request", "txdone", "pdi"} => Wanted = << >> \/ Wanted[1] # "collect"
      /\ pc = "tx" /\ Wanted # << >> => Wanted = <<"collect", TxMbx>>
      /\ pc = "proto" /\ Wanted # << >> => Wanted = <<"collect", MbxProto>>
  BY DEF Wanted, Rounds, Manuf, Id, Rev, Ser, RxMbx, TxMbx, MbxProto, RInv, PlaceInv, RoundInv
<1> DEFINE new == Wanted # << >> /\ Wanted[1] = "collect"
           cell == Wanted[2]
           entered == Entered(cell, job.data[1])
<1>6. /\ Listed(list') /\ Sects(list') = Sects(list)
      /\ \A s \in Slaves, d \in Manuf .. MbxProto :
           list'[s].field[d] = IF new /\ s = slave /\ d = cell THEN entered ELSE list[s].field[d]
  <2>1. CASE new
    <3>1. PICK c \in Manuf .. MbxProto : c = cell
      BY <1>5, <2>1
    <3>2. PICK v : v = entered
      OBVIOUS
    <3>3. FieldSet(list', list, slave, c, v)
      BY <1>1, <1>2, <1>4, <2>1, <3>1, <3>2, FieldUpdated
    <3> QED
      BY <2>1, <3>1, <3>2, <3>3 DEF FieldSet
  <2>2. CASE ~new
    BY <1>1, <1>4, <2>2
  <2> QED
    BY <2>1, <2>2
<1> HIDE DEF new, cell, entered
<1>7. \A s \in Slaves : HasMailbox(s)' = HasMailbox(s) \/ (pc = "collect" /\ s = slave)
  <2>1. new /\ cell = RxMbx => pc = "collect"
    BY <1>1, <1>5 DEF new, cell, AccessPcs, RxMbx, TxMbx, MbxProto
  <2>2. RxMbx \in Manuf .. MbxProto
    BY DEF RxMbx, Manuf, MbxProto
  <2>3. \A s \in Slaves : list'[s].field[RxMbx] = list[s].field[RxMbx] \/ (pc = "collect" /\ s = slave)
    BY <1>6, <2>1, <2>2
  <2> QED
    BY <2>3 DEF HasMailbox
<1>0. \/ pc = "collect" /\ pc' = "request" /\ slave' = slave /\ round' = round
      \/ /\ pc = "request" /\ slave < SlaveCount /\ slave' = slave + 1 /\ round' = round
         /\ pc' = IF round = 0 THEN "request" ELSE "collect"
      \/ /\ pc = "request" /\ slave = SlaveCount /\ slave' = 1 /\ round' = round + 1
         /\ pc' = IF round = Len(Rounds) THEN "tx" ELSE "collect"
      \/ pc = "tx" /\ pc' = "txdone" /\ slave' = slave /\ round' = round
      \/ pc = "txdone" /\ pc' = "topology" /\ slave' = slave /\ round' = round
      \/ pc = "proto" /\ pc' = "lookup" /\ slave' = slave /\ round' = round
      \/ pc = "pdi" /\ slave < SlaveCount /\ pc' = "tx" /\ slave' = slave + 1
      \/ pc = "pdi" /\ slave = SlaveCount /\ pc' = "dc" /\ slave' = 1
  BY <1>1, <1>2, FollowingGoes
<1>8. pc' \in AccessPcs \cup {"topology", "lookup", "dc"} /\ RoundInv'
  BY <1>0, <1>1, <1>2, <1>5 DEF RoundInv, AccessPcs, Rounds
<1>9. PlaceInv'
  <2>1. EntryInv'
    BY <1>1, <1>4, <1>6 DEF EntryInv, Listed
  <2>2. PurposeInv'
    BY <1>1, <1>2, <1>3, <1>8 DEF RInv, PlaceInv, PurposeInv, AccessPcs, NoTool
  <2> QED
    BY <1>8, <2>1, <2>2 DEF PlaceInv
<1>10. WrittenInv' /\ AskedInv' /\ WalkInv'
  BY <1>1, <1>2, <1>3, WalkKept DEF WrittenInv, AskedInv, NoJob, RInv, KnownInv
<1>11. DueInv'
  <2>1. \A s \in Slaves : \A a : a \in Due(s)' =>
          a \in Due(s) \/ (s = slave /\ Wanted # << >> /\ Wanted[1] = "request" /\ a = Wanted[2])
    <3> SUFFICES ASSUME NEW s \in Slaves, NEW a, a \in Due(s)'
                 PROVE  a \in Due(s) \/ (s = slave /\ Wanted # << >> /\ Wanted[1] = "request" /\ a = Wanted[2])
      OBVIOUS
    <3>1. CASE pc = "collect"
      BY <1>0, <1>1, <1>2, <1>5, <1>7, <3>1 DEF Due, NextAsked, LastAsked, Mail
    <3>2. CASE pc = "request"
      BY <1>0, <1>1, <1>2, <1>5, <1>7, <3>2 DEF Due, NextAsked, LastAsked, Mail, Wanted, Rounds
    <3>3. CASE pc \in {"tx", "txdone", "proto", "pdi"}
      BY <1>0, <1>1, <1>2, <1>7, <3>3 DEF Due, NextAsked, LastAsked, Mail, Wanted
    <3> QED
      BY <1>1, <3>1, <3>2, <3>3 DEF AccessPcs
  <2>2. Sound /\ Wanted # << >> /\ Wanted[1] = "request" => Outstanding(slave, Wanted[2])
    BY <1>1, <1>3 DEF RInv, WorkInv, AskedInv
  <2>3. \A s \in Slaves : \A a : Outstanding(s, a)' <=> Outstanding(s, a)
    BY <1>1 DEF Outstanding
  <2> QED
    BY <1>1, <2>1, <2>2, <2>3 DEF RInv, WorkInv, DueInv, Sound
<1>12. FieldInv'
  <2> SUFFICES ASSUME Sound PROVE FieldInv'
    BY <1>1 DEF FieldInv, Sound
  <2>1. new => job.data[1] = rom[slave][cell]
    BY <1>1, <1>3 DEF RInv, WorkInv, AskedInv, new, cell
  <2>2. new => /\ cell # TxMbx => entered = rom[slave][cell]
               /\ cell = TxMbx => entered[1] = rom[slave][cell][1]
    BY <2>1 DEF entered, Entered
  <2>3. ASSUME NEW s \in Slaves, NEW k \in 1 .. Len(Rounds), Collected(s, k)'
        PROVE  list'[s].field[Rounds[k]] = rom[s][Rounds[k]]
    <3>1. /\ Rounds[k] \in Manuf .. MbxProto /\ Rounds[k] \notin {TxMbx, MbxProto}
          /\ \A i \in 1 .. Len(Rounds) : i # k => Rounds[i] # Rounds[k]
      BY DEF Rounds, Manuf, Id, Rev, Ser, RxMbx, TxMbx, MbxProto
    <3>2. Collected(s, k) \/ (pc = "collect" /\ s = slave /\ k = round)
      BY <1>0, <1>1, <1>2, <1>5, <2>3 DEF Collected, Later, AccessPcs
    <3>3. CASE pc = "collect" /\ s = slave /\ k = round
      <4>1. new /\ cell = Rounds[k]
        BY <1>5, <3>3 DEF new, cell
      <4> QED
        BY <1>6, <2>2, <3>1, <3>3, <4>1
    <3>4. CASE Collected(s, k) /\ ~(pc = "collect" /\ s = slave /\ k = round)
      <4>1. list[s].field[Rounds[k]] = rom[s][Rounds[k]]
        BY <3>4 DEF RInv, KnownInv, FieldInv
      <4>2. ~(new /\ s = slave /\ Rounds[k] = cell)
        BY <1>1, <1>5, <3>1, <3>4 DEF new, cell, AccessPcs
      <4> QED
        BY <1>6, <3>1, <4>1, <4>2
    <3> QED
      BY <3>2, <3>3, <3>4
  <2>4. TxMbx \in Manuf .. MbxProto /\ MbxProto \in Manuf .. MbxProto /\ TxMbx # MbxProto
    BY DEF Manuf, TxMbx, MbxProto
  <2>5. ASSUME NEW s \in Slaves, HasMailbox(s)', Past(s, Later \ {"tx"})'
        PROVE  list'[s].field[TxMbx][1] = rom[s][TxMbx][1]
    <3>1. Past(s, Later \ {"tx"}) \/ (pc = "tx" /\ s = slave)
      BY <1>0, <1>1, <1>2, <2>5 DEF Past, Later, AccessPcs
    <3>2. HasMailbox(s)
      <4>1. pc # "collect"
        BY <1>0, <1>1, <2>5 DEF Past, Later
      <4> QED
        BY <1>7, <2>5, <4>1
    <3>3. CASE pc = "tx" /\ s = slave
      <4>1. new /\ cell = TxMbx
        BY <3>2, <3>3 DEF new, cell, Wanted
      <4> QED
        BY <1>6, <2>2, <2>4, <3>3, <4>1
    <3>4. CASE Past(s, Later \ {"tx"}) /\ ~(pc = "tx" /\ s = slave)
      <4>1. list[s].field[TxMbx][1] = rom[s][TxMbx][1]
        BY <3>2, <3>4 DEF RInv, KnownInv, FieldInv
      <4>2. ~(new /\ s = slave /\ TxMbx = cell)
        <5>1. pc # "collect"
          BY <1>0, <1>1, <2>5 DEF Past, Later
        <5> QED
          BY <1>1, <1>5, <2>4, <3>4, <5>1 DEF new, cell, AccessPcs
      <4> QED
        BY <1>6, <2>4, <4>1, <4>2
    <3> QED
      BY <3>1, <3>3, <3>4
  <2>6. ASSUME NEW s \in Slaves, HasMailbox(s)', Past(s, {"lookup", "section", "pdi"})'
        PROVE  list'[s].field[MbxProto] = rom[s][MbxProto]
    <3>1. Past(s, {"lookup", "section", "pdi"}) \/ (pc = "proto" /\ s = slave)
      BY <1>0, <1>1, <1>2, <2>6 DEF Past, Later, AccessPcs
    <3>0. pc # "collect"
      BY <1>0, <1>1, <2>6 DEF Past, Later
    <3>2. HasMailbox(s)
      BY <1>7, <2>6, <3>0
    <3>3. CASE pc = "proto" /\ s = slave
      <4>1. new /\ cell = MbxProto
        BY <3>2, <3>3 DEF new, cell, Wanted
      <4> QED
        BY <1>6, <2>2, <2>4, <3>3, <4>1
    <3>4. CASE Past(s, {"lookup", "section", "pdi"}) /\ ~(pc = "proto" /\ s = slave)
      <4>1. list[s].field[MbxProto] = rom[s][MbxProto]
        BY <3>2, <3>4 DEF RInv, KnownInv, FieldInv
      <4>2. ~(new /\ s = slave /\ MbxProto = cell)
        BY <1>1, <1>5, <2>4, <3>0, <3>4 DEF new, cell, AccessPcs
      <4> QED
        BY <1>6, <2>4, <4>1, <4>2
    <3> QED
      BY <3>1, <3>3, <3>4
  <2> QED
    BY <1>1, <2>3, <2>5, <2>6 DEF FieldInv
<1>13. SectInv'
  <2>1. \A s, cat : Content(s, cat)' = Content(s, cat) /\ FirstLike(s)' = FirstLike(s)
    BY <1>1 DEF Content, FirstLike
  <2>2. \A s \in Slaves : list'[s].sect = list[s].sect
    BY <1>6, SectsSame
  <2>3. \A s \in Slaves : Past(s, {"pdi"})' => Past(s, {"pdi"})
    BY <1>0, <1>1, <1>2 DEF Past, Later, AccessPcs
  <2>4. pc' # "section"
    BY <1>8 DEF AccessPcs
  <2> QED
    BY <1>1, <2>1, <2>2, <2>3, <2>4 DEF RInv, KnownInv, SectInv, Sound
<1> QED
  BY <1>1, <1>9, <1>10, <1>11, <1>12, <1>13 DEF RInv, WorkInv, KnownInv, ToolInv

(* What a step leaves alone of the lists of ecx_config_init. *)
LEMMA PlaceKept ==
  ASSUME RInv, UNCHANGED <<Slaves, list, pc, slave, round, rom>>, Sound' => Sound
  PROVE  EntryInv' /\ RoundInv' /\ FieldInv' /\ SectInv' /\ (UNCHANGED esc => DueInv')
<1>1. \A s, cat : Content(s, cat)' = Content(s, cat) /\ FirstLike(s)' = FirstLike(s)
  BY DEF Content, FirstLike
<1>2. \A s \in Slaves : /\ HasMailbox(s)' = HasMailbox(s) /\ Due(s)' = Due(s)
                        /\ \A k : Collected(s, k)' = Collected(s, k)
                        /\ \A pcs \in SUBSET Later : Past(s, pcs)' = Past(s, pcs)
  BY DEF HasMailbox, Due, Mail, NextAsked, LastAsked, Collected, Past
<1>3. EntryInv' /\ RoundInv'
  BY DEF RInv, PlaceInv, EntryInv, Listed, RoundInv
<1>4. FieldInv' /\ SectInv'
  BY <1>1, <1>2 DEF RInv, KnownInv, FieldInv, SectInv, Later
<1>5. UNCHANGED esc => DueInv'
  BY <1>2 DEF RInv, WorkInv, DueInv, Outstanding
<1> QED
  BY <1>3, <1>4, <1>5

(* A search begins at the first section. *)
Starts(f, s, cat) ==
  /\ f.pc = "header" /\ f.slave = s /\ f.cat = cat /\ f.more
  /\ f.val = Zero /\ Passed(rom[s], cat, f.a)

LEMMA SearchStarts ==
  ASSUME NEW s, NEW cat
  PROVE  Starts(Search(s, cat, TRUE), s, cat)
<1> DEFINE f == Search(s, cat, TRUE)
<1>1. /\ f.pc = "header" /\ f.slave = s /\ f.cat = cat /\ f.more
      /\ f.val = Zero /\ f.a = FirstSection
  BY DEF Search, NoFind
<1> HIDE DEF f
<1>2. \A c \in SectionsOf(rom[s]) : ~(c < FirstSection)
  BY SectionCellsAre DEF SectionsOf, SectionCells
<1>3. Passed(rom[s], cat, FirstSection)
  BY <1>2, FirstIsSection, SectionCellsAre DEF Passed
<1>4. Starts(f, s, cat)
  BY <1>1, <1>3 DEF Starts
<1> QED
  BY <1>4 DEF f

LEMMA RBeginSection ==
  ASSUME Shape, RInv, tool = NoTool, UNCHANGED toolvars, BeginSection
  PROVE  RInv'
<1> USE DEF Shape
<1>1. /\ UNCHANGED <<Slaves, wide, esc, rom, job, doubt, rewritten, call, tool, ebuf, list>>
      /\ UNCHANGED <<pc, slave, round>> /\ pc = "section" /\ find.pc = "idle"
      /\ find' = Search(slave, Categories[round], TRUE)
  BY DEF BeginSection, cachevars, startvars, toolvars
<1>2. job.pc = "idle" /\ call = NoCall /\ job = NoJob
  BY <1>1 DEF PhaseInv, AccessPcs, NoTool, RInv, PlaceInv, PurposeInv
<1>3. /\ find'.pc = "header" /\ find'.slave = slave /\ find'.cat = Categories[round]
      /\ find'.more /\ find'.val = Zero /\ Passed(rom[slave], find'.cat, find'.a)
  <2>1. PICK cat : cat = Categories[round]
    OBVIOUS
  <2>2. find' = Search(slave, cat, TRUE)
    BY <1>1, <2>1
  <2>3. Starts(find', slave, cat)
    BY <2>2, SearchStarts
  <2> QED
    BY <2>1, <2>3 DEF Starts
<1>4. PurposeInv'
  <2>1. Categories[round] # End[1]
    BY <1>1, StartupAssumption DEF RInv, PlaceInv, RoundInv
  <2> QED
    BY <1>1, <1>2, <1>3, <2>1 DEF RInv, PlaceInv, PurposeInv, AccessPcs, NoTool, NoCall
<1>5. WalkInv'
  BY <1>1, <1>3 DEF WalkInv
<1>6. EntryInv' /\ RoundInv' /\ FieldInv' /\ SectInv' /\ DueInv'
  BY <1>1, PlaceKept DEF Sound
<1>7. WrittenInv' /\ AskedInv'
  BY <1>1, WorkKept DEF RInv
<1> QED
  BY <1>1, <1>4, <1>5, <1>6, <1>7 DEF RInv, PlaceInv, WorkInv, KnownInv, ToolInv

LEMMA REndSection ==
  ASSUME Shape, RInv, tool = NoTool, UNCHANGED toolvars, EndSection
  PROVE  RInv'
<1> USE DEF Shape
<1>1. /\ UNCHANGED <<Slaves, wide, esc, rom, job, doubt, rewritten, call, tool, ebuf, slave>>
      /\ pc = "section" /\ find.pc = "end" /\ find' = NoFind
      /\ list' = [list EXCEPT ![slave].sect[round] = find.val]
      /\ \/ round < Len(Categories) /\ pc' = "section" /\ round' = round + 1
         \/ ~(round < Len(Categories)) /\ pc' = "pdi" /\ round' = round
  BY DEF EndSection, cachevars, toolvars, Proceed
<1>2. /\ job.pc = "idle" /\ job = NoJob /\ call = NoCall /\ slave \in Slaves
      /\ round \in 1 .. Len(Categories) /\ Len(Categories) \in Nat
      /\ find.slave = slave /\ find.cat = Categories[round]
  BY <1>1, StartupAssumption DEF FindInv, PhaseInv, AccessPcs, NoTool, RInv, PlaceInv, PurposeInv, RoundInv, SlaveInv
<1>3. Listed(list) /\ EntryInv
  BY DEF RInv, PlaceInv, EntryInv
<1>4. PICK v : v = [list[slave].sect EXCEPT ![round] = find.val]
  OBVIOUS
<1>5. /\ DOMAIN v = 1 .. Len(Categories)
      /\ \A k \in 1 .. Len(Categories) : v[k] = IF k = round THEN find.val ELSE list[slave].sect[k]
  BY <1>2, <1>3, <1>4 DEF Listed
<1>6. SectSet(list', list, slave, v)
  <2>1. list' = [list EXCEPT ![slave].sect = v]
    BY <1>1, <1>4
  <2> QED
    BY <1>2, <1>3, <1>5, <2>1, SectUpdated
<1>7. /\ Listed(list') /\ Fields(list') = Fields(list)
      /\ \A s \in Slaves : list'[s].sect = IF s = slave THEN v ELSE list[s].sect
  BY <1>6 DEF SectSet
<1>8. \A s \in Slaves : list'[s].field = list[s].field /\ HasMailbox(s)' = HasMailbox(s)
  BY <1>7, FieldsSame
<1>9. PlaceInv'
  <2>1. EntryInv'
    <3>1. Listed(list)'
      BY <1>1, <1>7 DEF Listed
    <3> QED
      BY <1>1, <1>3, <3>1 DEF EntryInv
  <2>2. RoundInv' /\ PurposeInv'
    BY <1>1, <1>2 DEF RInv, PlaceInv, RoundInv, PurposeInv, AccessPcs, NoTool, NoCall, NoFind
  <2> QED
    BY <2>1, <2>2 DEF PlaceInv
<1>10. DueInv'
  <2>1. \A s \in Slaves : Due(s)' = Due(s)
    BY <1>1, <1>8 DEF Due, Mail
  <2> QED
    BY <1>1, <2>1 DEF RInv, WorkInv, DueInv, Outstanding, Sound
<1>11. FieldInv'
  <2>1. \A s \in Slaves :
          /\ \A k : Collected(s, k)' => Collected(s, k)
          /\ \A pcs \in SUBSET Later : Past(s, pcs)' /\ ~Past(s, pcs) => "section" \notin pcs
    BY <1>1 DEF Collected, Past, Later
  <2> QED
    BY <1>1, <1>8, <2>1 DEF RInv, KnownInv, FieldInv, Sound, Later
<1>12. SectInv'
  <2> SUFFICES ASSUME Sound PROVE SectInv'
    BY <1>1 DEF SectInv, Sound
  <2>1. \A s, cat : Content(s, cat)' = Content(s, cat) /\ FirstLike(s)' = FirstLike(s)
    BY <1>1 DEF Content, FirstLike
  <2>2. FirstLike(slave) = slave
    BY <1>1 DEF RInv, KnownInv, SectInv
  <2>3. find.val = Content(slave, Categories[round])
    <3>1. rewritten = {}
      BY <1>1 DEF RInv, PlaceInv, PurposeInv
    <3>2. Untouched(find.slave)
      BY <3>1 DEF Untouched, Sound
    <3> QED
      BY <1>1, <1>2, <3>2 DEF RInv, KnownInv, WalkInv
  <2>4. ASSUME NEW s \in Slaves, NEW k \in 1 .. Len(Categories),
               Past(s, {"pdi"})' \/ (pc' = "section" /\ s = slave /\ k < round')
        PROVE  list'[s].sect[k] = Content(FirstLike(s), Categories[k])
    <3>1. CASE s = slave /\ k = round
      BY <1>5, <1>7, <2>2, <2>3, <3>1
    <3>2. CASE ~(s = slave /\ k = round)
      <4>1. Past(s, {"pdi"}) \/ (s = slave /\ k < round)
        BY <1>1, <1>2, <2>4, <3>2 DEF Past, Later
      <4>2. list[s].sect[k] = Content(FirstLike(s), Categories[k])
        BY <1>1, <4>1 DEF RInv, KnownInv, SectInv
      <4> QED
        BY <1>5, <1>7, <3>2, <4>2
    <3> QED
      BY <3>1, <3>2
  <2> QED
    BY <1>1, <2>1, <2>2, <2>4 DEF SectInv
<1>13. WalkInv'
  BY <1>1 DEF WalkInv, NoFind
<1>14. WrittenInv' /\ AskedInv'
  BY <1>1, WorkKept DEF RInv
<1> QED
  BY <1>1, <1>9, <1>10, <1>11, <1>12, <1>13, <1>14 DEF RInv, WorkInv, KnownInv, ToolInv

(* A search looks at one cell after the other.                             *)
SearchFound(n, f, cell) ==
  /\ n.slave = f.slave /\ n.cat = f.cat
  /\ f.pc = "content" => n.pc = "restore" /\ n.more = FALSE /\ n.val = cell
  /\ f.pc = "header" /\ cell[1] = f.cat =>
       n.pc = "restore" /\ n.more = f.more /\ n.found = f.a /\ n.val = f.val
  /\ f.pc = "header" /\ cell[1] # f.cat /\ cell[1] = End[1] =>
       n.pc = "restore" /\ n.more = FALSE /\ n.val = f.val
  /\ f.pc = "header" /\ cell[1] # f.cat /\ cell[1] # End[1] =>
       /\ n.pc = "header" /\ n.more = f.more /\ n.val = f.val
       /\ n.a = NextSection(f.a, cell[2])

SearchRestored(n, f) ==
  /\ n.slave = f.slave /\ n.cat = f.cat /\ n.val = f.val /\ n.more = f.more
  /\ f.more => n.pc = "content" /\ n.a = f.found + 1
  /\ ~f.more => n.pc = "end"

LEMMA SearchedFinds ==
  ASSUME NEW f, DOMAIN f = DOMAIN NoFind, NEW cell
  PROVE  SearchFound(Searched(f, cell), f, cell) /\ SearchRestored(Restored(f), f)
BY DEF Searched, SectionRead, Restored, SearchFound, SearchRestored, NoFind

LEMMA WalkSearched ==
  ASSUME Shape, RInv, CacheIsOfSlave, find.pc \in {"header", "content"},
         Known(find.slave, find.a), find' = Searched(find, Cached(find.a)),
         UNCHANGED <<Slaves, rom, doubt, rewritten>>
  PROVE  WalkInv'
<1> USE DEF Shape
<1> DEFINE s == find.slave
           cell == Cached(find.a)
           r == rom[s]
           first == FirstOf(r, find.cat)
<1>1. s \in Slaves /\ DOMAIN find = DOMAIN NoFind /\ find.cat # End[1]
  BY DEF FindInv, RInv, PlaceInv, PurposeInv
<1>2. SearchFound(find', find, cell)
  BY <1>1, SearchedFinds
<1>3. \A c \in Cells : r[c][2] \in Nat
  BY <1>1 DEF RInv, PlaceInv, EntryInv
<1>4. \A t, cat : Content(t, cat)' = Content(t, cat)
  BY DEF Content
<1> SUFFICES ASSUME Untouched(s)
             PROVE  /\ find'.pc = "header" =>
                         find'.more /\ find'.val = Zero /\ Passed(r, find.cat, find'.a)
                    /\ find'.pc = "restore" /\ find'.more => find'.found = first /\ first # 0
                    /\ find'.pc = "restore" /\ ~find'.more => find'.val = Content(s, find.cat)
                    /\ find'.pc \in {"header", "restore"}
  BY <1>2, <1>4 DEF WalkInv, Untouched, SearchFound
<1>5. cell = Beyond(r, find.a)
  BY <1>1 DEF Known, Cached, Beyond, CacheIsOfSlave, Untouched
<1>6. /\ find.pc = "header" => find.more /\ find.val = Zero /\ Passed(r, find.cat, find.a)
      /\ find.pc = "content" => find.a = first + 1 /\ first # 0
  BY DEF RInv, KnownInv, WalkInv
<1>7. find.a \in Cells \/ cell[1] = End[1]
  BY <1>5 DEF Beyond, End
<1> HIDE DEF cell
<1>8. CASE find.pc = "content"
  BY <1>2, <1>5, <1>6, <1>8 DEF SearchFound, Content
<1>9. CASE find.pc = "header"
  <2>1. find.a \in Cells => find.a \in SectionCells /\ cell = r[find.a]
    BY <1>5, <1>6, <1>9, SectionCellsAre DEF Passed, SectionCells, Cells, Beyond
  <2>2. CASE cell[1] = find.cat
    <3>1. find.a \in SectionCells /\ r[find.a][1] = find.cat
      BY <1>1, <1>7, <2>1, <2>2
    <3>2. first = find.a /\ first # 0
      BY <1>6, <1>9, <3>1, PassedFound
    <3> QED
      BY <1>2, <1>6, <1>9, <2>2, <3>2 DEF SearchFound
  <2>3. CASE cell[1] # find.cat /\ cell[1] = End[1]
    <3>1. find.a \in SectionCells => r[find.a][1] = End[1]
      BY <2>1, <2>3, SectionCellsAre
    <3>2. first = 0
      BY <1>1, <1>3, <1>6, <1>9, <3>1, PassedNone
    <3> QED
      BY <1>2, <1>6, <1>9, <2>3, <3>2 DEF SearchFound, Content
  <2>4. CASE cell[1] # find.cat /\ cell[1] # End[1]
    <3>1. find.a \in SectionCells /\ cell = r[find.a]
      BY <1>7, <2>1, <2>4
    <3>2. Passed(r, find.cat, NextSection(find.a, cell[2]))
      BY <1>3, <1>6, <1>9, <2>4, <3>1, PassedNext
    <3> QED
      BY <1>2, <1>6, <1>9, <2>4, <3>2 DEF SearchFound
  <2> QED
    BY <2>2, <2>3, <2>4
<1> QED
  BY <1>8, <1>9

LEMMA RSearch ==
  ASSUME Shape, RInv, CacheIsOfSlave, tool = NoTool, UNCHANGED toolvars, UNCHANGED startvars,
         GetCached \/ GetUncached \/ EnterCache \/ Restore
  PROVE  RInv'
<1> USE DEF Shape
<1>1. /\ UNCHANGED <<Slaves, wide, esc, rom, doubt, rewritten, call, tool, ebuf, list>>
      /\ UNCHANGED <<pc, slave, round>>
      /\ find.pc \in {"header", "content", "restore"}
  BY DEF GetCached, GetUncached, EnterCache, Restore, Reading, startvars, toolvars
<1>2. /\ (pc = "section" /\ call = NoCall) \/ (pc = "run" /\ call.op = "find")
      /\ DOMAIN find = DOMAIN NoFind
  BY <1>1 DEF PhaseInv, FindInv, AccessPcs, NoTool
<1>3. \/ GetCached /\ job' = job /\ job.pc = "idle"
      \/ find' = find /\ job.pc = "idle" /\ \E a : job' = Begin("read", find.slave, a, 0)
      \/ find' = find /\ job.pc = "idle" /\ job' = Begin("release", find.slave, 0, 0)
      \/ find' = find /\ job' = NoJob
      \/ find' = Restored(find) /\ job' = NoJob /\ find.pc = "restore"
  BY DEF GetCached, GetUncached, EnterCache, Restore, Reading
<1>4. \/ job' = job /\ job.pc = "idle"
      \/ job' = NoJob
      \/ job'.kind \in {"read", "release"} /\ job'.pc # "idle"
  <2>1. CASE \E a : job' = Begin("read", find.slave, a, 0)
    <3>1. PICK a : job' = Begin("read", find.slave, a, 0)
      BY <2>1
    <3>2. PICK s \in Slaves : s = find.slave
      BY <1>1 DEF FindInv
    <3>3. job' = Begin("read", s, a, 0) /\ eep_pdi[s] \in BOOLEAN
      BY <3>1, <3>2 DEF SlaveInv
    <3> QED
      BY <3>3, BeginGoes
  <2>2. CASE job' = Begin("release", find.slave, 0, 0)
    BY <1>1, <2>2, BeginGoes DEF FindInv, SlaveInv
  <2> QED
    BY <1>3, <2>1, <2>2
<1>5. find'.cat = find.cat /\ find'.slave = find.slave
  <2>1. CASE GetCached
    <3>1. SearchFound(find', find, Cached(find.a))
      BY <1>2, <2>1, SearchedFinds DEF GetCached
    <3> QED
      BY <3>1 DEF SearchFound
  <2>2. CASE find' = Restored(find)
    <3>1. SearchRestored(find', find)
      BY <1>2, <2>2, SearchedFinds
    <3> QED
      BY <3>1 DEF SearchRestored
  <2> QED
    BY <1>3, <2>1, <2>2
<1>6. PurposeInv'
  BY <1>1, <1>2, <1>4, <1>5 DEF RInv, PlaceInv, PurposeInv, AccessPcs, NoCall, NoJob
<1>7. WrittenInv' /\ AskedInv'
  BY <1>1, <1>4, WorkKept DEF RInv, WrittenInv, AskedInv, NoJob
<1>8. WalkInv'
  <2>1. CASE find' = find
    BY <1>1, <2>1, WalkKept DEF RInv, KnownInv
  <2>2. CASE GetCached
    <3>1. /\ find.pc \in {"header", "content"} /\ Known(find.slave, find.a)
          /\ find' = Searched(find, Cached(find.a))
      BY <2>2 DEF GetCached, Reading
    <3> QED
      BY <1>1, <3>1, WalkSearched
  <2>3. CASE find' = Restored(find) /\ find.pc = "restore"
    <3>1. SearchRestored(find', find)
      BY <1>2, <2>3, SearchedFinds
    <3>2. \A s, cat : Content(s, cat)' = Content(s, cat)
      BY <1>1 DEF Content
    <3> QED
      BY <1>1, <2>3, <3>1, <3>2 DEF RInv, KnownInv, WalkInv, Untouched, SearchRestored
  <2> QED
    BY <1>3, <2>1, <2>2, <2>3
<1>9. EntryInv' /\ RoundInv' /\ FieldInv' /\ SectInv' /\ DueInv'
  BY <1>1, PlaceKept DEF Sound
<1> QED
  BY <1>1, <1>6, <1>7, <1>8, <1>9 DEF RInv, PlaceInv, WorkInv, KnownInv, ToolInv

(* The calls of the application, and a second start.                       *)
LEMMA RBeginCall ==
  ASSUME Shape, RInv, tool = NoTool, UNCHANGED toolvars, BeginCall
  PROVE  RInv'
<1> USE DEF Shape
<1>1. /\ UNCHANGED <<Slaves, wide, esc, rom, doubt, rewritten, tool, ebuf, list>>
      /\ UNCHANGED <<pc, slave, round>> /\ pc = "run" /\ call = NoCall
  BY DEF BeginCall, Idle, cachevars, toolvars
<1>2. find.pc = "idle" /\ job.pc = "idle" /\ job = NoJob
  BY <1>1 DEF PhaseInv, AccessPcs, NoTool, NoCall, RInv, PlaceInv, PurposeInv
<1>3. EntryInv' /\ RoundInv' /\ FieldInv' /\ SectInv' /\ DueInv'
  BY <1>1, PlaceKept DEF Sound
<1>4. PICK s \in Slaves :
        \/ \E a \in {FirstSection, FirstSection + 1}, op \in {"read", "write"} :
             /\ call' = [op |-> op, slave |-> s, addr |-> a, val |-> 7, pdi |-> eep_pdi[s]]
             /\ job' = Begin(op, s, a, 7) /\ UNCHANGED find
        \/ \E k \in 1 .. Len(Categories) :
             /\ call' = [op |-> "find", slave |-> s, addr |-> Categories[k], val |-> 0,
                         pdi |-> eep_pdi[s]]
             /\ find' = Search(s, Categories[k], TRUE) /\ UNCHANGED job
  BY DEF BeginCall
<1>5. CASE \E a \in {FirstSection, FirstSection + 1}, op \in {"read", "write"} :
             /\ call' = [op |-> op, slave |-> s, addr |-> a, val |-> 7, pdi |-> eep_pdi[s]]
             /\ job' = Begin(op, s, a, 7) /\ UNCHANGED find
  <2>1. PICK a \in {FirstSection, FirstSection + 1}, op \in {"read", "write"} :
             /\ call' = [op |-> op, slave |-> s, addr |-> a, val |-> 7, pdi |-> eep_pdi[s]]
             /\ job' = Begin(op, s, a, 7) /\ UNCHANGED find
    BY <1>5
  <2>2. /\ job'.kind = op /\ job'.slave = s /\ job'.addr = a /\ job'.val = 7
        /\ job'.pc \in {"force", "wait"}
    BY <2>1, BeginGoes DEF SlaveInv
  <2>3. /\ call'.op = op /\ call'.slave = s /\ call'.addr = a /\ call'.val = 7
        /\ op \in {"read", "write"}
    BY <2>1
  <2>4. PurposeInv'
    BY <1>1, <1>2, <2>1, <2>2, <2>3 DEF PurposeInv, AccessPcs
  <2>5. WrittenInv' /\ AskedInv' /\ WalkInv'
    BY <1>2, <2>1, <2>2 DEF WrittenInv, AskedInv, WalkInv
  <2> QED
    BY <1>1, <1>3, <2>4, <2>5 DEF RInv, PlaceInv, WorkInv, KnownInv, ToolInv
<1>6. CASE \E k \in 1 .. Len(Categories) :
             /\ call' = [op |-> "find", slave |-> s, addr |-> Categories[k], val |-> 0,
                         pdi |-> eep_pdi[s]]
             /\ find' = Search(s, Categories[k], TRUE) /\ UNCHANGED job
  <2>0. PICK k \in 1 .. Len(Categories) :
             /\ call' = [op |-> "find", slave |-> s, addr |-> Categories[k], val |-> 0,
                         pdi |-> eep_pdi[s]]
             /\ find' = Search(s, Categories[k], TRUE) /\ UNCHANGED job
    BY <1>6
  <2>7. PICK cat : cat = Categories[k]
    OBVIOUS
  <2>1. /\ cat = Categories[k] /\ call'.op = "find" /\ call'.addr = cat
        /\ find' = Search(s, cat, TRUE) /\ UNCHANGED job
    BY <2>0, <2>7
  <2>2. Starts(find', s, cat)
    BY <2>1, SearchStarts
  <2>3. cat # End[1]
    BY <2>1, StartupAssumption
  <2>4. PurposeInv'
    BY <1>1, <1>2, <2>1, <2>2, <2>3 DEF PurposeInv, AccessPcs, Starts
  <2>5. WalkInv'
    BY <1>1, <2>2 DEF WalkInv, Starts
  <2>6. WrittenInv' /\ AskedInv'
    BY <1>1, <2>1, WorkKept DEF RInv
  <2> QED
    BY <1>1, <1>3, <2>4, <2>5, <2>6 DEF RInv, PlaceInv, WorkInv, KnownInv, ToolInv
<1> QED
  BY <1>4, <1>5, <1>6

LEMMA REndCall ==
  ASSUME Shape, RInv, tool = NoTool, UNCHANGED toolvars, EndCall
  PROVE  RInv'
<1>1. /\ UNCHANGED <<Slaves, wide, esc, rom, doubt, rewritten, tool, ebuf, list>>
      /\ UNCHANGED <<pc, slave, round>> /\ pc = "run"
      /\ call' = NoCall /\ job' = NoJob /\ find' = NoFind
  BY DEF EndCall, Returning, cachevars, toolvars
<1>2. EntryInv' /\ RoundInv' /\ FieldInv' /\ SectInv' /\ DueInv'
  BY <1>1, PlaceKept DEF Sound
<1>3. PurposeInv'
  BY <1>1 DEF PurposeInv, AccessPcs, NoCall, NoFind, NoJob
<1>4. WrittenInv' /\ AskedInv' /\ WalkInv'
  BY <1>1 DEF WrittenInv, AskedInv, WalkInv, NoJob, NoFind
<1> QED
  BY <1>1, <1>2, <1>3, <1>4 DEF RInv, PlaceInv, WorkInv, KnownInv, ToolInv

LEMMA RStartAgain ==
  ASSUME Shape, RInv, tool = NoTool, UNCHANGED toolvars, StartAgain
  PROVE  RInv'
<1> USE DEF Shape
<1>1. /\ UNCHANGED <<Slaves, wide, esc, rom, job, find, doubt, call, tool, ebuf>>
      /\ pc = "run" /\ call = NoCall /\ rewritten' = {}
      /\ pc' = "detect" /\ slave' = 1 /\ round' = 0
      /\ list' = [s \in Slaves |-> NoEntry]
  BY DEF StartAgain, Idle, Proceed, toolvars
<1>2. find.pc = "idle" /\ job.pc = "idle" /\ job = NoJob
  BY <1>1 DEF PhaseInv, AccessPcs, NoTool, NoCall, RInv, PlaceInv, PurposeInv
<1>3. EntryInv'
  BY <1>1 DEF RInv, PlaceInv, EntryInv, Listed, NoEntry
<1>4. RoundInv' /\ PurposeInv'
  BY <1>1, <1>2 DEF RoundInv, PurposeInv, AccessPcs, NoCall
<1>5. DueInv' /\ FieldInv' /\ SectInv'
  BY <1>1 DEF DueInv, FieldInv, SectInv, Due, Collected, Past, Later
<1>6. WrittenInv' /\ AskedInv' /\ WalkInv'
  BY <1>1, <1>2 DEF WrittenInv, AskedInv, WalkInv, NoJob
<1> QED
  BY <1>1, <1>3, <1>4, <1>5, <1>6 DEF RInv, PlaceInv, WorkInv, KnownInv, ToolInv

(* eepromtool goes on after a cell.                                        *)
SameTask(n, t) == n.mode = t.mode /\ n.slave = t.slave /\ n.inc = t.inc
SamePass(n, t) == n.pass = t.pass /\ n.crc = t.crc /\ n.at = t.at
Writes(t) == t.pass \in {"alias", "crc"}
More(t) == ~Writes(t) /\ t.at + t.inc <= LastOf(t.pass)
AtEnd(t) == ~Writes(t) /\ ~(t.at + t.inc <= LastOf(t.pass))
ToolWent(n, t, buf, ok) ==
  \/ /\ t.pass = "alias" /\ ok
     /\ n.pass = "crc" /\ n.pc = t.pc /\ n.at = t.at /\ n.crc = t.crc /\ n.ok = t.ok
  \/ t.pass = "alias" /\ ~ok /\ n.pc = "done" /\ n.ok = FALSE /\ SamePass(n, t)
  \/ t.pass = "crc" /\ n.pc = "done" /\ SamePass(n, t)
  \/ /\ More(t) /\ n.pass = t.pass /\ n.pc = t.pc /\ n.at = t.at + t.inc
     /\ n.crc = t.crc /\ n.ok = t.ok
  \/ /\ AtEnd(t) /\ t.mode = "alias" /\ t.pass = "info"
     /\ n.pass = "alias" /\ n.pc = "force" /\ n.at = 0 /\ n.ok = t.ok
     /\ n.crc = SIIcrc([buf EXCEPT ![AliasCell][1] = Word])
  \/ /\ AtEnd(t) /\ t.mode = "read" /\ t.pass = "info" /\ Larger(buf)
     /\ n.pass = "rest" /\ n.pc = "force" /\ n.at = InfoLast + 1 /\ n.ok = t.ok
     /\ n.crc = t.crc
  \/ /\ AtEnd(t) /\ ~(t.mode = "alias" /\ t.pass = "info")
     /\ n.pc = "done" /\ SamePass(n, t)

LEMMA ToolContinues ==
  ASSUME NEW t, DOMAIN t = DOMAIN NoTool, NEW buf, NEW ok
  PROVE  /\ SameTask(Continued(t, buf, ok), t)
         /\ ToolWent(Continued(t, buf, ok), t, buf, ok)
<1> DEFINE n == Continued(t, buf, ok)
<1> USE DEF SameTask, ToolWent, SamePass, Writes, More, AtEnd
<1>1. CASE t.pass = "alias"
  BY <1>1 DEF Continued, Done, NoTool
<1>2. CASE t.pass = "crc"
  BY <1>2 DEF Continued, Done, NoTool
<1>3. CASE More(t)
  BY <1>3 DEF Continued, NoTool
<1>4. CASE AtEnd(t)
  <2>1. n = NextCall(t, buf, TRUE)
    BY <1>4 DEF Continued
  <2>2. CASE t.mode = "alias" /\ t.pass = "info"
    BY <1>4, <2>1, <2>2 DEF NextCall, Pass, NoTool
  <2>3. CASE t.mode = "read" /\ t.pass = "info" /\ Larger(buf)
    BY <1>4, <2>1, <2>3 DEF NextCall, Pass, NoTool
  <2>4. CASE /\ ~(t.mode = "alias" /\ t.pass = "info")
             /\ ~(t.mode = "read" /\ t.pass = "info" /\ Larger(buf))
    BY <1>4, <2>1, <2>4 DEF NextCall, Done, NoTool
  <2> QED
    BY <2>2, <2>3, <2>4
<1> QED
  BY <1>1, <1>2, <1>3, <1>4

(* While eepromtool works the lists and searches are empty. *)
LEMMA ToolAlone ==
  ASSUME Shape, RInv, tool # NoTool, tool' # NoTool,
         UNCHANGED <<Slaves, rom, list, find, call, pc, slave, round>>
  PROVE  /\ EntryInv' /\ RoundInv' /\ FieldInv' /\ SectInv' /\ WalkInv'
         /\ AskedInv' /\ DueInv'
         /\ find.pc = "idle" /\ call = NoCall /\ pc = "detect"
<1> USE DEF Shape
<1>1. find.pc = "idle" /\ call = NoCall /\ pc = "detect"
  BY DEF PhaseInv
<1>2. EntryInv' /\ RoundInv'
  BY DEF RInv, PlaceInv, EntryInv, Listed, RoundInv
<1>3. FieldInv' /\ SectInv' /\ WalkInv' /\ AskedInv' /\ DueInv'
  BY <1>1 DEF FieldInv, SectInv, WalkInv, AskedInv, DueInv, Sound
<1> QED
  BY <1>1, <1>2, <1>3

LEMMA ToolStays == Shape /\ tool # NoTool /\ tool'.slave = tool.slave => tool' # NoTool
BY DEF Shape, SlaveInv, PhaseInv, NoTool

LEMMA ToolKept ==
  ASSUME ToolInv, tool # NoTool, SamePass(tool', tool), tool'.mode = tool.mode,
         tool'.slave = tool.slave, tool'.ok = tool.ok,
         tool.pc # "done", tool'.pc # "done", tool'.inc \in {1, 2},
         tool'.pc = "access" /\ tool'.inc = 2 => wide[tool.slave] /\ IsRead,
         UNCHANGED <<rom, wide, ebuf>>, doubt \subseteq doubt'
  PROVE  ToolInv'
<1>1. ToolPlace'
  BY DEF ToolInv, ToolPlace, SamePass, IsRead
<1>2. tool.slave \notin doubt' => ToolProgress'
  BY DEF ToolInv, ToolProgress, SamePass, IsRead
<1> QED
  BY <1>1, <1>2 DEF ToolInv

LEMMA RToolTakes ==
  ASSUME Shape, RInv, tool # NoTool, TakeControl \/ ReadStatus
  PROVE  RInv'
<1> USE DEF Shape
<1>1. /\ UNCHANGED <<Slaves, wide, rom, list, find, call, pc, slave, round, job, ebuf>>
      /\ UNCHANGED rewritten /\ doubt \subseteq doubt'
      /\ tool.pc \in {"force", "claim", "status"}
  BY DEF TakeControl, ReadStatus, cachevars, startvars
<1>2. job.pc = "idle" /\ DOMAIN tool = DOMAIN NoTool /\ job = NoJob
  BY <1>1 DEF PhaseInv, RInv, PlaceInv, PurposeInv
<1>3. /\ SamePass(tool', tool) /\ tool'.mode = tool.mode
      /\ tool'.slave = tool.slave /\ tool'.ok = tool.ok
      /\ tool'.pc # "done" /\ (tool'.pc = "access" /\ tool'.inc = 2 => wide[tool.slave] /\ IsRead)
      /\ tool'.inc = tool.inc \/ tool'.inc \in {1, 2}
  <2>1. CASE TakeControl
    <3>1. tool' = [tool EXCEPT !.pc = IF tool.pc = "force" THEN "claim" ELSE "status"]
      BY <2>1 DEF TakeControl
    <3> QED
      BY <1>2, <3>1 DEF SamePass, NoTool
  <2>2. CASE ReadStatus
    <3>1. PICK i \in {1, 2} : /\ tool' = [tool EXCEPT !.pc = "access", !.inc = i]
                              /\ i = 2 => wide[tool.slave] /\ IsRead
      <4> DEFINE both == IF wide[tool.slave] /\ IsRead THEN 2 ELSE 1
      <4>1. \/ tool' = [tool EXCEPT !.pc = "access", !.inc = both]
            \/ tool' = [tool EXCEPT !.pc = "access", !.inc = 1]
        BY <2>2 DEF ReadStatus
      <4>2. both \in {1, 2} /\ (both = 2 => wide[tool.slave] /\ IsRead)
        OBVIOUS
      <4> HIDE DEF both
      <4> QED
        BY <4>1, <4>2
    <3> QED
      BY <1>2, <3>1 DEF SamePass, NoTool
  <2> QED
    BY <2>1, <2>2
<1>4. ToolInv'
  <2>1. tool'.inc \in {1, 2} /\ ToolInv
    BY <1>3 DEF RInv, ToolInv, ToolPlace
  <2> QED
    BY <1>1, <1>3, <2>1, ToolKept
<1>5. tool' # NoTool
  BY <1>3, ToolStays
<1>6. /\ EntryInv' /\ RoundInv' /\ FieldInv' /\ SectInv' /\ WalkInv' /\ AskedInv' /\ DueInv'
      /\ find.pc = "idle" /\ call = NoCall /\ pc = "detect"
  BY <1>1, <1>5, ToolAlone
<1>7. PurposeInv' /\ WrittenInv'
  BY <1>1, <1>2, <1>5, <1>6 DEF PurposeInv, WrittenInv, AccessPcs, NoJob, NoCall
<1> QED
  BY <1>4, <1>6, <1>7 DEF RInv, PlaceInv, WorkInv, KnownInv

LEMMA RToolBegins ==
  ASSUME Shape, RInv, tool # NoTool, ToolBegins
  PROVE  RInv'
<1> USE DEF Shape
<1>1. /\ UNCHANGED <<Slaves, wide, esc, rom, list, find, call, pc, slave, round, ebuf, tool>>
      /\ UNCHANGED <<doubt, rewritten>> /\ job' = Access /\ tool.pass \in Passes
  BY DEF ToolBegins, cachevars, startvars, toolvars, PhaseInv
<1>2. job'.pc = "wait" /\ Access' = Access
  BY <1>1 DEF Access, IsRead, Passes, readeepromAP, writeeepromAP, NoJob
<1>3. /\ EntryInv' /\ RoundInv' /\ FieldInv' /\ SectInv' /\ WalkInv' /\ AskedInv' /\ DueInv'
      /\ find.pc = "idle" /\ call = NoCall /\ pc = "detect"
  BY <1>1, ToolAlone
<1>4. PurposeInv' /\ WrittenInv'
  BY <1>1, <1>2, <1>3 DEF PurposeInv, WrittenInv, AccessPcs, NoCall
<1>5. ToolInv'
  BY <1>1 DEF RInv, ToolInv, ToolPlace, ToolProgress, IsRead
<1> QED
  BY <1>3, <1>4, <1>5 DEF RInv, PlaceInv, WorkInv, KnownInv

(* What the read of a cell, or of two, adds to the buffer. *)
Filled(n, buf, at, inc, d) ==
  \A c \in Cells : n[c] = IF c - at \in 0 .. inc - 1 THEN d[c - at + 1] ELSE buf[c]
Right(n, r, end) == \A c \in Cells : c < end => n[c] = r[c]

LEMMA BufferFilled ==
  ASSUME NEW r, NEW buf, NEW n, NEW at \in Cells, NEW inc \in {1, 2}, NEW d,
         Filled(n, buf, at, inc, d),
         d[1] = r[at], inc = 2 => d[2] = Beyond(r, at + 1), Right(buf, r, at)
  PROVE  Right(n, r, at + inc)
<1> SUFFICES ASSUME NEW c \in Cells, c < at + inc PROVE n[c] = r[c]
  BY DEF Right
<1>1. c \in Nat /\ at \in Nat
  BY SiiAssumption DEF Cells
<1>2. n[c] = IF c - at \in 0 .. inc - 1 THEN d[c - at + 1] ELSE buf[c]
  BY DEF Filled
<1>3. CASE c < at
  BY <1>1, <1>2, <1>3 DEF Right
<1>4. CASE c = at
  BY <1>1, <1>2, <1>4
<1>5. CASE c = at + 1 /\ inc = 2
  <2>1. n[c] = d[2]
    BY <1>1, <1>2, <1>5
  <2> QED
    BY <1>5, <2>1 DEF Beyond
<1> QED
  BY <1>1, <1>3, <1>4, <1>5

(* The checksum is that of the cells with the new alias. *)
WithAlias(buf) == [buf EXCEPT ![AliasCell][1] = Word]
HeadOf(buf, r) ==
  /\ \A c \in 0 .. CrcCell - 1 : c # AliasCell => buf[c] = r[c]
  /\ buf[AliasCell] = <<buf[AliasCell][1], r[AliasCell][2]>>

LEMMA CrcOfHead ==
  ASSUME NEW buf, NEW r, DOMAIN buf = Cells, HeadOf(buf, r), r[AliasCell][1] = Word,
         r[AliasCell] = <<r[AliasCell][1], r[AliasCell][2]>>
  PROVE  SIIcrc(WithAlias(buf)) = SIIcrc(r)
<1>1. AliasCell \in Cells /\ AliasCell \in 0 .. CrcCell - 1 /\ 0 .. CrcCell - 1 \subseteq Cells
  BY SiiAssumption, ToolAssumption DEF Cells
<1> DEFINE cell == [buf[AliasCell] EXCEPT ![1] = Word]
<1>2. cell = r[AliasCell]
  BY DEF HeadOf
<1>3. \A c \in 0 .. CrcCell - 1 : WithAlias(buf)[c] = IF c = AliasCell THEN cell ELSE buf[c]
  BY <1>1 DEF WithAlias
<1> HIDE DEF cell
<1>4. \A c \in 0 .. CrcCell - 1 : WithAlias(buf)[c] = r[c]
  BY <1>2, <1>3 DEF HeadOf
<1>5. [c \in 0 .. CrcCell - 1 |-> WithAlias(buf)[c]] = [c \in 0 .. CrcCell - 1 |-> r[c]]
  BY <1>4
<1> QED
  BY <1>5 DEF SIIcrc

LEMMA RToolEnds ==
  ASSUME Shape, ContentInv, RInv, tool # NoTool, ToolEnds
  PROVE  RInv'
<1> USE DEF Shape
<1> DEFINE s == tool.slave
           r == rom[s]
<1>1. /\ UNCHANGED <<Slaves, wide, esc, rom, list, find, call, pc, slave, round>>
      /\ UNCHANGED <<doubt, rewritten>> /\ job' = NoJob
      /\ tool.pc = "access" /\ job.pc = "end"
      /\ tool' = Continued(tool, ebuf', job.ok)
      /\ ebuf' = IF IsRead
                 THEN [c \in Cells |-> IF c - tool.at \in 0 .. tool.inc - 1
                                       THEN job.data[c - tool.at + 1] ELSE ebuf[c]]
                 ELSE ebuf
  BY DEF ToolEnds, cachevars, startvars
<1>2. /\ s \in Slaves /\ DOMAIN tool = DOMAIN NoTool
      /\ job.slave = s /\ job.kind = Access.kind /\ job.addr = Access.addr
      /\ job.val = Access.val /\ ToolPlace
  BY <1>1 DEF PhaseInv, RInv, PlaceInv, PurposeInv, ToolInv
<1>3. /\ tool.mode \in {"read", "write", "alias"} /\ tool.pass \in PassesOf(tool.mode)
      /\ tool.inc \in {1, 2} /\ tool.at \in 0 .. LastOf(tool.pass)
      /\ tool.pass = "rest" => InfoLast < LastCell
      /\ tool.ok = FALSE
      /\ tool.inc = 2 => wide[s] /\ IsRead
      /\ DOMAIN ebuf = Cells
      /\ tool.mode = "write" => \A c \in Cells : ebuf[c] = <<Word, Word>>
  BY <1>1, <1>2 DEF ToolPlace
<1>4. SameTask(tool', tool) /\ ToolWent(tool', tool, ebuf', job.ok)
  BY <1>1, <1>2, ToolContinues
<1>5. tool' # NoTool
  BY <1>4, ToolStays DEF SameTask
<1>6. /\ EntryInv' /\ RoundInv' /\ FieldInv' /\ SectInv' /\ WalkInv' /\ AskedInv' /\ DueInv'
      /\ find.pc = "idle" /\ call = NoCall /\ pc = "detect"
  BY <1>1, <1>5, ToolAlone
<1>7. PurposeInv' /\ WrittenInv'
  BY <1>1, <1>5, <1>6 DEF PurposeInv, WrittenInv, AccessPcs, NoJob, NoCall
<1>8. /\ LastOf(tool.pass) \in Nat /\ InfoLast \in Nat /\ LastCell \in Nat
      /\ LastOf(tool.pass) <= LastCell /\ InfoLast <= LastCell
      /\ AliasCell \in 0 .. CrcCell - 1 /\ CrcCell \in 1 .. InfoLast
      /\ tool.at \in Cells
  BY <1>3, SiiAssumption, ToolAssumption DEF LastOf, Cells
<1>9. ToolPlace'
  <2>1. DOMAIN ebuf' = Cells /\ (tool.mode = "write" => \A c \in Cells : ebuf'[c] = <<Word, Word>>)
    <3>1. tool.mode = "write" => ~IsRead
      BY <1>3 DEF PassesOf, IsRead
    <3> QED
      BY <1>1, <1>3, <3>1
  <2>2. tool'.pc = "access" => (tool'.pass \in {"info", "rest"} <=> IsRead)
    BY <1>1, <1>4 DEF ToolWent, IsRead, SamePass, More, AtEnd, Writes
  <2>3. /\ tool'.pass \in PassesOf(tool'.mode) /\ (tool'.pass = "rest" => InfoLast < LastCell)
        /\ tool'.mode = "alias" /\ tool'.pass = "info" => tool'.pc # "done"
        /\ tool'.pc # "done" => tool'.ok = FALSE
    BY <1>1, <1>3, <1>4 DEF SameTask, ToolWent, SamePass, More, AtEnd, Writes, PassesOf, Larger
  <2>4. tool'.at \in 0 .. LastOf(tool'.pass)
    BY <1>3, <1>4, <1>8 DEF ToolWent, SamePass, More, AtEnd, Writes, LastOf, Larger
  <2> QED
    BY <1>1, <1>3, <1>4, <2>1, <2>2, <2>3, <2>4 DEF ToolPlace, SameTask, IsRead
<1>10. ASSUME s \notin doubt PROVE ToolProgress'
  <2>1. ToolProgress
    BY <1>2, <1>10 DEF RInv, ToolInv
  <2>2. CASE IsRead
    <3>1. /\ job.kind = "read" /\ job.addr = tool.at
      BY <1>2, <2>2 DEF Access, IsRead, readeepromAP, NoJob
    <3>2. DataOf(s, tool.at, job.data)
      BY <1>1, <1>2, <1>10, <3>1 DEF ContentInv, ReadInv
    <3>3. \A c \in 0 .. tool.at - 1 : ebuf[c] = r[c]
      BY <1>1, <2>1, <2>2 DEF ToolProgress
    <3>4. \A c \in Cells : c < tool.at + tool.inc => ebuf'[c] = r[c]
      <4>1. PICK d : d = job.data
        OBVIOUS
      <4>2. PICK at \in Cells : at = tool.at
        BY <1>8
      <4>3. PICK inc \in {1, 2} : inc = tool.inc
        BY <1>3
      <4>4. PICK content : content = r
        OBVIOUS
      <4>5. Filled(ebuf', ebuf, at, inc, d)
        BY <1>1, <2>2, <4>1, <4>2, <4>3 DEF Filled
      <4>6. d[1] = content[at] /\ (inc = 2 => d[2] = Beyond(content, at + 1))
        BY <1>3, <3>2, <4>1, <4>2, <4>3, <4>4 DEF DataOf
      <4>7. Right(ebuf, content, at)
        BY <3>3, <4>2, <4>4 DEF Right, Cells
      <4>8. Right(ebuf', content, at + inc)
        BY <4>5, <4>6, <4>7, BufferFilled
      <4> QED
        BY <4>2, <4>3, <4>4, <4>8 DEF Right
    <3>5. tool.pass \in {"info", "rest"} /\ ~Writes(tool)
      BY <2>2 DEF IsRead, Writes
    <3>6. CASE More(tool)
      <4>1. /\ tool'.pass = tool.pass /\ tool'.pc = "access" /\ tool'.at = tool.at + tool.inc
            /\ tool.at + tool.inc <= LastOf(tool.pass)
        BY <1>1, <1>4, <3>5, <3>6 DEF ToolWent, More, AtEnd, Writes
      <4>2. \A c \in 0 .. tool'.at - 1 : ebuf'[c] = r[c]
        BY <1>3, <1>8, <3>4, <4>1 DEF Cells
      <4> QED
        BY <1>1, <1>4, <3>5, <4>1, <4>2 DEF ToolProgress, SameTask
    <3>7. CASE AtEnd(tool)
      <4>1. \A c \in 0 .. LastOf(tool.pass) : ebuf'[c] = r[c]
        BY <1>3, <1>8, <3>4, <3>7 DEF Cells, AtEnd
      <4>2. CASE tool.mode = "alias" /\ tool.pass = "info"
        <5>1. /\ tool'.pass = "alias" /\ tool'.pc = "force" /\ tool'.ok = FALSE
              /\ tool'.crc = SIIcrc([ebuf' EXCEPT ![AliasCell][1] = Word])
          BY <1>3, <1>4, <3>7, <4>2 DEF ToolWent, More, AtEnd, Writes
        <5>2. /\ \A c \in 0 .. CrcCell - 1 : ebuf'[c] = r[c]
              /\ ebuf'[AliasCell] = r[AliasCell] /\ AliasCell \in Cells
          BY <1>8, <4>1, <4>2 DEF LastOf, Cells
        <5>3. ebuf'[AliasCell] = <<ebuf'[AliasCell][1], r[AliasCell][2]>>
          BY <1>2, <5>2 DEF RInv, PlaceInv, EntryInv
        <5> QED
          BY <1>1, <1>4, <4>2, <5>1, <5>2, <5>3 DEF ToolProgress, SameTask, IsRead
      <4>3. CASE tool.mode = "read" /\ tool'.pass = "rest" /\ tool'.pc = "force"
        <5>1. tool'.at = InfoLast + 1 /\ tool.pass = "info"
          BY <1>1, <1>4, <3>5, <3>7, <4>3 DEF ToolWent, More, AtEnd, Writes
        <5>2. \A c \in 0 .. tool'.at - 1 : ebuf'[c] = r[c]
          BY <1>8, <4>1, <5>1 DEF LastOf
        <5> QED
          BY <1>1, <1>4, <4>3, <5>2 DEF ToolProgress, SameTask, IsRead
      <4>4. CASE tool'.pc = "done" /\ tool'.pass = tool.pass
        BY <1>1, <1>4, <3>5, <4>1, <4>4 DEF ToolProgress, SameTask, IsRead
      <4> QED
        BY <1>3, <1>4, <3>5, <3>7, <4>2, <4>3, <4>4 DEF ToolWent, More, AtEnd, Writes, SamePass, PassesOf
    <3> QED
      BY <3>5, <3>6, <3>7 DEF More, AtEnd
  <2>3. CASE tool.pass = "write"
    <3>1. job.kind = "write" /\ job.addr = tool.at /\ job.val = Word
      <4>1. tool.mode = "write"
        BY <1>3, <2>3 DEF PassesOf
      <4>2. job.kind = "write" /\ job.addr = tool.at /\ job.val = ebuf[tool.at][1]
        BY <1>2, <2>3 DEF Access, IsRead, writeeepromAP, NoJob
      <4>3. ebuf[tool.at] = <<Word, Word>>
        BY <1>3, <1>8, <4>1
      <4> QED
        BY <4>2, <4>3
    <3>2. r[tool.at][1] = Word
      BY <1>1, <1>2, <1>10, <3>1 DEF RInv, WorkInv, WrittenInv
    <3>3. tool.inc = 1
      BY <1>3, <2>3 DEF IsRead
    <3>4. \A c \in Cells : c < tool.at + 1 => r[c][1] = Word
      <4>1. \A c \in Cells : c < tool.at => r[c][1] = Word
        BY <2>1, <2>3 DEF ToolProgress
      <4>2. \A c \in Cells : c \in Nat
        BY DEF Cells
      <4> QED
        BY <1>8, <3>2, <4>1, <4>2
    <3>5. /\ tool'.pass = "write"
          /\ \/ tool'.pc = "access" /\ tool'.at = tool.at + 1
             \/ tool'.pc = "done" /\ tool.at + 1 > LastCell
      <4>1. tool.mode = "write" /\ LastOf(tool.pass) = LastCell /\ tool.at \in Nat
        BY <1>3, <2>3 DEF PassesOf, LastOf
      <4>2. More(tool) \/ AtEnd(tool)
        BY <2>3 DEF More, AtEnd, Writes
      <4>3. CASE More(tool)
        BY <1>1, <1>4, <2>3, <3>3, <4>3 DEF ToolWent, More, AtEnd, Writes
      <4>4. CASE AtEnd(tool)
        <5>1. tool'.pc = "done" /\ tool'.pass = tool.pass
          BY <1>4, <2>3, <4>1, <4>4 DEF ToolWent, More, AtEnd, Writes, SamePass
        <5>2. ~(tool.at + 1 <= LastCell)
          BY <3>3, <4>1, <4>4 DEF AtEnd
        <5> QED
          BY <1>8, <2>3, <4>1, <5>1, <5>2
      <4> QED
        BY <4>2, <4>3, <4>4
    <3>6. \A c \in Cells : c < tool'.at \/ tool'.pc = "done" => r[c][1] = Word
      <4>1. \A c \in Cells : c \in Nat /\ c <= LastCell
        BY <1>8 DEF Cells
      <4> QED
        BY <1>8, <3>4, <3>5, <4>1
    <3>7. tool'.mode = "write"
      BY <1>3, <1>4, <2>3 DEF SameTask, PassesOf
    <3> QED
      BY <1>1, <1>4, <3>5, <3>6, <3>7 DEF ToolProgress, SameTask, IsRead
  <2>4. CASE Writes(tool)
    <3>1. ebuf' = ebuf /\ tool.pass \in {"alias", "crc"} /\ tool.mode = "alias"
      BY <1>1, <1>3, <2>4 DEF Writes, IsRead, PassesOf
    <3>2. /\ tool.crc = SIIcrc([ebuf EXCEPT ![AliasCell][1] = Word])
          /\ \A c \in 0 .. CrcCell - 1 : c # AliasCell => ebuf[c] = r[c]
          /\ ebuf[AliasCell] = <<ebuf[AliasCell][1], r[AliasCell][2]>>
      BY <2>1, <3>1 DEF ToolProgress
    <3>3. CASE tool.pass = "alias"
      <4>1. job.kind = "write" /\ job.addr = AliasCell /\ job.val = Word
        BY <1>2, <3>3 DEF Access, IsRead, writeeepromAP, NoJob
      <4>2. r[AliasCell][1] = Word
        BY <1>1, <1>2, <1>10, <4>1 DEF RInv, WorkInv, WrittenInv
      <4>3. /\ tool'.crc = tool.crc
            /\ \/ tool'.pass = "crc" /\ tool'.pc = "access"
               \/ tool'.pass = "alias" /\ tool'.pc = "done" /\ tool'.ok = FALSE
        BY <1>1, <1>4, <3>3 DEF ToolWent, More, AtEnd, Writes, SamePass
      <4> QED
        BY <1>1, <1>4, <3>1, <3>2, <4>2, <4>3 DEF ToolProgress, SameTask, IsRead
    <3>4. CASE tool.pass = "crc"
      <4>1. job.kind = "write" /\ job.addr = CrcCell /\ job.val = tool.crc
        BY <1>2, <3>4 DEF Access, IsRead, writeeepromAP, NoJob
      <4>2. r[CrcCell][1] = tool.crc /\ r[AliasCell][1] = Word
        BY <1>1, <1>2, <1>10, <2>1, <3>4, <4>1 DEF RInv, WorkInv, WrittenInv, ToolProgress
      <4>3. tool'.crc = tool.crc /\ tool'.pass = "crc" /\ tool'.pc = "done"
        BY <1>1, <1>4, <3>4 DEF ToolWent, More, AtEnd, Writes, SamePass
      <4> QED
        BY <1>1, <1>4, <3>1, <3>2, <4>2, <4>3 DEF ToolProgress, SameTask, IsRead
    <3> QED
      BY <3>1, <3>3, <3>4
  <2> QED
    BY <1>3, <2>2, <2>3, <2>4 DEF PassesOf, IsRead, Writes
<1>11. ToolInv'
  BY <1>1, <1>4, <1>9, <1>10 DEF ToolInv, SameTask
<1> QED
  BY <1>6, <1>7, <1>11 DEF RInv, PlaceInv, WorkInv, KnownInv
-----------------------------------------------------------------------------
(* The frames of an access to a slave that stays free of doubt.            *)
LEMMA EffectMore ==
  ASSUME NEW j, NEW e, DOMAIN e = DOMAIN Controller
  PROVE  LET n == Effect(j, e)
         IN  /\ j.pc \in {"wait", "await", "data"} => n = e
             /\ j.pc # "latch" => n.latch = e.latch
             /\ j.pc = "latch" /\ e.owner = "master" /\ ~e.busy => n.latch = j.val
BY DEF Effect, Controller

LEMMA AnswerMore ==
  ASSUME NEW j, DOMAIN j = JobFields, j.nacks \in Nat, NEW e, ~Doubtful(j, e)
  PROVE  LET n == Answered(j, e)
         IN  /\ j.pc = "await" /\ n.pc = "data" /\ j.kind # "collect" => j.kind # "write"
             /\ j.pc = "await" /\ n.pc = "end" => ~e.nack /\ j.kind = "write"
             /\ j.pc = "wait" /\ j.kind = "collect" /\ n.pc # "wait" => ~e.nack
             /\ j.pc = "data" /\ j.kind = "collect" => n.data[1] = e.data[1]
<1> DEFINE n == Answered(j, e)
<1>1. CASE j.pc = "wait"
  BY <1>1 DEF Answered, Doubtful
<1>2. CASE j.pc = "await"
  <2>1. n = IF e.busy THEN j ELSE IF e.nack THEN Nacked(j) ELSE Acknowledged(j)
    BY <1>2 DEF Answered
  <2>2. CASE e.busy
    BY <1>2, <2>1, <2>2
  <2>3. CASE ~e.busy /\ e.nack
    <3>0. j.nacks + 1 < MaxNacks
      BY <1>2, <2>3, SiiAssumption DEF Doubtful
    <3>1. n = [Command(j) EXCEPT !.nacks = @ + 1]
      BY <2>1, <2>3, <3>0 DEF Nacked
    <3>2. Command(j).pc = CommandOf(j) /\ DOMAIN Command(j) = JobFields
      BY CommandGoes DEF SameAccess
    <3>3. n.pc = CommandOf(j)
      BY <3>1, <3>2
    <3> QED
      BY <1>2, <3>3 DEF CommandOf
  <2>4. CASE ~e.busy /\ ~e.nack
    <3>1. n = Acknowledged(j)
      BY <2>1, <2>4
    <3>2. CASE j.kind = "write"
      <4>1. n = Over(j, <<Zero, Zero>>, TRUE)
        BY <3>1, <3>2 DEF Acknowledged
      <4>2. Over(j, <<Zero, Zero>>, TRUE).pc = "end"
        BY OverGoes
      <4>3. n.pc = "end"
        BY <4>1, <4>2
      <4> QED
        BY <1>2, <2>4, <3>2, <4>3
    <3>3. CASE j.kind # "write"
      <4>1. n.pc = "data"
        BY <3>1, <3>3, GotoGoes DEF Acknowledged
      <4> QED
        BY <1>2, <3>3, <4>1
    <3> QED
      BY <3>2, <3>3
  <2> QED
    BY <2>2, <2>3, <2>4
<1>3. CASE j.pc = "data"
  <2>1. n = Over(j, IF j.kind = "collect" THEN <<e.data[1], Zero>> ELSE e.data, TRUE)
    BY <1>3 DEF Answered
  <2>2. Over(j, <<e.data[1], Zero>>, TRUE).data = <<e.data[1], Zero>>
    BY OverGoes
  <2>3. j.kind = "collect" => n.data = <<e.data[1], Zero>>
    BY <2>1, <2>2
  <2>4. j.kind = "collect" => n.data[1] = e.data[1]
    BY <2>3
  <2> QED
    BY <1>3, <2>4
<1> QED
  BY <1>1, <1>2, <1>3

(* "e" is what the frame makes of the slave, "n" where the access goes. *)
FrameSent(e, n) ==
  LET d == esc[job.slave]
      mine == d.owner = "master" /\ ~d.busy
  IN  /\ e.data = d.data
      /\ job.pc \in {"wait", "await", "data"} => e = d
      /\ job.pc # "command" => e.busy = d.busy /\ e.cmd = d.cmd /\ e.addr = d.addr
      /\ job.pc \notin {"clear", "command"} => e.nack = d.nack
      /\ job.pc # "latch" => e.latch = d.latch
      /\ job.pc = "latch" /\ mine /\ n.pc # "latch" => e.latch = job.val
      /\ job.pc = "command" /\ ~mine => e = d
      /\ job.pc = "command" /\ mine =>
           \/ e = d /\ n.pc = "command"
           \/ /\ e.busy /\ e.addr = job.addr
              /\ e.cmd = IF job.kind = "write" THEN "write" ELSE "read"
FrameGone(n) ==
  LET d == esc[job.slave]
  IN  /\ n.pc \in NextFrames(job) \cup {job.pc}
      /\ job.pc \in {"wait", "await"} /\ n.pc # job.pc => ~d.busy
      /\ job.pc = "await" /\ n.pc = "data" => job.kind # "write" /\ ~d.nack
      /\ job.pc = "await" /\ n.pc = "end" => ~d.nack /\ job.kind = "write"
      /\ job.pc = "wait" => n.pc # "end"
      /\ job.pc = "wait" /\ job.kind = "collect" /\ n.pc # "wait" => ~d.nack
      /\ job.pc = "data" /\ job.kind = "collect" /\ n.pc # "data" => n.data[1] = d.data[1]

LEMMA FrameGoes ==
  ASSUME Shape, Exchange, job.slave \notin doubt'
  PROVE  /\ doubt' = doubt /\ SameAccess(job', job)
         /\ FrameSent(esc'[job.slave], job') /\ FrameGone(job')
<1> DEFINE s == job.slave
           e == Effect(job, esc[s])
<1>1. /\ s \in Slaves /\ DOMAIN job = JobFields /\ job.cnt \in Nat /\ job.nacks \in Nat
      /\ job.pc \in Frames
      /\ DOMAIN esc[s] = DOMAIN Controller /\ esc = [t \in Slaves |-> esc[t]]
  BY DEF Exchange, Shape, JobInv, SlaveInv, Frames
<1>2. /\ doubt' = doubt /\ s \notin doubt
      /\ \/ /\ esc' = [esc EXCEPT ![s] = e] /\ job' = Answered(job, e)
            /\ ~Doubtful(job, e)
         \/ /\ esc' = [esc EXCEPT ![s] = e] \/ UNCHANGED esc
            /\ job' = Unanswered(job) /\ (Patient(job) \/ job.pc = "clear")
  BY Undoubted
<1>3. esc'[s] = e \/ (esc'[s] = esc[s] /\ (job.pc = "clear" \/ job'.pc = job.pc))
  BY <1>1, <1>2, UnansweredGoes
<1>4. SameAccess(job', job)
  BY <1>1, ExchangeGoes
<1>5. /\ e.data = esc[s].data
      /\ job.pc # "command" => e.busy = esc[s].busy /\ e.cmd = esc[s].cmd /\ e.addr = esc[s].addr
      /\ job.pc \notin {"clear", "command"} => e.nack = esc[s].nack
      /\ job.pc = "command" /\ ~(esc[s].owner = "master" /\ ~esc[s].busy) => e = esc[s]
      /\ job.pc = "command" /\ esc[s].owner = "master" /\ ~esc[s].busy =>
           /\ e.busy /\ e.addr = job.addr
           /\ e.cmd = IF job.kind = "write" THEN "write" ELSE "read"
  BY <1>1, EffectKeeps
<1>6. /\ job.pc \in {"wait", "await", "data"} => e = esc[s]
      /\ job.pc # "latch" => e.latch = esc[s].latch
      /\ job.pc = "latch" /\ esc[s].owner = "master" /\ ~esc[s].busy => e.latch = job.val
  BY <1>1, EffectMore
<1>7. FrameGone(job')
  <2>1. CASE job' = Answered(job, e) /\ ~Doubtful(job, e)
    <3>1. job'.pc \in NextFrames(job)
      BY <1>1, <2>1, AnsweredGoes
    <3>2. /\ job.pc \in {"wait", "await"} /\ job'.pc # job.pc => ~e.busy
          /\ job.pc = "await" /\ job'.pc = "data" /\ job.kind # "collect" => ~e.nack
      BY <1>1, <2>1, AwaitGoes
    <3>3. /\ job.pc = "await" /\ job'.pc = "data" /\ job.kind # "collect" => job.kind # "write"
          /\ job.pc = "await" /\ job'.pc = "end" => ~e.nack /\ job.kind = "write"
          /\ job.pc = "wait" /\ job.kind = "collect" /\ job'.pc # "wait" => ~e.nack
          /\ job.pc = "data" /\ job.kind = "collect" => job'.data[1] = e.data[1]
      BY <1>1, <2>1, AnswerMore
    <3>4. /\ job.pc = "wait" => job'.pc # "end"
          /\ job.pc = "await" => job.kind # "collect"
      BY <1>1, <3>1 DEF NextFrames, CommandOf, Frames, Shape, JobInv
    <3> HIDE DEF e
    <3> QED
      BY <1>5, <1>6, <3>1, <3>2, <3>3, <3>4 DEF FrameGone
  <2>2. CASE job' = Unanswered(job) /\ (Patient(job) \/ job.pc = "clear")
    <3>1. job'.pc = job.pc \/ (job.pc = "clear" /\ job'.pc = CommandOf(job))
      BY <1>1, <2>2, UnansweredGoes
    <3>2. job.pc = "clear" => NextFrames(job) = {CommandOf(job)}
      BY DEF NextFrames
    <3> QED
      BY <3>1, <3>2 DEF FrameGone
  <2> QED
    BY <1>2, <2>1, <2>2
<1> HIDE DEF e
<1>8. FrameSent(esc'[s], job')
  BY <1>1, <1>3, <1>5, <1>6 DEF FrameSent
<1> QED
  BY <1>2, <1>4, <1>7, <1>8

(* An EEPROM is worked on for a purpose that asks nothing of it. *)
LEMMA DueOfJob ==
  ASSUME Shape, RInv, tool = NoTool, job.pc \in Frames
  PROVE  Due(job.slave) = {} \/ job.kind = "collect"
<1> USE DEF Shape
<1>1. \/ pc \in AccessPcs /\ Wanted # << >>
      \/ find.pc # "idle" /\ pc \in {"section", "run"}
      \/ pc = "run"
  BY DEF PhaseInv, NoTool, Frames
<1>2. CASE pc \in AccessPcs /\ Wanted # << >>
  <2>1. job.kind = Wanted[1] /\ job.slave = slave /\ slave \in Nat
    BY <1>2 DEF RInv, PlaceInv, PurposeInv, Frames, SlaveInv
  <2>2. Wanted[1] # "collect" => pc \in {"request", "txdone", "pdi"}
    BY <1>2 DEF Wanted
  <2>3. pc \in {"request", "txdone", "pdi"} => Due(slave) = {}
    BY <2>1 DEF Due
  <2> QED
    BY <2>1, <2>2, <2>3
<1>3. CASE pc = "section" /\ find.pc # "idle"
  <2>1. job.slave = slave /\ slave \in Nat
    BY <1>3 DEF RInv, PlaceInv, PurposeInv, FindInv, Frames, SlaveInv
  <2> QED
    BY <1>3, <2>1 DEF Due
<1>4. CASE pc = "run"
  BY <1>4 DEF Due
<1> QED
  BY <1>1, <1>2, <1>3, <1>4

LEMMA NoWriteInStart ==
  ASSUME Shape, RInv, tool = NoTool, pc # "run", job.pc \in Frames
  PROVE  job.kind # "write"
<1> USE DEF Shape
<1>1. \/ pc \in AccessPcs /\ Wanted # << >>
      \/ find.pc # "idle"
  BY DEF PhaseInv, NoTool, Frames
<1>2. CASE pc \in AccessPcs /\ Wanted # << >>
  BY <1>2 DEF RInv, PlaceInv, PurposeInv, Frames, Wanted
<1>3. CASE find.pc # "idle"
  BY <1>3 DEF FindInv, Frames
<1> QED
  BY <1>1, <1>2, <1>3

LEMMA RExchange ==
  ASSUME Shape, ContentInv, RInv, Exchange, UNCHANGED <<startvars, toolvars>>
  PROVE  RInv'
<1> USE DEF Shape
<1> DEFINE s == job.slave
           d == esc[s]
           e == esc'[s]
<1>1. /\ UNCHANGED <<Slaves, wide, rom, find, list, pc, slave, round, call, tool, ebuf>>
      /\ job.pc \in Frames /\ doubt \subseteq doubt' /\ rewritten \subseteq rewritten'
      /\ job.kind # "write" => rewritten' = rewritten
  BY DEF Exchange, cachevars, startvars, toolvars
<1>2. /\ s \in Slaves /\ DOMAIN job = JobFields /\ job.cnt \in Nat
      /\ Sound' => Sound /\ s \notin doubt'
  BY <1>1 DEF JobInv, SlaveInv, Frames, Sound
<1>3. /\ job'.kind = job.kind /\ job'.slave = s /\ job'.addr = job.addr /\ job'.val = job.val
      /\ job'.pc \in NextFrames(job) \cup {job.pc, "end"}
  BY <1>2, ExchangeGoes DEF SameAccess
<1>4. job'.pc # "idle" /\ job.pc # "idle"
  BY <1>1, <1>3 DEF NextFrames, CommandOf, Frames
<1>5. EntryInv' /\ RoundInv' /\ FieldInv' /\ SectInv'
  BY <1>1, <1>2, PlaceKept
<1>6. PurposeInv'
  <2>1. tool = NoTool /\ pc # "run" => rewritten' = {}
    BY <1>1, NoWriteInStart DEF RInv, PlaceInv, PurposeInv
  <2>2. Wanted' = Wanted /\ Access' = Access
    BY <1>1 DEF Wanted, HasMailbox, Access, IsRead, readeepromAP, writeeepromAP
  <2> QED
    BY <1>1, <1>3, <1>4, <2>1, <2>2 DEF RInv, PlaceInv, PurposeInv
<1>7. WalkInv'
  BY <1>1, WalkKept DEF RInv, KnownInv
<1>8. ToolInv'
  BY <1>1 DEF RInv, ToolInv, ToolPlace, ToolProgress, IsRead
<1>9. ASSUME s \notin doubt'
      PROVE  /\ doubt' = doubt /\ s \notin doubt /\ FrameSent(e, job') /\ FrameGone(job')
             /\ job.pc \in Ready /\ job.kind # "collect" => d.owner = "master"
             /\ job.pc = "latch" \/ (job.pc = "command" /\ job.cnt = 0) => ~d.busy
             /\ job.pc = "clear" => ~d.busy
  <2>1. doubt' = doubt /\ FrameSent(e, job') /\ FrameGone(job')
    BY <1>9, FrameGoes
  <2>2. Settled(s)
    BY <1>1, <1>2 DEF PhaseInv, Settled, AccessPcs, NoTool, Frames
  <2>3. job.pc \in Ready /\ job.kind # "collect" => d.owner = "master"
    BY <1>2, <1>9, <2>1, <2>2 DEF JobInv, Ready, ContentInv, OwnInv, Busy, Frames, SlaveInv
  <2> QED
    BY <1>9, <2>1, <2>3 DEF ContentInv, ReadyInv
<1> HIDE DEF s, d, e
<1>10. WrittenInv'
  <2> SUFFICES ASSUME job.kind = "write", s \notin doubt'
               PROVE  /\ job'.pc # "data"
                      /\ job'.pc = "command" =>
                           /\ e.latch = job.val
                           /\ e.busy => e.addr = job.addr /\ e.cmd = "write"
                      /\ job'.pc = "await" =>
                           /\ e.addr = job.addr /\ e.cmd = "write" /\ e.latch = job.val
                           /\ ~e.busy /\ ~e.nack => rom[s][job.addr][1] = job.val
                      /\ job'.pc = "end" => rom[s][job.addr][1] = job.val
    BY <1>1, <1>3 DEF WrittenInv, e
  <2>1. /\ FrameSent(e, job') /\ FrameGone(job') /\ s \notin doubt
        /\ job.pc \in Ready => d.owner = "master"
        /\ job.pc \in {"latch", "clear"} \/ (job.pc = "command" /\ job.cnt = 0) => ~d.busy
    BY <1>9
  <2>2. /\ job.pc # "data"
        /\ job.pc = "command" => /\ d.latch = job.val
                                 /\ d.busy => d.addr = job.addr /\ d.cmd = "write"
        /\ job.pc = "await" =>
             /\ d.addr = job.addr /\ d.cmd = "write" /\ d.latch = job.val
             /\ ~d.busy /\ ~d.nack => rom[s][job.addr][1] = job.val
    BY <2>1 DEF RInv, WorkInv, WrittenInv, d, s
  <2>3. job.pc # "release"
    BY DEF JobInv
  <2>4. /\ job'.pc # "data"
        /\ job'.pc = "command" => job.pc \in {"latch", "command"}
        /\ job'.pc = "await" => job.pc \in {"command", "await"}
        /\ job'.pc = "end" => job.pc = "await"
    BY <1>1, <2>1, <2>2, <2>3 DEF FrameGone, NextFrames, CommandOf, Frames
  <2>5. CASE job.pc = "latch"
    <3>1. /\ job'.pc # "latch" => e.latch = job.val
          /\ ~e.busy
      BY <2>1, <2>5 DEF FrameSent, Ready, d, s
    <3> QED
      BY <2>4, <2>5, <3>1
  <2>6. CASE job.pc = "command"
    <3>1. e.latch = job.val /\ (e.busy => e.addr = job.addr /\ e.cmd = "write")
      BY <2>1, <2>2, <2>6 DEF FrameSent, d, s
    <3>2. job'.pc = "await" => e.busy
      BY <2>1, <2>6 DEF FrameSent, Ready, d, s
    <3> QED
      BY <2>4, <2>6, <3>1, <3>2
  <2>7. CASE job.pc = "await"
    <3>1. e = d
      BY <2>1, <2>7 DEF FrameSent, d, s
    <3>2. job'.pc = "end" => ~d.busy /\ ~d.nack
      BY <2>1, <2>7 DEF FrameGone, d, s
    <3> QED
      BY <2>2, <2>4, <2>7, <3>1, <3>2
  <2> QED
    BY <2>4, <2>5, <2>6, <2>7
<1>11. AskedInv'
  <2> SUFFICES ASSUME Sound', Sound, s \notin doubt'
               PROVE  /\ job.kind = "request" =>
                           /\ job'.pc \notin {"await", "data"}
                           /\ job'.pc = "command" /\ e.busy => e.addr = job.addr /\ e.cmd = "read"
                           /\ job'.pc = "end" => e.addr = job.addr /\ e.cmd = "read" /\ e.busy
                      /\ job.kind = "collect" =>
                           /\ job'.pc = "wait" => e = d /\ Outstanding(s, job.addr)
                           /\ job'.pc = "data" => ~e.busy /\ e.data[1] = rom[s][job.addr]
                           /\ job'.pc = "end" => job'.data[1] = rom[s][job.addr]
    BY <1>1, <1>2, <1>3 DEF AskedInv, Outstanding, e, d
  <2>1. /\ FrameSent(e, job') /\ FrameGone(job')
        /\ job.pc \in Ready /\ job.kind # "collect" => d.owner = "master"
        /\ job.pc \in {"latch", "clear"} \/ (job.pc = "command" /\ job.cnt = 0) => ~d.busy
    BY <1>9
  <2>2. ASSUME job.kind = "request"
        PROVE  /\ job'.pc \notin {"await", "data"}
               /\ job'.pc = "command" /\ e.busy => e.addr = job.addr /\ e.cmd = "read"
               /\ job'.pc = "end" => e.addr = job.addr /\ e.cmd = "read" /\ e.busy
    <3>1. /\ job.pc \notin {"await", "data", "release"}
          /\ job.pc = "command" /\ d.busy => d.addr = job.addr /\ d.cmd = "read"
      BY <2>2 DEF RInv, WorkInv, AskedInv, JobInv, d, s
    <3>2. /\ job'.pc \notin {"await", "data"}
          /\ job'.pc = "command" => job.pc \in {"wait", "clear", "latch", "command"}
          /\ job'.pc = "end" => job.pc = "command"
      BY <1>1, <2>1, <2>2, <3>1 DEF FrameGone, NextFrames, CommandOf, Frames
    <3>3. CASE job.pc \in {"wait", "clear", "latch"}
      <4>1. job'.pc = "command" => ~e.busy
        BY <2>1, <3>3 DEF FrameSent, FrameGone, d, s
      <4> QED
        BY <3>2, <3>3, <4>1
    <3>4. CASE job.pc = "command"
      <4>1. d.owner = "master"
        BY <2>1, <2>2, <3>4 DEF Ready
      <4>2. e.busy => e.addr = job.addr /\ e.cmd = "read"
        BY <2>1, <2>2, <3>1, <3>4 DEF FrameSent, d, s
      <4>3. job'.pc = "end" => e.busy
        BY <2>1, <3>4, <4>1 DEF FrameSent, d, s
      <4> QED
        BY <3>2, <3>4, <4>2, <4>3
    <3> QED
      BY <3>2, <3>3, <3>4
  <2>3. ASSUME job.kind = "collect"
        PROVE  /\ job'.pc = "wait" => e = d /\ Outstanding(s, job.addr)
               /\ job'.pc = "data" => ~e.busy /\ e.data[1] = rom[s][job.addr]
               /\ job'.pc = "end" => job'.data[1] = rom[s][job.addr]
    <3>1. job.pc \in {"wait", "data"}
      BY <1>1, <2>3 DEF JobInv
    <3>2. /\ job.pc = "wait" => Outstanding(s, job.addr)
          /\ job.pc = "data" => ~d.busy /\ d.data[1] = rom[s][job.addr]
      BY <2>3 DEF RInv, WorkInv, AskedInv, d, s
    <3>3. e = d
      BY <2>1, <3>1 DEF FrameSent, d, s
    <3>4. /\ job.pc = "wait" => job'.pc # "end" /\ (job'.pc = "data" => ~d.busy /\ ~d.nack)
          /\ job.pc = "data" => job'.pc \in {"data", "end"}
          /\ job.pc = "data" /\ job'.pc = "end" => job'.data[1] = d.data[1]
      BY <2>1, <2>3 DEF FrameGone, NextFrames, d, s
    <3>5. job.pc = "wait" /\ job'.pc = "data" => d.data[1] = rom[s][job.addr]
      BY <3>2, <3>4 DEF Outstanding, d
    <3> QED
      BY <3>1, <3>2, <3>3, <3>4, <3>5
  <2> QED
    BY <2>2, <2>3
<1>12. DueInv'
  <2> SUFFICES ASSUME Sound', Sound, s \notin doubt', NEW t \in Slaves, NEW a \in Due(t)'
               PROVE  Outstanding(t, a)'
    BY <1>1, <1>2 DEF DueInv
  <2>1. a \in Due(t)
    BY <1>1 DEF Due, NextAsked, LastAsked, Mail, HasMailbox
  <2>2. Outstanding(t, a)
    BY <2>1 DEF RInv, WorkInv, DueInv
  <2>3. esc'[t] = esc[t]
    <3>1. CASE t # s
      BY <3>1, OthersLeft DEF s
    <3>2. CASE t = s
      <4>1. job.kind = "collect"
        BY <1>1, <2>1, <3>2, DueOfJob DEF Sound, s
      <4>2. job.pc \in {"wait", "data"}
        BY <1>1, <4>1 DEF JobInv
      <4> QED
        BY <1>9, <3>2, <4>2 DEF FrameSent, e, s
    <3> QED
      BY <3>1, <3>2
  <2> QED
    BY <1>1, <2>2, <2>3 DEF Outstanding
<1> QED
  BY <1>5, <1>6, <1>7, <1>8, <1>10, <1>11, <1>12 DEF RInv, PlaceInv, WorkInv, KnownInv
-----------------------------------------------------------------------------
(* The slaves finish commands, and their processors take control.          *)
CellSet(n, r, e) ==
  /\ n = [c \in Cells |-> n[c]]
  /\ \A c \in Cells : n[c] = IF c = e.addr THEN <<e.latch, r[c][2]>> ELSE r[c]

LEMMA CellUpdated ==
  ASSUME NEW r, NEW e, r = [c \in Cells |-> r[c]], \A c \in Cells : r[c] = <<r[c][1], r[c][2]>>
  PROVE  CellSet([r EXCEPT ![e.addr][1] = e.latch], r, e)
<1> DEFINE n == [r EXCEPT ![e.addr][1] = e.latch]
           cell == [r[e.addr] EXCEPT ![1] = e.latch]
<1>1. e.addr \in Cells => cell = <<e.latch, r[e.addr][2]>>
  <2> SUFFICES ASSUME e.addr \in Cells PROVE cell = <<e.latch, r[e.addr][2]>>
    OBVIOUS
  <2>1. PICK a, b : r[e.addr] = <<a, b>>
    OBVIOUS
  <2> QED
    BY <2>1
<1>2. n = [r EXCEPT ![e.addr] = cell]
  OBVIOUS
<1> HIDE DEF cell
<1>3. n = [c \in Cells |-> n[c]] /\ \A c \in Cells : n[c] = IF c = e.addr THEN cell ELSE r[c]
  BY <1>2
<1> QED
  BY <1>1, <1>3 DEF CellSet

Finished(s) ==
  LET d == esc[s]
      e == esc'[s]
  IN  /\ d.busy /\ ~e.busy /\ e.addr = d.addr /\ e.cmd = d.cmd /\ e.latch = d.latch
      /\ \A t \in Slaves : t # s => esc'[t] = esc[t] /\ rom'[t] = rom[t]
      /\ \/ e.nack /\ rom'[s] = rom[s]
         \/ d.cmd = "read" /\ e.data = ReadOf(s, d) /\ rom'[s] = rom[s]
         \/ d.cmd = "write" /\ CellSet(rom'[s], rom[s], d)
         \/ d.cmd \notin {"read", "write"} /\ rom'[s] = rom[s]

LEMMA DoneWrites ==
  ASSUME SlaveInv, EntryInv, EepromDone
  PROVE  \E s \in Slaves : Finished(s)
<1>1. PICK s \in Slaves :
        /\ esc[s].busy
        /\ \/ /\ esc' = [esc EXCEPT ![s].busy = FALSE,
                                    ![s].data = IF esc[s].cmd = "read" THEN ReadOf(s, esc[s]) ELSE @]
              /\ rom' = IF esc[s].cmd = "write"
                        THEN [rom EXCEPT ![s][esc[s].addr][1] = esc[s].latch] ELSE rom
           \/ /\ esc' = [esc EXCEPT ![s].busy = FALSE, ![s].nack = TRUE]
              /\ rom' = rom
  BY DEF EepromDone, ReadOf
<1>2. /\ esc = [t \in Slaves |-> esc[t]] /\ rom = [t \in Slaves |-> rom[t]]
      /\ DOMAIN esc[s] = DOMAIN Controller
      /\ rom[s] = [c \in Cells |-> rom[s][c]]
      /\ \A c \in Cells : rom[s][c] = <<rom[s][c][1], rom[s][c][2]>>
  BY DEF SlaveInv, EntryInv
<1>3. CASE esc' = [esc EXCEPT ![s].busy = FALSE, ![s].nack = TRUE] /\ rom' = rom
  BY <1>1, <1>2, <1>3 DEF Finished, Controller
<1>4. CASE /\ esc' = [esc EXCEPT ![s].busy = FALSE,
                                 ![s].data = IF esc[s].cmd = "read" THEN ReadOf(s, esc[s]) ELSE @]
           /\ rom' = IF esc[s].cmd = "write"
                     THEN [rom EXCEPT ![s][esc[s].addr][1] = esc[s].latch] ELSE rom
  <2>1. /\ \A t \in Slaves : t # s => esc'[t] = esc[t]
        /\ ~esc'[s].busy /\ esc'[s].addr = esc[s].addr /\ esc'[s].cmd = esc[s].cmd
        /\ esc'[s].latch = esc[s].latch
        /\ esc[s].cmd = "read" => esc'[s].data = ReadOf(s, esc[s])
    BY <1>2, <1>4 DEF Controller
  <2>2. CASE esc[s].cmd = "write"
    <3>1. PICK cells : cells = [rom[s] EXCEPT ![esc[s].addr][1] = esc[s].latch]
      OBVIOUS
    <3>2. PICK r : r = rom[s]
      OBVIOUS
    <3>3. PICK d : d = esc[s]
      OBVIOUS
    <3>4. CellSet(cells, r, d)
      <4>1. /\ r = [c \in Cells |-> r[c]] /\ \A c \in Cells : r[c] = <<r[c][1], r[c][2]>>
            /\ cells = [r EXCEPT ![d.addr][1] = d.latch]
        BY <1>2, <3>1, <3>2, <3>3
      <4> QED
        BY <4>1, CellUpdated
    <3>5. rom' = [rom EXCEPT ![s] = cells]
      BY <1>4, <2>2, <3>1
    <3>6. rom'[s] = cells /\ \A t \in Slaves : t # s => rom'[t] = rom[t]
      BY <1>2, <3>5
    <3>7. CellSet(rom'[s], rom[s], esc[s])
      BY <3>2, <3>3, <3>4, <3>6
    <3> QED
      BY <1>1, <2>1, <2>2, <3>6, <3>7 DEF Finished
  <2>3. CASE esc[s].cmd # "write"
    BY <1>1, <1>4, <2>1, <2>3 DEF Finished
  <2> QED
    BY <2>2, <2>3
<1> QED
  BY <1>1, <1>3, <1>4

(* A write that is finished is the one under way, of the application or of *)
(* eepromtool.                                                             *)
LEMMA FinishedIs ==
  ASSUME Shape, ContentInv, RInv, NEW s \in Slaves, Finished(s), s \notin doubt,
         rom'[s] # rom[s]
  PROVE  /\ job.slave = s /\ job.kind = "write" /\ job.pc \in {"command", "await"}
         /\ esc[s].addr = job.addr /\ esc[s].latch = job.val
         /\ CellSet(rom'[s], rom[s], esc[s])
         /\ find.pc = "idle" /\ (tool = NoTool => pc = "run")
<1> USE DEF Shape
<1>1. esc[s].busy /\ esc[s].cmd = "write" /\ CellSet(rom'[s], rom[s], esc[s])
  BY DEF Finished
<1>2. job.slave = s /\ job.kind = "write" /\ job.pc \in {"command", "await"}
  BY <1>1 DEF ContentInv, WriteInv
<1>3. esc[s].addr = job.addr /\ esc[s].latch = job.val
  BY <1>1, <1>2 DEF RInv, WorkInv, WrittenInv
<1>4. find.pc = "idle"
  BY <1>2 DEF FindInv
<1>5. tool = NoTool => pc = "run"
  BY <1>2, NoWriteInStart DEF Frames
<1> QED
  BY <1>1, <1>2, <1>3, <1>4, <1>5

LEMMA ROutstanding ==
  ASSUME NEW s \in Slaves, Finished(s), NEW t \in Slaves, NEW a, Outstanding(t, a),
         rom'[t] = rom[t]
  PROVE  Outstanding(t, a)'
<1>1. CASE t = s
  BY <1>1 DEF Outstanding, Finished, ReadOf
<1>2. CASE t # s
  BY <1>2 DEF Outstanding, Finished
<1> QED
  BY <1>1, <1>2

LEMMA WriteInCells ==
  ASSUME Shape, RInv, job.kind = "write", job.pc \in Frames
  PROVE  job.addr \in Cells
<1> USE DEF Shape
<1>1. /\ LastCell \in Int /\ FirstSection \in Int /\ CrcCell \in Int /\ AliasCell \in Int
      /\ 0 <= FirstSection /\ FirstSection + 1 <= LastCell
      /\ 0 <= AliasCell /\ AliasCell <= LastCell
      /\ 0 <= CrcCell /\ CrcCell <= LastCell /\ InfoLast <= LastCell /\ InfoLast \in Int
  BY SiiAssumption, ToolAssumption
<1>2. job.pc # "idle" /\ find.pc = "idle"
  BY DEF Frames, FindInv
<1>3. CASE tool # NoTool
  <2>1. job.kind = Access.kind /\ job.addr = Access.addr
    BY <1>2, <1>3 DEF RInv, PlaceInv, PurposeInv
  <2>2. tool.pass \in Passes /\ tool.at \in 0 .. LastOf(tool.pass)
    BY <1>3 DEF PhaseInv, RInv, ToolInv, ToolPlace
  <2>3. ~IsRead
    <3> SUFFICES ASSUME IsRead PROVE FALSE
      OBVIOUS
    <3>1. Access = readeepromAP(tool.at)
      BY DEF Access, IsRead
    <3> QED
      BY <2>1, <3>1 DEF readeepromAP, NoJob
  <2>4. job.addr \in {tool.at, AliasCell, CrcCell}
    BY <2>1, <2>2, <2>3 DEF Passes, IsRead, Access, writeeepromAP, NoJob
  <2>5. tool.at \in Cells
    BY <1>1, <2>2 DEF LastOf, Cells
  <2> QED
    BY <1>1, <2>4, <2>5 DEF Cells
<1>4. CASE tool = NoTool
  <2>1. pc = "run"
    BY <1>4, NoWriteInStart
  <2>2. call.op \in {"read", "write"}
    BY <1>2, <1>4, <2>1 DEF PhaseInv, AccessPcs, NoTool
  <2>3. job.addr \in {FirstSection, FirstSection + 1}
    BY <2>1, <2>2 DEF RInv, PlaceInv, PurposeInv
  <2> QED
    BY <1>1, <2>3 DEF Cells
<1> QED
  BY <1>3, <1>4

LEMMA RDone ==
  ASSUME Shape, ContentInv, RInv, EepromDone, UNCHANGED <<startvars, toolvars>>
  PROVE  RInv'
<1> USE DEF Shape
<1>1. UNCHANGED <<Slaves, wide, job, find, doubt, rewritten, list, pc, slave, round, call, tool, ebuf>>
  BY DEF EepromDone, cachevars, startvars, toolvars
<1>2. PICK s \in Slaves : Finished(s)
  BY DoneWrites DEF RInv, PlaceInv
<1>3. /\ \A t \in Slaves : t # s => esc'[t] = esc[t] /\ rom'[t] = rom[t]
      /\ rom'[s] = rom[s] \/ CellSet(rom'[s], rom[s], esc[s])
      /\ SlaveInv'
  BY <1>1, <1>2, ShapeSlaves DEF Finished
<1>4. EntryInv'
  <2>1. /\ \A t \in Slaves : rom[t] = [c \in Cells |-> rom[t][c]]
        /\ \A t \in Slaves, c \in Cells : rom[t][c] = <<rom[t][c][1], rom[t][c][2]>>
                                          /\ rom[t][c][2] \in Nat
        /\ Listed(list)
    BY DEF RInv, PlaceInv, EntryInv
  <2>2. ASSUME NEW t \in Slaves
        PROVE  /\ rom'[t] = [c \in Cells |-> rom'[t][c]]
               /\ \A c \in Cells : /\ rom'[t][c] = <<rom'[t][c][1], rom'[t][c][2]>>
                                   /\ rom'[t][c][2] \in Nat
    <3>1. CASE rom'[t] = rom[t]
      BY <2>1, <3>1
    <3>2. CASE CellSet(rom'[t], rom[t], esc[t])
      <4>1. rom'[t] = [c \in Cells |-> rom'[t][c]]
        BY <3>2 DEF CellSet
      <4>2. ASSUME NEW c \in Cells
            PROVE  /\ rom'[t][c] = <<rom'[t][c][1], rom'[t][c][2]>>
                   /\ rom'[t][c][2] \in Nat
        <5>1. /\ rom[t][c] = <<rom[t][c][1], rom[t][c][2]>> /\ rom[t][c][2] \in Nat
          BY <2>1
        <5>2. rom'[t][c] = <<esc[t].latch, rom[t][c][2]>> \/ rom'[t][c] = rom[t][c]
          BY <3>2 DEF CellSet
        <5> QED
          BY <5>1, <5>2
      <4> QED
        BY <4>1, <4>2
    <3> QED
      BY <1>3, <3>1, <3>2
  <2>3. Listed(list)'
    BY <1>1, <2>1 DEF Listed
  <2> QED
    BY <1>1, <2>2, <2>3 DEF EntryInv
<1>5. RoundInv' /\ PurposeInv'
  <2>1. Wanted' = Wanted /\ Access' = Access
    BY <1>1 DEF Wanted, HasMailbox, Access, IsRead, readeepromAP, writeeepromAP
  <2> QED
    BY <1>1, <2>1 DEF RInv, PlaceInv, RoundInv, PurposeInv
<1>6. WrittenInv'
  <2> SUFFICES ASSUME job.kind = "write", job.slave \notin doubt PROVE WrittenInv'
    BY <1>1 DEF WrittenInv
  <2>1. job.slave \in Slaves
    BY DEF JobInv, RInv, PlaceInv, PurposeInv, NoJob
  <2>2. WrittenInv
    BY DEF RInv, WorkInv
  <2>3. CASE job.slave # s
    BY <1>1, <1>3, <2>1, <2>2, <2>3 DEF WrittenInv
  <2>4. CASE job.slave = s
    <3>1. /\ ~esc'[s].busy /\ esc'[s].addr = esc[s].addr /\ esc'[s].cmd = esc[s].cmd
          /\ esc'[s].latch = esc[s].latch /\ esc[s].busy
      BY <1>2 DEF Finished
    <3>2. job.pc = "await" /\ ~esc'[s].nack => rom'[s][job.addr][1] = job.val
      <4> SUFFICES ASSUME job.pc = "await", ~esc'[s].nack PROVE rom'[s][job.addr][1] = job.val
        OBVIOUS
      <4>1. esc[s].addr = job.addr /\ esc[s].cmd = "write" /\ esc[s].latch = job.val
        BY <2>2, <2>4 DEF WrittenInv
      <4>2. CellSet(rom'[s], rom[s], esc[s])
        BY <1>2, <4>1 DEF Finished
      <4>3. job.addr \in Cells
        BY WriteInCells DEF Frames
      <4>4. PICK c \in Cells : c = job.addr
        BY <4>3
      <4>5. rom'[s][c] = <<esc[s].latch, rom[s][c][2]>>
        BY <4>1, <4>2, <4>4 DEF CellSet
      <4> QED
        BY <4>1, <4>4, <4>5
    <3>3. job.pc = "end" => rom'[s][job.addr][1] = job.val
      <4> SUFFICES ASSUME job.pc = "end" PROVE rom'[s][job.addr][1] = job.val
        OBVIOUS
      <4>1. rom[s][job.addr][1] = job.val
        BY <2>2, <2>4 DEF WrittenInv
      <4>2. rom'[s] = rom[s]
        BY <1>2, <2>4, FinishedIs
      <4> QED
        BY <4>1, <4>2
    <3> QED
      BY <1>1, <2>2, <2>4, <3>1, <3>2, <3>3 DEF WrittenInv
  <2> QED
    BY <2>3, <2>4
<1>7. AskedInv'
  <2> SUFFICES ASSUME Sound, job.kind \in {"request", "collect"} PROVE AskedInv'
    BY <1>1 DEF AskedInv, Sound
  <2>1. job.slave \in Slaves
    BY DEF JobInv, RInv, PlaceInv, PurposeInv, NoJob
  <2>2. rom'[job.slave] = rom[job.slave]
    BY <1>2, <1>3, <2>1, FinishedIs DEF Sound
  <2>3. \A a : Outstanding(job.slave, a) => Outstanding(job.slave, a)'
    <3> SUFFICES ASSUME NEW a, Outstanding(job.slave, a) PROVE Outstanding(job.slave, a)'
      BY <1>1
    <3>1. PICK t \in Slaves : t = job.slave
      BY <2>1
    <3>2. Outstanding(t, a)'
      BY <1>2, <2>2, <3>1, ROutstanding
    <3> QED
      BY <1>1, <3>1, <3>2 DEF Outstanding
  <2>4. /\ esc'[job.slave].busy => esc'[job.slave] = esc[job.slave]
        /\ ~esc[job.slave].busy => esc'[job.slave] = esc[job.slave]
    BY <1>2, <1>3, <2>1 DEF Finished
  <2>5. AskedInv
    BY DEF RInv, WorkInv
  <2> QED
    BY <1>1, <2>2, <2>3, <2>4, <2>5 DEF AskedInv
<1>8. DueInv' /\ FieldInv' /\ SectInv'
  <2> SUFFICES ASSUME Sound PROVE DueInv' /\ FieldInv' /\ SectInv'
    BY <1>1 DEF DueInv, FieldInv, SectInv, Sound
  <2>1. CASE rom'[s] = rom[s]
    <3>1. rom' = rom
      BY <1>1, <1>3, <2>1 DEF SlaveInv
    <3>2. FieldInv' /\ SectInv'
      BY <1>1, <3>1, PlaceKept DEF Sound
    <3>3. \A t \in Slaves : Due(t)' = Due(t)
      BY <1>1 DEF Due, NextAsked, LastAsked, Mail, HasMailbox
    <3>4. \A t \in Slaves : \A a \in Due(t) : Outstanding(t, a)'
      <4> SUFFICES ASSUME NEW t \in Slaves, NEW a \in Due(t) PROVE Outstanding(t, a)'
        OBVIOUS
      <4>1. Outstanding(t, a) /\ rom'[t] = rom[t]
        BY <3>1 DEF RInv, WorkInv, DueInv
      <4> QED
        BY <1>2, <4>1, ROutstanding
    <3> QED
      BY <1>1, <3>2, <3>3, <3>4 DEF DueInv
  <2>2. CASE rom'[s] # rom[s]
    <3>1. pc = "run"
      BY <1>2, <2>2, FinishedIs DEF Sound
    <3> QED
      BY <1>1, <3>1 DEF DueInv, FieldInv, SectInv, Due, Collected, Past, Later
  <2> QED
    BY <2>1, <2>2
<1>9. WalkInv'
  <2> SUFFICES ASSUME find.pc # "idle", Untouched(find.slave) PROVE WalkInv'
    BY <1>1 DEF WalkInv, Untouched
  <2>1. find.slave \in Slaves /\ find.slave \notin doubt
    BY DEF FindInv, Untouched
  <2>2. rom'[find.slave] = rom[find.slave]
    BY <1>2, <1>3, <2>1, FinishedIs
  <2>3. \A cat : Content(find.slave, cat)' = Content(find.slave, cat)
    BY <1>1, <2>2 DEF Content
  <2>4. WalkInv
    BY DEF RInv, KnownInv
  <2> QED
    BY <1>1, <2>2, <2>3, <2>4 DEF WalkInv
<1>10. ToolInv'
  <2> SUFFICES ASSUME tool # NoTool PROVE ToolInv'
    BY <1>1 DEF ToolInv
  <2>1. ToolPlace /\ tool.slave \in Slaves
    BY DEF RInv, ToolInv, PhaseInv
  <2>2. ToolPlace'
    BY <1>1, <2>1 DEF ToolPlace, IsRead
  <2>3. ASSUME tool.slave \notin doubt PROVE ToolProgress'
    <3>1. ToolProgress
      BY <2>3 DEF RInv, ToolInv
    <3>2. CASE rom'[tool.slave] = rom[tool.slave]
      BY <1>1, <3>1, <3>2 DEF ToolProgress, IsRead
    <3>3. CASE rom'[tool.slave] # rom[tool.slave]
      <4>1. s = tool.slave
        BY <1>3, <2>1, <3>3
      <4>2. /\ job.kind = "write" /\ job.pc \in {"command", "await"}
            /\ esc[s].addr = job.addr /\ esc[s].latch = job.val
            /\ CellSet(rom'[s], rom[s], esc[s])
        BY <1>2, <2>3, <3>3, <4>1, FinishedIs
      <4>3. /\ job.kind = Access.kind /\ job.addr = Access.addr /\ job.val = Access.val
            /\ tool.pc = "access"
        BY <4>2 DEF RInv, PlaceInv, PurposeInv, PhaseInv
      <4>4. \A c \in Cells : rom'[s][c] = IF c = job.addr THEN <<job.val, rom[s][c][2]>> ELSE rom[s][c]
        BY <4>2 DEF CellSet
      <4>5. tool.pass \in {"write", "alias", "crc"} /\ ~IsRead
        BY <2>1, <4>2, <4>3 DEF PhaseInv, Passes, Access, IsRead, readeepromAP, NoJob
      <4>6. AliasCell \in Cells /\ AliasCell \in 0 .. CrcCell - 1 /\ CrcCell \in Nat
            /\ 0 .. CrcCell - 1 \subseteq Cells
        BY SiiAssumption, ToolAssumption DEF Cells
      <4>7. CASE tool.pass = "write"
        <5>1. job.addr = tool.at /\ tool.at \in Int
          <6>1. job.addr = tool.at
            BY <4>3, <4>7 DEF Access, IsRead, writeeepromAP, NoJob
          <6>2. tool.at \in Int
            BY <2>1 DEF ToolPlace
          <6> QED
            BY <6>1, <6>2
        <5>2. \A c \in Cells : c < tool.at => rom'[s][c] = rom[s][c]
          <6> SUFFICES ASSUME NEW c \in Cells, c < tool.at PROVE rom'[s][c] = rom[s][c]
            OBVIOUS
          <6>1. c # job.addr
            BY <5>1 DEF Cells
          <6> QED
            BY <4>4, <6>1
        <5> QED
          BY <1>1, <3>1, <4>1, <4>3, <4>7, <5>2, <2>1 DEF ToolProgress, IsRead, ToolPlace, PassesOf
      <4>8. CASE tool.pass = "alias"
        <5>1. job.addr = AliasCell
          BY <4>3, <4>8 DEF Access, IsRead, writeeepromAP, NoJob
        <5>2. /\ \A c \in 0 .. CrcCell - 1 : c # AliasCell => rom'[s][c] = rom[s][c]
              /\ rom'[s][AliasCell][2] = rom[s][AliasCell][2]
          <6>1. ASSUME NEW c \in 0 .. CrcCell - 1, c # AliasCell PROVE rom'[s][c] = rom[s][c]
            BY <4>4, <4>6, <5>1, <6>1
          <6>2. rom'[s][AliasCell] = <<job.val, rom[s][AliasCell][2]>>
            BY <4>4, <4>6, <5>1
          <6> QED
            BY <6>1, <6>2
        <5> QED
          BY <1>1, <3>1, <4>1, <4>3, <4>8, <5>2, <2>1 DEF ToolProgress, IsRead, ToolPlace, PassesOf
      <4>9. CASE tool.pass = "crc"
        <5>1. job.addr = CrcCell
          BY <4>3, <4>9 DEF Access, IsRead, writeeepromAP, NoJob
        <5>2. /\ \A c \in 0 .. CrcCell - 1 : rom'[s][c] = rom[s][c]
              /\ rom'[s][AliasCell] = rom[s][AliasCell]
          <6>1. ASSUME NEW c \in 0 .. CrcCell - 1 PROVE rom'[s][c] = rom[s][c]
            <7>1. c \in Cells /\ c # CrcCell
              BY <4>6
            <7> QED
              BY <4>4, <5>1, <7>1
          <6> QED
            BY <4>6, <6>1
        <5> QED
          BY <1>1, <3>1, <4>1, <4>3, <4>9, <5>2, <2>1 DEF ToolProgress, IsRead, ToolPlace, PassesOf
      <4> QED
        BY <4>5, <4>7, <4>8, <4>9
    <3> QED
      BY <3>2, <3>3
  <2> QED
    BY <1>1, <2>2, <2>3 DEF ToolInv
<1> QED
  BY <1>4, <1>5, <1>6, <1>7, <1>8, <1>9, <1>10 DEF RInv, PlaceInv, WorkInv, KnownInv

LEMMA RPdi ==
  ASSUME Shape, RInv, PdiTakes, UNCHANGED <<startvars, toolvars>>
  PROVE  RInv'
<1> USE DEF Shape
<1>1. /\ UNCHANGED <<Slaves, wide, rom, job, find, doubt, rewritten, list, pc, slave, round>>
      /\ UNCHANGED <<call, tool, ebuf>>
  BY DEF PdiTakes, cachevars, startvars, toolvars
<1>2. ASSUME NEW t \in Slaves
      PROVE  /\ esc'[t].busy = esc[t].busy /\ esc'[t].addr = esc[t].addr
             /\ esc'[t].cmd = esc[t].cmd /\ esc'[t].latch = esc[t].latch
             /\ esc'[t].nack = esc[t].nack /\ esc'[t].data = esc[t].data
  <2>1. PICK s \in Slaves :
          esc' = [u \in Slaves |-> IF u = s THEN [esc[s] EXCEPT !.owner = "pdi"] ELSE esc[u]]
    BY PdiGoes
  <2>2. DOMAIN esc[s] = DOMAIN Controller
    BY DEF SlaveInv
  <2> QED
    BY <2>1, <2>2 DEF Controller
<1>3. \A t \in Slaves : \A a : Outstanding(t, a) <=> Outstanding(t, a)'
  BY <1>1, <1>2 DEF Outstanding
<1>4. EntryInv' /\ RoundInv' /\ FieldInv' /\ SectInv'
  BY <1>1, PlaceKept DEF Sound
<1>5. PurposeInv'
  <2>1. Wanted' = Wanted /\ Access' = Access
    BY <1>1 DEF Wanted, HasMailbox, Access, IsRead, readeepromAP, writeeepromAP
  <2> QED
    BY <1>1, <2>1 DEF RInv, PlaceInv, PurposeInv
<1>6. job.kind \in Kinds => job.slave \in Slaves
  BY DEF JobInv, RInv, PlaceInv, PurposeInv, NoJob, Kinds
<1>7. WrittenInv'
  BY <1>1, <1>2, <1>6 DEF RInv, WorkInv, WrittenInv, Kinds
<1>8. AskedInv'
  <2> SUFFICES ASSUME Sound, job.kind \in {"request", "collect"} PROVE AskedInv'
    BY <1>1 DEF AskedInv, Sound
  <2>1. PICK t \in Slaves : t = job.slave
    BY <1>6 DEF Kinds
  <2>2. Outstanding(job.slave, job.addr) => Outstanding(job.slave, job.addr)'
    BY <1>1, <1>2, <2>1 DEF Outstanding
  <2> QED
    BY <1>1, <1>2, <2>1, <2>2 DEF RInv, WorkInv, AskedInv, Sound
<1>9. DueInv'
  <2>1. \A t \in Slaves : Due(t)' = Due(t)
    BY <1>1 DEF Due, NextAsked, LastAsked, Mail, HasMailbox
  <2> QED
    BY <1>1, <1>3, <2>1 DEF RInv, WorkInv, DueInv, Sound
<1>10. WalkInv'
  BY <1>1, WalkKept DEF RInv, KnownInv
<1>11. ToolInv'
  BY <1>1 DEF RInv, ToolInv, ToolPlace, ToolProgress, IsRead
<1> QED
  BY <1>4, <1>5, <1>7, <1>8, <1>9, <1>10, <1>11 DEF RInv, PlaceInv, WorkInv, KnownInv

LEMMA RStutters ==
  ASSUME RInv, UNCHANGED allvars
  PROVE  RInv'
<1>1. /\ UNCHANGED <<Slaves, wide, esc, rom, job, find, doubt, rewritten, list, pc, slave, round>>
      /\ UNCHANGED <<call, tool, ebuf>>
  BY DEF allvars, vars, siivars, startvars, toolvars
<1>2. EntryInv' /\ RoundInv' /\ FieldInv' /\ SectInv' /\ DueInv'
  BY <1>1, PlaceKept DEF Sound
<1>3. Wanted' = Wanted /\ Access' = Access
  BY <1>1 DEF Wanted, HasMailbox, Access, IsRead, readeepromAP, writeeepromAP
<1>4. PurposeInv'
  BY <1>1, <1>3 DEF RInv, PlaceInv, PurposeInv
<1>5. WrittenInv' /\ AskedInv'
  BY <1>1, WorkKept DEF RInv
<1>6. WalkInv'
  BY <1>1, WalkKept DEF RInv, KnownInv
<1>7. ToolInv'
  BY <1>1 DEF RInv, ToolInv, ToolPlace, ToolProgress, IsRead
<1> QED
  BY <1>2, <1>4, <1>5, <1>6, <1>7 DEF RInv, PlaceInv, WorkInv, KnownInv

LEMMA RStep ==
  ASSUME Shape, ContentInv, CacheIsOfSlave, RInv, [BothNext]_allvars
  PROVE  RInv'
<1>1. CASE (EepromDone \/ PdiTakes \/ Exchange) /\ UNCHANGED <<startvars, toolvars>>
  BY <1>1, RDone, RPdi, RExchange
<1>2. CASE tool = NoTool /\ Next /\ UNCHANGED toolvars
  <2>1. CASE Detect \/ ReadTopology \/ Lookup \/ ConfigDc \/ Sync \/ PlugIn
    BY <1>2, <2>1, RIdle
  <2>2. CASE Broadcast \/ BeginAccess \/ EndAccess
    BY <1>2, <2>2, RBroadcast, RBeginAccess, REndAccess
  <2>3. CASE BeginSection \/ EndSection
    BY <1>2, <2>3, RBeginSection, REndSection
  <2>4. CASE (GetCached \/ GetUncached \/ EnterCache \/ Restore) /\ UNCHANGED startvars
    BY <1>2, <2>4, RSearch
  <2>5. CASE BeginCall \/ EndCall \/ StartAgain
    BY <1>2, <2>5, RBeginCall, REndCall, RStartAgain
  <2> QED
    BY <1>1, <1>2, <2>1, <2>2, <2>3, <2>4, <2>5 DEF Next, Master
<1>3. CASE tool # NoTool /\ (TakeControl \/ ReadStatus \/ ToolBegins \/ ToolEnds)
  BY <1>3, RToolTakes, RToolBegins, RToolEnds
<1>4. CASE UNCHANGED allvars
  BY <1>4, RStutters
<1> QED
  BY <1>1, <1>2, <1>3, <1>4 DEF BothNext, ToolNext

LEMMA RInit == ToolInit => RInv
<1> SUFFICES ASSUME ToolInit PROVE RInv
  OBVIOUS
<1>1. PICK stock \in Stocks :
        /\ Slaves = 1 .. Len(stock)
        /\ rom = [s \in Slaves |-> stock[s].rom]
        /\ InitSii /\ pc = "detect" /\ slave = 1 /\ round = 0 /\ call = NoCall
        /\ list = [s \in Slaves |-> NoEntry]
  <2>1. Init
    BY DEF ToolInit
  <2> QED
    BY <2>1, Zenon DEF Init
<1>2. job = NoJob /\ find = NoFind /\ doubt = {} /\ rewritten = {}
  BY <1>1 DEF InitSii
<1>3. EntryInv
  <2>1. Listed(list)
    BY <1>1 DEF Listed, NoEntry
  <2>2. \A s \in Slaves : rom[s] \in [Cells -> Nat \X Nat]
    BY <1>1, StartupAssumption
  <2>3. ASSUME NEW s \in Slaves, NEW c \in Cells
        PROVE  rom[s][c] = <<rom[s][c][1], rom[s][c][2]>> /\ rom[s][c][2] \in Nat
    <3>1. rom[s][c] \in Nat \X Nat
      BY <2>2
    <3> QED
      BY <3>1
  <2> QED
    BY <2>1, <2>2, <2>3 DEF EntryInv
<1>4. tool # NoTool => tool.pc = "force"
  <2>1. CASE tool # NoTool
    <3>1. PICK m \in Modes, s \in Slaves :
            tool = [NoTool EXCEPT !.pc = "force", !.mode = m, !.slave = s,
                                  !.pass = IF m = "write" THEN "write" ELSE "info"]
      BY <2>1 DEF ToolInit
    <3> QED
      BY <3>1 DEF NoTool
  <2> QED
    BY <2>1
<1>5. RoundInv /\ PurposeInv
  BY <1>1, <1>2 DEF RoundInv, PurposeInv, AccessPcs, NoJob, NoFind
<1>6. WrittenInv /\ AskedInv
  BY <1>2 DEF WrittenInv, AskedInv, NoJob
<1>7. DueInv /\ FieldInv /\ SectInv
  BY <1>1 DEF DueInv, Due, FieldInv, SectInv, Collected, Past, Later
<1>8. WalkInv
  BY <1>2 DEF WalkInv, NoFind
<1>9. ToolInv
  <2> SUFFICES ASSUME tool # NoTool PROVE ToolPlace /\ ToolProgress
    BY DEF ToolInv
  <2>1. PICK m \in Modes, s \in Slaves :
          tool = [NoTool EXCEPT !.pc = "force", !.mode = m, !.slave = s,
                                !.pass = IF m = "write" THEN "write" ELSE "info"]
    BY DEF ToolInit
  <2>2. /\ tool.pc = "force" /\ tool.mode = m /\ tool.at = 0 /\ tool.inc = 1 /\ ~tool.ok
        /\ tool.ok = FALSE
        /\ tool.pass = IF m = "write" THEN "write" ELSE "info"
    BY <2>1 DEF NoTool
  <2>3. m \in {"read", "write", "alias"} /\ 0 \in 0 .. InfoLast /\ 0 \in 0 .. LastCell
    BY SiiAssumption, ToolAssumption
  <2>4. ebuf = [c \in Cells |-> IF tool.mode = "write" THEN <<Word, Word>> ELSE Zero]
    BY DEF ToolInit
  <2>5. ToolPlace
    BY <2>2, <2>3, <2>4 DEF ToolPlace, PassesOf, LastOf
  <2>6. ToolProgress
    BY <2>2, <2>3 DEF ToolProgress, IsRead, Cells
  <2> QED
    BY <2>5, <2>6
<1> QED
  BY <1>3, <1>5, <1>6, <1>7, <1>8, <1>9 DEF RInv, PlaceInv, WorkInv, KnownInv

(* What is known of the EEPROMs of the slaves is right all the time.       *)
THEOREM ContentIsKnown == BothSpec => []RInv
<1>1. IInv /\ RInv /\ [BothNext]_allvars => RInv'
  BY RStep DEF IInv
<1> QED
  BY <1>1, RInit, InvariantHolds, PTL DEF BothSpec

LEMMA ConfigIsRight == Shape /\ RInv => ConfigRight
<1> SUFFICES ASSUME Shape, RInv, NEW s \in Slaves, Configured(s), doubt = {}
             PROVE  /\ \A c \in {Manuf, Id, Rev, Ser, RxMbx} : list[s].field[c] = rom[s][c]
                    /\ HasMailbox(s) => /\ list[s].field[MbxProto] = rom[s][MbxProto]
                                        /\ list[s].field[TxMbx][1] = rom[s][TxMbx][1]
                    /\ \A k \in 1 .. Len(Categories) :
                         list[s].sect[k] = Content(FirstLike(s), Categories[k])
  BY DEF ConfigRight
<1>1. pc \in {"pdi", "dc"} /\ (pc = "dc" \/ s <= slave)
  BY DEF Configured
<1>2. Sound
  BY <1>1 DEF Sound, Shape, PhaseInv
<1>3. s \in Nat /\ slave \in Nat
  BY DEF Shape, SlaveInv
<1>4. /\ \A k : Collected(s, k)
      /\ Past(s, Later \ {"tx"}) /\ Past(s, {"lookup", "section", "pdi"}) /\ Past(s, {"pdi"})
  BY <1>1, <1>3 DEF Collected, Past, Later
<1>5. FieldInv /\ SectInv
  BY DEF RInv, KnownInv
<1>6. \A c \in {Manuf, Id, Rev, Ser, RxMbx} : list[s].field[c] = rom[s][c]
  <2>1. \A k \in 1 .. Len(Rounds) : list[s].field[Rounds[k]] = rom[s][Rounds[k]]
    BY <1>2, <1>4, <1>5 DEF FieldInv
  <2>2. \A c \in {Manuf, Id, Rev, Ser, RxMbx} : \E k \in 1 .. Len(Rounds) : c = Rounds[k]
    <3>1. /\ 1 \in 1 .. Len(Rounds) /\ Manuf = Rounds[1]
          /\ 2 \in 1 .. Len(Rounds) /\ Id = Rounds[2]
          /\ 3 \in 1 .. Len(Rounds) /\ Rev = Rounds[3]
          /\ 4 \in 1 .. Len(Rounds) /\ Ser = Rounds[4]
          /\ 5 \in 1 .. Len(Rounds) /\ RxMbx = Rounds[5]
      BY DEF Rounds
    <3> QED
      BY <3>1
  <2> QED
    BY <2>1, <2>2
<1>7. HasMailbox(s) => /\ list[s].field[MbxProto] = rom[s][MbxProto]
                       /\ list[s].field[TxMbx][1] = rom[s][TxMbx][1]
  BY <1>2, <1>4, <1>5 DEF FieldInv
<1>8. \A k \in 1 .. Len(Categories) : list[s].sect[k] = Content(FirstLike(s), Categories[k])
  BY <1>2, <1>4, <1>5 DEF SectInv
<1> QED
  BY <1>6, <1>7, <1>8

LEMMA CallsAreExact == Shape /\ ContentInv /\ RInv => CallsExact
<1> SUFFICES ASSUME Shape, ContentInv, RInv, Returning, call.slave \notin doubt
             PROVE  LET s == call.slave IN
                    CASE call.op = "read" -> job.data[1] = rom[s][call.addr]
                      [] call.op = "write" -> job.ok => rom[s][call.addr][1] = call.val
                      [] call.op = "find" -> \/ find.val = Content(s, call.addr)
                                             \/ \E c \in Cells : <<s, c>> \in rewritten
  BY DEF CallsExact
<1>1. /\ pc = "run" /\ call.op \in {"read", "write", "find"}
      /\ IF call.op = "find" THEN find.pc = "end" ELSE job.pc = "end"
  BY DEF Returning, Shape, PhaseInv
<1>2. call.op \in {"read", "write"} =>
        /\ job.kind = call.op /\ job.slave = call.slave
        /\ job.addr = call.addr /\ job.val = call.val
  BY <1>1 DEF RInv, PlaceInv, PurposeInv
<1>3. CASE call.op = "read"
  BY <1>1, <1>2, <1>3 DEF ContentInv, ReadInv, DataOf
<1>4. CASE call.op = "write"
  BY <1>1, <1>2, <1>4 DEF RInv, WorkInv, WrittenInv
<1>5. CASE call.op = "find"
  <2>1. find.pc = "end" /\ find.slave = call.slave /\ find.cat = call.addr
    BY <1>1, <1>5 DEF Shape, PhaseInv, RInv, PlaceInv, PurposeInv
  <2>2. Untouched(call.slave) => find.val = Content(call.slave, call.addr)
    BY <2>1 DEF RInv, KnownInv, WalkInv
  <2> QED
    BY <1>5, <2>2 DEF Untouched
<1> QED
  BY <1>1, <1>3, <1>4, <1>5

LEMMA ToolIsExact == Shape /\ RInv => ToolExact
<1> SUFFICES ASSUME Shape, RInv, tool.pc = "done", tool.slave \notin doubt
             PROVE  LET r == rom[tool.slave] IN
                    CASE tool.mode = "read" -> \A c \in 0 .. LastOf(tool.pass) : ebuf[c] = r[c]
                      [] tool.mode = "write" -> \A c \in Cells : r[c][1] = Word
                      [] tool.mode = "alias" ->
                           tool.ok => r[AliasCell][1] = Word /\ r[CrcCell][1] = SIIcrc(r)
  BY DEF ToolExact
<1>1. tool # NoTool
  BY DEF NoTool
<1>2. ToolPlace /\ ToolProgress /\ tool.slave \in Slaves
  BY <1>1 DEF RInv, ToolInv, Shape, PhaseInv
<1>3. CASE tool.mode = "read"
  BY <1>2, <1>3 DEF ToolProgress
<1>4. CASE tool.mode = "write"
  <2>1. tool.pass = "write"
    BY <1>2, <1>4 DEF ToolPlace, PassesOf
  <2> QED
    BY <1>2, <1>4, <2>1 DEF ToolProgress
<1>5. CASE tool.mode = "alias"
  <2> SUFFICES ASSUME tool.ok
               PROVE  /\ rom[tool.slave][AliasCell][1] = Word
                      /\ rom[tool.slave][CrcCell][1] = SIIcrc(rom[tool.slave])
    BY <1>5
  <2>1. tool.pass \in {"info", "alias", "crc"} /\ tool.pass # "info"
    BY <1>2, <1>5 DEF ToolPlace, PassesOf
  <2>2. tool.pass = "crc"
    BY <1>2, <2>1 DEF ToolProgress
  <2>3. PICK r : r = rom[tool.slave]
    OBVIOUS
  <2>4. /\ tool.crc = SIIcrc(WithAlias(ebuf)) /\ HeadOf(ebuf, r)
        /\ r[AliasCell][1] = Word /\ r[CrcCell][1] = tool.crc
    BY <1>2, <2>2, <2>3 DEF ToolProgress, WithAlias, HeadOf
  <2>5. r[AliasCell] = <<r[AliasCell][1], r[AliasCell][2]>>
    <3>1. AliasCell \in Cells
      BY SiiAssumption, ToolAssumption DEF Cells
    <3> QED
      BY <1>2, <2>3, <3>1 DEF RInv, PlaceInv, EntryInv
  <2>6. SIIcrc(WithAlias(ebuf)) = SIIcrc(r)
    BY <1>2, <2>4, <2>5, CrcOfHead DEF ToolPlace
  <2> QED
    BY <2>3, <2>4, <2>6
<1> QED
  BY <1>2, <1>3, <1>4, <1>5 DEF ToolPlace

(* What the master takes for the content of an EEPROM is its content: the  *)
(* fields and sections ecx_config_init keeps, what the calls of the        *)
(* application read, find and report as written, and what eepromtool reads *)
(* and writes, for any slaves with any EEPROMs, any delays, and any faults *)
(* that make it give up no access.                                         *)
THEOREM WhatIsReadIsRight == BothSpec => []EepromsRight
<1>1. IInv /\ RInv => EepromsRight
  BY ConfigIsRight, CallsAreExact, ToolIsExact DEF IInv, EepromsRight, ContentRight
<1> QED
  BY <1>1, InvariantHolds, ContentIsKnown, PTL

-----------------------------------------------------------------------------
(* What a step of the sensor or of its master program leaves alone.        *)
LEMMA SensorLeaves ==
  ASSUME SensorNext
  PROVE  program' = program
BY DEF SensorNext, Program, Measure, Trouble, Return, Open, Config, Map, Request, Poll,
       NotReady, Publish, Dump, ReadState, CheckState, Stop, world

-----------------------------------------------------------------------------
(* The constructor and the shutdown of the controller.  As long as no call *)
(* to the arm has failed, the controller knows an arm it has enabled as    *)
(* enabled until the last call of a shutdown is made, so that a shutdown   *)
(* which starts anew makes all the calls again.                            *)
Released == ~logged /\ ~powered /\ ~servo /\ ~connected /\ ~enabled

ReleaseInv ==
  ~failed =>
    /\ cpc \in {"absent", "login", "spin"} => Released
    /\ cpc = "ended" => Released \/ abandoned
    /\ cpc \in {"created", "run", "disable", "power", "logout"} => connected /\ enabled
    /\ cpc \in {"power_on", "enable"} => connected
    /\ cpc \in {"power", "logout"} => ~servo
    /\ cpc = "logout" => ~powered

ControlInv ==
  /\ cpc \in {"absent", "login", "power_on", "enable", "created", "run", "disable", "power",
             "logout", "spin", "ended"}
  /\ ReleaseInv

LEMMA ControlStep ==
  ASSUME ControlInv, [RobotNext]_robotvars
  PROVE  ControlInv'
<1> USE DEF ControlInv, ReleaseInv, Released
<1>1. CASE UNCHANGED controlvars
  BY <1>1 DEF controlvars, armvars, nodevars
<1>2. CASE Login \/ PowerOn \/ EnableRobot \/ Spin
  <2>1. CASE Login
    BY <2>1 DEF Login
  <2>2. CASE PowerOn
    BY <2>2 DEF PowerOn
  <2>3. CASE EnableRobot
    BY <2>3 DEF EnableRobot
  <2>4. CASE Spin
    BY <2>4 DEF Spin, armvars
  <2>5. QED
    BY <1>2, <2>1, <2>2, <2>3, <2>4
<1>3. CASE Callback \/ ControlLoop
  BY <1>3 DEF Callback, ControlLoop, armvars
<1>4. CASE TimeOver \/ Interrupt
  <2>1. UNCHANGED <<logged, powered, servo, connected, enabled, failed, abandoned>>
    BY <1>4 DEF TimeOver, Interrupt, armvars
  <2>2. CASE connected
    <3>1. cpc' \in {"disable", "logout"} /\ (enabled => cpc' = "disable")
      BY <1>4, <2>2 DEF TimeOver, Interrupt, Destroy
    <3>2. failed \/ enabled
      BY <1>4, <2>2 DEF TimeOver, Interrupt
    <3>3. QED
      BY <2>1, <2>2, <3>1, <3>2
  <2>3. CASE ~connected
    <3>1. cpc' \in {"spin", "ended"}
      BY <1>4, <2>3 DEF TimeOver, Interrupt, Destroy, Halted
    <3>2. failed \/ Released
      BY <1>4, <2>3 DEF TimeOver, Interrupt
    <3>3. QED
      BY <2>1, <3>1, <3>2
  <2>4. QED
    BY <2>2, <2>3
<1>5. CASE Disconnect
  <2>1. CASE cpc = "disable"
    BY <1>5, <2>1 DEF Disconnect, CallAfter, Cleared
  <2>2. CASE cpc = "power"
    BY <1>5, <2>2 DEF Disconnect, CallAfter, Cleared
  <2>3. CASE cpc = "logout"
    BY <1>5, <2>3 DEF Disconnect, CallAfter, Cleared, Halted
  <2>4. QED
    BY <1>5, <2>1, <2>2, <2>3 DEF Disconnect
<1>6. CASE DisconnectFails
  BY <1>6 DEF DisconnectFails, Halted
<1>7. CASE InterruptUncaught
  BY <1>7 DEF InterruptUncaught, armvars
<1>8. QED
  BY <1>1, <1>2, <1>3, <1>4, <1>5, <1>6, <1>7 DEF RobotNext, ControllerNext, robotvars

(* An arm that jaka_publisher.py enabled is disabled, powered off and      *)
(* logged out when the program has ended, wherever the first shutdown was  *)
(* interrupted, unless a call to the arm fails, the constructor is         *)
(* interrupted or the last shutdown is.                                    *)
THEOREM ArmIsReleased == RobotSpec => []ArmReleased
<1>1. RobotInit => ControlInv
  BY DEF RobotInit, ControlInv, ReleaseInv, Released
<1>2. ControlInv /\ [RobotNext]_robotvars => ControlInv'
  BY ControlStep
<1>3. ControlInv => ArmReleased
  BY DEF ControlInv, ReleaseInv, Released, ArmReleased
<1>4. QED
  BY <1>1, <1>2, <1>3, PTL DEF RobotSpec

-----------------------------------------------------------------------------
(* The forces the node publishes.                                          *)

PcTypes == {"open", "config", "map", "request", "poll", "wait", "dump", "read", "act",
            "ended"}

(* The start counts its polls from 0 up to Polls.                          *)
PollsInv ==
  /\ ppc \in {"config", "map", "request"} => polls = 0
  /\ ppc = "poll" => polls < Polls

SensorTypes ==
  /\ ppc \in PcTypes
  /\ polls \in 0 .. Polls
  /\ PollsInv
  /\ retries \in 0 .. RetryEvery - 1
  /\ lost \in 0 .. MaxLost
  /\ mapped \subseteq Whole
  /\ {sample, inputs} \subseteq 0 .. Samples - 1
  /\ topic \in Seq(0 .. Samples - 1) /\ Len(topic) <= Depth

LEMMA LoseCounts ==
  ASSUME lost \in 0 .. MaxLost, Lose
  PROVE  lost' \in 0 .. MaxLost
BY ForceSensorAssumption DEF Lose

(* The map holds the latest measurement or an earlier one.                 *)
LEMMA RoundtripTypes ==
  ASSUME SensorTypes, NEW wkc, Roundtrip(wkc)
  PROVE  lost' \in 0 .. MaxLost /\ inputs' \in 0 .. Samples - 1
BY LoseCounts DEF SensorTypes, Roundtrip

(* A subscriber keeps the last messages, the newest one among them.        *)
LEMMA KeepsNewest ==
  ASSUME NEW S, NEW q0 \in Seq(S), Len(q0) <= Depth, NEW m \in S
  PROVE  LET kept == KeepLast(Append(q0, m)) IN
         kept \in Seq(S) /\ Len(kept) <= Depth /\ Len(kept) > 0 /\ kept[Len(kept)] = m
<1> DEFINE a == Append(q0, m)
<1>1. a \in Seq(S) /\ Len(a) = Len(q0) + 1 /\ a[Len(a)] = m /\ Len(q0) \in Nat
  OBVIOUS
<1>2. CASE Len(a) > Depth
  <2>1. Len(a) > 1
    BY <1>1, <1>2, ForceSensorAssumption
  <2>2. Tail(a) \in Seq(S) /\ Len(Tail(a)) = Len(a) - 1
    BY <1>1, <2>1
  <2>3. Tail(a)[Len(a) - 1] = a[Len(a)]
    BY <1>1, <2>1
  <2>4. QED
    BY <1>1, <1>2, <2>1, <2>2, <2>3, ForceSensorAssumption DEF KeepLast
<1>3. CASE ~(Len(a) > Depth)
  BY <1>1, <1>3, ForceSensorAssumption DEF KeepLast
<1>4. QED
  BY <1>2, <1>3

LEMMA SensorInitTypes == SensorInit => SensorTypes
BY ForceSensorAssumption DEF SensorInit, SensorTypes, PcTypes, PollsInv, Whole

LEMMA PublishTypes ==
  ASSUME SensorTypes, Publish
  PROVE  SensorTypes'
<1>1. PICK wkc \in Counters :
        /\ Roundtrip(wkc)
        /\ topic' = IF Complete(wkc) /\ "in" \in mapped
                    THEN KeepLast(Append(topic, inputs')) ELSE topic
  BY DEF Publish
<1>2. lost' \in 0 .. MaxLost /\ inputs' \in 0 .. Samples - 1
  BY <1>1, RoundtripTypes
<1>3. topic' \in Seq(0 .. Samples - 1) /\ Len(topic') <= Depth
  BY <1>1, <1>2, KeepsNewest DEF SensorTypes
<1>4. QED
  BY <1>2, <1>3 DEF SensorTypes, Publish, world, PollsInv, Whole

LEMMA SensorTypesStep ==
  ASSUME SensorTypes, SensorNext
  PROVE  SensorTypes'
<1> USE DEF SensorTypes
<1>1. CASE Measure
  <2>1. sample' \in 0 .. Samples - 1
    BY <1>1, ForceSensorAssumption DEF Measure
  <2>2. QED
    BY <1>1, <2>1 DEF Measure, PollsInv, Whole
<1>2. CASE Trouble \/ Return
  <2>1. UNCHANGED <<outputs, sample, lost, ppc, polls, retries, mapped, inputs, topic>>
    BY <1>2 DEF Trouble, Return, world
  <2>2. QED
    BY <2>1 DEF PollsInv, Whole
<1>3. CASE Open
  <2>1. lost' \in 0 .. MaxLost
    BY <1>3, LoseCounts DEF Open
  <2>2. ppc' \in PcTypes /\ polls' = 0 /\ ppc' # "poll"
    BY <1>3 DEF Open, Failed, PcTypes
  <2>3. QED
    BY <1>3, <2>1, <2>2, ForceSensorAssumption DEF Open, PollsInv, Whole, world
<1>4. CASE Config
  <2>1. lost' \in 0 .. MaxLost
    BY <1>4, LoseCounts DEF Config
  <2>2. /\ ppc = "config" /\ ppc' \in {"map", "wait", "ended"}
        /\ UNCHANGED <<polls, retries, mapped, inputs, topic, outputs, sample>>
    BY <1>4 DEF Config, Failed, world
  <2>3. QED
    BY <2>1, <2>2 DEF PollsInv, Whole, PcTypes
<1>5. CASE Map
  <2>1. lost' \in 0 .. MaxLost
    BY <1>5, LoseCounts DEF Map
  <2>2. mapped' \subseteq Whole /\ UNCHANGED Whole
    BY <1>5 DEF Map, Whole, world
  <2>3. QED
    BY <1>5, <2>1, <2>2 DEF Map, Step, PollsInv, PcTypes, world
<1>6. CASE Request
  <2>1. lost' \in 0 .. MaxLost
    BY <1>6, LoseCounts DEF Request
  <2>2. QED
    BY <1>6, <2>1, ForceSensorAssumption DEF Request, Step, PollsInv, Whole, PcTypes, world
<1>7. CASE Poll
  <2>1. /\ polls' \in 0 .. Polls
        /\ inputs' \in 0 .. Samples - 1
        /\ ppc' \in PcTypes /\ ppc' \notin {"config", "map", "request"}
        /\ ppc' = "poll" => polls' < Polls
    BY <1>7, ForceSensorAssumption DEF Poll, PollsInv, Started, Failed, PcTypes
  <2>2. retries' \in 0 .. RetryEvery - 1
    BY <1>7, ForceSensorAssumption DEF Poll, Started
  <2>3. QED
    BY <1>7, <2>1, <2>2 DEF Poll, PollsInv, Whole, world
<1>8. CASE NotReady
  <2>1. retries' \in 0 .. RetryEvery - 1
    <3>1. \A n \in Nat, e \in Nat \ {0} : (n + 1) % e \in 0 .. e - 1
      BY SMTT(30)
    <3>2. retries \in Nat /\ RetryEvery \in Nat \ {0}
      BY ForceSensorAssumption DEF SensorTypes
    <3>3. QED
      BY <1>8, <3>1, <3>2 DEF NotReady
  <2>2. QED
    BY <1>8, <2>1 DEF NotReady, PollsInv, Whole, PcTypes, world
<1>9. CASE Publish
  BY <1>9, PublishTypes
<1>10. CASE Dump
  <2>1. lost' \in 0 .. MaxLost /\ inputs' \in 0 .. Samples - 1
    BY <1>10, RoundtripTypes DEF Dump
  <2>2. QED
    BY <1>10, <2>1 DEF Dump, PollsInv, Whole, PcTypes, world
<1>11. CASE ReadState
  <2>1. lost' \in 0 .. MaxLost
    BY <1>11, LoseCounts DEF ReadState
  <2>2. QED
    BY <1>11, <2>1 DEF ReadState, Step, PollsInv, Whole, PcTypes, world
<1>12. CASE CheckState
  <2>1. lost' \in 0 .. MaxLost
    BY <1>12, LoseCounts DEF CheckState, AckError, RequestOp, Ask, Reconfig, Recheck,
                             StillGone, FoundAgain
  <2>2. QED
    BY <1>12, <2>1 DEF CheckState, Step, PollsInv, Whole, PcTypes, world
<1>13. CASE Stop
  <2>1. lost' \in 0 .. MaxLost
    BY <1>13, LoseCounts DEF Stop
  <2>2. QED
    BY <1>13, <2>1 DEF Stop, PollsInv, Whole, PcTypes, world
<1>14. QED
  BY <1>1, <1>2, <1>3, <1>4, <1>5, <1>6, <1>7, <1>8, <1>9, <1>10, <1>11, <1>12, <1>13
     DEF SensorNext, Program

(* The controller only takes messages off the topic.                       *)
LEMMA SensorTypesControl ==
  ASSUME SensorTypes, ControllerNext
  PROVE  SensorTypes'
<1>1. CASE Callback
  <2>1. topic' \in Seq(0 .. Samples - 1) /\ Len(topic') <= Depth
    BY <1>1, ForceSensorAssumption DEF Callback, SensorTypes
  <2>2. QED
    BY <1>1, <2>1 DEF Callback, SensorTypes, PollsInv, Whole, world
<1>2. CASE UNCHANGED sensorvars
  BY <1>2 DEF sensorvars, SensorTypes, PollsInv, Whole, world
<1>3. QED
  BY <1>1, <1>2 DEF ControllerNext, Login, PowerOn, EnableRobot, Spin, ControlLoop, TimeOver,
                    Interrupt, InterruptUncaught, Disconnect, DisconnectFails

(* A frame that comes back with a counter no less than expected has been   *)
(* through the sensor, and has brought what it measured last.              *)
LEMMA CompleteIsFresh ==
  ASSUME mapped \subseteq Whole, "in" \in mapped, NEW wkc \in Counters, Roundtrip(wkc),
         Complete(wkc)
  PROVE  Sends /\ inputs' = sample
<1>1. ExpectedWkc \in Nat /\ ExpectedWkc >= 1 /\ ("out" \in mapped => ExpectedWkc = 3)
  BY DEF ExpectedWkc, Sum, Weight
<1>2. wkc # NoFrame
  BY <1>1 DEF Complete, NoFrame, ExpectedWkc, Sum, Weight
<1>3. wkc = Sum(mapped \cap Taking) /\ (Sends => inputs' = sample)
  BY <1>2 DEF Roundtrip
<1>4. "in" \in Taking
  <2> SUFFICES ASSUME "in" \notin Taking PROVE FALSE
    OBVIOUS
  <2>1. CASE "out" \in mapped
    <3>1. Sum(mapped \cap Taking) <= 2
      BY DEF Sum, Weight
    <3>2. Sum(mapped \cap Taking) \in Nat
      BY DEF Sum, Weight
    <3>3. QED
      BY <1>1, <1>3, <2>1, <3>1, <3>2 DEF Complete
  <2>2. CASE "out" \notin mapped
    <3>1. Sum(mapped \cap Taking) = 0
      BY <2>2 DEF Sum, Weight
    <3>2. QED
      BY <1>1, <1>3, <2>2, <3>1 DEF Complete
  <2>3. QED
    BY <2>1, <2>2
<1>5. QED
  BY <1>3, <1>4 DEF Taking

(* Whatever was mapped, and however the sensor and the frames fail, the    *)
(* node publishes only what the sensor measured in the very cycle.         *)
THEOREM PublishesItsCycle == RobotSpec => PublishedIsOfCycle
<1>1. RobotInit => SensorTypes
  BY SensorInitTypes DEF RobotInit
<1>2. SensorTypes /\ [RobotNext]_robotvars => SensorTypes'
  <2>1. CASE UNCHANGED robotvars
    BY <2>1 DEF robotvars, sensorvars, SensorTypes, PollsInv, Whole, world
  <2>2. QED
    BY <2>1, SensorTypesStep, SensorTypesControl DEF RobotNext
<1>3. SensorTypes /\ [RobotNext]_robotvars
        => [Publish /\ topic' # topic => topic'[Len(topic')] = sample /\ Sends]_robotvars
  <2> SUFFICES ASSUME SensorTypes, Publish, topic' # topic
               PROVE  topic'[Len(topic')] = sample /\ Sends
    OBVIOUS
  <2>1. PICK wkc \in Counters :
          /\ Roundtrip(wkc) /\ Complete(wkc) /\ "in" \in mapped
          /\ topic' = KeepLast(Append(topic, inputs'))
    BY DEF Publish
  <2>2. Sends /\ inputs' = sample
    BY <2>1, CompleteIsFresh DEF SensorTypes
  <2>3. topic'[Len(topic')] = inputs'
    <3>1. inputs' \in 0 .. Samples - 1
      BY <2>1, RoundtripTypes
    <3>2. QED
      BY <2>1, <3>1, KeepsNewest DEF SensorTypes
  <2>4. QED
    BY <2>2, <2>3
<1>4. QED
  BY <1>1, <1>2, <1>3, PTL DEF RobotSpec, PublishedIsOfCycle
=============================================================================
