--------------------------------- MODULE Sii ---------------------------------
(***************************************************************************)
(* The EEPROM of the slaves (SII) and the master's access to it, one frame *)
(* after the other: the control the master shares with the slave's         *)
(* processor (PDI), reads and writes with their retries, the read in two   *)
(* halves of ecx_config_init, the cache of ecx_siigetbyte and the search   *)
(* for a section.  The EEPROM is a sequence of cells of 32 bits, a cell is *)
(* a pair of words.                                                        *)
(***************************************************************************)
EXTENDS Integers, Sequences, FiniteSetsExt

CONSTANTS LastCell,            \* EC_MAXEEPBUF
          FirstSection,        \* ECT_SII_START
          Retries,             \* EC_DEFAULTRETRIES
          MaxNacks             \* 3 in ecx_readeepromFP

ASSUME SiiAssumption ==
  /\ LastCell \in Nat /\ FirstSection \in 1 .. LastCell - 1
  /\ Retries \in Nat /\ MaxNacks \in Nat \ {0}

VARIABLES
  Slaves, wide,                \* 1 .. slavecount; who answers with 8 bytes
  esc, rom,                    \* the slaves' EEPROM interfaces and contents
  eep_pdi,                     \* does the master take the PDI to be in control
  esislave, esimap, esibuf,    \* the cache
  job, find,                   \* access and search under way
  trouble,                     \* faults that may still happen
  doubt, rewritten             \* history: slaves with an access given up,
                               \*   cells written

cachevars == <<esislave, esimap, esibuf>>
siivars == <<Slaves, wide, esc, rom, eep_pdi, cachevars, job, find, trouble,
             doubt, rewritten>>

Cells == 0 .. LastCell
Zero == <<0, 0>>
End == <<9, 9>>                \* 0xffff
Beyond(f, c) == IF c \in Cells THEN f[c] ELSE End

Controller == [owner |-> "master", busy |-> FALSE, cmd |-> "none", addr |-> 0,
               latch |-> 0, nack |-> FALSE, data |-> <<Zero, Zero>>]
NoJob == [pc |-> "idle", kind |-> "none", slave |-> 0, addr |-> 0, val |-> 0,
          cnt |-> 0, nacks |-> 0, data |-> <<Zero, Zero>>, ok |-> FALSE]
NoFind == [pc |-> "idle", slave |-> 0, cat |-> 0, a |-> 0, eectl |-> FALSE,
           more |-> FALSE, found |-> 0, val |-> Zero]

InitSii ==
  /\ eep_pdi = [s \in Slaves |-> FALSE]
  /\ esislave = 0 /\ esimap = {} /\ esibuf = [c \in Cells |-> Zero]
  /\ job = NoJob /\ find = NoFind
  /\ doubt = {} /\ rewritten = {}
-----------------------------------------------------------------------------
(* The slave, external.  Its processor takes control only when offered it, *)
(* and keeps it until forced to give it back.  The EEPROM takes commands   *)
(* only from the master in control and only one at a time; a write changes *)
(* the first word of a cell.                                               *)
Effect(j, e) ==
  LET mine == e.owner = "master" /\ ~e.busy IN
  CASE j.pc = "force" -> [e EXCEPT !.owner = "master"]
    [] j.pc = "claim" /\ e.owner = "offered" -> [e EXCEPT !.owner = "master"]
    [] j.pc = "release" /\ e.owner = "master" -> [e EXCEPT !.owner = "offered"]
    [] j.pc = "clear" -> [e EXCEPT !.nack = FALSE]
    [] j.pc = "latch" /\ mine -> [e EXCEPT !.latch = j.val]
    [] j.pc = "command" /\ mine ->
         [e EXCEPT !.busy = TRUE, !.nack = FALSE, !.addr = j.addr,
                   !.cmd = IF j.kind = "write" THEN "write" ELSE "read"]
    [] OTHER -> e

Fault == trouble > 0 /\ trouble' = trouble - 1

(* A command ends, well or with a missing acknowledge of the EEPROM.       *)
EepromDone ==
  \E s \in {t \in Slaves : esc[t].busy} :
    LET e == esc[s]
        read == <<rom[s][e.addr], IF wide[s] THEN Beyond(rom[s], e.addr + 1) ELSE Zero>>
    IN  \/ /\ esc' = [esc EXCEPT ![s].busy = FALSE,
                                 ![s].data = IF e.cmd = "read" THEN read ELSE @]
           /\ rom' = IF e.cmd = "write" THEN [rom EXCEPT ![s][e.addr][1] = e.latch]
                                        ELSE rom
           /\ UNCHANGED trouble
        \/ /\ Fault
           /\ esc' = [esc EXCEPT ![s].busy = FALSE, ![s].nack = TRUE]
           /\ UNCHANGED rom
  /\ UNCHANGED <<Slaves, wide, eep_pdi, cachevars, job, find, doubt, rewritten>>

PdiTakes ==
  /\ \E s \in Slaves : /\ esc[s].owner = "offered" /\ ~esc[s].busy
                       /\ esc' = [esc EXCEPT ![s].owner = "pdi"]
  /\ UNCHANGED <<Slaves, wide, rom, eep_pdi, cachevars, job, find, trouble, doubt,
                 rewritten>>
-----------------------------------------------------------------------------
(* An access begins: a read or write of one address ("read", "write"), the *)
(* halves of a read ("request", "collect"), control given back ("release"). *)
(* ecx_eeprom2master and ecx_eeprom2pdi do nothing if eep_pdi says so.     *)
BeginUnclaimed(kind, s, addr, val) ==
  [NoJob EXCEPT !.kind = kind, !.slave = s, !.addr = addr, !.val = val,
                !.pc = IF kind = "release"
                       THEN (IF eep_pdi[s] THEN "end" ELSE "release") ELSE "wait"]
Begin(kind, s, addr, val) ==
  [NoJob EXCEPT !.kind = kind, !.slave = s, !.addr = addr, !.val = val,
                !.pc = CASE kind = "release" /\ eep_pdi[s] -> "end"
                         [] kind = "release" /\ ~eep_pdi[s] -> "release"
                         [] kind # "release" /\ kind # "collect" /\ eep_pdi[s] ->
                              "force"
                         [] OTHER -> "wait"]

Goto(j, pc) == [j EXCEPT !.pc = pc, !.cnt = 0]
Over(j, data, ok) == [Goto(j, "end") EXCEPT !.data = data, !.ok = ok]

(* From "wait for eeprom ready" to the command, and what follows it.       *)
Command(j) == Goto(j, CASE j.kind = "collect" -> "data"
                        [] j.kind = "write" -> "latch"
                        [] OTHER -> "command")
Nacked(j) ==
  IF j.nacks + 1 < MaxNacks THEN [Command(j) EXCEPT !.nacks = @ + 1]
                            ELSE Over(j, <<Zero, Zero>>, FALSE)
Acknowledged(j) ==
  IF j.kind = "write" THEN Over(j, <<Zero, Zero>>, TRUE) ELSE Goto(j, "data")

AnsweredImpatient(j, e) ==
  CASE j.pc = "command" ->
         IF j.kind = "request" THEN Over(j, j.data, TRUE) ELSE Acknowledged(j)
    [] j.pc = "wait" -> IF e.busy THEN j ELSE Command(j)
    [] j.pc \in {"clear", "force", "claim"} -> Command(j)
    [] j.pc = "latch" -> Goto(j, "command")
    [] OTHER -> Over(j, e.data, TRUE)

Answered(j, e) ==
  CASE j.pc = "force" -> Goto(j, "claim")
    [] j.pc = "claim" -> Goto(j, "wait")
    [] j.pc = "release" -> Over(j, j.data, TRUE)
    [] j.pc = "wait" -> IF e.busy THEN j
                        ELSE IF e.nack /\ j.kind # "collect" THEN Goto(j, "clear")
                        ELSE Command(j)
    [] j.pc = "clear" -> Command(j)
    [] j.pc = "latch" -> Goto(j, "command")
    [] j.pc = "command" ->
         IF j.kind = "request" THEN Over(j, j.data, TRUE) ELSE Goto(j, "await")
    [] j.pc = "await" -> IF e.busy THEN j
                         ELSE IF e.nack THEN Nacked(j) ELSE Acknowledged(j)
    [] j.pc = "data" ->
         Over(j, IF j.kind = "collect" THEN <<e.data[1], Zero>> ELSE e.data, TRUE)

(* Without an answer a frame is sent again.  After the last one the code   *)
(* goes on: "if (wkc)" holds for a lost frame, too.                        *)
Patient(j) == j.pc \in {"wait", "await"} \/ (j.pc # "clear" /\ j.cnt < Retries)
Unanswered(j) ==
  CASE Patient(j) -> [j EXCEPT !.cnt = IF j.pc \in {"wait", "await"} THEN 0 ELSE @ + 1]
    [] ~Patient(j) /\ j.pc = "data" -> Over(j, <<Zero, Zero>>, TRUE)
    [] OTHER -> Answered(j, [Controller EXCEPT !.busy = FALSE])

(* The timer of "wait for eeprom ready" expires: the access is given up if *)
(* the EEPROM is busy, or tried again after a missing acknowledge; if the  *)
(* last poll was lost the EEPROM is taken for ready.                       *)
Expired(j, lost) ==
  CASE lost -> Answered(j, Controller)
    [] ~lost /\ j.pc = "await" /\ j.nacks > 0 -> Command(j)
    [] OTHER -> Over(j, <<Zero, Zero>>, FALSE)

Frames == {"force", "claim", "release", "wait", "await", "clear", "latch",
           "command", "data"}

(* eep_pdi follows the last frame of ecx_eeprom2master and ecx_eeprom2pdi. *)
Control == eep_pdi' = IF job.pc = "claim" /\ job'.pc # "claim"
                      THEN [eep_pdi EXCEPT ![job.slave] = FALSE]
                      ELSE IF job.pc = "release" /\ job'.pc # "release"
                      THEN [eep_pdi EXCEPT ![job.slave] = TRUE]
                      ELSE eep_pdi

(* A missing acknowledge is given up on in the end; ecx_readeeprom2 never  *)
(* asks for it.                                                            *)
Doubtful(j, e) == /\ ~e.busy /\ e.nack
                  /\ \/ j.pc = "await" /\ j.nacks + 1 >= MaxNacks
                     \/ j.pc = "wait" /\ j.kind = "collect"

Exchange ==
  /\ job.pc \in Frames
  /\ LET s == job.slave
         e == Effect(job, esc[s])
     IN  \/ /\ esc' = [esc EXCEPT ![s] = e]
            /\ job' = Answered(job, e)
            /\ doubt' = IF Doubtful(job, e) THEN doubt \cup {s} ELSE doubt
            /\ rewritten' = IF job.pc = "command" /\ job.kind = "write"
                            THEN rewritten \cup {<<s, job.addr>>} ELSE rewritten
            /\ UNCHANGED trouble
         \/ /\ Fault
            /\ \/ esc' = [esc EXCEPT ![s] = e] \/ UNCHANGED esc
            /\ job' = Unanswered(job)
            /\ doubt' = IF Patient(job) \/ job.pc = "clear" THEN doubt
                        ELSE doubt \cup {s}
            /\ rewritten' = IF job.kind = "write" THEN rewritten \cup {<<s, job.addr>>}
                            ELSE rewritten
         \/ /\ Fault /\ job.pc \in {"wait", "await"}
            /\ \/ esc[s].busy /\ job' = Expired(job, FALSE)
               \/ job' = Expired(job, TRUE)
            /\ doubt' = doubt \cup {s}
            /\ UNCHANGED <<esc, rewritten>>
  /\ Control
  /\ UNCHANGED <<Slaves, wide, rom, cachevars, find>>
-----------------------------------------------------------------------------
(* ecx_siigetbyte: the cache holds cells of one slave.  A read enters as   *)
(* many cells as the slave gives, whatever they hold.                      *)
Known(s, c) == c \notin Cells \/ (esislave = s /\ c \in esimap)
Cached(c) == Beyond(esibuf, c)

NoClear(s) == esislave' = s /\ UNCHANGED <<esimap, esibuf>>
ClearFor(s) == /\ esislave' = s
               /\ esimap' = IF s = esislave THEN esimap ELSE {}
               /\ UNCHANGED esibuf

Read8(s, c) == {c} \cup (IF wide[s] THEN {c + 1} \cap Cells ELSE {})
Fill(s, c, data) ==
  /\ esimap' = esimap \cup Read8(s, c)
  /\ esibuf' = [d \in Cells |-> IF d \in Read8(s, c) THEN data[d - c + 1]
                                ELSE esibuf[d]]
  /\ UNCHANGED esislave

(* ecx_siifind, and the readers of a section, which go on to its content   *)
(* (more).  Control that was with the PDI goes back to it after the search *)
(* and again after the content.                                            *)
Search(s, cat, more) ==
  [NoFind EXCEPT !.pc = "header", !.slave = s, !.cat = cat, !.more = more,
                 !.a = FirstSection, !.eectl = eep_pdi[s]]

NextSection(a, length) == a + 1 + length

(* One cell stands for the content of a section.                           *)
SectionRead(f, cell) == [f EXCEPT !.pc = "restore", !.more = FALSE, !.val = cell]

Searched(f, cell) ==
  IF f.pc = "content" THEN SectionRead(f, cell)
  ELSE IF cell[1] = f.cat THEN [f EXCEPT !.pc = "restore", !.found = f.a]
  ELSE IF cell[1] = End[1] THEN [f EXCEPT !.pc = "restore", !.more = FALSE]
  ELSE [f EXCEPT !.a = NextSection(f.a, cell[2])]

Restored(f) == IF f.more THEN [f EXCEPT !.pc = "content", !.a = f.found + 1]
                         ELSE [f EXCEPT !.pc = "end"]

Reading == find.pc \in {"header", "content"} /\ job.pc = "idle"

GetCached ==
  /\ Reading /\ Known(find.slave, find.a)
  /\ find' = Searched(find, Cached(find.a))
  /\ ClearFor(find.slave)
  /\ UNCHANGED <<Slaves, wide, esc, rom, eep_pdi, job, trouble, doubt, rewritten>>

GetUncached ==
  /\ Reading /\ ~Known(find.slave, find.a)
  /\ ClearFor(find.slave)
  /\ job' = Begin("read", find.slave, find.a, 0)
  /\ UNCHANGED <<Slaves, wide, esc, rom, eep_pdi, find, trouble, doubt, rewritten>>

EnterCache ==
  /\ find.pc \in {"header", "content"} /\ job.pc = "end"
  /\ Fill(find.slave, find.a, job.data)
  /\ job' = NoJob
  /\ UNCHANGED <<Slaves, wide, esc, rom, eep_pdi, find, trouble, doubt, rewritten>>

Restore ==
  /\ find.pc = "restore"
  /\ \/ /\ job.pc = "idle" /\ find.eectl
        /\ job' = Begin("release", find.slave, 0, 0) /\ UNCHANGED find
     \/ /\ IF find.eectl THEN job.pc = "end" ELSE job.pc = "idle"
        /\ job' = NoJob /\ find' = Restored(find)
  /\ UNCHANGED <<Slaves, wide, esc, rom, eep_pdi, cachevars, trouble, doubt,
                 rewritten>>

-----------------------------------------------------------------------------
(* The section a search should find: the first of its category.  Sections  *)
(* are the cells in every set that has the first one and with each section *)
(* the next one.                                                           *)
SectionCells == FirstSection .. LastCell
Chain(r, set) ==
  /\ FirstSection \in set
  /\ \A c \in set : r[c][1] # End[1] /\ NextSection(c, r[c][2]) \in SectionCells
                      => NextSection(c, r[c][2]) \in set
SectionsOf(r) ==
  {c \in SectionCells : \A set \in SUBSET SectionCells : Chain(r, set) => c \in set}
FirstOf(r, cat) ==
  LET at == {c \in SectionsOf(r) : r[c][1] = cat} IN IF at = {} THEN 0 ELSE Min(at)
=============================================================================
