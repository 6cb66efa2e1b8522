----------------------------- MODULE EepromTool -----------------------------
(***************************************************************************)
(* eepromtool: the EEPROM of one slave read, written, or given a new alias *)
(* with its checksum, on the slaves of Startup and instead of it.  The     *)
(* accesses are those of Sii without its cache and its change of control:  *)
(* the tool takes control once, in two frames that are not sent again.     *)
(* The content of the file is the argument of a write.                     *)
(***************************************************************************)
EXTENDS Startup

CONSTANTS InfoLast,            \* last of the cells read for information
          AliasCell, CrcCell,  \* the alias, the checksum of the cells before it
          Modes,               \* of "read", "write", "alias"
          Word                 \* what the file holds in every word; the alias

ASSUME ToolAssumption ==
  /\ InfoLast \in 0 .. LastCell /\ CrcCell \in 1 .. InfoLast
  /\ AliasCell \in 0 .. CrcCell - 1 /\ Modes \subseteq {"read", "write", "alias"}

VARIABLES tool, ebuf

toolvars == <<tool, ebuf>>
allvars == <<vars, toolvars>>

(* "pass" is the call under way: the first read, the second one, the       *)
(* write, or the two words of the alias.                                   *)
NoTool == [pc |-> "none", mode |-> "none", slave |-> 0, pass |-> "none", at |-> 0,
           inc |-> 1, crc |-> 0, ok |-> FALSE]

ToolInit ==
  /\ Init
  /\ \/ tool = NoTool
     \/ \E m \in Modes, s \in Slaves :
          tool = [NoTool EXCEPT !.pc = "force", !.mode = m, !.slave = s,
                                !.pass = IF m = "write" THEN "write" ELSE "info"]
  /\ ebuf = [c \in Cells |-> IF tool.mode = "write" THEN <<Word, Word>> ELSE Zero]

(* SIIcrc, of the cells before the checksum; a weighted sum stands for it. *)
Crc(head) ==
  MapThenSumSet(LAMBDA c : (2 * c + 1) * head[c][1] + (2 * c + 2) * head[c][2],
                DOMAIN head) % 256
SIIcrc(buf) == Crc([c \in 0 .. CrcCell - 1 |-> buf[c]])

(* Force EEPROM from PDI, set EEPROM to master, and for a read the status, *)
(* which tells how many bytes an access gives.                             *)
TakeControl ==
  /\ tool.pc \in {"force", "claim"}
  /\ tool' = [tool EXCEPT !.pc = IF @ = "force" THEN "claim" ELSE "status"]
  /\ \/ /\ esc' = [esc EXCEPT ![tool.slave] = Effect([NoJob EXCEPT !.pc = tool.pc], @)]
        /\ UNCHANGED <<trouble, doubt>>
     \/ /\ Fault /\ doubt' = doubt \cup {tool.slave}
        /\ UNCHANGED esc
  /\ UNCHANGED <<Slaves, wide, rom, eep_pdi, cachevars, job, find, rewritten, startvars,
                 ebuf>>

IsRead == tool.pass \in {"info", "rest"}
ReadStatus ==
  /\ tool.pc = "status"
  /\ \/ /\ tool' = [tool EXCEPT !.pc = "access",
                                !.inc = IF wide[tool.slave] /\ IsRead THEN 2 ELSE 1]
        /\ UNCHANGED trouble
     \/ IsRead /\ Fault /\ tool' = [tool EXCEPT !.pc = "access", !.inc = 1]
  /\ UNCHANGED <<Slaves, wide, esc, rom, eep_pdi, cachevars, job, find, doubt, rewritten,
                 startvars, ebuf>>

(* ecx_readeepromAP and ecx_writeeepromAP: the steps of their siblings     *)
(* from "wait for eeprom ready" on.                                        *)
readeepromAP(a) == [NoJob EXCEPT !.pc = "wait", !.kind = "read", !.slave = tool.slave,
                                 !.addr = a]
writeeepromAP(a, val) == [NoJob EXCEPT !.pc = "wait", !.kind = "write", !.val = val,
                                       !.slave = tool.slave, !.addr = a]

Access ==
  CASE IsRead -> readeepromAP(tool.at)
    [] tool.pass = "write" -> writeeepromAP(tool.at, ebuf[tool.at][1])
    [] tool.pass = "alias" -> writeeepromAP(AliasCell, Word)
    [] tool.pass = "crc" -> writeeepromAP(CrcCell, tool.crc)

ToolBegins ==
  /\ tool.pc = "access" /\ job.pc = "idle"
  /\ job' = Access
  /\ UNCHANGED <<Slaves, wide, esc, rom, eep_pdi, cachevars, find, trouble, doubt,
                 rewritten, startvars, toolvars>>

Pass(t, pass, at) == [t EXCEPT !.pc = "force", !.pass = pass, !.at = at]
Done(t, ok) == [t EXCEPT !.pc = "done", !.ok = ok]
LastOf(pass) == IF pass = "info" THEN InfoLast ELSE LastCell

(* The size that was read says whether there is more.                      *)
Larger(buf) == InfoLast < LastCell /\ buf[InfoLast] # Zero

(* A call is over: eepromtool makes the next one.  A write is never asked  *)
(* whether it succeeded.                                                   *)
NextCall(t, buf, ok) ==
  CASE t.mode = "alias" /\ t.pass = "info" ->
         [Pass(t, "alias", 0) EXCEPT !.crc = SIIcrc([buf EXCEPT ![AliasCell][1] = Word])]
    [] t.mode = "read" /\ t.pass = "info" /\ Larger(buf) -> Pass(t, "rest", InfoLast + 1)
    [] OTHER -> Done(t, ok)

Continued(t, buf, ok) ==
  CASE t.pass = "alias" -> IF ok THEN [t EXCEPT !.pass = "crc"] ELSE Done(t, FALSE)
    [] t.pass = "crc" -> Done(t, ok)
    [] OTHER -> IF t.at + t.inc <= LastOf(t.pass)
                THEN [t EXCEPT !.at = @ + t.inc] ELSE NextCall(t, buf, TRUE)

ToolEnds ==
  /\ tool.pc = "access" /\ job.pc = "end"
  /\ ebuf' = IF IsRead
             THEN [c \in Cells |-> IF c - tool.at \in 0 .. tool.inc - 1
                                   THEN job.data[c - tool.at + 1] ELSE ebuf[c]]
             ELSE ebuf
  /\ tool' = Continued(tool, ebuf', job.ok)
  /\ job' = NoJob
  /\ UNCHANGED <<Slaves, wide, esc, rom, eep_pdi, cachevars, find, trouble, doubt,
                 rewritten, startvars>>

ToolNext ==
  /\ tool # NoTool
  /\ \/ TakeControl \/ ReadStatus \/ ToolBegins \/ ToolEnds
     \/ (EepromDone \/ PdiTakes \/ Exchange) /\ UNCHANGED <<startvars, toolvars>>

BothNext == \/ tool = NoTool /\ Next /\ UNCHANGED toolvars
            \/ ToolNext

BothSpec == ToolInit /\ [][BothNext]_allvars
-----------------------------------------------------------------------------
(* What the tool shows or saves is in the EEPROM, what it wrote is there,  *)
(* and an alias it reports as written has the checksum of the cells with   *)
(* it; unless an access was given up, which the tool does not notice.      *)
ToolExact ==
  tool.pc = "done" /\ tool.slave \notin doubt =>
    LET r == rom[tool.slave] IN
    CASE tool.mode = "read" -> \A c \in 0 .. LastOf(tool.pass) : ebuf[c] = r[c]
      [] tool.mode = "write" -> \A c \in Cells : r[c][1] = Word
      [] tool.mode = "alias" ->
           tool.ok => r[AliasCell][1] = Word /\ r[CrcCell][1] = SIIcrc(r)

(* Everything a program takes for the content of an EEPROM is its content. *)
EepromsRight == ContentRight /\ ToolExact
=============================================================================
