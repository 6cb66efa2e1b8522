------------------------------ MODULE Startup ------------------------------
(***************************************************************************)
(* From the search for slaves to the first calls of the application:       *)
(* ecx_config_init, which reads the EEPROMs of all slaves side by side and *)
(* then searches those of new types for their sections, ecx_configdc, and  *)
(* the calls that read, search or write an EEPROM afterwards.  Frames are  *)
(* lost; EEPROMs are slow and miss acknowledges; the processors of the     *)
(* slaves (PDI) take control of an EEPROM that is offered to them.         *)
(***************************************************************************)
EXTENDS Sii, Topology

CONSTANTS Stocks,              \* the EEPROMs of the slaves, in order
          Budget,              \* slavecount -> bound on lost frames and faults
          Restarts,            \* slavecount -> bound on starts after the first
          MaxCalls,            \* slavecount -> bound on calls of the application
          MaxSlave,            \* EC_MAXSLAVE
          Buses,               \* slavecount -> the cablings there may be
          Categories,          \* the sections of a configuration, in order
          SyncDelay,           \* from setting a start time to the start, at least
          SyncTimes,           \* slavecount -> system times at which it is set
          SyncModes            \* the cycles the application asks for

ASSUME StartupAssumption ==
  /\ MaxSlave \in Nat /\ SyncDelay \in Nat
  /\ \A stock \in Stocks :
       /\ Len(stock) \in Nat \ {0}
       /\ \A s \in 1 .. Len(stock) : stock[s].rom \in [Cells -> Nat \X Nat]
  /\ Len(Categories) \in Nat \ {0}
  /\ \A k \in 1 .. Len(Categories) : Categories[k] # End[1]

VARIABLES
  pc, slave, round,            \* ecx_config_init
  list,                        \* slavelist
  bus,                         \* the cabling
  parenthold, consumed,        \* ecx_configdc
  call, calls, starts,         \* the application
  misread                      \* history: a topology was not read

startvars == <<pc, slave, round, list, bus, parenthold, consumed, call, calls,
               starts, misread>>
vars == <<siivars, startvars>>

(* The cells ecx_config_init reads of every slave.                         *)
Manuf == 0
Id == 1
Rev == 2
Ser == 3
RxMbx == 4
TxMbx == 5
MbxProto == 6
Rounds == <<Manuf, Id, Rev, Ser, RxMbx>>

SlaveCount == Len(rom)
NoEntry == [field |-> [c \in Manuf .. MbxProto |-> Zero],
            sect |-> [k \in 1 .. Len(Categories) |-> Zero],
            hasdc |-> FALSE, topology |-> 0, activeports |-> {}, parent |-> 0,
            entryport |-> 0, time |-> [p \in 0 .. 3 |-> 0], pdelay |-> 0,
            sync |-> << >>]
NoCall == [op |-> "none", slave |-> 0, addr |-> 0, val |-> 0, pdi |-> FALSE]
NoBus == [up |-> << >>]

Init ==
  \E stock \in Stocks, owner \in {"master", "pdi"} :
    /\ Slaves = 1 .. Len(stock)
    /\ rom = [s \in Slaves |-> stock[s].rom]
    /\ wide = [s \in Slaves |-> stock[s].wide]
    /\ esc = [s \in Slaves |-> [Controller EXCEPT !.owner = owner]]
    /\ trouble = Budget[Len(stock)]
    /\ InitSii
    /\ pc = "detect" /\ slave = 1 /\ round = 0
    /\ list = [s \in Slaves |-> NoEntry]
    /\ bus = NoBus
    /\ parenthold = 0 /\ consumed = [s \in Slaves |-> {}]
    /\ call = NoCall /\ calls = 0 /\ starts = 0 /\ misread = FALSE
-----------------------------------------------------------------------------
(* ecx_detect_slaves.                                                      *)
Detect ==
  /\ pc = "detect"
  /\ \/ pc' = (IF SlaveCount < MaxSlave THEN "force" ELSE "stopped") /\ UNCHANGED trouble
     \/ pc' = "stopped" /\ Fault
  /\ UNCHANGED <<Slaves, wide, esc, rom, eep_pdi, cachevars, job, find, doubt,
                 rewritten, slave, round, list, bus, parenthold, consumed, call,
                 calls, starts, misread>>

(* ecx_set_slaves_to_default: the EEPROMs of all slaves are forced from the *)
(* PDI and set to the master, in frames that are not sent again.           *)
Broadcast ==
  /\ pc \in {"force", "claim"}
  /\ pc' = (IF pc = "force" THEN "claim" ELSE "request")
  /\ \/ /\ esc' = [s \in Slaves |-> Effect([NoJob EXCEPT !.pc = pc], esc[s])]
        /\ UNCHANGED <<trouble, doubt>>
     \/ /\ Fault
        /\ doubt' = Slaves
        /\ UNCHANGED esc
  /\ UNCHANGED <<Slaves, wide, rom, eep_pdi, cachevars, job, find, rewritten, slave,
                 round, list, bus, parenthold, consumed, call, calls, starts, misread>>

(* The access of each step of ecx_config_init: a slave's next field is     *)
(* requested as soon as the last one is collected, and collected one round *)
(* later.                                                                  *)
HasMailbox(s) == list[s].field[RxMbx][2] > 0

Wanted ==
  CASE pc = "collect" -> <<"collect", Rounds[round]>>
    [] pc = "request" /\ round < Len(Rounds) -> <<"request", Rounds[round + 1]>>
    [] pc = "request" /\ round = Len(Rounds) /\ HasMailbox(slave) -> <<"request", TxMbx>>
    [] pc = "tx" /\ HasMailbox(slave) -> <<"collect", TxMbx>>
    [] pc = "txdone" /\ HasMailbox(slave) -> <<"request", MbxProto>>
    [] pc = "proto" /\ HasMailbox(slave) -> <<"collect", MbxProto>>
    [] pc = "pdi" -> <<"release", 0>>
    [] OTHER -> << >>

Proceed(p, s, r) == pc' = p /\ slave' = s /\ round' = r
Following ==
  CASE pc = "collect" -> Proceed("request", slave, round)
    [] pc = "request" /\ slave < SlaveCount ->
         Proceed(IF round = 0 THEN "request" ELSE "collect", slave + 1, round)
    [] pc = "request" /\ slave = SlaveCount ->
         Proceed(IF round = Len(Rounds) THEN "tx" ELSE "collect", 1, round + 1)
    [] pc = "tx" -> Proceed("txdone", slave, round)
    [] pc = "txdone" -> Proceed("topology", slave, round)
    [] pc = "proto" -> Proceed("lookup", slave, round)
    [] pc = "pdi" /\ slave < SlaveCount -> Proceed("tx", slave + 1, round)
    [] pc = "pdi" /\ slave = SlaveCount -> Proceed("dc", 1, round)

AccessPcs == {"collect", "request", "tx", "txdone", "proto", "pdi"}

BeginAccess ==
  /\ pc \in AccessPcs /\ Wanted # << >> /\ job.pc = "idle"
  /\ job' = Begin(Wanted[1], slave, Wanted[2], 0)
  /\ UNCHANGED <<Slaves, wide, esc, rom, eep_pdi, cachevars, find, trouble, doubt,
                 rewritten, startvars>>

(* A read mailbox without a length has that of the write mailbox.          *)
Entered(c, val) == IF c = TxMbx /\ val[2] = 0
                   THEN <<val[1], list[slave].field[RxMbx][2]>> ELSE val

EndAccess ==
  /\ pc \in AccessPcs
  /\ IF Wanted = << >> THEN UNCHANGED <<job, list>>
     ELSE /\ job.pc = "end"
          /\ job' = NoJob
          /\ list' = IF Wanted[1] # "collect" THEN list
                     ELSE [list EXCEPT ![slave].field[Wanted[2]] =
                             Entered(Wanted[2], job.data[1])]
  /\ Following
  /\ UNCHANGED <<Slaves, wide, esc, rom, eep_pdi, cachevars, find, trouble, doubt,
                 rewritten, bus, parenthold, consumed, call, calls, starts, misread>>
-----------------------------------------------------------------------------
(* The cabling plays no part before the first topology is read: it is      *)
(* chosen here.                                                            *)
PlugIn ==
  /\ pc = "topology" /\ bus = NoBus
  /\ bus' \in Buses[SlaveCount]
  /\ UNCHANGED <<siivars, pc, slave, round, list, parenthold, consumed, call, calls,
                 starts, misread>>

(* The reads of ESCSUP and DLSTAT; a lost frame reads as 0.                *)
Seen(hasdc, ports) ==
  LET entry == [list[slave] EXCEPT !.hasdc = hasdc, !.activeports = ports,
                                   !.topology = Cardinality(ports)]
      topology == [s \in Slaves |-> list[s].topology]
  IN  list' = [list EXCEPT ![slave] = [entry EXCEPT !.parent = ParentOf(topology, slave)]]

ReadTopology ==
  /\ pc = "topology" /\ bus # NoBus
  /\ \/ /\ Seen(bus.dc[slave], OpenPorts(bus, slave))
        /\ UNCHANGED <<trouble, misread>>
     \/ /\ Fault
        /\ Seen(FALSE, OpenPorts(bus, slave)) \/ Seen(bus.dc[slave], {})
        /\ misread' = TRUE
  /\ pc' = "proto"
  /\ UNCHANGED <<Slaves, wide, esc, rom, eep_pdi, cachevars, job, find, doubt,
                 rewritten, slave, round, bus, parenthold, consumed, call, calls, starts>>

(* ecx_lookup_prev_sii: an earlier slave of the same type.                 *)
SameType(s) ==
  {i \in 1 .. s - 1 : \A c \in {Manuf, Id, Rev} : list[i].field[c] = list[s].field[c]}

Lookup ==
  /\ pc = "lookup"
  /\ IF SameType(slave) # {}
     THEN /\ list' = [list EXCEPT ![slave].sect = list[Min(SameType(slave))].sect]
          /\ Proceed("pdi", slave, round)
     ELSE /\ Proceed("section", slave, 1)
          /\ UNCHANGED list
  /\ UNCHANGED <<siivars, bus, parenthold, consumed, call, calls, starts, misread>>

(* One section after the other is searched and read.                       *)
BeginSection ==
  /\ pc = "section" /\ find.pc = "idle"
  /\ find' = Search(slave, Categories[round], TRUE)
  /\ UNCHANGED <<Slaves, wide, esc, rom, eep_pdi, cachevars, job, trouble, doubt,
                 rewritten, startvars>>

EndSection ==
  /\ pc = "section" /\ find.pc = "end"
  /\ find' = NoFind
  /\ list' = [list EXCEPT ![slave].sect[round] = find.val]
  /\ IF round < Len(Categories) THEN Proceed("section", slave, round + 1)
                                ELSE Proceed("pdi", slave, round)
  /\ UNCHANGED <<Slaves, wide, esc, rom, eep_pdi, cachevars, job, trouble, doubt,
                 rewritten, bus, parenthold, consumed, call, calls, starts, misread>>
-----------------------------------------------------------------------------
(* ecx_configdc, one slave after the other, on a bus that loses no frame.  *)
(* With no open port read the entry port is one nobody set.                *)
WithClock(i) ==
  LET ports == list[i].activeports
      time == [p \in 0 .. 3 |-> IF p \in OpenPorts(bus, i) THEN Latched(bus, i, p) ELSE 0]
      parent == DcParent(list, i)
  IN  \E entry \in IF ports = {} THEN 0 .. 3 ELSE {EntryPort(ports, time)} :
        LET known == [list EXCEPT ![i].time = time, ![i].entryport = entry]
            free == ParentPort(consumed[parent])
            port == IF list[parent].topology = 1 THEN list[parent].entryport ELSE free
        IN  /\ consumed' = [s \in Slaves |->
                              CASE s = i -> ports \ {entry}
                                [] s = parent -> consumed[s] \ {free}
                                [] OTHER -> consumed[s]]
            /\ list' = IF parent = 0 THEN known
                       ELSE [known EXCEPT ![i].pdelay =
                               Delay(known, i, parent, port, DcChild(list, i))]
            /\ parenthold' = 0

WithoutClock(i) ==
  LET parent == list[i].parent
      hold == IF parent > 0 /\ list[parent].topology > 2 THEN parent ELSE parenthold
      ends == hold > 0 /\ list[i].topology = 1
  IN  /\ consumed' = [s \in Slaves |->
                        CASE s = i -> list[i].activeports
                          [] s = hold /\ ends -> consumed[s] \ {ParentPort(consumed[s])}
                          [] OTHER -> consumed[s]]
      /\ parenthold' = IF ends THEN 0 ELSE hold
      /\ UNCHANGED list

ConfigDc ==
  /\ pc = "dc"
  /\ IF list[slave].hasdc THEN WithClock(slave) ELSE WithoutClock(slave)
  /\ IF slave < SlaveCount THEN Proceed("dc", slave + 1, round)
                           ELSE Proceed("sync", 1, 0)
  /\ UNCHANGED <<siivars, bus, call, calls, starts, misread>>
-----------------------------------------------------------------------------
(* ecx_dcsync0 and ecx_dcsync01, called for one slave with a clock after   *)
(* the other ("round" is the time the last one read): the slave fires SYNC0 *)
(* every cycle0 from "start" on, and SYNC1 cycle1 later.  Nobody looks at  *)
(* the working counters: if the time cannot be read it is 0, and a write   *)
(* that is lost leaves the slave as it was.                                *)
TrueCyclTime(m) == ((m.cycle1 \div m.cycle0) + 1) * m.cycle0

FirstTrigger(t1, cycle, shift) ==
  IF cycle > 0 THEN ((t1 + SyncDelay) \div cycle) * cycle + cycle + shift
               ELSE t1 + SyncDelay + shift

dcsync0(m, t1) == [start |-> FirstTrigger(t1, m.cycle0, m.shift), mode |-> m]
dcsync01(m, t1) == [start |-> FirstTrigger(t1, TrueCyclTime(m), m.shift), mode |-> m]

NextSync(t1) == IF slave < SlaveCount THEN Proceed("sync", slave + 1, t1)
                                      ELSE Proceed("run", 1, t1)
Sync ==
  /\ pc = "sync"
  /\ \/ /\ list[slave].hasdc
        /\ \E t1 \in {t \in SyncTimes[SlaveCount] : t >= round}, m \in SyncModes :
             LET set(t) == [list EXCEPT ![slave].sync = IF m.both THEN dcsync01(m, t)
                                                                  ELSE dcsync0(m, t)]
             IN  /\ \/ list' = set(t1) /\ UNCHANGED <<trouble, misread>>
                    \/ Fault /\ misread' = TRUE /\ list' \in {list, set(0)}
                 /\ NextSync(t1)
     \/ /\ ~list[slave].hasdc \/ SyncTimes[SlaveCount] = {}
        /\ NextSync(round)
        /\ UNCHANGED <<list, trouble, misread>>
  /\ UNCHANGED <<Slaves, wide, esc, rom, eep_pdi, cachevars, job, find, doubt, rewritten,
                 bus, parenthold, consumed, call, calls, starts>>
-----------------------------------------------------------------------------
(* The application: ecx_readeeprom, ecx_writeeeprom, and the functions     *)
(* that read a section.                                                    *)
Idle == pc = "run" /\ call = NoCall

BeginCall ==
  /\ Idle /\ calls < MaxCalls[SlaveCount]
  /\ calls' = calls + 1
  /\ \E s \in Slaves :
       \/ \E a \in {FirstSection, FirstSection + 1}, op \in {"read", "write"} :
            /\ call' = [op |-> op, slave |-> s, addr |-> a, val |-> 7, pdi |-> eep_pdi[s]]
            /\ job' = Begin(op, s, a, 7) /\ UNCHANGED find
       \/ \E k \in 1 .. Len(Categories) :
            /\ call' = [op |-> "find", slave |-> s, addr |-> Categories[k], val |-> 0,
                        pdi |-> eep_pdi[s]]
            /\ find' = Search(s, Categories[k], TRUE) /\ UNCHANGED job
  /\ UNCHANGED <<Slaves, wide, esc, rom, eep_pdi, cachevars, trouble, doubt, rewritten,
                 pc, slave, round, list, bus, parenthold, consumed, starts, misread>>

Returning == /\ pc = "run" /\ call # NoCall
             /\ IF call.op = "find" THEN find.pc = "end" ELSE job.pc = "end"

EndCall ==
  /\ Returning
  /\ call' = NoCall /\ job' = NoJob /\ find' = NoFind
  /\ UNCHANGED <<Slaves, wide, esc, rom, eep_pdi, cachevars, trouble, doubt, rewritten,
                 pc, slave, round, list, bus, parenthold, consumed, calls, starts,
                 misread>>

(* ecx_config_init again: ecx_init_context clears the lists, and the cache *)
(* by asking for a byte of slave 0 outside it.                             *)
StartAgain ==
  /\ Idle /\ starts < Restarts[SlaveCount]
  /\ starts' = starts + 1
  /\ ClearFor(0)
  /\ eep_pdi' = [s \in Slaves |-> FALSE]
  /\ list' = [s \in Slaves |-> NoEntry]
  /\ bus' = NoBus /\ parenthold' = 0 /\ consumed' = [s \in Slaves |-> {}]
  /\ rewritten' = {}
  /\ Proceed("detect", 1, 0)
  /\ UNCHANGED <<Slaves, wide, esc, rom, job, find, trouble, doubt, call, calls, misread>>
-----------------------------------------------------------------------------
Master == \/ Detect \/ Broadcast \/ BeginAccess \/ EndAccess
          \/ ReadTopology \/ Lookup \/ BeginSection \/ EndSection \/ ConfigDc \/ Sync
          \/ EndCall
          \/ (Exchange \/ GetCached \/ GetUncached \/ EnterCache \/ Restore)
             /\ UNCHANGED startvars

Next == \/ Master
        \/ BeginCall \/ StartAgain \/ PlugIn
        \/ (EepromDone \/ PdiTakes) /\ UNCHANGED startvars

Spec == Init /\ [][Next]_vars

(* The master goes on and EEPROMs finish their work.                       *)
FairSpec == Spec /\ WF_vars(Next)
-----------------------------------------------------------------------------
TypeOK ==
  /\ \A s \in Slaves : /\ esc[s].owner \in {"master", "offered", "pdi"}
                       /\ esc[s].busy \in BOOLEAN /\ esc[s].nack \in BOOLEAN
  /\ eep_pdi \in [Slaves -> BOOLEAN]
  /\ esislave \in 0 .. SlaveCount /\ esimap \subseteq Cells
  /\ job.pc \in Frames \cup {"idle", "end"} /\ job.cnt \in 0 .. Retries
  /\ job.nacks \in 0 .. MaxNacks - 1
  /\ find.pc \in {"idle", "header", "content", "restore", "end"}
  /\ find.a \in Nat
  /\ slave \in Slaves /\ round \in 0 .. Len(Rounds) + Len(Categories)
  /\ \A s \in Slaves : list[s].parent \in 0 .. s - 1
  /\ parenthold \in Slaves \cup {0} /\ consumed \in [Slaves -> SUBSET (0 .. 3)]

(* A cell of the cache holds what the EEPROM of the slave the cache is     *)
(* about holds there, across searches in slave after slave and a second    *)
(* start, unless an access was given up or the cell was written since.     *)
CacheIsOfSlave ==
  esislave \in Slaves \ doubt =>
    \A c \in esimap : <<esislave, c>> \in rewritten \/ esibuf[c] = rom[esislave][c]

(* What the master knows of a slave it has configured is in the slave's    *)
(* EEPROM, although it was read with several slaves at a time; its         *)
(* sections are those of the first slave of its type.                      *)
FirstLike(s) == Min({i \in 1 .. s : \A c \in {Manuf, Id, Rev} : rom[i][c] = rom[s][c]})
Content(s, cat) ==
  IF FirstOf(rom[s], cat) = 0 THEN Zero ELSE Beyond(rom[s], FirstOf(rom[s], cat) + 1)
Configured(s) == pc \in {"pdi", "dc"} /\ (pc = "dc" \/ s <= slave)

ConfigRight ==
  \A s \in Slaves : Configured(s) /\ doubt = {} =>
    /\ \A c \in {Manuf, Id, Rev, Ser, RxMbx} : list[s].field[c] = rom[s][c]
    /\ HasMailbox(s) => /\ list[s].field[MbxProto] = rom[s][MbxProto]
                        /\ list[s].field[TxMbx][1] = rom[s][TxMbx][1]
    /\ \A k \in 1 .. Len(Categories) : list[s].sect[k] = Content(FirstLike(s), Categories[k])

(* Calls of the application read what is there and find the first section  *)
(* of a category, and a write that reports success has written.            *)
CallsExact ==
  Returning /\ call.slave \notin doubt =>
    LET s == call.slave IN
    CASE call.op = "read" -> job.data[1] = rom[s][call.addr]
      [] call.op = "write" -> job.ok => rom[s][call.addr][1] = call.val
      [] call.op = "find" ->
           \/ find.val = Content(s, call.addr)
           \/ \E c \in Cells : <<s, c>> \in rewritten

(* What the master takes for the content of an EEPROM is its content.      *)
ContentRight == ConfigRight /\ CallsExact

(* The master gives commands only to an EEPROM it has control of.          *)
InControl ==
  job.pc \in {"latch", "command"} /\ job.cnt = 0 /\ job.slave \notin doubt
    => esc[job.slave].owner = "master" /\ ~esc[job.slave].busy

(* Between calls the master and the slave agree on who has control, and a  *)
(* search gives control back to a PDI that had it.                         *)
ControlReturned ==
  /\ Idle => \A s \in Slaves \ doubt : eep_pdi[s] <=> esc[s].owner # "master"
  /\ Returning /\ call.op = "find" => eep_pdi[call.slave] = call.pdi

(* No command is given without control, and control is given back.         *)
ControlKept == InControl /\ ControlReturned

(* The search back through the list finds the slave a slave is plugged     *)
(* into, whatever the cabling.                                             *)
ParentFound ==
  pc = "dc" /\ ~misread => \A s \in Slaves : list[s].parent = bus.up[s]

(* A slave with a clock is set back from the next one up by the time       *)
(* frames take between them, whatever branches and slaves without a clock  *)
(* there are, as long as no slave without a clock splits the line.         *)
Clocked == {s \in Slaves : bus.dc[s]}
Straight == \A s \in Slaves \ Clocked : Cardinality(Children(bus, s)) <= 1
Measured == pc = "run" /\ bus # NoBus /\ ~misread

DelaysRight ==
  Measured /\ Straight =>
    \A s \in Clocked :
      LET parent == DcParent(list, s) IN
      parent > 0 => list[s].pdelay = list[parent].pdelay
                                     + Arrival(bus)[s] - Arrival(bus)[parent]

(* The order of the list and the port times give the cabling back.         *)
CablingRight == ParentFound /\ DelaysRight

(* "slaves with the same CyclTime will sync at the same moment (you can use *)
(* CyclShift to shift the sync)", also when one of them has a SYNC1 that   *)
(* comes every few cycles; and none starts before the last one has been    *)
(* told to.                                                                *)
Synced == {s \in Slaves : list[s].sync # << >>}
Base(s) == list[s].sync.start - list[s].sync.mode.shift

Period(m) == IF m.both THEN TrueCyclTime(m) ELSE m.cycle0

SyncsTogether ==
  pc = "run" /\ ~misread =>
    /\ \A s, t \in Synced :
         LET m == list[s].sync.mode
             n == list[t].sync.mode
             common == IF Period(m) = Period(n) THEN Period(m) ELSE m.cycle0
         IN  m.cycle0 = n.cycle0 /\ m.cycle0 > 0 => (Base(s) - Base(t)) % common = 0
    /\ \A s \in Synced : Base(s) >= round

(* The clocks are where they should be. *)
ClocksRight == CablingRight /\ SyncsTogether

(* "if branch has no DC slaves consume port on root parent": a slave with  *)
(* a clock directly behind another one is set back from it by the time     *)
(* between them, also after a branch without clocks.                       *)
BranchesSkipped ==
  Measured =>
    \A s \in Clocked :
      bus.up[s] \in Clocked =>
        list[s].pdelay = list[bus.up[s]].pdelay
                         + Arrival(bus)[s] - Arrival(bus)[bus.up[s]]

(* The start ends, and so does every call.                                 *)
EveryCallReturns == []<>(pc = "stopped" \/ Idle)
=============================================================================
