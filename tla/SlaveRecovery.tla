--------------------------- MODULE SlaveRecovery ---------------------------
(***************************************************************************)
(* How slaves that drop off the ring or restart are brought back: the      *)
(* monitoring thread of the samples (ecatcheck) with ecx_readstate,        *)
(* ecx_statecheck, ecx_writestate, ecx_reconfig_slave and                  *)
(* ecx_recover_slave.  Every datagram, and every word read from an EEPROM, *)
(* is a step; stations come, go and restart between any two.  The stations *)
(* and the wire are external: the code shows them through the registers it *)
(* reads and writes.                                                       *)
(***************************************************************************)
EXTENDS Integers, FiniteSets

CONSTANTS NSlaves,             \* slavecount
          Handled,             \* slaves ecx_slavembxcyclic was called for
          Watched,             \* stations whose watchdog takes them out of OP
          Identity,            \* alias and EEPROM identity of each station
          MaxLost,             \* bound: frames the wire loses
          MaxFaults            \* bound: times a station goes or restarts

Slaves == 1 .. NSlaves

(* What ecx_recover_slave knows a slave by: its alias register and three   *)
(* words of its EEPROM.  The slave list has what the stations had at first.*)
EepFields == {"id", "man", "rev"}
Fields    == {"alias"} \cup EepFields

ASSUME RecoveryAssumption ==
  /\ NSlaves \in Nat \ {0}
  /\ Handled \subseteq Slaves
  /\ Watched \subseteq Slaves
  /\ Identity \in [Slaves -> [Fields -> Nat]]
  /\ MaxLost \in Nat
  /\ MaxFaults \in Nat

(* Station addresses: none, EC_TEMPNODE, or the configured one of a slave. *)
NoAddr    == 0
TEMPNODE  == -1
Addresses == Slaves \cup {NoAddr, TEMPNODE}

ALStates == {"init", "pre_op", "safe_op_error", "safe_op", "op"}

VARIABLES plugged, station, alstate,   \* per station: on the ring, its station
                                       \* address, its AL state
          lost, faults,                \* frames lost and faults so far
          state,                       \* per slave: the state read last
          islost,                      \* per slave: it is not responding
          mbxhandlerstate,             \* per slave: "none", "cyclic" or "lost"
          configadr,                   \* per slave: the address it is talked to
          docheckstate,                \* a slave was not OPERATIONAL
          mpc, slaveix, goal,          \* the monitoring thread: where it is, the
                                       \* slave it is at, the state it wants
          holders,                     \* history: stations on the ring that have had
                                       \* the temporary address since it was given
          stillop,                     \* history: stations in OP since their mailbox
                                       \* handling was suspended
          strays                       \* history: stations ever given the address of
                                       \* another slave

stations == <<plugged, station, alstate, faults>>
list     == <<state, islost, mbxhandlerstate, configadr>>
history  == <<holders, stillop, strays>>
vars     == <<stations, lost, list, docheckstate, mpc, slaveix, goal, history>>

(* Where the thread is in ecx_recover_slave. *)
Identifying   == {"alias"} \cup EepFields
RecoverySteps == {"read", "clear", "temp", "undo", "assign", "remove"} \cup Identifying

TypeOK ==
  /\ plugged \in [Slaves -> BOOLEAN]
  /\ station \in [Slaves -> Addresses]
  /\ alstate \in [Slaves -> ALStates]
  /\ lost \in 0 .. MaxLost
  /\ faults \in 0 .. MaxFaults
  /\ state \in [Slaves -> ALStates \cup {"none"}]
  /\ islost \in [Slaves -> BOOLEAN]
  /\ mbxhandlerstate \in [Slaves -> {"none", "cyclic", "lost"}]
  /\ configadr \in [Slaves -> Addresses]
  /\ \A s \in Slaves : configadr[s] \in {s, TEMPNODE}
  /\ docheckstate \in BOOLEAN
  /\ mpc \in {"wait", "broadcast", "each", "examine", "write", "check", "islost",
              "next", "done"} \cup RecoverySteps
  /\ slaveix \in Slaves
  /\ goal \in {"init", "pre_op", "safe_op"}
  /\ holders \subseteq Slaves
  /\ stillop \subseteq Slaves
  /\ strays \subseteq Slaves

Init ==
  /\ plugged = [s \in Slaves |-> TRUE]
  /\ station = [s \in Slaves |-> s]
  /\ alstate = [s \in Slaves |-> "op"]
  /\ lost = 0
  /\ faults = 0
  /\ state = [s \in Slaves |-> "op"]
  /\ islost = [s \in Slaves |-> FALSE]
  /\ mbxhandlerstate = [s \in Slaves |-> IF s \in Handled THEN "cyclic" ELSE "none"]
  /\ configadr = [s \in Slaves |-> s]
  /\ docheckstate = FALSE
  /\ mpc = "wait"
  /\ slaveix = 1
  /\ goal = "init"
  /\ holders = {}
  /\ stillop = {}
  /\ strays = {}

-----------------------------------------------------------------------------
(* Stations and wire. *)

(* The stations that answer to an address; the one that is at a position,  *)
(* which counts the stations present.                                      *)
AtAddress(a)  == {t \in Slaves : plugged[t] /\ station[t] = a}
AtPosition(n) == {t \in Slaves : /\ plugged[t]
                                 /\ Cardinality({u \in 1 .. t : plugged[u]}) = n}

(* A datagram for a set of stations is carried out and answered, comes     *)
(* back although no station took it, or is lost before or after they did.  *)
Outcomes == {"answered", "nobody", "unsent", "unanswered"}

Datagram(set, outcome) ==
  \/ outcome = "answered" /\ set # {} /\ UNCHANGED lost
  \/ outcome = "nobody" /\ set = {} /\ UNCHANGED lost
  \/ outcome \in {"unsent", "unanswered"} /\ lost < MaxLost /\ lost' = lost + 1

CarriedOut(outcome) == outcome \in {"answered", "unanswered"}

(* A write of the station address register, and of the AL control register *)
(* with the state asked for.                                               *)
WriteAddress(set, outcome, a) ==
  /\ Datagram(set, outcome)
  /\ station' = IF CarriedOut(outcome)
                THEN [t \in Slaves |-> IF t \in set THEN a ELSE station[t]]
                ELSE station
  /\ UNCHANGED <<plugged, alstate, faults, stillop>>

(* What a station does when asked for a state; "safe_op_error" stands for  *)
(* SAFE_OP with the acknowledge bit.                                       *)
Follow(al, wanted) ==
  IF \/ wanted = "init"
     \/ wanted = "pre_op" /\ al \in {"init", "safe_op", "op", "safe_op_error"}
     \/ wanted = "safe_op" /\ al \in {"pre_op", "op"}
     \/ wanted = "op" /\ al = "safe_op"
  THEN wanted
  ELSE IF wanted = "safe_op_error" /\ al = "safe_op_error" THEN "safe_op" ELSE al

StillOp(suspended) == {t \in suspended : alstate'[t] = "op"}

WriteState(set, outcome, wanted) ==
  /\ Datagram(set, outcome)
  /\ alstate' = IF CarriedOut(outcome)
                THEN [t \in Slaves |-> IF t \in set THEN Follow(alstate[t], wanted)
                                                    ELSE alstate[t]]
                ELSE alstate
  /\ stillop' = StillOp(stillop)
  /\ UNCHANGED <<plugged, station, faults, holders, strays>>

StateAt(a) == IF AtAddress(a) = {} THEN "none"
              ELSE alstate[CHOOSE t \in AtAddress(a) : TRUE]

(* The AL status read from an address; an unanswered read leaves zero.     *)
ReadStateAt(a, outcome) == IF outcome = "answered" THEN StateAt(a) ELSE "none"

Unplug(s) ==
  /\ plugged[s]
  /\ faults < MaxFaults
  /\ faults' = faults + 1
  /\ plugged' = [plugged EXCEPT ![s] = FALSE]
  /\ UNCHANGED <<station, alstate, holders>>

(* A station comes back in the state and with the address it has kept.     *)
Plug(s) ==
  /\ ~plugged[s]
  /\ plugged' = [plugged EXCEPT ![s] = TRUE]
  /\ holders' = IF mpc \in Identifying \cup {"assign"} /\ station[s] = TEMPNODE
                THEN holders \cup {s} ELSE holders
  /\ UNCHANGED <<station, alstate, faults>>

(* Cut off from process data long enough, a station leaves OP.             *)
Watchdog(s) ==
  /\ s \in Watched /\ ~plugged[s] /\ alstate[s] = "op"
  /\ alstate' = [alstate EXCEPT ![s] = "safe_op_error"]
  /\ UNCHANGED <<plugged, station, faults, holders>>

(* A restart while unplugged is part of that fault. *)
Restart(s) ==
  /\ plugged[s] => faults < MaxFaults
  /\ faults' = IF plugged[s] THEN faults + 1 ELSE faults
  /\ station' = [station EXCEPT ![s] = NoAddr]
  /\ alstate' = [alstate EXCEPT ![s] = "init"]
  /\ UNCHANGED <<plugged, holders>>

Fault(s) ==
  /\ Unplug(s) \/ Plug(s) \/ Watchdog(s) \/ Restart(s)
  /\ stillop' = StillOp(stillop)
  /\ UNCHANGED <<lost, list, docheckstate, mpc, slaveix, goal, strays>>

-----------------------------------------------------------------------------
(* ecatcheck: reading the states. *)

(* Process data, addressed logically, miss a slave, or one was not         *)
(* OPERATIONAL the last time.                                              *)
Start ==
  /\ mpc = "wait"
  /\ docheckstate \/ \E s \in Slaves : ~(plugged[s] /\ alstate[s] = "op")
  /\ docheckstate' = FALSE
  /\ slaveix' = 1
  /\ mpc' = "broadcast"
  /\ UNCHANGED <<stations, lost, list, goal, history>>

(* ecx_readstate asks all stations at once: when all are there and in the  *)
(* same state without error, this is the state of every slave.             *)
AllIn(al) == \A t \in Slaves : plugged[t] /\ alstate[t] = al

ReadBroadcast ==
  /\ mpc = "broadcast"
  /\ \E outcome \in Outcomes :
       /\ Datagram({t \in Slaves : plugged[t]}, outcome)
       /\ \/ \E al \in ALStates \ {"safe_op_error"} :
               /\ outcome = "answered"
               /\ AllIn(al)
               /\ state' = [s \in Slaves |-> al]
               /\ mpc' = "examine"
          \/ /\ \A al \in ALStates \ {"safe_op_error"} : outcome = "answered" => ~AllIn(al)
             /\ mpc' = "each"
             /\ UNCHANGED state
  /\ UNCHANGED <<stations, islost, mbxhandlerstate, configadr, docheckstate, slaveix,
                 goal, history>>

(* One frame asks each slave at its address; what it brings for each.      *)
FPRD_multi(outcome) == [s \in Slaves |-> ReadStateAt(configadr[s], outcome)]

ReadEach ==
  /\ mpc = "each"
  /\ \E outcome \in Outcomes \ {"nobody"} :
       /\ Datagram(Slaves, outcome)
       /\ state' = FPRD_multi(outcome)
  /\ mpc' = "examine"
  /\ UNCHANGED <<stations, islost, mbxhandlerstate, configadr, docheckstate, slaveix,
                 goal, history>>

-----------------------------------------------------------------------------
(* ecatcheck: one slave after the other. *)

(* The slave is not OPERATIONAL but in one of the states given. *)
Examine(states, next) ==
  /\ mpc = "examine"
  /\ state[slaveix] \in states
  /\ docheckstate' = TRUE
  /\ mpc' = next
  /\ UNCHANGED slaveix

AckError ==
  LET s == slaveix IN
  /\ Examine({"safe_op_error"}, "islost")
  /\ \E outcome \in Outcomes :
       WriteState(AtAddress(configadr[s]), outcome, "safe_op_error")
  /\ UNCHANGED <<list, goal>>

LeavesHandler(mhs) == mhs

(* The mailbox of a slave that is found again is handled as before.        *)
HandlerOfFound(mhs) == IF mhs = "lost" THEN "cyclic" ELSE mhs

RequestOp ==
  LET s == slaveix IN
  /\ Examine({"safe_op"}, "islost")
  /\ state' = [state EXCEPT ![s] = "op"]
  /\ mbxhandlerstate' = [mbxhandlerstate EXCEPT ![s] = HandlerOfFound(@)]
  /\ \E outcome \in Outcomes : WriteState(AtAddress(configadr[s]), outcome, "op")
  /\ UNCHANGED <<islost, configadr, goal>>

Reconfigure ==
  /\ Examine({"init", "pre_op"}, "write")
  /\ goal' = "init"
  /\ UNCHANGED <<stations, lost, list, history>>

(* No answer: after a second look the slave counts as lost. *)
Recheck ==
  LET s == slaveix IN
  /\ Examine({"none"}, "islost")
  /\ ~islost[s]
  /\ \E outcome \in Outcomes :
       LET seen == ReadStateAt(configadr[s], outcome) IN
       /\ Datagram(AtAddress(configadr[s]), outcome)
       /\ state' = [state EXCEPT ![s] = seen]
       /\ islost' = [islost EXCEPT ![s] = seen = "none"]
       /\ mbxhandlerstate' = IF seen = "none"
                             THEN [mbxhandlerstate EXCEPT ![s] = "lost"]
                             ELSE mbxhandlerstate
       /\ stillop' = IF seen = "none" /\ alstate[s] = "op" THEN stillop \cup {s}
                                                          ELSE stillop
  /\ UNCHANGED <<stations, configadr, goal, holders, strays>>

StillGone ==
  /\ Examine({"none"}, "islost")
  /\ islost[slaveix]
  /\ UNCHANGED <<stations, lost, list, goal, history>>

PassOver ==
  /\ mpc = "examine"
  /\ state[slaveix] = "op"
  /\ mpc' = "islost"
  /\ UNCHANGED <<stations, lost, list, docheckstate, slaveix, goal, history>>

(* A slave that is marked lost: recover it, or it is found. *)
TestLost ==
  LET s == slaveix  gone == state[s] \in {"none", "init"} IN
  /\ mpc = "islost"
  /\ mpc' = IF islost[s] /\ gone THEN "read" ELSE "next"
  /\ islost' = [islost EXCEPT ![s] = @ /\ gone]
  /\ UNCHANGED <<stations, lost, state, mbxhandlerstate, configadr, docheckstate,
                 slaveix, goal, history>>

NextSlave ==
  /\ mpc = "next"
  /\ IF slaveix < NSlaves THEN slaveix' = slaveix + 1 /\ mpc' = "examine"
                          ELSE slaveix' = slaveix /\ mpc' = "done"
  /\ UNCHANGED <<stations, lost, list, docheckstate, goal, history>>

(* Without docheckstate: "OK : all slaves resumed OPERATIONAL." *)
Finish ==
  /\ mpc = "done"
  /\ mpc' = "wait"
  /\ UNCHANGED <<stations, lost, list, docheckstate, slaveix, goal, history>>

-----------------------------------------------------------------------------
(* ecx_reconfig_slave: INIT, PRE_OP, SAFE_OP, each asked for and checked.  *)

SkipsPreOp(g) == "safe_op"

GoalAfter(g) == IF g = "init" THEN "pre_op" ELSE "safe_op"

(* Only the first request must be answered. *)
AskState ==
  LET s == slaveix IN
  /\ mpc = "write"
  /\ \E outcome \in Outcomes :
       /\ WriteState(AtAddress(configadr[s]), outcome, goal)
       /\ mpc' = IF goal = "init" /\ outcome # "answered" THEN "islost" ELSE "check"
  /\ UNCHANGED <<list, docheckstate, slaveix, goal>>

(* ecx_statecheck polls until the state is reached or its timer runs out,  *)
(* so one lost answer does not hide a state that was reached.              *)
CheckState ==
  LET s == slaveix IN
  /\ mpc = "check"
  /\ \E outcome \in Outcomes :
       LET seen == ReadStateAt(configadr[s], outcome) IN
       /\ Datagram(AtAddress(configadr[s]), outcome)
       /\ outcome = "answered" \/ StateAt(configadr[s]) # goal
       /\ state' = [state EXCEPT ![s] = seen]
       /\ IF seen = goal /\ goal # "safe_op"
          THEN mpc' = "write" /\ goal' = GoalAfter(goal) /\ UNCHANGED islost
          ELSE /\ mpc' = "islost"
               /\ islost' = [islost EXCEPT ![s] = @ /\ seen \in {"none", "init"}]
               /\ goal' = "init"
  /\ UNCHANGED <<stations, mbxhandlerstate, configadr, docheckstate, slaveix, history>>

-----------------------------------------------------------------------------
(* ecx_recover_slave.  Its caller takes every result but 0 for success.    *)

Recovering(at, next) ==
  /\ mpc = at
  /\ mpc' = next
  /\ UNCHANGED <<state, mbxhandlerstate, docheckstate, slaveix, goal>>

Return(success) == islost' = [islost EXCEPT ![slaveix] = @ /\ ~success]

(* Who is at the slave's position?  Only a station without address is      *)
(* taken further.                                                          *)
ReadPosition ==
  LET s == slaveix  there == AtPosition(s) IN
  /\ \E outcome \in Outcomes :
       /\ Datagram(there, outcome)
       /\ \/ /\ outcome = "answered" /\ \E t \in there : station[t] = NoAddr
             /\ Recovering("read", "clear")
             /\ UNCHANGED islost
          \/ /\ outcome = "answered" => \A t \in there : station[t] # NoAddr
             /\ Recovering("read", "next")
             /\ Return(outcome = "answered" /\ \E t \in there : station[t] = configadr[s])
  /\ UNCHANGED <<stations, configadr, history>>

(* Other stations with the temporary address lose it. *)
ClearTemporary ==
  /\ Recovering("clear", "temp")
  /\ \E outcome \in Outcomes : WriteAddress(AtAddress(TEMPNODE), outcome, NoAddr)
  /\ UNCHANGED <<islost, configadr, holders, strays>>

SetTemporary ==
  LET s == slaveix IN
  /\ \E outcome \in Outcomes :
       /\ WriteAddress(AtPosition(s), outcome, TEMPNODE)
       /\ \/ /\ outcome = "answered"
             /\ Recovering("temp", "alias")
             /\ configadr' = [configadr EXCEPT ![s] = TEMPNODE]
             /\ holders' = AtAddress(TEMPNODE)'
          \/ /\ outcome # "answered"
             /\ Recovering("temp", "undo")
             /\ UNCHANGED <<configadr, holders>>
  /\ UNCHANGED <<islost, strays>>

UndoTemporary ==
  /\ Recovering("undo", "next")
  /\ \E outcome \in Outcomes : WriteAddress(AtAddress(TEMPNODE), outcome, NoAddr)
  /\ UNCHANGED <<islost, configadr, holders, strays>>

(* What a read of the stations at an address brings: of several the last   *)
(* on the ring; without an answer zero.  The read of a word takes several  *)
(* frames, and ecx_readeepromFP takes a lost command for a given one: it   *)
(* may bring the word read before.  So may a station that has joined since.*)
ReadFrom(there, f, outcome) ==
  (IF outcome = "answered"
   THEN {Identity[t][f] : t \in {u \in there : \A v \in there : v <= u}} ELSE {0})
  \cup (IF f = "alias" \/ (outcome = "answered" /\ Cardinality(holders) = 1) THEN {}
        ELSE {0} \cup {Identity[t][g] : t \in there, g \in EepFields \ {f}})

AnyValue(s, f, value) == TRUE

IsOf(s, f, value) == value = Identity[s][f]

AfterField == [alias |-> "id", id |-> "man", man |-> "rev", rev |-> "assign"]

(* Alias, product, vendor and revision, one after the other.               *)
Identify(f) ==
  LET s == slaveix  there == AtAddress(TEMPNODE) IN
  /\ \E outcome \in Outcomes :
       /\ Datagram(there, outcome)
       /\ \E value \in ReadFrom(there, f, outcome) :
            Recovering(f, IF IsOf(s, f, value) THEN AfterField[f] ELSE "remove")
  /\ UNCHANGED <<stations, islost, configadr, history>>

(* The result is the working counter: -1 for a lost frame. *)
AssignAddress ==
  LET s == slaveix IN
  /\ Recovering("assign", "next")
  /\ \E outcome \in Outcomes :
       /\ WriteAddress(AtAddress(TEMPNODE), outcome, s)
       /\ Return(outcome # "nobody")
       /\ strays' = IF CarriedOut(outcome) THEN strays \cup (AtAddress(TEMPNODE) \ {s})
                                          ELSE strays
  /\ configadr' = [configadr EXCEPT ![s] = s]
  /\ holders' = {}

RemoveAddress ==
  LET s == slaveix IN
  /\ Recovering("remove", "next")
  /\ \E outcome \in Outcomes : WriteAddress(AtAddress(TEMPNODE), outcome, NoAddr)
  /\ configadr' = [configadr EXCEPT ![s] = s]
  /\ holders' = {}
  /\ UNCHANGED <<islost, strays>>

Monitor ==
  \/ Start \/ ReadBroadcast \/ ReadEach
  \/ AckError \/ RequestOp \/ Reconfigure \/ Recheck \/ StillGone \/ PassOver
  \/ AskState \/ CheckState
  \/ TestLost \/ NextSlave \/ Finish
  \/ ReadPosition \/ ClearTemporary \/ SetTemporary \/ UndoTemporary
  \/ (\E f \in Fields : Identify(f)) \/ AssignAddress \/ RemoveAddress

Next == Monitor \/ \E s \in Slaves : Fault(s)

Spec == Init /\ [][Next]_vars

(* The monitoring thread goes on. *)
FairSpec == Spec /\ WF_vars(Monitor)

-----------------------------------------------------------------------------
(* Properties. *)

(* A field passes the check of ecx_recover_slave: it is what the slave     *)
(* list has, or that is what a read that fails may bring.                  *)
Passes(t, s, f) ==
  Identity[s][f] \in {Identity[t][f], 0}
    \cup (IF f = "alias" THEN {} ELSE {Identity[t][g] : g \in EepFields})

(* However stations come, go, restart and change positions, between any    *)
(* two datagrams of ecx_recover_slave too, and whichever frames are lost:  *)
(* a station that is given the address of a slave cannot be told from it   *)
(* by what ecx_recover_slave compares, unless a second station has had the *)
(* temporary address on the ring since it was given.                       *)
OwnAddress ==
  [][\A t \in Slaves :
       station'[t] \in Slaves /\ station'[t] # station[t]
         => \/ \E u \in holders : u # t
            \/ \A f \in Fields : Passes(t, station'[t], f)]_vars

(* Whatever route a slave takes back to OP, with frames lost and states    *)
(* stale: the mailbox handling of a slave in OP is only suspended if its   *)
(* station has been in OP ever since it was suspended (ecatcheck resumes   *)
(* it on the way from SAFE_OP to OP alone), or a station has been given    *)
(* another's address.                                                      *)
NoneSuspended ==
  strays = {} => \A s \in Slaves :
                   mbxhandlerstate[s] = "lost" /\ alstate[s] = "op" => s \in stillop

Operational(s) == plugged[s] /\ station[s] = s /\ alstate[s] = "op"

(* A slave whose station stays on the ring, at its position because the    *)
(* stations before it do too, gets its address back, becomes OPERATIONAL   *)
(* and does not count as lost, with three exceptions.  A station that was  *)
(* cut off, or whose frame was lost, while it had the temporary address    *)
(* keeps that: it is neither the slave's nor none.  A station that has     *)
(* been given another's address keeps that as well.  And when all are in   *)
(* the same state, the broadcast of ecx_readstate reads it for the slaves  *)
(* without an address too: after a restart of all nobody is found missing  *)
(* and ecx_reconfig_slave asks at addresses no station has, and a station  *)
(* in OP that a recovery of another slave has taken the address from, the  *)
(* positions having shifted, is not missed.                                *)
Resumes ==
  \A s \in Slaves :
    []<>(\/ \E u \in 1 .. s : ~plugged[u]
         \/ station[s] = TEMPNODE \/ strays # {}
         \/ station[s] = NoAddr /\ \E al \in ALStates : AllIn(al)
         \/ Operational(s) /\ ~islost[s])

(* Without the exceptions the first two do not hold.                       *)
AddressesStayOwn ==
  \A s, t \in Slaves : station[t] = s => \A f \in Fields : Passes(t, s, f)

AllHandled ==
  \A s \in Slaves : mbxhandlerstate[s] = "lost" => alstate[s] # "op"

(* Only slaves ecx_slavembxcyclic was called for are handled cyclically.   *)
OnlyAddedCyclic == \A s \in Slaves : mbxhandlerstate[s] = "cyclic" => s \in Handled

(* A recovery that counts as a success has set the address of the slave.   *)
RecoveredIsAddressed ==
  [][mpc = "assign" /\ islost[slaveix] /\ ~islost'[slaveix]
       => station'[slaveix] = slaveix]_vars

(* No station keeps the temporary address for ever. *)
TemporaryIsTemporary == \A t \in Slaves : []<>(station[t] # TEMPNODE)
=============================================================================
