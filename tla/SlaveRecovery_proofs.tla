------------------------ MODULE SlaveRecovery_proofs ------------------------
(***************************************************************************)
(* Proofs about SlaveRecovery for any number of slaves, faults and lost    *)
(* frames.                                                                 *)
(***************************************************************************)
EXTENDS SlaveRecovery, FiniteSetTheorems, TLAPS

(* A datagram counts the frames it loses.                                  *)
LEMMA DatagramCounts ==
  ASSUME NEW set, NEW outcome, lost \in 0 .. MaxLost, Datagram(set, outcome)
  PROVE  lost' \in 0 .. MaxLost
BY RecoveryAssumption DEF Datagram

(* Writing a station address keeps the types of the stations.              *)
LEMMA WriteAddressTypes ==
  ASSUME NEW set, NEW outcome, NEW a \in Addresses, TypeOK,
         WriteAddress(set, outcome, a)
  PROVE  /\ lost' \in 0 .. MaxLost
         /\ plugged' \in [Slaves -> BOOLEAN]
         /\ station' \in [Slaves -> Addresses]
         /\ alstate' \in [Slaves -> ALStates]
         /\ faults' \in 0 .. MaxFaults
         /\ stillop' \subseteq Slaves
BY DatagramCounts DEF TypeOK, WriteAddress

(* Asking for an AL state keeps the types of the stations.                 *)
LEMMA WriteStateTypes ==
  ASSUME NEW set, NEW outcome, NEW wanted \in ALStates, TypeOK,
         WriteState(set, outcome, wanted)
  PROVE  /\ lost' \in 0 .. MaxLost
         /\ plugged' \in [Slaves -> BOOLEAN]
         /\ station' \in [Slaves -> Addresses]
         /\ alstate' \in [Slaves -> ALStates]
         /\ faults' \in 0 .. MaxFaults
         /\ holders' \subseteq Slaves /\ stillop' \subseteq Slaves
         /\ strays' \subseteq Slaves
<1>1. \A al \in ALStates : Follow(al, wanted) \in ALStates
  BY DEF Follow, ALStates
<1>2. lost' \in 0 .. MaxLost
  BY DatagramCounts DEF TypeOK, WriteState
<1> QED
  BY <1>1, <1>2 DEF TypeOK, WriteState, StillOp

(* What is read from an address is a state or nothing.                     *)
LEMMA ReadStateType ==
  ASSUME NEW a, NEW outcome, TypeOK
  PROVE  ReadStateAt(a, outcome) \in ALStates \cup {"none"}
<1>1. CASE AtAddress(a) = {}
  BY <1>1 DEF ReadStateAt, StateAt
<1>2. CASE AtAddress(a) # {}
  <2>1. (CHOOSE t \in AtAddress(a) : TRUE) \in Slaves
    BY <1>2 DEF AtAddress
  <2> QED
    BY <1>2, <2>1 DEF ReadStateAt, StateAt, TypeOK
<1> QED
  BY <1>1, <1>2

-----------------------------------------------------------------------------
(* The list and the stations as the mapping of the ring leaves them.       *)
LEMMA TypeInit == Init => TypeOK
<1> SUFFICES ASSUME Init PROVE TypeOK
  OBVIOUS
<1>1. 0 \in 0 .. MaxLost /\ 0 \in 0 .. MaxFaults /\ 1 \in Slaves
  BY RecoveryAssumption DEF Slaves
<1>2. station \in [Slaves -> Addresses]
  BY DEF Init, Addresses
<1>3. /\ alstate \in [Slaves -> ALStates]
      /\ state \in [Slaves -> ALStates \cup {"none"}]
  BY DEF Init, ALStates
<1>4. mbxhandlerstate \in [Slaves -> {"none", "cyclic", "lost"}]
  BY DEF Init
<1>5. /\ configadr \in [Slaves -> Addresses]
      /\ \A s \in Slaves : configadr[s] \in {s, TEMPNODE}
  BY DEF Init, Addresses
<1>6. plugged \in [Slaves -> BOOLEAN] /\ islost \in [Slaves -> BOOLEAN]
  BY DEF Init
<1> QED
  BY <1>1, <1>2, <1>3, <1>4, <1>5, <1>6 DEF Init, TypeOK

(* Stations that come, go, leave OP and restart.                           *)
LEMMA TypeFault ==
  ASSUME TypeOK, NEW s \in Slaves, Fault(s)
  PROVE  TypeOK'
<1>0. stillop' \subseteq Slaves /\ UNCHANGED <<lost, list, docheckstate, mpc, slaveix, goal, strays>>
  BY DEF Fault, StillOp, TypeOK
<1>1. CASE Unplug(s)
  BY <1>0, <1>1, RecoveryAssumption DEF TypeOK, Unplug, list
<1>2. CASE Plug(s)
  <2>1. holders' \subseteq Slaves
    BY <1>2 DEF Plug, TypeOK
  <2> QED
    BY <1>0, <1>2, <2>1 DEF TypeOK, Plug, list
<1>3. CASE Restart(s)
  <2>1. faults' \in 0 .. MaxFaults
    BY <1>3, RecoveryAssumption DEF Restart, TypeOK
  <2>2. station' \in [Slaves -> Addresses]
    BY <1>3 DEF Restart, TypeOK, Addresses
  <2>3. alstate' \in [Slaves -> ALStates]
    BY <1>3 DEF Restart, TypeOK, ALStates
  <2> QED
    BY <1>0, <1>3, <2>1, <2>2, <2>3 DEF TypeOK, Restart, list
<1>4. CASE Watchdog(s)
  <2>1. alstate' \in [Slaves -> ALStates]
    BY <1>4 DEF Watchdog, TypeOK, ALStates
  <2> QED
    BY <1>0, <1>4, <2>1 DEF TypeOK, Watchdog, list
<1> QED
  BY <1>1, <1>2, <1>3, <1>4 DEF Fault

LEMMA TypeMonitor ==
  ASSUME TypeOK, Monitor
  PROVE  TypeOK'
<1> USE DEF list, stations, history
<1>1. CASE Start
  <2>1. 1 \in Slaves
    BY RecoveryAssumption DEF Slaves
  <2> QED
    BY <1>1, <2>1 DEF Start, TypeOK
<1>2. CASE ReadBroadcast
  BY <1>2, DatagramCounts DEF ReadBroadcast, TypeOK
<1>3. CASE ReadEach
  BY <1>3, DatagramCounts, ReadStateType DEF ReadEach, FPRD_multi, TypeOK
<1>4. CASE AckError
  <2>1. PICK outcome : WriteState(AtAddress(configadr[slaveix]), outcome, "safe_op_error")
    BY <1>4 DEF AckError
  <2>2. "safe_op_error" \in ALStates
    BY DEF ALStates
  <2> QED
    BY <1>4, <2>1, <2>2, WriteStateTypes DEF AckError, Examine, TypeOK
<1>5. CASE RequestOp
  <2>1. PICK outcome : WriteState(AtAddress(configadr[slaveix]), outcome, "op")
    BY <1>5 DEF RequestOp
  <2>2. "op" \in ALStates
    BY DEF ALStates
  <2>3. /\ state' \in [Slaves -> ALStates \cup {"none"}]
        /\ mbxhandlerstate' \in [Slaves -> {"none", "cyclic", "lost"}]
    BY <1>5, <2>2 DEF RequestOp, HandlerOfFound, TypeOK
  <2> QED
    BY <1>5, <2>1, <2>2, <2>3, WriteStateTypes DEF RequestOp, Examine, TypeOK
<1>6. CASE Reconfigure
  BY <1>6 DEF Reconfigure, Examine, TypeOK
<1>7. CASE Recheck
  <2>1. PICK outcome \in Outcomes :
          LET seen == ReadStateAt(configadr[slaveix], outcome) IN
          /\ Datagram(AtAddress(configadr[slaveix]), outcome)
          /\ state' = [state EXCEPT ![slaveix] = seen]
          /\ islost' = [islost EXCEPT ![slaveix] = seen = "none"]
          /\ mbxhandlerstate' = IF seen = "none"
                                THEN [mbxhandlerstate EXCEPT ![slaveix] = "lost"]
                                ELSE mbxhandlerstate
          /\ stillop' \in {stillop, stillop \cup {slaveix}}
    BY <1>7 DEF Recheck
  <2>2. lost' \in 0 .. MaxLost
    BY <2>1, DatagramCounts DEF TypeOK
  <2>3. /\ state' \in [Slaves -> ALStates \cup {"none"}]
        /\ islost' \in [Slaves -> BOOLEAN]
        /\ mbxhandlerstate' \in [Slaves -> {"none", "cyclic", "lost"}]
        /\ stillop' \subseteq Slaves
    BY <2>1, ReadStateType DEF TypeOK
  <2> QED
    BY <1>7, <2>2, <2>3 DEF Recheck, Examine, TypeOK
<1>8. CASE StillGone
  BY <1>8 DEF StillGone, Examine, TypeOK
<1>9. CASE PassOver
  BY <1>9 DEF PassOver, TypeOK
<1>10. CASE AskState
  <2>1. PICK outcome : /\ WriteState(AtAddress(configadr[slaveix]), outcome, goal)
                       /\ mpc' \in {"islost", "check"}
    BY <1>10 DEF AskState
  <2>2. goal \in ALStates
    BY DEF TypeOK, ALStates
  <2> QED
    BY <1>10, <2>1, <2>2, WriteStateTypes DEF AskState, TypeOK
<1>11. CASE CheckState
  <2>1. PICK outcome \in Outcomes :
          LET seen == ReadStateAt(configadr[slaveix], outcome) IN
          /\ Datagram(AtAddress(configadr[slaveix]), outcome)
          /\ state' = [state EXCEPT ![slaveix] = seen]
          /\ IF seen = goal /\ goal # "safe_op"
             THEN mpc' = "write" /\ goal' = GoalAfter(goal) /\ UNCHANGED islost
             ELSE /\ mpc' = "islost"
                  /\ islost' = [islost EXCEPT ![slaveix] = @ /\ seen \in {"none", "init"}]
                  /\ goal' = "init"
    BY <1>11 DEF CheckState
  <2>2. lost' \in 0 .. MaxLost
    BY <2>1, DatagramCounts DEF TypeOK
  <2>3. state' \in [Slaves -> ALStates \cup {"none"}]
    BY <2>1, ReadStateType DEF TypeOK
  <2>4. mpc' \in {"write", "islost"} /\ goal' \in {"init", "pre_op", "safe_op"}
    BY <2>1 DEF GoalAfter, TypeOK
  <2>5. islost' \in [Slaves -> BOOLEAN]
    BY <2>1 DEF TypeOK
  <2> QED
    BY <1>11, <2>2, <2>3, <2>4, <2>5 DEF CheckState, TypeOK
<1>12. CASE TestLost
  <2>1. islost' \in [Slaves -> BOOLEAN]
    BY <1>12 DEF TestLost, TypeOK
  <2>2. mpc' \in {"read", "next"}
    BY <1>12 DEF TestLost
  <2> QED
    BY <1>12, <2>1, <2>2 DEF TestLost, TypeOK, RecoverySteps
<1>13. CASE NextSlave
  BY <1>13, RecoveryAssumption DEF NextSlave, TypeOK, Slaves
<1>14. CASE Finish
  BY <1>14 DEF Finish, TypeOK
<1>15. CASE ReadPosition
  <2>1. lost' \in 0 .. MaxLost
    BY <1>15, DatagramCounts DEF ReadPosition, TypeOK
  <2>2. islost' \in [Slaves -> BOOLEAN]
    BY <1>15 DEF ReadPosition, Return, TypeOK
  <2>3. /\ mpc' \in {"clear", "next"}
        /\ UNCHANGED <<state, mbxhandlerstate, docheckstate, slaveix, goal>>
    BY <1>15 DEF ReadPosition, Recovering
  <2> QED
    BY <1>15, <2>1, <2>2, <2>3 DEF ReadPosition, TypeOK, RecoverySteps
<1>16. CASE ClearTemporary
  BY <1>16, WriteAddressTypes
     DEF ClearTemporary, Recovering, TypeOK, RecoverySteps, Addresses
<1>17. CASE SetTemporary
  <2>1. PICK outcome : WriteAddress(AtPosition(slaveix), outcome, TEMPNODE)
    BY <1>17 DEF SetTemporary
  <2>2. /\ mpc' \in {"alias", "undo"}
        /\ UNCHANGED <<state, mbxhandlerstate, docheckstate, slaveix, goal, islost, strays>>
    BY <1>17 DEF SetTemporary, Recovering
  <2>3. \/ configadr' = [configadr EXCEPT ![slaveix] = TEMPNODE]
        \/ configadr' = configadr
    BY <1>17 DEF SetTemporary
  <2>4. /\ configadr' \in [Slaves -> Addresses]
        /\ \A s \in Slaves : configadr'[s] \in {s, TEMPNODE}
    BY <2>3 DEF TypeOK, Addresses
  <2>5. holders' \subseteq Slaves
    BY <1>17 DEF SetTemporary, AtAddress, TypeOK
  <2>6. mpc' \in RecoverySteps
    BY <2>2 DEF RecoverySteps, Identifying
  <2>7. TEMPNODE \in Addresses
    BY DEF Addresses
  <2> QED
    BY <2>1, <2>2, <2>4, <2>5, <2>6, <2>7, WriteAddressTypes DEF TypeOK
<1>18. CASE UndoTemporary
  BY <1>18, WriteAddressTypes DEF UndoTemporary, Recovering, TypeOK, Addresses
<1>19. CASE \E f \in Fields : Identify(f)
  <2>1. PICK f \in Fields : Identify(f)
    BY <1>19
  <2>2. mpc' \in {AfterField[f], "remove"} /\ AfterField[f] \in RecoverySteps
    BY <2>1 DEF Identify, Recovering, AfterField, Fields, EepFields, RecoverySteps,
                Identifying
  <2>3. lost' \in 0 .. MaxLost
    BY <2>1, DatagramCounts DEF Identify, TypeOK
  <2>4. UNCHANGED <<stations, islost, configadr, history, state, mbxhandlerstate,
                    docheckstate, slaveix, goal>>
    BY <2>1 DEF Identify, Recovering
  <2> QED
    BY <2>2, <2>3, <2>4 DEF TypeOK, RecoverySteps
<1>20. CASE AssignAddress
  <2>1. PICK outcome : WriteAddress(AtAddress(TEMPNODE), outcome, slaveix)
    BY <1>20 DEF AssignAddress
  <2>2. slaveix \in Addresses
    BY DEF TypeOK, Addresses
  <2>3. islost' \in [Slaves -> BOOLEAN] /\ strays' \subseteq Slaves
    BY <1>20 DEF AssignAddress, Return, TypeOK, AtAddress
  <2> QED
    BY <1>20, <2>1, <2>2, <2>3, WriteAddressTypes DEF AssignAddress, Recovering, TypeOK
<1>21. CASE RemoveAddress
  BY <1>21, WriteAddressTypes DEF RemoveAddress, Recovering, TypeOK, Addresses
<1> QED
  BY <1>1, <1>2, <1>3, <1>4, <1>5, <1>6, <1>7, <1>8, <1>9, <1>10, <1>11, <1>12,
     <1>13, <1>14, <1>15, <1>16, <1>17, <1>18, <1>19, <1>20, <1>21 DEF Monitor

(* Every variable keeps its type whatever comes, goes and is lost.         *)
THEOREM TypeCorrect == Spec => []TypeOK
<1>1. TypeOK /\ [Next]_vars => TypeOK'
  <2>1. CASE UNCHANGED vars
    BY <2>1 DEF vars, stations, list, history, TypeOK
  <2> QED
    BY <2>1, TypeMonitor, TypeFault DEF Next
<1> QED
  BY <1>1, TypeInit, PTL DEF Spec

-----------------------------------------------------------------------------
(* What is known while a station that has got the temporary address is     *)
(* being identified: those that answer to it are among the holders, and if *)
(* there has been one only, it has passed the comparisons made so far.     *)

Compared(at) ==
  CASE at = "alias"  -> {}
    [] at = "id"     -> {"alias"}
    [] at = "man"    -> {"alias", "id"}
    [] at = "rev"    -> {"alias", "id", "man"}
    [] at = "assign" -> Fields

Single == \A u, v \in holders : u = v

HoldersKnown ==
  mpc \in Identifying \cup {"assign"} =>
    /\ AtAddress(TEMPNODE) \subseteq holders /\ holders # {}
    /\ Single => \A t \in holders : \A f \in Compared(mpc) : Passes(t, slaveix, f)

(* A word that passes as the slave's is one the only holder could bring.   *)
LEMMA MatchPasses ==
  ASSUME NEW f \in Fields, NEW t \in Slaves, NEW s \in Slaves, NEW outcome,
         NEW there \in SUBSET {t},
         outcome = "answered" => there # {},
         NEW value \in ReadFrom(there, f, outcome),
         IsOf(s, f, value)
  PROVE  Passes(t, s, f)
<1>1. value = Identity[s][f]
  BY DEF IsOf
<1>2. outcome = "answered" => there = {t}
  OBVIOUS
<1>3. CASE f = "alias"
  <2>1. value \in {0, Identity[t][f]}
    BY <1>2, <1>3 DEF ReadFrom
  <2> QED
    BY <1>1, <1>3, <2>1 DEF Passes
<1>4. CASE f # "alias"
  <2>1. f \in EepFields
    BY <1>4 DEF Fields
  <2>2. value \in {0, Identity[t][f]} \cup {Identity[u][g] : u \in there, g \in EepFields \ {f}}
    BY <1>2 DEF ReadFrom
  <2>3. value \in {0} \cup {Identity[t][g] : g \in EepFields}
    BY <2>1, <2>2
  <2> QED
    BY <1>1, <1>4, <2>3 DEF Passes
<1> QED
  BY <1>3, <1>4

LEMMA HoldersFault ==
  ASSUME TypeOK, HoldersKnown, NEW s \in Slaves, Fault(s)
  PROVE  HoldersKnown'
<1> SUFFICES ASSUME mpc \in Identifying \cup {"assign"}
             PROVE  /\ AtAddress(TEMPNODE)' \subseteq holders'
                    /\ holders' # {}
                    /\ Single' => \A t \in holders' : \A f \in Compared(mpc) :
                                    Passes(t, slaveix, f)
  BY DEF Fault, HoldersKnown
<1>1. holders \subseteq holders'
  BY DEF Fault, Unplug, Plug, Watchdog, Restart
<1>2. AtAddress(TEMPNODE)' \subseteq holders'
  <2>1. CASE Unplug(s) \/ Watchdog(s)
    BY <1>1, <2>1 DEF Unplug, Watchdog, AtAddress, HoldersKnown, TypeOK
  <2>2. CASE Plug(s)
    BY <1>1, <2>2 DEF Plug, AtAddress, HoldersKnown, TypeOK
  <2>3. CASE Restart(s)
    <3>1. NoAddr # TEMPNODE
      BY DEF NoAddr, TEMPNODE
    <3> QED
      BY <1>1, <2>3, <3>1 DEF Restart, AtAddress, HoldersKnown, TypeOK
  <2> QED
    BY <2>1, <2>2, <2>3 DEF Fault
<1>3. ASSUME Single', NEW t \in holders', NEW f \in Compared(mpc)
      PROVE  Passes(t, slaveix, f)
  <2>1. CASE t \in holders
    BY <1>1, <1>3, <2>1 DEF HoldersKnown, Single
  <2>2. CASE t \notin holders
    <3>1. Plug(s) /\ t = s /\ station[s] = TEMPNODE
      BY <1>3, <2>2 DEF Fault, Unplug, Plug, Watchdog, Restart
    <3>2. PICK u \in holders : TRUE
      BY DEF HoldersKnown
    <3> QED
      BY <1>1, <1>3, <2>2, <3>2 DEF Single
  <2> QED
    BY <2>1, <2>2
<1> QED
  BY <1>1, <1>2, <1>3 DEF HoldersKnown

LEMMA HoldersStep ==
  ASSUME TypeOK, HoldersKnown, [Next]_vars
  PROVE  HoldersKnown'
<1>1. CASE UNCHANGED vars
  BY <1>1 DEF vars, stations, history, HoldersKnown, AtAddress, Single
<1>2. ASSUME NEW s \in Slaves, Fault(s) PROVE HoldersKnown'
  BY <1>2, HoldersFault
<1>3. CASE SetTemporary
  <2>1. PICK outcome \in Outcomes :
          /\ WriteAddress(AtPosition(slaveix), outcome, TEMPNODE)
          /\ \/ /\ outcome = "answered"
                /\ Recovering("temp", "alias")
                /\ holders' = AtAddress(TEMPNODE)'
             \/ Recovering("temp", "undo")
    BY <1>3 DEF SetTemporary
  <2>2. CASE Recovering("temp", "undo")
    BY <2>2 DEF Recovering, HoldersKnown, Identifying, EepFields
  <2>3. CASE Recovering("temp", "alias") /\ outcome = "answered" /\ holders' = AtAddress(TEMPNODE)'
    <3>1. Compared(mpc') = {}
      BY <2>3 DEF Recovering, Compared
    <3>2. PICK t \in AtPosition(slaveix) : TRUE
      BY <2>1, <2>3 DEF WriteAddress, Datagram
    <3>3. t \in AtAddress(TEMPNODE)'
      BY <2>1, <2>3, <3>2 DEF WriteAddress, CarriedOut, AtPosition, AtAddress, TypeOK
    <3> QED
      BY <2>3, <3>1, <3>3 DEF HoldersKnown
  <2> QED
    BY <2>1, <2>2, <2>3
<1>4. ASSUME NEW f \in Fields, Identify(f) PROVE HoldersKnown'
  <2>1. PICK outcome, value :
          /\ Datagram(AtAddress(TEMPNODE), outcome)
          /\ value \in ReadFrom(AtAddress(TEMPNODE), f, outcome)
          /\ Recovering(f, IF IsOf(slaveix, f, value) THEN AfterField[f] ELSE "remove")
    BY <1>4 DEF Identify
  <2>2. UNCHANGED <<stations, history, slaveix>> /\ mpc = f
    BY <1>4 DEF Identify, Recovering
  <2>3. f \in Identifying
    BY DEF Fields, Identifying
  <2>4. AtAddress(TEMPNODE)' = AtAddress(TEMPNODE)
    BY <2>2 DEF stations, AtAddress
  <2>5. CASE ~IsOf(slaveix, f, value)
    BY <2>1, <2>5 DEF Recovering, HoldersKnown, Identifying, EepFields
  <2>6. CASE IsOf(slaveix, f, value)
    <3>1. mpc' = AfterField[f]
      BY <2>1, <2>6 DEF Recovering
    <3>2. Compared(mpc') = Compared(f) \cup {f}
      BY <3>1 DEF Compared, AfterField, Fields, EepFields
    <3>3. ASSUME Single, NEW t \in holders PROVE Passes(t, slaveix, f)
      <4>1. t \in Slaves /\ slaveix \in Slaves
        BY DEF TypeOK
      <4>2. AtAddress(TEMPNODE) \in SUBSET {t}
        BY <2>2, <2>3, <3>3 DEF HoldersKnown, Single
      <4>3. outcome = "answered" => AtAddress(TEMPNODE) # {}
        BY <2>1 DEF Datagram
      <4> QED
        BY <2>1, <2>6, <4>1, <4>2, <4>3, MatchPasses
    <3>4. Single' <=> Single
      BY <2>2 DEF Single, history
    <3> QED
      BY <2>2, <2>3, <2>4, <3>2, <3>3, <3>4 DEF HoldersKnown, history
  <2> QED
    BY <2>5, <2>6
<1>5. CASE Monitor /\ ~SetTemporary /\ ~(\E f \in Fields : Identify(f))
  <2>1. mpc' \notin Identifying \cup {"assign"}
    BY <1>5 DEF Monitor, Start, ReadBroadcast, ReadEach, AckError, RequestOp, Reconfigure,
                Recheck, StillGone, PassOver, AskState, CheckState, TestLost, NextSlave,
                Finish, Examine, ReadPosition, ClearTemporary, UndoTemporary,
                AssignAddress, RemoveAddress, Recovering, Identifying, EepFields
  <2> QED
    BY <2>1 DEF HoldersKnown
<1> QED
  BY <1>1, <1>2, <1>3, <1>4, <1>5 DEF Next

(* A station gets the address of a slave from AssignAddress only.          *)
LEMMA AddressStep ==
  ASSUME TypeOK, HoldersKnown, [Next]_vars, NEW t \in Slaves,
         station'[t] \in Slaves, station'[t] # station[t]
  PROVE  \/ \E u \in holders : u # t
         \/ \A f \in Fields : Passes(t, station'[t], f)
<1>1. NoAddr \notin Slaves /\ TEMPNODE \notin Slaves
  BY DEF NoAddr, TEMPNODE, Slaves
<1>2. CASE AssignAddress
  <2>1. PICK outcome : WriteAddress(AtAddress(TEMPNODE), outcome, slaveix)
    BY <1>2 DEF AssignAddress
  <2>2. mpc = "assign"
    BY <1>2 DEF AssignAddress, Recovering
  <2>3. t \in AtAddress(TEMPNODE) /\ station'[t] = slaveix
    BY <2>1 DEF WriteAddress, TypeOK
  <2>4. t \in holders /\ (Single => \A f \in Fields : Passes(t, slaveix, f))
    BY <2>2, <2>3 DEF HoldersKnown, Compared
  <2> QED
    BY <2>3, <2>4 DEF Single
<1>3. CASE ClearTemporary \/ UndoTemporary \/ RemoveAddress \/ SetTemporary
  <2>1. PICK set, outcome : \E a \in {NoAddr, TEMPNODE} : WriteAddress(set, outcome, a)
    BY <1>3 DEF ClearTemporary, UndoTemporary, RemoveAddress, SetTemporary
  <2> QED
    BY <1>1, <2>1 DEF WriteAddress, TypeOK
<1>4. ASSUME NEW s \in Slaves, Fault(s) PROVE FALSE
  BY <1>1, <1>4 DEF Fault, Unplug, Plug, Watchdog, Restart, TypeOK
<1>5. CASE AckError \/ RequestOp \/ AskState
  BY <1>5 DEF AckError, RequestOp, AskState, WriteState
<1>6. CASE \/ Start \/ ReadBroadcast \/ ReadEach \/ Reconfigure \/ Recheck
           \/ StillGone \/ PassOver \/ CheckState \/ TestLost \/ NextSlave \/ Finish
           \/ ReadPosition \/ (\E f \in Fields : Identify(f))
  BY <1>6 DEF Start, ReadBroadcast, ReadEach, Reconfigure, Recheck, StillGone, PassOver,
              CheckState, TestLost, NextSlave, Finish, ReadPosition, Identify, stations
<1>7. CASE UNCHANGED vars
  BY <1>7 DEF vars, stations
<1> QED
  BY <1>2, <1>3, <1>4, <1>5, <1>6, <1>7 DEF Next, Monitor

LEMMA TypeStep == TypeOK /\ [Next]_vars => TypeOK'
<1>1. CASE UNCHANGED vars
  BY <1>1 DEF vars, stations, list, history, TypeOK
<1> QED
  BY <1>1, TypeMonitor, TypeFault DEF Next

(* Whatever stations come, go and restart between any two datagrams and    *)
(* whatever frames are lost: unless a second station has had the temporary *)
(* address on the ring since it was given, a station that is given a       *)
(* slave's address is one that passes for it in every word compared.       *)
THEOREM AddressesAreOwn == Spec => OwnAddress
<1> DEFINE Inv == TypeOK /\ HoldersKnown
<1>1. Init => Inv
  BY TypeInit DEF Init, HoldersKnown, Identifying, EepFields
<1>2. Inv /\ [Next]_vars => Inv'
  BY TypeStep, HoldersStep
<1>3. Inv /\ [Next]_vars =>
        [\A t \in Slaves :
           station'[t] \in Slaves /\ station'[t] # station[t]
             => \/ \E u \in holders : u # t
                \/ \A f \in Fields : Passes(t, station'[t], f)]_vars
  BY AddressStep
<1> QED
  BY <1>1, <1>2, <1>3, PTL DEF Spec, OwnAddress

-----------------------------------------------------------------------------
(* Which slaves are left with their mailbox handling suspended.            *)

(* The list has the address of every slave but the one under recovery.     *)
OwnConfig ==
  \A s \in Slaves :
    \/ configadr[s] = s
    \/ s = slaveix /\ mpc \in Identifying \cup {"assign", "remove"}

(* A station with the address of another slave has been given it.          *)
StraysKnown ==
  strays = {} => \A t \in Slaves : station[t] \in {t, NoAddr, TEMPNODE}

ResumeInv == TypeOK /\ OwnConfig /\ StraysKnown /\ NoneSuspended

(* A station comes into OP only when it is asked to.                       *)
LEMMA FollowOp ==
  ASSUME NEW al \in ALStates, NEW wanted \in ALStates \ {"op"},
         Follow(al, wanted) = "op"
  PROVE  al = "op"
BY DEF Follow, ALStates

(* Of the stations asked for a state, only those asked for OP come to it.  *)
LEMMA WriteStateOp ==
  ASSUME TypeOK, NEW set, NEW outcome, NEW wanted \in ALStates,
         WriteState(set, outcome, wanted), NEW t \in Slaves, alstate'[t] = "op"
  PROVE  \/ alstate[t] = "op"
         \/ wanted = "op" /\ t \in set
BY FollowOp DEF WriteState, TypeOK

LEMMA OwnConfigStep ==
  ASSUME TypeOK, OwnConfig, [Next]_vars
  PROVE  OwnConfig'
<1>1. CASE UNCHANGED <<configadr, slaveix, mpc>>
  BY <1>1 DEF OwnConfig
<1>2. CASE UNCHANGED vars
  BY <1>1, <1>2 DEF vars, list
<1>3. ASSUME NEW s \in Slaves, Fault(s) PROVE OwnConfig'
  BY <1>1, <1>3 DEF Fault, list
<1>4. CASE SetTemporary
  BY <1>4 DEF SetTemporary, Recovering, OwnConfig, TypeOK, Identifying, EepFields
<1>5. ASSUME NEW f \in Fields, Identify(f) PROVE OwnConfig'
  <2>1. /\ UNCHANGED <<configadr, slaveix>> /\ mpc = f
        /\ mpc' \in {AfterField[f], "remove"}
    BY <1>5 DEF Identify, Recovering
  <2>2. AfterField[f] \in Identifying \cup {"assign"}
    BY DEF AfterField, Fields, EepFields, Identifying
  <2> QED
    BY <2>1, <2>2 DEF OwnConfig
<1>6. CASE AssignAddress \/ RemoveAddress
  <2>1. /\ configadr' = [configadr EXCEPT ![slaveix] = slaveix]
        /\ mpc \in {"assign", "remove"} /\ slaveix' = slaveix
    BY <1>6 DEF AssignAddress, RemoveAddress, Recovering
  <2> QED
    BY <2>1 DEF OwnConfig, TypeOK
<1>7. CASE /\ Monitor
           /\ ~SetTemporary /\ ~AssignAddress /\ ~RemoveAddress
           /\ ~(\E f \in Fields : Identify(f))
  <2>1. mpc \notin Identifying \cup {"assign", "remove"} /\ UNCHANGED configadr
    BY <1>7 DEF Monitor, Start, ReadBroadcast, ReadEach, AckError, RequestOp, Reconfigure,
                Recheck, StillGone, PassOver, AskState, CheckState, TestLost, NextSlave,
                Finish, Examine, ReadPosition, ClearTemporary, UndoTemporary,
                Recovering, Identifying, EepFields, list
  <2> QED
    BY <2>1 DEF OwnConfig
<1> QED
  BY <1>2, <1>3, <1>4, <1>5, <1>6, <1>7 DEF Next

LEMMA StraysStep ==
  ASSUME TypeOK, StraysKnown, [Next]_vars
  PROVE  StraysKnown'
<1>1. CASE UNCHANGED <<station, strays>>
  BY <1>1 DEF StraysKnown
<1>2. ASSUME NEW s \in Slaves, Fault(s) PROVE StraysKnown'
  BY <1>2 DEF Fault, Unplug, Plug, Watchdog, Restart, StraysKnown, TypeOK
<1>3. CASE AssignAddress
  <2>1. PICK outcome :
          /\ WriteAddress(AtAddress(TEMPNODE), outcome, slaveix)
          /\ strays' = IF CarriedOut(outcome)
                       THEN strays \cup (AtAddress(TEMPNODE) \ {slaveix}) ELSE strays
    BY <1>3 DEF AssignAddress
  <2>2. CASE CarriedOut(outcome)
    <3>1. strays' = {} => strays = {} /\ AtAddress(TEMPNODE) \subseteq {slaveix}
      BY <2>1, <2>2
    <3> QED
      BY <2>1, <2>2, <3>1 DEF WriteAddress, StraysKnown, TypeOK
  <2>3. CASE ~CarriedOut(outcome)
    BY <1>1, <2>1, <2>3 DEF WriteAddress
  <2> QED
    BY <2>2, <2>3
<1>4. CASE ClearTemporary \/ UndoTemporary \/ RemoveAddress \/ SetTemporary
  <2>1. /\ UNCHANGED strays
        /\ \E set, outcome : \E a \in {NoAddr, TEMPNODE} : WriteAddress(set, outcome, a)
    BY <1>4 DEF ClearTemporary, UndoTemporary, RemoveAddress, SetTemporary
  <2> QED
    BY <2>1 DEF WriteAddress, StraysKnown, TypeOK
<1>5. CASE AckError \/ RequestOp \/ AskState
  BY <1>1, <1>5 DEF AckError, RequestOp, AskState, WriteState
<1>6. CASE \/ Start \/ ReadBroadcast \/ ReadEach \/ Reconfigure \/ Recheck
           \/ StillGone \/ PassOver \/ CheckState \/ TestLost \/ NextSlave \/ Finish
           \/ ReadPosition \/ (\E f \in Fields : Identify(f))
  BY <1>1, <1>6 DEF Start, ReadBroadcast, ReadEach, Reconfigure, Recheck, StillGone,
                    PassOver, CheckState, TestLost, NextSlave, Finish, ReadPosition,
                    Identify, stations, history
<1>7. CASE UNCHANGED vars
  BY <1>1, <1>7 DEF vars, stations, history
<1> QED
  BY <1>2, <1>3, <1>4, <1>5, <1>6, <1>7 DEF Next, Monitor

(* A step in which no station comes into OP and no handling is suspended.  *)
LEMMA NoneNewlyOp ==
  ASSUME TypeOK, NoneSuspended, strays' = {} => strays = {},
         UNCHANGED mbxhandlerstate, stillop' = StillOp(stillop),
         \A t \in Slaves : alstate'[t] = "op" => alstate[t] = "op"
  PROVE  NoneSuspended'
BY DEF NoneSuspended, StillOp

LEMMA SuspendedStep ==
  ASSUME ResumeInv, [Next]_vars
  PROVE  NoneSuspended'
<1> USE DEF ResumeInv
<1>1. CASE UNCHANGED <<mbxhandlerstate, alstate, stillop>> /\ strays \subseteq strays'
  BY <1>1 DEF NoneSuspended
<1>2. ASSUME NEW s \in Slaves, Fault(s) PROVE NoneSuspended'
  <2>1. \A t \in Slaves : alstate'[t] = "op" => alstate[t] = "op"
    BY <1>2 DEF Fault, Unplug, Plug, Watchdog, Restart, TypeOK
  <2> QED
    BY <1>2, <2>1, NoneNewlyOp DEF Fault, list
<1>3. CASE AckError \/ AskState
  <2>1. PICK set, outcome : \E wanted \in ALStates \ {"op"} :
                              WriteState(set, outcome, wanted)
    <3>1. "safe_op_error" \in ALStates \ {"op"} /\ goal \in ALStates \ {"op"}
      BY DEF ALStates, TypeOK
    <3> QED
      BY <1>3, <3>1 DEF AckError, AskState
  <2>2. \A t \in Slaves : alstate'[t] = "op" => alstate[t] = "op"
    BY <2>1, WriteStateOp
  <2>3. stillop' = StillOp(stillop) /\ UNCHANGED strays
    BY <2>1 DEF WriteState
  <2>4. UNCHANGED mbxhandlerstate
    BY <1>3 DEF AckError, AskState, list
  <2> QED
    BY <2>2, <2>3, <2>4, NoneNewlyOp
<1>4. CASE RequestOp
  <2>1. /\ configadr[slaveix] = slaveix /\ slaveix \in Slaves
        /\ mbxhandlerstate' = [mbxhandlerstate EXCEPT ![slaveix] = HandlerOfFound(@)]
    BY <1>4 DEF RequestOp, Examine, OwnConfig, TypeOK, Identifying, EepFields
  <2>2. PICK outcome : WriteState(AtAddress(slaveix), outcome, "op")
    BY <1>4, <2>1 DEF RequestOp
  <2>3. stillop' = StillOp(stillop) /\ UNCHANGED strays /\ "op" \in ALStates
    BY <2>2 DEF WriteState, ALStates
  <2>4. ASSUME strays = {} PROVE AtAddress(slaveix) \subseteq {slaveix}
    <3>1. NoAddr \notin Slaves /\ TEMPNODE \notin Slaves
      BY DEF NoAddr, TEMPNODE, Slaves
    <3> QED
      BY <2>1, <2>4, <3>1 DEF AtAddress, StraysKnown
  <2>5. ASSUME strays = {}, NEW t \in Slaves \ {slaveix}
        PROVE  /\ alstate'[t] = "op" => alstate[t] = "op"
               /\ mbxhandlerstate'[t] = mbxhandlerstate[t]
    BY <2>1, <2>2, <2>3, <2>4, <2>5, WriteStateOp DEF TypeOK
  <2>6. mbxhandlerstate'[slaveix] # "lost"
    BY <2>1 DEF HandlerOfFound, TypeOK
  <2> QED
    BY <2>3, <2>5, <2>6 DEF NoneSuspended, StillOp
<1>5. CASE Recheck
  <2>1. slaveix \in Slaves /\ UNCHANGED <<alstate, strays>>
    BY <1>5 DEF Recheck, stations, TypeOK
  <2>2. PICK seen :
          /\ mbxhandlerstate' = IF seen = "none"
                                THEN [mbxhandlerstate EXCEPT ![slaveix] = "lost"]
                                ELSE mbxhandlerstate
          /\ stillop' = IF seen = "none" /\ alstate[slaveix] = "op"
                        THEN stillop \cup {slaveix} ELSE stillop
    BY <1>5 DEF Recheck
  <2> QED
    BY <2>1, <2>2 DEF NoneSuspended, TypeOK
<1>6. CASE Monitor /\ ~AckError /\ ~AskState /\ ~RequestOp /\ ~Recheck
  <2>1. UNCHANGED <<mbxhandlerstate, alstate, stillop>>
    BY <1>6 DEF Monitor, Start, ReadBroadcast, ReadEach, Reconfigure, StillGone, PassOver,
                CheckState, TestLost, NextSlave, Finish, ReadPosition, ClearTemporary,
                SetTemporary, UndoTemporary, Identify, AssignAddress, RemoveAddress,
                Recovering, WriteAddress, stations, list, history
  <2>2. strays \subseteq strays'
    BY <1>6 DEF Monitor, Start, ReadBroadcast, ReadEach, Reconfigure, StillGone, PassOver,
                CheckState, TestLost, NextSlave, Finish, ReadPosition, ClearTemporary,
                SetTemporary, UndoTemporary, Identify, AssignAddress, RemoveAddress,
                history
  <2> QED
    BY <1>1, <2>1, <2>2
<1>7. CASE UNCHANGED vars
  BY <1>1, <1>7 DEF vars, list, stations, history
<1> QED
  BY <1>2, <1>3, <1>4, <1>5, <1>6, <1>7 DEF Next

(* Whatever frames are lost and whichever way stations come back: while no *)
(* station has been given another's address, a slave in OP whose mailbox   *)
(* handling is suspended has been in OP ever since it was suspended.       *)
THEOREM HandlingResumes == Spec => []NoneSuspended
<1>1. Init => ResumeInv
  <2> SUFFICES ASSUME Init PROVE ResumeInv
    OBVIOUS
  <2>1. TypeOK
    BY TypeInit
  <2>2. OwnConfig /\ StraysKnown
    BY DEF Init, OwnConfig, StraysKnown
  <2>3. \A s \in Slaves : mbxhandlerstate[s] # "lost"
    BY DEF Init
  <2> QED
    BY <2>1, <2>2, <2>3 DEF ResumeInv, NoneSuspended
<1>2. ResumeInv /\ [Next]_vars => ResumeInv'
  BY TypeStep, OwnConfigStep, StraysStep, SuspendedStep DEF ResumeInv
<1>3. ResumeInv => NoneSuspended
  BY DEF ResumeInv
<1> QED
  BY <1>1, <1>2, <1>3, PTL DEF Spec
=============================================================================
