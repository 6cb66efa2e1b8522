---------------------------- MODULE ForceControl ----------------------------
(***************************************************************************)
(* The force control of the robot arm: the force sensor with its master    *)
(* program (ForceSensor), and the controller that takes the forces the     *)
(* node publishes and moves the arm.  A callback of the controller is a    *)
(* step, its shutdown is one step per call to the arm, for it can be       *)
(* interrupted.  The arm is external.  A place stands for the positions of *)
(* the six joints; Origin is the one where all are 0.                      *)
(***************************************************************************)
EXTENDS ForceSensor

CONSTANTS Places,              \* where the arm can be
          MaxIter              \* control steps until max_time: 1250

Origin == 0

ASSUME ForceControlAssumption ==
  /\ Places \subseteq Nat /\ Origin \in Places
  /\ MaxIter \in Nat

VARIABLES
  logged, powered, servo, arm, \* the arm: session, power, enabled, position
  connected, enabled, q,       \* JakaRobotState
  force_data_received, iter,
  cpc, final,                  \* where the controller is; it is in the
                               \* "finally" of main
  failed,                      \* history: a call to the arm has failed
  abandoned                    \* history: nobody was left to release the arm

armvars == <<logged, powered, servo, arm>>
nodevars == <<force_data_received, iter>>
controlvars == <<armvars, connected, enabled, q, nodevars, cpc, final, failed, abandoned>>
robotvars == <<sensorvars, controlvars>>

RobotInit ==
  /\ SensorInit
  /\ logged = FALSE /\ powered = FALSE /\ servo = FALSE
  /\ arm \in Places
  /\ connected = FALSE /\ enabled = FALSE
  /\ q = Origin
  /\ force_data_received = FALSE /\ iter = 0
  /\ cpc = IF IsNode THEN "login" ELSE "absent"
  /\ final = FALSE /\ failed = FALSE /\ abandoned = FALSE

(* The constructor: connect_robot, one call to the arm after the other,    *)
(* and the rest.  What fails is not undone; what raises ends the calls.    *)
Login ==
  /\ cpc = "login"
  /\ \/ logged' = TRUE /\ connected' = TRUE /\ cpc' = "power_on" /\ UNCHANGED failed
     \/ failed' = TRUE /\ cpc' = "created" /\ UNCHANGED <<logged, connected>>
  /\ UNCHANGED <<sensorvars, powered, servo, arm, enabled, q, nodevars, final, abandoned>>

PowerOn ==
  /\ cpc = "power_on"
  /\ \/ powered' = TRUE /\ cpc' = "enable" /\ UNCHANGED failed
     \/ failed' = TRUE /\ cpc' \in {"enable", "created"} /\ UNCHANGED powered
  /\ UNCHANGED <<sensorvars, logged, servo, arm, connected, enabled, q, nodevars, final,
                 abandoned>>

EnableRobot ==
  /\ cpc = "enable" /\ cpc' = "created"
  /\ \/ powered /\ servo' = TRUE /\ enabled' = TRUE /\ UNCHANGED failed
     \/ failed' = TRUE /\ UNCHANGED <<servo, enabled>>
  /\ UNCHANGED <<sensorvars, logged, powered, arm, connected, q, nodevars, final, abandoned>>

Spin ==
  /\ cpc = "created" /\ cpc' = "run"
  /\ UNCHANGED <<sensorvars, armvars, connected, enabled, q, nodevars, final, failed,
                 abandoned>>

Callback ==
  /\ cpc = "run" /\ topic # << >>
  /\ force_data_received' = TRUE
  /\ topic' = Tail(topic)
  /\ UNCHANGED <<world, sensor, lost, ppc, polls, retries, ethercat_initialized, mapped,
                 inputs, entry, armvars, connected, enabled, q, iter, cpc, final, failed,
                 abandoned>>

(* joint_move carries the arm to a target, or fails.                       *)
MoveTo(target) == arm' = target \/ UNCHANGED arm

(* admittance_control: without a force the target is q as it stands; so it *)
(* is when the state of the arm cannot be read.  Else it is on the         *)
(* trajectory, corrected by the force, and the inverse kinematics leave    *)
(* where their search ended in q.                                          *)
InverseKinematics == q' \in Places

Admittance(target) ==
  \/ target = q /\ UNCHANGED q
  \/ force_data_received /\ InverseKinematics

ControlLoop ==
  /\ cpc = "run" /\ connected /\ enabled /\ iter < MaxIter
  /\ \E target \in Places : Admittance(target) /\ MoveTo(target)
  /\ iter' = iter + 1
  /\ UNCHANGED <<sensorvars, logged, powered, servo, connected, enabled,
                 force_data_received, cpc, final, failed, abandoned>>

(* destroy_node: disconnect_robot, one call to the arm after the other.    *)
Halted(last) == IF last THEN "ended" ELSE "spin"

Destroy(last) ==
  cpc' = IF ~connected THEN Halted(last) ELSE IF enabled THEN "disable" ELSE "logout"

(* The time is over: destroy_node within a callback, and main spins on.    *)
TimeOver ==
  /\ cpc = "run" /\ connected /\ enabled /\ iter >= MaxIter
  /\ Destroy(FALSE)
  /\ UNCHANGED <<sensorvars, armvars, connected, enabled, q, nodevars, final, failed,
                 abandoned>>

(* Ctrl-C, also within disconnect_robot: main calls destroy_node again.    *)
Interrupt ==
  /\ cpc \in {"run", "spin", "disable", "power", "logout"} /\ ~final
  /\ final' = TRUE
  /\ Destroy(TRUE)
  /\ UNCHANGED <<sensorvars, armvars, connected, enabled, q, nodevars, failed, abandoned>>

(* Ctrl-C where main does not catch it, in the constructor or once more in *)
(* the "finally": the program ends and the arm stays as it is.             *)
InterruptUncaught ==
  /\ \/ cpc \in {"login", "power_on", "enable", "created"}
     \/ final /\ cpc \in {"disable", "power", "logout"}
  /\ cpc' = "ended" /\ abandoned' = TRUE
  /\ UNCHANGED <<sensorvars, armvars, connected, enabled, q, nodevars, final, failed>>

CallAfter(at) == CASE at = "disable" -> "power" [] at = "power" -> "logout"
                   [] at = "logout" -> Halted(final)

ClearedAtOnce(at) == connected' = FALSE /\ enabled' = FALSE
Cleared(at) == IF at = "logout" THEN connected' = FALSE /\ enabled' = FALSE
                                ELSE UNCHANGED <<connected, enabled>>

Disconnect ==
  /\ cpc \in {"disable", "power", "logout"}
  /\ cpc' = CallAfter(cpc)
  /\ servo' = (servo /\ cpc # "disable")
  /\ powered' = (powered /\ cpc # "power")
  /\ logged' = (logged /\ cpc # "logout")
  /\ Cleared(cpc)
  /\ UNCHANGED <<sensorvars, arm, q, nodevars, final, failed, abandoned>>

(* A call raises: the others are left out.                                 *)
DisconnectFails ==
  /\ cpc \in {"disable", "power", "logout"}
  /\ cpc' = Halted(final)
  /\ failed' = TRUE
  /\ connected' = FALSE /\ enabled' = FALSE
  /\ UNCHANGED <<sensorvars, armvars, q, nodevars, final, abandoned>>

ControllerNext ==
  \/ Login \/ PowerOn \/ EnableRobot \/ Spin
  \/ Callback \/ ControlLoop
  \/ TimeOver \/ Interrupt \/ InterruptUncaught \/ Disconnect \/ DisconnectFails

RobotNext == \/ SensorNext /\ UNCHANGED controlvars
             \/ ControllerNext

RobotSpec == RobotInit /\ [][RobotNext]_robotvars

(* The timer of the node and the loop of simple_ng go on. *)
FairRobotSpec == RobotSpec /\ WF_robotvars(Program /\ UNCHANGED controlvars)

-----------------------------------------------------------------------------
(* Properties. *)

RobotTypeOK ==
  /\ program \in Programs /\ alstate \in {"init", "pre_op", "safe_op", "safe_op_error", "op"}
  /\ lost \in 0 .. MaxLost /\ faults \in 0 .. MaxFaults
  /\ polls \in 0 .. Polls /\ retries \in 0 .. RetryEvery - 1
  /\ mapped \subseteq Whole
  /\ topic \in Seq(0 .. Samples - 1) /\ Len(topic) <= Depth
  /\ {arm, q} \subseteq Places /\ iter \in 0 .. MaxIter

(* A message carries the force of the very cycle it is published in, from  *)
(* a sensor that took part: the node publishes nothing that an earlier     *)
(* cycle has left in the map, however frames are lost, the sensor comes    *)
(* and goes, and whatever part of it was mapped.                           *)
PublishedIsOfCycle ==
  [][Publish /\ topic' # topic => topic'[Len(topic')] = sample /\ Sends]_robotvars

(* The node starts the bus again and again until it runs, and a start      *)
(* which finds the sensor and during which nothing goes wrong succeeds,    *)
(* whatever earlier starts came upon; but every failed start costs a       *)
(* socket, and once there is none left the node stays down for ever.       *)
NodeComesUp ==
  /\ program = "force_sensor_node" /\ <>[](present /\ ppc # "ended")
       => []<>(ethercat_initialized \/ opened = Sockets)
  /\ \A n \in 0 .. MaxLost + MaxFaults :
       []( IsNode /\ ppc = "config" /\ present /\ lost + faults = n
             => <>(ethercat_initialized \/ lost + faults # n))

(* simple_ng brings a sensor back that went or fell out of OPERATIONAL, as *)
(* long as it keeps its address: its cycles are complete again and again.  *)
(* Not so when nothing was mapped at the start.                            *)
SensorResumes ==
  [](program = "simple_ng" /\ ppc = "dump" =>
       <>(\/ ppc = "ended" \/ ~Answers \/ mapped = {}
          \/ Sum(mapped \cap Taking) >= ExpectedWkc))

(* When the controller has ended, the arm it enabled is disabled, off and  *)
(* logged out, although the shutdown runs twice and the first may be       *)
(* interrupted between any two calls.  Not so when a call to the arm       *)
(* fails, nor when Ctrl-C comes while the constructor runs, or a second    *)
(* time, while the last shutdown does.                                     *)
ArmReleased == cpc = "ended" /\ ~failed /\ ~abandoned => ~servo /\ ~powered /\ ~logged

(* Until a force is received the controller tells the arm to stay where it *)
(* is ("return the current position").                                     *)
HoldsWhereItIs == [][~force_data_received => arm' = arm]_robotvars
=============================================================================
