---------------------------- MODULE ForceSensor ----------------------------
(***************************************************************************)
(* The force sensor and the program that is its master: simple_ng, which   *)
(* prints what it reads, or the ROS node, which publishes it.  Both start  *)
(* the bus with the same calls of the library; one call is a step.  The    *)
(* sensor is the only slave.  It is external: the programs know it by what *)
(* it answers.                                                             *)
(***************************************************************************)
EXTENDS Integers, Sequences

CONSTANTS Programs,            \* the programs that may run
          Samples,             \* bound: measurements are counted modulo this
          Polls,               \* times OPERATIONAL is asked for: 10
          RetryEvery,          \* calls of the timer from start to start: 1000
          Depth,               \* messages a subscriber keeps: 10
          Sockets,             \* sockets a process may have open
          MaxLost,             \* bound: frames and mails lost, calls failed
          MaxFaults            \* bound: times the sensor goes, restarts or drops

ASSUME ForceSensorAssumption ==
  /\ Programs \subseteq {"simple_ng", "force_sensor_node"}
  /\ {Samples, Polls, RetryEvery, Depth, Sockets} \subseteq Nat \ {0}
  /\ {MaxLost, MaxFaults} \subseteq Nat

VARIABLES
  program, outputs,            \* which program; the sensor has outputs, too
  present, addressed, alstate, \* the sensor: on the bus, with its station
                               \* address, its AL state
  sample,                      \* number of what it measured last
  opened,                      \* sockets the program has opened
  lost, faults,
  ppc, polls, retries,         \* the program: where it is, its counters
  ethercat_initialized,
  mapped,                      \* the part of the sensor that was mapped
  inputs,                      \* number of the measurement in the IO map
  state, islost,               \* slavelist[1]
  topic                        \* /force_sensor_data: numbers on their way

sensor == <<present, addressed, alstate>>
world == <<program, outputs, sample, faults, opened>>
entry == <<state, islost>>
sensorvars == <<world, sensor, lost, ppc, polls, retries, ethercat_initialized, mapped,
                inputs, entry, topic>>

IsNode == program = "force_sensor_node"
Whole == {"in"} \cup (IF outputs THEN {"out"} ELSE {})

SensorInit ==
  /\ program \in Programs
  /\ outputs \in BOOLEAN
  /\ present \in BOOLEAN
  /\ addressed = FALSE
  /\ alstate = "init"
  /\ sample = 0
  /\ lost = 0 /\ faults = 0 /\ opened = 0
  /\ ppc = "open" /\ polls = 0 /\ retries = 0
  /\ ethercat_initialized = FALSE
  /\ mapped = {}
  /\ inputs = 0
  /\ state = "none" /\ islost = FALSE
  /\ topic = << >>

-----------------------------------------------------------------------------
(* The sensor. *)

Measure ==
  /\ sample' = (sample + 1) % Samples
  /\ UNCHANGED <<program, outputs, sensor, lost, faults, opened, ppc, polls, retries,
                 ethercat_initialized, mapped, inputs, entry, topic>>

(* It is cut off or loses its power, restarts, or falls back to a state of *)
(* its own.                                                                *)
Trouble ==
  /\ \/ present /\ present' = FALSE /\ UNCHANGED <<addressed, alstate>>
     \/ addressed' = FALSE /\ alstate' = "init" /\ present' \in {present, FALSE}
     \/ /\ alstate \in {"safe_op", "op"}
        /\ alstate' \in {"safe_op_error", "pre_op", "init"}
        /\ UNCHANGED <<present, addressed>>
  /\ faults < MaxFaults /\ faults' = faults + 1
  /\ UNCHANGED <<program, outputs, sample, opened, lost, ppc, polls, retries,
                 ethercat_initialized, mapped, inputs, entry, topic>>

Return ==
  /\ ~present
  /\ present' = TRUE
  /\ UNCHANGED <<world, addressed, alstate, lost, ppc, polls, retries,
                 ethercat_initialized, mapped, inputs, entry, topic>>

Lose == lost < MaxLost /\ lost' = lost + 1
Answers == present /\ addressed

(* The sensor takes part in the exchange of its inputs from SAFE_OP on, of *)
(* its outputs in OPERATIONAL.                                             *)
Sends == present /\ alstate \in {"safe_op", "safe_op_error", "op"}
Takes == present /\ alstate = "op"

-----------------------------------------------------------------------------
(* fieldbus_start and init_ethercat. *)

Step(from, to) == ppc = from /\ ppc' = to
Failed == ppc' = IF IsNode THEN "wait" ELSE "ended"

(* A start clears the context, and with it the handle of the socket an     *)
(* earlier start left open: only cleanup_ethercat and fieldbus_stop close  *)
(* one, the last.  When none is left no start succeeds.                    *)
Open ==
  /\ ppc = "open"
  /\ \/ /\ opened < Sockets /\ opened' = opened + 1
        /\ ppc' = "config" /\ UNCHANGED lost
     \/ /\ opened < Sockets /\ opened' \in {opened, opened + 1}
        /\ Failed /\ Lose
     \/ /\ opened = Sockets /\ UNCHANGED opened
        /\ Failed /\ UNCHANGED lost
  /\ mapped' = {} /\ state' = "none" /\ islost' = FALSE    \* the context cleared
  /\ polls' = 0
  /\ UNCHANGED <<program, outputs, sample, faults, sensor, retries, ethercat_initialized,
                 inputs, topic>>

(* ecx_config_init finds the sensor, gives it its address and asks for     *)
(* PRE_OP; a lost frame leaves any of this undone.                         *)
Config ==
  /\ ppc = "config"
  /\ \/ present /\ ppc' = "map" /\ addressed' = TRUE /\ alstate' = "pre_op"
                /\ UNCHANGED lost
     \/ /\ present /\ Lose
        /\ ppc' = "map" \/ Failed
        /\ alstate' = "init" /\ addressed' \in BOOLEAN
     \/ ~present /\ Failed /\ UNCHANGED <<addressed, alstate, lost>>
  /\ UNCHANGED <<world, present, polls, retries, ethercat_initialized, mapped, inputs,
                 entry, topic>>

(* ecx_config_map_group, ecx_configdc and the wait for SAFE_OP.  A part    *)
(* whose mapping cannot be read stays out, and nobody is told.             *)
Map ==
  /\ Step("map", "request")
  /\ \/ Answers /\ alstate = "pre_op" /\ mapped' = Whole /\ alstate' = "safe_op"
                /\ UNCHANGED lost
     \/ Answers /\ alstate = "pre_op" /\ mapped' \in SUBSET Whole
                /\ alstate' \in {"pre_op", "safe_op"} /\ Lose
     \/ ~(Answers /\ alstate = "pre_op") /\ mapped' = {} /\ UNCHANGED <<alstate, lost>>
  /\ UNCHANGED <<world, present, addressed, polls, retries, ethercat_initialized, inputs,
                 entry, topic>>

NotWritten ==
  /\ Step("request", "poll")
  /\ UNCHANGED <<world, sensor, lost, polls, retries, ethercat_initialized, mapped,
                 inputs, entry, topic>>

(* The request for OPERATIONAL is sent once, the answer asked for Polls    *)
(* times.                                                                  *)
Request ==
  /\ Step("request", "poll")
  /\ \/ /\ alstate' = IF present /\ alstate = "safe_op" THEN "op" ELSE alstate
        /\ UNCHANGED lost
     \/ Lose /\ UNCHANGED alstate
  /\ UNCHANGED <<world, present, addressed, polls, retries, ethercat_initialized, mapped,
                 inputs, entry, topic>>

Started == /\ ethercat_initialized' = IsNode
           /\ retries' = 0
           /\ ppc' = IF IsNode THEN "wait" ELSE "dump"

Poll ==
  /\ ppc = "poll"
  /\ polls' = polls + 1
  /\ inputs' = IF "in" \in mapped /\ Sends THEN sample ELSE inputs
  /\ \/ Takes /\ Started
     \/ /\ ~Takes
        /\ IF polls + 1 < Polls THEN ppc' = ppc ELSE Failed
        /\ UNCHANGED <<ethercat_initialized, retries>>
  /\ UNCHANGED <<world, sensor, lost, mapped, entry, topic>>

-----------------------------------------------------------------------------
(* A cycle of process data. *)

Weight(part) == IF part = "out" THEN 2 ELSE 1
Sum(parts) == (IF "in" \in parts THEN Weight("in") ELSE 0)
              + (IF "out" \in parts THEN Weight("out") ELSE 0)
ExpectedWkc == Sum(mapped)
Taking == (IF Sends THEN {"in"} ELSE {}) \cup (IF Takes THEN {"out"} ELSE {})
NoFrame == -1

(* The working counter, and the map it comes with.                         *)
Roundtrip(wkc) ==
  \/ /\ mapped # {} /\ wkc = Sum(mapped \cap Taking)
     /\ inputs' = IF "in" \in mapped /\ Sends THEN sample ELSE inputs
     /\ UNCHANGED lost
  \/ /\ mapped # {} /\ wkc = NoFrame /\ Lose
     /\ UNCHANGED inputs
  \/ mapped = {} /\ wkc = NoFrame /\ UNCHANGED <<inputs, lost>>

Counters == NoFrame .. 3

(* publish_sensor_data. *)

RetryDue(n) == n % RetryEvery = 0

NotReady ==
  /\ ppc = "wait" /\ IsNode /\ ~ethercat_initialized
  /\ retries' = (retries + 1) % RetryEvery
  /\ ppc' = IF RetryDue(retries + 1) THEN "open" ELSE "wait"
  /\ UNCHANGED <<world, sensor, lost, polls, ethercat_initialized, mapped, inputs, entry,
                 topic>>

AnyCounter(wkc) == wkc > NoFrame
Complete(wkc) == wkc >= ExpectedWkc

KeepLast(q) == IF Len(q) > Depth THEN Tail(q) ELSE q

Publish ==
  /\ ppc = "wait" /\ IsNode /\ ethercat_initialized
  /\ \E wkc \in Counters :
       /\ Roundtrip(wkc)
       /\ topic' = IF Complete(wkc) /\ "in" \in mapped       \* Ibytes >= 26
                   THEN KeepLast(Append(topic, inputs')) ELSE topic
  /\ UNCHANGED <<world, sensor, ppc, polls, retries, ethercat_initialized, mapped, entry>>

(* fieldbus_dump and fieldbus_check_state. *)

Dump ==
  /\ ppc = "dump"
  /\ \E wkc \in Counters :
       /\ Roundtrip(wkc)
       /\ ppc' = IF Complete(wkc) THEN "dump" ELSE "read"
  /\ UNCHANGED <<world, sensor, polls, retries, ethercat_initialized, mapped, entry, topic>>

(* ecx_readstate: without an error the broadcast answers for the sensor,   *)
(* also when it has lost its address.                                      *)
ReadState ==
  /\ Step("read", "act")
  /\ \/ /\ state' = IF present /\ (addressed \/ alstate # "safe_op_error")
                    THEN alstate ELSE "none"
        /\ UNCHANGED lost
     \/ /\ Lose
        /\ state' \in {"none", IF Answers THEN alstate ELSE "none"}
  /\ UNCHANGED <<world, sensor, polls, retries, ethercat_initialized, mapped, inputs,
                 islost, topic>>

(* A request to the sensor at its address takes it from one state to       *)
(* another, or is lost.                                                    *)
Ask(from, to) ==
  \/ alstate' = (IF Answers /\ alstate \in from THEN to ELSE alstate) /\ UNCHANGED lost
  \/ Lose /\ UNCHANGED alstate

WithoutAck ==
  /\ state = "safe_op_error"
  /\ UNCHANGED <<alstate, lost, entry>>
AckError ==
  /\ state = "safe_op_error"
  /\ Ask({"safe_op_error"}, "safe_op")
  /\ UNCHANGED entry

RequestOp ==
  /\ state = "safe_op"
  /\ Ask({"safe_op"}, "op")
  /\ state' = "op" /\ UNCHANGED islost

(* ecx_reconfig_slave asks for INIT, PRE_OP and SAFE_OP, and counts as a   *)
(* success once the first request is answered.                             *)
Reconfig ==
  /\ state \in {"init", "pre_op"}
  /\ \/ Answers /\ alstate' = "safe_op" /\ UNCHANGED lost
     \/ Answers /\ alstate' \in {alstate, "init", "pre_op"} /\ Lose
     \/ ~Answers /\ UNCHANGED <<alstate, lost>>
  /\ state' = IF Answers THEN alstate' ELSE state
  /\ islost' = (islost /\ ~Answers)

Recheck ==
  /\ state = "none" /\ ~islost
  /\ \/ state' = (IF Answers THEN alstate ELSE "none") /\ UNCHANGED lost
     \/ state' = "none" /\ Lose
  /\ islost' = (state' = "none")
  /\ UNCHANGED alstate

StillGone == state = "none" /\ islost /\ UNCHANGED <<alstate, lost, entry>>

(* The last branch, ecx_recover_slave for a lost slave whose state is      *)
(* NONE, is never taken: it is reached in OPERATIONAL only.                *)
FoundAgain == state = "op" /\ islost' = FALSE /\ UNCHANGED <<alstate, lost, state>>

CheckState ==
  /\ Step("act", "dump")
  /\ AckError \/ RequestOp \/ Reconfig \/ Recheck \/ StillGone \/ FoundAgain
  /\ UNCHANGED <<world, present, addressed, polls, retries, ethercat_initialized, mapped,
                 inputs, topic>>

(* fieldbus_stop when the iterations are over, cleanup_ethercat when the   *)
(* node is shut down.                                                      *)
ToCleanUp == IsNode => ethercat_initialized

Stop ==
  /\ ppc \in {"dump", "wait"}
  /\ ppc' = "ended"
  /\ \/ /\ alstate' = IF present /\ ToCleanUp THEN "init" ELSE alstate
        /\ UNCHANGED lost
     \/ ToCleanUp /\ Lose /\ UNCHANGED alstate
  /\ ethercat_initialized' = FALSE
  /\ UNCHANGED <<world, present, addressed, polls, retries, mapped, inputs, entry,
                 topic>>

Program ==
  \/ Open \/ Config \/ Map \/ Request \/ Poll
  \/ NotReady \/ Publish
  \/ Dump \/ ReadState \/ CheckState

SensorNext == Measure \/ Trouble \/ Return \/ Program \/ Stop
=============================================================================
