------------------------------ MODULE Topology ------------------------------
(***************************************************************************)
(* The cabling of the slaves, what the master reads of it, the search for  *)
(* a slave's parent in ecx_config_init and the calculation of propagation  *)
(* delays in ecx_configdc.  Frames enter each slave at port 0, go out at   *)
(* its other open ports in the order 3, 1, 2 and pass the slaves in the    *)
(* order of their numbers.                                                 *)
(***************************************************************************)
EXTENDS Integers, FiniteSetsExt

CONSTANT Width                 \* port times count from 0 to 2^Width - 1

ASSUME WidthAssumption == Width \in Nat \ {0}

(* int32: the difference of two port times, and how they compare.          *)
Signed(t) == LET m == t % 2^Width IN IF m < 2^(Width - 1) THEN m ELSE m - 2^Width
-----------------------------------------------------------------------------
(* External: a bus is, for each slave, its parent (0: the master), the     *)
(* port of the parent it is plugged into, the delay of that cable, whether *)
(* it has a distributed clock and what that clock shows.                   *)
Place(p) == CASE p = 0 -> 0 [] p = 3 -> 1 [] p = 1 -> 2 [] p = 2 -> 3

Children(bus, s) == {c \in DOMAIN bus.up : bus.up[c] = s}
Earlier(bus, s, p) == {c \in Children(bus, s) : Place(bus.port[c]) <= Place(p)}

(* Frames pass a slave before its children, and one child with all that is *)
(* behind it before the next one.                                          *)
Ancestors(bus, s) ==
  LET of[t \in DOMAIN bus.up] ==
        IF bus.up[t] = 0 THEN {t} ELSE {t} \cup of[bus.up[t]]
  IN  of[s]
Cabled(bus) ==
  /\ \A s \in DOMAIN bus.up : bus.up[s] = 0 <=> s = 1
  /\ \A s \in DOMAIN bus.up \ {1} : bus.up[s] \in Ancestors(bus, s - 1)
  /\ \A s, t \in DOMAIN bus.up \ {1} :
       s < t /\ bus.up[s] = bus.up[t] => Place(bus.port[s]) < Place(bus.port[t])

(* The time a frame takes from the parent of slave s and back to it.       *)
RoundTrip(bus) ==
  LET trip[s \in DOMAIN bus.up] ==
        2 * bus.cable[s] + MapThenSumSet(LAMBDA c : trip[c], Children(bus, s))
  IN  trip
Arrival(bus) ==
  LET at[s \in DOMAIN bus.up] ==
        bus.cable[s] + IF s = 1 THEN 0
        ELSE at[bus.up[s]] + MapThenSumSet(LAMBDA c : RoundTrip(bus)[c],
                               Earlier(bus, bus.up[s], bus.port[s]) \ {s})
  IN  at

(* What the slave latches when the frame comes in at a port.               *)
Latched(bus, s, p) ==
  Signed(bus.clock[s] + MapThenSumSet(LAMBDA c : RoundTrip(bus)[c],
                                      Earlier(bus, s, p)))
OpenPorts(bus, s) == {0} \cup {bus.port[c] : c \in Children(bus, s)}
-----------------------------------------------------------------------------
(* The search for the parent of a slave: back through the list, counting   *)
(* ends, splits and crosses.                                               *)
BranchesNoCross(h) == CASE h = 1 -> -1 [] h \in {3, 4} -> 1 [] OTHER -> 0
Branches(h) == CASE h = 1 -> -1 [] h = 3 -> 1 [] h = 4 -> 2 [] OTHER -> 0

ParentOf(topology, slave) ==
  LET topoc(k) == MapThenSumSet(LAMBDA j : Branches(topology[j]), k .. slave - 1)
  IN  IF slave = 1 THEN 0
      ELSE Max({1} \cup {k \in 1 .. slave - 1 : topoc(k) >= 0 /\ topology[k] > 1})
-----------------------------------------------------------------------------
(* ecx_configdc.  "list" holds what the master knows of the slaves.        *)
First(ports, order) == CHOOSE p \in ports : \A q \in ports : order[p] <= order[q]

(* The open port before a port in the order 0 - 3 - 1 - 2, going round.    *)
PrevPort(ports, port) ==
  LET back == [q \in ports |-> (Place(port) - Place(q) + 4) % 4]
  IN  IF ports \subseteq {port} THEN port ELSE First(ports \ {port}, back)

(* The next unconsumed port: 3, 1, 2, 0; port 0 when there is none.        *)
ParentPort(consumed) ==
  IF consumed = {} THEN 0
  ELSE First(consumed, [p \in 0 .. 3 |-> (Place(p) + 3) % 4])

(* The port with the lowest time, the first of them in the list.           *)
EntryPort(ports, time) ==
  CHOOSE p \in ports : \A q \in ports :
    time[p] < time[q] \/ (time[p] = time[q] /\ Place(p) <= Place(q))

(* The next slave up that has a distributed clock, and the slave below it  *)
(* on the way down to slave i.                                             *)
DcParent(list, i) ==
  LET up[s \in 0 .. i] == IF s = 0 \/ list[s].hasdc THEN s ELSE up[list[s].parent]
  IN  up[list[i].parent]
DcChild(list, i) ==
  LET child[s \in 1 .. i] ==
        IF list[s].parent = DcParent(list, i) THEN s ELSE child[list[s].parent]
  IN  child[i]

(* The delay of slave i behind parent from the differences of port times:  *)
(* dt3 the parent's port, dt1 what is behind slave i, dt2 the branches of  *)
(* the parent before it.                                                   *)
Half(x) == IF x < 0 THEN -((-x) \div 2) ELSE x \div 2
Abs(x) == IF x < 0 THEN -x ELSE x

Delay(list, i, parent, port, child) ==
  LET of(s, p, q) == Signed(list[s].time[p] - list[s].time[q])
      prev(s, p) == PrevPort(list[s].activeports, p)
      dt3 == of(parent, port, prev(parent, port))
      dt1 == IF list[i].topology = 1 THEN 0
             ELSE of(i, prev(i, list[i].entryport), list[i].entryport)
      dt2 == IF child - parent > 1
             THEN of(parent, prev(parent, port), list[parent].entryport) ELSE 0
  IN  Half(dt3 - (IF dt1 > dt3 THEN -dt1 ELSE dt1)) + Abs(dt2) + list[parent].pdelay
=============================================================================
