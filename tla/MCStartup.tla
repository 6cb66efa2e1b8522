----------------------------- MODULE MCStartup -----------------------------
(* Startup for TLC: EEPROMs, cablings and bounds.                          *)
EXTENDS EepromTool

(* EEPROMs of two makers: with the sections 1, 3 and 3 again, with nothing *)
(* but section 3, and without sections.  Section 5 is in none of them.     *)
Sections == <<3, 5>>
Image(man, id, mbx, tail) ==
  [c \in Cells |->
     IF c < FirstSection THEN <<<<man, 1>>, <<id, 2>>, <<1, 1>>, <<7, 3>>, <<4, mbx>>,
                                <<5, 0>>, <<6, 0>>>>[c + 1]
     ELSE IF c - FirstSection < Len(tail) THEN tail[c - FirstSection + 1] ELSE End]

Full == Image(1, 1, 2, <<<<1, 1>>, <<3, 2>>, <<3, 1>>, <<7, 1>>>>)
Small == Image(1, 1, 2, <<<<3, 1>>, <<7, 1>>>>)
Kin == Image(1, 2, 0, <<<<3, 1>>, <<7, 3>>>>)
Bare == Image(2, 1, 0, << >>)

Slave(image, w) == [rom |-> image, wide |-> w]
Row(n) == [s \in 1 .. n |-> Slave(Bare, FALSE)]
AllStocks == {<<Slave(Small, TRUE)>>, <<Slave(Full, TRUE), Slave(Kin, FALSE)>>, Row(3), Row(4), Row(5)}
LongStock == {Row(5)}

Troubles == <<2, 1, 0, 0, 0>>
Again == <<1, 0, 0, 0, 0>>
Calls == <<1, 0, 1, 0, 0>>

(* Every cabling of up to four slaves, with clocks anywhere (of four, also *)
(* in the first); of five, a line that branches three ways at its second.  *)
Parents(n) == {u \in [1 .. n -> 0 .. n - 1] :
                 \A s \in 1 .. n : u[s] < s /\ (u[s] = 0 <=> s = 1)}
Ports(n) == {[s \in 1 .. n |-> IF s = 1 THEN 1 ELSE p[s]] : p \in [2 .. n -> 1 .. 3]}
Wired(tree, d) == [up |-> tree.up, port |-> tree.port, dc |-> d,
                   cable |-> [s \in DOMAIN d |-> s], clock |-> [s \in DOMAIN d |-> 3 * s]]
Clocks(n) == {d \in [1 .. n -> BOOLEAN] : n = 4 => d[1]}
Cablings(n) == {Wired(t, d) : t \in {u \in [up : Parents(n), port : Ports(n)] : Cabled(u)},
                              d \in Clocks(n)}
Cross == Wired([up |-> <<0, 1, 2, 2, 2>>, port |-> <<1, 1, 3, 1, 2>>], [s \in 1 .. 5 |-> TRUE])
SomeBuses == [n \in 1 .. 5 |-> IF n < 5 THEN Cablings(n) ELSE {Cross}]

(* Two slaves with clocks set one after the other, SYNC0 alone or with a   *)
(* SYNC1 of the same, a longer or no cycle, shifted or not.                *)
Times == <<{}, {0, 3, 5}, {}, {}, {}>>
Cycle(c0, c1, shift, both) == [cycle0 |-> c0, cycle1 |-> c1, shift |-> shift, both |-> both]
Cycles == {Cycle(4, 0, 0, FALSE), Cycle(4, 0, -1, FALSE), Cycle(0, 0, 0, FALSE),
           Cycle(4, 0, 0, TRUE), Cycle(4, 4, 0, TRUE), Cycle(4, 6, 1, TRUE)}

(* A branch without clocks that splits, and a slave behind it.             *)
SplitBranch == Wired([up |-> <<0, 1, 2, 2, 1>>, port |-> <<1, 1, 3, 1, 2>>],
                     <<TRUE, FALSE, FALSE, FALSE, TRUE>>)
SplitBuses == [n \in 5 .. 5 |-> {SplitBranch}]
=============================================================================
