------------------------ MODULE ProcessImage_proofs ------------------------
(***************************************************************************)
(* Proofs about ProcessImage.                                              *)
(***************************************************************************)
EXTENDS ProcessImage, FiniteSetTheorems, TLAPS

LEMMA MaxTwo ==
  ASSUME NEW a \in Int, NEW b \in Int
  PROVE  Max({a, b}) = IF a >= b THEN a ELSE b
BY DEF Max

LEMMA MaxOfSizes ==
  ASSUME NEW o \in Nat, NEW i \in Nat
  PROVE  Max({o, i}) \in Nat /\ Max({o, i}) = (IF o >= i THEN o ELSE i)
BY MaxTwo

LEMMA FirstMaxFacts ==
  /\ FirstMax \in Nat \ {0} /\ MaxLRWData \in Nat \ {0} /\ FirstMax <= MaxLRWData
  /\ MaxSegments \in Nat \ {0} /\ MaxBuf \in Nat \ {0} /\ LogStart \in Nat
BY SizesAssumption DEF FirstMax

LEMMA StartNat == LogStart \in Nat
BY SizesAssumption

LEMMA BytesFacts ==
  ASSUME NEW bits \in Nat
  PROVE  Bytes(bits) \in Nat /\ (bits > 7 => Bytes(bits) > 0)
BY DEF Bytes

(* A place starts where the image ends, or a byte later, and ends with it. *)
LEMMA PlaceFacts ==
  ASSUME NEW bits \in Nat \ {0}, NEW addr \in Nat, NEW bit \in 0 .. 7
  PROVE  LET p == Place(bits, addr, bit) IN
         /\ p.start \in Nat /\ p.len \in Nat /\ p.addr \in Nat /\ p.bit \in 0 .. 7
         /\ addr <= p.start /\ addr <= p.addr
         /\ p.start + p.len <= p.addr + (IF p.bit > 0 THEN 1 ELSE 0)
         /\ addr + (IF bit > 0 THEN 1 ELSE 0) <= p.addr + (IF p.bit > 0 THEN 1 ELSE 0)
<1>1. CASE bits > 7
  BY <1>1, BytesFacts DEF Place
<1>2. CASE bits <= 7
  <2> DEFINE n == bit + bits
  <2>1. n \in 1 .. 14
    BY <1>2
  <2>2. /\ n \div 8 \in 0 .. 1 /\ n % 8 \in 0 .. 7 /\ (n - 1) \div 8 \in 0 .. 1
        /\ (n - 1) \div 8 + 1 <= n \div 8 + (IF n % 8 > 0 THEN 1 ELSE 0)
        /\ 1 <= n \div 8 + (IF n % 8 > 0 THEN 1 ELSE 0)
    <3> HIDE DEF n
    <3>1. n = 8 * (n \div 8) + (n % 8) /\ n % 8 \in 0 .. 7
      BY <2>1
    <3>2. n - 1 = 8 * ((n - 1) \div 8) + ((n - 1) % 8) /\ (n - 1) % 8 \in 0 .. 7
      BY <2>1
    <3>3. n \div 8 \in Int /\ (n - 1) \div 8 \in Int
      BY <2>1
    <3> QED
      BY <2>1, <3>1, <3>2, <3>3
  <2> HIDE DEF n
  <2>3. bit + bits = n /\ bit + bits - 1 = n - 1
    BY DEF n
  <2> QED
    BY <1>2, <2>1, <2>2, <2>3 DEF Place
<1> QED
  BY <1>1, <1>2

-----------------------------------------------------------------------------
(* What ecx_config_map_group leaves behind while it goes through the       *)
(* slaves.                                                                 *)
Regions == [start : Nat, len : Nat]
Passes == {"out", "in", "both"}
CyclePhases == {"ready", "send", "receive", "done"}

MapTypes ==
  /\ bus \in [Slaves -> [O : Nat, I : Nat, mbx : BOOLEAN]]
  /\ mode \in {"plain", "packed", "overlap"}
  /\ blockLRW \in BOOLEAN /\ hasdc \in BOOLEAN
  /\ mode = "overlap" => ~blockLRW
  /\ phase \in Passes \cup {"mbx"} \cup CyclePhases
  /\ phase \in {"out", "in"} => mode # "overlap"
  /\ phase = "both" => mode = "overlap"
  /\ slave \in 1 .. NSlaves + 1
  /\ cutting \in BOOLEAN /\ (cutting => phase \in Passes /\ slave \in Slaves)
  /\ LogAddr \in Nat /\ LogStart <= LogAddr
  /\ BitPos \in 0 .. 7 /\ (phase \notin {"out", "in"} => BitPos = 0)
  /\ IOsegment \in Seq(Nat) /\ segmentsize \in Nat
  /\ segmentmaxsize \in {FirstMax, MaxLRWData}
  /\ group \in [Obytes : Nat, Ibytes : Nat, Isegment : Nat, Ioffset : Nat]
  /\ outputs \in [Slaves -> Regions]
  /\ inputs \in [Slaves -> Regions]
  /\ mbxstatus \in [Slaves -> Regions]

(* The steps that add bytes to the image: the open segment takes them, or  *)
(* is closed first, x bytes long.                                          *)
Keeps(d) == UNCHANGED IOsegment /\ segmentsize' = segmentsize + d
Closes(x, d) ==
  /\ x \in Nat
  /\ IOsegment' = Append(IOsegment, x)
  /\ segmentsize' = segmentsize + d - x
  /\ segmentsize' \in Nat

(* How long a segment may be, and the segments are.                        *)
Limit(k) == IF k = 1 THEN FirstMax ELSE MaxLRWData
Room == Len(IOsegment) < MaxSegments

SizeInv ==
  /\ Room => \A k \in 1 .. Len(IOsegment) : IOsegment[k] <= Limit(k)
  /\ phase \in Passes => segmentmaxsize <= Limit(Len(IOsegment) + 1)
  /\ phase \in Passes /\ ~cutting /\ Room => segmentsize <= segmentmaxsize
  /\ phase = "mbx" /\ Room => segmentsize <= Limit(Len(IOsegment) + 1)

(* How much data precedes the mailbox states, and where the inputs start.  *)
DataLength == IF mode = "overlap"
              THEN IF group.Obytes >= group.Ibytes THEN group.Obytes ELSE group.Ibytes
              ELSE group.Obytes + group.Ibytes
InputStart == IF mode = "overlap" THEN LogStart ELSE LogStart + group.Obytes

(* The end of the image; a byte that is not complete is part of it.        *)
End == LogAddr + (IF BitPos > 0 THEN 1 ELSE 0)
Within(r, low, high) == r.len > 0 => low <= r.start /\ r.start + r.len <= high

PlacedInv ==
  /\ phase = "out" => \A s \in Slaves : /\ Within(outputs[s], LogStart, End)
                                        /\ inputs[s].len = 0
  /\ phase # "out" =>
       \A s \in Slaves : Within(outputs[s], LogStart, LogStart + group.Obytes)
  /\ phase = "in" => /\ InputStart <= LogAddr
                     /\ \A s \in Slaves : Within(inputs[s], InputStart, End)
  /\ phase \notin {"out", "in"} =>
       \A s \in Slaves : Within(inputs[s], InputStart, InputStart + group.Ibytes)
  /\ phase = "both" => LogAddr = LogStart + DataLength
  /\ phase \in Passes => \A s \in Slaves : mbxstatus[s].len = 0

(* The mailbox states follow, one byte each.                               *)
Before(s) == {t \in HasMbx : t < s}
StatusInv ==
  /\ phase = "mbx" => LogAddr = LogStart + DataLength + Cardinality(Before(slave))
  /\ phase \in CyclePhases => LogAddr = LogStart + DataLength + Cardinality(HasMbx)
  /\ phase \notin Passes =>
       \A s \in Slaves : mbxstatus[s].len > 0 =>
         mbxstatus[s] = [start |-> LogStart + DataLength + Cardinality(Before(s)), len |-> 1]

(* Adding a slave of d bytes.                                              *)
LEMMA AddSlaveFacts ==
  ASSUME MapTypes, SizeInv, phase \in Passes, ~cutting,
         NEW o \in Nat, NEW i \in Nat, AddSlave(o, i)
  PROVE  LET d == Max({o, i}) IN
         /\ \/ Keeps(d) /\ UNCHANGED segmentmaxsize
            \/ Closes(segmentsize, d) /\ Room /\ segmentmaxsize' = MaxLRWData
         /\ cutting' = TRUE
         /\ UNCHANGED <<phase, slave>>
<1> DEFINE d == Max({o, i})
<1>1. d \in Nat
  BY MaxTwo
<1> HIDE DEF d
<1>2. CASE MustClose(d)
  BY <1>1, <1>2 DEF AddSlave, MustClose, Closes, Room, MapTypes, d
<1>3. CASE ~MustClose(d)
  BY <1>1, <1>3 DEF AddSlave, Keeps, MapTypes, d
<1> QED
  BY <1>2, <1>3 DEF AddSlave, d

(* The segments after a step that adds bytes.                              *)
LEMMA SegmentsKept ==
  ASSUME MapTypes, NEW d \in Nat, Keeps(d)
  PROVE  IOsegment' \in Seq(Nat) /\ segmentsize' \in Nat
BY DEF MapTypes, Keeps

LEMMA SegmentsClosed ==
  ASSUME MapTypes, NEW x, NEW d, Closes(x, d)
  PROVE  /\ IOsegment' \in Seq(Nat) /\ segmentsize' \in Nat
         /\ Len(IOsegment') = Len(IOsegment) + 1
         /\ \A k \in 1 .. Len(IOsegment) : IOsegment'[k] = IOsegment[k]
         /\ IOsegment'[Len(IOsegment) + 1] = x
BY DEF MapTypes, Closes

(* Closing a segment within its limit keeps all within theirs.             *)
LEMMA ClosedSizes ==
  ASSUME MapTypes, SizeInv, NEW x, NEW d, Closes(x, d),
         Room => x <= Limit(Len(IOsegment) + 1)
  PROVE  Room' => \A k \in 1 .. Len(IOsegment') : IOsegment'[k] <= Limit(k)
<1>1. Room' => Room
  BY SegmentsClosed, FirstMaxFacts DEF Room, MapTypes
<1>2. ASSUME Room', NEW k \in 1 .. Len(IOsegment') PROVE IOsegment'[k] <= Limit(k)
  <2>1. CASE k \in 1 .. Len(IOsegment)
    BY <1>1, <1>2, <2>1, SegmentsClosed DEF SizeInv
  <2>2. CASE k = Len(IOsegment) + 1
    BY <1>1, <1>2, <2>2, SegmentsClosed
  <2> QED
    BY <1>2, <2>1, <2>2, SegmentsClosed DEF MapTypes
<1> QED
  BY <1>2

(* Where a slave of one direction is put.                                  *)
Placed == [start : Nat, len : Nat, addr : Nat, bit : 0 .. 7]
Behind(p) == /\ LogAddr <= p.start /\ LogAddr <= p.addr
             /\ p.start + p.len <= p.addr + (IF p.bit > 0 THEN 1 ELSE 0)
             /\ End <= p.addr + (IF p.bit > 0 THEN 1 ELSE 0)

LEMMA UnpackedFacts ==
  ASSUME MapTypes, NEW bits \in Nat \ {0}
  PROVE  LET p == Unpacked(Place(bits, LogAddr, BitPos)) IN p \in Placed /\ Behind(p)
<1> DEFINE q == Place(bits, LogAddr, BitPos)
<1>1. q \in Placed /\ Behind(q)
  <2>1. q = [start |-> q.start, len |-> q.len, addr |-> q.addr, bit |-> q.bit]
    BY DEF Place
  <2>2. /\ q.start \in Nat /\ q.len \in Nat /\ q.addr \in Nat /\ q.bit \in 0 .. 7
        /\ LogAddr <= q.start /\ LogAddr <= q.addr
        /\ q.start + q.len <= q.addr + (IF q.bit > 0 THEN 1 ELSE 0)
        /\ End <= q.addr + (IF q.bit > 0 THEN 1 ELSE 0)
    BY PlaceFacts DEF MapTypes, End
  <2> HIDE DEF q
  <2> QED
    BY <2>1, <2>2 DEF Placed, Behind
<1> HIDE DEF q
<1>2. NextByte(q) \in Placed /\ Behind(NextByte(q))
  <2>1. CASE q.bit > 0
    <3>1. NextByte(q) = [start |-> q.start, len |-> q.len, addr |-> q.addr + 1, bit |-> 0]
      BY <1>1, <2>1 DEF NextByte, Placed
    <3> QED
      BY <1>1, <2>1, <3>1 DEF Placed, Behind, MapTypes, End
  <2>2. CASE ~(q.bit > 0)
    BY <1>1, <2>2 DEF NextByte
  <2> QED
    BY <2>1, <2>2
<1> QED
  BY <1>1, <1>2 DEF Unpacked, q

LEMMA MapOutputsFacts ==
  ASSUME MapTypes, MapOutputs
  PROVE  \/ PassOver
         \/ \E p \in Placed : /\ Behind(p)
                              /\ outputs' = [outputs EXCEPT ![slave] = Region(p)]
                              /\ LogAddr' = p.addr /\ BitPos' = p.bit
                              /\ AddSlave(p.addr - LogAddr, 0)
                              /\ UNCHANGED <<inputs, mbxstatus>>
<1>1. CASE bus[slave].O # 0
  <2>1. bus[slave].O \in Nat \ {0}
    BY <1>1 DEF MapOutputs, MapTypes
  <2>2. LET p == Unpacked(Place(bus[slave].O, LogAddr, BitPos)) IN p \in Placed /\ Behind(p)
    BY <2>1, UnpackedFacts
  <2> QED
    BY <1>1, <2>2 DEF MapOutputs, OutputMapping
<1> QED
  BY <1>1 DEF MapOutputs

LEMMA MapInputsFacts ==
  ASSUME MapTypes, MapInputs
  PROVE  \/ PassOver
         \/ \E p \in Placed : /\ Behind(p)
                              /\ inputs' = [inputs EXCEPT ![slave] = Region(p)]
                              /\ LogAddr' = p.addr /\ BitPos' = p.bit
                              /\ AddSlave(0, p.addr - LogAddr)
                              /\ UNCHANGED <<outputs, mbxstatus>>
<1>1. CASE bus[slave].I # 0
  <2>1. bus[slave].I \in Nat \ {0}
    BY <1>1 DEF MapInputs, MapTypes
  <2>2. LET p == Unpacked(Place(bus[slave].I, LogAddr, BitPos)) IN p \in Placed /\ Behind(p)
    BY <2>1, UnpackedFacts
  <2> QED
    BY <1>1, <2>2 DEF MapInputs, InputMapping
<1> QED
  BY <1>1 DEF MapInputs

(* In overlap mode both directions of a slave start where the image ends.  *)
LEMMA MapBothFacts ==
  ASSUME MapTypes, MapBoth
  PROVE  \E o, i \in Nat :
           /\ \E r \in Regions : /\ outputs' = [outputs EXCEPT ![slave] = r]
                                 /\ r.len = o /\ (o > 0 => r.start = LogAddr)
           /\ \E r \in Regions : /\ inputs' = [inputs EXCEPT ![slave] = r]
                                 /\ r.len = i /\ (i > 0 => r.start = LogAddr)
           /\ LogAddr' = LogAddr + Max({o, i})
           /\ AddSlave(o, i)
           /\ group' = [group EXCEPT !.Obytes = LogAddr + o - LogStart,
                                     !.Ibytes = LogAddr + i - LogStart]
           /\ UNCHANGED <<BitPos, mbxstatus>>
<1> DEFINE none == [start |-> LogAddr, len |-> 0]
           o == IF bus[slave].O = 0 THEN none ELSE Region(OutputMapping(slave, LogAddr, 0))
           i == IF bus[slave].I = 0 THEN none ELSE Region(InputMapping(slave, LogAddr, 0))
<1>1. ASSUME NEW bits \in Nat \ {0}
      PROVE  /\ Region(Place(bits, LogAddr, 0)) \in Regions
             /\ Region(Place(bits, LogAddr, 0)).start = LogAddr
  <2>1. /\ Place(bits, LogAddr, 0).start \in Nat /\ Place(bits, LogAddr, 0).len \in Nat
    <3>1. LogAddr \in Nat /\ 0 \in 0 .. 7
      BY DEF MapTypes
    <3> QED
      BY <3>1, PlaceFacts
  <2>2. Place(bits, LogAddr, 0).start = LogAddr
    BY DEF Place
  <2> QED
    BY <2>1, <2>2 DEF Region, Regions
<1>2. slave \in Slaves /\ bus[slave].O \in Nat /\ bus[slave].I \in Nat /\ none \in Regions
  BY DEF MapBoth, MapTypes, Regions
<1>3. o \in Regions /\ o.start = LogAddr /\ i \in Regions /\ i.start = LogAddr
  BY <1>1, <1>2 DEF OutputMapping, InputMapping
<1>4. /\ outputs' = [outputs EXCEPT ![slave] = o]
      /\ inputs' = [inputs EXCEPT ![slave] = i]
      /\ LogAddr' = LogAddr + Max({o.len, i.len})
      /\ AddSlave(o.len, i.len)
      /\ group' = [group EXCEPT !.Obytes = LogAddr + o.len - LogStart,
                                !.Ibytes = LogAddr + i.len - LogStart]
      /\ UNCHANGED <<BitPos, mbxstatus>>
  BY DEF MapBoth
<1> HIDE DEF o, i
<1>5. o.len \in Nat /\ i.len \in Nat
  BY <1>3 DEF Regions
<1>6. /\ \E r \in Regions : /\ outputs' = [outputs EXCEPT ![slave] = r]
                            /\ r.len = o.len /\ (o.len > 0 => r.start = LogAddr)
      /\ \E r \in Regions : /\ inputs' = [inputs EXCEPT ![slave] = r]
                            /\ r.len = i.len /\ (i.len > 0 => r.start = LogAddr)
  BY <1>3, <1>4
<1> QED
  BY <1>4, <1>5, <1>6

(* A pass in packed mode may end within a byte, which is then completed.   *)
LEMMA LastByteFacts ==
  ASSUME MapTypes, SizeInv, phase \in {"out", "in"}, ~cutting, LastByte
  PROVE  LET d == IF BitPos = 0 THEN 0 ELSE 1 IN
         /\ LogAddr' = LogAddr + d
         /\ \/ /\ Keeps(d) /\ UNCHANGED segmentmaxsize
               /\ Room => segmentsize' <= segmentmaxsize
            \/ /\ Closes(segmentsize, d) /\ Room /\ segmentsize' = 1
               /\ segmentmaxsize' \in {segmentmaxsize, MaxLRWData}
<1>1. CASE BitPos = 0
  BY <1>1 DEF LastByte, Keeps, SizeInv, MapTypes, Passes
<1>2. CASE BitPos # 0 /\ segmentsize + 1 > segmentmaxsize /\ Len(IOsegment) < MaxSegments
  BY <1>2 DEF LastByte, Closes, Room, MapTypes
<1>3. CASE BitPos # 0 /\ ~(segmentsize + 1 > segmentmaxsize /\ Len(IOsegment) < MaxSegments)
  <2>1. segmentsize + 1 > segmentmaxsize => ~Room
    BY <1>3 DEF Room
  <2>2. Keeps(1) /\ UNCHANGED segmentmaxsize /\ LogAddr' = LogAddr + 1
    BY <1>3 DEF LastByte, Keeps
  <2> QED
    BY <1>3, <2>1, <2>2, FirstMaxFacts DEF Keeps, MapTypes
<1> QED
  BY <1>1, <1>2, <1>3

(* A step that adds d bytes or closes the open segment keeps the types of  *)
(* the segments.                                                           *)
LEMMA SegmentTypes ==
  ASSUME MapTypes, NEW d \in Nat, Keeps(d) \/ \E x : Closes(x, d)
  PROVE  IOsegment' \in Seq(Nat) /\ segmentsize' \in Nat
BY SegmentsKept, SegmentsClosed

LEMMA AddingTypes ==
  ASSUME MapTypes, SizeInv, MapOutputs \/ MapInputs \/ MapBoth
  PROVE  MapTypes'
<1>0. /\ phase \in Passes /\ slave \in Slaves /\ ~cutting /\ UNCHANGED busvars
      /\ phase' = phase
  BY DEF MapOutputs, MapInputs, MapBoth, Passes, PassOver, AddSlave
<1>1. CASE PassOver /\ UNCHANGED group
  <2>1. slave' \in 1 .. NSlaves + 1
    BY <1>0, <1>1, SizesAssumption DEF PassOver, Slaves
  <2> QED
    BY <1>0, <1>1, <2>1 DEF PassOver, MapTypes, busvars, cutvars, placevars
<1>2. ASSUME NEW o \in Nat, NEW i \in Nat, AddSlave(o, i)
      PROVE  /\ IOsegment' \in Seq(Nat) /\ segmentsize' \in Nat
             /\ segmentmaxsize' \in {FirstMax, MaxLRWData}
             /\ cutting' = TRUE /\ slave' = slave
  <2>1. Max({o, i}) \in Nat
    BY MaxTwo
  <2> DEFINE d == Max({o, i})
  <2>2. /\ \/ Keeps(d) /\ UNCHANGED segmentmaxsize
           \/ Closes(segmentsize, d) /\ Room /\ segmentmaxsize' = MaxLRWData
        /\ cutting' = TRUE
        /\ UNCHANGED <<phase, slave>>
    BY <1>0, <1>2, AddSlaveFacts
  <2> HIDE DEF d
  <2> QED
    BY <2>1, <2>2, SegmentTypes DEF MapTypes, d
<1>3. ASSUME NEW p \in Placed, Behind(p), LogAddr' = p.addr, BitPos' = p.bit
      PROVE  /\ LogAddr' \in Nat /\ LogStart <= LogAddr' /\ BitPos' \in 0 .. 7
             /\ Region(p) \in Regions
  BY <1>3, FirstMaxFacts DEF Placed, Behind, Region, Regions, MapTypes
<1>4. CASE MapOutputs /\ ~PassOver
  <2>1. PICK p \in Placed : /\ Behind(p)
                            /\ outputs' = [outputs EXCEPT ![slave] = Region(p)]
                            /\ LogAddr' = p.addr /\ BitPos' = p.bit
                            /\ AddSlave(p.addr - LogAddr, 0)
                            /\ UNCHANGED <<inputs, mbxstatus>>
    BY <1>4, MapOutputsFacts
  <2>2. p.addr - LogAddr \in Nat
    BY <2>1 DEF Placed, Behind, MapTypes
  <2>3. /\ IOsegment' \in Seq(Nat) /\ segmentsize' \in Nat
        /\ segmentmaxsize' \in {FirstMax, MaxLRWData}
        /\ cutting' = TRUE /\ slave' = slave
    BY <1>2, <2>1, <2>2
  <2>4. outputs' \in [Slaves -> Regions]
    BY <1>3, <2>1 DEF MapTypes
  <2> QED
    BY <1>0, <1>3, <1>4, <2>1, <2>3, <2>4 DEF MapOutputs, MapTypes, busvars
<1>5. CASE MapInputs /\ ~PassOver
  <2>1. PICK p \in Placed : /\ Behind(p)
                            /\ inputs' = [inputs EXCEPT ![slave] = Region(p)]
                            /\ LogAddr' = p.addr /\ BitPos' = p.bit
                            /\ AddSlave(0, p.addr - LogAddr)
                            /\ UNCHANGED <<outputs, mbxstatus>>
    BY <1>5, MapInputsFacts
  <2>2. p.addr - LogAddr \in Nat
    BY <2>1, SMTT(30) DEF Placed, Behind, MapTypes
  <2>3. /\ IOsegment' \in Seq(Nat) /\ segmentsize' \in Nat
        /\ segmentmaxsize' \in {FirstMax, MaxLRWData}
        /\ cutting' = TRUE /\ slave' = slave
    BY <1>2, <2>1, <2>2
  <2>4. inputs' \in [Slaves -> Regions]
    BY <1>3, <2>1 DEF MapTypes
  <2> QED
    BY <1>0, <1>3, <1>5, <2>1, <2>3, <2>4 DEF MapInputs, MapTypes, busvars
<1>6. CASE MapBoth
  <2>1. PICK o \in Nat, i \in Nat :
           /\ \E r \in Regions : /\ outputs' = [outputs EXCEPT ![slave] = r]
                                 /\ r.len = o /\ (o > 0 => r.start = LogAddr)
           /\ \E r \in Regions : /\ inputs' = [inputs EXCEPT ![slave] = r]
                                 /\ r.len = i /\ (i > 0 => r.start = LogAddr)
           /\ LogAddr' = LogAddr + Max({o, i})
           /\ AddSlave(o, i)
           /\ group' = [group EXCEPT !.Obytes = LogAddr + o - LogStart,
                                     !.Ibytes = LogAddr + i - LogStart]
           /\ UNCHANGED <<BitPos, mbxstatus>>
    BY <1>6, MapBothFacts
  <2>2. /\ IOsegment' \in Seq(Nat) /\ segmentsize' \in Nat
        /\ segmentmaxsize' \in {FirstMax, MaxLRWData}
        /\ cutting' = TRUE /\ slave' = slave
    BY <1>2, <2>1
  <2>3. outputs' \in [Slaves -> Regions] /\ inputs' \in [Slaves -> Regions]
    <3>1. outputs \in [Slaves -> Regions] /\ inputs \in [Slaves -> Regions]
      BY DEF MapTypes
    <3>2. /\ \E r \in Regions : outputs' = [outputs EXCEPT ![slave] = r]
          /\ \E r \in Regions : inputs' = [inputs EXCEPT ![slave] = r]
      BY <2>1
    <3> QED
      BY <3>1, <3>2
  <2>4. LogAddr' \in Nat /\ LogStart <= LogAddr'
    <3>1. Max({o, i}) \in Nat
      BY MaxOfSizes
    <3> QED
      BY <2>1, <3>1, StartNat DEF MapTypes
  <2>5. group' \in [Obytes : Nat, Ibytes : Nat, Isegment : Nat, Ioffset : Nat]
    <3>1. LogAddr + o - LogStart \in Nat /\ LogAddr + i - LogStart \in Nat
      BY FirstMaxFacts DEF MapTypes
    <3> QED
      BY <2>1, <3>1 DEF MapTypes
  <2> QED
    <3>1. /\ UNCHANGED <<bus, mode, blockLRW, hasdc, phase, slave, BitPos, mbxstatus>>
          /\ cutting' = TRUE
      BY <1>0, <2>1, <2>2 DEF busvars
    <3> QED
      BY <1>0, <2>2, <2>3, <2>4, <2>5, <3>1 DEF MapTypes
<1> QED
  BY <1>1, <1>4, <1>5, <1>6 DEF MapOutputs, MapInputs

LEMMA CuttingTypes ==
  ASSUME MapTypes, Split \/ EndSlave
  PROVE  MapTypes'
<1>1. CASE Split
  <2>1. Closes(segmentmaxsize, 0) /\ segmentmaxsize' = MaxLRWData
    BY <1>1, FirstMaxFacts DEF Split, Closes, MapTypes
  <2>2. IOsegment' \in Seq(Nat) /\ segmentsize' \in Nat
    BY <2>1, SegmentsClosed
  <2> QED
    BY <1>1, <2>1, <2>2 DEF Split, MapTypes, busvars, placevars
<1>2. CASE EndSlave
  <2>1. slave' \in 1 .. NSlaves + 1
    BY <1>2, SizesAssumption DEF EndSlave, MapTypes, Slaves
  <2> QED
    BY <1>2, <2>1 DEF EndSlave, MapTypes, busvars, placevars
<1> QED
  BY <1>1, <1>2

LEMMA EndPassTypes ==
  ASSUME MapTypes, SizeInv, PlacedInv, EndOutputs \/ EndInputs \/ EndBoth
  PROVE  MapTypes'
<1>0. /\ slave' \in 1 .. NSlaves + 1 /\ cutting' = FALSE /\ ~cutting
      /\ UNCHANGED <<busvars, outputs, inputs, mbxstatus>>
  BY SizesAssumption, SMTT(30) DEF EndOutputs, EndInputs, EndBoth, EndPass, MapTypes
<1>1. CASE EndBoth
  BY <1>0, <1>1 DEF EndBoth, EndPass, MapTypes, busvars
<1>2. CASE EndOutputs \/ EndInputs
  <2>1. phase \in {"out", "in"} /\ LastByte /\ BitPos' = 0
    BY <1>2 DEF EndOutputs, EndInputs
  <2> DEFINE d == IF BitPos = 0 THEN 0 ELSE 1
  <2>2. /\ LogAddr' = LogAddr + d
        /\ \/ Keeps(d) /\ UNCHANGED segmentmaxsize
           \/ /\ Closes(segmentsize, d)
              /\ segmentmaxsize' \in {segmentmaxsize, MaxLRWData}
    BY <1>0, <2>1, LastByteFacts
  <2>3. d \in Nat
    OBVIOUS
  <2> HIDE DEF d
  <2>4. IOsegment' \in Seq(Nat) /\ segmentsize' \in Nat
    BY <2>2, <2>3, SegmentTypes
  <2>5. LogAddr' \in Nat /\ LogStart <= LogAddr' /\ LogAddr <= LogAddr'
    BY <2>2, <2>3, FirstMaxFacts DEF MapTypes
  <2>6. group' \in [Obytes : Nat, Ibytes : Nat, Isegment : Nat, Ioffset : Nat]
    <3>1. CASE EndOutputs
      <4>1. LogAddr' - LogStart \in Nat
        <5>1. \A a, b \in Nat : a <= b => b - a \in Nat
          OBVIOUS
        <5> QED
          BY <2>5, <5>1, StartNat
      <4>2. Len(IOsegment') \in Nat
        BY <2>4
      <4> QED
        BY <2>4, <3>1, <4>1, <4>2 DEF EndOutputs
    <3>2. CASE EndInputs
      <4>1. LogAddr' - LogStart - group.Obytes \in Nat
        <5>1. LogStart + group.Obytes <= LogAddr /\ group.Obytes \in Nat
          BY <3>2 DEF EndInputs, PlacedInv, InputStart, MapTypes
        <5> QED
          BY <2>5, <5>1, StartNat DEF MapTypes
      <4> QED
        BY <3>2, <4>1 DEF EndInputs, MapTypes
    <3> QED
      BY <1>2, <3>1, <3>2
  <2>7. phase' \in {"in", "mbx"} /\ (phase' = "in" => mode # "overlap")
    BY <1>2 DEF EndOutputs, EndInputs, EndPass, MapTypes
  <2> QED
    <3>1. segmentmaxsize' \in {FirstMax, MaxLRWData}
      BY <2>2 DEF MapTypes
    <3>2. UNCHANGED <<bus, mode, blockLRW, hasdc>>
      BY <1>0 DEF busvars
    <3>3. /\ phase' \in Passes \cup {"mbx"} \cup CyclePhases
          /\ phase' # "both" /\ (phase' \in {"out", "in"} => mode' # "overlap")
      BY <2>7, <3>2 DEF Passes
    <3>4. /\ outputs' \in [Slaves -> Regions] /\ inputs' \in [Slaves -> Regions]
          /\ mbxstatus' \in [Slaves -> Regions]
      BY <1>0 DEF MapTypes
    <3>5. /\ bus' \in [Slaves -> [O : Nat, I : Nat, mbx : BOOLEAN]]
          /\ mode' \in {"plain", "packed", "overlap"}
          /\ blockLRW' \in BOOLEAN /\ hasdc' \in BOOLEAN
          /\ mode' = "overlap" => ~blockLRW'
      BY <3>2 DEF MapTypes
    <3>6. BitPos' \in 0 .. 7 /\ (phase' \notin {"out", "in"} => BitPos' = 0)
      BY <2>1
    <3>7. cutting' \in BOOLEAN /\ (cutting' => phase' \in Passes /\ slave' \in Slaves)
      BY <1>0
    <3> QED
      BY <1>0, <2>4, <2>5, <2>6, <3>1, <3>3, <3>4, <3>5, <3>6, <3>7 DEF MapTypes
<1> QED
  BY <1>1, <1>2

(* The status of a mailbox is added to the open segment, in a segment of   *)
(* its own, or in none.                                                    *)
LEMMA MapMbxStatusFacts ==
  ASSUME MapTypes, MapMbxStatus
  PROVE  LET d == IF bus[slave].mbx THEN 1 ELSE 0 IN
         /\ LogAddr' = LogAddr + d
         /\ \/ Keeps(d) /\ StatusFits(d)
            \/ Closes(segmentsize, d) /\ segmentsize' = d
            \/ UNCHANGED <<IOsegment, segmentsize>>
BY DEF MapMbxStatus, Keeps, Closes, MapTypes

LEMMA StatusTypes ==
  ASSUME MapTypes, MapMbxStatus \/ EndMbxStatus
  PROVE  MapTypes'
<1>1. CASE MapMbxStatus
  <2> DEFINE d == IF bus[slave].mbx THEN 1 ELSE 0
  <2>1. /\ LogAddr' = LogAddr + d
        /\ \/ Keeps(d) \/ Closes(segmentsize, d) \/ UNCHANGED <<IOsegment, segmentsize>>
    BY <1>1, MapMbxStatusFacts
  <2>2. d \in Nat
    OBVIOUS
  <2>3. mbxstatus' \in [Slaves -> Regions]
    BY <1>1 DEF MapMbxStatus, MapTypes, Regions
  <2> HIDE DEF d
  <2>4. IOsegment' \in Seq(Nat) /\ segmentsize' \in Nat
    BY <2>1, <2>2, SegmentTypes DEF MapTypes
  <2>5. LogAddr' \in Nat /\ LogStart <= LogAddr'
    BY <2>1, <2>2, FirstMaxFacts DEF MapTypes
  <2>6. slave' \in 1 .. NSlaves + 1
    BY <1>1, SizesAssumption DEF MapMbxStatus, Slaves
  <2> QED
    BY <1>1, <2>3, <2>4, <2>5, <2>6 DEF MapMbxStatus, MapTypes, busvars, Passes
<1>2. CASE EndMbxStatus
  <2>1. IOsegment' \in Seq(Nat)
    BY <1>2 DEF EndMbxStatus, MapTypes
  <2> QED
    BY <1>2, <2>1 DEF EndMbxStatus, MapTypes, busvars, placevars, CyclePhases, Passes
<1> QED
  BY <1>1, <1>2

(* A cycle leaves the layout alone.                                        *)
layoutvars == <<busvars, slave, cutting, IOsegment, segmentsize, segmentmaxsize,
                placevars, group>>

LEMMA CycleKeepsLayout ==
  ASSUME Cycle
  PROVE  /\ UNCHANGED layoutvars
         /\ phase \in CyclePhases /\ phase' \in CyclePhases
BY DEF Cycle, StartCycle, SendSegment, StartReceive, ReceiveFrame, EndReceive, NextCycle,
       layoutvars, cutvars, CyclePhases

LEMMA MapTypesStep ==
  ASSUME MapTypes, SizeInv, PlacedInv, [Next]_vars
  PROVE  MapTypes'
<1>1. CASE UNCHANGED vars
  BY <1>1 DEF vars, busvars, cutvars, placevars, MapTypes
<1>2. CASE Cycle
  BY <1>2, CycleKeepsLayout DEF layoutvars, busvars, placevars, MapTypes, CyclePhases, Passes
<1> QED
  BY <1>1, <1>2, AddingTypes, CuttingTypes, EndPassTypes, StatusTypes DEF Next, Mapping

-----------------------------------------------------------------------------
(* How long the segments get.                                              *)

(* A slave is passed over, or as many bytes are added to the segments as   *)
(* to the image.                                                           *)
LEMMA AddingFacts ==
  ASSUME MapTypes, MapOutputs \/ MapInputs \/ MapBoth
  PROVE  /\ phase \in Passes /\ slave \in Slaves /\ ~cutting
         /\ phase' = phase /\ UNCHANGED busvars
         /\ \/ PassOver /\ UNCHANGED group
            \/ \E o, i \in Nat : AddSlave(o, i) /\ LogAddr' = LogAddr + Max({o, i})
<1>1. /\ phase \in Passes /\ slave \in Slaves /\ ~cutting
      /\ phase' = phase /\ UNCHANGED busvars
  BY DEF MapOutputs, MapInputs, MapBoth, Passes, PassOver, AddSlave
<1>2. ASSUME NEW p \in Placed, Behind(p), LogAddr' = p.addr
      PROVE  /\ p.addr - LogAddr \in Nat
             /\ LogAddr' = LogAddr + Max({p.addr - LogAddr, 0})
             /\ LogAddr' = LogAddr + Max({0, p.addr - LogAddr})
  <2>1. p.addr - LogAddr \in Nat /\ LogAddr \in Nat /\ p.addr \in Nat
    BY <1>2 DEF Placed, Behind, MapTypes
  <2>2. /\ Max({p.addr - LogAddr, 0}) = p.addr - LogAddr
        /\ Max({0, p.addr - LogAddr}) = p.addr - LogAddr
    BY <2>1, MaxTwo
  <2> QED
    BY <1>2, <2>1, <2>2
<1>3. CASE MapOutputs /\ ~PassOver
  <2>1. PICK p \in Placed : Behind(p) /\ LogAddr' = p.addr /\ AddSlave(p.addr - LogAddr, 0)
    BY <1>3, MapOutputsFacts
  <2>2. p.addr - LogAddr \in Nat /\ LogAddr' = LogAddr + Max({p.addr - LogAddr, 0})
    BY <1>2, <2>1
  <2>3. \E o, i \in Nat : AddSlave(o, i) /\ LogAddr' = LogAddr + Max({o, i})
    BY <2>1, <2>2
  <2> QED
    BY <1>1, <2>3
<1>4. CASE MapInputs /\ ~PassOver
  <2>1. PICK p \in Placed : Behind(p) /\ LogAddr' = p.addr /\ AddSlave(0, p.addr - LogAddr)
    BY <1>4, MapInputsFacts
  <2>2. p.addr - LogAddr \in Nat /\ LogAddr' = LogAddr + Max({0, p.addr - LogAddr})
    BY <1>2, <2>1
  <2>3. \E o, i \in Nat : AddSlave(o, i) /\ LogAddr' = LogAddr + Max({o, i})
    BY <2>1, <2>2
  <2> QED
    BY <1>1, <2>3
<1>5. CASE MapBoth
  <2>1. \E o, i \in Nat : AddSlave(o, i) /\ LogAddr' = LogAddr + Max({o, i})
    BY <1>5, MapBothFacts
  <2> QED
    BY <1>1, <2>1
<1>6. CASE (MapOutputs \/ MapInputs) /\ PassOver
  <2>1. UNCHANGED group
    BY <1>6 DEF MapOutputs, MapInputs
  <2> QED
    BY <1>1, <1>6, <2>1
<1> QED
  BY <1>3, <1>4, <1>5, <1>6

LEMMA SizeStep ==
  ASSUME MapTypes, SizeInv, [Next]_vars
  PROVE  SizeInv'
<1>0. /\ FirstMax <= MaxLRWData /\ FirstMax \in Nat /\ MaxLRWData \in Nat
      /\ FirstMax >= 1 /\ Len(IOsegment) \in Nat /\ segmentsize \in Nat
      /\ segmentmaxsize \in Nat
  BY FirstMaxFacts DEF MapTypes
<1>1. CASE UNCHANGED <<phase, cutting, IOsegment, segmentsize, segmentmaxsize>>
  BY <1>1 DEF SizeInv, Room
<1>2. CASE Cycle
  <2>1. UNCHANGED <<cutting, IOsegment, segmentsize, segmentmaxsize>>
    BY <1>2, CycleKeepsLayout DEF layoutvars
  <2>2. phase' \notin Passes /\ phase' # "mbx"
    BY <1>2, CycleKeepsLayout DEF CyclePhases, Passes
  <2> QED
    BY <2>1, <2>2 DEF SizeInv, Room
<1>3. CASE MapOutputs \/ MapInputs \/ MapBoth
  <2>1. /\ phase \in Passes /\ ~cutting /\ phase' = phase
        /\ \/ PassOver /\ UNCHANGED group
           \/ \E o, i \in Nat : AddSlave(o, i) /\ LogAddr' = LogAddr + Max({o, i})
    BY <1>3, AddingFacts
  <2>2. CASE PassOver
    BY <1>1, <2>2 DEF PassOver, cutvars
  <2>3. ASSUME NEW o \in Nat, NEW i \in Nat, AddSlave(o, i) PROVE SizeInv'
    <3> DEFINE d == Max({o, i})
    <3>1. /\ \/ Keeps(d) /\ UNCHANGED segmentmaxsize
             \/ Closes(segmentsize, d) /\ Room /\ segmentmaxsize' = MaxLRWData
          /\ cutting' = TRUE
      BY <2>1, <2>3, AddSlaveFacts
    <3> HIDE DEF d
    <3>2. phase' # "mbx"
      BY <2>1 DEF Passes
    <3>3. CASE Keeps(d) /\ UNCHANGED segmentmaxsize
      BY <2>1, <3>1, <3>2, <3>3 DEF Keeps, SizeInv, Room
    <3>4. CASE Closes(segmentsize, d) /\ Room /\ segmentmaxsize' = MaxLRWData
      <4>1. segmentsize <= Limit(Len(IOsegment) + 1)
        BY <1>0, <2>1, <3>4 DEF SizeInv, Limit
      <4>2. Room' => \A k \in 1 .. Len(IOsegment') : IOsegment'[k] <= Limit(k)
        BY <3>4, <4>1, ClosedSizes
      <4>3. segmentmaxsize' <= Limit(Len(IOsegment') + 1)
        BY <1>0, <3>4, SegmentsClosed DEF Limit
      <4> QED
        BY <3>1, <3>2, <4>2, <4>3 DEF SizeInv
    <3> QED
      BY <3>1, <3>3, <3>4
  <2> QED
    BY <2>1, <2>2, <2>3
<1>4. CASE Split
  <2>1. Closes(segmentmaxsize, 0) /\ segmentmaxsize' = MaxLRWData
    BY <1>0, <1>4, FirstMaxFacts DEF Split, Closes, MapTypes
  <2>2. phase \in Passes /\ phase' = phase /\ cutting' = TRUE
    BY <1>4 DEF Split, MapTypes
  <2>3. Room' => \A k \in 1 .. Len(IOsegment') : IOsegment'[k] <= Limit(k)
    BY <2>1, <2>2, ClosedSizes DEF SizeInv
  <2>4. segmentmaxsize' <= Limit(Len(IOsegment') + 1)
    BY <1>0, <2>1, SegmentsClosed DEF Limit
  <2> QED
    BY <2>2, <2>3, <2>4 DEF SizeInv, Passes
<1>5. CASE EndSlave
  <2>1. phase \in Passes /\ UNCHANGED <<phase, IOsegment, segmentsize, segmentmaxsize>>
    BY <1>5 DEF EndSlave, MapTypes
  <2>2. Room => segmentsize <= segmentmaxsize
    BY <1>0, <1>5, SizesAssumption DEF EndSlave, Room
  <2> QED
    BY <2>1, <2>2 DEF SizeInv, Room, Passes
<1>6. CASE EndOutputs \/ EndInputs
  <2> DEFINE d == IF BitPos = 0 THEN 0 ELSE 1
  <2>1. phase \in {"out", "in"} /\ LastByte /\ ~cutting /\ phase' \in {"in", "mbx"}
    BY <1>6 DEF EndOutputs, EndInputs, EndPass
  <2>2. \/ /\ Keeps(d) /\ UNCHANGED segmentmaxsize
           /\ Room => segmentsize' <= segmentmaxsize
        \/ /\ Closes(segmentsize, d) /\ Room /\ segmentsize' = 1
           /\ segmentmaxsize' \in {segmentmaxsize, MaxLRWData}
    BY <2>1, LastByteFacts
  <2>3. d \in Nat
    OBVIOUS
  <2> HIDE DEF d
  <2>4. segmentmaxsize <= Limit(Len(IOsegment) + 1)
    BY <2>1 DEF SizeInv, Passes
  <2>5. CASE /\ Keeps(d) /\ UNCHANGED segmentmaxsize
             /\ Room => segmentsize' <= segmentmaxsize
    <3>1. segmentsize' \in Nat /\ UNCHANGED IOsegment /\ UNCHANGED segmentmaxsize
      BY <2>3, <2>5 DEF Keeps, MapTypes
    <3>2. Room' => segmentsize' <= Limit(Len(IOsegment) + 1)
      BY <1>0, <2>4, <2>5, <3>1 DEF Room, Limit
    <3> QED
      BY <2>1, <2>4, <2>5, <3>1, <3>2 DEF SizeInv, Room
  <2>6. CASE /\ Closes(segmentsize, d) /\ Room /\ segmentsize' = 1
             /\ segmentmaxsize' \in {segmentmaxsize, MaxLRWData}
    <3>1. segmentsize <= Limit(Len(IOsegment) + 1)
      BY <1>0, <2>1, <2>4, <2>6 DEF SizeInv, Limit, Passes
    <3>2. Room' => \A k \in 1 .. Len(IOsegment') : IOsegment'[k] <= Limit(k)
      BY <2>6, <3>1, ClosedSizes
    <3>3. segmentmaxsize' <= Limit(Len(IOsegment') + 1) /\ segmentmaxsize' >= 1
      BY <1>0, <2>6, SegmentsClosed DEF Limit, MapTypes
    <3>4. segmentsize' <= Limit(Len(IOsegment') + 1)
      BY <1>0, <2>6 DEF Limit
    <3> QED
      BY <2>6, <3>2, <3>3, <3>4 DEF SizeInv
  <2> QED
    BY <2>2, <2>5, <2>6
<1>7. CASE EndBoth
  <2>1. /\ phase \in Passes /\ ~cutting /\ phase' = "mbx"
        /\ UNCHANGED <<IOsegment, segmentsize, segmentmaxsize>>
    BY <1>7 DEF EndBoth, EndPass, Passes
  <2>2. Room => segmentsize <= Limit(Len(IOsegment) + 1)
    BY <1>0, <2>1 DEF SizeInv, Limit
  <2> QED
    BY <2>1, <2>2 DEF SizeInv, Room, Passes
<1>8. CASE MapMbxStatus
  <2> DEFINE d == IF bus[slave].mbx THEN 1 ELSE 0
  <2>1. phase = "mbx" /\ UNCHANGED phase
    BY <1>8 DEF MapMbxStatus
  <2>2. \/ Keeps(d) /\ StatusFits(d)
        \/ Closes(segmentsize, d) /\ segmentsize' = d
        \/ UNCHANGED <<IOsegment, segmentsize>>
    BY <1>8, MapMbxStatusFacts
  <2>3. d \in 0 .. 1
    OBVIOUS
  <2> HIDE DEF d
  <2>4. CASE Keeps(d) /\ StatusFits(d)
    BY <1>0, <2>1, <2>3, <2>4 DEF Keeps, StatusFits, SizeInv, Room, Limit, Passes
  <2>5. CASE Closes(segmentsize, d) /\ segmentsize' = d
    <3>1. Room' => \A k \in 1 .. Len(IOsegment') : IOsegment'[k] <= Limit(k)
      BY <2>1, <2>5, ClosedSizes DEF SizeInv
    <3>2. segmentsize' <= Limit(Len(IOsegment') + 1)
      BY <1>0, <2>3, <2>5 DEF Limit
    <3> QED
      BY <2>1, <3>1, <3>2 DEF SizeInv, Passes
  <2>6. CASE UNCHANGED <<IOsegment, segmentsize>>
    BY <2>1, <2>6 DEF SizeInv, Room, Passes
  <2> QED
    BY <2>2, <2>4, <2>5, <2>6
<1>9. CASE EndMbxStatus
  <2>1. Closes(segmentsize, segmentsize)
    BY <1>0, <1>9 DEF EndMbxStatus, Closes
  <2>2. Room' => \A k \in 1 .. Len(IOsegment') : IOsegment'[k] <= Limit(k)
    BY <1>9, <2>1, ClosedSizes DEF SizeInv, EndMbxStatus
  <2> QED
    BY <1>9, <2>2 DEF EndMbxStatus, SizeInv, Passes
<1> QED
  BY <1>1, <1>2, <1>3, <1>4, <1>5, <1>6, <1>7, <1>8, <1>9
     DEF Next, Mapping, vars, cutvars

-----------------------------------------------------------------------------
(* Where the slaves are in the image.                                      *)

LEMMA PlacedTypes ==
  ASSUME MapTypes
  PROVE  /\ LogAddr \in Nat /\ LogStart \in Nat /\ End \in Nat
         /\ LogAddr <= End /\ End <= LogAddr + 1
         /\ group.Obytes \in Nat /\ group.Ibytes \in Nat
         /\ \A s \in Slaves : /\ outputs[s].start \in Nat /\ outputs[s].len \in Nat
                              /\ inputs[s].start \in Nat /\ inputs[s].len \in Nat
         /\ mode = "overlap" => InputStart = LogStart
         /\ mode # "overlap" => InputStart = LogStart + group.Obytes
BY StartNat DEF MapTypes, End, Regions, InputStart

(* A place stays within bounds that widen.                                 *)
LEMMA WithinWidens ==
  ASSUME NEW r \in Regions, NEW low \in Nat, NEW high \in Nat, NEW high2 \in Nat,
         Within(r, low, high), high <= high2
  PROVE  Within(r, low, high2)
BY DEF Within, Regions

LEMMA AddingPlaced ==
  ASSUME MapTypes, PlacedInv, MapOutputs \/ MapInputs \/ MapBoth
  PROVE  PlacedInv'
<1>0. /\ phase \in Passes /\ slave \in Slaves /\ ~cutting
      /\ phase' = phase /\ UNCHANGED <<bus, mode>>
  BY AddingFacts DEF busvars
<1> USE PlacedTypes
<1>1. CASE PassOver /\ UNCHANGED group
  BY <1>0, <1>1
     DEF PassOver, placevars, PlacedInv, End, DataLength, InputStart, Within
<1>2. ASSUME NEW p \in Placed, Behind(p), LogAddr' = p.addr, BitPos' = p.bit
      PROVE  /\ End' \in Nat /\ End <= End' /\ LogAddr <= LogAddr'
             /\ Region(p) \in Regions
             /\ \A low \in Nat : low <= LogAddr => Within(Region(p), low, End')
  BY <1>2 DEF Placed, Behind, Region, Regions, Within, End
<1>3. CASE MapOutputs /\ ~PassOver
  <2>1. PICK p \in Placed : /\ Behind(p)
                            /\ outputs' = [outputs EXCEPT ![slave] = Region(p)]
                            /\ LogAddr' = p.addr /\ BitPos' = p.bit
                            /\ UNCHANGED <<inputs, mbxstatus>>
    BY <1>3, MapOutputsFacts
  <2>2. phase = "out" /\ phase' = "out"
    BY <1>0, <1>3 DEF MapOutputs
  <2>3. ASSUME NEW s \in Slaves PROVE Within(outputs'[s], LogStart, End')
    <3>1. CASE s = slave
      BY <1>2, <2>1, <3>1 DEF MapTypes
    <3>2. CASE s # slave
      <4>1. outputs'[s] = outputs[s] /\ outputs[s] \in Regions
        BY <2>1, <3>2 DEF MapTypes
      <4>2. Within(outputs[s], LogStart, End)
        BY <2>2 DEF PlacedInv
      <4> QED
        BY <1>2, <2>1, <4>1, <4>2, WithinWidens
    <3> QED
      BY <3>1, <3>2
  <2> QED
    BY <2>1, <2>2, <2>3 DEF PlacedInv, Passes
<1>4. CASE MapInputs /\ ~PassOver
  <2>1. PICK p \in Placed : /\ Behind(p)
                            /\ inputs' = [inputs EXCEPT ![slave] = Region(p)]
                            /\ LogAddr' = p.addr /\ BitPos' = p.bit
                            /\ UNCHANGED <<outputs, mbxstatus>>
    BY <1>4, MapInputsFacts
  <2>2. phase = "in" /\ phase' = "in" /\ UNCHANGED group
    BY <1>0, <1>4 DEF MapInputs
  <2>3. InputStart' = InputStart /\ InputStart <= LogAddr /\ InputStart \in Nat
    BY <1>0, <2>2 DEF InputStart, PlacedInv
  <2>4. ASSUME NEW s \in Slaves PROVE Within(inputs'[s], InputStart, End')
    <3>1. CASE s = slave
      BY <1>2, <2>1, <2>3, <3>1 DEF MapTypes
    <3>2. CASE s # slave
      <4>1. inputs'[s] = inputs[s] /\ inputs[s] \in Regions
        BY <2>1, <3>2 DEF MapTypes
      <4>2. Within(inputs[s], InputStart, End)
        BY <2>2 DEF PlacedInv
      <4> QED
        BY <1>2, <2>1, <2>3, <4>1, <4>2, WithinWidens
    <3> QED
      BY <3>1, <3>2
  <2>5. InputStart' <= LogAddr'
    <3>1. LogAddr <= LogAddr' /\ LogAddr' \in Nat
      BY <1>2, <2>1 DEF Placed
    <3> QED
      BY <2>3, <3>1
  <2>6. \A s \in Slaves : /\ Within(outputs'[s], LogStart, LogStart + group.Obytes)
                          /\ mbxstatus'[s].len = 0
    BY <2>1, <2>2 DEF PlacedInv, Passes
  <2> QED
    BY <2>2, <2>3, <2>4, <2>5, <2>6 DEF PlacedInv, Passes
<1>5. CASE MapBoth
  <2>1. PICK o \in Nat, i \in Nat :
           /\ \E r \in Regions : /\ outputs' = [outputs EXCEPT ![slave] = r]
                                 /\ r.len = o /\ (o > 0 => r.start = LogAddr)
           /\ \E r \in Regions : /\ inputs' = [inputs EXCEPT ![slave] = r]
                                 /\ r.len = i /\ (i > 0 => r.start = LogAddr)
           /\ LogAddr' = LogAddr + Max({o, i})
           /\ AddSlave(o, i)
           /\ group' = [group EXCEPT !.Obytes = LogAddr + o - LogStart,
                                     !.Ibytes = LogAddr + i - LogStart]
           /\ UNCHANGED <<BitPos, mbxstatus>>
    BY <1>5, MapBothFacts
  <2>2. phase = "both" /\ phase' = "both" /\ mode = "overlap" /\ mode' = "overlap"
    BY <1>0, <1>5 DEF MapBoth, MapTypes
  <2>3. /\ group'.Obytes = LogAddr + o - LogStart
        /\ group'.Ibytes = LogAddr + i - LogStart
    BY <2>1 DEF MapTypes
  <2>4. LogAddr = LogStart + DataLength
    BY <2>2 DEF PlacedInv
  <2>5. LogAddr' = LogStart + DataLength'
    <3>1. Max({o, i}) = IF o >= i THEN o ELSE i
      BY MaxOfSizes
    <3> QED
      BY <2>1, <2>2, <2>3, <3>1 DEF DataLength
  <2>6. /\ LogStart + group'.Obytes \in Nat /\ LogStart + group'.Ibytes \in Nat
        /\ LogStart + group.Obytes <= LogStart + group'.Obytes
        /\ LogStart + group.Ibytes <= LogStart + group'.Ibytes
        /\ LogStart <= LogAddr
    BY <2>2, <2>3, <2>4 DEF DataLength
  <2>7. ASSUME NEW s \in Slaves PROVE Within(outputs'[s], LogStart, LogStart + group'.Obytes)
    <3>1. PICK r \in Regions : /\ outputs' = [outputs EXCEPT ![slave] = r]
                               /\ r.len = o /\ (o > 0 => r.start = LogAddr)
      BY <2>1
    <3>2. CASE s = slave
      <4>1. outputs'[s] = r
        BY <3>1, <3>2 DEF MapTypes
      <4> QED
        BY <2>3, <2>6, <3>1, <4>1 DEF Within
    <3>3. CASE s # slave
      <4>1. outputs'[s] = outputs[s] /\ outputs[s] \in Regions
        BY <3>1, <3>3 DEF MapTypes
      <4>2. Within(outputs[s], LogStart, LogStart + group.Obytes)
        BY <2>2 DEF PlacedInv
      <4>3. LogStart + group.Obytes \in Nat
        OBVIOUS
      <4> QED
        BY <2>6, <4>1, <4>2, <4>3, WithinWidens
    <3> QED
      BY <3>2, <3>3
  <2>8. ASSUME NEW s \in Slaves PROVE Within(inputs'[s], LogStart, LogStart + group'.Ibytes)
    <3>1. PICK r \in Regions : /\ inputs' = [inputs EXCEPT ![slave] = r]
                               /\ r.len = i /\ (i > 0 => r.start = LogAddr)
      BY <2>1
    <3>2. CASE s = slave
      <4>1. inputs'[s] = r
        BY <3>1, <3>2 DEF MapTypes
      <4> QED
        BY <2>3, <2>6, <3>1, <4>1 DEF Within
    <3>3. CASE s # slave
      <4>1. inputs'[s] = inputs[s] /\ inputs[s] \in Regions
        BY <3>1, <3>3 DEF MapTypes
      <4>2. Within(inputs[s], LogStart, LogStart + group.Ibytes)
        BY <2>2 DEF PlacedInv, InputStart
      <4>3. LogStart + group.Ibytes \in Nat
        OBVIOUS
      <4> QED
        BY <2>6, <4>1, <4>2, <4>3, WithinWidens
    <3> QED
      BY <3>2, <3>3
  <2>9. InputStart' = LogStart
    BY <2>2 DEF InputStart
  <2>10. \A s \in Slaves : mbxstatus'[s].len = 0
    BY <2>1, <2>2 DEF PlacedInv, Passes
  <2> QED
    BY <2>2, <2>5, <2>7, <2>8, <2>9, <2>10 DEF PlacedInv
<1>6. CASE (MapOutputs \/ MapInputs) /\ PassOver
  <2>1. UNCHANGED group
    BY <1>6 DEF MapOutputs, MapInputs
  <2> QED
    BY <1>1, <1>6, <2>1
<1> QED
  BY <1>3, <1>4, <1>5, <1>6

LEMMA EndPassPlaced ==
  ASSUME MapTypes, SizeInv, PlacedInv, EndOutputs \/ EndInputs \/ EndBoth
  PROVE  PlacedInv'
<1>0. /\ ~cutting /\ UNCHANGED <<bus, mode, outputs, inputs, mbxstatus>>
  BY DEF EndOutputs, EndInputs, EndBoth, EndPass, busvars
<1> USE PlacedTypes
<1>1. CASE EndBoth
  <2>1. phase = "both" /\ phase' = "mbx" /\ UNCHANGED <<group, LogAddr, BitPos>>
    BY <1>1 DEF EndBoth, EndPass
  <2> QED
    BY <1>0, <2>1 DEF PlacedInv, Passes, Within, InputStart
<1>2. ASSUME phase \in {"out", "in"}, LastByte, BitPos' = 0
      PROVE  LogAddr' = End
  <2> DEFINE d == IF BitPos = 0 THEN 0 ELSE 1
  <2>1. LogAddr' = LogAddr + d
    BY <1>0, <1>2, LastByteFacts
  <2> QED
    BY <2>1 DEF End, MapTypes
<1>3. CASE EndOutputs
  <2>1. phase = "out" /\ phase' = "in" /\ mode # "overlap"
    BY <1>3 DEF EndOutputs, EndPass, MapTypes
  <2>2. LogAddr' = End /\ group'.Obytes = LogAddr' - LogStart /\ BitPos' = 0
    BY <1>2, <1>3 DEF EndOutputs
  <2>3. LogStart + group'.Obytes = End /\ InputStart' = End
    BY <1>0, <2>1, <2>2 DEF InputStart
  <2> QED
    BY <1>0, <2>1, <2>2, <2>3 DEF PlacedInv, Passes, Within
<1>4. CASE EndInputs
  <2>1. phase = "in" /\ phase' = "mbx" /\ mode # "overlap"
    BY <1>4 DEF EndInputs, EndPass, MapTypes
  <2>2. /\ LogAddr' = End /\ BitPos' = 0
        /\ group' = [group EXCEPT !.Ibytes = LogAddr' - LogStart - group.Obytes]
    BY <1>2, <1>4 DEF EndInputs
  <2>3. /\ group'.Obytes = group.Obytes
        /\ group'.Ibytes = End - LogStart - group.Obytes
    BY <2>2 DEF MapTypes
  <2>4. InputStart' = InputStart /\ InputStart' + group'.Ibytes = End
    BY <1>0, <2>1, <2>3 DEF InputStart
  <2> QED
    BY <1>0, <2>1, <2>3, <2>4 DEF PlacedInv, Passes, Within
<1> QED
  BY <1>1, <1>3, <1>4

LEMMA PlacedStep ==
  ASSUME MapTypes, SizeInv, PlacedInv, [Next]_vars
  PROVE  PlacedInv'
<1>1. CASE UNCHANGED <<mode, phase, LogAddr, BitPos, group, outputs, inputs, mbxstatus>>
  BY <1>1 DEF PlacedInv, End, Within, InputStart, DataLength
<1>2. CASE Split \/ EndSlave
  BY <1>1, <1>2 DEF Split, EndSlave, busvars, placevars
<1>3. CASE Cycle \/ MapMbxStatus \/ EndMbxStatus
  <2>1. /\ UNCHANGED <<mode, group, outputs, inputs>>
        /\ phase \notin Passes /\ phase' \notin Passes
    BY <1>3, CycleKeepsLayout
       DEF layoutvars, busvars, placevars, MapMbxStatus, EndMbxStatus, CyclePhases, Passes
  <2> QED
    BY <2>1 DEF PlacedInv, Within, InputStart, Passes
<1> QED
  BY <1>1, <1>2, <1>3, AddingPlaced, EndPassPlaced
     DEF Next, Mapping, vars, busvars, placevars

(* The mailbox states.                                                     *)
LEMMA BeforeFacts ==
  ASSUME NEW s \in 1 .. NSlaves + 1
  PROVE  IsFiniteSet(Before(s)) /\ Cardinality(Before(s)) \in Nat
<1>1. IsFiniteSet(Slaves)
  BY FS_Interval, SizesAssumption DEF Slaves
<1>2. Before(s) \subseteq Slaves
  BY DEF Before, HasMbx
<1> QED
  BY <1>1, <1>2, FS_Subset, FS_CardinalityType

LEMMA BeforeNext ==
  ASSUME NEW s \in Slaves
  PROVE  Cardinality(Before(s + 1)) = Cardinality(Before(s)) + (IF s \in HasMbx THEN 1 ELSE 0)
<1>1. s \in Nat /\ s \in 1 .. NSlaves + 1
  BY SizesAssumption DEF Slaves
<1>2. CASE s \in HasMbx
  <2>1. Before(s + 1) = Before(s) \cup {s} /\ s \notin Before(s)
    BY <1>1, <1>2 DEF Before, HasMbx, Slaves
  <2> QED
    BY <1>1, <1>2, <2>1, BeforeFacts, FS_AddElement
<1>3. CASE s \notin HasMbx
  <2>1. Before(s + 1) = Before(s)
    BY <1>1, <1>3 DEF Before, HasMbx, Slaves
  <2> QED
    BY <1>1, <1>3, <2>1, BeforeFacts
<1> QED
  BY <1>2, <1>3

LEMMA BeforeEnds ==
  /\ Cardinality(Before(1)) = 0
  /\ Before(NSlaves + 1) = HasMbx
<1>1. Before(1) = {}
  BY SizesAssumption DEF Before, HasMbx, Slaves
<1>2. Before(NSlaves + 1) = HasMbx
  BY SizesAssumption DEF Before, HasMbx, Slaves
<1> QED
  BY <1>1, <1>2, FS_EmptySet

LEMMA StatusStep ==
  ASSUME MapTypes, SizeInv, PlacedInv, StatusInv, [Next]_vars
  PROVE  StatusInv'
<1>1. CASE UNCHANGED <<bus, mode, phase, slave, LogAddr, group, mbxstatus>>
  BY <1>1 DEF StatusInv, DataLength, Before, HasMbx
<1>2. CASE Cycle
  <2>1. UNCHANGED <<bus, mode, LogAddr, group, mbxstatus>>
    BY <1>2, CycleKeepsLayout DEF layoutvars, busvars, placevars
  <2>2. phase \in CyclePhases /\ phase' \in CyclePhases
    BY <1>2, CycleKeepsLayout
  <2> QED
    BY <2>1, <2>2 DEF StatusInv, DataLength, Before, HasMbx, CyclePhases, Passes
<1>3. CASE \/ MapOutputs \/ MapInputs \/ MapBoth \/ Split \/ EndSlave \/ EndOutputs
  <2>1. phase' \in Passes
    BY <1>3, AddingFacts DEF Split, EndSlave, EndOutputs, EndPass, MapTypes, Passes
  <2> QED
    BY <2>1 DEF StatusInv, Passes, CyclePhases
<1>4. CASE EndInputs \/ EndBoth
  <2>1. phase' = "mbx" /\ slave' = 1 /\ UNCHANGED <<bus, mode, mbxstatus>>
    BY <1>4 DEF EndInputs, EndBoth, EndPass, busvars
  <2>2. \A s \in Slaves : mbxstatus[s].len = 0
    BY <1>4 DEF EndInputs, EndBoth, PlacedInv, Passes
  <2>3. LogAddr' = LogStart + DataLength'
    <3>1. CASE EndBoth
      BY <2>1, <3>1 DEF EndBoth, PlacedInv, DataLength
    <3>2. CASE EndInputs
      <4>1. group'.Obytes = group.Obytes /\ group'.Ibytes = LogAddr' - LogStart - group.Obytes
        BY <3>2 DEF EndInputs, MapTypes
      <4>2. mode' # "overlap" /\ LogAddr' \in Nat
        BY <2>1, <3>2, EndPassTypes DEF EndInputs, MapTypes
      <4> QED
        BY <4>1, <4>2, PlacedTypes DEF DataLength
    <3> QED
      BY <1>4, <3>1, <3>2
  <2>4. Cardinality(Before(slave))' = 0
    <3>1. Cardinality(Before(1))' = 0
      BY <2>1, BeforeEnds DEF Before, HasMbx
    <3> QED
      BY <2>1, <3>1 DEF Before
  <2>5. LogAddr' \in Nat
    BY <1>4, EndPassTypes DEF MapTypes
  <2> QED
    BY <2>1, <2>2, <2>3, <2>4, <2>5 DEF StatusInv, CyclePhases, Passes
<1>5. CASE MapMbxStatus
  <2> DEFINE d == IF slave \in HasMbx THEN 1 ELSE 0
             place == LogStart + DataLength + Cardinality(Before(slave))
  <2>1. /\ phase = "mbx" /\ phase' = "mbx" /\ slave \in Slaves /\ slave' = slave + 1
        /\ UNCHANGED <<bus, mode, group>>
        /\ LogAddr' = LogAddr + d
        /\ mbxstatus' = [mbxstatus EXCEPT ![slave] =
                           IF slave \in HasMbx THEN [start |-> LogAddr, len |-> 1] ELSE @]
    BY <1>5 DEF MapMbxStatus, busvars, HasMbx
  <2>2. LogAddr = place
    BY <2>1 DEF StatusInv
  <2>3. DataLength' = DataLength /\ DataLength \in Nat
    BY <2>1, PlacedTypes DEF DataLength
  <2>4. LogAddr' = LogStart + DataLength' + Cardinality(Before(slave))'
    <3>1. Cardinality(Before(slave))' = Cardinality(Before(slave)) + d
      BY <2>1, BeforeNext DEF Before, HasMbx
    <3>2. Cardinality(Before(slave)) \in Nat
      BY BeforeFacts DEF MapTypes
    <3> HIDE DEF d
    <3>3. d \in Nat
      BY DEF d
    <3> QED
      BY <2>1, <2>2, <2>3, <3>1, <3>2, <3>3, StartNat
  <2>5. ASSUME NEW s \in Slaves, mbxstatus'[s].len > 0
        PROVE  mbxstatus'[s] =
                 [start |-> LogStart + DataLength' + Cardinality(Before(s)), len |-> 1]
    <3>1. CASE s = slave /\ slave \in HasMbx
      BY <2>1, <2>2, <2>3, <3>1 DEF MapTypes
    <3>2. CASE ~(s = slave /\ slave \in HasMbx)
      <4>1. mbxstatus'[s] = mbxstatus[s]
        BY <2>1, <3>2 DEF MapTypes
      <4> QED
        BY <2>1, <2>3, <2>5, <4>1 DEF StatusInv, Passes
    <3> QED
      BY <3>1, <3>2
  <2>6. \A s : Before(s)' = Before(s)
    BY <2>1 DEF Before, HasMbx
  <2> QED
    BY <2>1, <2>4, <2>5, <2>6 DEF StatusInv, CyclePhases, Passes
<1>6. CASE EndMbxStatus
  <2>1. /\ phase = "mbx" /\ phase' = "ready" /\ slave = NSlaves + 1
        /\ UNCHANGED <<bus, mode, LogAddr, group, mbxstatus>>
    BY <1>6 DEF EndMbxStatus, busvars, placevars
  <2>2. LogAddr = LogStart + DataLength + Cardinality(HasMbx)
    BY <2>1, BeforeEnds DEF StatusInv
  <2> QED
    BY <2>1, <2>2 DEF StatusInv, DataLength, Before, HasMbx, CyclePhases, Passes
<1> QED
  BY <1>1, <1>2, <1>3, <1>4, <1>5, <1>6 DEF Next, Mapping, vars, busvars, placevars

-----------------------------------------------------------------------------
(* The segments laid end to end.  No sum over a sequence is needed: the    *)
(* invariant says that there is a list of the places where segments start. *)
Sums(ps) ==
  /\ ps \in [Nat -> Nat] /\ ps[0] = 0
  /\ \A k \in 1 .. Len(IOsegment) : ps[k] = ps[k - 1] + IOsegment[k]

(* The segments are as long as the image; those that count, as the data.   *)
LengthInv(ps) ==
  /\ phase \in Passes => ps[Len(IOsegment)] + segmentsize = LogAddr - LogStart
  /\ phase = "mbx" => ps[Len(IOsegment)] + segmentsize >= DataLength
  /\ phase \in CyclePhases => Len(IOsegment) >= 1 /\ ps[Len(IOsegment)] >= DataLength

(* The inputs start in segment Isegment, Ioffset bytes behind its start,   *)
(* and the segment is not closed before it is that long.                   *)
InputsAt(ps) ==
  phase \notin {"out", "both"} /\ mode # "overlap" =>
    /\ group.Isegment <= Len(IOsegment)
    /\ phase \in CyclePhases => group.Isegment < Len(IOsegment)
    /\ ps[group.Isegment] + group.Ioffset = group.Obytes
    /\ group.Isegment < Len(IOsegment) => group.Ioffset <= IOsegment[group.Isegment + 1]
    /\ group.Isegment = Len(IOsegment) =>
         /\ group.Ioffset <= segmentsize
         /\ phase = "in" /\ Room => group.Ioffset <= segmentmaxsize

SumInv(ps) == Sums(ps) /\ LengthInv(ps) /\ InputsAt(ps)

LEMMA SumsTypes ==
  ASSUME MapTypes, NEW ps, Sums(ps)
  PROVE  /\ Len(IOsegment) \in Nat /\ ps[Len(IOsegment)] \in Nat
         /\ segmentsize \in Nat /\ segmentmaxsize \in Nat
         /\ group.Isegment \in Nat /\ group.Ioffset \in Nat
         /\ group.Obytes \in Nat /\ group.Ibytes \in Nat
         /\ \A k \in Nat : ps[k] \in Nat
         /\ \A k \in 1 .. Len(IOsegment) : IOsegment[k] \in Nat
<1>1. Len(IOsegment) \in Nat /\ \A k \in 1 .. Len(IOsegment) : IOsegment[k] \in Nat
  BY DEF MapTypes
<1>2. \A k \in Nat : ps[k] \in Nat
  BY DEF Sums
<1>3. segmentsize \in Nat /\ segmentmaxsize \in Nat
  BY FirstMaxFacts DEF MapTypes
<1>4. /\ group.Isegment \in Nat /\ group.Ioffset \in Nat
      /\ group.Obytes \in Nat /\ group.Ibytes \in Nat
  BY DEF MapTypes
<1> QED
  BY <1>1, <1>2, <1>3, <1>4

LEMMA SumsNext ==
  ASSUME MapTypes, NEW ps, Sums(ps), NEW k \in Nat, k < Len(IOsegment)
  PROVE  ps[k + 1] = ps[k] + IOsegment[k + 1]
<1>1. k + 1 \in 1 .. Len(IOsegment)
  BY SumsTypes
<1>2. \A m \in 1 .. Len(IOsegment) : ps[m] = ps[m - 1] + IOsegment[m]
  BY DEF Sums
<1>3. ps[k + 1] = ps[(k + 1) - 1] + IOsegment[k + 1]
  BY <1>1, <1>2
<1>4. (k + 1) - 1 = k
  OBVIOUS
<1> QED
  BY <1>3, <1>4

LEMMA SumsClosed ==
  ASSUME MapTypes, NEW ps, Sums(ps), NEW x, NEW d, Closes(x, d)
  PROVE  \E qs : /\ Sums(qs)'
                 /\ \A k \in 0 .. Len(IOsegment) : qs[k] = ps[k]
                 /\ qs[Len(IOsegment')] = ps[Len(IOsegment)] + x
<1> DEFINE n == Len(IOsegment)
           qs == [ps EXCEPT ![n + 1] = ps[n] + x]
<1>1. n \in Nat /\ x \in Nat /\ ps[n] \in Nat
  BY SumsTypes DEF Closes
<1>2. /\ Len(IOsegment') = n + 1
      /\ \A k \in 1 .. n : IOsegment'[k] = IOsegment[k]
      /\ IOsegment'[n + 1] = x
  BY SegmentsClosed
<1> HIDE DEF n
<1>3. /\ qs \in [Nat -> Nat] /\ qs[n + 1] = ps[n] + x
      /\ \A k \in Nat : k # n + 1 => qs[k] = ps[k]
  BY <1>1 DEF Sums
<1>4. qs[0] = 0
  BY <1>1, <1>3 DEF Sums
<1>5. \A k \in 1 .. n + 1 : qs[k] = qs[k - 1] + IOsegment'[k]
  <2> TAKE k \in 1 .. n + 1
  <2>1. CASE k = n + 1
    <3>1. qs[n] = ps[n]
      BY <1>1, <1>3
    <3>2. k - 1 = n
      BY <1>1, <2>1
    <3> QED
      BY <1>2, <1>3, <2>1, <3>1, <3>2
  <2>2. CASE k # n + 1
    <3>1. k \in 1 .. n /\ k - 1 \in Nat /\ k \in Nat /\ k - 1 # n + 1
      BY <1>1, <2>2
    <3>2. qs[k] = ps[k] /\ qs[k - 1] = ps[k - 1]
      BY <1>3, <2>2, <3>1
    <3>3. ps[k] = ps[k - 1] + IOsegment[k]
      BY <3>1 DEF Sums, n
    <3> QED
      BY <1>2, <3>1, <3>2, <3>3
  <2> QED
    BY <2>1, <2>2
<1>6. \A k \in 0 .. n : qs[k] = ps[k]
  BY <1>1, <1>3
<1> HIDE DEF qs
<1> QED
  BY <1>2, <1>3, <1>4, <1>5, <1>6 DEF Sums, n

LEMMA SumsKept ==
  ASSUME NEW ps, Sums(ps), UNCHANGED IOsegment
  PROVE  Sums(ps)'
BY DEF Sums

(* The inputs stay where they are while the segments grow.                 *)
SameInputs ==
  /\ group'.Isegment = group.Isegment /\ group'.Ioffset = group.Ioffset
  /\ group'.Obytes = group.Obytes /\ mode' = mode

LEMMA InputsKept ==
  ASSUME MapTypes, NEW ps, Sums(ps), InputsAt(ps), NEW d \in Nat, Keeps(d),
         SameInputs, phase \in {"in", "mbx"}, phase' \in {"in", "mbx"},
         phase' = "in" => phase = "in" /\ UNCHANGED segmentmaxsize
  PROVE  InputsAt(ps)'
BY SumsTypes DEF InputsAt, Keeps, Room, CyclePhases, SameInputs

LEMMA InputsClosed ==
  ASSUME MapTypes, NEW ps, Sums(ps), InputsAt(ps), NEW x, NEW d, Closes(x, d),
         NEW qs, \A k \in 0 .. Len(IOsegment) : qs[k] = ps[k],
         SameInputs, phase \in {"in", "mbx"},
         \/ x = segmentsize
         \/ x = segmentmaxsize /\ phase = "in" /\ Room
  PROVE  InputsAt(qs)'
<1> SUFFICES ASSUME mode # "overlap" PROVE InputsAt(qs)'
  BY DEF InputsAt, SameInputs
<1>1. /\ group.Isegment <= Len(IOsegment)
      /\ ps[group.Isegment] + group.Ioffset = group.Obytes
      /\ group.Isegment < Len(IOsegment) => group.Ioffset <= IOsegment[group.Isegment + 1]
      /\ group.Isegment = Len(IOsegment) => group.Ioffset <= x
  BY DEF InputsAt
<1>2. /\ Len(IOsegment') = Len(IOsegment) + 1
      /\ \A k \in 1 .. Len(IOsegment) : IOsegment'[k] = IOsegment[k]
      /\ IOsegment'[Len(IOsegment) + 1] = x
  BY SegmentsClosed
<1>3. qs[group.Isegment] = ps[group.Isegment]
  BY <1>1, SumsTypes
<1>4. group.Isegment < Len(IOsegment') /\ group.Isegment # Len(IOsegment')
  BY <1>1, <1>2, SumsTypes
<1>5. group.Ioffset <= IOsegment'[group.Isegment + 1]
  <2>1. CASE group.Isegment < Len(IOsegment)
    <3>1. group.Isegment + 1 \in 1 .. Len(IOsegment)
      BY <2>1, SumsTypes
    <3> QED
      BY <1>1, <1>2, <2>1, <3>1
  <2>2. CASE group.Isegment = Len(IOsegment)
    BY <1>1, <1>2, <2>2
  <2> QED
    BY <1>1, <2>1, <2>2, SumsTypes
<1>6. group.Isegment <= Len(IOsegment')
  BY <1>1, <1>2, SumsTypes
<1> QED
  BY <1>1, <1>3, <1>4, <1>5, <1>6 DEF InputsAt, SameInputs

(* Bytes added to the segments and to the image alike.                     *)
LEMMA SumAdding ==
  ASSUME MapTypes, NEW ps, SumInv(ps), NEW d \in Nat,
         phase \in Passes, phase' = phase, LogAddr' = LogAddr + d,
         phase = "in" => SameInputs,
         \/ Keeps(d) /\ UNCHANGED segmentmaxsize
         \/ /\ \E x : Closes(x, d) /\ x = segmentsize
         \/ /\ \E x : Closes(x, d) /\ x = segmentmaxsize /\ Room
  PROVE  \E qs : SumInv(qs)'
<1>1. CASE Keeps(d) /\ UNCHANGED segmentmaxsize
  <2>1. Sums(ps)'
    BY <1>1, SumsKept DEF SumInv, Keeps
  <2>2. LengthInv(ps)'
    <3>1. ps[Len(IOsegment)] \in Nat /\ segmentsize \in Nat /\ LogAddr \in Nat
      BY SumsTypes DEF SumInv, MapTypes
    <3>2. ps[Len(IOsegment)] + segmentsize = LogAddr - LogStart
      BY DEF SumInv, LengthInv
    <3>3. ps[Len(IOsegment')] + segmentsize' = LogAddr' - LogStart
      BY <1>1, <3>1, <3>2, StartNat DEF Keeps
    <3> QED
      BY <3>3 DEF LengthInv, Passes, CyclePhases
  <2>3. InputsAt(ps)'
    <3>1. CASE phase = "in"
      BY <1>1, <3>1, InputsKept DEF SumInv
    <3>2. CASE phase # "in"
      BY <3>2 DEF InputsAt, Passes
    <3> QED
      BY <3>1, <3>2
  <2> QED
    BY <2>1, <2>2, <2>3 DEF SumInv
<1>2. ASSUME NEW x, Closes(x, d), x = segmentsize \/ (x = segmentmaxsize /\ Room)
      PROVE  \E qs : SumInv(qs)'
  <2>1. PICK qs : /\ Sums(qs)'
                  /\ \A k \in 0 .. Len(IOsegment) : qs[k] = ps[k]
                  /\ qs[Len(IOsegment')] = ps[Len(IOsegment)] + x
    BY <1>2, SumsClosed DEF SumInv
  <2>2. LengthInv(qs)'
    <3>1. segmentsize' = segmentsize + d - x /\ x \in Nat
      BY <1>2 DEF Closes
    <3>2. ps[Len(IOsegment)] \in Nat /\ segmentsize \in Nat /\ LogAddr \in Nat
      BY SumsTypes DEF SumInv, MapTypes
    <3>3. ps[Len(IOsegment)] + segmentsize = LogAddr - LogStart
      BY DEF SumInv, LengthInv
    <3>4. qs[Len(IOsegment')] + segmentsize' = LogAddr' - LogStart
      <4>1. LogAddr' = LogAddr + d /\ qs[Len(IOsegment')] = ps[Len(IOsegment)] + x
        BY <2>1
      <4> QED
        BY <3>1, <3>2, <3>3, <4>1, StartNat, SMTT(30)
    <3> QED
      BY <3>4 DEF LengthInv, Passes, CyclePhases
  <2>3. InputsAt(qs)'
    <3>1. CASE phase = "in"
      BY <1>2, <2>1, <3>1, InputsClosed DEF SumInv
    <3>2. CASE phase # "in"
      BY <3>2 DEF InputsAt, Passes
    <3> QED
      BY <3>1, <3>2
  <2> QED
    BY <2>1, <2>2, <2>3 DEF SumInv
<1> QED
  BY <1>1, <1>2

LEMMA SumEndPass ==
  ASSUME MapTypes, SizeInv, PlacedInv, StatusInv, NEW ps, SumInv(ps),
         EndOutputs \/ EndInputs \/ EndBoth
  PROVE  \E qs : SumInv(qs)'
<1>0. MapTypes' /\ SizeInv' /\ StatusInv' /\ ~cutting' /\ ~cutting /\ UNCHANGED mode
  BY MapTypesStep, SizeStep, StatusStep
     DEF Next, Mapping, EndOutputs, EndInputs, EndBoth, EndPass, busvars
<1>1. PICK qs : /\ Sums(qs)' /\ qs[Len(IOsegment')] + segmentsize' = LogAddr' - LogStart
                /\ phase' = "mbx" => InputsAt(qs)'
  <2>1. CASE EndBoth
    <3>1. UNCHANGED <<IOsegment, segmentsize, LogAddr>> /\ mode' = "overlap" /\ phase = "both"
      BY <1>0, <2>1 DEF EndBoth, EndPass, MapTypes
    <3> QED
      BY <3>1, SumsKept DEF SumInv, LengthInv, InputsAt, Passes
  <2>2. CASE EndOutputs \/ EndInputs
    <3> DEFINE d == IF BitPos = 0 THEN 0 ELSE 1
    <3>1. phase \in {"out", "in"} /\ LastByte
      BY <2>2 DEF EndOutputs, EndInputs
    <3>2. /\ LogAddr' = LogAddr + d
          /\ Keeps(d) \/ Closes(segmentsize, d)
      BY <1>0, <3>1, LastByteFacts
    <3>3. d \in Nat
      OBVIOUS
    <3> HIDE DEF d
    <3>4. ps[Len(IOsegment)] + segmentsize = LogAddr - LogStart
      BY <3>1 DEF SumInv, LengthInv, Passes
    <3>5. ps[Len(IOsegment)] \in Nat /\ segmentsize \in Nat /\ LogAddr \in Nat
      BY SumsTypes DEF SumInv, MapTypes
    <3>6. phase' = "mbx" => SameInputs /\ phase = "in"
      BY <1>0, <2>2 DEF EndOutputs, EndInputs, EndPass, MapTypes, SameInputs
    <3>7. CASE Keeps(d)
      <4>1. Sums(ps)'
        BY <3>7, SumsKept DEF SumInv, Keeps
      <4>2. ps[Len(IOsegment')] + segmentsize' = LogAddr' - LogStart
        BY <3>2, <3>3, <3>4, <3>5, <3>7, StartNat DEF Keeps
      <4>3. phase' = "mbx" => InputsAt(ps)'
        BY <3>3, <3>6, <3>7, InputsKept DEF SumInv
      <4> QED
        BY <4>1, <4>2, <4>3
    <3>8. CASE Closes(segmentsize, d)
      <4>1. PICK qs : /\ Sums(qs)'
                      /\ \A k \in 0 .. Len(IOsegment) : qs[k] = ps[k]
                      /\ qs[Len(IOsegment')] = ps[Len(IOsegment)] + segmentsize
        BY <3>8, SumsClosed DEF SumInv
      <4>2. qs[Len(IOsegment')] + segmentsize' = LogAddr' - LogStart
        BY <3>2, <3>3, <3>4, <3>5, <3>8, <4>1, StartNat DEF Closes
      <4>3. phase' = "mbx" => InputsAt(qs)'
        BY <3>6, <3>8, <4>1, InputsClosed DEF SumInv
      <4> QED
        BY <4>1, <4>2, <4>3
    <3> QED
      BY <3>2, <3>7, <3>8
  <2> QED
    BY <2>1, <2>2
<1>2. CASE phase' = "mbx"
  <2>1. LogAddr' - LogStart >= DataLength'
    <3>1. LogAddr' = LogStart + DataLength' + Cardinality(Before(slave))'
      BY <1>0, <1>2 DEF StatusInv
    <3>2. Cardinality(Before(slave))' \in Nat
      <4>1. slave' = 1 /\ UNCHANGED bus
        BY DEF EndOutputs, EndInputs, EndBoth, EndPass, busvars
      <4>2. Cardinality(Before(1))' = 0
        BY <4>1, BeforeEnds DEF Before, HasMbx
      <4> QED
        BY <4>1, <4>2 DEF Before
    <3>3. DataLength' \in Nat
      <4>1. group'.Obytes \in Nat /\ group'.Ibytes \in Nat
        BY <1>0 DEF MapTypes
      <4> QED
        BY <4>1 DEF DataLength
    <3> QED
      BY <3>1, <3>2, <3>3, StartNat
  <2> QED
    BY <1>1, <1>2, <2>1 DEF SumInv, LengthInv, Passes, CyclePhases
<1>3. CASE EndOutputs
  <2>1. /\ phase' = "in" /\ group'.Obytes = LogAddr' - LogStart
        /\ group'.Isegment = Len(IOsegment') /\ group'.Ioffset = segmentsize'
    BY <1>3 DEF EndOutputs, EndPass
  <2>2. Room' => segmentsize' <= segmentmaxsize'
    BY <1>0, <2>1 DEF SizeInv, Passes
  <2>3. Len(IOsegment') \in Nat /\ segmentsize' \in Nat
    BY <1>0 DEF MapTypes
  <2>4. InputsAt(qs)'
    BY <1>1, <2>1, <2>2, <2>3 DEF InputsAt, CyclePhases
  <2>5. LengthInv(qs)'
    BY <1>1, <2>1 DEF LengthInv, Passes, CyclePhases
  <2> QED
    BY <1>1, <2>4, <2>5 DEF SumInv
<1> QED
  BY <1>2, <1>3 DEF EndInputs, EndBoth, EndPass

LEMMA SumStatus ==
  ASSUME MapTypes, PlacedInv, NEW ps, SumInv(ps), MapMbxStatus \/ EndMbxStatus
  PROVE  \E qs : SumInv(qs)'
<1>0. phase = "mbx" /\ UNCHANGED <<mode, group>> /\ SameInputs /\ UNCHANGED DataLength
  BY DEF MapMbxStatus, EndMbxStatus, SameInputs, busvars, DataLength
<1>1. ps[Len(IOsegment)] \in Nat /\ segmentsize \in Nat /\ DataLength \in Nat
  BY SumsTypes DEF SumInv, DataLength
<1>2. ps[Len(IOsegment)] + segmentsize >= DataLength
  BY <1>0 DEF SumInv, LengthInv
<1>3. CASE MapMbxStatus
  <2> DEFINE d == IF bus[slave].mbx THEN 1 ELSE 0
  <2>1. \/ Keeps(d) \/ Closes(segmentsize, d) \/ UNCHANGED <<IOsegment, segmentsize>>
    BY <1>3, MapMbxStatusFacts
  <2>2. d \in Nat
    OBVIOUS
  <2>3. phase' = "mbx"
    BY <1>3 DEF MapMbxStatus
  <2> HIDE DEF d
  <2>4. CASE Keeps(d)
    <3>1. Sums(ps)' /\ InputsAt(ps)'
      BY <1>0, <2>2, <2>3, <2>4, SumsKept, InputsKept DEF SumInv, Keeps
    <3>2. ps[Len(IOsegment')] + segmentsize' >= DataLength'
      BY <1>0, <1>1, <1>2, <2>2, <2>4 DEF Keeps
    <3> QED
      BY <2>3, <3>1, <3>2 DEF SumInv, LengthInv, Passes, CyclePhases
  <2>5. CASE Closes(segmentsize, d)
    <3>1. PICK qs : /\ Sums(qs)'
                    /\ \A k \in 0 .. Len(IOsegment) : qs[k] = ps[k]
                    /\ qs[Len(IOsegment')] = ps[Len(IOsegment)] + segmentsize
      BY <2>5, SumsClosed DEF SumInv
    <3>2. InputsAt(qs)'
      BY <1>0, <2>5, <3>1, InputsClosed DEF SumInv
    <3>3. qs[Len(IOsegment')] + segmentsize' >= DataLength'
      BY <1>0, <1>1, <1>2, <2>2, <2>5, <3>1 DEF Closes
    <3> QED
      BY <2>3, <3>1, <3>2, <3>3 DEF SumInv, LengthInv, Passes, CyclePhases
  <2>6. CASE UNCHANGED <<IOsegment, segmentsize>>
    <3>1. Keeps(0)
      BY <1>1, <2>6 DEF Keeps
    <3>2. Sums(ps)' /\ InputsAt(ps)'
      BY <1>0, <2>3, <3>1, SumsKept, InputsKept DEF SumInv, Keeps
    <3> QED
      BY <1>0, <1>2, <2>3, <2>6, <3>2 DEF SumInv, LengthInv, Passes, CyclePhases
  <2> QED
    BY <2>1, <2>4, <2>5, <2>6
<1>4. CASE EndMbxStatus
  <2>1. Closes(segmentsize, segmentsize) /\ phase' = "ready"
    BY <1>1, <1>4 DEF EndMbxStatus, Closes
  <2>2. PICK qs : /\ Sums(qs)'
                  /\ \A k \in 0 .. Len(IOsegment) : qs[k] = ps[k]
                  /\ qs[Len(IOsegment')] = ps[Len(IOsegment)] + segmentsize
    BY <2>1, SumsClosed DEF SumInv
  <2>3. InputsAt(qs)'
    BY <1>0, <2>1, <2>2, InputsClosed DEF SumInv
  <2>4. Len(IOsegment') >= 1 /\ qs[Len(IOsegment')] >= DataLength'
    <3>1. Len(IOsegment') = Len(IOsegment) + 1 /\ Len(IOsegment) \in Nat
      BY <2>1, SegmentsClosed DEF MapTypes
    <3> QED
      BY <1>0, <1>2, <2>2, <3>1
  <2> QED
    BY <2>1, <2>2, <2>3, <2>4 DEF SumInv, LengthInv, Passes, CyclePhases
<1> QED
  BY <1>3, <1>4

LEMMA SumStep ==
  ASSUME MapTypes, SizeInv, PlacedInv, StatusInv, [Next]_vars, NEW ps, SumInv(ps)
  PROVE  \E qs : SumInv(qs)'
<1>1. CASE UNCHANGED <<phase, mode, IOsegment, segmentsize, segmentmaxsize, LogAddr, group>>
  BY <1>1, SumsKept DEF SumInv, LengthInv, InputsAt, DataLength, Room
<1>2. CASE Cycle
  <2>1. UNCHANGED <<mode, IOsegment, segmentsize, segmentmaxsize, LogAddr, group>>
    BY <1>2, CycleKeepsLayout DEF layoutvars, busvars, placevars
  <2>2. phase \in CyclePhases /\ phase' \in CyclePhases
    BY <1>2, CycleKeepsLayout
  <2> QED
    BY <2>1, <2>2, SumsKept
       DEF SumInv, LengthInv, InputsAt, DataLength, Room, CyclePhases, Passes
<1>3. CASE MapOutputs \/ MapInputs \/ MapBoth
  <2>1. /\ phase \in Passes /\ phase' = phase /\ UNCHANGED busvars /\ ~cutting
        /\ \/ PassOver /\ UNCHANGED group
           \/ \E o, i \in Nat : AddSlave(o, i) /\ LogAddr' = LogAddr + Max({o, i})
    BY <1>3, AddingFacts
  <2>2. CASE PassOver /\ UNCHANGED group
    BY <1>1, <2>1, <2>2 DEF PassOver, cutvars, placevars, busvars
  <2>3. ASSUME NEW o \in Nat, NEW i \in Nat, AddSlave(o, i), LogAddr' = LogAddr + Max({o, i})
        PROVE  \E qs : SumInv(qs)'
    <3> DEFINE d == Max({o, i})
    <3>1. \/ Keeps(d) /\ UNCHANGED segmentmaxsize
          \/ Closes(segmentsize, d)
      BY <2>1, <2>3, AddSlaveFacts
    <3>2. d \in Nat
      BY MaxTwo
    <3>3. phase = "in" => SameInputs
      BY <1>3, <2>1 DEF MapOutputs, MapInputs, MapBoth, SameInputs, busvars
    <3>4. LogAddr' = LogAddr + d /\ UNCHANGED mode
      BY <2>1, <2>3 DEF busvars
    <3> HIDE DEF d
    <3> QED
      BY <2>1, <3>1, <3>2, <3>3, <3>4, SumAdding
  <2> QED
    BY <2>1, <2>2, <2>3
<1>4. CASE Split
  <2>1. Closes(segmentmaxsize, 0)
    BY <1>4, FirstMaxFacts DEF Split, Closes, MapTypes
  <2>2. /\ phase \in Passes /\ phase' = phase /\ Room /\ UNCHANGED <<mode, group, LogAddr>>
        /\ SameInputs
    BY <1>4 DEF Split, MapTypes, Room, busvars, placevars, SameInputs
  <2>3. LogAddr' = LogAddr + 0 /\ 0 \in Nat
    BY <2>2 DEF MapTypes
  <2> QED
    BY <2>1, <2>2, <2>3, SumAdding
<1>5. CASE EndSlave
  BY <1>1, <1>5 DEF EndSlave, busvars, placevars
<1> QED
  BY <1>1, <1>2, <1>3, <1>4, <1>5, SumEndPass, SumStatus
     DEF Next, Mapping, vars, busvars, cutvars, placevars

-----------------------------------------------------------------------------
(* A cycle.  Each command goes over a part of the image, from Begin on and *)
(* at least to Target, segment by segment.                                 *)
Commands == IF blockLRW THEN {"LRD", "LWR"} ELSE {"LRW"}
Begin(cmd) == IF cmd = "LRD" THEN LogStart + group.Obytes ELSE LogStart
Finish(cmd) == CASE cmd = "LRD" -> LogStart + group.Obytes + group.Ibytes
                 [] cmd = "LWR" -> LogStart + group.Obytes
                 [] OTHER -> LogStart + ImageLength
Target(cmd) == CASE cmd = "LRD" -> LogStart + group.Obytes + group.Ibytes
                 [] cmd = "LWR" -> LogStart + group.Obytes
                 [] OTHER -> LogStart + DataLength

JobRecords == [cmd : {"LRD", "LWR", "LRW"}, addr : Int, data : Int, length : Int,
               segment : Nat]

(* Where the segment of a job starts, and the job ends.                    *)
JobOK(ps, j) ==
  /\ j \in JobRecords /\ j.cmd \in Commands
  /\ j.segment < Len(IOsegment)
  /\ j.data = j.addr - LogStart
  /\ j.addr + j.length = Finish(j.cmd)
  /\ j.addr = LogStart + (IF j.cmd = "LRD" /\ j.segment = group.Isegment
                          THEN group.Obytes ELSE ps[j.segment])
  /\ j.cmd = "LRD" => group.Isegment <= j.segment
  /\ j.cmd = "LWR" => j.length > 0

LEMMA ImageFacts ==
  ASSUME MapTypes, StatusInv, phase \in CyclePhases
  PROVE  /\ ImageLength \in Nat /\ ImageLength >= DataLength
         /\ DataLength \in Nat /\ DataLength >= group.Obytes
         /\ mode # "overlap" => DataLength = group.Obytes + group.Ibytes
         /\ DataLength >= group.Ibytes
<1>1. /\ group.Obytes \in Nat /\ group.Ibytes \in Nat /\ LogStart \in Nat
      /\ LogAddr \in Nat
  BY PlacedTypes
<1>2. Cardinality(HasMbx) \in Nat
  BY BeforeFacts, BeforeEnds, SizesAssumption
<1>3. LogAddr = LogStart + DataLength + Cardinality(HasMbx)
  BY DEF StatusInv
<1>4. /\ DataLength \in Nat /\ DataLength >= group.Obytes
      /\ DataLength >= group.Ibytes
      /\ mode # "overlap" => DataLength = group.Obytes + group.Ibytes
  BY <1>1 DEF DataLength
<1>5. ImageLength \in Nat /\ ImageLength >= DataLength
  <2>1. CASE mode = "overlap"
    <3>1. Max({group.Obytes, group.Ibytes}) = DataLength
      BY <1>1, <2>1, MaxTwo DEF DataLength
    <3>2. ImageLength = Cardinality(HasMbx) + DataLength
      BY <2>1, <3>1 DEF ImageLength, MbxLength
    <3> QED
      BY <1>2, <1>4, <3>2
  <2>2. CASE mode # "overlap"
    <3>1. ImageLength = LogAddr
      BY <1>1, <2>2 DEF ImageLength, MbxLength
    <3> QED
      BY <1>1, <1>2, <1>3, <1>4, <3>1
  <2> QED
    BY <2>1, <2>2
<1> QED
  BY <1>4, <1>5

(* What one datagram takes of the image.                                   *)
LEMMA SublengthFacts ==
  ASSUME MapTypes, SizeInv, StatusInv, phase \in CyclePhases,
         NEW ps, SumInv(ps), NEW j, JobOK(ps, j)
  PROVE  LET n == Sublength(j) IN
         /\ n \in Nat
         /\ n <= IOsegment[j.segment + 1]
         /\ \/ j.addr + n = LogStart + ps[j.segment + 1]
            \/ j.cmd = "LWR" /\ n = j.length
<1> DEFINE size == IOsegment[j.segment + 1]
           k == j.segment
<1>1. /\ k \in Nat /\ k + 1 \in 1 .. Len(IOsegment) /\ size \in Nat
      /\ j.addr \in Int /\ j.length \in Int /\ ps[k] \in Nat /\ ps[k + 1] \in Nat
      /\ ps[k + 1] = ps[k] + size
  <2>1. k \in Nat /\ k < Len(IOsegment) /\ j.addr \in Int /\ j.length \in Int
    BY DEF JobOK, JobRecords
  <2>2. k + 1 \in 1 .. Len(IOsegment)
    BY <2>1, SumsTypes DEF SumInv
  <2>3. ps[k + 1] = ps[k] + size
    BY <2>1, SumsNext DEF SumInv
  <2> QED
    BY <2>1, <2>2, <2>3, SumsTypes DEF SumInv
<1>2. CASE j.cmd = "LRD" /\ k = group.Isegment
  <2>1. Sublength(j) = size - group.Ioffset
    BY <1>2 DEF Sublength
  <2>2. mode # "overlap"
    BY <1>2 DEF JobOK, Commands, MapTypes
  <2>3. ps[k] + group.Ioffset = group.Obytes /\ group.Ioffset <= size
    BY <1>1, <1>2, <2>2 DEF SumInv, InputsAt, CyclePhases
  <2>4. j.addr = LogStart + group.Obytes
    BY <1>2 DEF JobOK
  <2>5. group.Ioffset \in Nat /\ group.Obytes \in Nat
    BY SumsTypes DEF SumInv
  <2> HIDE DEF size, k
  <2>6. size - group.Ioffset \in Nat /\ size - group.Ioffset <= size
    BY <1>1, <2>3, <2>5
  <2>7. j.addr + (size - group.Ioffset) = LogStart + ps[k + 1]
    <3>1. \A a, b, c, d \in Nat : (a + (b + c)) + (d - c) = a + (b + d)
      OBVIOUS
    <3>2. /\ ps[k] \in Nat /\ group.Ioffset \in Nat /\ size \in Nat
          /\ group.Obytes = ps[k] + group.Ioffset /\ ps[k + 1] = ps[k] + size
      BY <1>1, <2>3, <2>5
    <3> QED
      BY <2>4, <3>1, <3>2, StartNat
  <2> QED
    BY <2>1, <2>6, <2>7 DEF size, k
<1>3. CASE j.cmd = "LWR"
  <2>1. Sublength(j) = IF size < j.length THEN size ELSE j.length
    BY <1>3 DEF Sublength
  <2>2. j.length > 0 /\ j.addr = LogStart + ps[k]
    BY <1>3 DEF JobOK
  <2> HIDE DEF size, k
  <2>3. CASE size < j.length
    <3>1. Sublength(j) = size /\ j.addr + size = LogStart + ps[k + 1]
      BY <1>1, <2>1, <2>2, <2>3, StartNat
    <3> QED
      BY <1>1, <3>1 DEF size, k
  <2>4. CASE ~(size < j.length)
    <3>1. Sublength(j) = j.length /\ j.length \in Nat /\ j.length <= size
      BY <1>1, <2>1, <2>2, <2>4
    <3> QED
      BY <1>3, <3>1 DEF size, k
  <2> QED
    BY <2>3, <2>4
<1>4. CASE j.cmd # "LWR" /\ ~(j.cmd = "LRD" /\ k = group.Isegment)
  <2>1. Sublength(j) = size
    BY <1>4 DEF Sublength
  <2>2. j.addr = LogStart + ps[k]
    BY <1>4 DEF JobOK
  <2> HIDE DEF size, k
  <2> QED
    BY <1>1, <2>1, <2>2, StartNat DEF size, k
<1> QED
  BY <1>2, <1>3, <1>4

(* The job that remains after a datagram is right, or none needs to.       *)
More(j) == j.length # Sublength(j) /\ j.segment + 1 < Len(IOsegment)
NextJob(j) == Job(j.cmd, j.addr + Sublength(j), j.data + Sublength(j),
                  j.length - Sublength(j), j.segment + 1)

LEMMA NextJobFacts ==
  ASSUME MapTypes, SizeInv, StatusInv, phase \in CyclePhases,
         NEW ps, SumInv(ps), NEW j, JobOK(ps, j)
  PROVE  /\ More(j) => JobOK(ps, NextJob(j))
         /\ ~More(j) => j.addr + Sublength(j) >= Target(j.cmd)
<1> DEFINE n == Sublength(j)
<1>1. /\ n \in Nat
      /\ \/ j.addr + n = LogStart + ps[j.segment + 1]
         \/ j.cmd = "LWR" /\ n = j.length
  BY SublengthFacts
<1>2. /\ j.addr \in Int /\ j.data \in Int /\ j.length \in Int /\ j.segment \in Nat
      /\ j.cmd \in {"LRD", "LWR", "LRW"} /\ j.cmd \in Commands
      /\ j.data = j.addr - LogStart /\ j.addr + j.length = Finish(j.cmd)
      /\ j.segment < Len(IOsegment)
      /\ j.cmd = "LRD" => group.Isegment <= j.segment
      /\ j.cmd = "LWR" => j.length > 0
  BY DEF JobOK, JobRecords
<1>3. Len(IOsegment) \in Nat /\ group.Isegment \in Nat
  BY SumsTypes DEF SumInv
<1>4. ASSUME More(j) PROVE JobOK(ps, NextJob(j))
  <2>1. n # j.length /\ j.segment + 1 < Len(IOsegment)
    BY <1>4 DEF More
  <2>2. /\ NextJob(j).cmd = j.cmd /\ NextJob(j).addr = j.addr + n
        /\ NextJob(j).data = j.data + n /\ NextJob(j).length = j.length - n
        /\ NextJob(j).segment = j.segment + 1
    BY DEF NextJob, Job
  <2>3. NextJob(j) \in JobRecords
    <3>1. j.addr + n \in Int /\ j.data + n \in Int /\ j.length - n \in Int /\ j.segment + 1 \in Nat
      BY <1>1, <1>2
    <3> HIDE DEF n
    <3> QED
      BY <1>2, <3>1 DEF NextJob, Job, JobRecords, n
  <2>4. j.cmd = "LWR" => j.length - n > 0
    <3> SUFFICES ASSUME j.cmd = "LWR" PROVE j.length - n > 0
      OBVIOUS
    <3>1. n = IF IOsegment[j.segment + 1] < j.length THEN IOsegment[j.segment + 1] ELSE j.length
      BY DEF Sublength
    <3> HIDE DEF n
    <3> QED
      BY <1>1, <1>2, <2>1, <3>1
  <2> HIDE DEF n
  <2>5. j.addr + n = LogStart + ps[j.segment + 1]
    BY <1>1, <2>1
  <2>6. j.data + n = (j.addr + n) - LogStart /\ (j.addr + n) + (j.length - n) = Finish(j.cmd)
    BY <1>1, <1>2, StartNat
  <2>7. j.cmd = "LRD" => group.Isegment <= j.segment + 1 /\ j.segment + 1 # group.Isegment
    BY <1>2, <1>3
  <2> QED
    BY <1>2, <2>1, <2>2, <2>3, <2>4, <2>5, <2>6, <2>7 DEF JobOK
<1>5. ASSUME ~More(j) PROVE j.addr + n >= Target(j.cmd)
  <2>0. /\ DataLength \in Nat /\ ImageLength \in Nat /\ ImageLength >= DataLength
        /\ group.Obytes \in Nat /\ group.Ibytes \in Nat
        /\ DataLength >= group.Obytes
    BY ImageFacts, PlacedTypes
  <2>10. LogStart \in Nat /\ j.cmd \in Commands
    BY <1>2, StartNat
  <2>1. CASE n = j.length
    <3>1. Finish(j.cmd) >= Target(j.cmd)
      BY <1>2, <2>0, StartNat, SMTT(30) DEF Finish, Target
    <3> QED
      BY <1>2, <2>1, <3>1
  <2>2. CASE n # j.length
    <3>1. j.segment + 1 = Len(IOsegment)
      BY <1>2, <1>3, <1>5, <2>2 DEF More
    <3>2. ps[Len(IOsegment)] \in Nat /\ ps[Len(IOsegment)] >= DataLength
      BY SumsTypes DEF SumInv, LengthInv
    <3>3. j.addr + n >= LogStart + DataLength
      BY <1>1, <2>0, <2>2, <3>1, <3>2, StartNat
    <3>4. LogStart + DataLength >= Target(j.cmd)
      <4>1. j.cmd = "LRD" => mode # "overlap"
        BY <1>2 DEF Commands, MapTypes
      <4>2. j.cmd = "LRD" => DataLength = group.Obytes + group.Ibytes
        BY <4>1 DEF DataLength
      <4> QED
        BY <1>2, <2>0, <4>2, StartNat, SMTT(30) DEF Target
    <3>5. Target(j.cmd) \in Int
      BY <1>2, <2>0, StartNat, SMTT(30) DEF Target
    <3> HIDE DEF n
    <3> QED
      BY <1>1, <1>2, <2>0, <3>3, <3>4, <3>5, StartNat
  <2> QED
    BY <2>1, <2>2
<1> QED
  BY <1>4, <1>5

(* The frames on the index stack, one index each; the list of indices is   *)
(* used from the front.                                                    *)
StackInv ==
  /\ Len(stack) \in 0 .. MaxBuf /\ \A k \in 1 .. Len(stack) : stack[k].idx = k
  /\ phase \notin {"send", "receive", "done"} => stack = <<>> /\ inuse = {}
  /\ phase = "send" => inuse = 1 .. Len(stack)
  /\ phase \in {"receive", "done"} =>
       /\ pulled \in 0 .. Len(stack)
       /\ inuse = pulled + 1 .. Len(stack)
       /\ phase = "done" => pulled = Len(stack)

(* A datagram takes its data from and brings it to where it belongs, and   *)
(* it fits in a frame.                                                     *)
FrameRecords == [idx : 1 .. MaxBuf, cmd : {"LRD", "LWR", "LRW"}, addr : Int, from : Int,
                 data : Int, length : Nat, dc : BOOLEAN]
FrameOK(e) ==
  /\ e.cmd \in Commands
  /\ e.from = e.addr - LogStart /\ e.data = e.from + InputOffset
  /\ e.dc => hasdc
  /\ Room => e.length <= MaxLRWData /\ (e.dc /\ ~blockLRW => e.length <= FirstMax)
FrameInv == stack \in Seq(FrameRecords) /\ \A k \in 1 .. Len(stack) : FrameOK(stack[k])

(* What is left to send is right, and the first datagram is of the first   *)
(* segment unless a slave blocks LRW.                                      *)
JobsInv(ps) ==
  /\ first \in BOOLEAN
  /\ phase = "send" =>
       /\ jobs \in Seq(JobRecords)
       /\ \A k \in 1 .. Len(jobs) : JobOK(ps, jobs[k])
       /\ first => hasdc /\ (~blockLRW => \A k \in 1 .. Len(jobs) : jobs[k].segment = 0)

(* Every byte that has to travel is in a frame or ahead of a job.          *)
Travels(cmd, b) == Begin(cmd) <= b /\ b < Target(cmd)
Sent(cmd, b) == \E k \in 1 .. Len(stack) : stack[k].cmd = cmd /\ Covers(stack[k], b)
Ahead(cmd, b) == \E k \in 1 .. Len(jobs) : jobs[k].cmd = cmd /\ jobs[k].addr <= b
CoverInv ==
  phase \in {"send", "receive", "done"} /\ AllSent =>
    \A cmd \in Commands, b \in Int :
      Travels(cmd, b) => Sent(cmd, b) \/ (phase = "send" /\ Ahead(cmd, b))

(* What was copied to the image is what the answers brought.               *)
CopyOf(e) == [addr |-> e.addr, data |-> e.data, length |-> e.length]
CopyInv ==
  /\ lost \in BOOLEAN
  /\ phase = "send" => copied = {} /\ lost = FALSE
  /\ phase \in {"receive", "done"} =>
       /\ \A c \in copied : \E k \in 1 .. pulled : c = CopyOf(stack[k])
       /\ lost = FALSE =>
            \A k \in 1 .. pulled :
              stack[k].cmd # "LWR" /\ stack[k].length > 0 => CopyOf(stack[k]) \in copied

(* The jobs after the first of them made a step.                           *)
LEMMA QueueFacts ==
  ASSUME NEW S, NEW q \in Seq(S), q # <<>>, NEW x \in S
  PROVE  /\ Len(q) \in Nat /\ Len(q) >= 1 /\ Head(q) = q[1] /\ Head(q) \in S
         /\ Tail(q) \in Seq(S) /\ Len(Tail(q)) = Len(q) - 1
         /\ \A k \in 1 .. Len(Tail(q)) : Tail(q)[k] = q[k + 1]
         /\ <<x>> \o Tail(q) \in Seq(S) /\ Len(<<x>> \o Tail(q)) = Len(q)
         /\ (<<x>> \o Tail(q))[1] = x
         /\ \A k \in 2 .. Len(q) : (<<x>> \o Tail(q))[k] = q[k]
         /\ <<>> \o Tail(q) = Tail(q)
<1>1. /\ Len(q) \in Nat /\ Len(q) >= 1 /\ Head(q) = q[1] /\ Head(q) \in S
      /\ Tail(q) \in Seq(S) /\ Len(Tail(q)) = Len(q) - 1
      /\ \A k \in 1 .. Len(Tail(q)) : Tail(q)[k] = q[k + 1]
  OBVIOUS
<1> DEFINE t == Tail(q)
<1>2. t \in Seq(S) /\ Len(t) = Len(q) - 1 /\ \A k \in 1 .. Len(t) : t[k] = q[k + 1]
  BY <1>1
<1> HIDE DEF t
<1>3. <<x>> \o t \in Seq(S) /\ Len(<<x>> \o t) = 1 + Len(t) /\ (<<x>> \o t)[1] = x
  BY <1>2
<1>4. \A k \in 2 .. Len(q) : (<<x>> \o t)[k] = q[k]
  <2> TAKE k \in 2 .. Len(q)
  <2>1. k - 1 \in 1 .. Len(t)
    BY <1>1, <1>2
  <2>2. (<<x>> \o t)[k] = t[k - 1]
    BY <1>2, <2>1
  <2>3. t[k - 1] = q[(k - 1) + 1] /\ (k - 1) + 1 = k
    BY <1>2, <2>1
  <2> QED
    BY <2>2, <2>3
<1>5. <<>> \o t = t
  BY <1>2
<1> QED
  BY <1>1, <1>2, <1>3, <1>4, <1>5 DEF t

(* The jobs of a cycle, as it begins.                                      *)
LEMMA JobsFacts ==
  ASSUME MapTypes, SizeInv, PlacedInv, StatusInv, phase = "ready", NEW ps, SumInv(ps)
  PROVE  /\ Jobs \in Seq(JobRecords)
         /\ \A k \in 1 .. Len(Jobs) : JobOK(ps, Jobs[k])
         /\ ~blockLRW => \A k \in 1 .. Len(Jobs) : Jobs[k].segment = 0
         /\ \A cmd \in Commands, b \in Int :
              Travels(cmd, b) =>
                \E k \in 1 .. Len(Jobs) : Jobs[k].cmd = cmd /\ Jobs[k].addr <= b
<1> DEFINE lrd == Job("LRD", LogStart + group.Obytes, group.Obytes, group.Ibytes,
                      group.Isegment)
           lwr == Job("LWR", LogStart, 0, group.Obytes, 0)
           lrw == Job("LRW", LogStart, 0, ImageLength, 0)
<1>1. /\ group.Obytes \in Nat /\ group.Ibytes \in Nat /\ group.Isegment \in Nat
      /\ Len(IOsegment) \in Nat /\ Len(IOsegment) >= 1 /\ ps[0] = 0
      /\ ImageLength \in Nat /\ ImageLength >= DataLength /\ DataLength \in Nat
      /\ DataLength >= group.Ibytes /\ DataLength >= group.Obytes
      /\ blockLRW \in BOOLEAN
      /\ blockLRW => mode # "overlap"
      /\ phase \in CyclePhases
  BY ImageFacts, SumsTypes DEF SumInv, LengthInv, Sums, CyclePhases, MapTypes
<1>2. lrd \in JobRecords /\ lwr \in JobRecords /\ lrw \in JobRecords
  BY <1>1, StartNat DEF Job, JobRecords
<1>3. ASSUME blockLRW PROVE JobOK(ps, lrd)
  <2>1. group.Isegment < Len(IOsegment)
    BY <1>1, <1>3 DEF SumInv, InputsAt, CyclePhases
  <2>2. /\ lrd.cmd = "LRD" /\ lrd.segment = group.Isegment /\ lrd.data = group.Obytes
        /\ lrd.addr = LogStart + group.Obytes /\ lrd.length = group.Ibytes
    BY DEF Job
  <2>3. "LRD" \in Commands /\ Finish("LRD") = LogStart + group.Obytes + group.Ibytes
    BY <1>3 DEF Commands, Finish
  <2> HIDE DEF lrd
  <2> QED
    BY <1>1, <1>2, <2>1, <2>2, <2>3, StartNat DEF JobOK
<1>4. ASSUME blockLRW, group.Obytes > 0 PROVE JobOK(ps, lwr)
  <2>1. /\ lwr.cmd = "LWR" /\ lwr.segment = 0 /\ lwr.data = 0
        /\ lwr.addr = LogStart /\ lwr.length = group.Obytes
    BY DEF Job
  <2>2. "LWR" \in Commands /\ Finish("LWR") = LogStart + group.Obytes
    BY <1>4 DEF Commands, Finish
  <2> HIDE DEF lwr
  <2> QED
    BY <1>1, <1>2, <1>4, <2>1, <2>2, StartNat DEF JobOK
<1>5. ASSUME ~blockLRW PROVE JobOK(ps, lrw)
  <2>1. /\ lrw.cmd = "LRW" /\ lrw.segment = 0 /\ lrw.data = 0
        /\ lrw.addr = LogStart /\ lrw.length = ImageLength
    BY DEF Job
  <2>2. "LRW" \in Commands /\ Finish("LRW") = LogStart + ImageLength
    BY <1>5 DEF Commands, Finish
  <2> HIDE DEF lrw
  <2> QED
    BY <1>1, <1>2, <2>1, <2>2, StartNat DEF JobOK
<1>6. /\ lrd.cmd = "LRD" /\ lwr.cmd = "LWR" /\ lrw.cmd = "LRW" /\ lrw.segment = 0
      /\ lrd.addr = Begin("LRD") /\ lwr.addr = Begin("LWR") /\ lrw.addr = Begin("LRW")
  BY DEF Job, Begin
<1>7. Jobs = IF ImageLength = 0 THEN <<>>
             ELSE IF blockLRW THEN (IF group.Ibytes > 0 THEN <<lrd>> ELSE <<>>)
                                   \o (IF group.Obytes > 0 THEN <<lwr>> ELSE <<>>)
             ELSE <<lrw>>
  BY DEF Jobs
<1>8. ASSUME NEW cmd \in Commands, NEW b \in Int, Travels(cmd, b)
      PROVE  /\ ImageLength # 0
             /\ cmd = "LRD" => group.Ibytes > 0
             /\ cmd = "LWR" => group.Obytes > 0
  BY <1>1, <1>8, StartNat DEF Travels, Begin, Target, Commands
<1>9. \A cmd \in Commands : cmd \in {"LRD", "LWR", "LRW"} /\ (cmd = "LRW" <=> ~blockLRW)
  BY <1>1 DEF Commands
<1> HIDE DEF lrd, lwr, lrw
<1>10. CASE ImageLength = 0
  BY <1>7, <1>8, <1>10
<1>11. CASE ImageLength # 0 /\ ~blockLRW
  <2>1. Jobs = <<lrw>>
    BY <1>7, <1>11
  <2>2. Jobs \in Seq(JobRecords) /\ Len(Jobs) = 1 /\ Jobs[1] = lrw
    BY <1>2, <2>1
  <2>3. \A cmd \in Commands, b \in Int :
          Travels(cmd, b) => lrw.cmd = cmd /\ lrw.addr <= b
    BY <1>6, <1>9, <1>11 DEF Travels
  <2> QED
    BY <1>5, <1>6, <1>11, <2>2, <2>3
<1>12. CASE ImageLength # 0 /\ blockLRW
  <2>0. \A x : <<x>> \o <<>> = <<x>> /\ <<>> \o <<x>> = <<x>>
    OBVIOUS
  <2>1. \A cmd \in Commands, b \in Int :
          Travels(cmd, b) => \/ cmd = "LRD" /\ group.Ibytes > 0 /\ lrd.addr <= b
                             \/ cmd = "LWR" /\ group.Obytes > 0 /\ lwr.addr <= b
    BY <1>6, <1>8, <1>9, <1>12 DEF Travels
  <2>2. CASE group.Ibytes > 0 /\ group.Obytes > 0
    <3>1. Jobs = <<lrd>> \o <<lwr>>
      BY <1>7, <1>12, <2>2
    <3>2. Jobs \in Seq(JobRecords) /\ Len(Jobs) = 2 /\ Jobs[1] = lrd /\ Jobs[2] = lwr
      BY <1>2, <3>1
    <3> QED
      BY <1>3, <1>4, <1>6, <1>12, <2>1, <2>2, <3>2
  <2>3. CASE group.Ibytes > 0 /\ ~(group.Obytes > 0)
    <3>1. Jobs = <<lrd>>
      BY <1>7, <1>12, <2>0, <2>3
    <3>2. Jobs \in Seq(JobRecords) /\ Len(Jobs) = 1 /\ Jobs[1] = lrd
      BY <1>2, <3>1
    <3> QED
      BY <1>3, <1>6, <1>12, <2>1, <2>3, <3>2
  <2>4. CASE ~(group.Ibytes > 0) /\ group.Obytes > 0
    <3>1. Jobs = <<lwr>>
      BY <1>7, <1>12, <2>0, <2>4
    <3>2. Jobs \in Seq(JobRecords) /\ Len(Jobs) = 1 /\ Jobs[1] = lwr
      BY <1>2, <3>1
    <3> QED
      BY <1>4, <1>6, <1>12, <2>1, <2>4, <3>2
  <2>5. CASE ~(group.Ibytes > 0) /\ ~(group.Obytes > 0)
    <3>1. Jobs = <<>>
      BY <1>7, <1>12, <2>5
    <3> QED
      BY <1>12, <2>1, <2>5, <3>1
  <2> QED
    BY <2>2, <2>3, <2>4, <2>5
<1> QED
  BY <1>10, <1>11, <1>12

(* Nothing of this changes while a cycle runs.                             *)
LEMMA CycleKeeps ==
  ASSUME Cycle
  PROVE  /\ Commands' = Commands
         /\ \A cmd : Begin(cmd)' = Begin(cmd) /\ Target(cmd)' = Target(cmd)
         /\ \A cmd, b : Travels(cmd, b)' <=> Travels(cmd, b)
         /\ \A e : FrameOK(e)' <=> FrameOK(e)
         /\ \A ps, j : JobOK(ps, j)' <=> JobOK(ps, j)
<1>1. UNCHANGED <<bus, mode, blockLRW, hasdc, IOsegment, LogAddr, group>>
  BY CycleKeepsLayout DEF layoutvars, busvars, placevars
<1>2. Commands' = Commands
  BY <1>1 DEF Commands
<1>3. \A cmd : Begin(cmd)' = Begin(cmd) /\ Target(cmd)' = Target(cmd)
  BY <1>1 DEF Begin, Target, DataLength
<1>4. \A cmd, b : Travels(cmd, b)' <=> Travels(cmd, b)
  BY <1>3 DEF Travels
<1>5. Room' = Room /\ InputOffset' = InputOffset /\ ImageLength' = ImageLength
  BY <1>1 DEF Room, InputOffset, ImageLength, MbxLength, HasMbx
<1>6. \A e : FrameOK(e)' <=> FrameOK(e)
  BY <1>1, <1>2, <1>5 DEF FrameOK
<1>7. \A cmd : Finish(cmd)' = Finish(cmd)
  BY <1>1, <1>5 DEF Finish
<1>8. \A ps, j : JobOK(ps, j)' <=> JobOK(ps, j)
  BY <1>1, <1>2, <1>7 DEF JobOK
<1> QED
  BY <1>2, <1>3, <1>4, <1>6, <1>8

(* The first job makes a step.                                             *)
LEMMA SentJob ==
  ASSUME MapTypes, SizeInv, StatusInv, phase \in CyclePhases,
         NEW ps, SumInv(ps), JobsInv(ps), SendSegment
  PROVE  LET j == jobs[1] IN
         /\ JobOK(ps, j) /\ j = Head(jobs) /\ 1 \in 1 .. Len(jobs)
         /\ jobs' \in Seq(JobRecords)
         /\ \A k \in 1 .. Len(jobs') : JobOK(ps, jobs'[k])
         /\ \A cmd \in Commands, b \in Int :
              Ahead(cmd, b) /\ Travels(cmd, b) =>
                \/ cmd = j.cmd /\ j.addr <= b /\ b < j.addr + Sublength(j)
                \/ Ahead(cmd, b)'
<1> DEFINE j == jobs[1]
           n == Sublength(j)
           rest == Tail(jobs)
<1>0. phase = "send" /\ jobs # <<>> /\ jobs \in Seq(JobRecords)
  BY DEF SendSegment, JobsInv
<1>1. /\ j = Head(jobs) /\ Len(jobs) \in Nat /\ Len(jobs) >= 1
      /\ rest \in Seq(JobRecords) /\ Len(rest) = Len(jobs) - 1
      /\ \A k \in 1 .. Len(rest) : rest[k] = jobs[k + 1]
      /\ <<>> \o rest = rest
  <2>1. Head(jobs) \in JobRecords
    BY <1>0
  <2> QED
    BY <1>0, <2>1, QueueFacts
<1>2. JobOK(ps, j) /\ \A k \in 1 .. Len(jobs) : JobOK(ps, jobs[k])
  BY <1>0, <1>1 DEF JobsInv
<1>3. /\ More(j) => JobOK(ps, NextJob(j))
      /\ ~More(j) => j.addr + n >= Target(j.cmd)
      /\ n \in Nat
  BY <1>2, NextJobFacts, SublengthFacts
<1>4. jobs' = (IF More(j) THEN <<NextJob(j)>> ELSE <<>>) \o rest
  BY <1>1 DEF SendSegment, More, NextJob
<1>5. j.addr \in Int
  BY <1>2 DEF JobOK, JobRecords
<1>6. NextJob(j).addr = j.addr + n /\ NextJob(j).cmd = j.cmd
  BY DEF NextJob, Job
<1>7. CASE More(j)
  <2> DEFINE x == NextJob(j)
  <2>1. JobOK(ps, x) /\ x \in JobRecords
    BY <1>3, <1>7 DEF JobOK
  <2> HIDE DEF x
  <2>2. /\ jobs' \in Seq(JobRecords) /\ Len(jobs') = Len(jobs) /\ jobs'[1] = x
        /\ \A k \in 2 .. Len(jobs) : jobs'[k] = jobs[k]
    <3>1. jobs' = <<x>> \o rest
      BY <1>4, <1>7 DEF x
    <3> QED
      BY <1>0, <2>1, <3>1, QueueFacts
  <2>3. \A k \in 1 .. Len(jobs') : JobOK(ps, jobs'[k])
    <3> TAKE k \in 1 .. Len(jobs')
    <3>1. k = 1 \/ k \in 2 .. Len(jobs)
      BY <1>1, <2>2
    <3>2. CASE k = 1
      BY <2>1, <2>2, <3>2
    <3>3. CASE k \in 2 .. Len(jobs)
      BY <1>1, <1>2, <2>2, <3>3
    <3> QED
      BY <3>1, <3>2, <3>3
  <2>4. ASSUME NEW cmd \in Commands, NEW b \in Int, Ahead(cmd, b), ~(cmd = j.cmd /\ j.addr <= b /\ b < j.addr + n)
        PROVE  Ahead(cmd, b)'
    <3>1. PICK k \in 1 .. Len(jobs) : jobs[k].cmd = cmd /\ jobs[k].addr <= b
      BY <2>4 DEF Ahead
    <3>2. CASE k = 1
      <4>1. x.cmd = cmd /\ x.addr <= b
        <5>1. ~(b < j.addr + n) /\ j.cmd = cmd
          BY <2>4, <3>1, <3>2
        <5> HIDE DEF n, j
        <5> QED
          BY <1>3, <1>5, <1>6, <5>1 DEF x
      <4>2. 1 \in 1 .. Len(jobs')
        BY <1>1, <2>2
      <4> QED
        BY <2>2, <4>1, <4>2 DEF Ahead
    <3>3. CASE k # 1
      <4>1. k \in 2 .. Len(jobs) /\ k \in 1 .. Len(jobs')
        BY <1>1, <2>2, <3>3
      <4> QED
        BY <2>2, <3>1, <4>1 DEF Ahead
    <3> QED
      BY <3>2, <3>3
  <2> QED
    BY <1>1, <1>2, <2>2, <2>3, <2>4
<1>8. CASE ~More(j)
  <2>1. jobs' = rest
    BY <1>1, <1>4, <1>8
  <2> HIDE DEF rest
  <2>2. \A k \in 1 .. Len(rest) : k + 1 \in 1 .. Len(jobs) /\ rest[k] = jobs[k + 1]
    BY <1>1
  <2>3. \A k \in 1 .. Len(jobs') : JobOK(ps, jobs'[k])
    BY <1>2, <2>1, <2>2
  <2>4. ASSUME NEW cmd \in Commands, NEW b \in Int, Ahead(cmd, b), Travels(cmd, b),
               ~(cmd = j.cmd /\ j.addr <= b /\ b < j.addr + n)
        PROVE  Ahead(cmd, b)'
    <3>1. PICK k \in 1 .. Len(jobs) : jobs[k].cmd = cmd /\ jobs[k].addr <= b
      BY <2>4 DEF Ahead
    <3>2. CASE k = 1
      <4>1. b < Target(j.cmd) /\ j.addr <= b /\ j.cmd = cmd
        BY <2>4, <3>1, <3>2 DEF Travels
      <4>2. ~(b < j.addr + n) /\ j.addr + n \in Int /\ j.addr + n >= Target(j.cmd)
        <5>1. ~(b < j.addr + n)
          BY <2>4, <4>1
        <5> HIDE DEF n
        <5> QED
          BY <1>3, <1>5, <1>8, <5>1
      <4>3. Target(j.cmd) \in Int
        <5>1. /\ group.Obytes \in Nat /\ group.Ibytes \in Nat /\ DataLength \in Nat
          BY PlacedTypes, ImageFacts
        <5> QED
          BY <5>1, StartNat DEF Target
      <4> HIDE DEF j, n
      <4> QED
        BY <4>1, <4>2, <4>3
    <3>3. CASE k # 1
      <4> DEFINE m == k - 1
      <4>1. m \in 1 .. Len(rest) /\ m + 1 = k
        BY <1>1, <3>3
      <4> HIDE DEF m
      <4>2. jobs'[m] = jobs[k] /\ m \in 1 .. Len(jobs')
        BY <2>1, <2>2, <4>1
      <4> QED
        BY <3>1, <4>2 DEF Ahead
    <3> QED
      BY <3>2, <3>3
  <2> QED
    BY <1>1, <1>2, <2>1, <2>3, <2>4
<1> QED
  BY <1>7, <1>8

(* Indices are given out from the front; when none is free it is the first.*)
LEMMA GetIndexFacts ==
  ASSUME NEW n \in 0 .. MaxBuf, inuse = 1 .. n
  PROVE  GetIndex = IF n < MaxBuf THEN n + 1 ELSE 1
<1> DEFINE free == (1 .. MaxBuf) \ inuse
<1>0. MaxBuf \in Nat \ {0}
  BY FirstMaxFacts
<1>1. free = n + 1 .. MaxBuf
  BY <1>0
<1> HIDE DEF free
<1>2. CASE n < MaxBuf
  <2>1. n + 1 \in free /\ \A y \in free : n + 1 <= y
    BY <1>0, <1>1, <1>2
  <2>2. \A x \in free : (\A y \in free : x <= y) => x = n + 1
    BY <1>0, <1>1, <2>1
  <2>3. Min(free) = n + 1
    BY <2>1, <2>2 DEF Min
  <2> QED
    BY <1>2, <2>1, <2>3 DEF GetIndex, free
<1>3. CASE ~(n < MaxBuf)
  <2>1. free = {}
    BY <1>0, <1>1, <1>3
  <2> QED
    BY <1>3, <2>1 DEF GetIndex, free
<1> QED
  BY <1>2, <1>3

StackStays == UNCHANGED <<stack, inuse, pulled>>

LEMMA StackStep ==
  ASSUME MapTypes, StackInv, [Next]_vars
  PROVE  StackInv'
<1>0. MaxBuf \in Nat \ {0}
  BY FirstMaxFacts
<1>1. CASE StackStays /\ phase' = phase
  BY <1>1 DEF StackStays, StackInv
<1>2. CASE Mapping
  <2>1. StackStays /\ phase \notin {"send", "receive", "done"}
    BY <1>2 DEF Mapping, MapOutputs, MapInputs, MapBoth, Split, EndSlave, EndOutputs, EndInputs,
                EndBoth, EndPass, MapMbxStatus, EndMbxStatus, sendvars, recvvars, StackStays,
                MapTypes, Passes
  <2>2. phase' \notin {"send", "receive", "done"}
    BY <1>2, <2>1, AddingFacts
       DEF Mapping, Split, EndSlave, EndOutputs, EndInputs, EndBoth, EndPass, MapMbxStatus,
           EndMbxStatus
  <2> QED
    BY <2>1, <2>2 DEF StackInv, StackStays
<1>3. CASE StartCycle
  <2>1. phase = "ready" /\ phase' = "send" /\ StackStays
    BY <1>3 DEF StartCycle, StackStays
  <2>2. stack = <<>> /\ inuse = {}
    BY <2>1 DEF StackInv
  <2>3. Len(stack') = 0 /\ inuse' = 1 .. 0
    BY <2>1, <2>2 DEF StackStays
  <2> QED
    BY <1>0, <2>1, <2>3 DEF StackInv
<1>4. CASE SendSegment
  <2> DEFINE n == Len(stack)
             j == Head(jobs)
             e == [idx |-> GetIndex, cmd |-> j.cmd, addr |-> j.addr,
                   from |-> j.data, data |-> j.data + InputOffset,
                   length |-> Sublength(j), dc |-> first]
  <2>1. /\ phase = "send" /\ phase' = "send" /\ n \in 0 .. MaxBuf /\ inuse = 1 .. n
        /\ \A k \in 1 .. n : stack[k].idx = k
    BY <1>4 DEF SendSegment, StackInv
  <2>2. /\ stack' = IF n < MaxBuf THEN Append(stack, e) ELSE stack
        /\ inuse' = inuse \cup {GetIndex}
    BY <1>4 DEF SendSegment, PushIndex
  <2>3. GetIndex = IF n < MaxBuf THEN n + 1 ELSE 1
    BY <2>1, GetIndexFacts
  <2>4. e.idx = GetIndex
    OBVIOUS
  <2> HIDE DEF e
  <2>5. CASE n < MaxBuf
    <3>1. Len(stack') = n + 1 /\ stack'[n + 1] = e /\ \A k \in 1 .. n : stack'[k] = stack[k]
      BY <2>1, <2>2, <2>5
    <3>2. inuse' = 1 .. n + 1
      BY <2>1, <2>2, <2>3, <2>5
    <3> HIDE DEF n
    <3>3. \A k \in 1 .. n + 1 : stack'[k].idx = k
      BY <2>1, <2>3, <2>4, <2>5, <3>1
    <3> QED
      BY <1>0, <2>1, <2>5, <3>1, <3>2, <3>3 DEF StackInv
  <2>6. CASE ~(n < MaxBuf)
    <3>1. UNCHANGED stack /\ inuse' = inuse
      BY <1>0, <2>1, <2>2, <2>3, <2>6
    <3> QED
      BY <2>1, <3>1 DEF StackInv
  <2> QED
    BY <2>5, <2>6
<1>5. CASE StartReceive
  <2>1. phase = "send" /\ phase' = "receive" /\ UNCHANGED <<stack, inuse>> /\ pulled' = 0
    BY <1>5 DEF StartReceive, sendvars
  <2> QED
    BY <2>1 DEF StackInv
<1>6. CASE ReceiveFrame
  <2>1. /\ phase = "receive" /\ phase' = "receive" /\ UNCHANGED stack /\ pulled' = pulled + 1
        /\ pulled < Len(stack) /\ inuse' = inuse \ {stack[pulled + 1].idx}
    BY <1>6 DEF ReceiveFrame
  <2>2. /\ pulled \in 0 .. Len(stack) /\ Len(stack) \in 0 .. MaxBuf
        /\ inuse = pulled + 1 .. Len(stack)
        /\ \A k \in 1 .. Len(stack) : stack[k].idx = k
    BY <2>1 DEF StackInv
  <2>3. stack[pulled + 1].idx = pulled + 1
    BY <2>1, <2>2
  <2>4. pulled' \in 0 .. Len(stack') /\ inuse' = pulled' + 1 .. Len(stack')
    BY <1>0, <2>1, <2>2, <2>3
  <2> QED
    BY <2>1, <2>2, <2>4 DEF StackInv
<1>7. CASE EndReceive
  <2>1. /\ phase = "receive" /\ phase' = "done" /\ UNCHANGED <<stack, inuse, pulled>>
        /\ pulled = Len(stack)
    BY <1>7 DEF EndReceive, sendvars
  <2> QED
    BY <2>1 DEF StackInv
<1>8. CASE NextCycle
  <2>1. /\ phase = "done" /\ phase' = "ready" /\ stack' = <<>> /\ UNCHANGED inuse
    BY <1>8 DEF NextCycle
  <2>2. inuse = {} /\ Len(stack') = 0
    BY <1>0, <2>1 DEF StackInv
  <2> QED
    BY <1>0, <2>1, <2>2 DEF StackInv
<1> QED
  BY <1>1, <1>2, <1>3, <1>4, <1>5, <1>6, <1>7, <1>8
     DEF Next, Cycle, vars, sendvars, recvvars, StackStays

(* The frame that is sent.                                                 *)
LEMMA SentFrame ==
  ASSUME MapTypes, SizeInv, StatusInv, phase \in CyclePhases,
         NEW ps, SumInv(ps), JobsInv(ps), StackInv, FrameInv, SendSegment
  PROVE  /\ FrameInv'
         /\ \E e : /\ stack' = IF Len(stack) < MaxBuf THEN Append(stack, e) ELSE stack
                   /\ e.cmd = jobs[1].cmd /\ e.addr = jobs[1].addr
                   /\ e.length = Sublength(jobs[1])
<1> DEFINE j == jobs[1]
           e == [idx |-> GetIndex, cmd |-> j.cmd, addr |-> j.addr,
                 from |-> j.data, data |-> j.data + InputOffset,
                 length |-> Sublength(j), dc |-> first]
<1>1. JobOK(ps, j) /\ j = Head(jobs) /\ 1 \in 1 .. Len(jobs)
  BY SentJob
<1>2. /\ stack' = IF Len(stack) < MaxBuf THEN Append(stack, e) ELSE stack
      /\ phase = "send"
  BY <1>1 DEF SendSegment, PushIndex
<1>3. Sublength(j) \in Nat /\ Sublength(j) <= IOsegment[j.segment + 1]
  BY <1>1, SublengthFacts
<1>4. /\ j.cmd \in {"LRD", "LWR", "LRW"} /\ j.cmd \in Commands /\ j.addr \in Int /\ j.data \in Int
      /\ j.data = j.addr - LogStart /\ j.segment \in Nat /\ j.segment < Len(IOsegment)
  BY <1>1 DEF JobOK, JobRecords
<1>5. first \in BOOLEAN /\ (first => hasdc /\ (~blockLRW => j.segment = 0))
  BY <1>1, <1>2 DEF JobsInv
<1>6. e \in FrameRecords
  <2>1. GetIndex \in 1 .. MaxBuf
    <3>1. Len(stack) \in 0 .. MaxBuf /\ inuse = 1 .. Len(stack)
      BY <1>2 DEF StackInv
    <3> QED
      BY <3>1, GetIndexFacts, FirstMaxFacts
  <2>2. InputOffset \in Nat
    BY PlacedTypes DEF InputOffset
  <2>3. j.data + InputOffset \in Int
    BY <1>4, <2>2
  <2> HIDE DEF j
  <2> QED
    BY <1>3, <1>4, <1>5, <2>1, <2>3 DEF FrameRecords
<1>7. FrameOK(e)
  <2>1. Room => Sublength(j) <= Limit(j.segment + 1)
    <3>1. j.segment + 1 \in 1 .. Len(IOsegment) /\ IOsegment[j.segment + 1] \in Nat
      BY <1>4, SumsTypes DEF SumInv
    <3>2. Room => IOsegment[j.segment + 1] <= Limit(j.segment + 1)
      BY <3>1 DEF SizeInv
    <3>3. Limit(j.segment + 1) \in Nat
      BY FirstMaxFacts DEF Limit
    <3> HIDE DEF j
    <3> QED
      BY <1>3, <3>1, <3>2, <3>3
  <2>2. Limit(j.segment + 1) <= MaxLRWData /\ Limit(j.segment + 1) \in Nat /\ MaxLRWData \in Nat
    BY FirstMaxFacts DEF Limit
  <2>3. first /\ ~blockLRW => Limit(j.segment + 1) = FirstMax
    BY <1>5 DEF Limit
  <2>4. /\ e.cmd = j.cmd /\ e.from = j.data /\ e.addr = j.addr /\ e.data = j.data + InputOffset
        /\ e.dc = first /\ e.length = Sublength(j)
    OBVIOUS
  <2> HIDE DEF e, j
  <2>5. Room => e.length <= MaxLRWData
    BY <1>3, <2>1, <2>2, <2>4
  <2>6. Room /\ first /\ ~blockLRW => e.length <= FirstMax
    BY <1>3, <2>1, <2>3, <2>4
  <2>7. e.from = e.addr - LogStart /\ e.data = e.from + InputOffset
    BY <1>4, <2>4
  <2> QED
    BY <1>4, <1>5, <2>4, <2>5, <2>6, <2>7 DEF FrameOK
<1>8. e.cmd = j.cmd /\ e.addr = j.addr /\ e.length = Sublength(j)
  OBVIOUS
<1> HIDE DEF e
<1>9. FrameInv'
  <2>1. \A x : FrameOK(x)' <=> FrameOK(x)
    BY CycleKeeps DEF Cycle
  <2>2. stack \in Seq(FrameRecords) /\ \A k \in 1 .. Len(stack) : FrameOK(stack[k])
    BY DEF FrameInv
  <2>3. /\ stack' \in Seq(FrameRecords)
        /\ \A k \in 1 .. Len(stack') : FrameOK(stack'[k])
    <3>1. CASE Len(stack) < MaxBuf
      <4>1. /\ stack' \in Seq(FrameRecords) /\ Len(stack') = Len(stack) + 1
            /\ stack'[Len(stack) + 1] = e
            /\ \A k \in 1 .. Len(stack) : stack'[k] = stack[k]
        BY <1>2, <1>6, <2>2, <3>1
      <4> QED
        BY <1>7, <2>2, <4>1
    <3>2. CASE ~(Len(stack) < MaxBuf)
      BY <1>2, <2>2, <3>2
    <3> QED
      BY <3>1, <3>2
  <2> QED
    BY <2>1, <2>3 DEF FrameInv
<1> QED
  BY <1>2, <1>8, <1>9

(* The layout, and what the cycle does with it.                            *)
LayoutInv(ps) == MapTypes /\ SizeInv /\ PlacedInv /\ StatusInv /\ SumInv(ps)
CycleOf(ps) == StackInv /\ FrameInv /\ JobsInv(ps) /\ CoverInv /\ CopyInv
ImageInv == \E ps : LayoutInv(ps) /\ CycleOf(ps)

LEMMA LayoutStep ==
  ASSUME NEW ps, LayoutInv(ps), [Next]_vars
  PROVE  /\ \E qs : LayoutInv(qs)'
         /\ Cycle \/ UNCHANGED vars => LayoutInv(ps)'
<1>1. MapTypes' /\ SizeInv' /\ PlacedInv' /\ StatusInv'
  BY MapTypesStep, SizeStep, PlacedStep, StatusStep DEF LayoutInv
<1>2. \E qs : SumInv(qs)'
  BY SumStep DEF LayoutInv
<1>3. ASSUME Cycle \/ UNCHANGED vars PROVE SumInv(ps)'
  <2>1. UNCHANGED <<mode, IOsegment, segmentsize, segmentmaxsize, LogAddr, group>>
    BY <1>3, CycleKeepsLayout DEF layoutvars, busvars, placevars, vars, cutvars
  <2>2. phase' = phase \/ (phase \in CyclePhases /\ phase' \in CyclePhases)
    BY <1>3, CycleKeepsLayout DEF vars
  <2> QED
    BY <2>1, <2>2, SumsKept
       DEF LayoutInv, SumInv, LengthInv, InputsAt, DataLength, Room, CyclePhases, Passes
<1> QED
  BY <1>1, <1>2, <1>3 DEF LayoutInv

(* The mapping ends before the first cycle begins.                         *)
LEMMA MappingFacts ==
  ASSUME MapTypes, Mapping
  PROVE  /\ UNCHANGED <<sendvars, recvvars>>
         /\ phase \notin {"send", "receive", "done"}
         /\ phase' \notin {"send", "receive", "done"}
<1>1. UNCHANGED <<sendvars, recvvars>>
  BY DEF Mapping, MapOutputs, MapInputs, MapBoth, Split, EndSlave, EndOutputs, EndInputs,
         EndBoth, EndPass, MapMbxStatus, EndMbxStatus
<1>2. phase \notin {"send", "receive", "done"}
  BY DEF Mapping, MapOutputs, MapInputs, MapBoth, Split, EndSlave, EndOutputs, EndInputs,
         EndBoth, EndPass, MapMbxStatus, EndMbxStatus, MapTypes, Passes
<1>3. phase' \notin {"send", "receive", "done"}
  BY <1>2, AddingFacts
     DEF Mapping, Split, EndSlave, EndOutputs, EndInputs, EndBoth, EndPass, MapMbxStatus,
         EndMbxStatus
<1> QED
  BY <1>1, <1>2, <1>3

(* A step of the mapping leaves the rest of the invariant as it is.        *)
LEMMA MappingCycle ==
  ASSUME MapTypes, NEW ps, CycleOf(ps), Mapping, NEW qs
  PROVE  CycleOf(qs)'
<1>1. /\ UNCHANGED <<jobs, first, stack, inuse, pulled, copied, lost>>
      /\ phase \notin {"send", "receive", "done"}
      /\ phase' \notin {"send", "receive", "done"}
  BY MappingFacts DEF sendvars, recvvars
<1>2. stack = <<>> /\ stack' = <<>>
  BY <1>1 DEF CycleOf, StackInv
<1>3. StackInv'
  BY StackStep DEF CycleOf, Next
<1>4. FrameInv'
  <2>1. <<>> \in Seq(FrameRecords) /\ Len(<<>>) = 0
    OBVIOUS
  <2>2. stack' \in Seq(FrameRecords) /\ 1 .. Len(stack') = {}
    BY <1>2, <2>1
  <2> QED
    BY <2>2 DEF FrameInv
<1> QED
  BY <1>1, <1>3, <1>4 DEF CycleOf, JobsInv, CoverInv, CopyInv

LEMMA StutterCycle ==
  ASSUME NEW ps, CycleOf(ps), UNCHANGED vars
  PROVE  CycleOf(ps)'
<1>1. UNCHANGED <<bus, mode, blockLRW, hasdc, phase, IOsegment, LogAddr, group, jobs, first,
                  stack, inuse, pulled, copied, lost>>
  BY DEF vars, busvars, cutvars, placevars, sendvars, recvvars
<1>2. StackInv'
  BY <1>1 DEF CycleOf, StackInv
<1>3. FrameInv'
  BY <1>1 DEF CycleOf, FrameInv, FrameOK, Commands, Room, InputOffset
<1>4. JobsInv(ps)'
  BY <1>1 DEF CycleOf, JobsInv, JobOK, Commands, Finish, ImageLength, MbxLength, HasMbx
<1>5. CoverInv'
  BY <1>1 DEF CycleOf, CoverInv, Commands, Travels, Begin, Target, DataLength, Sent, Ahead,
              AllSent, Covers
<1>6. CopyInv'
  BY <1>1 DEF CycleOf, CopyInv, CopyOf
<1> QED
  BY <1>2, <1>3, <1>4, <1>5, <1>6 DEF CycleOf

(* Beginning a cycle.                                                      *)
LEMMA StartCycleKeeps ==
  ASSUME NEW ps, LayoutInv(ps), CycleOf(ps), StartCycle
  PROVE  CycleOf(ps)'
<1>1. /\ phase = "ready" /\ phase' = "send" /\ jobs' = Jobs /\ first' = hasdc
      /\ copied' = {} /\ lost' = FALSE /\ UNCHANGED stack
  BY DEF StartCycle
<1>2. Cycle
  BY DEF Cycle
<1>3. /\ Jobs \in Seq(JobRecords)
      /\ \A k \in 1 .. Len(Jobs) : JobOK(ps, Jobs[k])
      /\ ~blockLRW => \A k \in 1 .. Len(Jobs) : Jobs[k].segment = 0
      /\ \A cmd \in Commands, b \in Int :
           Travels(cmd, b) =>
             \E k \in 1 .. Len(Jobs) : Jobs[k].cmd = cmd /\ Jobs[k].addr <= b
  BY <1>1, JobsFacts DEF LayoutInv
<1>4. StackInv'
  BY <1>2, StackStep DEF CycleOf, LayoutInv, Next
<1>5. FrameInv'
  BY <1>1, <1>2, CycleKeeps DEF CycleOf, FrameInv
<1>6. JobsInv(ps)'
  <2>1. UNCHANGED <<blockLRW, hasdc>> /\ hasdc \in BOOLEAN
    BY <1>2, CycleKeepsLayout DEF layoutvars, busvars, LayoutInv, MapTypes
  <2> QED
    BY <1>1, <1>2, <1>3, <2>1, CycleKeeps DEF JobsInv
<1>7. CoverInv'
  <2>1. \A cmd \in Commands, b \in Int : Travels(cmd, b) => Ahead(cmd, b)'
    BY <1>1, <1>3 DEF Ahead
  <2> QED
    BY <1>1, <1>2, <2>1, CycleKeeps DEF CoverInv
<1>8. CopyInv'
  BY <1>1 DEF CopyInv
<1> QED
  BY <1>4, <1>5, <1>6, <1>7, <1>8 DEF CycleOf

(* Sending a segment.                                                      *)
LEMMA SendSegmentKeeps ==
  ASSUME NEW ps, LayoutInv(ps), CycleOf(ps), SendSegment
  PROVE  CycleOf(ps)'
<1> DEFINE j == jobs[1]
           n == Len(stack)
<1>0. Cycle /\ phase = "send" /\ phase' = "send" /\ first' = FALSE /\ UNCHANGED <<copied, lost>>
  BY DEF Cycle, SendSegment, recvvars
<1>1. /\ JobOK(ps, j) /\ jobs' \in Seq(JobRecords)
      /\ \A k \in 1 .. Len(jobs') : JobOK(ps, jobs'[k])
      /\ \A cmd \in Commands, b \in Int :
           Ahead(cmd, b) /\ Travels(cmd, b) =>
             \/ cmd = j.cmd /\ j.addr <= b /\ b < j.addr + Sublength(j)
             \/ Ahead(cmd, b)'
  BY <1>0, SentJob DEF LayoutInv, CycleOf, CyclePhases
<1>2. /\ FrameInv'
      /\ \E e : /\ stack' = IF n < MaxBuf THEN Append(stack, e) ELSE stack
                /\ e.cmd = j.cmd /\ e.addr = j.addr /\ e.length = Sublength(j)
  BY <1>0, SentFrame DEF LayoutInv, CycleOf, CyclePhases
<1>3. StackInv'
  BY <1>0, StackStep DEF CycleOf, LayoutInv, Next
<1>4. JobsInv(ps)'
  BY <1>0, <1>1, CycleKeeps DEF JobsInv
<1>5. CopyInv'
  BY <1>0 DEF CycleOf, CopyInv
<1>6. CoverInv'
  <2> SUFFICES ASSUME AllSent', NEW cmd \in Commands, NEW b \in Int, Travels(cmd, b)
               PROVE  Sent(cmd, b)' \/ Ahead(cmd, b)'
    BY <1>0, CycleKeeps DEF CoverInv
  <2>1. PICK e : /\ stack' = IF n < MaxBuf THEN Append(stack, e) ELSE stack
                 /\ e.cmd = j.cmd /\ e.addr = j.addr /\ e.length = Sublength(j)
    BY <1>2
  <2>2. n \in 0 .. MaxBuf /\ stack \in Seq(FrameRecords) /\ MaxBuf \in Nat
    BY FirstMaxFacts DEF CycleOf, StackInv, FrameInv
  <2>3. n < MaxBuf
    BY <2>1, <2>2 DEF AllSent
  <2>4. stack' = Append(stack, e)
    BY <2>1, <2>3
  <2>5. /\ Len(stack') = n + 1 /\ stack'[n + 1] = e
        /\ \A k \in 1 .. n : stack'[k] = stack[k]
    BY <2>2, <2>4
  <2>6. AllSent
    BY <2>3 DEF AllSent
  <2> HIDE DEF n, j
  <2>7. CASE Sent(cmd, b)
    <3>1. PICK k \in 1 .. n : stack[k].cmd = cmd /\ Covers(stack[k], b)
      BY <2>7 DEF Sent, n
    <3>2. k \in 1 .. Len(stack') /\ stack'[k] = stack[k]
      BY <2>2, <2>5
    <3> QED
      BY <3>1, <3>2 DEF Sent, Covers
  <2>8. CASE cmd = j.cmd /\ j.addr <= b /\ b < j.addr + Sublength(j)
    <3>1. stack'[n + 1].cmd = cmd /\ Covers(stack'[n + 1], b)
      BY <2>1, <2>5, <2>8 DEF Covers
    <3>2. n + 1 \in 1 .. Len(stack')
      BY <2>2, <2>5
    <3> QED
      BY <3>1, <3>2 DEF Sent, Covers
  <2>9. Sent(cmd, b) \/ Ahead(cmd, b)
    BY <1>0, <2>6 DEF CycleOf, CoverInv
  <2> QED
    BY <1>1, <2>7, <2>8, <2>9
<1> QED
  BY <1>2, <1>3, <1>4, <1>5, <1>6 DEF CycleOf

(* Receiving.                                                              *)
LEMMA ReceiveKeeps ==
  ASSUME NEW ps, LayoutInv(ps), CycleOf(ps), StartReceive \/ ReceiveFrame \/ EndReceive
  PROVE  CycleOf(ps)'
<1>0. /\ Cycle /\ UNCHANGED <<jobs, first, stack>> /\ phase' \in {"receive", "done"}
      /\ phase \in {"send", "receive"} /\ (phase = "send" => jobs = <<>>)
  BY DEF Cycle, StartReceive, ReceiveFrame, EndReceive, sendvars
<1>1. StackInv'
  BY <1>0, StackStep DEF CycleOf, LayoutInv, Next
<1>2. FrameInv'
  BY <1>0, CycleKeeps DEF CycleOf, FrameInv
<1>3. JobsInv(ps)'
  BY <1>0 DEF CycleOf, JobsInv
<1>4. CoverInv'
  <2> SUFFICES ASSUME AllSent, NEW cmd \in Commands, NEW b \in Int, Travels(cmd, b)
               PROVE  Sent(cmd, b)
    BY <1>0, CycleKeeps DEF CoverInv, AllSent, Sent, Covers
  <2>1. phase = "send" => ~Ahead(cmd, b)
    BY <1>0 DEF Ahead
  <2> QED
    BY <1>0, <2>1 DEF CycleOf, CoverInv
<1>5. CopyInv'
  <2>1. CASE StartReceive
    <3>1. /\ phase = "send" /\ phase' = "receive" /\ pulled' = 0 /\ UNCHANGED <<copied, lost>>
      BY <2>1 DEF StartReceive
    <3> QED
      BY <3>1 DEF CycleOf, CopyInv
  <2>2. CASE EndReceive
    <3>1. /\ phase = "receive" /\ phase' = "done" /\ UNCHANGED <<stack, pulled, copied, lost>>
      BY <2>2 DEF EndReceive, sendvars
    <3> QED
      BY <3>1 DEF CycleOf, CopyInv, CopyOf
  <2>3. CASE ReceiveFrame
    <3> DEFINE e == stack[pulled + 1]
    <3>1. /\ phase = "receive" /\ phase' = "receive" /\ pulled' = pulled + 1
          /\ \/ /\ copied' = IF e.cmd = "LWR" THEN copied ELSE copied \cup {CopyOf(e)}
                /\ UNCHANGED lost
             \/ lost' = (lost \/ e.length > 0) /\ UNCHANGED copied
      BY <2>3 DEF ReceiveFrame, CopyOf
    <3>2. /\ pulled \in Nat /\ lost \in BOOLEAN
          /\ \A c \in copied : \E k \in 1 .. pulled : c = CopyOf(stack[k])
          /\ lost = FALSE =>
               \A k \in 1 .. pulled :
                 stack[k].cmd # "LWR" /\ stack[k].length > 0 => CopyOf(stack[k]) \in copied
      BY <3>1 DEF CycleOf, CopyInv, StackInv
    <3>3. \A k : k \in 1 .. pulled + 1 <=> k \in 1 .. pulled \/ k = pulled + 1
      BY <3>2
    <3> HIDE DEF e
    <3>4. \A c \in copied' : \E k \in 1 .. pulled + 1 : c = CopyOf(stack[k])
      <4> TAKE c \in copied'
      <4>1. c \in copied \/ c = CopyOf(e)
        BY <3>1
      <4> QED
        BY <3>2, <3>3, <4>1 DEF e
    <3>5. lost' \in BOOLEAN
      BY <3>1, <3>2
    <3>6. lost' = FALSE =>
            \A k \in 1 .. pulled + 1 :
              stack[k].cmd # "LWR" /\ stack[k].length > 0 => CopyOf(stack[k]) \in copied'
      <4> SUFFICES ASSUME lost' = FALSE, NEW k \in 1 .. pulled + 1,
                          stack[k].cmd # "LWR", stack[k].length > 0
                   PROVE  CopyOf(stack[k]) \in copied'
        OBVIOUS
      <4>1. lost = FALSE /\ copied \subseteq copied'
        BY <3>1, <3>2
      <4>2. CASE k \in 1 .. pulled
        BY <3>2, <4>1, <4>2
      <4>3. CASE k = pulled + 1
        <5>1. e = stack[k] /\ e.length > 0 /\ e.cmd # "LWR"
          BY <4>3 DEF e
        <5> QED
          BY <3>1, <5>1
      <4> QED
        BY <3>3, <4>2, <4>3
    <3> QED
      BY <1>0, <3>1, <3>4, <3>5, <3>6 DEF CopyInv, CopyOf
  <2> QED
    BY <2>1, <2>2, <2>3
<1> QED
  BY <1>1, <1>2, <1>3, <1>4, <1>5 DEF CycleOf

LEMMA NextCycleKeeps ==
  ASSUME NEW ps, LayoutInv(ps), CycleOf(ps), NextCycle
  PROVE  CycleOf(ps)'
<1>0. /\ Cycle /\ phase' = "ready" /\ stack' = <<>> /\ UNCHANGED <<first, lost>>
  BY DEF Cycle, NextCycle
<1>1. StackInv'
  BY <1>0, StackStep DEF CycleOf, LayoutInv, Next
<1>2. FrameInv'
  <2>1. <<>> \in Seq(FrameRecords) /\ Len(<<>>) = 0
    OBVIOUS
  <2>2. stack' \in Seq(FrameRecords) /\ 1 .. Len(stack') = {}
    BY <1>0, <2>1
  <2> QED
    BY <2>2 DEF FrameInv
<1> QED
  BY <1>0, <1>1, <1>2 DEF CycleOf, JobsInv, CoverInv, CopyInv

LEMMA InitLayout ==
  ASSUME Init
  PROVE  LayoutInv([k \in Nat |-> 0])
<1>1. MapTypes
  <2>1. \A s \in Slaves : bus[s] \in [O : Nat, I : Nat, mbx : BOOLEAN]
    BY SizesAssumption, ModesAssumption DEF Init
  <2>2. bus \in [Slaves -> [O : Nat, I : Nat, mbx : BOOLEAN]]
    BY <2>1 DEF Init
  <2>3. /\ mode \in {"plain", "packed", "overlap"}
        /\ blockLRW \in BOOLEAN /\ hasdc \in BOOLEAN
        /\ mode = "overlap" => ~blockLRW
        /\ phase = IF mode = "overlap" THEN "both" ELSE "out"
    BY ModesAssumption DEF Init
  <2>4. /\ outputs \in [Slaves -> Regions] /\ inputs \in [Slaves -> Regions]
        /\ mbxstatus \in [Slaves -> Regions]
    BY DEF Init, Nowhere, Regions
  <2>5. /\ slave \in 1 .. NSlaves + 1 /\ cutting = FALSE
        /\ LogAddr \in Nat /\ LogStart <= LogAddr /\ BitPos = 0
        /\ segmentsize \in Nat
    BY SizesAssumption DEF Init
  <2>6. IOsegment \in Seq(Nat) /\ segmentmaxsize \in {FirstMax, MaxLRWData}
    BY DEF Init
  <2>7. group \in [Obytes : Nat, Ibytes : Nat, Isegment : Nat, Ioffset : Nat]
    BY DEF Init
  <2> QED
    <3>1. /\ phase \in Passes \cup {"mbx"} \cup CyclePhases
          /\ phase \in {"out", "in"} => mode # "overlap"
          /\ phase = "both" => mode = "overlap"
      BY <2>3 DEF Passes
    <3>2. cutting \in BOOLEAN /\ (cutting => phase \in Passes /\ slave \in Slaves)
      BY <2>5
    <3>3. BitPos \in 0 .. 7 /\ (phase \notin {"out", "in"} => BitPos = 0)
      BY <2>5
    <3> QED
      BY <2>2, <2>3, <2>4, <2>5, <2>6, <2>7, <3>1, <3>2, <3>3 DEF MapTypes
<1>2. /\ phase \in {"out", "both"} /\ Len(IOsegment) = 0 /\ segmentsize = 0
      /\ segmentmaxsize = FirstMax /\ LogAddr = LogStart /\ group.Obytes = 0 /\ group.Ibytes = 0
      /\ BitPos = 0
      /\ \A s \in Slaves : outputs[s].len = 0 /\ inputs[s].len = 0 /\ mbxstatus[s].len = 0
  BY DEF Init, Nowhere
<1>3. SizeInv
  BY <1>2, FirstMaxFacts DEF SizeInv, Limit, Passes
<1>4. PlacedInv
  BY <1>2, StartNat DEF PlacedInv, Within, DataLength, Passes
<1>5. StatusInv
  BY <1>2 DEF StatusInv, Passes, CyclePhases
<1>6. SumInv([k \in Nat |-> 0])
  <2> DEFINE ps == [k \in Nat |-> 0]
  <2>1. ps \in [Nat -> Nat] /\ ps[0] = 0
    OBVIOUS
  <2> HIDE DEF ps
  <2>2. Sums(ps)
    BY <1>2, <2>1 DEF Sums
  <2>3. LengthInv(ps)
    BY <1>2, <2>1, StartNat DEF LengthInv, Passes, CyclePhases
  <2>4. InputsAt(ps)
    BY <1>2 DEF InputsAt
  <2> QED
    BY <2>2, <2>3, <2>4 DEF SumInv, ps
<1> QED
  BY <1>1, <1>3, <1>4, <1>5, <1>6 DEF LayoutInv

LEMMA ImageInvHolds == Spec => []ImageInv
<1>1. Init => ImageInv
  <2> SUFFICES ASSUME Init PROVE ImageInv
    OBVIOUS
  <2> DEFINE ps == [k \in Nat |-> 0]
  <2>1. LayoutInv(ps)
    BY InitLayout
  <2> HIDE DEF ps
  <2>2. /\ phase \in {"out", "both"} /\ stack = <<>> /\ inuse = {} /\ pulled = 0
        /\ first = FALSE /\ lost = FALSE
    BY DEF Init
  <2>3. StackInv
    BY <2>2, FirstMaxFacts DEF StackInv
  <2>4. FrameInv
    BY <2>2 DEF FrameInv
  <2>5. CycleOf(ps)
    BY <2>2, <2>3, <2>4 DEF CycleOf, JobsInv, CoverInv, CopyInv
  <2> QED
    BY <2>1, <2>5 DEF ImageInv
<1>2. ImageInv /\ [Next]_vars => ImageInv'
  <2> SUFFICES ASSUME ImageInv, [Next]_vars PROVE ImageInv'
    OBVIOUS
  <2>1. PICK ps : LayoutInv(ps) /\ CycleOf(ps)
    BY DEF ImageInv
  <2>2. CASE Mapping
    <3>1. PICK qs : LayoutInv(qs)'
      BY <2>1, LayoutStep
    <3>2. CycleOf(qs)'
      BY <2>1, <2>2, MappingCycle DEF LayoutInv
    <3> QED
      BY <3>1, <3>2 DEF ImageInv
  <2>3. CASE Cycle \/ UNCHANGED vars
    <3>1. LayoutInv(ps)'
      BY <2>1, <2>3, LayoutStep
    <3>2. CycleOf(ps)'
      BY <2>1, <2>3, StutterCycle, StartCycleKeeps, SendSegmentKeeps, ReceiveKeeps,
         NextCycleKeeps DEF Cycle
    <3> QED
      BY <3>1, <3>2 DEF ImageInv
  <2> QED
    BY <2>2, <2>3 DEF Next
<1> QED
  BY <1>1, <1>2, PTL DEF Spec

-----------------------------------------------------------------------------
(* Theorems. *)

(* FrameFits for any number of slaves of any size: no datagram is longer   *)
(* than a frame holds, next to the clock datagram in the first.            *)
THEOREM FramesFit == Spec => []FrameFits
<1>1. ImageInv => FrameFits
  <2> SUFFICES ASSUME ImageInv, NEW e \in Frames, ~blockLRW \/ ~hasdc,
                      Len(IOsegment) < MaxSegments
               PROVE  e.length + (IF e.dc THEN FirstDC ELSE 0) <= MaxLRWData
    BY DEF FrameFits
  <2>1. e \in FrameRecords /\ FrameOK(e)
    BY DEF ImageInv, CycleOf, FrameInv, Frames
  <2>2. e.length \in Nat /\ e.dc \in BOOLEAN
    BY <2>1 DEF FrameRecords
  <2>3. FirstDC \in Nat /\ MaxLRWData \in Nat /\ FirstMax = MaxLRWData - FirstDC
    BY SizesAssumption DEF FirstMax
  <2>4. CASE e.dc
    <3>1. e.length <= FirstMax
      BY <2>1, <2>4 DEF FrameOK, Room
    <3> QED
      BY <2>2, <2>3, <2>4, <3>1
  <2>5. CASE ~e.dc
    <3>1. e.length <= MaxLRWData
      BY <2>1 DEF FrameOK, Room
    <3> QED
      BY <2>2, <2>3, <2>5, <3>1
  <2> QED
    BY <2>4, <2>5
<1> QED
  BY <1>1, ImageInvHolds, PTL

(* IndicesReturned: ecx_receive_processdata gives all indices back, however *)
(* many frames were lost.                                                  *)
THEOREM IndicesAreReturned == Spec => []IndicesReturned
<1>1. ImageInv => IndicesReturned
  <2> SUFFICES ASSUME ImageInv, phase = "done" PROVE inuse = {}
    BY DEF IndicesReturned
  <2>1. StackInv
    BY DEF ImageInv, CycleOf
  <2>2. Len(stack) \in Nat /\ inuse = Len(stack) + 1 .. Len(stack)
    BY <2>1, FirstMaxFacts DEF StackInv
  <2> QED
    BY <2>2
<1> QED
  BY <1>1, ImageInvHolds, PTL

(* The bytes of a slave are among those that travel.                       *)
LEMMA OutputsTravel ==
  ASSUME MapTypes, PlacedInv, StatusInv, phase \in CyclePhases,
         NEW s \in Slaves, NEW b \in AddressesOf(outputs[s])
  PROVE  /\ b \in Int
         /\ \E cmd \in Commands : cmd # "LRD" /\ Travels(cmd, b)
<1>1. /\ outputs[s].start \in Nat /\ outputs[s].len \in Nat /\ group.Obytes \in Nat
      /\ DataLength \in Nat /\ DataLength >= group.Obytes
  BY PlacedTypes, ImageFacts
<1>2. b \in Int /\ outputs[s].start <= b /\ b < outputs[s].start + outputs[s].len
  BY <1>1 DEF AddressesOf
<1>3. Within(outputs[s], LogStart, LogStart + group.Obytes)
  BY DEF PlacedInv, CyclePhases
<1>4. LogStart <= b /\ b < LogStart + group.Obytes
  BY <1>1, <1>2, <1>3, StartNat DEF Within
<1>5. CASE blockLRW
  <2>1. "LWR" \in Commands /\ Travels("LWR", b)
    BY <1>4, <1>5 DEF Commands, Travels, Begin, Target
  <2> QED
    BY <1>2, <2>1
<1>6. CASE ~blockLRW
  <2>1. "LRW" \in Commands /\ Travels("LRW", b)
    BY <1>1, <1>2, <1>4, <1>6, StartNat DEF Commands, Travels, Begin, Target
  <2> QED
    BY <1>2, <2>1
<1> QED
  BY <1>5, <1>6

LEMMA InputsTravel ==
  ASSUME MapTypes, PlacedInv, StatusInv, phase \in CyclePhases,
         NEW s \in Slaves, NEW b \in AddressesOf(inputs[s])
  PROVE  /\ b \in Int
         /\ \E cmd \in Commands : cmd # "LWR" /\ Travels(cmd, b)
<1>1. /\ inputs[s].start \in Nat /\ inputs[s].len \in Nat
      /\ group.Obytes \in Nat /\ group.Ibytes \in Nat
      /\ DataLength \in Nat /\ DataLength >= group.Ibytes
      /\ mode # "overlap" => DataLength = group.Obytes + group.Ibytes
  BY PlacedTypes, ImageFacts
<1>2. b \in Int /\ inputs[s].start <= b /\ b < inputs[s].start + inputs[s].len
  BY <1>1 DEF AddressesOf
<1>3. Within(inputs[s], InputStart, InputStart + group.Ibytes)
  BY DEF PlacedInv, CyclePhases
<1>4. InputStart <= b /\ b < InputStart + group.Ibytes
  <2>1. InputStart \in Nat
    BY <1>1, StartNat DEF InputStart
  <2> QED
    BY <1>1, <1>2, <1>3, <2>1 DEF Within
<1>5. CASE blockLRW
  <2>1. InputStart = LogStart + group.Obytes
    BY <1>5 DEF InputStart, MapTypes
  <2>2. "LRD" \in Commands /\ Travels("LRD", b)
    BY <1>4, <1>5, <2>1 DEF Commands, Travels, Begin, Target
  <2> QED
    BY <1>2, <2>2
<1>6. CASE ~blockLRW
  <2>1. LogStart <= b /\ b < LogStart + DataLength
    BY <1>1, <1>2, <1>4, StartNat DEF InputStart
  <2>2. "LRW" \in Commands /\ Travels("LRW", b)
    BY <1>6, <2>1 DEF Commands, Travels, Begin, Target
  <2> QED
    BY <1>2, <2>2
<1> QED
  BY <1>5, <1>6

(* What an answer stores, it stores at the place of its address.           *)
LEMMA CopiedFacts ==
  ASSUME NEW ps, LayoutInv(ps), CycleOf(ps), phase \in {"receive", "done"}, NEW c \in copied
  PROVE  /\ c.addr \in Int /\ c.length \in Nat
         /\ \A b \in Int : Stored(c, b) = b - LogStart + InputOffset
<1>1. PICK k \in 1 .. pulled : c = CopyOf(stack[k])
  BY DEF CycleOf, CopyInv
<1>2. k \in 1 .. Len(stack) /\ stack \in Seq(FrameRecords)
  BY FirstMaxFacts DEF CycleOf, StackInv, FrameInv
<1>3. stack[k] \in FrameRecords /\ FrameOK(stack[k])
  BY <1>2 DEF CycleOf, FrameInv
<1>4. /\ c.addr = stack[k].addr /\ c.data = stack[k].data /\ c.length = stack[k].length
      /\ c.addr \in Int /\ c.length \in Nat
  BY <1>1, <1>3 DEF CopyOf, FrameRecords
<1>5. InputOffset \in Nat
  BY PlacedTypes DEF LayoutInv, InputOffset
<1>6. c.data = c.addr - LogStart + InputOffset
  BY <1>3, <1>4 DEF FrameOK
<1> QED
  BY <1>4, <1>5, <1>6, StartNat DEF Stored

(* DataAtHome for any bus and any cut of its image: the outputs of all     *)
(* slaves are in the frames, taken from their places in the IO map, inputs *)
(* and mailbox states that were read are in theirs, and nothing else is.   *)
THEOREM DataComesHome == Spec => []DataAtHome
<1>1. ImageInv => SentFromHome
  <2> SUFFICES ASSUME ImageInv, phase = "receive", AllSent, NEW s \in Slaves,
                      NEW b \in AddressesOf(outputs[s])
               PROVE  \E e \in Frames : /\ e.cmd # "LRD" /\ Covers(e, b)
                                        /\ e.from + b - e.addr = b - LogStart
    BY DEF SentFromHome
  <2>1. PICK ps : LayoutInv(ps) /\ CycleOf(ps)
    BY DEF ImageInv
  <2>2. b \in Int /\ \E cmd \in Commands : cmd # "LRD" /\ Travels(cmd, b)
    BY <2>1, OutputsTravel DEF LayoutInv, CyclePhases
  <2>3. PICK k \in 1 .. Len(stack) : stack[k].cmd # "LRD" /\ Covers(stack[k], b)
    BY <2>1, <2>2 DEF CycleOf, CoverInv, Sent
  <2>4. stack[k] \in FrameRecords /\ FrameOK(stack[k]) /\ stack[k] \in Frames
    BY <2>1 DEF CycleOf, FrameInv, Frames
  <2>5. stack[k].addr \in Int /\ stack[k].from = stack[k].addr - LogStart
    BY <2>4 DEF FrameRecords, FrameOK
  <2>6. stack[k].from + b - stack[k].addr = b - LogStart
    BY <2>2, <2>5, StartNat
  <2> QED
    BY <2>3, <2>4, <2>6
<1>2. ImageInv => StoredAtHome
  <2> SUFFICES ASSUME ImageInv, phase = "done", AllSent, NEW s \in Slaves
               PROVE
                 /\ \A b \in AddressesOf(inputs[s]) :
                      LET home == b - LogStart
                                    + (IF mode = "overlap" THEN group.Obytes ELSE 0) IN
                      /\ ~lost => \E c \in copied : Covers(c, b) /\ Stored(c, b) = home
                      /\ \A c \in copied, a \in LogStart .. LogAddr - 1 :
                           Covers(c, a) /\ Stored(c, a) = home => a = b
                 /\ (mode = "overlap" => group.Obytes <= group.Ibytes) =>
                      \A b \in AddressesOf(mbxstatus[s]), c \in copied :
                        Covers(c, b) => Stored(c, b) = StatusOffset(s)
    BY DEF StoredAtHome
  <2>1. PICK ps : LayoutInv(ps) /\ CycleOf(ps)
    BY DEF ImageInv
  <2>2. /\ InputOffset = (IF mode = "overlap" THEN group.Obytes ELSE 0)
        /\ InputOffset \in Nat /\ LogAddr \in Nat
    BY <2>1, PlacedTypes DEF LayoutInv, InputOffset
  <2>3. ASSUME NEW b \in AddressesOf(inputs[s])
        PROVE  /\ ~lost => \E c \in copied :
                             Covers(c, b) /\ Stored(c, b) = b - LogStart + InputOffset
               /\ \A c \in copied, a \in LogStart .. LogAddr - 1 :
                    Covers(c, a) /\ Stored(c, a) = b - LogStart + InputOffset => a = b
    <3>1. b \in Int /\ \E cmd \in Commands : cmd # "LWR" /\ Travels(cmd, b)
      BY <2>1, InputsTravel DEF LayoutInv, CyclePhases
    <3>2. ASSUME ~lost
          PROVE  \E c \in copied : Covers(c, b) /\ Stored(c, b) = b - LogStart + InputOffset
      <4>1. PICK k \in 1 .. Len(stack) : stack[k].cmd # "LWR" /\ Covers(stack[k], b)
        BY <2>1, <3>1 DEF CycleOf, CoverInv, Sent
      <4>2. stack[k] \in FrameRecords
        BY <2>1 DEF CycleOf, FrameInv
      <4>3. stack[k].length > 0
        <5>1. stack[k].addr \in Int /\ stack[k].length \in Nat
          BY <4>2 DEF FrameRecords
        <5> QED
          BY <3>1, <4>1, <5>1 DEF Covers
      <4>4. pulled = Len(stack) /\ lost = FALSE
        BY <2>1, <3>2 DEF CycleOf, StackInv, CopyInv
      <4>5. CopyOf(stack[k]) \in copied
        BY <2>1, <4>1, <4>3, <4>4 DEF CycleOf, CopyInv
      <4>6. Covers(CopyOf(stack[k]), b)
        BY <4>1 DEF Covers, CopyOf
      <4>7. Stored(CopyOf(stack[k]), b) = b - LogStart + InputOffset
        BY <2>1, <3>1, <4>5, CopiedFacts
      <4> QED
        BY <4>5, <4>6, <4>7
    <3>3. ASSUME NEW c \in copied, NEW a \in LogStart .. LogAddr - 1,
                 Stored(c, a) = b - LogStart + InputOffset
          PROVE  a = b
      <4>1. a \in Int
        BY <2>2, StartNat
      <4>2. Stored(c, a) = a - LogStart + InputOffset
        BY <2>1, <4>1, CopiedFacts
      <4> QED
        BY <2>2, <3>1, <3>3, <4>1, <4>2, StartNat
    <3> QED
      BY <3>2, <3>3
  <2>4. ASSUME mode = "overlap" => group.Obytes <= group.Ibytes,
               NEW b \in AddressesOf(mbxstatus[s]), NEW c \in copied
        PROVE  Stored(c, b) = StatusOffset(s)
    <3>1. /\ mbxstatus[s] \in Regions /\ group.Obytes \in Nat /\ group.Ibytes \in Nat
          /\ DataLength \in Nat
      BY <2>1, PlacedTypes, ImageFacts DEF LayoutInv, MapTypes, CyclePhases
    <3>2. mbxstatus[s].len > 0
      BY <2>4, <3>1 DEF AddressesOf, Regions
    <3>3. mbxstatus[s] = [start |-> LogStart + DataLength + Cardinality(Before(s)), len |-> 1]
      BY <2>1, <3>2 DEF LayoutInv, StatusInv, Passes
    <3>4. Cardinality(Before(s)) \in Nat
      BY BeforeFacts, SizesAssumption DEF Slaves
    <3>5. b = LogStart + DataLength + Cardinality(Before(s))
      <4>1. mbxstatus[s].start = LogStart + DataLength + Cardinality(Before(s)) /\ mbxstatus[s].len = 1
        BY <3>3
      <4> QED
        BY <2>4, <3>1, <3>4, <4>1, StartNat DEF AddressesOf
    <3>6. b \in Int
      BY <3>1, <3>4, <3>5, StartNat
    <3>7. Stored(c, b) = b - LogStart + InputOffset
      BY <2>1, <3>6, CopiedFacts
    <3>8. DataLength + InputOffset = group.Obytes + group.Ibytes
      BY <2>2, <2>4, <3>1 DEF DataLength
    <3>9. StatusOffset(s) = group.Obytes + group.Ibytes + Cardinality(Before(s))
      BY DEF StatusOffset, Before
    <3> QED
      BY <2>2, <3>1, <3>4, <3>5, <3>7, <3>8, <3>9, StartNat
  <2> QED
    BY <2>2, <2>3, <2>4
<1> QED
  BY <1>1, <1>2, ImageInvHolds, PTL DEF DataAtHome
=============================================================================
