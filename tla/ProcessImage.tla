---------------------------- MODULE ProcessImage ----------------------------
(* The process image of a group of slaves.  ecx_config_map_group lays it    *)
(* out, cuts it into segments and computes the working counter to expect;   *)
(* ecx_send_processdata and ecx_receive_processdata then exchange it with   *)
(* one datagram per segment in every cycle.                                 *)
EXTENDS Integers, Sequences, FiniteSets, FiniteSetsExt

CONSTANTS NSlaves,
          OutBits, InBits,     \* sizes in bits a slave may have
          Mailboxes,           \* may a slave have a mailbox
          Modes,               \* of "plain", "packed", "overlap"
          Blocks, Clocks,      \* values of blockLRW and of hasdc
          MaxLRWData,          \* EC_MAXLRWDATA
          FirstDC,             \* EC_FIRSTDCDATAGRAM
          MaxSegments,         \* EC_MAXIOSEGMENTS
          MaxBuf,              \* EC_MAXBUF
          LogStart             \* logstartaddr of the group

ASSUME SizesAssumption ==
  /\ NSlaves \in Nat /\ MaxSegments \in Nat \ {0} /\ MaxBuf \in Nat \ {0}
  /\ OutBits \subseteq Nat /\ InBits \subseteq Nat
  /\ FirstDC \in Nat /\ MaxLRWData \in Nat /\ FirstDC < MaxLRWData
  /\ LogStart \in Nat
ASSUME ModesAssumption ==
  /\ Modes \subseteq {"plain", "packed", "overlap"}
  /\ Mailboxes \subseteq BOOLEAN /\ Blocks \subseteq BOOLEAN /\ Clocks \subseteq BOOLEAN

Slaves == 1 .. NSlaves
FirstMax == MaxLRWData - FirstDC
NOFRAME == -1

VARIABLES
  bus, mode, blockLRW, hasdc,          \* what is connected and configured
  phase, slave, cutting,               \* pass over the slaves
  LogAddr, BitPos,
  IOsegment,                           \* segments closed so far
  segmentsize, segmentmaxsize,
  left,                                \* per direction, bytes of the slave
  outputsWKC, inputsWKC,               \*   whose segment is not yet counted
  outputs, inputs, mbxstatus,          \* per slave: its place in the image
  group,                               \* Obytes, Ibytes, Isegment, Ioffset ...
  jobs, first,                         \* what ecx_send_processdata has to do
  stack, pulled, inuse,                \* index stack, indices of the port
  part,                                \* per slave: how it takes part
  copied,                              \* what the answers wrote to the image
  wkc, validwkc, lost

busvars == <<bus, mode, blockLRW, hasdc>>
cutvars == <<cutting, IOsegment, segmentsize, segmentmaxsize, left, outputsWKC,
             inputsWKC>>
placevars == <<LogAddr, BitPos, outputs, inputs, mbxstatus>>
sendvars == <<jobs, first, stack, inuse>>
recvvars == <<pulled, part, copied, wkc, validwkc, lost>>
vars == <<busvars, phase, slave, cutvars, placevars, group, sendvars, recvvars>>

Nowhere == [start |-> 0, len |-> 0]
Nothing == [o |-> 0, i |-> 0]

Init ==
  /\ bus \in [Slaves -> [O : OutBits, I : InBits, mbx : Mailboxes]]
  /\ mode \in Modes /\ blockLRW \in Blocks /\ hasdc \in Clocks
  /\ mode = "overlap" => ~blockLRW
  /\ phase = (IF mode = "overlap" THEN "both" ELSE "out")
  /\ slave = 1 /\ cutting = FALSE
  /\ LogAddr = LogStart /\ BitPos = 0
  /\ IOsegment = <<>> /\ segmentsize = 0 /\ segmentmaxsize = FirstMax
  /\ left = Nothing /\ outputsWKC = 0 /\ inputsWKC = 0
  /\ outputs = [s \in Slaves |-> Nowhere]
  /\ inputs = [s \in Slaves |-> Nowhere]
  /\ mbxstatus = [s \in Slaves |-> Nowhere]
  /\ group = [Obytes |-> 0, Ibytes |-> 0, Isegment |-> 0, Ioffset |-> 0]
  /\ jobs = <<>> /\ first = FALSE
  /\ stack = <<>> /\ pulled = 0 /\ inuse = {}
  /\ part = [s \in Slaves |-> "none"]
  /\ copied = {} /\ wkc = 0 /\ validwkc = FALSE /\ lost = FALSE
-----------------------------------------------------------------------------
(* Placement of one direction of a slave.  A slave of less than eight bits  *)
(* continues in the current byte, any other starts a new one.               *)
Bytes(bits) == IF bits > 7 THEN (bits + 7) \div 8 ELSE 0

Place(bits, addr, bit) ==
  LET start == IF bits > 7 /\ bit > 0 THEN addr + 1 ELSE addr
  IN  IF bits > 7
      THEN [start |-> start, len |-> Bytes(bits),
            addr |-> start + Bytes(bits), bit |-> 0]
      ELSE [start |-> start, len |-> (bit + bits - 1) \div 8 + 1,
            addr |-> addr + (bit + bits) \div 8, bit |-> (bit + bits) % 8]

OutputMapping(s, addr, bit) == Place(bus[s].O, addr, bit)
InputMapping(s, addr, bit) == Place(bus[s].I, addr, bit)

Region(p) == [start |-> p.start, len |-> p.len]
NextByte(p) == IF p.bit > 0 THEN [p EXCEPT !.addr = @ + 1, !.bit = 0] ELSE p
Unpacked(p) == IF mode = "packed" THEN p ELSE NextByte(p)

(* The segment is closed when diff more bytes do not fit, unless they fit   *)
(* in no segment.                                                           *)
MustClose(diff) == /\ segmentsize + diff > segmentmaxsize
                   /\ diff <= segmentmaxsize
                   /\ Len(IOsegment) < MaxSegments

(* A slave adds o bytes of outputs and i bytes of inputs.                   *)
AddSlave(o, i) ==
  LET diff == Max({o, i}) IN
  /\ IF MustClose(diff)
     THEN /\ IOsegment' = Append(IOsegment, segmentsize)
          /\ segmentsize' = diff
          /\ segmentmaxsize' = MaxLRWData
     ELSE /\ segmentsize' = segmentsize + diff
          /\ UNCHANGED <<IOsegment, segmentmaxsize>>
  /\ left' = [o |-> o, i |-> i]
  /\ cutting' = TRUE
  /\ UNCHANGED <<phase, slave, outputsWKC, inputsWKC>>

PassOver == slave' = slave + 1 /\ UNCHANGED <<phase, cutvars, placevars>>

(* One slave in the pass over the outputs, or over the inputs.              *)
MapOutputs ==
  /\ phase = "out" /\ slave \in Slaves /\ ~cutting
  /\ IF bus[slave].O = 0 THEN PassOver
     ELSE LET p == Unpacked(OutputMapping(slave, LogAddr, BitPos)) IN
          /\ outputs' = [outputs EXCEPT ![slave] = Region(p)]
          /\ LogAddr' = p.addr /\ BitPos' = p.bit
          /\ AddSlave(p.addr - LogAddr, 0)
          /\ UNCHANGED <<inputs, mbxstatus>>
  /\ UNCHANGED <<busvars, group, sendvars, recvvars>>

MapInputs ==
  /\ phase = "in" /\ slave \in Slaves /\ ~cutting
  /\ IF bus[slave].I = 0 THEN PassOver
     ELSE LET p == Unpacked(InputMapping(slave, LogAddr, BitPos)) IN
          /\ inputs' = [inputs EXCEPT ![slave] = Region(p)]
          /\ LogAddr' = p.addr /\ BitPos' = p.bit
          /\ AddSlave(0, p.addr - LogAddr)
          /\ UNCHANGED <<outputs, mbxstatus>>
  /\ UNCHANGED <<busvars, group, sendvars, recvvars>>

(* In overlap mode both directions of a slave start at the same address.    *)
MapBoth ==
  /\ phase = "both" /\ slave \in Slaves /\ ~cutting
  /\ LET none == [start |-> LogAddr, len |-> 0]
         o == IF bus[slave].O = 0 THEN none
              ELSE Region(OutputMapping(slave, LogAddr, 0))
         i == IF bus[slave].I = 0 THEN none
              ELSE Region(InputMapping(slave, LogAddr, 0))
     IN  /\ outputs' = [outputs EXCEPT ![slave] = o]
         /\ inputs' = [inputs EXCEPT ![slave] = i]
         /\ LogAddr' = LogAddr + Max({o.len, i.len})
         /\ AddSlave(o.len, i.len)
         /\ group' = [group EXCEPT !.Obytes = LogAddr + o.len - LogStart,
                                   !.Ibytes = LogAddr + i.len - LogStart]
  /\ UNCHANGED <<busvars, BitPos, mbxstatus, sendvars, recvvars>>

(* Data that does not fit in a segment is cut until the rest does; the      *)
(* slave counts once for every segment it has data in.                      *)
CountLeft(size) ==
  LET one(n) == IF size > 0 /\ n > 0 THEN 1 ELSE 0
  IN  /\ outputsWKC' = outputsWKC + one(left.o)
      /\ inputsWKC' = inputsWKC + one(left.i)
Rest(n) == IF mode = "overlap" THEN n - segmentmaxsize ELSE n

Split ==
  /\ cutting /\ segmentsize > segmentmaxsize /\ Len(IOsegment) < MaxSegments
  /\ IOsegment' = Append(IOsegment, segmentmaxsize)
  /\ segmentsize' = segmentsize - segmentmaxsize
  /\ segmentmaxsize' = MaxLRWData
  /\ CountLeft(segmentmaxsize)
  /\ left' = [o |-> Rest(left.o), i |-> Rest(left.i)]
  /\ UNCHANGED <<busvars, phase, slave, cutting, placevars, group, sendvars,
                 recvvars>>

EndSlave ==
  /\ cutting
  /\ segmentsize <= segmentmaxsize \/ Len(IOsegment) >= MaxSegments
  /\ CountLeft(segmentsize)
  /\ left' = Nothing /\ cutting' = FALSE
  /\ slave' = slave + 1
  /\ UNCHANGED <<busvars, phase, IOsegment, segmentsize, segmentmaxsize,
                 placevars, group, sendvars, recvvars>>

(* After a pass in packed mode the last byte is completed.                  *)
LastByte ==
  IF BitPos = 0
  THEN UNCHANGED <<LogAddr, IOsegment, segmentsize, segmentmaxsize, outputsWKC,
                   inputsWKC>>
  ELSE /\ LogAddr' = LogAddr + 1
       /\ LET close == /\ segmentsize + 1 > segmentmaxsize
                       /\ Len(IOsegment) < MaxSegments
          IN  /\ IOsegment' = IF close THEN Append(IOsegment, segmentsize)
                              ELSE IOsegment
              /\ segmentsize' = IF close THEN 1 ELSE segmentsize + 1
              /\ segmentmaxsize' = IF close /\ phase = "out" THEN MaxLRWData
                                   ELSE segmentmaxsize
              /\ outputsWKC' = IF close /\ phase = "out" THEN outputsWKC + 1
                               ELSE outputsWKC
              /\ inputsWKC' = IF close /\ phase = "in" THEN inputsWKC + 1
                              ELSE inputsWKC

EndPass(next) ==
  /\ slave = NSlaves + 1 /\ ~cutting
  /\ slave' = 1 /\ phase' = next
  /\ UNCHANGED <<busvars, cutting, left, outputs, inputs, mbxstatus, sendvars,
                 recvvars>>

EndOutputs ==
  /\ phase = "out"
  /\ LastByte /\ BitPos' = 0
  /\ group' = [Obytes |-> LogAddr' - LogStart, Ibytes |-> 0,
               Isegment |-> Len(IOsegment'), Ioffset |-> segmentsize']
  /\ EndPass("in")

EndInputs ==
  /\ phase = "in"
  /\ LastByte /\ BitPos' = 0
  /\ group' = [group EXCEPT !.Ibytes = LogAddr' - LogStart - group.Obytes]
  /\ EndPass("mbx")

EndBoth ==
  /\ phase = "both"
  /\ EndPass("mbx")
  /\ UNCHANGED <<LogAddr, BitPos, IOsegment, segmentsize, segmentmaxsize,
                 outputsWKC, inputsWKC, group>>

(* The status of every mailbox follows, one byte per slave.                 *)
StatusFitsFrame(diff) == segmentsize + diff <= MaxLRWData
StatusFits(diff) == segmentsize + diff <= FirstMax

MapMbxStatus ==
  /\ phase = "mbx" /\ slave \in Slaves
  /\ LET has == bus[slave].mbx
         diff == IF has THEN 1 ELSE 0
     IN  /\ mbxstatus' = [mbxstatus EXCEPT ![slave] =
                            IF has THEN [start |-> LogAddr, len |-> 1] ELSE @]
         /\ LogAddr' = LogAddr + diff
         /\ inputsWKC' = IF has /\ Bytes(bus[slave].I) = 0 THEN inputsWKC + 1
                                                           ELSE inputsWKC
         /\ IF StatusFits(diff)
            THEN segmentsize' = segmentsize + diff /\ UNCHANGED IOsegment
            ELSE IF Len(IOsegment) < MaxSegments - 1
            THEN segmentsize' = diff
                 /\ IOsegment' = Append(IOsegment, segmentsize)
            ELSE UNCHANGED <<segmentsize, IOsegment>>
  /\ slave' = slave + 1
  /\ UNCHANGED <<busvars, phase, cutting, segmentmaxsize, left, outputsWKC,
                 BitPos, outputs, inputs, group, sendvars, recvvars>>

EndMbxStatus ==
  /\ phase = "mbx" /\ slave = NSlaves + 1
  /\ IOsegment' = Append(IOsegment, segmentsize)
  /\ phase' = "ready"
  /\ UNCHANGED <<busvars, slave, cutting, segmentsize, segmentmaxsize, left,
                 outputsWKC, inputsWKC, placevars, group, sendvars, recvvars>>

Mapping == \/ MapOutputs \/ MapInputs \/ MapBoth \/ Split \/ EndSlave
           \/ EndOutputs \/ EndInputs \/ EndBoth \/ MapMbxStatus \/ EndMbxStatus
-----------------------------------------------------------------------------
(* Offsets are counted from the start of the IO map, where the outputs are. *)
HasMbx == {s \in Slaves : bus[s].mbx}
MbxLength == IF mode = "overlap" THEN Cardinality(HasMbx)
             ELSE LogAddr - group.Obytes - group.Ibytes
ImageLength == MbxLength + (IF mode = "overlap"
                            THEN Max({group.Obytes, group.Ibytes})
                            ELSE group.Obytes + group.Ibytes)

Job(cmd, addr, data, length, segment) ==
  [cmd |-> cmd, addr |-> addr, data |-> data, length |-> length,
   segment |-> segment]

(* LRD and LWR if a slave cannot do LRW.                                    *)
JobsEither ==
  IF ImageLength = 0 THEN <<>>
  ELSE IF blockLRW /\ group.Ibytes > 0
       THEN <<Job("LRD", LogStart + group.Obytes, group.Obytes, group.Ibytes,
                  group.Isegment)>>
  ELSE <<Job("LRW", LogStart, 0, ImageLength, 0)>>
Jobs ==
  LET lrd == Job("LRD", LogStart + group.Obytes, group.Obytes, group.Ibytes,
                 group.Isegment)
      lwr == Job("LWR", LogStart, 0, group.Obytes, 0)
  IN  IF ImageLength = 0 THEN <<>>
      ELSE IF blockLRW THEN (IF group.Ibytes > 0 THEN <<lrd>> ELSE <<>>)
                            \o (IF group.Obytes > 0 THEN <<lwr>> ELSE <<>>)
      ELSE <<Job("LRW", LogStart, 0, ImageLength, 0)>>

(* In overlap mode the inputs are stored behind the outputs.                *)
InputOffset == IF mode = "overlap" THEN group.Obytes ELSE 0

Sublength(j) ==
  LET segment == IOsegment[j.segment + 1]
  IN  CASE j.cmd = "LRD" /\ j.segment = group.Isegment -> segment - group.Ioffset
        [] j.cmd = "LWR" -> IF segment < j.length THEN segment ELSE j.length
        [] OTHER -> segment

(* ecx_getindex.  Other threads have released theirs.                       *)
GetIndex == LET free == (1 .. MaxBuf) \ inuse
            IN  IF free = {} THEN 1 ELSE Min(free)

PushInputsOnly(e) == stack' = IF Len(stack) < MaxBuf /\ e.cmd # "LWR"
                               THEN Append(stack, e) ELSE stack
PushIndex(e) == stack' = IF Len(stack) < MaxBuf THEN Append(stack, e) ELSE stack

(* Begin of ecx_send_processdata_group.  How the slaves take part in the    *)
(* cycle is chosen here: a slave in SAFE_OP serves inputs only.             *)
StartCycle ==
  /\ phase = "ready"
  /\ part' \in [Slaves -> {"none", "inputs", "full"}]
  /\ jobs' = Jobs /\ first' = hasdc
  /\ copied' = {} /\ lost' = FALSE
  /\ phase' = "send"
  /\ UNCHANGED <<busvars, slave, cutvars, placevars, group, stack, inuse,
                 pulled, wkc, validwkc>>

SendSegment ==
  /\ phase = "send" /\ jobs # <<>>
  /\ LET j == Head(jobs)
         n == Sublength(j)
         more == /\ j.length # n
                 /\ j.segment + 1 < Len(IOsegment)
     IN  /\ PushIndex([idx |-> GetIndex, cmd |-> j.cmd, addr |-> j.addr,
                       from |-> j.data, data |-> j.data + InputOffset,
                       length |-> n, dc |-> first])
         /\ jobs' = (IF more THEN <<Job(j.cmd, j.addr + n, j.data + n,
                                        j.length - n, j.segment + 1)>>
                     ELSE <<>>) \o Tail(jobs)
  /\ inuse' = inuse \cup {GetIndex}
  /\ first' = FALSE
  /\ UNCHANGED <<busvars, phase, slave, cutvars, placevars, group, recvvars>>

(* Begin of ecx_receive_processdata_group. *)
StartReceive ==
  /\ phase = "send" /\ jobs = <<>>
  /\ phase' = "receive"
  /\ pulled' = 0 /\ wkc' = 0 /\ validwkc' = FALSE
  /\ UNCHANGED <<busvars, slave, cutvars, placevars, group, sendvars, part,
                 copied, lost>>

(* What slave s adds to the working counter of datagram e.                  *)
Overlaps(r, e) == /\ r.len > 0 /\ e.length > 0
                  /\ r.start < e.addr + e.length /\ e.addr < r.start + r.len
Reads(s, e) == /\ part[s] # "none" /\ e.cmd \in {"LRD", "LRW"}
               /\ Overlaps(inputs[s], e) \/ Overlaps(mbxstatus[s], e)
Writes(s, e) == /\ part[s] = "full" /\ e.cmd \in {"LWR", "LRW"}
                /\ Overlaps(outputs[s], e)
DatagramWKC(e) ==
  Cardinality({s \in Slaves : Reads(s, e)})
    + (IF e.cmd = "LRW" THEN 2 ELSE 1) * Cardinality({s \in Slaves : Writes(s, e)})

(* "output WKC counts 2 times when using LRW, emulate the same for LWR". *)
NotEmulated(e) == DatagramWKC(e)
Emulated(e) == IF e.cmd = "LWR" THEN 2 * DatagramWKC(e) ELSE DatagramWKC(e)

(* One frame is pulled from the stack: answered or lost.  The counter of    *)
(* the frame with the clock datagram is assigned, the others are added.  The *)
(* first LRD may have no data, if the outputs end where a segment does.     *)
ReceiveFrame ==
  /\ phase = "receive" /\ pulled < Len(stack)
  /\ LET e == stack[pulled + 1] IN
     /\ inuse' = inuse \ {e.idx}
     /\ \/ /\ wkc' = IF e.dc THEN Emulated(e) ELSE wkc + Emulated(e)
           /\ copied' = IF e.cmd = "LWR" THEN copied
                        ELSE copied \cup {[addr |-> e.addr, data |-> e.data,
                                           length |-> e.length]}
           /\ validwkc' = TRUE
           /\ UNCHANGED lost
        \/ lost' = (lost \/ e.length > 0) /\ UNCHANGED <<wkc, copied, validwkc>>
  /\ pulled' = pulled + 1
  /\ UNCHANGED <<busvars, phase, slave, cutvars, placevars, group, jobs, first,
                 stack, part>>

EndReceive ==
  /\ phase = "receive" /\ pulled = Len(stack)
  /\ wkc' = IF validwkc THEN wkc ELSE NOFRAME
  /\ phase' = "done"
  /\ UNCHANGED <<busvars, slave, cutvars, placevars, group, sendvars, pulled,
                 part, copied, validwkc, lost>>

(* ecx_clearindex at the end, and the application goes on.                  *)
NextCycle ==
  /\ phase = "done"
  /\ stack' = <<>> /\ pulled' = 0
  /\ phase' = "ready"
  /\ UNCHANGED <<busvars, slave, cutvars, placevars, group, jobs, first, inuse,
                 part, copied, wkc, validwkc, lost>>

Cycle == StartCycle \/ SendSegment \/ StartReceive \/ ReceiveFrame
         \/ EndReceive \/ NextCycle

Next == Mapping \/ Cycle
Spec == Init /\ [][Next]_vars
-----------------------------------------------------------------------------
(* Properties. *)

Frames == {stack[k] : k \in 1 .. Len(stack)}
AddressesOf(r) == r.start .. r.start + r.len - 1
AllSent == Len(stack) < MaxBuf

TypeOK ==
  /\ phase \in {"out", "in", "both", "mbx", "ready", "send", "receive", "done"}
  /\ slave \in 1 .. NSlaves + 1 /\ cutting \in BOOLEAN
  /\ LogAddr \in Nat /\ BitPos \in 0 .. 7
  /\ IOsegment \in Seq(Nat) /\ segmentsize \in Nat
  /\ segmentmaxsize \in {FirstMax, MaxLRWData}
  /\ left \in [o : Int, i : Int] /\ outputsWKC \in Nat /\ inputsWKC \in Nat
  /\ inuse \subseteq 1 .. MaxBuf /\ pulled \in 0 .. Len(stack)
  /\ wkc \in Int /\ validwkc \in BOOLEAN /\ lost \in BOOLEAN

(* Every datagram fits in a frame, the first one together with the clock    *)
(* datagram.  With LRD the first datagram of the inputs starts within a     *)
(* later segment, which has no room set aside.                              *)
FrameFits ==
  \A e \in Frames :
    (~blockLRW \/ ~hasdc) /\ Len(IOsegment) < MaxSegments
      => e.length + (IF e.dc THEN FirstDC ELSE 0) <= MaxLRWData

(* The indices of a cycle are released whatever is lost, even if there are  *)
(* more datagrams than indices and frames share one.                        *)
IndicesReturned == phase = "done" => inuse = {}

(* The bytes of every slave travel between their place on the bus and their *)
(* place in the IO map, across all cuts: outputs are sent from there, and   *)
(* inputs and mailbox states that were read are stored there.  In overlap   *)
(* mode mailbox states are in place only if the inputs are the larger part. *)
StatusOffset(s) == group.Obytes + group.Ibytes
                     + Cardinality({t \in HasMbx : t < s})
Covers(c, b) == c.addr <= b /\ b < c.addr + c.length
Stored(c, b) == c.data + b - c.addr

SentFromHome ==
  phase = "receive" /\ AllSent =>
    \A s \in Slaves : \A b \in AddressesOf(outputs[s]) :
      \E e \in Frames : /\ e.cmd # "LRD" /\ Covers(e, b)
                        /\ e.from + b - e.addr = b - LogStart

StoredAtHome ==
  phase = "done" /\ AllSent =>
    \A s \in Slaves :
      /\ \A b \in AddressesOf(inputs[s]) :
           LET home == b - LogStart
                         + (IF mode = "overlap" THEN group.Obytes ELSE 0) IN
           /\ ~lost => \E c \in copied : Covers(c, b) /\ Stored(c, b) = home
           /\ \A c \in copied, a \in LogStart .. LogAddr - 1 :
                Covers(c, a) /\ Stored(c, a) = home => a = b
      /\ (mode = "overlap" => group.Obytes <= group.Ibytes) =>
           \A b \in AddressesOf(mbxstatus[s]), c \in copied :
             Covers(c, b) => Stored(c, b) = StatusOffset(s)

(* What a cycle transports, in both directions, ends where it belongs.     *)
DataAtHome == SentFromHome /\ StoredAtHome

(* The application takes any counter but outputsWKC * 2 + inputsWKC for a   *)
(* failure.  It gets this counter exactly when every slave took its full    *)
(* part and no frame was lost.  What the mapping counts is right only if    *)
(* the image is Countable: it takes the status of a mailbox to be read with *)
(* the inputs of the slave, counts no slave that only completes a byte, and *)
(* counts a slave longer than a segment for a full one it starts behind.    *)
Expected == outputsWKC * 2 + inputsWKC

StatusCounted(s) ==
  \E e \in Frames : /\ e.cmd # "LWR" /\ Overlaps(mbxstatus[s], e)
                    /\ IF Bytes(bus[s].I) > 0 THEN Overlaps(inputs[s], e)
                       ELSE bus[s].I = 0
BehindFull(r) == /\ r.len > FirstMax /\ r.start # LogStart
                 /\ mode = "overlap" \/ \E e \in Frames : e.addr = r.start
Countable ==
  /\ mode # "packed"
  /\ \A s \in HasMbx : StatusCounted(s)
  /\ \A s \in Slaves : ~BehindFull(inputs[s]) /\ ~BehindFull(outputs[s])

TakesPart(s) ==
  \/ part[s] = "full"
  \/ part[s] = "inputs" /\ bus[s].O = 0
  \/ bus[s] = [O |-> 0, I |-> 0, mbx |-> FALSE]

CounterTells ==
  phase = "done" /\ stack # <<>> /\ AllSent /\ Countable
    => (wkc = Expected <=> ~lost /\ \A s \in Slaves : TakesPart(s))

(* The same for every image: what the counting in ecx_config_map_group is   *)
(* for, "account for MBXSTATUS wkc increment" included.                     *)
FullCounter ==
  phase = "done" /\ stack # <<>> /\ ~lost /\ (\A s \in Slaves : TakesPart(s))
    => wkc = Expected

(* A cycle without a loss reads all inputs, however many segments there     *)
(* are.  A push on a full index stack is dropped: the frame is never        *)
(* received.                                                                *)
EveryInputRead ==
  phase = "done" /\ ~lost =>
    \A s \in Slaves : \A b \in AddressesOf(inputs[s]) :
      \E c \in copied : Covers(c, b)

(* The handler of cyclic mailboxes finds the status of each in its byte.    *)
StatusAtHome ==
  phase = "done" /\ ~lost =>
    \A s \in Slaves : \A b \in AddressesOf(mbxstatus[s]) :
      \E c \in copied : Covers(c, b) /\ Stored(c, b) = StatusOffset(s)
=============================================================================
