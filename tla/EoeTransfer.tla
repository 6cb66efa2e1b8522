---------------------------- MODULE EoeTransfer ----------------------------
(***************************************************************************)
(* EoE: an Ethernet frame in fragments.  A fragment has its number and its *)
(* offset in blocks of 32 bytes (the first one: the size of the frame in   *)
(* blocks), and the number of the frame.  The last one may carry a time     *)
(* stamp behind the data (stamped).                                        *)
(***************************************************************************)
EXTENDS Mails

Block == 2                     \* units in 32 bytes
FrameNumbers == 16             \* EOE_HDR_FRAME_NO has four bits

Blocks(size) == (size + Block - 1) \div Block
WholeBlocks(size) == (size \div Block) * Block

(* ecx_EOEsend: num is txfragmentno, data what has been sent.              *)
EOEfragment(c) ==
  LET size == IF Len(c.rest) > OutData THEN WholeBlocks(OutData) ELSE Len(c.rest)
  IN  [Mail("EoE", "frag", c.obj) EXCEPT
         !.data = First(c.rest, size), !.n = c.num, !.frame = c.frame,
         !.at = IF c.num > 0 THEN Len(c.data) \div Block ELSE Blocks(Len(c.rest)),
         !.last = Len(c.rest) <= OutData]

EOEsend(c) == LET m == EOEfragment(c) IN Ask([c EXCEPT !.more = ~m.last], m)

EOEsendSent(c) ==
  IF c.more
  THEN EOEsend([c EXCEPT !.data = @ \o c.out.data, !.num = @ + 1,
                         !.rest = After(@, Len(c.out.data))])
  ELSE Done(c, 1)

(* ecx_EOErecv: num is rxfragmentno, frame is rxframeno, and rxframeoffset *)
(* is the length of data.                                                  *)
IsFragment(m) == m.type = "EoE" /\ m.kind \in {"frag", "stamped"}

Misplaced(c, m) ==
  \/ m.n # c.num /\ m.n > 0
  \/ c.num = 0 /\ m.at * Block > c.room
  \/ c.num > 0 /\ (m.frame # c.frame \/ Len(c.data) # m.at * Block)

(* At the end a time stamp is taken off again, also if the fragment it came *)
(* with did not fit and was skipped.                                       *)
TimeOff(m, data) ==
  IF m.kind = "stamped" THEN First(data, Len(data) - 1) ELSE data

EOErecvAnswer(c, m) ==
  LET fits == Len(c.data) + Len(m.data) <= c.room
      started == IF c.num = 0 THEN [c EXCEPT !.frame = m.frame] ELSE c
      got == IF fits THEN [started EXCEPT !.data = @ \o m.data, !.num = @ + 1]
                     ELSE started
  IN  IF ~IsFragment(m) \/ Misplaced(c, m) THEN Done(c, 0)
      ELSE IF m.last THEN Done([got EXCEPT !.data = TimeOff(m, @)], 1) ELSE Await(got)

(* ecx_EOEreadfragment works on variables of its caller (frag), which keep *)
(* a frame under way from one fragment to the next.                        *)
Fresh == [n |-> 0, size |-> 0, frame |-> 0, data |-> << >>]

ReadFragment(frag, m, room) ==
  LET reset == frag.n # m.n
      f == IF reset THEN Fresh ELSE frag
      g == IF f.n = 0
           THEN [n |-> 0, size |-> m.at * Block, frame |-> m.frame, data |-> << >>]
           ELSE f
      fits == /\ Len(g.data) + Len(m.data) <= g.size
              /\ Len(g.data) + Len(m.data) <= room
      got == IF fits THEN [g EXCEPT !.data = @ \o m.data, !.n = @ + 1] ELSE g
  IN  IF \/ reset /\ m.n > 0
         \/ f.n > 0 /\ (f.frame # m.frame \/ Len(f.data) # m.at * Block)
      THEN [frag |-> Fresh, done |-> << >>]
      ELSE IF m.last THEN [frag |-> Fresh, done |-> <<TimeOff(m, got.data)>>]
                     ELSE [frag |-> got, done |-> << >>]

(* ecx_EOEsetIp, ecx_EOEgetIp *)
EOEsetIp(c) == Ask(c, [Mail("EoE", "initreq", c.obj) EXCEPT !.data = c.rest])
EOEsetIpAnswer(c, m) ==
  Done(c, IF m.type = "EoE" /\ m.kind = "initresp" THEN 1 ELSE 0)
EOEgetIp(c) == Ask(c, Mail("EoE", "getipreq", c.obj))
EOEgetIpAnswer(c, m) ==
  IF m.type = "EoE" /\ m.kind = "getipresp"
  THEN Done([c EXCEPT !.data = m.data], 1) ELSE Done(c, 0)
-----------------------------------------------------------------------------
(* The slave's side, external: frames it sends come in fragments cut in    *)
(* the same way, frames to it are put together again.  The time stamp is   *)
(* one unit; a slave may count it into the size of the frame or not.       *)
Stamp == <<"time">>

FrameFragments(o, number, frame, stamp) ==
  LET all == IF stamp = "none" THEN frame ELSE Append(frame, Stamp)
      size == WholeBlocks(InData)
      count == IF Len(all) <= InData THEN 1
               ELSE (Len(all) - InData + size - 1) \div size + 1
  IN  [k \in 1 .. count |->
         [Mail("EoE", IF stamp # "none" /\ k = count THEN "stamped" ELSE "frag", o) EXCEPT
            !.data = IF k = count THEN After(all, (k - 1) * size)
                     ELSE First(After(all, (k - 1) * size), size),
            !.n = k - 1, !.frame = number, !.last = k = count,
            !.at = IF k = 1 THEN Blocks(Len(IF stamp = "counted" THEN all ELSE frame))
                   ELSE ((k - 1) * size) \div Block]]

EoeServe(srv, store, m) ==
  LET reply(kind) == <<[Mail("EoE", kind, m.of) EXCEPT !.data = store[m.of]]>>
      frag == [n |-> srv.n, size |-> srv.size, data |-> srv.data,
               frame |-> IF srv.of = << >> THEN 0 ELSE srv.of[1]]
      r == ReadFragment(frag, m, Len(srv.data) + Len(m.data))
      next == [op |-> "frame", of |-> <<r.frag.frame>>, data |-> r.frag.data,
               n |-> r.frag.n, size |-> r.frag.size]
  IN  CASE m.kind = "initreq" ->
             Served(srv, [store EXCEPT ![m.of] = m.data], reply("initresp"))
        [] m.kind = "getipreq" -> Served(srv, store, reply("getipresp"))
        [] m.kind = "frag" ->
             Served(IF r.frag = Fresh THEN Resting ELSE next,
                    IF r.done = << >> THEN store
                    ELSE [store EXCEPT ![m.of] = Head(r.done)], << >>)
=============================================================================
