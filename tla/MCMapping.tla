----------------------------- MODULE MCMapping -----------------------------
(* Mapping for TLC: the kinds of slaves and the buses made of them.        *)
EXTENDS Mapping

NoPdos == [m \in 0 .. MaxSM |-> << >>]

(* Outputs of two PDOs with a gap between them, inputs of one. *)
Pdos(out, in) == [NoPdos EXCEPT ![2] = << <<out>>, << >>, <<1, 8>> >>, ![3] = << <<in>> >>]

Sii == [TxPDO |-> << [sm |-> 3, bits |-> 24], [sm |-> 255, bits |-> 8] >>,
        RxPDO |-> << [sm |-> 2, bits |-> 4], [sm |-> 2, bits |-> 8] >>]

Plain == [id |-> 1, group |-> 1, coe |-> FALSE, ca |-> FALSE, soe |-> FALSE, mbx |-> FALSE,
          types |-> << >>, pdos |-> NoPdos, idn |-> << >>, sii |-> Sii,
          sms |-> 0 .. 3, len |-> [m \in SMs |-> 1]]

Coe(id, types, pdos) == [Plain EXCEPT !.id = id, !.coe = TRUE, !.mbx = TRUE,
                                      !.types = types, !.pdos = pdos]
Complete(slv) == [slv EXCEPT !.ca = TRUE]

Single  == Coe(2, <<1, 2, 3, 4>>, Pdos(16, 5))
FromZero == Coe(3, <<0, 1, 2, 3>>, Pdos(4, 12))
Untold  == Coe(4, <<1, 2, 0, 0>>, Pdos(7, 3))
Whole   == Complete(Coe(5, <<1, 2, 3, 4, 0>>, Pdos(16, 5)))
Other   == Complete(Coe(5, <<1, 2, 3, 4>>,
                        [NoPdos EXCEPT ![2] = << <<2>> >>, ![3] = << <<255>> >>]))
Drive   == [Plain EXCEPT !.id = 6, !.soe = TRUE, !.mbx = TRUE,
                         !.idn = << <<16, 32>>, <<8>> >>]

Command(m, pdos) == [sm |-> m, pdos |-> pdos]
Entry(s, id) == [Slave |-> s, id |-> id,
                 cmds |-> << Command(2, << <<32>> >>), Command(3, << <<9>>, <<9>> >>) >>]

SomeBuses ==
  {[slaves |-> <<a, b>>, eni |-> << >>] :
     <<a, b>> \in {<<Other, Whole>>, <<Plain, Plain>>, <<Untold, FromZero>>,
                   <<[Drive EXCEPT !.group = 2], Plain>>, <<Complete(FromZero), Drive>>,
                   <<[Drive EXCEPT !.idn = << >>], Plain>>}}
  \cup {[slaves |-> <<Plain, Single>>, eni |-> <<Entry(1, 1), Entry(2, 2)>>],
        [slaves |-> <<Single, Other>>, eni |-> <<Entry(1, 7), Entry(2, 5)>>]}

Numbers == 1 .. 2
=============================================================================
