------------------------------ MODULE ErrorLog ------------------------------
(***************************************************************************)
(* What the error list of a context is for: a log that hands errors out in *)
(* the order they were reported and keeps the latest MaxElist of them.     *)
(***************************************************************************)
EXTENDS Sequences, Naturals

CONSTANTS MaxElist, Errors, NoError

VARIABLES log,                 \* errors reported and not yet handed out
          taken                \* what the last reader got, NoError if nothing

vars == <<log, taken>>

Init == log = << >> /\ taken = NoError

Report(e) == /\ log' = IF Len(log) < MaxElist THEN Append(log, e)
                                              ELSE Append(Tail(log), e)
             /\ UNCHANGED taken

Take == /\ log # << >>
        /\ taken' = Head(log)
        /\ log' = Tail(log)

TakeNothing == log = << >> /\ taken' = NoError /\ UNCHANGED log

Next == (\E e \in Errors : Report(e)) \/ Take \/ TakeNothing

Spec == Init /\ [][Next]_vars
=============================================================================
