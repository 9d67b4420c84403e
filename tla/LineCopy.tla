---------------------------- MODULE LineCopy ----------------------------
(***************************************************************************)
(* What a run promises about the output of the solver: every line it       *)
(* produces is copied to the log, once and in the order of production.     *)
(***************************************************************************)
EXTENDS Naturals, Sequences

CONSTANT Lines          \* number of lines the solver may produce

VARIABLES produced,     \* number of lines produced
          copied        \* the lines in the log

vars == <<produced, copied>>

Init == produced = 0 /\ copied = <<>>

Produce == /\ produced < Lines
           /\ produced' = produced + 1
           /\ UNCHANGED copied

Copy == /\ Len(copied) < produced
        /\ copied' = Append(copied, Len(copied) + 1)
        /\ UNCHANGED produced

Next == Produce \/ Copy

Spec == Init /\ [][Next]_vars /\ WF_vars(Copy)
=========================================================================
