--------------------------- MODULE DataTables ---------------------------
(***************************************************************************)
(* What the data files of a run promise to the analyzers that write them:  *)
(* each is a table to which rows are added at the end, one at a time, and  *)
(* from which nothing disappears until all of them are begun anew.         *)
(***************************************************************************)
EXTENDS Sequences

CONSTANTS Tables, Rows

VARIABLE rows           \* for each table its rows

Init == rows = [t \in Tables |-> <<>>]

AddRow(t) == \E r \in Rows : rows' = [rows EXCEPT ![t] = Append(@, r)]

Discard == rows' = [t \in Tables |-> <<>>]

Next == (\E t \in Tables : AddRow(t)) \/ Discard

vars == <<rows>>

Spec == Init /\ [][Next]_vars
=========================================================================
