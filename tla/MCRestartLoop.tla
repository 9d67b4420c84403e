------------------------- MODULE MCRestartLoop -------------------------
(* Small instance of RestartLoop for TLC: up to four runs of which every   *)
(* one may write, fail or be interrupted.                                  *)
EXTENDS RestartLoop

Serial == [parallel |-> FALSE, processors |-> FALSE]
SerialDecomposed == [parallel |-> FALSE, processors |-> TRUE]
Parallel == [parallel |-> TRUE, processors |-> TRUE]

AllCases == {Serial, SerialDecomposed, Parallel}
=========================================================================
