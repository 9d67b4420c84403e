--------------------------- MODULE MCOutFiles ---------------------------
(* Small instance of OutFiles for TLC: two analyzers' names, more files    *)
(* than handles.                                                           *)
EXTENDS OutFiles

BothModes == {TRUE, FALSE}
=========================================================================
