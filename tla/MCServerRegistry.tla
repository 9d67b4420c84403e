------------------------ MODULE MCServerRegistry ------------------------
(* Small instance of ServerRegistry for TLC: two runs, one after the other *)
(* at the same port or at the same time at two.                            *)
EXTENDS ServerRegistry
=========================================================================
