-------------------------- MODULE MCFoamThread --------------------------
(* Small instance of FoamThread for TLC. *)
EXTENDS FoamThread

OutsideTheLock == Places \ {"inState"}
=========================================================================
