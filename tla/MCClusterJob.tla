-------------------------- MODULE MCClusterJob --------------------------
(* Small instance of ClusterJob for TLC: up to three starts of a job on    *)
(* one case, with up to two messages.                                      *)
EXTENDS ClusterJob
=========================================================================
