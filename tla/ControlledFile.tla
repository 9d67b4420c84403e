------------------------- MODULE ControlledFile -------------------------
(***************************************************************************)
(* What the backup mechanism of FileBasisBackup promises to the callers:   *)
(* a file whose lasting content (base) is not touched while anybody has    *)
(* temporary changes pending.  Only the owner of the case changes base,    *)
(* and only while nothing is pending; the death of the process that has    *)
(* the changes may leave anything.                                         *)
(***************************************************************************)
CONSTANTS Clients, Contents

VARIABLES base, pending

vars == <<base, pending>>

Init == /\ base \in Contents
        /\ pending = {}

(* A client starts to have temporary changes in the file. *)
Acquire(c) == /\ c \notin pending
              /\ pending' = pending \cup {c}
              /\ UNCHANGED base

(* A client gives its temporary changes up. *)
Release(c) == /\ c \in pending
              /\ pending' = pending \ {c}
              /\ UNCHANGED base

(* The owner of the case gives the file a new lasting content. *)
Edit == /\ pending = {}
        /\ base' \in Contents
        /\ UNCHANGED pending

(* The process dies. *)
Crash == /\ pending' = {}
         /\ base' \in Contents

Next == \/ \E c \in Clients : Acquire(c) \/ Release(c)
        \/ Edit \/ Crash

Spec == Init /\ [][Next]_vars
=========================================================================
