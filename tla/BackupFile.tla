--------------------------- MODULE BackupFile ---------------------------
(***************************************************************************)
(* One dictionary file of a case (system/controlDict, fvSchemes, ...), its *)
(* copy <name>.backup, and the class-level reference count with which      *)
(* FileBasisBackup (RunDictionary/FileBasis.py) decides when to make the   *)
(* copy and when to put it back.  The clients are the objects that change  *)
(* the file for the time of a run: the triggers that PyFoamRunner and      *)
(* PyFoamSteadyRunner add (WriteAllTrigger, LibFunctionTrigger,            *)
(* SafeTrigger), each with its flag fresh.                                 *)
(*                                                                         *)
(* counter = 0 stands for "no entry in FileBasisBackup.counter": restore   *)
(* deletes the entry when it reaches 0.  The content of a file is a member *)
(* of Contents.                                                            *)
(***************************************************************************)
EXTENDS Naturals, FiniteSets

CONSTANTS Clients,      \* objects that hold a ParameterFile(..., backup=True)
          Contents,     \* what can be in the file
          NoFile        \* <name>.backup does not exist

ASSUME ClientsAssumption == IsFiniteSet(Clients)
ASSUME NoFileAssumption == NoFile \notin Contents

VARIABLES file,         \* content of the file on disk
          backup,       \* content of <name>.backup, NoFile if there is none
          counter,      \* FileBasisBackup.counter[name]
          fresh,        \* the clients that have not yet given the file back
          pristine,     \* history: what the user last wanted in the file
          crashed       \* history: a process died with changes pending

vars == <<file, backup, counter, fresh, pristine, crashed>>

Init == /\ file \in Contents
        /\ pristine = file
        /\ backup = NoFile
        /\ counter = 0
        /\ fresh = {}
        /\ crashed = FALSE

(* Mutant: the copy is made by every client.                               *)
OpenAlwaysCopies ==
    /\ counter' = counter + 1
    /\ backup' = file

(* FileBasisBackup.__init__(backup=True): the first one makes the copy. *)
OpenWithBackup ==
    /\ counter' = counter + 1
    /\ backup' = IF counter = 0 THEN file ELSE backup

(* Mutant: the copy is removed and not put back.                           *)
RestoreForgetsCopy ==
    /\ counter' = counter - 1
    /\ backup' = IF counter = 1 THEN NoFile ELSE backup
    /\ UNCHANGED file

(* FileBasisBackup.restore: the last one puts the copy back. *)
RestoreFromBackup ==
    /\ counter' = counter - 1
    /\ IF counter = 1
         THEN file' = backup /\ backup' = NoFile
         ELSE UNCHANGED <<file, backup>>

(* A trigger object is made and its file opened, before it writes. *)
Open(c) == /\ c \notin fresh
           /\ OpenWithBackup
           /\ fresh' = fresh \cup {c}
           /\ UNCHANGED <<file, pristine, crashed>>

(* replaceParameter or writeFile of an open client. *)
Write(c) == /\ c \in fresh
            /\ file' \in Contents
            /\ UNCHANGED <<backup, counter, fresh, pristine, crashed>>

(* resetIt, which the time trigger and the end trigger of a run may both   *)
(* call and which does nothing the second time; also the restore of a      *)
(* constructor that found nothing to change or raised.                     *)
Reset(c) == /\ c \in fresh
            /\ RestoreFromBackup
            /\ fresh' = fresh \ {c}
            /\ UNCHANGED <<pristine, crashed>>

(* Somebody writes the file without a backup: the user's editor, or a      *)
(* ParameterFile with backup=False.  Possible at any time.                 *)
Edit == /\ file' \in Contents
        /\ pristine' = IF counter = 0 THEN file' ELSE pristine
        /\ UNCHANGED <<backup, counter, fresh, crashed>>

(* The Python process dies (kill -9, power): the count and the clients     *)
(* were in memory, the two files stay.                                     *)
Crash == /\ counter' = 0
         /\ fresh' = {}
         /\ crashed' = (crashed \/ fresh # {})
         /\ UNCHANGED <<file, backup, pristine>>

Next == \/ \E c \in Clients : Open(c) \/ Write(c) \/ Reset(c)
        \/ Edit \/ Crash

Spec == Init /\ [][Next]_vars
-------------------------------------------------------------------------
TypeOK == /\ file \in Contents
          /\ pristine \in Contents
          /\ backup \in Contents \cup {NoFile}
          /\ counter \in Nat
          /\ fresh \subseteq Clients
          /\ crashed \in BOOLEAN

(* The count is exactly the number of clients that still owe a restore: no *)
(* restore is lost and none is done twice (FileBasis.py:319-334).          *)
CounterIsClients == counter = Cardinality(fresh)

(* As long as no process died with changes pending, the copy exists        *)
(* exactly while somebody owes a restore, and it is never a copy of an     *)
(* already changed file.                                                   *)
BackupIsPristine == ~crashed => IF counter = 0 THEN backup = NoFile
                                               ELSE backup = pristine

(* When the last client has given the file back, the file is what it was   *)
(* before the first one came, in whatever order they came and went.        *)
RestoredWhenUnused == ~crashed /\ fresh = {} => file = pristine

(* The clients together keep the promise of ControlledFile: what will be in *)
(* the file once nobody has changes pending is the copy while there is one. *)
Controlled == INSTANCE ControlledFile WITH
                  base <- IF counter = 0 THEN file ELSE backup,
                  pending <- fresh
ControlledSpec == Controlled!Spec

(* A leftover .backup of a process that died. *)
Leftover == counter = 0 /\ backup # NoFile

(* The content the user wants back is on disk, where restore would find it *)
Protected == IF counter > 0 THEN backup = pristine
                            ELSE pristine \in {file, backup}

(* Even when processes die with changes pending, the user's content is     *)
(* lost in one way only: a later process opens the file while the .backup  *)
(* of the dead one is still there and copies the changed file over it      *)
(* (FileBasis.py:321-323).                                                 *)
LostOnlyOverLeftover ==
    [][Protected /\ pristine' = pristine /\ ~Protected'
         => Leftover /\ counter' = 1]_vars
=========================================================================
