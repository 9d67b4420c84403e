------------------------ MODULE BackupFileProofs ------------------------
(***************************************************************************)
(* Proofs about BackupFile for any finite set of clients and any contents. *)
(***************************************************************************)
EXTENDS BackupFile, FiniteSetTheorems, TLAPS

(* After a death the copy need not be pristine any more, but while the     *)
(* count is positive there is one.                                         *)
CopyExists == counter # 0 => backup \in Contents

(* The inductive invariant: the count says whether fresh is empty, which   *)
(* is what RestoredWhenUnused needs, and the copy is what is put back.     *)
IInv == /\ TypeOK /\ CounterIsClients /\ CopyExists
        /\ BackupIsPristine /\ RestoredWhenUnused

(* A set of clients is finite, so it can be counted.                       *)
LEMMA FreshIsFinite == TypeOK => IsFiniteSet(fresh)
BY ClientsAssumption, FS_Subset DEF TypeOK

(* A new client makes the count one larger.                                *)
LEMMA CountOfOpen ==
    ASSUME TypeOK, NEW c \in Clients, c \notin fresh
    PROVE  Cardinality(fresh \cup {c}) = Cardinality(fresh) + 1
BY FreshIsFinite, FS_AddElement

(* A client that leaves makes it one smaller, and 0 only if it was the     *)
(* last one.                                                               *)
LEMMA CountOfReset ==
    ASSUME TypeOK, NEW c \in fresh
    PROVE  /\ Cardinality(fresh \ {c}) = Cardinality(fresh) - 1
           /\ Cardinality(fresh) = 1 => fresh \ {c} = {}
           /\ Cardinality(fresh) # 1 => fresh \ {c} # {}
<1>1. IsFiniteSet(fresh)
  BY FreshIsFinite
<1>2. Cardinality(fresh \ {c}) = Cardinality(fresh) - 1
  BY <1>1, FS_RemoveElement
<1>3. IsFiniteSet(fresh \ {c})
  BY <1>1, FS_Subset
<1>4. Cardinality(fresh) \in Nat
  BY <1>1, FS_CardinalityType
<1>5. (Cardinality(fresh \ {c}) = 0) <=> (fresh \ {c} = {})
  BY <1>3, FS_EmptySet
<1> QED
  BY <1>2, <1>4, <1>5

(* The invariant holds initially. *)
LEMMA InitIInv == Init => IInv
<1> SUFFICES ASSUME Init
             PROVE  IInv
  OBVIOUS
<1>1. ~crashed /\ crashed \in BOOLEAN
  BY DEF Init
<1>2. TypeOK
  BY <1>1 DEF Init, TypeOK
<1>3. CounterIsClients
  BY FS_EmptySet DEF Init, CounterIsClients
<1> QED
  BY <1>2, <1>3 DEF Init, IInv, CopyExists, BackupIsPristine,
                    RestoredWhenUnused

(* Every step keeps it. *)
LEMMA NextIInv == IInv /\ [Next]_vars => IInv'
<1> SUFFICES ASSUME IInv, [Next]_vars
             PROVE  IInv'
  OBVIOUS
<1> USE DEF IInv, TypeOK, CounterIsClients, CopyExists, BackupIsPristine,
            RestoredWhenUnused
<1>0. IsFiniteSet(fresh) /\ (Cardinality(fresh) = 0 <=> fresh = {})
  BY FreshIsFinite, FS_EmptySet
<1>1. ASSUME NEW c \in Clients, Open(c)
      PROVE  IInv'
  <2>1. Cardinality(fresh') = Cardinality(fresh) + 1
    BY <1>1, CountOfOpen DEF Open
  <2>2. counter' = counter + 1 /\ counter' # 0 /\ fresh' # {}
    BY <1>1 DEF Open, OpenWithBackup
  <2>3. TypeOK'
    BY <1>1, <2>2 DEF Open, OpenWithBackup
  <2>4. CounterIsClients'
    BY <2>1, <2>2
  <2>5. BackupIsPristine' /\ CopyExists'
    BY <1>0, <1>1, <2>2 DEF Open, OpenWithBackup
  <2> QED
    BY <2>2, <2>3, <2>4, <2>5
<1>2. ASSUME NEW c \in Clients, Write(c)
      PROVE  IInv'
  <2>1. fresh' # {}
    BY <1>2 DEF Write
  <2> QED
    BY <1>2, <2>1 DEF Write
<1>3. ASSUME NEW c \in Clients, Reset(c)
      PROVE  IInv'
  <2>1. /\ Cardinality(fresh') = Cardinality(fresh) - 1
        /\ Cardinality(fresh) = 1 => fresh' = {}
        /\ Cardinality(fresh) # 1 => fresh' # {}
    BY <1>3, CountOfReset DEF Reset
  <2>2. counter \in Nat \ {0} /\ counter' = counter - 1
    BY <1>0, <1>3 DEF Reset, RestoreFromBackup
  <2>3. CASE counter = 1
    <3>1. /\ file' = backup /\ backup' = NoFile /\ counter' = 0
          /\ pristine' = pristine /\ fresh' = {} /\ crashed' = crashed
      BY <1>3, <2>1, <2>2, <2>3 DEF Reset, RestoreFromBackup
    <3> QED
      BY <2>1, <2>2, <2>3, <3>1
  <2>4. CASE counter # 1
    <3>1. /\ file' = file /\ backup' = backup /\ pristine' = pristine
          /\ counter' \in Nat /\ counter' # 0 /\ crashed' = crashed
          /\ fresh' # {} /\ fresh' \subseteq Clients
      BY <1>3, <2>1, <2>2, <2>4 DEF Reset, RestoreFromBackup
    <3> QED
      BY <2>1, <2>2, <3>1
  <2> QED
    BY <2>3, <2>4
<1>4. CASE Edit
  <2>1. CASE counter = 0
    BY <1>0, <1>4, <2>1 DEF Edit
  <2>2. CASE counter # 0
    BY <1>0, <1>4, <2>2 DEF Edit
  <2> QED
    BY <2>1, <2>2
<1>5. CASE Crash
  <2>1. CASE fresh = {}
    BY <1>0, <1>5, <2>1 DEF Crash
  <2>2. CASE fresh # {}
    <3>1. crashed' = TRUE /\ TypeOK' /\ CounterIsClients' /\ CopyExists'
      BY <1>5, <2>2, FS_EmptySet DEF Crash
    <3> QED
      BY <3>1
  <2> QED
    BY <2>1, <2>2
<1>6. CASE UNCHANGED vars
  BY <1>6 DEF vars
<1> QED
  BY <1>1, <1>2, <1>3, <1>4, <1>5, <1>6 DEF Next

(* Every reachable state satisfies the inductive invariant. *)
LEMMA SpecIInv == Spec => []IInv
BY InitIInv, NextIInv, PTL DEF Spec

(* Type correctness (FileBasis.py:299-334). *)
THEOREM SpecTypeOK == Spec => []TypeOK
BY SpecIInv, PTL DEF IInv

(* The count is the number of clients that owe a restore, however many     *)
(* clients there are and in whatever order they come and go.               *)
THEOREM SpecCounterIsClients == Spec => []CounterIsClients
BY SpecIInv, PTL DEF IInv

(* The copy exists exactly while a restore is owed and is the original.    *)
THEOREM SpecBackupIsPristine == Spec => []BackupIsPristine
BY SpecIInv, PTL DEF IInv

(* After the last restore the file is the original again.                  *)
THEOREM SpecRestoredWhenUnused == Spec => []RestoredWhenUnused
BY SpecIInv, PTL DEF IInv
-------------------------------------------------------------------------
(* A step of BackupFile is a step of ControlledFile or leaves what         *)
(* ControlledFile sees unchanged.                                          *)
LEMMA StepRefines ==
    IInv /\ [Next]_vars => [Controlled!Next]_(Controlled!vars)
<1> SUFFICES ASSUME IInv, [Next]_vars
             PROVE  [Controlled!Next]_(Controlled!vars)
  OBVIOUS
<1> USE DEF IInv, TypeOK, CounterIsClients, CopyExists, BackupIsPristine,
            RestoredWhenUnused
<1>0. IsFiniteSet(fresh) /\ (Cardinality(fresh) = 0 <=> fresh = {})
  BY FreshIsFinite, FS_EmptySet
<1>1. ASSUME NEW c \in Clients, Open(c)
      PROVE  Controlled!Acquire(c)
  <2>1. counter' = counter + 1 /\ counter' # 0
    BY <1>1 DEF Open, OpenWithBackup
  <2>2. backup' = IF counter = 0 THEN file ELSE backup
    BY <1>1 DEF Open, OpenWithBackup
  <2> QED
    BY <1>1, <2>1, <2>2 DEF Open, Controlled!Acquire
<1>2. ASSUME NEW c \in Clients, Write(c)
      PROVE  UNCHANGED Controlled!vars
  <2>1. counter # 0
    BY <1>0, <1>2 DEF Write
  <2> QED
    BY <1>2, <2>1 DEF Write, Controlled!vars
<1>3. ASSUME NEW c \in Clients, Reset(c)
      PROVE  Controlled!Release(c)
  <2>1. counter \in Nat \ {0} /\ counter' = counter - 1
    BY <1>0, <1>3 DEF Reset, RestoreFromBackup
  <2>2. (IF counter' = 0 THEN file' ELSE backup') = backup
    <3>1. CASE counter = 1
      BY <1>3, <2>1, <3>1 DEF Reset, RestoreFromBackup
    <3>2. CASE counter # 1
      <4>1. counter' # 0 /\ backup' = backup
        BY <1>3, <2>1, <3>2 DEF Reset, RestoreFromBackup
      <4> QED
        BY <4>1
    <3> QED
      BY <3>1, <3>2
  <2>3. (IF counter = 0 THEN file ELSE backup) = backup
    BY <2>1
  <2> QED
    BY <1>3, <2>2, <2>3 DEF Reset, Controlled!Release
<1>4. CASE Edit
  <2>1. CASE counter = 0
    BY <1>0, <1>4, <2>1 DEF Edit, Controlled!Next, Controlled!Edit
  <2>2. CASE counter # 0
    BY <1>4, <2>2 DEF Edit, Controlled!vars
  <2> QED
    BY <2>1, <2>2
<1>5. CASE Crash
  BY <1>5 DEF Crash, Controlled!Next, Controlled!Crash
<1>6. CASE UNCHANGED vars
  BY <1>6 DEF vars, Controlled!vars
<1> QED
  BY <1>1, <1>2, <1>3, <1>4, <1>5, <1>6 DEF Next, Controlled!Next

(* The reference count implements ControlledFile: temporary changes of any *)
(* number of clients never touch the lasting content of the file.          *)
THEOREM BackupFileRefines == Spec => ControlledSpec
<1>1. Init => Controlled!Init
  BY DEF Init, Controlled!Init
<1> QED
  BY <1>1, StepRefines, SpecIInv, PTL
     DEF Spec, ControlledSpec, Controlled!Spec
-------------------------------------------------------------------------
(* The only step that takes the user's content off the disk is the copy    *)
(* over a leftover .backup.                                                *)
LEMMA StepLoses ==
    IInv /\ [Next]_vars
        => (Protected /\ pristine' = pristine /\ ~Protected'
              => Leftover /\ counter' = 1)
<1> SUFFICES ASSUME IInv, [Next]_vars,
                    Protected, pristine' = pristine, ~Protected'
             PROVE  Leftover /\ counter' = 1
  OBVIOUS
<1> USE DEF IInv, TypeOK, CounterIsClients, CopyExists, Protected
<1>0. IsFiniteSet(fresh) /\ (Cardinality(fresh) = 0 <=> fresh = {})
  BY FreshIsFinite, FS_EmptySet
<1>1. ASSUME NEW c \in Clients, Open(c)
      PROVE  Leftover /\ counter' = 1
  <2>1. counter' = counter + 1 /\ file' = file
    BY <1>1 DEF Open, OpenWithBackup
  <2>2. CASE counter = 0
    <3>1. backup' = file /\ counter' = 1
      BY <1>1, <2>2 DEF Open, OpenWithBackup
    <3>2. backup = pristine
      BY <2>2, <3>1
    <3> QED
      BY <2>2, <3>1, <3>2, NoFileAssumption DEF Leftover
  <2>3. CASE counter # 0
    <3>1. backup' = backup /\ counter > 0 /\ counter' > 0
      BY <1>1, <2>1, <2>3 DEF Open, OpenWithBackup
    <3> QED
      BY <3>1
  <2> QED
    BY <2>2, <2>3
<1>2. ASSUME NEW c \in Clients, Write(c)
      PROVE  FALSE
  <2>1. counter > 0
    BY <1>0, <1>2 DEF Write
  <2> QED
    BY <1>2, <2>1 DEF Write
<1>3. ASSUME NEW c \in Clients, Reset(c)
      PROVE  FALSE
  <2>1. counter \in Nat \ {0} /\ counter' = counter - 1
    BY <1>0, <1>3 DEF Reset, RestoreFromBackup
  <2>2. CASE counter = 1
    <3>1. file' = backup /\ counter' = 0
      BY <1>3, <2>1, <2>2 DEF Reset, RestoreFromBackup
    <3> QED
      BY <2>2, <3>1
  <2>3. CASE counter # 1
    <3>1. backup' = backup /\ counter > 0 /\ counter' > 0
      BY <1>3, <2>1, <2>3 DEF Reset, RestoreFromBackup
    <3> QED
      BY <3>1
  <2> QED
    BY <2>1, <2>2, <2>3
<1>4. CASE Edit
  BY <1>4 DEF Edit
<1>5. CASE Crash
  BY <1>5 DEF Crash
<1>6. CASE UNCHANGED vars
  BY <1>6 DEF vars
<1> QED
  BY <1>1, <1>2, <1>3, <1>4, <1>5, <1>6 DEF Next

(* However often processes die, and whatever the clients do, the user's    *)
(* content is lost only when a new process copies over a leftover .backup. *)
THEOREM CrashLosesOnlyOverLeftover == Spec => LostOnlyOverLeftover
<1>1. /\ IInv
      /\ [Next]_vars
      => [Protected /\ pristine' = pristine /\ ~Protected'
            => Leftover /\ counter' = 1]_vars
  BY StepLoses
<1> QED
  BY <1>1, SpecIInv, PTL DEF Spec, LostOnlyOverLeftover
=========================================================================
