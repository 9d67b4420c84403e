----------------------- MODULE RestartLoopProofs -----------------------
(***************************************************************************)
(* Proofs about RestartLoop for any bounds on times, clock and restarts:   *)
(* the loop decides rightly from a list of times that may be old.          *)
(***************************************************************************)
EXTENDS RestartLoop, FiniteSetTheorems, WellFoundedInduction, TLAPS

(* What the loop knows, place by place.  When a run is started the last    *)
(* time that is known is the last one on disk, however old the list is;    *)
(* while the run goes on this stays the last time that was known, and the  *)
(* list counts as up to date only if the run began in the second of the    *)
(* last change and no write changed the directory in a later one.          *)
Known ==
    /\ DOMAIN logs \subseteq 0..startNr
    /\ startNr > 0 \/ DOMAIN logs # {} => 0 \in DOMAIN logs
    /\ startNr > 0 => before \in Times
    /\ 0 \in OnDisk
    /\ at = "begin" => startNr = 0 /\ last = LastOnDisk
    /\ at = "start" =>
         /\ startNr < MaximumRestarts
         /\ lastWrittenTime = last /\ last = LastOnDisk
         /\ startNr > 0 => LastOnDisk > before
    /\ at \in {"run", "check"} =>
         /\ lastWrittenTime = last /\ last = before
         /\ LastOnDisk >= before
         /\ ctime <= lastReread => begunAtOnce /\ ~wroteLater

IInv == TypeOK /\ Known /\ StopsRightly
-------------------------------------------------------------------------
(* Lemmas about Min and Max *)

(* A set of natural numbers that is not empty has a first one. *)
LEMMA MinOf ==
    ASSUME NEW S \in SUBSET Nat, S # {}
    PROVE  Min(S) \in S /\ \A y \in S : Min(S) <= y
<1> DEFINE R == {ss \in Nat \X Nat : ss[1] < ss[2]}
<1>1. IsWellFoundedOn(R, Nat)
  BY NatLessThanWellFounded DEF OpToRel
<1>2. PICK x \in S : \A y \in S : ~ (<<y, x>> \in R)
  <2> HIDE DEF R
  <2> QED
    BY <1>1, WFMin
<1>3. ASSUME NEW y \in S
      PROVE  x <= y
  <2>1. <<y, x>> \in Nat \X Nat /\ <<y, x>>[1] = y /\ <<y, x>>[2] = x
    OBVIOUS
  <2>2. ~ (y < x)
    BY <1>2, <2>1
  <2> QED
    BY <2>2
<1> QED
  BY <1>3 DEF Min

(* A set of times that is not empty has a last one. *)
LEMMA MaxOf ==
    ASSUME NEW n \in Nat, NEW S \in SUBSET (0..n), S # {}
    PROVE  Max(S) \in S /\ \A y \in S : Max(S) >= y
<1> DEFINE T == {n - x : x \in S}
<1>1. T \subseteq Nat /\ T # {}
  <2>1. \A x \in S : n - x \in Nat
    OBVIOUS
  <2> QED
    BY <2>1
<1>2. Min(T) \in T /\ \A u \in T : Min(T) <= u
  BY <1>1, MinOf
<1>3. PICK x \in S : Min(T) = n - x
  BY <1>2
<1>4. \A y \in S : x >= y
  BY <1>2, <1>3
<1> QED
  BY <1>4 DEF Max

(* The last time on disk is one of them. *)
LEMMA LastOf ==
    ASSUME TypeOK, 0 \in OnDisk
    PROVE  /\ LastOnDisk \in OnDisk /\ LastOnDisk \in Times
           /\ \A t \in OnDisk : LastOnDisk >= t
<1>1. OnDisk \in SUBSET (0..MaxTime) /\ OnDisk # {} /\ MaxTime \in Nat
  BY BoundsAssumption DEF TypeOK, OnDisk, TimesSeen, Times
<1> QED
  BY <1>1, MaxOf DEF LastOnDisk, Times
-------------------------------------------------------------------------
(* The initial states. *)
LEMMA InitInv == Init => IInv
<1> SUFFICES ASSUME Init
             PROVE  IInv
  OBVIOUS
<1>1. /\ times.case \in {{0}, {0, 1}}
      /\ times.processor0 \in {{}, {0}, {0, 1}}
      /\ case.processors => times.processor0 # {}
      /\ times = [case |-> times.case, processor0 |-> times.processor0]
  BY DEF Init
<1>2. case \in Cases /\ case.parallel \in BOOLEAN /\ case.processors \in BOOLEAN
  BY CasesAssumption DEF Init
<1>3. times \in [case : SUBSET Times, processor0 : SUBSET Times]
  BY <1>1, BoundsAssumption DEF Times
<1>4. 0 \in OnDisk /\ OnDisk \in SUBSET (0..MaxTime)
  BY <1>1, <1>2, BoundsAssumption DEF OnDisk, TimesSeen
<1>5. LastOnDisk \in Times
  BY <1>4, MaxOf, BoundsAssumption DEF LastOnDisk, Times
<1>6. /\ DOMAIN logs \subseteq {0}
      /\ \A i \in DOMAIN logs : logs[i] = 0
  BY DEF Init
<1>7. TypeOK
  <2>1. /\ MaxTime \in Nat \ {0} /\ MaxClock \in Nat /\ MinimumSteps \in Nat \ {0}
        /\ MaximumRestarts \in Nat \ {0}
    BY BoundsAssumption
  <2>2. /\ DOMAIN logs \subseteq 0..(MaximumRestarts + 1)
        /\ \A i \in DOMAIN logs : logs[i] \in 0..startNr
    BY <1>6, <2>1 DEF Init
  <2>3. /\ endTime \in Times /\ last \in Times
        /\ clock \in 0..MaxClock /\ ctime \in 0..clock /\ lastReread \in 0..ctime
        /\ startNr \in 0..MaximumRestarts /\ stepNr \in 0..MinimumSteps
        /\ now \in Times
    BY <1>5, <2>1 DEF Init, Times
  <2> QED
    BY <1>2, <1>3, <2>2, <2>3 DEF Init, TypeOK
<1>8. Known
  BY <1>4, <1>6 DEF Init, Known
<1> QED
  BY <1>7, <1>8 DEF IInv, StopsRightly, Init
-------------------------------------------------------------------------
(* What checkRestart decides. *)
LEMMA Decides ==
    ASSUME TypeOK, 0 \in OnDisk, NEW withData, CheckRestart(withData)
    PROVE  /\ last' \in Times /\ lastReread' \in 0..ctime
           /\ \/ last' = last /\ ctime <= lastReread
              \/ last' = LastOnDisk
           /\ lastWrittenTime' \in Times \cup {NoTime}
           /\ reason' \in {"none", "endTime", "noProgress", "fewSteps"}
           /\ reason' = "none" => /\ lastWrittenTime' = last'
                                  /\ lastWrittenTime # last'
           /\ reason' = "noProgress" => lastWrittenTime = last'
<1>1. /\ last' \in Times /\ lastReread' \in 0..ctime
      /\ \/ last' = last /\ ctime <= lastReread
         \/ last' = LastOnDisk
  BY LastOf DEF CheckRestart, GetLast, TypeOK, solVars
<1> DEFINE few == withData /\ stepNr \in 1..(MinimumSteps - 1)
<1>2. /\ reason' = IF last' = endTime THEN "endTime"
                   ELSE IF lastWrittenTime = last' THEN "noProgress"
                   ELSE IF few THEN "fewSteps" ELSE "none"
      /\ lastWrittenTime' = IF last' = endTime THEN lastWrittenTime ELSE last'
  BY DEF CheckRestart
<1> HIDE DEF few
<1> QED
  BY <1>1, <1>2 DEF TypeOK

(* Every step preserves the invariant. *)
LEMMA NextInv == IInv /\ [Next]_vars => IInv'
<1> SUFFICES ASSUME IInv, [Next]_vars
             PROVE  IInv'
  OBVIOUS
<1> USE DEF IInv
<1>0. /\ LastOnDisk \in OnDisk /\ LastOnDisk \in Times
      /\ \A t \in OnDisk : LastOnDisk >= t
  BY LastOf DEF Known
<1>a. MaxTime \in Nat \ {0} /\ MaxClock \in Nat /\ MinimumSteps \in Nat \ {0}
      /\ MaximumRestarts \in Nat \ {0}
  BY BoundsAssumption
<1>b. ASSUME UNCHANGED <<case, times>>
      PROVE  OnDisk' = OnDisk /\ LastOnDisk' = LastOnDisk
  BY <1>b DEF OnDisk, TimesSeen, LastOnDisk
<1>1. CASE Tick
  <2>1. clock' \in 0..MaxClock /\ ctime' = ctime /\ ctime \in 0..clock'
    BY <1>1, <1>a DEF Tick, TypeOK, clockVars
  <2>2. TypeOK'
    BY <1>1, <2>1 DEF Tick, TypeOK, diskVars, solVars, loopVars, runVars,
                     historyVars
  <2>3. Known' /\ StopsRightly'
    BY <1>1, <1>b, <2>1 DEF Tick, Known, StopsRightly, diskVars, solVars,
                            loopVars, runVars, historyVars
  <2> QED
    BY <2>2, <2>3
<1>2. CASE Begin
  <2>1. /\ CheckRestart(FALSE) /\ at = "begin"
        /\ at' = IF reason' = "none" THEN "start" ELSE "ended"
        /\ UNCHANGED <<case, diskVars, clockVars, startNr, runVars, historyVars>>
    BY <1>2 DEF Begin
  <2>2. /\ last' \in Times /\ lastReread' \in 0..ctime
        /\ last' = LastOnDisk
        /\ lastWrittenTime' \in Times \cup {NoTime}
        /\ reason' \in {"none", "endTime", "noProgress", "fewSteps"}
        /\ reason' = "none" => lastWrittenTime' = last'
    BY <2>1, Decides DEF Known
  <2>3. TypeOK'
    BY <2>1, <2>2 DEF TypeOK, diskVars, clockVars, runVars, historyVars
  <2>4. OnDisk' = OnDisk /\ LastOnDisk' = LastOnDisk
    BY <1>b, <2>1 DEF diskVars
  <2>5. Known' /\ StopsRightly'
    BY <1>a, <2>1, <2>2, <2>4 DEF Known, StopsRightly, diskVars, clockVars,
                                  runVars, historyVars
  <2> QED
    BY <2>3, <2>5
<1>3. CASE Start
  <2>1. /\ at = "start" /\ at' = "run"
        /\ startNr' = startNr + 1
        /\ startNr < MaximumRestarts
        /\ startNr \in Nat
    BY <1>3 DEF Start, Known, TypeOK
  <2> DEFINE free == {i \in 1..(MaximumRestarts + 1) : i \notin DOMAIN logs}
  <2>2. startNr + 1 \in free /\ free \in SUBSET Nat
    BY <2>1, <1>a DEF Known
  <2>3. Min(free) \in free /\ Min(free) <= startNr + 1
    BY <2>2, MinOf
  <2>4. LogNumber \in 0..(startNr + 1)
    BY <2>1, <2>3 DEF LogNumber
  <2>5. /\ DOMAIN logs' \subseteq DOMAIN logs \cup {LogNumber}
        /\ \A i \in DOMAIN logs' : logs'[i] = startNr + 1 \/
                                   (i \in DOMAIN logs /\ logs'[i] = logs[i])
    BY <1>3 DEF Start, OpenLog
  <2>6. /\ DOMAIN logs' \subseteq 0..startNr'
        /\ \A i \in DOMAIN logs' : logs'[i] \in 0..startNr'
    <3>1. DOMAIN logs' \subseteq 0..startNr'
      BY <2>1, <2>4, <2>5 DEF Known
    <3>2. \A i \in DOMAIN logs : logs[i] \in 0..startNr
      BY DEF TypeOK
    <3>3. ASSUME NEW i \in DOMAIN logs'
          PROVE  logs'[i] \in 0..startNr'
      BY <2>1, <2>5, <3>2
    <3> QED
      BY <3>1, <3>3
  <2>7. TypeOK'
    <3>1. DOMAIN logs' \subseteq 0..(MaximumRestarts + 1)
          /\ startNr' \in 0..MaximumRestarts
      BY <2>1, <2>6, <1>a
    <3>2. /\ ctime' = clock /\ clock' = clock /\ ctime' \in 0..clock'
          /\ lastReread' \in 0..ctime'
      BY <1>3, <1>a DEF Start, TypeOK, solVars
    <3>b. begunAtOnce' \in BOOLEAN /\ wroteLater' \in BOOLEAN
      BY <1>3, Zenon DEF Start
    <3>3. /\ UNCHANGED <<case, times, endTime, clock, last, lastReread,
                         lastWrittenTime, reason>>
          /\ now' \in Times /\ before' \in Times /\ stepNr' \in 0..MinimumSteps
          /\ keyboardInterrupt' \in BOOLEAN
      <4>1. 0 \in 0..MinimumSteps /\ FALSE \in BOOLEAN
        BY <1>a
      <4> QED
        BY <1>3, <1>0, <4>1 DEF Start, solVars
    <3> QED
      BY <2>1, <2>6, <3>1, <3>2, <3>b, <3>3 DEF TypeOK
  <2>8. OnDisk' = OnDisk /\ LastOnDisk' = LastOnDisk
    BY <1>3, <1>b DEF Start
  <2>9. ctime' <= lastReread' => begunAtOnce' /\ ~wroteLater'
    <3>1. ASSUME ctime' <= lastReread'
          PROVE  ctime = clock
      BY <1>3, <1>a, <3>1 DEF Start, TypeOK, solVars
    <3>2. begunAtOnce' = (ctime = clock) /\ wroteLater' = FALSE
      BY <1>3 DEF Start
    <3> QED
      BY <3>1, <3>2
  <2>10. Known' /\ StopsRightly'
    <3>1. 0 \in DOMAIN logs' /\ before' \in Times
      BY <1>3, <1>0 DEF Start, OpenLog, IsRestart, LogNumber
    <3> QED
      BY <1>3, <1>0, <2>1, <2>6, <2>8, <2>9, <3>1 DEF Start, Known, StopsRightly,
                                           solVars, TypeOK, Times
  <2> QED
    BY <2>7, <2>10
<1>4. CASE Check
  <2>1. /\ CheckRestart(TRUE) /\ at = "check"
        /\ at' = IF \/ keyboardInterrupt \/ reason' # "none"
                    \/ startNr >= MaximumRestarts
                   THEN "ended" ELSE "start"
        /\ UNCHANGED <<case, diskVars, clockVars, startNr, runVars, historyVars>>
    BY <1>4 DEF Check
  <2>2. /\ last' \in Times /\ lastReread' \in 0..ctime
        /\ \/ last' = last /\ ctime <= lastReread
           \/ last' = LastOnDisk
        /\ lastWrittenTime' \in Times \cup {NoTime}
        /\ reason' \in {"none", "endTime", "noProgress", "fewSteps"}
        /\ reason' = "none" => /\ lastWrittenTime' = last'
                               /\ lastWrittenTime # last'
        /\ reason' = "noProgress" => lastWrittenTime = last'
    BY <2>1, Decides DEF Known
  <2>3. TypeOK'
    BY <2>1, <2>2 DEF TypeOK, diskVars, clockVars, runVars, historyVars
  <2>4. OnDisk' = OnDisk /\ LastOnDisk' = LastOnDisk
    BY <1>b, <2>1 DEF diskVars
  <2>5. /\ lastWrittenTime = last /\ last = before /\ LastOnDisk >= before
        /\ ctime <= lastReread => begunAtOnce /\ ~wroteLater
    BY <2>1 DEF Known
  <2>6. at' = "start" => /\ startNr' < MaximumRestarts
                         /\ lastWrittenTime' = last' /\ last' = LastOnDisk'
                         /\ LastOnDisk' > before'
    BY <1>0, <1>a, <2>1, <2>2, <2>4, <2>5 DEF historyVars, TypeOK, Times
  <2>7. Known'
    BY <2>1, <2>4, <2>6 DEF Known, diskVars, historyVars
  <2>8. StopsRightly'
    BY <2>1, <2>2, <2>4, <2>5 DEF StopsRightly, historyVars
  <2> QED
    BY <2>3, <2>7, <2>8
<1>5. CASE Step
  <2>1. /\ now' = now + 1 /\ now < endTime /\ at = "run" /\ now \in Nat
        /\ endTime \in 0..MaxTime
    BY <1>5 DEF Step, TypeOK, Times
  <2>2. stepNr' \in 0..MinimumSteps
    <3>1. {stepNr + 1, MinimumSteps} \in SUBSET Nat
      BY <1>a DEF TypeOK
    <3>2. /\ stepNr' = Min({stepNr + 1, MinimumSteps})
          /\ Min({stepNr + 1, MinimumSteps}) \in {stepNr + 1, MinimumSteps}
          /\ Min({stepNr + 1, MinimumSteps}) <= MinimumSteps
      BY <1>5, <3>1, MinOf DEF Step
    <3> QED
      BY <1>a, <3>2 DEF TypeOK
  <2>3. TypeOK'
    BY <1>5, <1>a, <2>1, <2>2 DEF Step, TypeOK, Times, diskVars, clockVars, solVars,
                                  loopVars, historyVars
  <2>4. Known' /\ StopsRightly'
    BY <1>5, <1>b, <2>1 DEF Step, Known, StopsRightly, diskVars, clockVars, solVars,
                            loopVars, historyVars
  <2> QED
    BY <2>3, <2>4
<1>6. CASE Write
  <2>1. /\ at = "run" /\ at' = "run"
        /\ UNCHANGED <<case, logs, endTime, clock, last, lastReread, startNr,
                       lastWrittenTime, reason, now, stepNr, keyboardInterrupt,
                       before>>
        /\ now \in Times
    BY <1>6 DEF Write, solVars, loopVars, runVars, TypeOK
  <2>2. /\ times' \in [case : SUBSET Times, processor0 : SUBSET Times]
        /\ OnDisk \subseteq OnDisk'
        /\ ctime' \in 0..clock' /\ lastReread' \in 0..ctime'
        /\ wroteLater' \in BOOLEAN /\ begunAtOnce' = begunAtOnce
        /\ ctime' <= lastReread' => begunAtOnce' /\ ~wroteLater'
    <3>1. /\ times = [case |-> times.case, processor0 |-> times.processor0]
          /\ times.case \in SUBSET Times /\ times.processor0 \in SUBSET Times
          /\ case.parallel => case.processors
      BY CasesAssumption DEF TypeOK
    <3>2. CASE case.parallel
      <4>1. times' = [times EXCEPT !.processor0 = @ \cup {now}]
            /\ UNCHANGED <<ctime, wroteLater, begunAtOnce>>
        BY <1>6, <3>2 DEF Write
      <4>2. times' = [case |-> times.case,
                      processor0 |-> times.processor0 \cup {now}]
        BY <3>1, <4>1
      <4>3. times' \in [case : SUBSET Times, processor0 : SUBSET Times]
        BY <2>1, <3>1, <4>2
      <4>4. OnDisk = times.processor0 /\ OnDisk' = times'.processor0
        BY <2>1, <3>1, <3>2 DEF OnDisk, TimesSeen
      <4> QED
        BY <2>1, <4>1, <4>2, <4>3, <4>4 DEF TypeOK, Known
    <3>3. CASE ~case.parallel
      <4>1. times' = [times EXCEPT !.case = @ \cup {now}]
            /\ ctime' = clock /\ wroteLater' = (wroteLater \/ ctime # clock)
            /\ begunAtOnce' = begunAtOnce
        BY <1>6, <3>3 DEF Write
      <4>2. times' = [case |-> times.case \cup {now},
                      processor0 |-> times.processor0]
        BY <3>1, <4>1
      <4>3. times' \in [case : SUBSET Times, processor0 : SUBSET Times]
        BY <2>1, <3>1, <4>2
      <4>4. OnDisk = times.case /\ OnDisk' = times'.case
        BY <2>1, <3>1, <3>3 DEF OnDisk, TimesSeen
      <4>5. /\ ctime' \in 0..clock' /\ lastReread' \in 0..ctime'
            /\ ctime' <= lastReread' => ctime = clock /\ ctime <= lastReread
        BY <1>a, <2>1, <4>1 DEF TypeOK
      <4>6. ctime' <= lastReread' => begunAtOnce' /\ ~wroteLater'
        BY <2>1, <4>1, <4>5 DEF Known
      <4>7. wroteLater' \in BOOLEAN
        BY <4>1
      <4> QED
        BY <4>1, <4>2, <4>3, <4>4, <4>5, <4>6, <4>7, Zenon
    <3> QED
      BY <3>2, <3>3
  <2>3. TypeOK'
    BY <2>1, <2>2 DEF TypeOK
  <2>4. 0 \in OnDisk'
    BY <2>2 DEF Known
  <2>5. LastOnDisk' \in Times /\ \A t \in OnDisk' : LastOnDisk' >= t
    <3>1. OnDisk' \in SUBSET (0..MaxTime)
      BY <2>2, <2>1, CasesAssumption DEF OnDisk, TimesSeen, Times, TypeOK
    <3> QED
      BY <1>a, <2>4, <3>1, MaxOf DEF LastOnDisk, Times
  <2>6. LastOnDisk' >= LastOnDisk
    BY <1>0, <2>2, <2>5
  <2>7. Known'
    BY <1>0, <2>1, <2>2, <2>4, <2>5, <2>6 DEF Known, TypeOK, Times
  <2> QED
    BY <2>1, <2>3, <2>7 DEF StopsRightly
<1>7. CASE SolverEnds
  <2>1. /\ at = "run" /\ at' = "check" /\ keyboardInterrupt' \in BOOLEAN
        /\ UNCHANGED <<case, diskVars, clockVars, solVars, startNr,
                       lastWrittenTime, reason, now, stepNr, historyVars>>
    BY <1>7 DEF SolverEnds
  <2>2. TypeOK'
    BY <2>1 DEF TypeOK, diskVars, clockVars, solVars, historyVars
  <2>3. Known' /\ StopsRightly'
    BY <1>b, <2>1 DEF Known, StopsRightly, diskVars, clockVars, solVars, historyVars
  <2> QED
    BY <2>2, <2>3
<1>8. CASE EditEndTime
  <2>1. /\ at = "run" /\ endTime' \in 1..MaxTime
        /\ UNCHANGED <<case, times, logs, clockVars, solVars, loopVars, runVars,
                       historyVars>>
    BY <1>8 DEF EditEndTime
  <2>2. TypeOK'
    BY <1>a, <2>1 DEF TypeOK, Times, clockVars, solVars, loopVars, runVars,
                      historyVars
  <2>3. Known' /\ StopsRightly'
    BY <1>b, <2>1 DEF Known, StopsRightly, clockVars, solVars, loopVars, runVars,
                      historyVars
  <2> QED
    BY <2>2, <2>3
<1>9. CASE UNCHANGED vars
  <2>1. UNCHANGED <<case, diskVars, clockVars, solVars, loopVars, runVars,
                    historyVars>>
    BY <1>9 DEF vars
  <2>2. TypeOK'
    BY <2>1 DEF TypeOK, diskVars, clockVars, solVars, loopVars, runVars,
                historyVars
  <2>3. Known' /\ StopsRightly'
    BY <1>b, <2>1 DEF Known, StopsRightly, diskVars, clockVars, solVars, loopVars,
                      runVars, historyVars
  <2> QED
    BY <2>2, <2>3
<1> QED
  BY <1>1, <1>2, <1>3, <1>4, <1>5, <1>6, <1>7, <1>8, <1>9 DEF Next
-------------------------------------------------------------------------
(* The inductive invariant holds. *)
THEOREM SpecIInv == Spec => []IInv
  BY InitInv, NextInv, PTL DEF Spec

(* Every state is well typed: no time or number of a log beyond its bound. *)
THEOREM SpecTypeOK == Spec => []TypeOK
  BY SpecIInv, PTL DEF IInv

(* "Further restarts make no sense" is said rightly, for any number of     *)
(* runs and times, but of runs that begin in the second of the last change *)
(* of the directory of the case and do not change it in a later one.       *)
THEOREM SpecStopsRightly == Spec => []StopsRightly
  BY SpecIInv, PTL DEF IInv

(* There is no restart without progress, however old the list of times is. *)
THEOREM SpecRestartsOnlyAfterProgress == Spec => RestartsOnlyAfterProgress
<1>1. ASSUME IInv, [Next]_vars
      PROVE  [startNr > 0 /\ startNr' > startNr => LastOnDisk > before]_vars
  <2>1. CASE Start
    BY <1>1, <2>1 DEF Start, IInv, Known
  <2>2. ASSUME UNCHANGED startNr
        PROVE  ~(startNr' > startNr)
    BY <1>1, <2>2 DEF IInv, TypeOK
  <2>3. CASE Tick \/ Begin \/ Check \/ Step \/ Write \/ SolverEnds \/ EditEndTime
    BY <2>2, <2>3 DEF Tick, Begin, Check, Step, Write, SolverEnds, EditEndTime,
                      loopVars
  <2>4. CASE UNCHANGED vars
    BY <2>4
  <2> QED
    BY <1>1, <2>1, <2>3, <2>4 DEF Next
<1>2. IInv /\ [Next]_vars
        => [startNr > 0 /\ startNr' > startNr => LastOnDisk > before]_vars
  BY <1>1
<1> QED
  BY <1>2, SpecIInv, PTL DEF Spec, RestartsOnlyAfterProgress

(* A log is replaced only by the first run of a case that has no times but *)
(* the one it starts from, if a serial run has no processor directories.   *)
THEOREM SpecKeepsLogs == Spec => KeepsLogs
<1> DEFINE Keeps == \A i \in DOMAIN logs :
                       Lost(i) /\ (case.processors => case.parallel) =>
                         startNr = 0 /\ OnDisk = {0}
<1>1. ASSUME IInv, [Next]_vars, NEW i \in DOMAIN logs, Lost(i),
             case.processors => case.parallel
      PROVE  startNr = 0 /\ OnDisk = {0}
  <2>1. Start
    <3>1. ASSUME logs' = logs
          PROVE  FALSE
      BY <1>1, <3>1 DEF Lost
    <3> QED
      BY <1>1, <3>1 DEF Next, Tick, Begin, Check, Step, Write, SolverEnds,
                        EditEndTime, vars, diskVars
  <2>2. ~IsRestart
    <3>1. SUFFICES ASSUME IsRestart
                   PROVE  FALSE
      OBVIOUS
    <3> DEFINE free == {j \in 1..(MaximumRestarts + 1) : j \notin DOMAIN logs}
    <3>2. startNr + 1 \in free /\ free \in SUBSET Nat
      BY <1>1, <2>1, BoundsAssumption DEF IInv, Known, TypeOK, Start
    <3>3. LogNumber \notin DOMAIN logs
      BY <3>1, <3>2, MinOf DEF LogNumber
    <3>4. i \in DOMAIN logs' /\ logs'[i] = logs[i]
      BY <2>1, <3>1, <3>3, <1>1 DEF Start, OpenLog
    <3> QED
      BY <1>1, <3>4 DEF Lost
  <2>3. 0 \in DOMAIN logs /\ 0 \in OnDisk
    BY <1>1 DEF IInv, Known
  <2>4. TimesSeen(TRUE) = OnDisk
    BY <1>1, CasesAssumption DEF TimesSeen, OnDisk, IInv, TypeOK
  <2>5. ~(Cardinality(OnDisk) > 1)
    BY <2>2, <2>3, <2>4 DEF IsRestart
  <2>6. IsFiniteSet(OnDisk)
    <3>1. OnDisk \subseteq 0..MaxTime
      BY <1>1, CasesAssumption DEF OnDisk, TimesSeen, Times, IInv, TypeOK
    <3>2. IsFiniteSet(0..MaxTime)
      BY FS_Interval, BoundsAssumption
    <3> QED
      BY <3>1, <3>2, FS_Subset
  <2>7. OnDisk = {0}
    <3>1. SUFFICES ASSUME NEW t \in OnDisk, t # 0
                   PROVE  FALSE
      BY <2>3
    <3>2. {0, t} \subseteq OnDisk /\ Cardinality({0, t}) = 2
      <4>1. IsFiniteSet({0}) /\ Cardinality({0}) = 1
        BY FS_Singleton
      <4>2. Cardinality({0} \cup {t}) = 1 + 1
        BY <3>1, <4>1, FS_AddElement
      <4>3. {0} \cup {t} = {0, t}
        OBVIOUS
      <4> QED
        BY <2>3, <3>1, <4>2, <4>3
    <3>3. Cardinality({0, t}) <= Cardinality(OnDisk)
      BY <2>6, <3>2, FS_Subset
    <3> QED
      BY <2>5, <2>6, <3>2, <3>3, FS_CardinalityType
  <2>8. LastOnDisk = 0
    BY <1>1, <2>7, LastOf DEF IInv, Known
  <2> QED
    BY <1>1, <2>1, <2>7, <2>8, BoundsAssumption DEF IInv, Known, TypeOK, Start, Times
<1>2. IInv /\ [Next]_vars => [Keeps]_vars
  BY <1>1
<1> QED
  BY <1>2, SpecIInv, PTL DEF Spec, KeepsLogs
=========================================================================
