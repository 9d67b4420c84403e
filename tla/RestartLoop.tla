--------------------------- MODULE RestartLoop ---------------------------
(***************************************************************************)
(* pyFoamRestartRunner (Applications/RestartRunner.py): the solver is run  *)
(* again and again until it reaches endTime, makes no progress, or is      *)
(* interrupted.                                                            *)
(*                                                                         *)
(* Whether there was progress is decided from the times on disk, as one    *)
(* SolutionDirectory, kept for the whole loop, knows them: it lists them   *)
(* again only if the change time of the directory of the case, in whole    *)
(* seconds, is newer than at the last listing.  The solver of a parallel   *)
(* run writes its times to processor0, below that directory.  The name of  *)
(* the log of a run is found from the logs that exist and from another     *)
(* SolutionDirectory, which always looks into processor0 if it exists      *)
(* (BasicRunner.getSolutionDirectory).                                     *)
(***************************************************************************)
EXTENDS Integers, FiniteSets, FiniteSetsExt

CONSTANTS Cases,            \* records: is the run parallel, are there
                            \* processor directories
          MaxTime,          \* bound on the times of the simulation
          MaxClock,         \* bound on the seconds that pass
          MinimumSteps, MaximumRestarts     \* options of the application

ASSUME CasesAssumption ==
    Cases \subseteq {c \in [parallel : BOOLEAN, processors : BOOLEAN] :
                       c.parallel => c.processors}
ASSUME BoundsAssumption ==
    /\ MaxTime \in Nat \ {0} /\ MaxClock \in Nat
    /\ MinimumSteps \in Nat \ {0} /\ MaximumRestarts \in Nat \ {0}

VARIABLES
    case,           \* never changes
    times,          \* the times on disk, in the case and in processor0
    logs,           \* existing logs: 0 is the log, i+1 is .restart<i>; the
                    \* run that wrote it, 0 for an earlier application
    endTime,        \* in controlDict, which the user may edit
    clock, ctime,   \* now, and the change time of the directory, in seconds
    last, lastReread,       \* of the SolutionDirectory sol
    at,             \* where run is: "begin", "start", "run", "check", "ended"
    startNr, lastWrittenTime,
    now,            \* the time of the solver
    stepNr,         \* steps of this run, counted up to MinimumSteps
    keyboardInterrupt,
    reason,         \* why checkRestart wants no more runs
    before,         \* history: the last time on disk when the run started
    begunAtOnce,    \* history: the run began in the second in which the
                    \* directory of the case had changed last
    wroteLater      \* history: the run changed it again in a later second

diskVars == <<times, logs, endTime>>
clockVars == <<clock, ctime>>
solVars == <<last, lastReread>>
loopVars == <<at, startNr, lastWrittenTime, reason>>
runVars == <<now, stepNr, keyboardInterrupt>>
historyVars == <<before, begunAtOnce, wroteLater>>
vars == <<case, diskVars, clockVars, solVars, loopVars, runVars, historyVars>>

NoTime == -1

(* SolutionDirectory.reread: where it looks *)
TimesSeen(parallel) ==
    IF parallel /\ case.processors THEN times.processor0 ELSE times.case

(* The solver reads and writes its times in processor0 or in the case. *)
OnDisk == TimesSeen(case.parallel)
LastOnDisk == Max(OnDisk)

(* A case with the times of an earlier run, or only with time 0, and with  *)
(* the log of an earlier run or without.                                   *)
Init ==
    /\ case \in Cases
    /\ times \in [case : {{0}, {0, 1}},
                   processor0 : IF case.processors THEN {{0}, {0, 1}} ELSE {{}}]
    /\ logs \in {<<>>, [i \in {0} |-> 0]}
    /\ endTime \in 1..MaxTime
    /\ clock = 0 /\ ctime = 0
    /\ last = LastOnDisk /\ lastReread = 0
    /\ at = "begin"
    /\ startNr = 0 /\ lastWrittenTime = NoTime /\ reason = "none"
    /\ now = 0 /\ stepNr = 0 /\ keyboardInterrupt = FALSE
    /\ before = NoTime /\ begunAtOnce = FALSE /\ wroteLater = FALSE

Tick ==
    /\ at # "ended" /\ clock < MaxClock
    /\ clock' = clock + 1
    /\ UNCHANGED <<case, diskVars, ctime, solVars, loopVars, runVars, historyVars>>
-------------------------------------------------------------------------
(* Mutant: the time of the listing is kept, not the one of the change. *)
GetLastNow ==
    IF ctime <= lastReread THEN UNCHANGED solVars
    ELSE last' = LastOnDisk /\ lastReread' = clock

(* sol.getLast(), which calls reread *)
GetLast ==
    IF ctime <= lastReread THEN UNCHANGED solVars
    ELSE last' = LastOnDisk /\ lastReread' = ctime

(* Mutant: lastWrittenTime is set once and for all. *)
CheckRestartFirst(withData) ==
    LET noProgress == lastWrittenTime = last'
        fewSteps == withData /\ stepNr \in 1..(MinimumSteps - 1)
    IN  /\ GetLast
        /\ reason' = IF last' = endTime THEN "endTime"
                     ELSE IF noProgress THEN "noProgress"
                     ELSE IF fewSteps THEN "fewSteps" ELSE "none"
        /\ lastWrittenTime' = IF last' = endTime \/ lastWrittenTime # NoTime
                              THEN lastWrittenTime ELSE last'

(* checkRestart; at endTime lastWrittenTime stays as it is, and a run of   *)
(* which no step was seen has no stepNr.                                   *)
CheckRestart(withData) ==
    LET noProgress == lastWrittenTime = last'
        fewSteps == withData /\ stepNr \in 1..(MinimumSteps - 1)
    IN  /\ GetLast
        /\ reason' = IF last' = endTime THEN "endTime"
                     ELSE IF noProgress THEN "noProgress"
                     ELSE IF fewSteps THEN "fewSteps" ELSE "none"
        /\ lastWrittenTime' = IF last' = endTime THEN lastWrittenTime ELSE last'

(* Before the loop *)
Begin ==
    /\ at = "begin"
    /\ CheckRestart(FALSE)
    /\ at' = IF reason' = "none" THEN "start" ELSE "ended"
    /\ UNCHANGED <<case, diskVars, clockVars, startNr, runVars, historyVars>>

(* Mutant: the times of a parallel run are looked for in the case. *)
IsRestartSerial == 0 \in DOMAIN logs /\ Cardinality(TimesSeen(FALSE)) > 1

(* findRestartFiles in BasicRunner.__init__ *)
IsRestart == 0 \in DOMAIN logs /\ Cardinality(TimesSeen(TRUE)) > 1

LogNumber ==
    IF IsRestart THEN Min({i \in 1..(MaximumRestarts + 1) : i \notin DOMAIN logs})
    ELSE 0

(* If it is not a restart the log is overwritten and the logs of restarts  *)
(* are removed.                                                            *)
OpenLog(nr) ==
    logs' = [i \in (IF IsRestart THEN DOMAIN logs ELSE {}) \cup {LogNumber} |->
               IF i = LogNumber THEN nr ELSE logs[i]]

(* The constructor of AnalyzedRunner, which makes the directory .analyzed  *)
(* anew, and start: the solver goes on from its latest time.               *)
Start ==
    /\ at = "start"
    /\ at' = "run"
    /\ startNr' = startNr + 1
    /\ OpenLog(startNr + 1)
    /\ ctime' = clock
    /\ now' = LastOnDisk /\ stepNr' = 0 /\ keyboardInterrupt' = FALSE
    /\ before' = LastOnDisk /\ begunAtOnce' = (ctime = clock) /\ wroteLater' = FALSE
    /\ UNCHANGED <<case, times, endTime, clock, solVars, lastWrittenTime, reason>>

(* run.start() has returned. *)
Check ==
    /\ at = "check"
    /\ CheckRestart(TRUE)
    /\ at' = IF \/ keyboardInterrupt \/ reason' # "none"
                \/ startNr >= MaximumRestarts
               THEN "ended" ELSE "start"
    /\ UNCHANGED <<case, diskVars, clockVars, startNr, runVars, historyVars>>
-------------------------------------------------------------------------
(* The solver, external.  It writes some of its times and ends at endTime  *)
(* or fails before, maybe with its first step.                             *)

Step ==
    /\ at = "run" /\ now < endTime
    /\ now' = now + 1
    /\ stepNr' = Min({stepNr + 1, MinimumSteps})
    /\ UNCHANGED <<case, diskVars, clockVars, solVars, loopVars,
                   keyboardInterrupt, historyVars>>

(* A new directory in the case changes ctime, one in processor0 does not. *)
Write ==
    /\ at = "run" /\ stepNr > 0 /\ now \notin OnDisk
    /\ IF case.parallel
         THEN /\ times' = [times EXCEPT !.processor0 = @ \cup {now}]
              /\ UNCHANGED <<ctime, wroteLater>>
         ELSE /\ times' = [times EXCEPT !.case = @ \cup {now}]
              /\ ctime' = clock
              /\ wroteLater' = (wroteLater \/ ctime # clock)
    /\ UNCHANGED <<case, logs, endTime, clock, solVars, loopVars, runVars, before,
                   begunAtOnce>>

SolverEnds ==
    /\ at = "run"
    /\ at' = "check"
    /\ keyboardInterrupt' \in BOOLEAN
    /\ UNCHANGED <<case, diskVars, clockVars, solVars, startNr, lastWrittenTime,
                   reason, now, stepNr, historyVars>>

(* The user edits controlDict while the solver runs. *)
EditEndTime ==
    /\ at = "run"
    /\ endTime' \in 1..MaxTime
    /\ UNCHANGED <<case, times, logs, clockVars, solVars, loopVars, runVars,
                   historyVars>>
-------------------------------------------------------------------------
Next == \/ Tick
        \/ Begin \/ Start \/ Check
        \/ Step \/ Write \/ SolverEnds \/ EditEndTime

Spec == Init /\ [][Next]_vars
-------------------------------------------------------------------------
Times == 0..MaxTime

TypeOK ==
    /\ case \in Cases
    /\ times \in [case : SUBSET Times, processor0 : SUBSET Times]
    /\ DOMAIN logs \subseteq 0..(MaximumRestarts + 1)
    /\ \A i \in DOMAIN logs : logs[i] \in 0..startNr
    /\ endTime \in Times
    /\ clock \in 0..MaxClock /\ ctime \in 0..clock
    /\ last \in Times /\ lastReread \in 0..ctime
    /\ at \in {"begin", "start", "run", "check", "ended"}
    /\ startNr \in 0..MaximumRestarts
    /\ lastWrittenTime \in Times \cup {NoTime}
    /\ now \in Times /\ stepNr \in 0..MinimumSteps
    /\ keyboardInterrupt \in BOOLEAN
    /\ reason \in {"none", "endTime", "noProgress", "fewSteps"}
    /\ before \in Times \cup {NoTime}
    /\ begunAtOnce \in BOOLEAN /\ wroteLater \in BOOLEAN

(* The solver is started again only if the run before wrote a later time   *)
(* than all that were there when it started, even if the list of times     *)
(* that the decision is made from is old.                                  *)
RestartsOnlyAfterProgress ==
    [][startNr > 0 /\ startNr' > startNr => LastOnDisk > before]_vars

(* "Further restarts make no sense" is not said of a run that wrote a new  *)
(* time, unless the run began in the second in which the directory of the  *)
(* case had changed last, and did not change it again in a later one.  For *)
(* a serial run this means that it wrote all its times in that second; a   *)
(* parallel run, which changes the directory only when it begins, is then  *)
(* stopped wrongly however long it takes and whatever it writes.           *)
StopsRightly ==
    at = "ended" /\ reason = "noProgress" /\ startNr > 0 =>
        \/ LastOnDisk = before
        \/ begunAtOnce /\ (case.parallel \/ ~wroteLater)

(* Logs are replaced only by the first run of a case that has no times but *)
(* the one it starts from, if a serial run has no processor directories.   *)
Lost(i) == i \in DOMAIN logs /\ ~(i \in DOMAIN logs' /\ logs'[i] = logs[i])

KeepsLogs ==
    [][\A i \in DOMAIN logs : Lost(i) /\ (case.processors => case.parallel) =>
         startNr = 0 /\ OnDisk = {0}]_vars
=========================================================================
