--------------------------- MODULE ClusterJob ---------------------------
(***************************************************************************)
(* A job of a queuing system (Infrastructure/ClusterJob.py) that works on  *)
(* one case, again and again: doIt runs through its phases, while a chain  *)
(* of Timers, checkForMessageFromAbove, looks for the files                *)
(* <job>.clusterjob.stop and .checkpoint with which the user tells the job *)
(* to end or to write.  It passes the message on with the files stop and   *)
(* write in the directory of the case, which the run looks for             *)
(* (checkForStopFile in Execution/FoamThread.py).                          *)
(*                                                                         *)
(* The queuing system may kill the job and then starts it again with       *)
(* RESTARTED=1 and the same id; when a job is over the user may submit     *)
(* the next one as a hard restart.                                         *)
(***************************************************************************)
EXTENDS Naturals

CONSTANTS ArrayJobs,    \* the values of arrayJob considered
          Parallels,    \* the values of nproc>1 considered
          MaxStarts,    \* bound on the starts of a job on the case
          MaxMessages   \* bound on the messages of the user

ASSUME ConstantsAssumption ==
    /\ ArrayJobs \subseteq BOOLEAN /\ Parallels \subseteq BOOLEAN
    /\ MaxStarts \in Nat \ {0} /\ MaxMessages \in Nat

VARIABLES
    arrayJob, parallel,     \* never change
    phase,          \* where doIt is
    restarted, ordinaryEnd, listenToTimer,      \* the job's variables
    timer,          \* where the chain of Timers is
    jobStop, jobCheckpoint, jobFile,            \* files of the job
    caseStop, caseWrite,    \* stop and write in the directory of the case
    jobState,       \* what is in the file ClusterJobState at the end
    solver,         \* the process that doIt runs: "none", "running", "told"
                    \* (controlDict tells it to stop), "stopped", "ended"
    polling,        \* the run that doIt waits for looks for stop and write
    starts, messages,
    prepared,       \* history: some job went through all of the setup
    setupCut,       \* history: a job was killed in its setup
    leftover,       \* history: the run began with a stop file in the case
    late,           \* history: doIt left run while the timer acted on a file
    told            \* history: the last stop of the user, "asked", "taken" by
                    \* the timer, or "cut" when the job was killed after that

jobVars == <<restarted, ordinaryEnd, listenToTimer>>
jobFiles == <<jobStop, jobCheckpoint, jobFile>>
caseFiles == <<caseStop, caseWrite>>
kindVars == <<arrayJob, parallel>>
runVars == <<solver, polling>>
countVars == <<starts, messages>>
historyVars == <<prepared, setupCut, leftover, late, told>>
vars == <<kindVars, phase, jobVars, timer, jobFiles, caseFiles, jobState,
          runVars, countVars, historyVars>>

Init ==
    /\ arrayJob \in ArrayJobs /\ parallel \in Parallels
    /\ phase = "none"
    /\ restarted = FALSE /\ ordinaryEnd = TRUE /\ listenToTimer = FALSE
    /\ timer = "none"
    /\ jobStop = FALSE /\ jobCheckpoint = FALSE /\ jobFile = FALSE
    /\ caseStop = FALSE /\ caseWrite = FALSE
    /\ jobState = "none"
    /\ solver = "none" /\ polling = FALSE
    /\ starts = 0 /\ messages = 0
    /\ prepared = FALSE /\ setupCut = FALSE /\ leftover = FALSE /\ late = FALSE
    /\ told = "none"
-------------------------------------------------------------------------
(* The user and the queuing system, external *)

Over == phase \in {"done", "raised"} /\ timer \in {"none", "dead"}

(* A job starts when nothing of the one before is alive, a killed one as   *)
(* the same job, otherwise as a new one with files of its own.             *)
Submit ==
    /\ phase \in {"none", "killed"} \/ Over
    /\ starts < MaxStarts
    /\ starts' = starts + 1
    /\ phase' = "begin"
    /\ restarted' = (phase # "none") /\ ordinaryEnd' = TRUE
    /\ listenToTimer' = FALSE
    /\ timer' = "none"
    /\ IF phase = "killed" THEN UNCHANGED jobFiles
       ELSE jobStop' = FALSE /\ jobCheckpoint' = FALSE /\ jobFile' = FALSE
    /\ jobState' = "none" /\ solver' = "none" /\ polling' = FALSE
    /\ leftover' = FALSE /\ late' = FALSE
    /\ told' = IF phase = "killed" THEN told ELSE "none"
    /\ UNCHANGED <<kindVars, caseFiles, messages, prepared, setupCut>>

Message ==
    /\ phase \notin {"none", "killed"} /\ jobFile
    /\ messages < MaxMessages
    /\ messages' = messages + 1
    /\ \/ jobStop' = TRUE /\ told' = "asked" /\ UNCHANGED jobCheckpoint
       \/ jobCheckpoint' = TRUE /\ UNCHANGED <<jobStop, told>>
    /\ UNCHANGED <<kindVars, phase, jobVars, timer, jobFile, caseFiles, jobState,
                   runVars, starts, prepared, setupCut, leftover, late>>

SettingUp == phase \in {"begin", "setup", "decompose", "setup2"}

(* All threads end, all files stay. *)
Kill ==
    /\ phase \notin {"none", "killed", "done", "raised"}
    /\ starts < MaxStarts
    /\ phase' = "killed"
    /\ timer' = "none"
    /\ solver' = "none" /\ polling' = FALSE
    /\ setupCut' = (setupCut \/ (SettingUp /\ ~restarted))
    /\ told' = IF told = "taken" THEN "cut" ELSE told
    /\ UNCHANGED <<kindVars, jobVars, jobFiles, caseFiles, jobState, countVars,
                   prepared, leftover, late>>
-------------------------------------------------------------------------
(* doIt *)

(* Mutant: every job believes that it was restarted. *)
BeginSkips ==
    /\ phase = "begin"
    /\ jobFile' = TRUE
    /\ phase' = "start"
    /\ UNCHANGED <<kindVars, jobVars, timer, jobStop, jobCheckpoint, caseFiles,
                   jobState, runVars, countVars, historyVars>>

Begin ==
    /\ phase = "begin"
    /\ jobFile' = TRUE
    /\ phase' = IF restarted THEN "start" ELSE "setup"
    /\ UNCHANGED <<kindVars, jobVars, timer, jobStop, jobCheckpoint, caseFiles,
                   jobState, runVars, countVars, historyVars>>

Setup ==
    /\ SettingUp /\ phase # "begin"
    /\ phase' = IF phase = "setup2" THEN "start"
                ELSE IF phase = "setup" /\ parallel THEN "decompose"
                ELSE "setup2"
    /\ prepared' = (phase = "setup2")
    /\ UNCHANGED <<kindVars, jobVars, timer, jobFiles, caseFiles, jobState,
                   runVars, countVars, setupCut, leftover, late, told>>

(* Mutant: stop files that are there at the start are cleaned away. *)
StartRunCleans ==
    /\ phase = "start"
    /\ phase' = "run"
    /\ listenToTimer' = TRUE /\ timer' = "test"
    /\ solver' = "running" /\ polling' = TRUE
    /\ leftover' = caseStop /\ jobStop' = FALSE
    /\ UNCHANGED <<kindVars, restarted, ordinaryEnd, jobCheckpoint, jobFile,
                   caseFiles, jobState, countVars, prepared, setupCut, late, told>>

(* listenToTimer, the first Timer, and run: the solver starts *)
StartRun ==
    /\ phase = "start"
    /\ phase' = "run"
    /\ listenToTimer' = TRUE /\ timer' = "test"
    /\ solver' = "running" /\ polling' = TRUE
    /\ leftover' = caseStop
    /\ UNCHANGED <<kindVars, restarted, ordinaryEnd, jobFiles, caseFiles,
                   jobState, countVars, prepared, setupCut, late, told>>

(* run returns, listenToTimer=False *)
EndRun ==
    /\ phase = "run" /\ solver \in {"stopped", "ended"}
    /\ phase' = "jobFile"
    /\ listenToTimer' = FALSE
    /\ late' = (timer \notin {"test", "dead"})
    /\ UNCHANGED <<kindVars, restarted, ordinaryEnd, timer, jobFiles, caseFiles,
                   jobState, runVars, countVars, prepared, setupCut, leftover,
                   told>>

(* The job file goes, and ordinaryEnd is looked at: preReconstructCleanup, *)
(* autoReconstruct, cleanup and Finished, or Suspended.                    *)
AfterRun ==
    /\ phase = "jobFile"
    /\ jobFile' = FALSE
    /\ polling' = (ordinaryEnd /\ parallel)
    /\ IF ordinaryEnd
         THEN /\ phase' = IF parallel THEN "reconstruct" ELSE "cleanup"
              /\ UNCHANGED jobState
         ELSE phase' = "testStop" /\ jobState' = "Suspended"
    /\ UNCHANGED <<kindVars, jobVars, timer, jobStop, jobCheckpoint, caseFiles,
                   solver, countVars, historyVars>>

Reconstruct ==
    /\ phase = "reconstruct"
    /\ phase' = "cleanup"
    /\ UNCHANGED <<kindVars, jobVars, timer, jobFiles, caseFiles, jobState,
                   runVars, countVars, historyVars>>

Cleanup ==
    /\ phase = "cleanup"
    /\ phase' = "testStop"
    /\ jobState' = "Finished"
    /\ UNCHANGED <<kindVars, jobVars, timer, jobFiles, caseFiles, runVars,
                   countVars, historyVars>>

(* if path.exists(file): unlink(file), which raises an OSError when the    *)
(* timer was faster                                                        *)
Test(at, exists, yes, no) ==
    /\ phase = at
    /\ phase' = IF exists THEN yes ELSE no
    /\ UNCHANGED <<kindVars, jobVars, timer, jobFiles, caseFiles, jobState,
                   runVars, countVars, historyVars>>

(* Mutant: the checkpoint file is unlinked without a test. *)
UnlinkStopNoTest ==
    /\ phase = "unlinkStop"
    /\ phase' = IF jobStop THEN "unlinkCheckpoint" ELSE "raised"
    /\ jobStop' = FALSE
    /\ told' = IF jobStop THEN "none" ELSE told
    /\ UNCHANGED <<kindVars, jobVars, timer, jobCheckpoint, jobFile, caseFiles,
                   jobState, runVars, countVars, prepared, setupCut, leftover,
                   late>>

UnlinkStop ==
    /\ phase = "unlinkStop"
    /\ phase' = IF jobStop THEN "testCheckpoint" ELSE "raised"
    /\ jobStop' = FALSE
    /\ told' = IF jobStop THEN "none" ELSE told
    /\ UNCHANGED <<kindVars, jobVars, timer, jobCheckpoint, jobFile, caseFiles,
                   jobState, runVars, countVars, prepared, setupCut, leftover,
                   late>>

UnlinkCheckpoint ==
    /\ phase = "unlinkCheckpoint"
    /\ phase' = IF jobCheckpoint THEN "done" ELSE "raised"
    /\ jobCheckpoint' = FALSE
    /\ UNCHANGED <<kindVars, jobVars, timer, jobStop, jobFile, caseFiles,
                   jobState, runVars, countVars, historyVars>>

DoIt ==
    \/ Begin \/ Setup \/ StartRun \/ EndRun \/ AfterRun \/ Reconstruct
    \/ Cleanup
    \/ Test("testStop", jobStop, "unlinkStop", "testCheckpoint")
    \/ UnlinkStop
    \/ Test("testCheckpoint", jobCheckpoint, "unlinkCheckpoint", "done")
    \/ UnlinkCheckpoint
-------------------------------------------------------------------------
(* checkForMessageFromAbove, called by one Timer after the other *)

TimerStep(at, label) ==
    /\ timer = at /\ timer' = label
    /\ UNCHANGED <<kindVars, phase, restarted, listenToTimer, jobFile, jobState,
                   runVars, countVars, prepared, setupCut, leftover, late>>

Look ==
    /\ TimerStep("test",
         IF ~listenToTimer THEN "dead"
         ELSE IF jobStop THEN "stopJob"
         ELSE IF jobCheckpoint THEN "writeCheckpoint" ELSE "test")
    /\ UNCHANGED <<ordinaryEnd, jobStop, jobCheckpoint, caseFiles, told>>

(* stopJob; without listenToTimer only a warning *)
StopJob ==
    /\ TimerStep("stopJob", IF listenToTimer THEN "setEnd" ELSE "dead")
    /\ UNCHANGED <<ordinaryEnd, jobStop, jobCheckpoint, caseFiles, told>>

(* Mutant: ordinaryEnd is forgotten. *)
SetEndForgets ==
    /\ TimerStep("setEnd", "writeStop")
    /\ UNCHANGED <<ordinaryEnd, jobStop, jobCheckpoint, caseFiles, told>>

SetEnd ==
    /\ TimerStep("setEnd", "writeStop")
    /\ ordinaryEnd' = FALSE
    /\ UNCHANGED <<jobStop, jobCheckpoint, caseFiles, told>>

(* Mutant: the stop file goes somewhere else. *)
WriteStopElsewhere ==
    /\ TimerStep("writeStop", "unlinkStop")
    /\ UNCHANGED <<ordinaryEnd, jobStop, jobCheckpoint, caseFiles, told>>

(* open(path.join(self.basename,"stop"),"w"): the case of an array job is  *)
(* not at basename but at casedir(); if nothing is at basename this is an  *)
(* IOError.                                                                *)
WriteStop ==
    /\ \/ TimerStep("writeStop", "unlinkStop")
       \/ arrayJob /\ TimerStep("writeStop", "dead")
    /\ caseStop' = (caseStop \/ ~arrayJob)
    /\ UNCHANGED <<ordinaryEnd, jobStop, jobCheckpoint, caseWrite, told>>

TimerUnlinkStop ==
    /\ TimerStep("unlinkStop", "dead")
    /\ jobStop' = FALSE
    /\ told' = IF jobStop THEN "taken" ELSE told
    /\ UNCHANGED <<ordinaryEnd, jobCheckpoint, caseFiles>>

(* writeCheckpoint; without listenToTimer only a warning *)
WriteCheckpoint ==
    /\ \/ TimerStep("writeCheckpoint",
                    IF listenToTimer THEN "unlinkCheckpoint" ELSE "test")
       \/ arrayJob /\ listenToTimer /\ TimerStep("writeCheckpoint", "dead")
    /\ caseWrite' = (caseWrite \/ (listenToTimer /\ ~arrayJob))
    /\ UNCHANGED <<ordinaryEnd, jobStop, jobCheckpoint, caseStop, told>>

(* Mutant: a checkpoint ends the chain of Timers. *)
TimerUnlinkCheckpointLast ==
    /\ TimerStep("unlinkCheckpoint", "dead")
    /\ jobCheckpoint' = FALSE
    /\ UNCHANGED <<ordinaryEnd, jobStop, caseFiles, told>>

(* An OSError if doIt was faster *)
TimerUnlinkCheckpoint ==
    /\ TimerStep("unlinkCheckpoint", IF jobCheckpoint THEN "test" ELSE "dead")
    /\ jobCheckpoint' = FALSE
    /\ UNCHANGED <<ordinaryEnd, jobStop, caseFiles, told>>

TimerChain ==
    \/ Look \/ StopJob \/ SetEnd \/ WriteStop \/ TimerUnlinkStop
    \/ WriteCheckpoint \/ TimerUnlinkCheckpoint
-------------------------------------------------------------------------
(* Every run that doIt starts in the case looks for stop and write: the    *)
(* solver and reconstructPar.  After a stop it looks no more, and the      *)
(* solver ends after its step.                                             *)
CheckForStopFile ==
    /\ polling /\ (solver = "running" \/ phase = "reconstruct")
    /\ phase \in {"run", "reconstruct"}
    /\ caseStop \/ caseWrite
    /\ caseStop' = FALSE
    /\ caseWrite' = (caseWrite /\ caseStop)
    /\ polling' = ~caseStop
    /\ solver' = IF caseStop /\ phase = "run" THEN "told" ELSE solver
    /\ UNCHANGED <<kindVars, phase, jobVars, timer, jobFiles, jobState,
                   countVars, historyVars>>

(* The solver, external *)
SolverStops ==
    /\ solver = "told" /\ phase = "run"
    /\ solver' = "stopped"
    /\ UNCHANGED <<kindVars, phase, jobVars, timer, jobFiles, caseFiles,
                   jobState, polling, countVars, historyVars>>

SolverEnds ==
    /\ solver \in {"running", "told"} /\ phase = "run"
    /\ solver' = "ended"
    /\ UNCHANGED <<kindVars, phase, jobVars, timer, jobFiles, caseFiles,
                   jobState, polling, countVars, historyVars>>
-------------------------------------------------------------------------
Next == \/ Submit \/ Message \/ Kill
        \/ DoIt \/ TimerChain
        \/ CheckForStopFile \/ SolverStops \/ SolverEnds

(* The threads of the job and of the run go on, and a solver that was told *)
(* to stop does.  It need not end by itself, nobody has to send a message, *)
(* to kill the job or to submit another one.                               *)
Fairness == /\ WF_vars(DoIt) /\ WF_vars(TimerChain)
            /\ WF_vars(CheckForStopFile) /\ WF_vars(SolverStops)

Spec == Init /\ [][Next]_vars
FairSpec == Spec /\ Fairness
-------------------------------------------------------------------------
TypeOK ==
    /\ arrayJob \in BOOLEAN /\ parallel \in BOOLEAN
    /\ phase \in {"none", "killed", "begin", "setup", "decompose", "setup2",
                  "start", "run", "jobFile", "reconstruct", "cleanup",
                  "testStop", "unlinkStop", "testCheckpoint",
                  "unlinkCheckpoint", "done", "raised"}
    /\ restarted \in BOOLEAN /\ ordinaryEnd \in BOOLEAN
    /\ listenToTimer \in BOOLEAN
    /\ timer \in {"none", "dead", "test", "stopJob", "setEnd", "writeStop",
                  "unlinkStop", "writeCheckpoint", "unlinkCheckpoint"}
    /\ jobStop \in BOOLEAN /\ jobCheckpoint \in BOOLEAN /\ jobFile \in BOOLEAN
    /\ caseStop \in BOOLEAN /\ caseWrite \in BOOLEAN
    /\ jobState \in {"none", "Suspended", "Finished"}
    /\ solver \in {"none", "running", "told", "stopped", "ended"}
    /\ starts \in 0..MaxStarts /\ messages \in 0..MaxMessages
    /\ prepared \in BOOLEAN /\ setupCut \in BOOLEAN /\ leftover \in BOOLEAN
    /\ late \in BOOLEAN /\ polling \in BOOLEAN
    /\ told \in {"none", "asked", "taken", "cut"}

(* A job is not reconstructed and called Finished when its solver was      *)
(* stopped by a message: the message reaches ordinaryEnd before it reaches *)
(* the solver, whatever the threads do.  The exception is a stop file that *)
(* an earlier job left in the case.                                        *)
StoppedIsSuspended ==
    solver = "stopped" /\ jobState = "Finished" => leftover

(* A stop of the user stays in its file, whatever is killed and restarted, *)
(* until the timer of the job has taken it or doIt cleans up after its run,*)
(* and a job whose timer took it is not called Finished, unless its run    *)
(* was over at that time (late).  It is lost only by a kill after the      *)
(* timer took it: ordinaryEnd is memory, and the job that is started again *)
(* knows of no stop.                                                       *)
StopNotLost ==
    /\ told = "asked" => jobStop
    /\ told = "taken" /\ jobState = "Finished" => late

(* doIt fails at its end only when the timer was acting on a file at the   *)
(* moment when the run was over.                                           *)
RaisesOnlyWhenLate == phase = "raised" => late

(* A restarted job, which leaves its setup out, runs on a case that was    *)
(* set up, unless the setup itself was cut short.                          *)
RunsPrepared == phase = "run" => prepared \/ setupCut

(* A stop file ends the run of a job that is not an array job, a           *)
(* checkpoint file makes it write.                                         *)
Running == phase \in {"start", "run"}
StopEnds == Running /\ jobStop /\ ~arrayJob ~> ~Running
CheckpointWrites ==
    Running /\ jobCheckpoint /\ ~arrayJob
        ~> ~Running \/ ~(jobCheckpoint \/ caseWrite)
=========================================================================
