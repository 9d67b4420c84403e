------------------------ MODULE ClusterJobProofs ------------------------
(* What holds of ClusterJob for any number of starts and messages. *)
EXTENDS ClusterJob, TLAPS

(* A message becomes known to the job before it is passed on or removed. *)
ToldInv ==
    /\ timer \in {"writeStop", "unlinkStop"} => ~ordinaryEnd
    /\ phase = "none" => ~jobStop

(* A stop that is not left over is known to the job before it is to the    *)
(* solver, so what follows the run never follows a stop.                   *)
StoppedInv ==
    /\ phase = "run" /\ caseStop /\ ~leftover => ~ordinaryEnd
    /\ solver \in {"told", "stopped"} /\ ~leftover => ~ordinaryEnd
    /\ phase \in {"reconstruct", "cleanup"} /\ solver = "stopped" => leftover
    /\ jobState = "Finished" =>
         phase \in {"killed", "testStop", "unlinkStop", "testCheckpoint",
                    "unlinkCheckpoint", "done", "raised"}
    /\ StoppedIsSuspended

(* A job that was not late with its timer is alone with its files. *)
AfterTheRun == {"jobFile", "reconstruct", "cleanup", "testStop", "unlinkStop",
                "testCheckpoint", "unlinkCheckpoint", "done", "raised"}
LateInv ==
    /\ phase \in AfterTheRun =>
         ~listenToTimer /\ (late \/ timer \in {"test", "dead"})
    /\ phase = "unlinkStop" => late \/ jobStop
    /\ phase = "unlinkCheckpoint" => late \/ jobCheckpoint
    /\ RaisesOnlyWhenLate

(* Only the first job goes through the setup. *)
PreparedInv ==
    /\ phase \in {"setup", "decompose", "setup2"} => ~restarted
    /\ restarted \/ phase \notin {"none", "begin", "setup", "decompose", "setup2"}
         => prepared \/ setupCut

(* The timer takes a stop from its file when ordinaryEnd is set, and a job *)
(* that is past its run has a timer that takes something only when late.   *)
TakenInv ==
    /\ phase = "killed" => timer = "none"
    /\ told = "taken" => ~ordinaryEnd /\ phase # "killed"
    /\ told = "taken" /\ phase \in {"reconstruct", "cleanup"} => late
    /\ StopNotLost

IInv == TypeOK /\ ToldInv /\ StoppedInv /\ LateInv /\ PreparedInv /\ TakenInv
-------------------------------------------------------------------------
(* Every step keeps every part of the invariant. *)

(* Types: every assignment stays in the range of its variable. *)
LEMMA TypeStep ==
    ASSUME IInv, [Next]_vars
    PROVE  TypeOK'
<1> USE DEF IInv, TypeOK,
            kindVars, jobVars, jobFiles, caseFiles, runVars, countVars, historyVars
<1>1. CASE Submit
  <2>1. /\ ordinaryEnd' \in BOOLEAN /\ restarted' \in BOOLEAN
        /\ listenToTimer' \in BOOLEAN /\ jobStop' \in BOOLEAN
        /\ jobCheckpoint' \in BOOLEAN /\ jobFile' \in BOOLEAN
        /\ polling' \in BOOLEAN /\ leftover' \in BOOLEAN /\ late' \in BOOLEAN
    BY <1>1, Zenon DEF Submit, Over
  <2> QED
    BY <1>1, <2>1, ConstantsAssumption DEF Submit, Over
<1>2. CASE Message
  <2>1. jobStop' \in BOOLEAN /\ jobCheckpoint' \in BOOLEAN
    BY <1>2, Zenon DEF Message
  <2> QED
    BY <1>2, <2>1, ConstantsAssumption DEF Message
<1>3. CASE Kill
  <2>1. polling' \in BOOLEAN /\ setupCut' \in BOOLEAN
    BY <1>3, Zenon DEF Kill, SettingUp
  <2> QED
    BY <1>3, <2>1 DEF Kill, SettingUp
<1>4. CASE Begin
  BY <1>4 DEF Begin
<1>5. CASE Setup
  BY <1>5 DEF Setup, SettingUp
<1>6. CASE StartRun
  BY <1>6 DEF StartRun
<1>7. CASE EndRun
  <2>1. listenToTimer' \in BOOLEAN /\ late' \in BOOLEAN
    BY <1>7, Zenon DEF EndRun
  <2> QED
    BY <1>7, <2>1 DEF EndRun
<1>8. CASE AfterRun
  <2>1. jobFile' \in BOOLEAN /\ polling' \in BOOLEAN
    BY <1>8, Zenon DEF AfterRun
  <2> QED
    BY <1>8, <2>1 DEF AfterRun
<1>9. CASE Reconstruct
  BY <1>9 DEF Reconstruct
<1>10. CASE Cleanup
  BY <1>10 DEF Cleanup
<1>11. CASE Test("testStop", jobStop, "unlinkStop", "testCheckpoint")
  BY <1>11 DEF Test
<1>12. CASE UnlinkStop
  <2>1. jobStop' \in BOOLEAN
    BY <1>12, Zenon DEF UnlinkStop
  <2> QED
    BY <1>12, <2>1 DEF UnlinkStop
<1>13. CASE Test("testCheckpoint", jobCheckpoint, "unlinkCheckpoint", "done")
  BY <1>13 DEF Test
<1>14. CASE UnlinkCheckpoint
  <2>1. jobCheckpoint' \in BOOLEAN
    BY <1>14, Zenon DEF UnlinkCheckpoint
  <2> QED
    BY <1>14, <2>1 DEF UnlinkCheckpoint
<1>15. CASE Look
  BY <1>15 DEF Look, TimerStep
<1>16. CASE StopJob
  BY <1>16 DEF StopJob, TimerStep
<1>17. CASE SetEnd
  <2>1. ordinaryEnd' \in BOOLEAN
    BY <1>17, Zenon DEF SetEnd, TimerStep
  <2> QED
    BY <1>17, <2>1 DEF SetEnd, TimerStep
<1>18. CASE WriteStop
  BY <1>18 DEF WriteStop, TimerStep
<1>19. CASE TimerUnlinkStop
  <2>1. jobStop' \in BOOLEAN
    BY <1>19, Zenon DEF TimerUnlinkStop, TimerStep
  <2> QED
    BY <1>19, <2>1 DEF TimerUnlinkStop, TimerStep
<1>20. CASE WriteCheckpoint
  BY <1>20 DEF WriteCheckpoint, TimerStep
<1>21. CASE TimerUnlinkCheckpoint
  <2>1. jobCheckpoint' \in BOOLEAN
    BY <1>21, Zenon DEF TimerUnlinkCheckpoint, TimerStep
  <2> QED
    BY <1>21, <2>1 DEF TimerUnlinkCheckpoint, TimerStep
<1>22. CASE CheckForStopFile
  <2>1. caseStop' \in BOOLEAN /\ caseWrite' \in BOOLEAN /\ polling' \in BOOLEAN
    BY <1>22, Zenon DEF CheckForStopFile
  <2> QED
    BY <1>22, <2>1 DEF CheckForStopFile
<1>23. CASE SolverStops
  BY <1>23 DEF SolverStops
<1>24. CASE SolverEnds
  BY <1>24 DEF SolverEnds
<1>25. CASE UNCHANGED vars
  BY <1>25 DEF vars
<1> QED
  BY <1>1, <1>2, <1>3, <1>4, <1>5, <1>6, <1>7, <1>8, <1>9, <1>10, <1>11, <1>12,
     <1>13, <1>14, <1>15, <1>16, <1>17, <1>18, <1>19, <1>20, <1>21, <1>22,
     <1>23, <1>24, <1>25
     DEF Next, DoIt, TimerChain

(* Only SetEnd leads the timer to the files of a stop, and only a new job,  *)
(* which has no timer yet, forgets the message again.                      *)
LEMMA ToldStep ==
    ASSUME IInv, [Next]_vars
    PROVE  ToldInv'
<1> USE DEF IInv, TypeOK, ToldInv,
            kindVars, jobVars, jobFiles, caseFiles, runVars, countVars, historyVars
<1>1. CASE Submit
  BY <1>1 DEF Submit, Over
<1>2. CASE Message
  BY <1>2 DEF Message
<1>3. CASE Kill
  BY <1>3 DEF Kill, SettingUp
<1>4. CASE Begin
  BY <1>4 DEF Begin
<1>5. CASE Setup
  BY <1>5 DEF Setup, SettingUp
<1>6. CASE StartRun
  BY <1>6 DEF StartRun
<1>7. CASE EndRun
  BY <1>7 DEF EndRun
<1>8. CASE AfterRun
  BY <1>8 DEF AfterRun
<1>9. CASE Reconstruct
  BY <1>9 DEF Reconstruct
<1>10. CASE Cleanup
  BY <1>10 DEF Cleanup
<1>11. CASE Test("testStop", jobStop, "unlinkStop", "testCheckpoint")
  BY <1>11 DEF Test
<1>12. CASE UnlinkStop
  BY <1>12 DEF UnlinkStop
<1>13. CASE Test("testCheckpoint", jobCheckpoint, "unlinkCheckpoint", "done")
  BY <1>13 DEF Test
<1>14. CASE UnlinkCheckpoint
  BY <1>14 DEF UnlinkCheckpoint
<1>15. CASE Look
  BY <1>15 DEF Look, TimerStep
<1>16. CASE StopJob
  BY <1>16 DEF StopJob, TimerStep
<1>17. CASE SetEnd
  BY <1>17 DEF SetEnd, TimerStep
<1>18. CASE WriteStop
  BY <1>18 DEF WriteStop, TimerStep
<1>19. CASE TimerUnlinkStop
  BY <1>19 DEF TimerUnlinkStop, TimerStep
<1>20. CASE WriteCheckpoint
  BY <1>20 DEF WriteCheckpoint, TimerStep
<1>21. CASE TimerUnlinkCheckpoint
  BY <1>21 DEF TimerUnlinkCheckpoint, TimerStep
<1>22. CASE CheckForStopFile
  BY <1>22 DEF CheckForStopFile
<1>23. CASE SolverStops
  BY <1>23 DEF SolverStops
<1>24. CASE SolverEnds
  BY <1>24 DEF SolverEnds
<1>25. CASE UNCHANGED vars
  BY <1>25 DEF vars
<1> QED
  BY <1>1, <1>2, <1>3, <1>4, <1>5, <1>6, <1>7, <1>8, <1>9, <1>10, <1>11, <1>12,
     <1>13, <1>14, <1>15, <1>16, <1>17, <1>18, <1>19, <1>20, <1>21, <1>22,
     <1>23, <1>24, <1>25
     DEF Next, DoIt, TimerChain

(* AfterRun reads ordinaryEnd after the run is over, SetEnd came before    *)
(* the file that stopped it.                                               *)
LEMMA StoppedStep ==
    ASSUME IInv, [Next]_vars
    PROVE  StoppedInv'
<1> USE DEF IInv, TypeOK, ToldInv, StoppedInv, StoppedIsSuspended,
            kindVars, jobVars, jobFiles, caseFiles, runVars, countVars, historyVars
<1>1. CASE Submit
  BY <1>1 DEF Submit, Over
<1>2. CASE Message
  BY <1>2 DEF Message
<1>3. CASE Kill
  BY <1>3 DEF Kill, SettingUp
<1>4. CASE Begin
  BY <1>4 DEF Begin
<1>5. CASE Setup
  BY <1>5 DEF Setup, SettingUp
<1>6. CASE StartRun
  BY <1>6 DEF StartRun
<1>7. CASE EndRun
  BY <1>7 DEF EndRun
<1>8. CASE AfterRun
  BY <1>8 DEF AfterRun
<1>9. CASE Reconstruct
  BY <1>9 DEF Reconstruct
<1>10. CASE Cleanup
  BY <1>10 DEF Cleanup
<1>11. CASE Test("testStop", jobStop, "unlinkStop", "testCheckpoint")
  BY <1>11 DEF Test
<1>12. CASE UnlinkStop
  BY <1>12 DEF UnlinkStop
<1>13. CASE Test("testCheckpoint", jobCheckpoint, "unlinkCheckpoint", "done")
  BY <1>13 DEF Test
<1>14. CASE UnlinkCheckpoint
  BY <1>14 DEF UnlinkCheckpoint
<1>15. CASE Look
  BY <1>15 DEF Look, TimerStep
<1>16. CASE StopJob
  BY <1>16 DEF StopJob, TimerStep
<1>17. CASE SetEnd
  BY <1>17 DEF SetEnd, TimerStep
<1>18. CASE WriteStop
  BY <1>18 DEF WriteStop, TimerStep
<1>19. CASE TimerUnlinkStop
  BY <1>19 DEF TimerUnlinkStop, TimerStep
<1>20. CASE WriteCheckpoint
  BY <1>20 DEF WriteCheckpoint, TimerStep
<1>21. CASE TimerUnlinkCheckpoint
  BY <1>21 DEF TimerUnlinkCheckpoint, TimerStep
<1>22. CASE CheckForStopFile
  BY <1>22 DEF CheckForStopFile
<1>23. CASE SolverStops
  BY <1>23 DEF SolverStops
<1>24. CASE SolverEnds
  BY <1>24 DEF SolverEnds
<1>25. CASE UNCHANGED vars
  BY <1>25 DEF vars
<1> QED
  BY <1>1, <1>2, <1>3, <1>4, <1>5, <1>6, <1>7, <1>8, <1>9, <1>10, <1>11, <1>12,
     <1>13, <1>14, <1>15, <1>16, <1>17, <1>18, <1>19, <1>20, <1>21, <1>22,
     <1>23, <1>24, <1>25
     DEF Next, DoIt, TimerChain

(* A timer that looks for a message when the run is over dies next, and    *)
(* then doIt is the only one that removes what it saw.                     *)
LEMMA LateStep ==
    ASSUME IInv, [Next]_vars
    PROVE  LateInv'
<1> USE DEF IInv, TypeOK, LateInv, RaisesOnlyWhenLate, AfterTheRun,
            kindVars, jobVars, jobFiles, caseFiles, runVars, countVars, historyVars
<1>1. CASE Submit
  BY <1>1 DEF Submit, Over
<1>2. CASE Message
  BY <1>2 DEF Message
<1>3. CASE Kill
  BY <1>3 DEF Kill, SettingUp
<1>4. CASE Begin
  BY <1>4 DEF Begin
<1>5. CASE Setup
  BY <1>5 DEF Setup, SettingUp
<1>6. CASE StartRun
  BY <1>6 DEF StartRun
<1>7. CASE EndRun
  BY <1>7 DEF EndRun
<1>8. CASE AfterRun
  BY <1>8 DEF AfterRun
<1>9. CASE Reconstruct
  BY <1>9 DEF Reconstruct
<1>10. CASE Cleanup
  BY <1>10 DEF Cleanup
<1>11. CASE Test("testStop", jobStop, "unlinkStop", "testCheckpoint")
  BY <1>11 DEF Test
<1>12. CASE UnlinkStop
  BY <1>12 DEF UnlinkStop
<1>13. CASE Test("testCheckpoint", jobCheckpoint, "unlinkCheckpoint", "done")
  BY <1>13 DEF Test
<1>14. CASE UnlinkCheckpoint
  BY <1>14 DEF UnlinkCheckpoint
<1>15. CASE Look
  BY <1>15 DEF Look, TimerStep
<1>16. CASE StopJob
  BY <1>16 DEF StopJob, TimerStep
<1>17. CASE SetEnd
  BY <1>17 DEF SetEnd, TimerStep
<1>18. CASE WriteStop
  BY <1>18 DEF WriteStop, TimerStep
<1>19. CASE TimerUnlinkStop
  BY <1>19 DEF TimerUnlinkStop, TimerStep
<1>20. CASE WriteCheckpoint
  BY <1>20 DEF WriteCheckpoint, TimerStep
<1>21. CASE TimerUnlinkCheckpoint
  BY <1>21 DEF TimerUnlinkCheckpoint, TimerStep
<1>22. CASE CheckForStopFile
  BY <1>22 DEF CheckForStopFile
<1>23. CASE SolverStops
  BY <1>23 DEF SolverStops
<1>24. CASE SolverEnds
  BY <1>24 DEF SolverEnds
<1>25. CASE UNCHANGED vars
  BY <1>25 DEF vars
<1> QED
  BY <1>1, <1>2, <1>3, <1>4, <1>5, <1>6, <1>7, <1>8, <1>9, <1>10, <1>11, <1>12,
     <1>13, <1>14, <1>15, <1>16, <1>17, <1>18, <1>19, <1>20, <1>21, <1>22,
     <1>23, <1>24, <1>25
     DEF Next, DoIt, TimerChain

(* Every job but the first is a restarted one and leaves the setup out; a  *)
(* job is killed before the end of its setup only with setupCut.           *)
LEMMA PreparedStep ==
    ASSUME IInv, [Next]_vars
    PROVE  PreparedInv'
<1> USE DEF IInv, TypeOK, PreparedInv,
            kindVars, jobVars, jobFiles, caseFiles, runVars, countVars, historyVars
<1>1. CASE Submit
  BY <1>1 DEF Submit, Over
<1>2. CASE Message
  BY <1>2 DEF Message
<1>3. CASE Kill
  BY <1>3 DEF Kill, SettingUp
<1>4. CASE Begin
  BY <1>4 DEF Begin
<1>5. CASE Setup
  BY <1>5 DEF Setup, SettingUp
<1>6. CASE StartRun
  BY <1>6 DEF StartRun
<1>7. CASE EndRun
  BY <1>7 DEF EndRun
<1>8. CASE AfterRun
  BY <1>8 DEF AfterRun
<1>9. CASE Reconstruct
  BY <1>9 DEF Reconstruct
<1>10. CASE Cleanup
  BY <1>10 DEF Cleanup
<1>11. CASE Test("testStop", jobStop, "unlinkStop", "testCheckpoint")
  BY <1>11 DEF Test
<1>12. CASE UnlinkStop
  BY <1>12 DEF UnlinkStop
<1>13. CASE Test("testCheckpoint", jobCheckpoint, "unlinkCheckpoint", "done")
  BY <1>13 DEF Test
<1>14. CASE UnlinkCheckpoint
  BY <1>14 DEF UnlinkCheckpoint
<1>15. CASE Look
  BY <1>15 DEF Look, TimerStep
<1>16. CASE StopJob
  BY <1>16 DEF StopJob, TimerStep
<1>17. CASE SetEnd
  BY <1>17 DEF SetEnd, TimerStep
<1>18. CASE WriteStop
  BY <1>18 DEF WriteStop, TimerStep
<1>19. CASE TimerUnlinkStop
  BY <1>19 DEF TimerUnlinkStop, TimerStep
<1>20. CASE WriteCheckpoint
  BY <1>20 DEF WriteCheckpoint, TimerStep
<1>21. CASE TimerUnlinkCheckpoint
  BY <1>21 DEF TimerUnlinkCheckpoint, TimerStep
<1>22. CASE CheckForStopFile
  BY <1>22 DEF CheckForStopFile
<1>23. CASE SolverStops
  BY <1>23 DEF SolverStops
<1>24. CASE SolverEnds
  BY <1>24 DEF SolverEnds
<1>25. CASE UNCHANGED vars
  BY <1>25 DEF vars
<1> QED
  BY <1>1, <1>2, <1>3, <1>4, <1>5, <1>6, <1>7, <1>8, <1>9, <1>10, <1>11, <1>12,
     <1>13, <1>14, <1>15, <1>16, <1>17, <1>18, <1>19, <1>20, <1>21, <1>22,
     <1>23, <1>24, <1>25
     DEF Next, DoIt, TimerChain

(* Only SetEnd leads to the removal of a stop by the timer, and AfterRun   *)
(* reads what SetEnd has set unless the timer was late.                    *)
LEMMA TakenStep ==
    ASSUME IInv, [Next]_vars
    PROVE  TakenInv'
<1> USE DEF IInv, TypeOK, ToldInv, StoppedInv, LateInv, AfterTheRun, TakenInv,
            StopNotLost,
            kindVars, jobVars, jobFiles, caseFiles, runVars, countVars, historyVars
<1>1. CASE Submit
  BY <1>1 DEF Submit, Over
<1>2. CASE Message
  BY <1>2 DEF Message
<1>3. CASE Kill
  BY <1>3 DEF Kill, SettingUp
<1>4. CASE Begin
  BY <1>4 DEF Begin
<1>5. CASE Setup
  BY <1>5 DEF Setup, SettingUp
<1>6. CASE StartRun
  BY <1>6 DEF StartRun
<1>7. CASE EndRun
  BY <1>7 DEF EndRun
<1>8. CASE AfterRun
  BY <1>8 DEF AfterRun
<1>9. CASE Reconstruct
  BY <1>9 DEF Reconstruct
<1>10. CASE Cleanup
  BY <1>10 DEF Cleanup
<1>11. CASE Test("testStop", jobStop, "unlinkStop", "testCheckpoint")
  BY <1>11 DEF Test
<1>12. CASE UnlinkStop
  BY <1>12 DEF UnlinkStop
<1>13. CASE Test("testCheckpoint", jobCheckpoint, "unlinkCheckpoint", "done")
  BY <1>13 DEF Test
<1>14. CASE UnlinkCheckpoint
  BY <1>14 DEF UnlinkCheckpoint
<1>15. CASE Look
  BY <1>15 DEF Look, TimerStep
<1>16. CASE StopJob
  BY <1>16 DEF StopJob, TimerStep
<1>17. CASE SetEnd
  BY <1>17 DEF SetEnd, TimerStep
<1>18. CASE WriteStop
  BY <1>18 DEF WriteStop, TimerStep
<1>19. CASE TimerUnlinkStop
  BY <1>19 DEF TimerUnlinkStop, TimerStep
<1>20. CASE WriteCheckpoint
  BY <1>20 DEF WriteCheckpoint, TimerStep
<1>21. CASE TimerUnlinkCheckpoint
  BY <1>21 DEF TimerUnlinkCheckpoint, TimerStep
<1>22. CASE CheckForStopFile
  BY <1>22 DEF CheckForStopFile
<1>23. CASE SolverStops
  BY <1>23 DEF SolverStops
<1>24. CASE SolverEnds
  BY <1>24 DEF SolverEnds
<1>25. CASE UNCHANGED vars
  BY <1>25 DEF vars
<1> QED
  BY <1>1, <1>2, <1>3, <1>4, <1>5, <1>6, <1>7, <1>8, <1>9, <1>10, <1>11, <1>12,
     <1>13, <1>14, <1>15, <1>16, <1>17, <1>18, <1>19, <1>20, <1>21, <1>22,
     <1>23, <1>24, <1>25
     DEF Next, DoIt, TimerChain

-------------------------------------------------------------------------
(* The invariant holds of a case that no job has touched. *)
LEMMA InitInv == Init => IInv
<1>1. ASSUME Init
      PROVE  TypeOK
  <2>1. arrayJob \in BOOLEAN /\ parallel \in BOOLEAN
    BY <1>1, ConstantsAssumption DEF Init
  <2>2. /\ restarted \in BOOLEAN /\ ordinaryEnd \in BOOLEAN
        /\ listenToTimer \in BOOLEAN
        /\ jobStop \in BOOLEAN /\ jobCheckpoint \in BOOLEAN /\ jobFile \in BOOLEAN
        /\ caseStop \in BOOLEAN /\ caseWrite \in BOOLEAN
        /\ prepared \in BOOLEAN /\ setupCut \in BOOLEAN /\ leftover \in BOOLEAN
        /\ late \in BOOLEAN /\ polling \in BOOLEAN
        /\ told \in {"none", "asked", "taken", "cut"}
    BY <1>1, Zenon DEF Init
  <2> QED
    BY <1>1, <2>1, <2>2, ConstantsAssumption DEF Init, TypeOK
<1>2. ASSUME Init
      PROVE  ToldInv /\ StoppedInv /\ LateInv /\ PreparedInv /\ TakenInv
  BY <1>2 DEF Init, ToldInv, StoppedInv, StoppedIsSuspended, LateInv,
              AfterTheRun, RaisesOnlyWhenLate, PreparedInv, TakenInv,
              StopNotLost
<1> QED
  BY <1>1, <1>2 DEF IInv

(* The inductive invariant holds. *)
THEOREM SpecIInv == Spec => []IInv
<1>1. IInv /\ [Next]_vars => IInv'
  BY TypeStep, ToldStep, StoppedStep, LateStep, PreparedStep, TakenStep
     DEF IInv
<1> QED
  BY <1>1, InitInv, PTL DEF Spec

(* Every state is well typed, for any number of jobs and messages. *)
THEOREM SpecTypeOK == Spec => []TypeOK
  BY SpecIInv, PTL DEF IInv

(* No job that was stopped by a message is reconstructed and called        *)
(* Finished, whatever timer, doIt and solver do and whenever it is killed. *)
THEOREM SpecStoppedIsSuspended == Spec => []StoppedIsSuspended
<1>1. IInv => StoppedIsSuspended
  BY DEF IInv, StoppedInv
<1> QED
  BY <1>1, SpecIInv, PTL

(* doIt raises at its end only if the run ended while the timer acted.     *)
THEOREM SpecRaisesOnlyWhenLate == Spec => []RaisesOnlyWhenLate
<1>1. IInv => RaisesOnlyWhenLate
  BY DEF IInv, LateInv
<1> QED
  BY <1>1, SpecIInv, PTL

(* A case is run only after its setup, or after a setup that was killed.   *)
THEOREM SpecRunsPrepared == Spec => []RunsPrepared
<1>1. IInv => RunsPrepared
  BY DEF IInv, PreparedInv, RunsPrepared
<1> QED
  BY <1>1, SpecIInv, PTL

(* No stop of the user is lost, over any number of kills and restarts, but *)
(* by a kill after the timer took it from its file.                        *)
THEOREM SpecStopNotLost == Spec => []StopNotLost
<1>1. IInv => StopNotLost
  BY DEF IInv, TakenInv
<1> QED
  BY <1>1, SpecIInv, PTL
=========================================================================
