-------------------------- MODULE RunnerControl --------------------------
(***************************************************************************)
(* How the threads of one PyFoam run share system/controlDict.             *)
(*                                                                         *)
(* "main" is BasicRunner.start: it reads the output of the solver line by  *)
(* line, and when the output ends it calls stopHandle and the end          *)
(* triggers.  Requests to stop the run or to write results come from       *)
(*   "poller"  checkForStopFile, the chain of Timers of FoamThread,        *)
(*   "server"  FoamAnswerer, the XMLRPC thread of FoamServer,              *)
(*   "main"    ConvergenceRunner.lineHandle.                               *)
(* Each member of Timers is one threading.Timer with restoreControlDict.   *)
(*                                                                         *)
(* A step is one access to what another thread may change: runner.stopMe,  *)
(* runner.writeRequested, runner.controlDict, the dictionary               *)
(* FileBasisBackup.counter, of which += 1 and -= 1 are a load and a store, *)
(* and the two files on disk.  The content of controlDict is the set of    *)
(* the parameters that differ from what the user wrote.                    *)
(***************************************************************************)
EXTENDS Integers, FiniteSets, Sequences

CONSTANTS
    Scenarios,  \* the runs considered: who asks for what, the number of end
                \* triggers that hold a backup of controlDict,
                \* BasicRunner(restart=...), and how many on-demand writes
    Timers,     \* the restore timers, one for each on-demand write
    Present,    \* the parameters that the user's controlDict mentions
    MaxLines,   \* bound on the "Re-reading" lines waiting in the pipe
    NoFile,     \* controlDict.backup does not exist
    NoEntry     \* FileBasisBackup.counter has no key for the file

Requesters == {"main", "poller", "server"}
Params == {"stopAt", "writeControl", "writeInterval", "startFrom", "trigger"}
StopRequests == {"stop", "stopWrite"}
Threads == {"main"} \cup Requesters \cup Timers

ASSUME ScenariosAssumption ==
    Scenarios \subseteq
        [asks : [Requesters -> SUBSET (StopRequests \cup {"write"})],
         triggers : Nat, restart : BOOLEAN, writes : 0..Cardinality(Timers)]
ASSUME TimersAssumption ==
    IsFiniteSet(Timers) /\ Timers \cap Requesters = {}
ASSUME BoundsAssumption ==
    MaxLines \in Nat \ {0} /\ Present \subseteq Params
ASSUME NoValueAssumption ==
    NoEntry \notin Int /\ \A content \in SUBSET Params : NoFile # content

VARIABLES
    file,           \* controlDict on disk
    backup,         \* controlDict.backup on disk
    counter,        \* FileBasisBackup.counter[controlDict]
    controlDict,    \* TRUE iff runner.controlDict is not None
    stopMe, writeRequested,
    scenario,       \* the member of Scenarios that happens
    pc,             \* where each thread is
    todo, tmp,      \* per thread: parameters to replace, content read
    loaded,         \* per thread: the count between its load and its store
    timerArg,       \* per timer: was runner.controlDict an object?
    phase,          \* where BasicRunner.start is
    triggersLeft,   \* end triggers not yet called
    polling,        \* a checkForStopFile timer is pending or running
    timerStopped,   \* FoamThread.stopTimer was called
    solver,         \* "running" or "ended"
    seen,           \* controlDict as the solver last read it
    touched,        \* controlDict was written since then
    lines,          \* "Re-reading object controlDict" lines in the pipe
    late,           \* history: a request ran while or after stopHandle ran
    overlap,        \* history: two requests to stop, each with a handle of its
                    \* own, ran at the same time
    lost            \* history: a thread stored a count that it had made from
                    \* one that was not the count any more

fileVars == <<file, backup, counter, touched>>
runnerVars == <<controlDict, stopMe, writeRequested>>
threadVars == <<pc, todo, tmp, timerArg>>
mainVars == <<phase, triggersLeft>>
pollVars == <<polling, timerStopped>>
solverVars == <<solver, seen, lines>>
countVars == <<loaded, lost>>
otherVars == <<scenario, late, overlap>>
vars == <<fileVars, runnerVars, threadVars, mainVars, pollVars, solverVars,
          countVars, otherVars>>

isRestarted == scenario.restart
Triggers == scenario.triggers

(* BasicRunner.__init__ and the triggers' constructors have run: with      *)
(* restart=True controlDict is opened with a backup and startFrom replaced. *)
Init ==
    /\ scenario \in Scenarios
    /\ file = (IF isRestarted THEN {"startFrom"} \cap Present ELSE {}) \cup
              (IF Triggers > 0 THEN {"trigger"} ELSE {})
    /\ counter = IF isRestarted THEN Triggers + 1
                 ELSE IF Triggers > 0 THEN Triggers ELSE NoEntry
    /\ backup = IF counter = NoEntry THEN NoFile ELSE {}
    /\ controlDict = isRestarted
    /\ stopMe = FALSE
    /\ writeRequested = FALSE
    /\ pc = [t \in Threads |-> IF t \in Timers THEN "unset" ELSE "idle"]
    /\ todo = [t \in Threads |-> <<>>]
    /\ tmp = [t \in Threads |-> {}]
    /\ timerArg = [t \in Timers |-> FALSE]
    /\ phase = "loop"
    /\ triggersLeft = Triggers
    /\ polling = TRUE
    /\ timerStopped = FALSE
    /\ solver = "running"
    /\ seen = file
    /\ touched = FALSE
    /\ lines = 0
    /\ late = FALSE
    /\ overlap = FALSE
    /\ loaded = [t \in Threads |-> NoEntry]
    /\ lost = FALSE

Goto(t, label) == pc' = [pc EXCEPT ![t] = label]

(* An exception leaves the thread: start() is left without running the     *)
(* rest, the chain of stop-file timers breaks, the XMLRPC server returns a *)
(* fault and goes on, a timer thread ends.                                 *)
Raise(t) ==
    /\ Goto(t, IF t = "server" THEN "idle" ELSE "dead")
    /\ phase' = IF t = "main" THEN "raised" ELSE phase
    /\ polling' = (polling /\ t # "poller")
    /\ todo' = [todo EXCEPT ![t] = <<>>]

NoRaise == UNCHANGED <<phase, polling, todo>>
-------------------------------------------------------------------------
(* Requests: what one thread does between two places where another may     *)
(* come in.  Step says what all of these leave alone.                      *)

Busy(t) == todo[t] # <<>> \/ pc[t] = "requested"
Writing(t) == Busy(t) /\ todo[t] # <<"stopAt">>

Stopping == \E t \in Requesters : todo[t] = <<"stopAt">>

Accepts(t) ==
    /\ pc[t] = "idle"
    /\ \/ t = "main" /\ phase = "loop"
       \/ t = "poller" /\ polling
       \/ t = "server" /\ phase # "done"

(* Mutant: the wrong parameter is replaced. *)
BeginWrongParameter(t, label, parameters) ==
    /\ Goto(t, label)
    /\ todo' = [todo EXCEPT ![t] = <<"startFrom">>]
    /\ late' = (late \/ phase # "loop")

Begin(t, label, parameters) ==
    /\ Goto(t, label)
    /\ todo' = [todo EXCEPT ![t] = parameters]
    /\ late' = (late \/ phase # "loop")

(* _writeStopAt up to the test of stopMe.  After a "stop" file the poller  *)
(* does not start its next Timer.                                          *)
BeginStop(t, request) ==
    /\ Accepts(t) /\ request \in scenario.asks[t] \cap StopRequests
    /\ polling' = (polling /\ ~(t = "poller" /\ request = "stop"))
    /\ IF stopMe
         THEN UNCHANGED <<pc, todo, late, overlap>>
         ELSE /\ Begin(t, "stopSet", <<"stopAt">>)
              /\ overlap' = (overlap \/ (~isRestarted /\ Stopping))
    /\ UNCHANGED <<fileVars, runnerVars, tmp, timerArg, mainVars, timerStopped,
                   solverVars, countVars, scenario>>

(* writeResults up to the test of writeRequested.  The number of on-demand *)
(* writes is bounded.                                                      *)
BeginWrite(t) ==
    /\ Accepts(t) /\ "write" \in scenario.asks[t]
    /\ ~writeRequested
    /\ Cardinality({u \in Requesters : Writing(u)})
       + Cardinality({u \in Timers : pc[u] # "unset"}) < scenario.writes
    /\ Begin(t, IF isRestarted THEN "read" ELSE "count",
             <<"writeControl", "writeInterval">>)
    /\ UNCHANGED <<fileVars, runnerVars, tmp, timerArg, mainVars, pollVars,
                   solverVars, countVars, scenario, overlap>>

(* Mutant: the test of isRestarted is inverted. *)
StopSetInverted(t) ==
    /\ pc[t] = "stopSet"
    /\ stopMe' = TRUE
    /\ Goto(t, IF isRestarted THEN "count" ELSE "read")
    /\ NoRaise /\ UNCHANGED <<fileVars, controlDict, writeRequested, tmp>>

StopSet(t) ==
    /\ pc[t] = "stopSet"
    /\ stopMe' = TRUE
    /\ Goto(t, IF isRestarted THEN "read" ELSE "count")
    /\ NoRaise /\ UNCHANGED <<fileVars, controlDict, writeRequested, tmp>>

(* What counter[name] += 1 and -= 1 store was made from the count that     *)
(* they loaded.                                                            *)
Load(t) == loaded' = [loaded EXCEPT ![t] = counter]

Store(t, count) ==
    /\ counter' = count
    /\ lost' = (lost \/ counter # loaded[t])
    /\ loaded' = [loaded EXCEPT ![t] = NoEntry]

(* FileBasisBackup.__init__: counter += 1, or, on KeyError, counter = 1    *)
(* and then the copy.                                                      *)
Count(t) ==
    /\ pc[t] = "count"
    /\ IF counter = NoEntry
         THEN Goto(t, "first") /\ UNCHANGED loaded
         ELSE Goto(t, "add") /\ Load(t)
    /\ NoRaise /\ UNCHANGED <<fileVars, runnerVars, tmp, lost>>

Add(t) ==
    /\ pc[t] = "add"
    /\ Store(t, loaded[t] + 1)
    /\ Goto(t, "assign")
    /\ NoRaise /\ UNCHANGED <<file, backup, touched, runnerVars, tmp>>

First(t) ==
    /\ pc[t] = "first"
    /\ Store(t, 1)
    /\ Goto(t, "copy")
    /\ NoRaise /\ UNCHANGED <<file, backup, touched, runnerVars, tmp>>

Copy(t) ==
    /\ pc[t] = "copy"
    /\ backup' = file
    /\ Goto(t, "assign")
    /\ NoRaise /\ UNCHANGED <<file, counter, touched, runnerVars, tmp>>

(* runner.controlDict = the new ParameterFile *)
Assign(t) ==
    /\ pc[t] = "assign"
    /\ controlDict' = TRUE
    /\ Goto(t, "read")
    /\ NoRaise /\ UNCHANGED <<fileVars, stopMe, writeRequested, tmp>>

(* runner.controlDict.replaceParameter: an AttributeError if it is None,   *)
(* otherwise the file is read ...                                          *)
Read(t) ==
    /\ pc[t] = "read"
    /\ IF controlDict
         THEN Goto(t, "rename") /\ tmp' = [tmp EXCEPT ![t] = file] /\ NoRaise
         ELSE Raise(t) /\ UNCHANGED tmp
    /\ UNCHANGED <<fileVars, runnerVars>>

(* ... and the changed copy renamed over it.  A parameter that the file    *)
(* does not mention is not added.                                          *)
Rename(t) ==
    /\ pc[t] = "rename"
    /\ file' = tmp[t] \cup ({Head(todo[t])} \cap Present)
    /\ touched' = TRUE
    /\ todo' = [todo EXCEPT ![t] = Tail(@)]
    /\ Goto(t, CASE Len(todo[t]) > 1 -> "read"
                 [] Writing(t) /\ Len(todo[t]) = 1 -> "requested"
                 [] OTHER -> "idle")
    /\ UNCHANGED <<backup, counter, runnerVars, tmp, phase, polling>>

Requested(t) ==
    /\ pc[t] = "requested"
    /\ writeRequested' = TRUE
    /\ Goto(t, "idle")
    /\ NoRaise /\ UNCHANGED <<fileVars, controlDict, stopMe, tmp>>
-------------------------------------------------------------------------
(* FileBasisBackup.restore, by main and by the timers *)

AfterRestore(t) == IF t = "main" THEN "idle" ELSE "setNone"

(* counter[name] -= 1, a KeyError if there is no entry *)
Decrement(t) ==
    /\ pc[t] = "decrement"
    /\ IF counter = NoEntry
         THEN Raise(t) /\ UNCHANGED loaded
         ELSE Goto(t, "subtract") /\ Load(t) /\ NoRaise
    /\ UNCHANGED <<fileVars, runnerVars, tmp, lost>>

Subtract(t) ==
    /\ pc[t] = "subtract"
    /\ Store(t, loaded[t] - 1)
    /\ Goto(t, "test")
    /\ NoRaise /\ UNCHANGED <<file, backup, touched, runnerVars, tmp>>

(* Mutant: every restore puts the file back. *)
TestNothing(t) ==
    /\ pc[t] = "test"
    /\ Goto(t, "putBack")
    /\ NoRaise /\ UNCHANGED <<fileVars, runnerVars, tmp>>

(* if counter[name] == 0, again a KeyError if the entry was deleted *)
Test(t) ==
    /\ pc[t] = "test"
    /\ IF counter = NoEntry
         THEN Raise(t)
         ELSE /\ Goto(t, IF counter = 0 THEN "putBack" ELSE AfterRestore(t))
              /\ NoRaise
    /\ UNCHANGED <<fileVars, runnerVars, tmp>>

(* copyfile, an IOError if another thread has removed the copy ...          *)
PutBack(t) ==
    /\ pc[t] = "putBack"
    /\ IF backup = NoFile
         THEN Raise(t) /\ UNCHANGED fileVars
         ELSE /\ file' = backup /\ touched' = TRUE
              /\ Goto(t, "remove") /\ NoRaise
              /\ UNCHANGED <<backup, counter>>
    /\ UNCHANGED <<runnerVars, tmp>>

(* ... remove, if it is still there, ...                                   *)
Remove(t) ==
    /\ pc[t] = "remove"
    /\ backup' = NoFile
    /\ Goto(t, "delete")
    /\ NoRaise /\ UNCHANGED <<file, counter, touched, runnerVars, tmp>>

(* ... and del, a KeyError if another thread was faster.                   *)
Delete(t) ==
    /\ pc[t] = "delete"
    /\ IF counter = NoEntry
         THEN Raise(t) /\ UNCHANGED counter
         ELSE counter' = NoEntry /\ Goto(t, AfterRestore(t)) /\ NoRaise
    /\ UNCHANGED <<file, backup, touched, runnerVars, tmp>>

(* Mutant: the timer only forgets the file. *)
FireForgets(t) ==
    /\ pc[t] = "waiting"
    /\ Goto(t, "setNone")
    /\ NoRaise /\ UNCHANGED <<fileVars, runnerVars, tmp>>

(* Mutant: runner.controlDict = None comes before ctrl.restore(). *)
FireClearsFirst(t) ==
    /\ pc[t] = "waiting"
    /\ Goto(t, IF timerArg[t] THEN "decrement" ELSE "dead")
    /\ controlDict' = FALSE
    /\ NoRaise /\ UNCHANGED <<fileVars, stopMe, writeRequested, tmp>>

(* The timer of restoreControlDict runs out: ctrl.restore(), which is an   *)
(* AttributeError when it was started with None.                           *)
Fire(t) ==
    /\ pc[t] = "waiting"
    /\ Goto(t, IF timerArg[t] THEN "decrement" ELSE "dead")
    /\ NoRaise /\ UNCHANGED <<fileVars, runnerVars, tmp>>

(* runner.controlDict = None *)
SetNone(t) ==
    /\ pc[t] = "setNone"
    /\ controlDict' = FALSE
    /\ Goto(t, "dead")
    /\ NoRaise /\ UNCHANGED <<fileVars, stopMe, writeRequested, tmp>>

Step(t) ==
    /\ \/ Count(t) \/ Add(t) \/ First(t) \/ Decrement(t) \/ Subtract(t)
       \/ /\ \/ StopSet(t) \/ Copy(t) \/ Assign(t)
             \/ Read(t) \/ Rename(t) \/ Requested(t)
             \/ Test(t) \/ PutBack(t) \/ Remove(t) \/ Delete(t)
             \/ Fire(t) \/ SetNone(t)
          /\ UNCHANGED countVars
    /\ UNCHANGED <<timerArg, triggersLeft, timerStopped, solverVars,
                   otherVars>>
-------------------------------------------------------------------------
(* BasicRunner.start *)

(* A line that says controlDict was read starts the restore timer, with    *)
(* what runner.controlDict is by then.                                     *)
HandleLine ==
    /\ phase = "loop" /\ pc["main"] = "idle"
    /\ lines > 0
    /\ lines' = lines - 1
    /\ IF writeRequested THEN Goto("main", "startTimer") ELSE UNCHANGED pc
    /\ UNCHANGED <<fileVars, runnerVars, todo, tmp, timerArg, mainVars,
                   pollVars, solver, seen, countVars, otherVars>>

StartTimer ==
    /\ pc["main"] = "startTimer"
    /\ \E t \in Timers :
         /\ pc[t] = "unset"
         /\ pc' = [pc EXCEPT ![t] = "waiting", !["main"] = "resetRequest"]
         /\ timerArg' = [timerArg EXCEPT ![t] = controlDict]
    /\ UNCHANGED <<fileVars, runnerVars, todo, tmp, mainVars, pollVars,
                   solverVars, countVars, otherVars>>

ResetRequest ==
    /\ pc["main"] = "resetRequest"
    /\ writeRequested' = FALSE
    /\ Goto("main", "idle")
    /\ UNCHANGED <<fileVars, controlDict, stopMe, todo, tmp, timerArg,
                   mainVars, pollVars, solverVars, countVars, otherVars>>

EndOfOutput ==
    /\ phase = "loop" /\ pc["main"] = "idle"
    /\ solver = "ended" /\ lines = 0
    /\ phase' = "stopHandle"
    /\ late' = (late \/ \E t \in Requesters : Busy(t))
    /\ UNCHANGED <<fileVars, runnerVars, threadVars, triggersLeft, pollVars,
                   solverVars, countVars, scenario, overlap>>

(* The condition under which stopHandle restores *)
OwesRestore == stopMe \/ isRestarted

StopHandle ==
    /\ phase = "stopHandle"
    /\ IF OwesRestore /\ ~controlDict
         THEN Raise("main")
         ELSE /\ phase' = "triggers"
              /\ IF OwesRestore THEN Goto("main", "decrement")
                                ELSE UNCHANGED pc
              /\ UNCHANGED <<polling, todo>>
    /\ UNCHANGED <<fileVars, runnerVars, tmp, timerArg, triggersLeft,
                   timerStopped, solverVars, countVars, otherVars>>

(* Mutant: the end of the list of triggers is missed by one. *)
RestoreOneMore ==
    IF triggersLeft >= 0
      THEN /\ triggersLeft' = triggersLeft - 1
           /\ Goto("main", "decrement") /\ UNCHANGED phase
      ELSE phase' = "done" /\ UNCHANGED <<triggersLeft, pc>>

(* for t in self.endTriggers: t(), each a resetIt with a restore *)
NextTrigger ==
    IF triggersLeft > 0
      THEN /\ triggersLeft' = triggersLeft - 1
           /\ Goto("main", "decrement") /\ UNCHANGED phase
      ELSE phase' = "done" /\ UNCHANGED <<triggersLeft, pc>>

EndTriggers ==
    /\ phase = "triggers" /\ pc["main"] = "idle"
    /\ NextTrigger
    /\ UNCHANGED <<fileVars, runnerVars, todo, tmp, timerArg, pollVars,
                   solverVars, countVars, otherVars>>

(* FoamThread.run calls stopTimer when the solver is gone.  cancel() does  *)
(* nothing for a timer that is already running, which then starts the next. *)
StopTimer ==
    /\ solver = "ended" /\ ~timerStopped
    /\ timerStopped' = TRUE
    /\ polling' = (polling /\ pc["poller"] # "idle")
    /\ UNCHANGED <<fileVars, runnerVars, threadVars, mainVars, solverVars,
                   countVars, otherVars>>
-------------------------------------------------------------------------
(* The solver, external: with runTimeModifiable it reads a controlDict that *)
(* was written, says so, and obeys stopAt; it may end for its own reasons.  *)
Reread ==
    /\ solver = "running" /\ touched /\ lines < MaxLines
    /\ seen' = file /\ touched' = FALSE /\ lines' = lines + 1
    /\ UNCHANGED <<file, backup, counter, runnerVars, threadVars, mainVars,
                   pollVars, solver, countVars, otherVars>>

SolverEnds(obeys) ==
    /\ solver = "running" /\ obeys = ("stopAt" \in seen)
    /\ solver' = "ended"
    /\ UNCHANGED <<fileVars, runnerVars, threadVars, mainVars, pollVars, seen,
                   lines, countVars, otherVars>>
-------------------------------------------------------------------------
Main == \/ HandleLine \/ StartTimer \/ ResetRequest
        \/ EndOfOutput \/ StopHandle \/ EndTriggers

Next == \/ \E t \in Requesters : \/ \E r \in StopRequests : BeginStop(t, r)
                                 \/ BeginWrite(t)
        \/ \E t \in Threads : Step(t)
        \/ Main \/ StopTimer
        \/ Reread \/ SolverEnds(TRUE) \/ SolverEnds(FALSE)

(* Threads that can go on do; a solver with runTimeModifiable looks at its *)
(* controlDict every step and obeys.  Nobody has to make a request and the *)
(* solver need not end by itself.                                          *)
Fairness == /\ \A t \in Threads : WF_vars(Step(t))
            /\ WF_vars(Main) /\ WF_vars(StopTimer)
            /\ WF_vars(Reread) /\ WF_vars(SolverEnds(TRUE))

Spec == Init /\ [][Next]_vars
FairSpec == Spec /\ Fairness
-------------------------------------------------------------------------
Labels == {"idle", "dead", "unset", "waiting", "stopSet", "count", "first",
           "add", "copy", "assign", "read", "rename", "requested",
           "startTimer", "resetRequest", "decrement", "subtract", "test",
           "putBack", "remove", "delete", "setNone"}

TypeOK ==
    /\ file \subseteq Params
    /\ backup = NoFile \/ backup \subseteq Params
    /\ counter \in Int \cup {NoEntry}
    /\ controlDict \in BOOLEAN /\ stopMe \in BOOLEAN
    /\ writeRequested \in BOOLEAN
    /\ pc \in [Threads -> Labels]
    /\ todo \in [Threads -> Seq(Params)]
    /\ tmp \in [Threads -> SUBSET Params]
    /\ timerArg \in [Timers -> BOOLEAN]
    /\ phase \in {"loop", "stopHandle", "triggers", "done", "raised"}
    /\ triggersLeft \in 0..Triggers
    /\ polling \in BOOLEAN /\ timerStopped \in BOOLEAN
    /\ solver \in {"running", "ended"}
    /\ seen \subseteq Params /\ touched \in BOOLEAN
    /\ lines \in 0..MaxLines
    /\ scenario \in Scenarios /\ late \in BOOLEAN /\ overlap \in BOOLEAN
    /\ loaded \in [Threads -> Int \cup {NoEntry}] /\ lost \in BOOLEAN

Unmodified == file = {} /\ backup = NoFile /\ counter = NoEntry

TimersIdle == \A t \in Timers : pc[t] \in {"unset", "dead"}

(* Only one kind of client changes controlDict at a time: those who stop   *)
(* the run, with the end triggers, or a single write.  Together they do    *)
(* get into each other's way: the restore timer of a write may run out     *)
(* before stopHandle or before the next write has its own timer, and       *)
(* forgets their handle, as it does with that of a restarted run; two      *)
(* replaceParameter of two threads may overlap, so that the one that       *)
(* renames last wipes the other one out; the timer and an end trigger may  *)
(* both see the counter at 0.                                              *)
OneKind ==
    \/ scenario.writes = 0
    \/ /\ scenario.writes = 1 /\ scenario.triggers = 0 /\ ~isRestarted
       /\ \A t \in Requesters : scenario.asks[t] \subseteq {"write"}

(* After a run the controlDict is the user's again, with no copy and no    *)
(* count left behind, if no request was under way when main left its loop  *)
(* and no two of them to stop opened controlDict at the same time.         *)
RestoredAfterRun ==
    OneKind /\ phase = "done" /\ ~late /\ ~overlap /\ TimersIdle
        /\ ~writeRequested => Unmodified

(* start() is left by an exception only if a request was under way when    *)
(* main called stopHandle.                                                 *)
RaisesOnlyWhenLate == OneKind /\ phase = "raised" => late

(* While an end trigger still holds the file, nothing another thread does  *)
(* to controlDict puts the original back or spoils the copy, unless        *)
(* restore timers and requests lost an update of the count (requests to    *)
(* stop alone do no harm if they do).  A write in a restarted run gives    *)
(* back a handle that is not its own.                                      *)
TriggerChangesKept ==
    /\ isRestarted => scenario.writes = 0
    /\ scenario.writes = 0 \/ ~lost
    /\ triggersLeft > 0 /\ ~late
    => "trigger" \in file /\ backup = {}

(* When controlDictUnmodified answers TRUE, no request has left anything   *)
(* in controlDict, unless one is being carried out at that moment: only    *)
(* what the end triggers put there is.                                     *)
AnswerIsRight ==
    OneKind /\ ~controlDict /\ (\A t \in Requesters : ~Busy(t))
        => file \subseteq {"trigger"}

(* Each accepted on-demand write is undone: once the run is over and no    *)
(* restore timer is left, the user's controlDict is back.                  *)
WriteIsUndone ==
    phase = "done" /\ ~late /\ TimersIdle => Unmodified

(* A request to stop that was accepted ends the run, if nothing else       *)
(* changes controlDict.                                                    *)
StopEndsRun == OneKind /\ stopMe ~> phase \in {"done", "raised"}
=========================================================================
