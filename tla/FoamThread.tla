--------------------------- MODULE FoamThread ---------------------------
(***************************************************************************)
(* How the output of the solver gets from its pipe to the log.             *)
(*                                                                         *)
(* Two threads of PyFoam use one LineReader: the main loop of BasicRunner  *)
(* (Execution/BasicRunner.py) through FoamThread.check, read and getLine,  *)
(* and FoamThread.run (Execution/FoamThread.py), which starts the solver,  *)
(* waits for it, and then empties the pipe itself.  LineReader.read has no *)
(* lock and keeps the line in the reader from one statement to the next,   *)
(* so that its statements interleave (Python 3: the line is bytes before   *)
(* it is a str).  A third thread, the server, may call                     *)
(* FoamThread.interrupt; Ctrl-C raises KeyboardInterrupt in the main       *)
(* thread.                                                                 *)
(***************************************************************************)
EXTENDS Naturals, Sequences, FiniteSets

CONSTANTS
    Lines,      \* bound on the lines the solver prints
    PipeSize,   \* bound on the lines waiting in the pipe
    MaxLog,     \* bound on the lines of the logfile that are recorded
    Quiets,     \* the values of quiet considered
    ServerKill, \* the server may call interrupt
    CtrlC       \* where in the main loop KeyboardInterrupt may be raised

Places == {"check", "read", "inState", "copy", "check2", "handle", "write"}

ASSUME ConstantsAssumption ==
    /\ Lines \in Nat /\ PipeSize \in Nat \ {0}
    /\ MaxLog \in Nat /\ MaxLog > Lines
    /\ Quiets \subseteq BOOLEAN /\ ServerKill \in BOOLEAN
    /\ CtrlC \subseteq Places

(* Lines are numbered from 1.  Blank is the empty string that a LineReader *)
(* holds before the first line and at the end of the file, Torn one that   *)
(* has not the bytes of one line.                                          *)
Blank == 0
Torn == Lines + 1
Bytes(n) == [nr |-> n, raw |-> TRUE]
Str(n) == [nr |-> n, raw |-> FALSE]
Nothing == Str(Blank)

Threads == {"main", "run"}
Other(t) == IF t = "main" THEN "run" ELSE "main"

VARIABLES
    solver,     \* the process: "none", "running", "exited"
    emitted,    \* number of lines it printed
    pipe,       \* lines printed and not read
    stateLock,  \* FoamThread.stateLock: "free" or who holds it
    say,        \* FoamThread.hasSomethingToSay
    pid,        \* FoamThread.threadPid > 0
    line,       \* FoamThread.line
    keyInt,     \* FoamThread.keyboardInterupted
    rline,      \* LineReader.line
    goOn,       \* LineReader.goOn
    wasInt,     \* LineReader.wasInterupted
    readerKey,  \* LineReader.keyboardInterupted
    at,         \* where in LineReader.read each thread is
    got,        \* a value that it has loaded and not yet stored
    part,       \* it has read some bytes of a line, without the end
    status,     \* what its read returns
    main,       \* where BasicRunner.start is
    log,        \* lines written to the logfile
    dataKey,    \* data["keyboardInterrupt"] was set to True
    run,        \* where FoamThread.run is
    killer,     \* where the server's call of interrupt is
    pressed,    \* Ctrl-C was pressed (at most once)
    quiet,      \* never changes: nobody interrupts this run, its stdout stays
                \* open, and the 2 seconds that run() sleeps are enough for
                \* the main loop to read what is left in the pipe
    shared      \* history: run() began to read before the main loop was over

processVars == <<solver, emitted, pipe>>
threadVars == <<stateLock, say, pid, line, keyInt>>
flagVars == <<goOn, wasInt, readerKey>>
readVars == <<at, got, part, status>>
mainVars == <<main, log, dataKey>>
otherVars == <<killer, pressed, quiet, shared>>
vars == <<processVars, threadVars, rline, flagVars, readVars, mainVars, run,
          otherVars>>

(* Mutant: __init__ does not take the lock. *)
InitUnlocked ==
    /\ solver = "none" /\ emitted = 0 /\ pipe = <<>>
    /\ stateLock = "free" /\ say = FALSE /\ pid = FALSE
    /\ line = Nothing /\ keyInt = FALSE
    /\ rline = Nothing /\ goOn = TRUE /\ wasInt = FALSE /\ readerKey = FALSE
    /\ at = [t \in Threads |-> "enter"] /\ got = [t \in Threads |-> Nothing]
    /\ part = [t \in Threads |-> FALSE] /\ status = [t \in Threads |-> FALSE]
    /\ main = "check" /\ log = <<>> /\ dataKey = FALSE
    /\ run = "start" /\ shared = FALSE
    /\ killer = "idle" /\ pressed = FALSE /\ quiet \in Quiets

(* FoamThread.__init__ leaves stateLock locked until run() has started the *)
(* solver.                                                                 *)
Init ==
    /\ solver = "none" /\ emitted = 0 /\ pipe = <<>>
    /\ stateLock = "init" /\ say = FALSE /\ pid = FALSE
    /\ line = Nothing /\ keyInt = FALSE
    /\ rline = Nothing /\ goOn = TRUE /\ wasInt = FALSE /\ readerKey = FALSE
    /\ at = [t \in Threads |-> "enter"] /\ got = [t \in Threads |-> Nothing]
    /\ part = [t \in Threads |-> FALSE] /\ status = [t \in Threads |-> FALSE]
    /\ main = "check" /\ log = <<>> /\ dataKey = FALSE
    /\ run = "start" /\ shared = FALSE
    /\ killer = "idle" /\ pressed = FALSE /\ quiet \in Quiets
-------------------------------------------------------------------------
(* The solver, external *)

Emit ==
    /\ solver = "running" /\ emitted < Lines /\ Len(pipe) < PipeSize
    /\ emitted' = emitted + 1
    /\ pipe' = Append(pipe, emitted')
    /\ UNCHANGED <<solver, threadVars, rline, flagVars, readVars, mainVars, run,
                   otherVars>>

Exit ==
    /\ solver = "running"
    /\ solver' = "exited"
    /\ UNCHANGED <<emitted, pipe, threadVars, rline, flagVars, readVars, mainVars,
                   run, otherVars>>

EndOfFile == pipe = <<>> /\ solver = "exited"
-------------------------------------------------------------------------
(* LineReader.read, by the main loop (FoamThread.read) and by run()        *)

Within(t, place) ==
    /\ IF t = "main" THEN main = "read" ELSE run = "drain"
    /\ at[t] = place
    /\ UNCHANGED <<solver, emitted, threadVars, flagVars, log, dataKey, otherVars>>

GoTo(t, place) ==
    /\ at' = [at EXCEPT ![t] = place]
    /\ UNCHANGED <<main, run>>

Return(t, result) ==
    /\ at' = [at EXCEPT ![t] = "enter"]
    /\ status' = [status EXCEPT ![t] = result]
    /\ main' = IF t = "main" THEN "setState" ELSE main
    /\ run' = IF t = "run" /\ ~result THEN "stop" ELSE run

(* An exception: start() is left, or the thread ends without stopTimer.    *)
Raise(t) ==
    /\ at' = [at EXCEPT ![t] = "enter"]
    /\ main' = IF t = "main" THEN "raised" ELSE main
    /\ run' = IF t = "run" THEN "failed" ELSE run

(* if not self.goOn: return False *)
Enter(t) ==
    /\ Within(t, "enter")
    /\ IF goOn THEN GoTo(t, "readline") /\ UNCHANGED status ELSE Return(t, FALSE)
    /\ UNCHANGED <<pipe, rline, got, part>>

(* Mutant: the line is looked at and stays in the pipe. *)
ReadLinePeeks(t) ==
    /\ Within(t, "readline")
    /\ \/ pipe # <<>> /\ got' = [got EXCEPT ![t] = Bytes(Head(pipe))]
       \/ EndOfFile /\ got' = [got EXCEPT ![t] = Bytes(Blank)]
    /\ GoTo(t, "put")
    /\ UNCHANGED <<pipe, rline, part, status>>

(* fh.readline().  The pipe has no buffer, and is read byte by byte: two   *)
(* threads that read at the same time may each get some bytes of a line,   *)
(* and the one that gets the last of them returns.                         *)
ReadLine(t) ==
    /\ Within(t, "readline")
    /\ \/ /\ pipe # <<>> /\ pipe' = Tail(pipe)
          /\ got' = [got EXCEPT ![t] = Bytes(IF part[t] THEN Torn ELSE Head(pipe))]
          /\ part' = [part EXCEPT ![t] = FALSE]
       \/ /\ pipe # <<>> /\ pipe' = Tail(pipe) /\ at[Other(t)] = "readline"
          /\ got' = [got EXCEPT ![t] = Bytes(Torn)]
          /\ part' = [u \in Threads |-> u # t]
       \/ /\ EndOfFile /\ UNCHANGED pipe
          /\ got' = [got EXCEPT ![t] = Bytes(IF part[t] THEN Torn ELSE Blank)]
          /\ part' = [part EXCEPT ![t] = FALSE]
    /\ GoTo(t, "put")
    /\ UNCHANGED <<rline, status>>

(* self.line=... *)
Put(t) ==
    /\ Within(t, "put")
    /\ rline' = got[t] /\ got' = [got EXCEPT ![t] = Nothing]
    /\ GoTo(t, "type")
    /\ UNCHANGED <<pipe, part, status>>

(* if type(self.line) is bytes: self.line=self.line.decode().  A str that  *)
(* the other thread has put there meanwhile has no decode.                 *)
Type(t) ==
    /\ Within(t, "type")
    /\ GoTo(t, IF rline.raw THEN "decode" ELSE "len")
    /\ UNCHANGED <<pipe, rline, got, part, status>>

Decode(t) ==
    /\ Within(t, "decode")
    /\ IF rline.raw
         THEN got' = [got EXCEPT ![t] = Str(rline.nr)] /\ GoTo(t, "store")
         ELSE Raise(t) /\ UNCHANGED got
    /\ UNCHANGED <<pipe, rline, part, status>>

Store(t) ==
    /\ Within(t, "store")
    /\ rline' = got[t] /\ got' = [got EXCEPT ![t] = Nothing]
    /\ GoTo(t, "len")
    /\ UNCHANGED <<pipe, part, status>>

(* if len(self.line)>0 *)
Measure(t) ==
    /\ Within(t, "len")
    /\ status' = [status EXCEPT ![t] = (rline.nr # Blank)]
    /\ GoTo(t, "strip")
    /\ UNCHANGED <<pipe, rline, got, part>>

(* self.line=self.line.strip() *)
Strip(t) ==
    /\ Within(t, "strip")
    /\ got' = [got EXCEPT ![t] = rline]
    /\ GoTo(t, "putStripped")
    /\ UNCHANGED <<pipe, rline, part, status>>

PutStripped(t) ==
    /\ Within(t, "putStripped")
    /\ rline' = got[t] /\ got' = [got EXCEPT ![t] = Nothing]
    /\ Return(t, status[t])
    /\ UNCHANGED <<pipe, part>>

Reads(t) ==
    \/ Enter(t) \/ ReadLine(t) \/ Put(t) \/ Type(t) \/ Decode(t) \/ Store(t)
    \/ Measure(t) \/ Strip(t) \/ PutStripped(t)

(* After a Ctrl-C that LineReader.read caught: self.line="", return False  *)
Clear ==
    /\ Within("main", "clear")
    /\ rline' = Nothing
    /\ Return("main", FALSE)
    /\ UNCHANGED <<pipe, got, part>>
-------------------------------------------------------------------------
(* Mutant: the process is not killed. *)
SetStateNoKill(state) ==
    /\ say' = state
    /\ keyInt' = IF ~state /\ wasInt THEN readerKey ELSE keyInt
    /\ UNCHANGED solver

(* Mutant: what the reader knows of Ctrl-C is not taken over. *)
SetStateNoKey(state) ==
    /\ say' = state
    /\ solver' = IF ~state /\ wasInt /\ pid THEN "exited" ELSE solver
    /\ UNCHANGED keyInt

(* FoamThread.setState between acquire and release: with an interrupt the  *)
(* solver is sent SIGKILL.                                                 *)
SetState(state) ==
    /\ say' = state
    /\ IF ~state /\ wasInt
         THEN /\ keyInt' = readerKey
              /\ solver' = IF pid THEN "exited" ELSE solver
         ELSE UNCHANGED <<keyInt, solver>>
-------------------------------------------------------------------------
(* BasicRunner.start *)

(* while self.run.check() *)
Check ==
    /\ main = "check" /\ stateLock = "free"
    /\ main' = IF say THEN "read" ELSE "end"
    /\ UNCHANGED <<processVars, threadVars, rline, flagVars, readVars, log, dataKey,
                   run, otherVars>>

(* self.run.read(): when reader.read has returned, setState, then the line *)
(* is copied.  The lock is taken for interrupt() as well.                  *)
Acquire ==
    /\ main \in {"setState", "interrupt", "broken"} /\ stateLock = "free"
    /\ stateLock' = "main"
    /\ main' = IF main = "setState" THEN "inState"
               ELSE IF main = "interrupt" THEN "inInterrupt" ELSE "inBroken"
    /\ UNCHANGED <<processVars, say, pid, line, keyInt, rline, flagVars, readVars,
                   log, dataKey, run, otherVars>>

InState ==
    /\ main = "inState"
    /\ SetState(status["main"])
    /\ stateLock' = "free"
    /\ main' = "copy"
    /\ UNCHANGED <<emitted, pipe, pid, line, rline, flagVars, readVars, log,
                   dataKey, run, otherVars>>

Copy ==
    /\ main = "copy"
    /\ line' = rline
    /\ main' = "check2"
    /\ UNCHANGED <<processVars, stateLock, say, pid, keyInt, rline, flagVars,
                   readVars, log, dataKey, run, otherVars>>

(* if not self.run.check(): break *)
Check2 ==
    /\ main = "check2" /\ stateLock = "free"
    /\ main' = IF say THEN "handle" ELSE "end"
    /\ UNCHANGED <<processVars, threadVars, rline, flagVars, readVars, log, dataKey,
                   run, otherVars>>

(* line=self.run.getLine() and what is done with the line up to the print, *)
(* where a broken pipe is an interrupt.  The first search in the line      *)
(* fails if it is still bytes.                                             *)
Handle ==
    /\ main = "handle"
    /\ IF line.raw THEN main' = "raised" /\ UNCHANGED wasInt
       ELSE \/ main' = "write" /\ UNCHANGED wasInt
            \/ ~quiet /\ main' = "broken" /\ wasInt' = TRUE
    /\ UNCHANGED <<processVars, threadVars, rline, goOn, readerKey, readVars, log,
                   dataKey, run, otherVars>>

(* fh.write(line+"\n").  Two readers can hand one line to each other for   *)
(* ever, so that the log grows beyond any bound.                           *)
WriteLog ==
    /\ main = "write"
    /\ log' = IF Len(log) < MaxLog THEN Append(log, line.nr) ELSE log
    /\ main' = "check"
    /\ UNCHANGED <<processVars, threadVars, rline, flagVars, readVars, dataKey, run,
                   otherVars>>

(* self.run.interrupt(), from except KeyboardInterrupt or from the print   *)
InInterrupt ==
    /\ main \in {"inInterrupt", "inBroken"}
    /\ SetState(FALSE)
    /\ stateLock' = "free"
    /\ dataKey' = (dataKey \/ main = "inInterrupt")
    /\ main' = IF main = "inInterrupt" THEN "check" ELSE "write"
    /\ UNCHANGED <<emitted, pipe, pid, line, rline, flagVars, readVars, log, run,
                   otherVars>>

(* After the loop keyboardInterrupt is taken from the thread if it was not *)
(* set by the handler.                                                     *)
ReportedKey == dataKey \/ keyInt
-------------------------------------------------------------------------
(* Ctrl-C *)

InTry == {"readline", "put", "type", "decode", "store"}
Statements == InTry \cup {"enter", "len", "strip", "putStripped", "clear"}

(* In the try of LineReader.read, which will never read again *)
CtrlCInRead ==
    /\ main = "read" /\ at["main"] \in InTry
    /\ "read" \in CtrlC /\ ~pressed /\ ~quiet
    /\ pressed' = TRUE
    /\ wasInt' = TRUE /\ readerKey' = TRUE /\ goOn' = FALSE
    /\ at' = [at EXCEPT !["main"] = "clear"]
    /\ got' = [got EXCEPT !["main"] = Nothing]
    /\ part' = [part EXCEPT !["main"] = FALSE]
    /\ UNCHANGED <<processVars, threadVars, rline, status, mainVars, run, killer,
                   quiet, shared>>

(* In another statement of the loop's body: caught by the handler, which   *)
(* calls interrupt.  A lock that main holds stays locked.                  *)
CtrlCInBody ==
    /\ main \in CtrlC \ {"check"} /\ ~pressed /\ ~quiet
    /\ main = "read" => at["main"] \notin InTry
    /\ pressed' = TRUE
    /\ wasInt' = TRUE
    /\ main' = "interrupt"
    /\ at' = [at EXCEPT !["main"] = "enter"]
    /\ got' = [got EXCEPT !["main"] = Nothing]
    /\ UNCHANGED <<processVars, threadVars, rline, goOn, readerKey, part, status, log,
                   dataKey, run, killer, quiet, shared>>

(* In the condition of the while loop, outside of the try: start() is left *)
(* by the exception.                                                       *)
CtrlCInCondition ==
    /\ main = "check" /\ "check" \in CtrlC /\ ~pressed /\ ~quiet
    /\ pressed' = TRUE
    /\ main' = "raised"
    /\ UNCHANGED <<processVars, threadVars, rline, flagVars, readVars, log, dataKey,
                   run, killer, quiet, shared>>
-------------------------------------------------------------------------
(* The server: FoamAnswerer._kill calls FoamThread.interrupt *)

KillRequest ==
    /\ ServerKill /\ ~quiet /\ killer = "idle"
    /\ killer' = "setState"
    /\ wasInt' = TRUE
    /\ UNCHANGED <<processVars, threadVars, rline, goOn, readerKey, readVars,
                   mainVars, run, pressed, quiet, shared>>

KillState ==
    /\ killer = "setState" /\ stateLock = "free"
    /\ SetState(FALSE)
    /\ killer' = "done"
    /\ UNCHANGED <<emitted, pipe, stateLock, pid, line, rline, flagVars, readVars,
                   mainVars, run, pressed, quiet, shared>>
-------------------------------------------------------------------------
(* FoamThread.run *)

(* Mutant: the lock is never released. *)
StartKeepsLock ==
    /\ run = "start"
    /\ solver' = "running" /\ pid' = TRUE /\ say' = TRUE
    /\ run' = "wait"
    /\ UNCHANGED <<emitted, pipe, stateLock, line, keyInt, rline, flagVars, readVars,
                   mainVars, otherVars>>

(* Popen, and only then the lock is released *)
Start ==
    /\ run = "start"
    /\ solver' = "running" /\ pid' = TRUE /\ say' = TRUE
    /\ stateLock' = "free"
    /\ run' = "wait"
    /\ UNCHANGED <<emitted, pipe, line, keyInt, rline, flagVars, readVars, mainVars,
                   otherVars>>

LoopIsOver == main \in {"end", "raised"}

(* Mutant: no time is given to the main loop. *)
WaitNoSleep ==
    /\ run = "wait" /\ solver = "exited"
    /\ run' = "drain"
    /\ shared' = ~LoopIsOver
    /\ UNCHANGED <<processVars, threadVars, rline, flagVars, readVars, mainVars,
                   killer, pressed, quiet>>

Wait ==
    /\ run = "wait" /\ solver = "exited"
    /\ run' = IF say THEN "sleep" ELSE "drain"
    /\ shared' = (~say /\ ~LoopIsOver)
    /\ UNCHANGED <<processVars, threadVars, rline, flagVars, readVars, mainVars,
                   killer, pressed, quiet>>

(* In a quiet run main has come to the end of the file meanwhile.          *)
Wake ==
    /\ run = "sleep"
    /\ quiet => LoopIsOver
    /\ run' = "drain"      \* while self.reader.read(self.output): print
    /\ shared' = ~LoopIsOver
    /\ UNCHANGED <<processVars, threadVars, rline, flagVars, readVars, mainVars,
                   killer, pressed, quiet>>

(* stopTimer, threadPid=-1 *)
Stop ==
    /\ run = "stop"
    /\ pid' = FALSE
    /\ run' = "done"
    /\ UNCHANGED <<processVars, stateLock, say, line, keyInt, rline, flagVars,
                   readVars, mainVars, otherVars>>
-------------------------------------------------------------------------
Main == Check \/ Reads("main") \/ Clear \/ Acquire \/ InState \/ Copy \/ Check2
        \/ Handle \/ WriteLog \/ InInterrupt
Keyboard == CtrlCInRead \/ CtrlCInBody \/ CtrlCInCondition
Killer == KillRequest \/ KillState
Run == Start \/ Wait \/ Wake \/ Reads("run") \/ Stop

Next == Emit \/ Exit \/ Main \/ Keyboard \/ Killer \/ Run

(* The threads run; the solver need not print, end or be interrupted. *)
Fairness == WF_vars(Main) /\ WF_vars(Run) /\ WF_vars(KillState)

Spec == Init /\ [][Next]_vars
FairSpec == Spec /\ Fairness
-------------------------------------------------------------------------
LineType == [nr : 0..Torn, raw : BOOLEAN]

TypeOK ==
    /\ solver \in {"none", "running", "exited"}
    /\ emitted \in 0..Lines
    /\ pipe \in Seq(1..Lines)
    /\ stateLock \in {"init", "free", "main"}
    /\ say \in BOOLEAN /\ pid \in BOOLEAN
    /\ line \in LineType /\ rline \in LineType
    /\ keyInt \in BOOLEAN /\ goOn \in BOOLEAN
    /\ wasInt \in BOOLEAN /\ readerKey \in BOOLEAN
    /\ at \in [Threads -> Statements]
    /\ got \in [Threads -> LineType]
    /\ part \in [Threads -> BOOLEAN] /\ status \in [Threads -> BOOLEAN]
    /\ main \in Places \cup {"setState", "interrupt", "inInterrupt", "broken",
                             "inBroken", "end", "raised"}
    /\ log \in Seq(0..Torn)
    /\ dataKey \in BOOLEAN
    /\ run \in {"start", "wait", "sleep", "drain", "stop", "done", "failed"}
    /\ killer \in {"idle", "setState", "done"}
    /\ pressed \in BOOLEAN /\ quiet \in BOOLEAN /\ shared \in BOOLEAN

(* The log has the lines from the first on, in their order and without a   *)
(* gap, wherever the run is interrupted: only lines at the end are lost.   *)
(* The exception is a run in which run() began to read before the main     *)
(* loop was over, because of an interrupt or because there was more to     *)
(* read than 2 seconds are enough for.  Then the two threads overwrite     *)
(* self.line of the reader for each other, and lines are lost, logged      *)
(* twice or torn.                                                          *)
InOrder == ~shared => \A i \in DOMAIN log : log[i] = i

(* Without an interrupt the main loop ends only when the solver is gone    *)
(* and nothing is left in the pipe: not before Popen, not at an empty pipe. *)
EndsAtEndOfFile == main = "end" /\ ~wasInt => EndOfFile

(* What RestartRunner relies on (RestartRunner.py:202): a Ctrl-C, wherever *)
(* it was caught, is in the data of the run, a kill by the server is not.  *)
KeyboardReported == main = "end" => (ReportedKey <=> pressed)

(* A solver that is gone, by itself or killed, ends the main loop and the  *)
(* thread, whatever the interleaving with an interrupt; "failed" is an     *)
(* exception that ends the thread.  When run() began to read before the    *)
(* main loop was over they can keep each other going, but as soon as one   *)
(* of the two is over the other comes to its end.                          *)
RunIsOver == run \in {"done", "failed"}
RunEnds ==
    /\ solver = "exited" ~> shared \/ (LoopIsOver /\ RunIsOver)
    /\ solver = "exited" /\ (LoopIsOver \/ RunIsOver) ~> LoopIsOver /\ RunIsOver

(* An accepted interrupt gets rid of the solver. *)
InterruptEnds == pressed /\ wasInt ~> solver = "exited"

(* In a quiet run the two threads, the lock and the shared reader          *)
(* implement the reliable copy of lines.                                   *)
Copies == INSTANCE LineCopy WITH
              produced <- IF quiet THEN emitted ELSE 0,
              copied <- IF quiet THEN log ELSE <<>>
LineCopySpec == Copies!Spec
=========================================================================
