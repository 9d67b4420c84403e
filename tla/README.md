# TLA+ models of PyFoam

PyFoam runs OpenFOAM solvers: it starts the solver, copies and analyzes its
output, changes the dictionaries of the case for the time of a run, stops and
restarts runs, watches their logs and lets other programs control them over
XMLRPC. This directory holds TLA+ modules for the parts of it that are hard to
test, configurations that check them with TLC on small instances, and proofs
about all of them for every value of the parameters. `PROJECT.json` lists the
runs, the lines each definition stands for, the hazards and the theorems.

    tlc -config MCBackupFile.cfg MCBackupFile      # one run
    tlapm OutFilesProofs.tla                       # the proofs of one module

## The system

Paths are relative to `src/PyFoam`.

| Component | Module | State | Hard behaviour |
|---|---|---|---|
| Backup of dictionary files: `RunDictionary/FileBasis.py` (`FileBasisBackup`), its users `Applications/Common*Trigger.py` | `BackupFile`, `ControlledFile` | the file, `<name>.backup`, class-level `counter` | clients come and go in any order; a process dies with changes pending |
| Control of a run: `Execution/BasicRunner.py`, `RunDictionary/ParameterFile.py`, `Execution/ConvergenceRunner.py` | `RunnerControl` | `stopMe`, `writeRequested`, `controlDict`, restore timers, end triggers | five kinds of threads share `controlDict` and the count without a lock |
| Solver output: `Execution/FoamThread.py`, `Basics/LineReader.py` | `FoamThread`, `LineCopy` | `stateLock`, `hasSomethingToSay`, `threadPid`, the reader | two threads read one pipe; Ctrl-C at any statement |
| FoamServer: `Infrastructure/FoamServer.py`, `ServerBase.py` | `RunnerControl`, `FoamThread`, `ServerRegistry` | the master, the port, the registration | serves while the run starts and ends; registers late |
| FoamMetaServer: `Infrastructure/FoamMetaServer.py`, `NetworkHelpers.py` | `ServerRegistry` | dictionary of servers, two locks | decides on copies of the dictionary; asks back while it registers |
| Restarting: `Applications/RestartRunner.py`, `RunDictionary/SolutionDirectory.py` | `RestartLoop` | times on disk, cached times, data of the last run, logs | stale cache, a restart without progress |
| Cluster jobs: `Infrastructure/ClusterJob.py` | `ClusterJob` | phase, message files, files in the case | a message or a kill at any phase, restart of a job |
| Data files: `Basics/OutFileCollection.py`, `OutputFile.py`, `BasicFile.py` | `OutFiles`, `DataTables` | files, open list, counts per name | more files than handles |
| Time lines: `Basics/TimeLineCollection.py` | `TimeLines` | times, values, masters and slaves | values on demand, accumulation, condensing |
| Watching of logs: `Execution/BasicWatcher.py`, `Basics/LineReader.py` | `LogWatcher`, `LineCopy` | open log, logs to come, bytes read | the log grows while it is read; logs of restarts overlap in time |
| Log analysis: `LogAnalysis/` | `NewTime` of `TimeLines` and `OutFiles` | analyzers, listeners, triggers, phases, the time | a trigger at the same time as a reset; order of listeners |
| Dictionary parser, run database, test runs, plotting, applications, third-party code | none | | sequential, or input and output only |

How they interact: `BasicRunner.start` (the main thread) reads lines through
`FoamThread`, hands each to its analyzers and watches for two of them: a new
time and `Re-reading object controlDict`. `FoamThread` has a thread of its own
that starts the solver, waits for it and empties the pipe, and a chain of
timers that look for the files `stop`, `stopWrite`, `write` and `kill` in the
case. `FoamServer` answers in a further thread, so a request to stop or to
write may come from main (convergence), from a timer or from the server. Each
such request opens `system/controlDict` through `FileBasisBackup`, which the
triggers of the command line (write all, functions, safe schemes) use as well.
A `FoamServer` registers with the `FoamMetaServer`, which asks it back.
`RestartRunner` and `ClusterJob` start such runs again and again; a
`ClusterJob` passes the messages of the user on by writing `stop` and `write`
into the case. The analyzers keep what they find in time lines, from which
plots are drawn, and in data files. `BasicWatcher` feeds the same analyzers
from the logs of runs.

What makes each part correct:

* backup: while anybody has changes pending the copy is what the user wrote,
  and when nobody has, the file is;
* control: an accepted stop ends the run, an accepted write is undone, after
  the run nothing is left of either;
* output: as long as one thread reads at a time every line gets to the log once
  and in order; the run ends when the solver does and not before, an interrupt
  ends the solver and is reported;
* registry: who was told that it is registered can be found, also after a scan
  when the meta server was started again, who is gone goes;
* restarts: the solver is started again exactly if there was progress, and no
  log is lost;
* jobs: a stop waits in its file until the job takes it, reaches the solver,
  and a job that was stopped is not called finished;
* data files: no row is lost or written twice, however few handles there are;
* time lines: every line has the right value for each time;
* watching: of several runs the data is concatenated, in order, none missing,
  and at most the time at which one is left for the next from both.

## Modules

### `ControlledFile`, `BackupFile`, `BackupFileProofs`

`ControlledFile` is the promise: a file whose lasting content (`base`) is
changed by its owner only; clients change it for a while. `BackupFile` is
`FileBasisBackup` with its clients: `OpenWithBackup` is the constructor,
`RestoreFromBackup` is `restore`, `Open`, `Write` and `Reset` are what
`WriteAllTrigger`, `LibFunctionTrigger` and `SafeTrigger` do (`fresh` is the
flag of the same name), `Edit` is the user with an editor, `Crash` the death of
the process: the count is gone, the copy is not. A count of 0 stands for the
missing entry. `crashed` remembers that a process died with changes pending.

### `RunnerControl`, `RunnerControlProofs`

All threads of a run that touch `controlDict`: `main`, `poller`
(`checkForStopFile`), `server` (`FoamAnswerer`) and the restore timers. One step
is one access to something shared: the two flags, `runner.controlDict`, the
entry in `FileBasisBackup.counter`, or a file on disk. So `stopMe` is tested in
one step (`BeginStop`) and set in another (`StopSet`); `counter += 1` is a load
(`Count`) and a store (`Add`), with `First` and `Copy` for the missing entry;
`replaceParameter` is `Read` and `Rename`; `restore` is a load (`Decrement`), a
store (`Subtract`), `Test`, `PutBack`, `Remove` and `Delete`; a timer is `Fire`,
these six and `SetNone`; and `main` handles the line about the re-reading with
`HandleLine`, `StartTimer` and `ResetRequest`. `Raise` is an exception in a
thread and what it does there. The content of the file is the set of the
parameters that differ from what the user wrote. The solver is external: with
`runTimeModifiable` it reads a changed `controlDict`, prints the line about it
(`Reread`) and obeys `stopAt` (`SolverEnds(TRUE)`).

A scenario says who asks for what, how many end triggers hold a backup and how
many writes there are. `OneKind` are the scenarios in which either stops or a
single write happen: where both mix, the code keeps no promise, and
`RestoredAfterRun`, `RaisesOnlyWhenLate`, `AnswerIsRight` and `StopEndsRun` are
about `OneKind` only. `late`, `overlap` and `lost` are history variables. They
say that a request was under way when main left its loop, that two requests to
stop, each with its own handle, ran at once, and that a thread stored a count
that it had made from one that was not the count any more. Nobody waits for the
other in these cases, and what the code does then is in the model and among the
findings; a property that makes no promise there says so in its formula.

### `LineCopy`, `FoamThread`, `FoamThreadProofs`

`LineCopy` is a reliable copy of lines. `FoamThread` models `BasicRunner.start`
reduced to its loop (`Check` ... `WriteLog`), the thread `FoamThread.run`
(`Start` ... `Stop`), the lock that `__init__` takes and `run` releases, and a
kill by the server (`KillRequest`, `KillState`). The reader that both threads
use has no lock: `LineReader.read` is modelled statement by statement for each
of them, with loads and stores of `self.line` apart (`Enter`, `ReadLine`,
`Put`, `Type`, `Decode`, `Store`, `Measure`, `Strip`, `PutStripped`). Two
threads in `readline` on one unbuffered pipe may each get some bytes of a line
(`Torn`), the line of one may be replaced by that of the other between any two
statements, and the `decode` of a line that is a `str` by then is an exception
(`Raise`). There is one Ctrl-C, at a statement out of `CtrlC`: where it hits
decides who catches it, `LineReader.read` (`CtrlCInRead`, `Clear`), the handler
in the loop (`CtrlCInBody`), or nobody if it hits the condition of the loop. An
output whose reader is gone (`IOError` in the `print`) is an interrupt without
Ctrl-C: the second choice in `Handle`, and `broken`. The solver writes into a pipe of bounded size
and may end at any time. In a run with `quiet` nobody interrupts and the two
seconds that `run` sleeps are enough for the main loop to read the rest; only
such a run implements `LineCopy`. `shared` remembers that `run` began to read
before the main loop was over. `MaxLog` bounds the log, since two readers can
hand one line to each other for ever.

Assumptions: the process that is killed is the solver itself (the shell that
`Popen` starts replaces itself by a simple command); the solver
writes whole lines, so that only a second reader can take a part of one.

### `ServerRegistry`, `ServerRegistryProofs`

The meta server with the servers of the runs of one machine. Per run: `Start`
(the lowest free port, a Timer for `register`; without a free port the run is
`alone`, without a server), `Register`, `Registered` (the answer),
`Deregister`, `Close`, `Die`. In the meta server three threads:
`rpc` with `RegisterCall` and `DeregisterCall`; the checker with
`CopyServers`, `CheckEntry`, `DeregisterBad` and `Sleep`, which decides on a
copy; the collector with `BeginScan`, `Connect`, `IsFoamServer`, `AskFound`,
`RegisterFound`, `EndScan`. A scan asks each port twice, in two connections. A
server that is gone or too slow at the second one (or too slow at the first)
ends `checkFoamServers`, and what it had found is lost with the rest
(`DropResult`). An exception outside of the two `try` blocks of
`MetaCollector.run`, from a subnet that is no address or from the lookup of a
name, ends the thread with `startupLock` held (`ScanRaises`).
`_registerServer` is split where it asks the server back (`LockData`, `AskPid`,
`CheckValid`, `Query`, `UnlockData`), because the server may be gone or replaced
between two questions. `Restart` is the death and start of the meta server,
whose list is in memory only. `Answer` is a question to a port: the process
that has it now, or nobody, or a timeout. `lastScan` says how the last scan to
begin went; `unscanned`, that no scan has gone through since a restart.

Assumptions: the pid of a process is never used again; one machine; a call
that the meta server does not answer is an error at the caller.
`FoamMetaServer` uses `has_key` and `iteritems`, so all of this is its
behaviour under Python 2.

### `RestartLoop`, `RestartLoopProofs`

`RestartRunner.run` as a loop of `CheckRestart`, `Start`, the run (`Step`,
`Write`, `SolverEnds`, external) and `Check`. `GetLast` is
`SolutionDirectory.getLast` with `reread`, which lists the times again only if
the change time of the directory, in whole seconds, is newer than the last
listing; `Tick` is the clock. `IsRestart` and `LogNumber` are
`findRestartFiles`, which chooses the log (`OpenLog`). `begunAtOnce` remembers
that a run began in the second in which the directory of the case had changed
last, `wroteLater` that it changed it in a later one: a parallel run writes its
times into `processor0`, so that the directory of the case changes only when it
begins.

### `ClusterJob`, `ClusterJobProofs`

`phase` goes through `doIt`, statement by statement where something shared is
read or written. The chain of timers is `Look`, `StopJob` (`SetEnd`,
`WriteStop`, `TimerUnlinkStop`) and `WriteCheckpoint`
(`TimerUnlinkCheckpoint`). `CheckForStopFile` is the run, which finds the files
in the case. The queuing system kills (`Kill`) and starts (`Submit`), the user
sends messages (`Message`). History: `prepared`, `setupCut`, `leftover`, `late`,
and `told`, what became of the last stop of the user: `asked`, `taken` by a
timer, `cut` by a kill after it was taken, or `none` again after the cleaning up.

### `DataTables`, `OutFiles`, `OutFilesProofs`

`DataTables` are tables to which rows are added. `OutFiles` is
`OutFileCollection.write` with everything below it: the choice of the file
(`FileName`), opening (`Opened`: mode `w` empties, mode `a` does not), the list
of open files with its limit (`AddToOpenList`, `Without`), the temporary
closing, and the end (`Close`, then `CloseFile` for each). A row is the time it
was written at. `NewCollection` is `setDirectory` on a collection in use, which
`AnalyzedCommon.reset` does when the log names a program with plots of its own:
files are begun anew. The handles of the old collection stay open (`abandoned`)
until Python collects them (`CollectGarbage`); at most `MaxReplaced` collections
wait for that.

Assumptions: no analyzer has a name that ends like the file of another
(`U` and `U_2`); the limit is at least 1; after `tearDown` nothing is written;
there is a line with titles (without titles the first line is missing and
nothing else changes). Inside one call the new file is opened before the oldest
is closed, so for that moment there is one handle more than the limit; the
model's step is the whole call.

### `TimeLines`, `LogAnalysisProofs`

`TimeLineCollection` for a master and its slave, one thread. `NewTime` is
`FoamLogAnalyzer.setTime` with `timeChanged` of every analyzer, whose
collections do `SetTime`: append the time if the time before got a value, else
replace it and append on demand (`SetTimeOf`, `Extend`), and condense the older
points when there are `splitThres` of them (`Split` with `SplitFrom`,
`Condense`, `Extremes`, `FirstUnsplit`). `SetValue` is `setValue` with
`getValues`, `ValueUsed`, `Accumulate` and `Store`. Times are whole multiples of
a small unit, so that two thirds of them are whole numbers, and values that are
averaged are multiples of the numbers they may be divided by. `setSplitting`
makes odd thresholds even, so the thresholds of the model are even.

### `LogWatcher`, `LogAnalysisProofs`

`BasicWatcher` with its `LineReader`: `Construct` sorts the logs by the time at
which their mesh was created (any order of the logs that is `SortedByMesh`,
which is one), `Begin` opens the first, then `LeaveLoop`,
`Switch` and `Stay` are the three ways through the head of the loop, `Read`
takes a line, `Handle` gives it to the analyzers. `Write` is the run that
writes the last log, at any moment, also between two of these. Ctrl-C is
caught by the reader, by the handler in the loop, or by nobody
(`CtrlCInRead`, `CtrlCInHandle`, `CtrlCInCondition`). A line is a record: the
time that it tells, its bytes in the file and its characters when decoded.
`watched` is the case that is considered and `clock` the time of the analyzer;
the names `WatchInit`, `WatchNext`, `WatchSpec` keep the module apart from
`TimeLines`, whose proofs it shares.

Assumptions (`ReleaseNotes.md:790`): the logs are of one solver and all but the
last are finished; a writer flushes whole lines, as `BasicRunner` does; and the
times in a log are later than the time of its mesh, since a run goes on from
there.

## Runs

| Run | Instance | Shows |
|---|---|---|
| `backup` | 4 clients, 3 contents, deaths; 579 states | The copy is what the user wrote while anybody holds the file, content is lost only when a later process copies over a leftover `.backup`; implements `ControlledFile` |
| `control` | five scenarios: stops by poller, server and main, restarted or not, 1 end trigger; a `write` file without a trigger; a `write` file twice with 2 timers and 1 trigger; a write by poller or server with stops by the server and 1 trigger; 582761 states | For a single kind of user: an accepted stop ends the run, afterwards `controlDict` is the user's with no copy and no count left, `start` raises only if a request was late, `controlDictUnmodified` answers rightly. For all: the original comes back under an end trigger only if timers and requests lost an update of the count |
| `lines` | 2 lines, pipe of 2, 3 lines of the log recorded, quiet or not, kill by the server, broken pipe, Ctrl-C anywhere outside the lock, both threads in the reader at once; 329381 states | `FoamThread` implements `LineCopy` when quiet; the log is a beginning of the output as long as one thread reads at a time; always: end only at the end of file, report of Ctrl-C, end of the solver, and the end of one reader is that of the other |
| `out_files` | 2 names, 2 data per time, times 0 to 2, 2 handles, a collection replaced; 206117 states | The limit of a collection holds, rows are never lost or doubled, no datum of a time is missing; implements `DataTables` |
| `registry` | 2 runs, 2 ports, 1 more scan, restart, timeout or raising scan; 347191 states | At a new port and with timely answers who registered is listed, after a restart as soon as a scan went through, and who serves is kept; who is gone is removed and every collector gets its turn unless a scan raised; a scan that is not cut short finds who serves |
| `jobs` | 3 starts, 2 messages, array and parallel jobs; 30931 states | A stop stays in its file until a timer takes it or the job cleans up, and ends the run, a checkpoint is written, a stopped job is not called finished, a case is run only when prepared, `doIt` raises only in one race |
| `restarts` | times to 4, 3 seconds, 4 runs, serial or parallel; 181656 states | No restart without progress, no end in spite of progress but for a run that began in the second of the last change of the directory, no log replaced but by a serial run of a decomposed case |
| `timelines` | 4 times with 2 values each, all accumulations, master and slave in both orders; 60 times split at 14, 16, 20 and 32; 783881 states | Every line has the right value for each time; times ascend, points stay bounded and extremes survive all splits |
| `watch` | one log from its start, three logs in two orders of the files with three starts of the last, a run that failed at once; followed or not; Ctrl-C anywhere; 55449 states | The lines of the runs are handled in their order, none missing, at most one time of two runs twice; the watcher ends when it should and copies a log that grows |
| `write_not_read` | a `write` file | violation, see findings |
| `reused_port` | 2 runs, no faults but the death of a run | violation |
| `watch_bytes` | one finished log with one character of two bytes | violation |

The type invariants of `BackupFile`, `FoamThread`, `ServerRegistry`,
`RestartLoop`, `ClusterJob` and `OutFiles` are theorems and not in the runs;
those of `RunnerControl` and `TimeLines` are run as well: that of `TimeLines`
relates the lengths of the lines, that of `RunnerControl` says that the end
triggers are each called once (`triggersLeft`) and no more than types of the
rest. That of `LogWatcher` is a part of `Concatenated`.

Bounds. Four clients are more than the three triggers that exist plus a
restart. In `control` each requester may ask again and again and be at every
statement while the others are; one end trigger is enough for the difference
between "the last one" and "not the last one" in `restore`; two timers allow
two writes to overlap, and a timer and a new request to lose an update of the
count. `MaxLines` bounds the lines about `controlDict` that wait
in the pipe; two are enough for main to be behind the solver. Two lines and a
pipe of two let the solver be ahead and gone with lines left, one for each
reader; a log of three is longer than any without repetition (a full pipe, which
blocks the solver, and more lines are covered by the theorems). With
two handles and four files every file is closed and opened again, and one
collection is replaced while its files are open. Two runs and
two ports give both a reused port and two servers at once, of which one may die
between the questions of a scan that was to find the other; one event is one of
a restart, a call of `collect`, a timeout and an exception in a scan. What needs
a third process or two such events is a theorem. Three starts are a first job, a restarted one and another
after a restart; two messages are a stop and a checkpoint in either order or
the same twice. Four runs suffice for runs with and without progress after each
other within and beyond one second. 60 times with a threshold of 14 or 16 are split
often enough that the same points are condensed again and again. Three logs
give a middle one that is neither the first nor followed, which tells the list
of change times from the list of files.

Deadlock is checked for `BackupFile` only: all the others may rightly stop (a
run, a job, a watch ends, the bounds are used up).

Fairness. In `RunnerControl` a thread that can go on does (the operating
system schedules threads), and a solver with `runTimeModifiable` reads a
changed `controlDict` and obeys it. Nobody has to ask for anything, and the
solver need not end by itself. In `FoamThread` the two threads and an accepted
kill go on; the solver need not print or end, nobody has to press Ctrl-C. In
`ServerRegistry` the threads of the meta server go on; a waiting collector gets
`startupLock` at last (strong fairness of `BeginScan`), because the checker
holds it only for a round and sleeps 30 seconds without it; nothing has to
happen in a run. In `ClusterJob` `doIt`, the timers, the poll of the run and a
solver that was told to stop go on; nobody has to send, kill or submit. In
`LogWatcher` the watcher goes on; the log need not grow.

## Findings

Each of these is a run that TLC finds violated.

* `write_not_read` (`WriteIsUndone`): the restore timer is started by the line
  about the re-reading of `controlDict`. If the solver ends before that line,
  `stopHandle` does not restore either, because neither `stopMe` nor
  `isRestarted` is set: `controlDict` keeps the write interval of the request
  and `.backup` stays.
* `reused_port` (`ReusedPortListed`): `_registerServer` compares the pid of the
  caller with what answers at its own port, and not with the entry in the
  list. A run at the port of a dead one is told that it is registered, but the
  entry stays that of the dead one, and the next check removes it.
* `watch_bytes` (`EndsAtEnd`): `LineReader.bytesRead` counts characters, the
  size of the log is in bytes. With a character that takes two bytes the
  watcher of a finished run never ends. (A watcher with `follow=False` on such
  a log was seen to hang.) For the same reason an earlier log with such a
  character is left only by the time in it.

The modules hold more that has no run of its own.

* `RunnerControl` outside `OneKind`: the timer sets `runner.controlDict` to
  `None` while a stop is pending, and `stopHandle` (`BasicRunner.py:538`) raises
  an `AttributeError`; two `replaceParameter` overlap and the second rename
  wipes `stopAt` out, so the accepted stop is lost and later ones are ignored
  (`BasicRunner.py:508`); the first of two timers forgets the handle of the
  second write. In a restarted run a write makes no backup of its own
  (`BasicRunner.py:527`), and its timer gives back and forgets the handle of the
  restart, so that `stopHandle` has none; `TriggerChangesKept` excludes this. With
  `Present` without `stopAt`, `replaceParameter` changes nothing, since it changes
  only a line that mentions the parameter. `counter += 1` and `-= 1`
  (`FileBasis.py:320` and `330`) are not atomic: if a restore timer and a request
  lose an update, the count is one too small, and a restore puts the original
  back while an end trigger holds the file. `TriggerChangesKept` excludes
  this by `lost`; without that TLC finds it.
* `FoamThread` without `quiet`: lines that main has not read two seconds after
  the end of the solver are printed as unused and are not in the log
  (`FoamThread.py:227`). From then on both threads are in `LineReader.read`,
  although `FoamThread.py:136` says that the output "can be accessed in a
  thread-safe manner": a line is logged twice, torn, or lost, `decode` of a line
  that the other thread has decoded ends `start` or `run` with an
  `AttributeError`, and each of the two may find the line of the other again and
  again (`InOrder` and the first part of `RunEnds` exclude this by `shared`). With
  `CtrlC = {"inState"}` the handler waits for `stateLock`, which its own thread holds (`FoamThread.py:279`).
* `TimeLines`, `dropped`: the first value after a time without values is
  replaced by the default or the last value, since the loop at
  `TimeLineCollection.py:400` uses the name `val` of the value to set.
  `aligned`: `firstUnsplit` (`TimeLineCollection.py:314`) rounds down to a
  multiple of four although the range begins anywhere; if a split does not
  begin at a multiple of four, points that were condensed are appended once
  more and the times go back. With the default threshold of 2048 this begins
  after some 7000 points. With thresholds up to 12 the last window may go beyond
  the last point, which raises an `IndexError`, and `transmissionLock` stays
  locked. If only one of collection and name is accumulated as a `count`, the
  first value of a time counts nothing or is lost
  (`TimeLineCollection.py:406` to `412`); `ValuesAreStored` excludes this.
* `ServerRegistry`: a server that dies or is slow between `connect`
  (`NetworkHelpers.py:70`) and `isFoamServer` (line 87) makes a scan lose all
  that it found; after a restart of the meta server the other runs stay unlisted
  until somebody asks for another scan (`unscanned`). A `gaierror` or a subnet
  that is no address (`FoamMetaServer.py:366` and `368`) ends the collector with
  `startupLock` held: no check and no scan runs again.
* `ClusterJob`: a job that is killed after its timer took the message starts
  again and knows of no stop, since `ordinaryEnd` (`ClusterJob.py:477`) is memory
  (`told` is `cut`). A stop file that was written before the kill ends the
  next run at once, and that job may be called finished (`leftover`).
* `RestartLoop`: a parallel run that begins in the second in which the directory
  of the case changed last is judged by a stale list of times and stopped,
  however long it ran (`SolutionDirectory.py:553`); `StopsRightly` excludes it by
  `begunAtOnce`.
* `ClusterJob`: the messages to a task of an array job are written to
  `basename` and not to `casedir()` (`ClusterJob.py:466` and `478`), so they
  reach nobody; `StopEnds` and `CheckpointWrites` exclude array jobs.
* `RestartLoop`: whether a serial run is a restart is decided from
  `processor0` if there is one (`BasicRunner.py:553`), so its log may be
  overwritten although `ReleaseNotes.md:823` says it gets a new one; `KeepsLogs`
  excludes this case. Every run removes the directory `.analyzed` of its log
  name (`AnalyzedCommon.py:45`).
* `LogWatcher`: a log is left after its first line if the time of the log
  before it is already past the start of the next one (`StepsFit` excludes it);
  logs with equal mesh times keep the order in which they were given, so the
  growing one need not be the last. The line with the first time past the start
  of the next log is handled before the log is left, so that this time comes
  twice. A last log that is empty when the watcher begins has no start, and the
  one before it is read to its end (`NoOverlap` excludes this). A log that is
  truncated is not noticed.

## Proofs

Each proof module has one inductive invariant `IInv` (`LogAnalysisProofs` has a
second one, `WatchInv`), whose parts are named and commented there, one lemma per
part that says that every step keeps it, and theorems that follow.

`BackupFileProofs`, from `ClientsAssumption` (finitely many clients) and
`NoFileAssumption` (a missing file is not a content): `TypeOK`,
`CounterIsClients`, `BackupIsPristine`, `RestoredWhenUnused` and the
implementation of `ControlledFile`. They are inductive only together: that
`restore` puts back the right content follows from the copy being pristine,
which follows from the count being the number of clients. The proof needs the
cardinality of a set with an element added or removed and nothing about which
client it is. After a death the copy need not be pristine; that there is one
while the count is positive (`CopyExists`) is enough for
`CrashLosesOnlyOverLeftover`, which goes through the actions and finds that
only `Open` can take the user's content off the disk.

`FoamThreadProofs`, for any number of lines, any pipe and Ctrl-C at any place:
`TypeOK`, `InOrder`, `EndsAtEndOfFile`, `KeyboardReported`, and that the
initial states and steps of `FoamThread` are those of `LineCopy`. `PlaceInv`
says that a thread is inside `LineReader.read` only while it reads, `StartInv`
that nobody passes the lock before the solver is there, `WasIntInv` that the
reader knows of every interrupt. `BlankInv` says that whoever finds an empty
line in the reader, though it may be the one that the other thread put there,
has the end of the file or an interrupt, and `EndInv` that `hasSomethingToSay` is
reset only then: so `EndsAtEndOfFile` holds with two readers at once. `KeyInv`
says where a Ctrl-C that is not yet reported is. `PipeInv` relates the pipe to
the lines read by whomever, and `AloneInv`, as long as main reads alone, the
reader's line, the thread's line and the log to the number of lines read.

`ServerRegistryProofs`, for any number of processes and ports: `TypeOK`,
`RegisteredIsListed`, `KeepsServers`. `PortInv` says that only one process
serves at a port, `Entries` and `Registering` that whoever is listed or being
registered had the port, `BadIsGone` that the checker removes only what is
gone for ever, `Asking` that a port of which the second question is asked is
still to be scanned, and `Listed` that a server that was told it is registered
is listed, or is being registered, or the meta server was started again and a
scan that is not cut short has yet to come to it.

`RestartLoopProofs`, for any bounds: `TypeOK`, `StopsRightly`,
`RestartsOnlyAfterProgress`, `KeepsLogs`. `Known` says, place by place, how the
cached last time relates to the times on disk.

`ClusterJobProofs`, for any number of starts and messages: `TypeOK`,
`StoppedIsSuspended`, `StopNotLost`, `RaisesOnlyWhenLate`, `RunsPrepared`.
`ToldInv` says that a message is known to the job before it is removed, `TakenInv`
that a stop taken from its file has reset `ordinaryEnd`, and that a job past its
run takes one only when late. `StoppedInv` follows the stop from the message to the solver and says that the
job knows it first; `LateInv` says that after the run the job is alone with its
files unless the timer was at work; `PreparedInv` that only the first start
goes through the setup.

`OutFilesProofs`, from `OpenAssumption` (a positive limit) and
`BoundsAssumption`: `TypeOK`, `ListIsOpen`, `HandlesBounded`, `OneRowPerTime`,
`NoGaps` and the implementation of `DataTables`, for any names and any limit. The inductive
invariant adds to these that the list is not longer than the limit, that a file
of the collection without a handle is marked for appending
(`NothingForgotten`), and that a file of the collection has its first line
(`NoneEmpty`). On top of it, `RowsInv` says that a row of the current time in
the k-th file of a name was counted, and `CallsInv` that every datum that was
counted has its row; that the counts are begun anew exactly with a new time
needs that no row is later than now. `HandlesBounded` follows because the open files are the range of
the list. Reopening loses nothing because of `NothingForgotten`. Three lemmas
about lists without repetitions (an entry added, the first one removed, any one
removed) carry the argument.

`RunnerControlProofs`, for any number of timers, writes, requests, end triggers
and lines: `TypeOK`, `RaisesOnlyWhenLate`, `TriggerChangesKept`,
`AnswerIsRight`, `RestoredAfterRun`. `PlacesInv` and `ListsInv` say where each
thread can be and which parameters it still has to replace there, `LoadInv`
that whoever is about to store a count has loaded one, `TimerInv` that main
starts a timer for a request that was made. `Due` counts the restores to come:
of the end triggers left, of the threads that hold a backup or give it back, of
a write whose timer was not yet started (`Pending`), and that of `stopHandle`.
`CountInv` says that the count is never below `Due`, so that nobody finds it at
zero while a trigger is still to be undone; from this follows `KeptInv`, and
from it `TriggerChangesKept`. For this a lost update must do no harm:
`MeantInv` says that what a request to stop has loaded is at least the number of
end triggers left, so that a store of it leaves enough for them. With timers
`lost` excludes it. `ExactInv` says that the count is `Due` if no two requests to
stop overlap, `StopsInv` what main relies on in `stopHandle`, and `WriteInv`
takes a single write through its stages: its writer, the request, the timer,
each step of its restore. The sums in `Due` change with one thread at a
time; `OneDebtor` and `SameDebtors` give the cardinalities.

`LogAnalysisProofs` holds the proofs about the two modules of the analysis of
logs, from `SetupsAssumption` and `LoggedAssumption`.

`TimeLines`, for any names, values, times, kinds of accumulation, orders of the
analyzers and even thresholds: `TypeOK`, `ValuesAreStored`, `TimesAscend`,
`PointsBounded`, `ExtremesKept`. The first part is about a single split: where
it begins and ends (`SplitPlaces`), what the windows cover (`WindowsCover`,
`WindowIs`), that it takes away enough points (`SplitFits`), keeps the order of
the times (`SplitAscends`) and an upper and a lower bound of every value
(`SplitCovers`). The inductive invariant has for each collection `Shape` (all
lines are as long as the times, the levels not longer), `ClockInv` (its time and
those of its points were times of the log), `Room` (the times ascend, there is
room up to the threshold, and `LevelsLow`: condensed points are among the first
three quarters of the threshold, so that the next split has a place to end),
`GivenInv` (a name that is not valid got no value at this time) and `StoredInv`
(`occured` is the number of the values of a name, and its last point is what they
amount to). A slave that is told the
time by its master and by its own analyzer is the case `ToldTwice`. Minima are
those of sets of numbers (`MinOf`, by the well-founded order of the numbers),
and a statement about all numbers of points follows by taking the least one for
which it fails (`AllOf`): no theorem of the library with an operator as a
parameter is used, and the sum of a list is characterized by its partial sums
(`SumIs`).

`LogWatcher`, for any number of logs with any lines, in any order of the files:
`Concatenated`, which is `WatchTypeOK`, `NothingMissing` and `NoOverlap`, and
that the initial states and steps of a calm watch of one log are those of
`LineCopy`. `OrderInv` says that the open log and those to come are in the order
of their runs, `StartsInv` that `changeTimes` and `switchTime` are the starts of
exactly these, `OpenInv` what the reader knows of the open log (lines, characters
and the size when it was opened), `HandledInv` that lines were handled in this
order, `PastInv` that the first line past the start of the next run is the last
one handled, and `WatchTimeInv` that the time of the analyzer is that of a line of
the open log or of a line that was needed of an older one. `NothingMissing` is inductive
only with these: a log is left at its end, where as many characters as bytes were
read (`Plain`), or because of a time, and that this time is not one of an
earlier log needs `WatchTimeInv` and `StepsFit`. `NoOverlap` follows: a line of a
later log is later than its mesh, and of the older one only the last handled
line is.

Only model-checked is what the proof system does not reach: liveness
(`StopEndsRun`, `RunEnds`, `InterruptEnds`, `DeadAreRemoved`, `ScanFinds`,
`StopEnds`, `CheckpointWrites`, `WatchEnds`, and the fairness in `LineCopySpec` and
`WatchCopies`). Every invariant and every action property of the passing runs is
a theorem.

## Plan

1. Proofs: the safety that the liveness properties rest on, that is, in which
   stages a stop, a checkpoint or a registration can be and that no step takes
   it back to an earlier one.
2. `LogTriggers`: triggers at a time, phases and `SteadyConverged`, the
   requester `main` of `RunnerControl`. Properties: a trigger is called once
   and at its time, whatever the listeners do.
3. `CTestRun`: phases with failures. Seen while reading it: `isBigger` and
   `isSmaller` pass `(value)` where a tuple is wanted (`CTestRun.py:1054`).

## Not modelled

The dictionary parser (`ParsedParameterFile`, `FoamFileGenerator`: a grammar,
its properties are about text), the run database (SQL), data comparison
(floating-point arithmetic), plotting and user interfaces (external programs),
setting up and copying cases (sequences of file operations), parallel execution
(a command line), the applications (front ends), third-party code. These are
most of the lines of the repository; little of them changes state that another
part can see. Of the modelled parts: zipped files, strings instead of files,
the directory's state files, warnings, memory and CPU time, progress output,
the queries and the SSL of the servers, the synchronization of the meta server
with a web server, the simple split of time lines (a float as a length under
Python 3, and no caller uses it), preloaded time lines, and
`OutFileCollection.setTitles`, whose loop over the items of a dictionary fails
as soon as there is a file.
