--------------------------- MODULE LogWatcher ---------------------------
(***************************************************************************)
(* Watching the logs of a run and its restarts while the last of them is   *)
(* still written (Execution/BasicWatcher.py with Basics/LineReader.py, the *)
(* loop of pyFoamPlotWatcher).                                             *)
(*                                                                         *)
(* The watcher sorts the logs by the time at which their mesh was created  *)
(* and hands the lines of one after the other to the analyzers.  It goes   *)
(* on to the next log when it has read as many bytes as the log had when   *)
(* it was opened, or as soon as the time in the log is past the time at    *)
(* which the next log begins.  Only the last log is followed.              *)
(*                                                                         *)
(* A line has a time if it tells the analyzers a new one.  Whoever writes  *)
(* the log flushes after every line, as BasicRunner does.                  *)
(***************************************************************************)
EXTENDS Integers, Sequences, SequencesExt, FiniteSetsExt

CONSTANTS
    Lines,      \* bound on the lines of a log
    Logged      \* the cases considered, see LoggedAssumption

None == -1      \* no time

LineType == [time : Nat \cup {None},
             bytes : Nat \ {0},     \* in the file
             chars : Nat \ {0}]     \* that len returns for the decoded line

ASSUME LoggedAssumption ==
    /\ Lines \in Nat
    /\ \A u \in Logged :
        /\ u.logs \in Seq([mesh : Nat \cup {None}, lines : Seq(LineType)])
        /\ u.logs # <<>> /\ \A f \in DOMAIN u.logs : Len(u.logs[f].lines) <= Lines
        /\ u.growing \in DOMAIN u.logs          \* the log that is written
        /\ u.written \in 0..Len(u.logs[u.growing].lines)    \* of it at first
        /\ \A f \in DOMAIN u.logs : \A n \in DOMAIN u.logs[f].lines :
              LET t == u.logs[f].lines[n].time      \* a run goes on from there
              IN  t # None => t > u.logs[f].mesh
        /\ u.follow \in BOOLEAN /\ u.ctrlC \in BOOLEAN
        /\ u.tail \in Nat
        /\ \A f \in DOMAIN u.logs \ {u.growing} :   \* the others are finished
              /\ u.logs[f].lines # <<>>             \* and older
              /\ u.logs[f].mesh # None
              /\ \/ u.logs[f].mesh < u.logs[u.growing].mesh
                 \/ u.logs[f].mesh = u.logs[u.growing].mesh /\ f < u.growing

VARIABLES
    watched,        \* never changes
    disk,           \* number of lines in the log that grows
    pc,             \* where the watcher is
    filename,       \* the log that is open
    nextFiles,
    changeTimes,
    switchTime,
    currSize,
    isTailing,
    pos,            \* lines read from the open log
    bytes,          \* LineReader.bytes
    goOn,           \* LineReader.goOn
    wasInterupted,  \* LineReader.wasInterupted
    clock,          \* of the analyzer
    pressed,        \* Ctrl-C was pressed (at most once)
    handled         \* history: the lines handed to the analyzers, <<log, number>>

fileVars == <<filename, nextFiles, changeTimes, switchTime, currSize>>
readerVars == <<pos, bytes, goOn, wasInterupted>>
analyzerVars == <<isTailing, clock, handled>>
watchVars == <<watched, disk, pc, fileVars, readerVars, analyzerVars, pressed>>

Logs == DOMAIN watched.logs
LinesOf(f) == watched.logs[f].lines
OnDisk(f) == IF f = watched.growing THEN disk ELSE Len(LinesOf(f))

(* Number of bytes of the log. *)
GetSize(f) == FoldLeft(+, 0, [n \in 1..OnDisk(f) |-> LinesOf(f)[n].bytes])

(* What the constructor finds in the first lines.  The line is the first   *)
(* one of the log.                                                         *)
MeshTime(f) == IF OnDisk(f) = 0 THEN None ELSE watched.logs[f].mesh

(* meshTimes.sort: stable, and a log without a time comes last. *)
Later(t, u) == u # None /\ (t = None \/ t > u)
Before(f, g) == \/ Later(MeshTime(g), MeshTime(f))
                \/ ~Later(MeshTime(f), MeshTime(g)) /\ f < g
SortedByMesh(logs) == \A i, j \in Logs : i < j => Before(logs[i], logs[j])

WatchInit ==
    /\ watched \in Logged
    /\ disk = watched.written
    /\ pc = "construct"
    /\ filename = 0 /\ nextFiles = <<>> /\ changeTimes = <<>>
    /\ switchTime = None /\ currSize = 0 /\ isTailing = FALSE
    /\ pos = 0 /\ bytes = 0 /\ goOn = TRUE /\ wasInterupted = FALSE
    /\ clock = None /\ pressed = FALSE /\ handled = <<>>
-------------------------------------------------------------------------
(* The run that writes the last log, external *)

Write ==
    /\ disk < Len(LinesOf(watched.growing))
    /\ disk' = disk + 1
    /\ UNCHANGED <<watched, pc, fileVars, readerVars, analyzerVars, pressed>>
-------------------------------------------------------------------------
(* BasicWatcher.__init__ *)
Construct ==
    /\ pc = "construct"
    /\ \E logs \in Bijection(Logs, Logs) :
         /\ SortedByMesh(logs)
         /\ filename' = logs[1]
         /\ nextFiles' = Tail(logs)
         /\ changeTimes' = [i \in 1..(Len(logs) - 1) |-> MeshTime(logs[i + 1])]
    /\ pc' = "begin"
    /\ UNCHANGED <<watched, disk, switchTime, currSize, readerVars, analyzerVars,
                   pressed>>

(* Mutant: the time of the next change stays in the list *)
ChangeFileKeepsTimes(f) ==
    /\ filename' = f
    /\ currSize' = GetSize(f)
    /\ switchTime' = IF changeTimes = <<>> THEN None ELSE Head(changeTimes)
    /\ pos' = 0
    /\ UNCHANGED changeTimes

(* changeFile and the time of the change to the file after it *)
ChangeFile(f) ==
    /\ filename' = f
    /\ currSize' = GetSize(f)
    /\ switchTime' = IF changeTimes = <<>> THEN None ELSE Head(changeTimes)
    /\ changeTimes' = IF changeTimes = <<>> THEN <<>> ELSE Tail(changeTimes)
    /\ pos' = 0

(* start, up to the loop *)
Begin ==
    /\ pc = "begin"
    /\ ChangeFile(filename)
    /\ pc' = "loop"
    /\ UNCHANGED <<watched, disk, nextFiles, bytes, goOn, wasInterupted,
                   analyzerVars, pressed>>

(* FoamLogAnalyzer.isPastTime *)
IsPastTime(check) == check # None /\ clock # None /\ clock > check

Condition == watched.follow \/ currSize > bytes \/ nextFiles # <<>>
FileIsDone == ~(currSize > bytes) \/ IsPastTime(switchTime)

(* Mutant: a log that is followed is left at its end *)
LeaveLoopAtEnd ==
    /\ pc = "loop" /\ FileIsDone /\ nextFiles = <<>>
    /\ pc' = "stop"
    /\ UNCHANGED <<watched, disk, fileVars, readerVars, analyzerVars, pressed>>

LeaveLoop ==
    /\ pc = "loop"
    /\ Condition => FileIsDone /\ nextFiles = <<>> /\ ~watched.follow
    /\ pc' = "stop"
    /\ UNCHANGED <<watched, disk, fileVars, readerVars, analyzerVars, pressed>>

Switch ==
    /\ pc = "loop" /\ Condition /\ FileIsDone /\ nextFiles # <<>>
    /\ ChangeFile(Head(nextFiles))
    /\ nextFiles' = Tail(nextFiles)
    /\ bytes' = 0
    /\ pc' = IF currSize' = 0 THEN "loop" ELSE "read"
    /\ UNCHANGED <<watched, disk, goOn, wasInterupted, analyzerVars, pressed>>

Stay ==
    /\ pc = "loop" /\ Condition
    /\ FileIsDone => nextFiles = <<>> /\ watched.follow
    /\ pc' = "read"
    /\ UNCHANGED <<watched, disk, fileVars, readerVars, analyzerVars, pressed>>

(* Mutant: the interrupt that the reader caught is not asked for *)
ReadNoStop ==
    /\ pc = "read"
    /\ IF goOn /\ pos < OnDisk(filename)
         THEN /\ pos' = pos + 1
              /\ bytes' = bytes + LinesOf(filename)[pos'].chars
              /\ pc' = "line"
         ELSE pc' = "loop" /\ UNCHANGED <<pos, bytes>>
    /\ UNCHANGED <<watched, disk, fileVars, goOn, wasInterupted, analyzerVars,
                   pressed>>

(* LineReader.read; at the end of the log the watcher sleeps *)
Read ==
    /\ pc = "read"
    /\ IF goOn /\ pos < OnDisk(filename)
         THEN /\ pos' = pos + 1
              /\ bytes' = bytes + LinesOf(filename)[pos'].chars
              /\ pc' = "line"
         ELSE /\ pc' = IF wasInterupted THEN "stop" ELSE "loop"
              /\ UNCHANGED <<pos, bytes>>
    /\ UNCHANGED <<watched, disk, fileVars, goOn, wasInterupted, analyzerVars,
                   pressed>>

(* What is done with the line *)
Handle ==
    /\ pc = "line"
    /\ isTailing' = (isTailing \/ currSize - bytes <= watched.tail)
    /\ handled' = Append(handled, <<filename, pos>>)
    /\ LET t == LinesOf(filename)[pos].time
       IN  clock' = IF t = None THEN clock ELSE t
    /\ pc' = "loop"
    /\ UNCHANGED <<watched, disk, fileVars, readerVars, pressed>>

(* stopHandle, and the file is closed *)
Stop ==
    /\ pc = "stop"
    /\ pc' = "done"
    /\ UNCHANGED <<watched, disk, fileVars, readerVars, analyzerVars, pressed>>
-------------------------------------------------------------------------
(* Ctrl-C *)

(* Caught by the reader, which will never read again *)
CtrlCInRead ==
    /\ pc = "read" /\ watched.ctrlC /\ ~pressed
    /\ pressed' = TRUE
    /\ goOn' = FALSE /\ wasInterupted' = TRUE
    /\ UNCHANGED <<watched, disk, pc, fileVars, pos, bytes, analyzerVars>>

(* Caught by the handler in the loop: the line is lost *)
CtrlCInHandle ==
    /\ pc = "line" /\ watched.ctrlC /\ ~pressed
    /\ pressed' = TRUE
    /\ pc' = "stop"
    /\ UNCHANGED <<watched, disk, fileVars, readerVars, analyzerVars>>

(* In the condition or the change of the file, outside of the try: start() *)
(* is left by the exception, without stopHandle.                           *)
CtrlCInCondition ==
    /\ pc = "loop" /\ watched.ctrlC /\ ~pressed
    /\ pressed' = TRUE
    /\ pc' = "raised"
    /\ UNCHANGED <<watched, disk, fileVars, readerVars, analyzerVars>>
-------------------------------------------------------------------------
Watcher == \/ Construct \/ Begin \/ LeaveLoop \/ Switch \/ Stay
           \/ Read \/ Handle \/ Stop

WatchNext == Write \/ Watcher \/ CtrlCInRead \/ CtrlCInHandle \/ CtrlCInCondition

WatchSpec == WatchInit /\ [][WatchNext]_watchVars
(* The watcher runs; the log need not grow and nobody need press Ctrl-C. *)
FairWatchSpec == WatchSpec /\ WF_watchVars(Watcher)
-------------------------------------------------------------------------
WatchTypeOK ==
    /\ watched \in Logged
    /\ disk \in 0..Lines
    /\ pc \in {"construct", "begin", "loop", "read", "line", "stop", "done", "raised"}
    /\ filename \in Logs \cup {0} /\ nextFiles \in Seq(Logs)
    /\ changeTimes \in Seq(Nat \cup {None}) /\ switchTime \in Nat \cup {None}
    /\ currSize \in Nat /\ bytes \in Nat /\ pos \in 0..Lines
    /\ isTailing \in BOOLEAN /\ goOn \in BOOLEAN /\ wasInterupted \in BOOLEAN
    /\ clock \in Nat \cup {None} /\ pressed \in BOOLEAN
    /\ handled \in Seq(Logs \X (1..Lines))

(* The runs in their order, whatever the order of the files is. *)
Older(f, g) ==
    \/ watched.logs[f].mesh < watched.logs[g].mesh
    \/ watched.logs[f].mesh = watched.logs[g].mesh /\ f < g

(* When the run after f began; the last line of f that is needed. *)
NextStart(f) == Min({watched.logs[g].mesh : g \in {g \in Logs : Older(f, g)}})
LastNeeded(f) ==
    LET past == {n \in DOMAIN LinesOf(f) : LinesOf(f)[n].time > NextStart(f)}
    IN  IF past = {} THEN Len(LinesOf(f)) ELSE Min(past)

Plain == \A f \in Logs : \A n \in DOMAIN LinesOf(f) :
             LinesOf(f)[n].bytes = LinesOf(f)[n].chars

(* No run steps past the start of two later ones at once. *)
StepsFit ==
    \A f, g \in Logs \ {watched.growing} :
        Older(f, g) => \A n \in 1..LastNeeded(f) :
                           LinesOf(f)[n].time <= NextStart(g)

Left(f) == filename \notin {0, f} /\ \A i \in DOMAIN nextFiles : nextFiles[i] # f

(* pyFoamPlotWatcher "tries to concatenate the data" (ReleaseNotes.md:788):  *)
(* of a finished run the analyzers get everything up to the start of the   *)
(* next one ...                                                            *)
NothingMissing ==
    Plain /\ StepsFit =>
        \A f \in Logs \ {watched.growing} : Left(f) =>
            \A n \in 1..LastNeeded(f) :
                \E i \in DOMAIN handled : handled[i] = <<f, n>>

(* ... every log from its first line on, no line left out in between or    *)
(* handled twice, and the logs in the order of the runs ...                *)
LinesInOrder ==
    \A i \in DOMAIN handled :
        LET f == handled[i][1]
            n == handled[i][2]
        IN  IF n > 1 THEN i > 1 /\ handled[i - 1] = <<f, n - 1>>
            ELSE i > 1 => Older(handled[i - 1][1], f)

(* ... and of the times of two runs at most one from both: the line with   *)
(* the first time past the start of the next run is handled before the log *)
(* is left, and its time is handled again from the next log.  If the last  *)
(* log was empty when the watcher was started, its start is not known and  *)
(* the log before it is read to its end: nothing is said then.             *)
TimesHandled(f) ==
    {LinesOf(f)[handled[i][2]].time :
        i \in {i \in DOMAIN handled : handled[i][1] = f}} \ {None}
NoOverlap ==
    watched.written > 0 =>
        \A f, g \in Logs :
            f # g => \A t, u \in TimesHandled(f) \cap TimesHandled(g) : t = u

(* The invariant of the watcher: what it keeps about the logs is of its    *)
(* type, and what the analyzers got are the lines of the runs in the order *)
(* of the runs, whatever the order of the files is, in each log without a  *)
(* gap and as far as needed, with at most one time from two of them.       *)
Concatenated == WatchTypeOK /\ NothingMissing /\ LinesInOrder /\ NoOverlap

(* Without --solver-not-running-anymore the watcher ends by Ctrl-C only,   *)
(* but then from every place; with it at the end of the logs, provided     *)
(* that every character takes one byte.                                    *)
Ended == pc \in {"done", "raised"}
WatchEnds == (watched.follow \/ ~Plain => pressed) ~> Ended

(* "Watcher ends as soon as he encounters the end of the file"             *)
(* (PlotWatcher.py:68, of --solver-not-running-anymore).                   *)
EndsAtEnd == ~watched.follow ~> Ended

(* Nobody interrupts the watching of the one log of a run from its start:  *)
(* its lines are copied to the analyzers, also if they have characters     *)
(* that take more than a byte.                                             *)
Calm ==
    /\ watched.follow /\ ~watched.ctrlC
    /\ Len(watched.logs) = 1 /\ watched.written = 0
Copies == INSTANCE LineCopy WITH
              produced <- IF Calm THEN disk ELSE 0,
              copied <- IF Calm THEN [i \in DOMAIN handled |-> handled[i][2]]
                        ELSE <<>>
WatchCopies == Copies!Spec
=========================================================================
