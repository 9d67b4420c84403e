----------------------- MODULE RunnerControlProofs -----------------------
(***************************************************************************)
(* Proofs about RunnerControl for any number of timers, writes, polls and  *)
(* triggers, from its four assumptions.  The places of the threads and the *)
(* parameters they still have to replace are settled first; then come what *)
(* makes a run late, what the stop requests leave in the file, the count   *)
(* of the backup against the restores to come (with what the threads have  *)
(* loaded of it), and the single write.                                    *)
(***************************************************************************)
EXTENDS RunnerControl, FiniteSetTheorems, TLAPS

(* What is left to replace: by a request to stop and by one to write.      *)
StopTodo == <<"stopAt">>
WriteTodo == <<"writeControl", "writeInterval">>
LastTodo == <<"writeInterval">>

(* The places inside makeBackup, inside the replacement of a parameter, of *)
(* a request as a whole, and of a restore.                                 *)
Opening == {"count", "first", "add", "copy", "assign"}
Replacing == {"read", "rename"}
Asking == {"stopSet", "requested"} \cup Opening \cup Replacing
Restoring == {"decrement", "subtract", "test", "putBack", "remove", "delete"}

(* The parameters a thread has yet to replace go with the place it is at,  *)
(* and main is at a place of the phase.                                    *)
HasList(t) ==
    /\ pc[t] = "stopSet" => todo[t] = StopTodo
    /\ pc[t] \in Opening => todo[t] \in {StopTodo, WriteTodo} /\ ~isRestarted
    /\ pc[t] \in Replacing => todo[t] \in {StopTodo, WriteTodo, LastTodo}
    /\ pc[t] \notin {"stopSet"} \cup Opening \cup Replacing => todo[t] = <<>>
ListsInv == \A t \in Threads : HasList(t)

(* The places each thread may be at.                                       *)
TimerPlaces == {"unset", "waiting", "setNone", "dead"} \cup Restoring
ServantPlaces == {"idle", "dead"} \cup Asking
MainPlaces == ServantPlaces \cup Restoring \cup {"startTimer", "resetRequest"}
InPlace(t) ==
    /\ t \in Timers => pc[t] \in TimerPlaces
    /\ t \in {"poller", "server"} => pc[t] \in ServantPlaces
    /\ t = "main" => /\ pc[t] \in MainPlaces
                     /\ pc[t] = "dead" <=> phase = "raised"
                     /\ pc[t] \in Asking => phase = "loop"
                     /\ pc[t] \in Restoring => phase = "triggers"
                     /\ pc[t] \in {"startTimer", "resetRequest"} => phase = "loop"
PlacesInv == \A t \in Threads : InPlace(t)

(* Who is about to store a count has loaded one.                           *)
LoadInv == \A t \in Threads : pc[t] \in {"add", "subtract"} => loaded[t] \in Int
ShapeInv == ListsInv /\ PlacesInv /\ LoadInv

(* Main starts a timer for a request that was made, and resets it then.    *)
TimerInv == pc["main"] \in {"startTimer", "resetRequest"} => writeRequested

(* Once main has left its loop, no request is under way unless the history *)
(* says so, and the end comes after the last end trigger.                  *)
LateInv ==
    /\ phase \notin {"loop", "raised"} /\ ~late => \A t \in Requesters : ~Busy(t)
    /\ phase = "done" => triggersLeft = 0

(* Where no on-demand write may happen, there is no trace of one.          *)
WritesInv ==
    scenario.writes = 0 =>
        /\ ~writeRequested /\ pc["main"] \notin {"startTimer", "resetRequest"}
        /\ \A t \in Timers : pc[t] = "unset"
        /\ \A t \in Requesters : todo[t] \in {<<>>, StopTodo} /\ pc[t] # "requested"

Bit(b) == IF b THEN 1 ELSE 0

(* The restores that are still to come: those of the end triggers, those   *)
(* that a thread is bound to do or to hand on, that of a write the solver  *)
(* has not seen, and that of stopHandle for the requests to stop.          *)
Owes(t) ==
    \/ pc[t] \in {"decrement", "subtract", "requested"}
    \/ pc[t] = "waiting" /\ timerArg[t]
    \/ pc[t] \in {"assign", "read", "rename"} /\ todo[t] # StopTodo
Debts == Cardinality({t \in Threads : Owes(t)})
Early(t) == todo[t] = StopTodo /\ pc[t] \in {"stopSet", "count", "first", "add"}
Pending == writeRequested /\ pc["main"] # "resetRequest"
StopOwed ==
    /\ phase \in {"loop", "stopHandle"}
    /\ isRestarted \/ (stopMe /\ \A t \in Requesters : ~Early(t))
Due == triggersLeft + Debts + Bit(Pending) + Bit(StopOwed)

(* Nobody gives back what somebody else still needs: the count is not      *)
(* smaller than the number of restores to come.                            *)
Counted == /\ isRestarted => scenario.writes = 0
           /\ scenario.writes = 0 \/ (triggersLeft > 0 /\ ~lost)
           /\ ~late

(* Without a restart that writes, the count is never below what is due.    *)
CountInv ==
    Counted => /\ counter \in Int => counter >= Due
               /\ Due > 0 => counter \in Int

(* What a thread has loaded is good enough for requests to stop, and what  *)
(* main or a single request has loaded is the count.                       *)
MeantInv ==
    scenario.writes = 0 /\ ~late =>
        \A t \in Requesters :
            /\ pc[t] = "add" => loaded[t] >= triggersLeft /\ counter \in Int
            /\ pc[t] = "add" /\ ~overlap => loaded[t] = counter
            /\ pc[t] = "subtract" => loaded[t] = counter

(* A trigger that was not yet undone keeps its changes in the file.        *)
KeptInv ==
    Counted /\ triggersLeft > 0 =>
        /\ "trigger" \in file /\ backup = {}
        /\ \A t \in Threads : /\ pc[t] \notin {"first", "copy", "putBack", "remove", "delete"}
                              /\ pc[t] = "rename" => "trigger" \in tmp[t]

(* With requests to stop only, runner.controlDict is there from the first  *)
(* request on, and main finds what it needs.                               *)
Clean(content) == content \subseteq {"trigger"}

(* What a stop that has its handle has put into the file, and with it      *)
(* what the solver has read.                                               *)
OpenInv ==
    /\ \A t \in Requesters : pc[t] \in Replacing => controlDict
    /\ isRestarted => controlDict
    /\ stopMe /\ ~controlDict =>
          \E t \in Requesters : todo[t] = StopTodo /\ pc[t] # "stopSet"
    /\ ~controlDict => Clean(file) /\ (backup = NoFile \/ Clean(backup))
Ending == {"test", "putBack", "remove", "delete"}
FoundInv ==
    ~late => /\ phase # "raised"
             /\ pc["main"] \in Ending => counter \in Int
             /\ pc["main"] = "delete" => backup = NoFile
             /\ counter \in Int => \/ backup # NoFile
                                   \/ pc["main"] = "delete"
                                   \/ \E t \in Requesters : pc[t] = "copy"
StopsInv == scenario.writes = 0 => OpenInv /\ FoundInv

(* ... and if they do not overlap, the count is the number of restores to  *)
(* come, and what is not counted is the user's.                            *)
InOrder == scenario.writes = 0 /\ ~late /\ ~overlap

(* At most one request has stopAt to replace, and stopMe tells where it is.*)
StopperInv ==
    /\ ~isRestarted => \A t, u \in Requesters :
                          todo[t] = StopTodo /\ todo[u] = StopTodo => t = u
    /\ \A t \in Requesters : todo[t] = StopTodo =>
          /\ pc[t] # "stopSet" => stopMe
          /\ pc[t] = "stopSet" /\ ~isRestarted => ~stopMe
UsersInv ==
    /\ \A t \in Requesters :
          /\ pc[t] \in {"first", "copy"} => file = {} /\ backup = NoFile
          /\ pc[t] = "first" => counter = NoEntry
          /\ pc[t] = "copy" => counter # NoEntry
    /\ counter = NoEntry => file = {} /\ backup = NoFile
    /\ counter \in Int => \/ backup = {} \/ pc["main"] = "delete"
                          \/ \E t \in Requesters : pc[t] = "copy"
    /\ pc["main"] \in {"remove", "delete"} => file = {}
TallyInv ==
    counter \in Int => /\ counter = Due
                       /\ Due > 0 \/ pc["main"] \in Ending
ExactInv == InOrder => StopperInv /\ UsersInv /\ TallyInv

(* A single write: at most one of its writer, the request that the solver  *)
(* has not seen and its timer is there, and each finds the files as its    *)
(* predecessor left them.                                                  *)
OneWrite == OneKind /\ scenario.writes = 1

(* The files before the write and while it is in effect.                   *)
Fresh == Unmodified /\ ~controlDict
Held == counter = 1 /\ backup = {} /\ controlDict
Passive == {"idle", "unset", "startTimer", "resetRequest"}
Active(t) == pc[t] \notin Passive

(* The stage of a thread that works for the write.                         *)
StageInv(t) ==
    /\ pc[t] \notin {"stopSet", "add"} /\ todo[t] # StopTodo
    /\ pc[t] \in {"count", "first"} => Fresh
    /\ pc[t] = "copy" => file = {} /\ backup = NoFile /\ counter = 1
    /\ pc[t] = "assign" => backup = {} /\ counter = 1
    /\ pc[t] \in {"read", "rename", "requested", "waiting", "decrement"} => Held
    /\ pc[t] = "subtract" => Held /\ loaded[t] = 1
    /\ pc[t] = "waiting" => timerArg[t]
    /\ pc[t] \in Ending => counter = 0 /\ controlDict
    /\ pc[t] \in {"test", "putBack", "remove"} => backup = {}
    /\ pc[t] \in {"remove", "delete"} => file = {}
    /\ pc[t] = "delete" => backup = NoFile
    /\ pc[t] = "setNone" => Unmodified
    /\ pc[t] = "dead" => t \in Timers /\ Fresh
WriteInv ==
    OneWrite =>
        /\ ~stopMe /\ triggersLeft = 0 /\ pc["main"] \notin Restoring
        /\ \A t \in Threads : StageInv(t)
        /\ \A t, u \in Threads : Active(t) /\ Active(u) => t = u
        /\ Pending => Held /\ \A t \in Threads : ~Active(t)
        /\ ~Pending /\ (\A t \in Threads : ~Active(t)) => Fresh
        /\ pc["main"] = "resetRequest" => \A t \in Requesters : ~Active(t)

(* The inductive invariant.                                                *)
IInv == /\ TypeOK /\ ListsInv /\ PlacesInv /\ LoadInv /\ TimerInv
        /\ LateInv /\ WritesInv /\ CountInv /\ MeantInv /\ KeptInv /\ StopsInv /\ ExactInv /\ WriteInv

(* The three lists of parameters.                                          *)
LEMMA Todos ==
    /\ StopTodo \in Seq(Params) /\ WriteTodo \in Seq(Params)
    /\ LastTodo \in Seq(Params) /\ <<>> \in Seq(Params)
    /\ StopTodo # <<>> /\ WriteTodo # <<>> /\ LastTodo # <<>>
    /\ StopTodo # WriteTodo /\ StopTodo # LastTodo /\ WriteTodo # LastTodo
    /\ Len(StopTodo) = 1 /\ Len(WriteTodo) = 2 /\ Len(LastTodo) = 1
    /\ Tail(StopTodo) = <<>> /\ Tail(WriteTodo) = LastTodo /\ Tail(LastTodo) = <<>>
    /\ Head(StopTodo) \in Params /\ Head(WriteTodo) \in Params
    /\ Head(LastTodo) \in Params
    /\ Head(StopTodo) # "trigger" /\ Head(WriteTodo) # "trigger" /\ Head(LastTodo) # "trigger"
<1>1. /\ StopTodo \in Seq(Params) /\ WriteTodo \in Seq(Params)
    /\ LastTodo \in Seq(Params) /\ <<>> \in Seq(Params)
  BY DEF StopTodo, WriteTodo, LastTodo, Params
<1>2. /\ Len(StopTodo) = 1 /\ Len(WriteTodo) = 2 /\ Len(LastTodo) = 1 /\ Len(<<>>) = 0
  BY DEF StopTodo, WriteTodo, LastTodo
<1>3. StopTodo[1] = "stopAt" /\ WriteTodo[1] = "writeControl" /\ LastTodo[1] = "writeInterval" /\ WriteTodo[2] = "writeInterval"
  BY DEF StopTodo, WriteTodo, LastTodo
<1>4. StopTodo # <<>> /\ WriteTodo # <<>> /\ LastTodo # <<>>
  BY <1>2
<1>5.  StopTodo # WriteTodo /\ StopTodo # LastTodo /\ WriteTodo # LastTodo
  BY <1>3
<1>6. Tail(StopTodo) = <<>> /\ Tail(WriteTodo) = LastTodo /\ Tail(LastTodo) = <<>>
  BY DEF StopTodo, WriteTodo, LastTodo
<1>7.    Head(StopTodo) = "stopAt" /\ Head(WriteTodo) = "writeControl"
    /\ Head(LastTodo) = "writeInterval"
  BY DEF StopTodo, WriteTodo, LastTodo
<1> QED
  BY <1>1, <1>2, <1>4, <1>5, <1>6, <1>7 DEF Params


(* What it means to go on at a place, ...                                  *)
LEMMA Going ==
    ASSUME TypeOK, NEW t \in Threads, NEW label \in Labels, Goto(t, label)
    PROVE  /\ pc' \in [Threads -> Labels] /\ pc'[t] = label
           /\ \A u \in Threads : u # t => pc'[u] = pc[u]
  BY DEF Goto, TypeOK

(* ... to begin a request, ...                                             *)
LEMMA Beginning ==
    ASSUME TypeOK, NEW t \in Threads, NEW label \in Labels,
           NEW parameters \in Seq(Params), Begin(t, label, parameters)
    PROVE  /\ pc' \in [Threads -> Labels] /\ pc'[t] = label
           /\ todo' \in [Threads -> Seq(Params)] /\ todo'[t] = parameters
           /\ \A u \in Threads : u # t => pc'[u] = pc[u] /\ todo'[u] = todo[u]
           /\ late' \in BOOLEAN /\ (~late' => ~late /\ phase = "loop")
<1>1. late' \in BOOLEAN /\ (~late' => ~late /\ phase = "loop")
  BY Zenon DEF Begin, TypeOK
<1> QED
  BY <1>1 DEF Begin, Goto, TypeOK

(* ... and to raise an exception.                                          *)
LEMMA Raising ==
    ASSUME TypeOK, NEW t \in Threads, Raise(t)
    PROVE  /\ pc' \in [Threads -> Labels]
           /\ pc'[t] = IF t = "server" THEN "idle" ELSE "dead"
           /\ todo' \in [Threads -> Seq(Params)] /\ todo'[t] = <<>>
           /\ \A u \in Threads : u # t => pc'[u] = pc[u] /\ todo'[u] = todo[u]
           /\ phase' = IF t = "main" THEN "raised" ELSE phase
           /\ polling' \in BOOLEAN
<1>1. polling' \in BOOLEAN
  BY Zenon DEF Raise, TypeOK
<1> QED
  BY <1>1, Todos DEF Raise, Goto, TypeOK, Labels

(* The same, of one thread at a time.                                      *)
LEMMA Goes ==
    ASSUME TypeOK, NEW t \in Threads, NEW label, Goto(t, label)
    PROVE  pc'[t] = label /\ \A u \in Threads : u # t => pc'[u] = pc[u]
  BY DEF Goto, TypeOK

(* The same, seen from the thread that begins a list.                      *)
LEMMA Begins ==
    ASSUME TypeOK, NEW t \in Threads, NEW label, NEW parameters,
           Begin(t, label, parameters)
    PROVE  /\ pc'[t] = label /\ todo'[t] = parameters
           /\ \A u \in Threads : u # t => pc'[u] = pc[u] /\ todo'[u] = todo[u]
           /\ ~late' => ~late /\ phase = "loop"
<1>1. ~late' => ~late /\ phase = "loop"
  BY Zenon DEF Begin, TypeOK
<1> QED
  BY <1>1 DEF Begin, Goto, TypeOK

(* The same, seen from main when it is left by an exception.               *)
LEMMA Raised ==
    ASSUME TypeOK, NEW t \in Threads, Raise(t)
    PROVE  /\ pc'[t] = (IF t = "server" THEN "idle" ELSE "dead") /\ todo'[t] = <<>>
           /\ \A u \in Threads : u # t => pc'[u] = pc[u] /\ todo'[u] = todo[u]
           /\ phase' = IF t = "main" THEN "raised" ELSE phase
  BY DEF Raise, Goto, TypeOK

(* A step of one thread leaves the others where they are.                  *)
LEMMA Alone ==
    ASSUME TypeOK, NEW t \in Threads, Step(t)
    PROVE  /\ \A u \in Threads : u # t => /\ pc'[u] = pc[u] /\ todo'[u] = todo[u]
                                          /\ tmp'[u] = tmp[u]
           /\ t # "main" => phase' = phase
<1> USE Goes, Raised DEF NoRaise
<1>1. CASE StopSet(t)
  BY <1>1 DEF StopSet
<1>2. CASE Count(t)
  BY <1>2 DEF Count
<1>3. CASE First(t)
  BY <1>3 DEF First
<1>4. CASE Copy(t)
  BY <1>4 DEF Copy
<1>5. CASE Assign(t)
  BY <1>5 DEF Assign
<1>6. CASE Read(t)
  BY <1>6 DEF Read, TypeOK
<1>7. CASE Rename(t)
  BY <1>7 DEF Rename, TypeOK
<1>8. CASE Requested(t)
  BY <1>8 DEF Requested
<1>9. CASE Decrement(t)
  BY <1>9 DEF Decrement
<1>10. CASE Test(t)
  BY <1>10 DEF Test
<1>11. CASE PutBack(t)
  BY <1>11 DEF PutBack
<1>12. CASE Fire(t)
  BY <1>12 DEF Fire
<1>13. CASE SetNone(t)
  BY <1>13 DEF SetNone
<1>14. CASE Add(t)
  BY <1>14 DEF Add, Store
<1>15. CASE Subtract(t)
  BY <1>15 DEF Subtract, Store
<1>16. CASE Remove(t)
  BY <1>16 DEF Remove, Store
<1>17. CASE Delete(t)
  BY <1>17 DEF Delete, Store
<1> QED
  BY <1>1, <1>2, <1>3, <1>4, <1>5, <1>6, <1>7, <1>8, <1>9, <1>10, <1>11,
     <1>12, <1>13, <1>14, <1>15, <1>16, <1>17 DEF Step

(* The names of the threads.                                               *)
LEMMA Kinds ==
    \A t \in Threads : /\ t \in Timers => t \notin {"poller", "server", "main"}
                       /\ t \in Requesters \cup Timers
                       /\ t \in Requesters <=> t \in {"poller", "server", "main"}
  BY TimersAssumption DEF Threads, Requesters

(* Where one thread alone moves, only its place has to be looked at.       *)
LEMMA OnePlace ==
    ASSUME PlacesInv, NEW t \in Threads,
           \A u \in Threads : u # t => pc'[u] = pc[u],
           t # "main" => phase' = phase, InPlace(t)'
    PROVE  PlacesInv'
  BY DEF PlacesInv, InPlace

(* A step of one thread disturbs the list of no other.                     *)
LEMMA OneList ==
    ASSUME ListsInv, NEW t \in Threads, scenario' = scenario,
           \A u \in Threads : u # t => pc'[u] = pc[u] /\ todo'[u] = todo[u],
           HasList(t)'
    PROVE  ListsInv'
  BY DEF ListsInv, HasList, isRestarted
(* The three parts of the type invariant.                                  *)
FilesTyped ==
    /\ file \subseteq Params
    /\ backup = NoFile \/ backup \subseteq Params
    /\ counter \in Int \cup {NoEntry}
    /\ tmp \in [Threads -> SUBSET Params]
    /\ seen \subseteq Params /\ touched \in BOOLEAN
ThreadsTyped ==
    /\ pc \in [Threads -> Labels]
    /\ todo \in [Threads -> Seq(Params)]
    /\ phase \in {"loop", "stopHandle", "triggers", "done", "raised"}
    /\ polling \in BOOLEAN
RunTyped ==
    /\ controlDict \in BOOLEAN /\ stopMe \in BOOLEAN
    /\ writeRequested \in BOOLEAN
    /\ timerArg \in [Timers -> BOOLEAN]
    /\ triggersLeft \in 0..Triggers
    /\ timerStopped \in BOOLEAN
    /\ solver \in {"running", "ended"}
    /\ lines \in 0..MaxLines
    /\ scenario \in Scenarios /\ late \in BOOLEAN /\ overlap \in BOOLEAN

(* The files keep their types.                                             *)
LEMMA FilesStep ==
    ASSUME TypeOK, ShapeInv, [Next]_vars
    PROVE  FilesTyped'
<1> USE BoundsAssumption DEF TypeOK, FilesTyped, fileVars, runnerVars, threadVars,
   mainVars, pollVars, solverVars, countVars, otherVars
<1>1. ASSUME NEW t \in Requesters, NEW r \in StopRequests, BeginStop(t, r)
      PROVE  FilesTyped'
  BY <1>1 DEF BeginStop
<1>2. ASSUME NEW t \in Requesters, BeginWrite(t)
      PROVE  FilesTyped'
  BY <1>2 DEF BeginWrite
<1>3. ASSUME NEW t \in Threads, Step(t)
      PROVE  FilesTyped'
  <2> UNCHANGED <<timerArg, triggersLeft, timerStopped, solverVars, otherVars>>
    BY <1>3 DEF Step
  <2>1. CASE StopSet(t)
    BY <2>1 DEF StopSet
  <2>2. CASE Count(t)
    BY <2>2 DEF Count
  <2>3. CASE First(t)
    BY <2>3 DEF First, Store
  <2>4. CASE Copy(t)
    BY <2>4 DEF Copy
  <2>5. CASE Assign(t)
    BY <2>5 DEF Assign
  <2>6. CASE Read(t)
    BY <2>6 DEF Read
  <2>7. CASE Rename(t)
    BY <2>7 DEF Rename
  <2>8. CASE Requested(t)
    BY <2>8 DEF Requested
  <2>9. CASE Decrement(t)
    BY <2>9 DEF Decrement
  <2>10. CASE Test(t)
    BY <2>10 DEF Test
  <2>11. CASE PutBack(t)
    BY <2>11 DEF PutBack
  <2>12. CASE Fire(t)
    BY <2>12 DEF Fire
  <2>13. CASE SetNone(t)
    BY <2>13 DEF SetNone
  <2>14. CASE Add(t)
    BY <2>14 DEF Add, Store, ShapeInv, LoadInv
  <2>15. CASE Subtract(t)
    BY <2>15 DEF Subtract, Store, ShapeInv, LoadInv
  <2>16. CASE Remove(t)
    BY <2>16 DEF Remove
  <2>17. CASE Delete(t)
    BY <2>17 DEF Delete
  <2> QED
    BY <1>3, <2>1, <2>2, <2>3, <2>4, <2>5, <2>6, <2>7, <2>8, <2>9, <2>10, <2>11,
       <2>12, <2>13, <2>14, <2>15, <2>16, <2>17 DEF Step
<1>4. CASE HandleLine
  BY <1>4 DEF HandleLine
<1>20. CASE StartTimer
  BY <1>20 DEF StartTimer
<1>21. CASE ResetRequest
  BY <1>21 DEF ResetRequest
<1>5. CASE EndOfOutput
  BY <1>5 DEF EndOfOutput
<1>6. CASE StopHandle
  BY <1>6 DEF StopHandle
<1>7. CASE EndTriggers
  BY <1>7 DEF EndTriggers
<1>8. CASE StopTimer
  BY <1>8 DEF StopTimer
<1>9. CASE Reread
  BY <1>9 DEF Reread
<1>10. ASSUME NEW obeys \in BOOLEAN, SolverEnds(obeys)
      PROVE  FilesTyped'
  BY <1>10 DEF SolverEnds
<1>11. CASE UNCHANGED vars
  BY <1>11 DEF vars
<1> QED
  BY <1>1, <1>2, <1>3, <1>4, <1>5, <1>6, <1>7, <1>8, <1>9, <1>10, <1>11, <1>20, <1>21 DEF Next, Main

(* The places and lists of the threads keep their types.                   *)
LEMMA ThreadsStep ==
    ASSUME TypeOK, ShapeInv, [Next]_vars
    PROVE  ThreadsTyped'
<1> USE DEF TypeOK, ThreadsTyped, Labels, fileVars, runnerVars, threadVars,
   mainVars, pollVars, solverVars, countVars, otherVars
<1>1. ASSUME NEW t \in Requesters, NEW r \in StopRequests, BeginStop(t, r)
      PROVE  ThreadsTyped'
  <2>1. polling' \in BOOLEAN
    BY <1>1, Zenon DEF BeginStop
  <2>2. \/ UNCHANGED <<pc, todo>>
        \/ Begin(t, "stopSet", StopTodo)
    BY <1>1 DEF BeginStop, StopTodo
  <2> QED
    BY <1>1, <2>1, <2>2, Todos, Beginning DEF BeginStop, Threads
<1>2. ASSUME NEW t \in Requesters, BeginWrite(t)
      PROVE  ThreadsTyped'
  <2>1. Begin(t, "read", WriteTodo) \/ Begin(t, "count", WriteTodo)
    BY <1>2 DEF BeginWrite, WriteTodo
  <2> QED
    BY <1>2, <2>1, Todos, Beginning DEF BeginWrite, Threads
<1>3. ASSUME NEW t \in Threads, Step(t)
      PROVE  ThreadsTyped'
  <2> UNCHANGED <<timerArg, triggersLeft, timerStopped, solverVars, otherVars>>
    BY <1>3 DEF Step
  <2>1. CASE StopSet(t)
    BY <2>1, Going DEF StopSet, NoRaise, AfterRestore
  <2>2. CASE Count(t)
    BY <2>2, Going DEF Count, NoRaise, AfterRestore
  <2>3. CASE First(t)
    BY <2>3, Going DEF First, NoRaise, AfterRestore
  <2>4. CASE Copy(t)
    BY <2>4, Going DEF Copy, NoRaise, AfterRestore
  <2>5. CASE Assign(t)
    BY <2>5, Going DEF Assign, NoRaise, AfterRestore
  <2>6. CASE Read(t)
    BY <2>6, Going, Raising DEF Read, NoRaise, AfterRestore
  <2>7. CASE Rename(t)
    BY <2>7, Going, Todos DEF Rename, ShapeInv, ListsInv, HasList, Writing, Busy,
       Opening, Replacing, Asking, Restoring
  <2>8. CASE Requested(t)
    BY <2>8, Going DEF Requested, NoRaise, AfterRestore
  <2>9. CASE Decrement(t)
    BY <2>9, Going, Raising DEF Decrement, NoRaise, AfterRestore
  <2>10. CASE Test(t)
    BY <2>10, Going, Raising DEF Test, NoRaise, AfterRestore
  <2>11. CASE PutBack(t)
    BY <2>11, Going, Raising DEF PutBack, NoRaise, AfterRestore
  <2>12. CASE Fire(t)
    BY <2>12, Going DEF Fire, NoRaise, AfterRestore
  <2>13. CASE SetNone(t)
    BY <2>13, Going DEF SetNone, NoRaise, AfterRestore
  <2>14. CASE Add(t)
    BY <2>14, Going DEF Add, Store, NoRaise, AfterRestore
  <2>15. CASE Subtract(t)
    BY <2>15, Going DEF Subtract, Store, NoRaise, AfterRestore
  <2>16. CASE Remove(t)
    BY <2>16, Going DEF Remove, NoRaise, AfterRestore
  <2>17. CASE Delete(t)
    BY <2>17, Going, Raising DEF Delete, NoRaise, AfterRestore
  <2> QED
    BY <1>3, <2>1, <2>2, <2>3, <2>4, <2>5, <2>6, <2>7, <2>8, <2>9, <2>10, <2>11,
       <2>12, <2>13, <2>14, <2>15, <2>16, <2>17 DEF Step
<1>4. CASE HandleLine
  <2>1. pc' = pc \/ Goto("main", "startTimer")
    BY <1>4 DEF HandleLine
  <2> QED
    BY <1>4, <2>1, Going DEF HandleLine, Threads
<1>20. CASE StartTimer
  BY <1>20 DEF StartTimer, Threads
<1>21. CASE ResetRequest
  <2>1. Goto("main", "idle")
    BY <1>21 DEF ResetRequest
  <2> QED
    BY <1>21, <2>1, Going DEF ResetRequest, Threads
<1>5. CASE EndOfOutput
  BY <1>5 DEF EndOfOutput
<1>6. CASE StopHandle
  <2>1. \/ Raise("main")
        \/ Goto("main", "decrement") \/ pc' = pc
    BY <1>6 DEF StopHandle
  <2> QED
    BY <1>6, <2>1, Going, Raising DEF StopHandle, Threads
<1>7. CASE EndTriggers
  <2>1. Goto("main", "decrement") \/ pc' = pc
    BY <1>7 DEF EndTriggers, NextTrigger
  <2> QED
    BY <1>7, <2>1, Going DEF EndTriggers, NextTrigger, Threads
<1>8. CASE StopTimer
  BY <1>8 DEF StopTimer
<1>9. CASE Reread
  BY <1>9 DEF Reread
<1>10. ASSUME NEW obeys \in BOOLEAN, SolverEnds(obeys)
      PROVE  ThreadsTyped'
  BY <1>10 DEF SolverEnds
<1>11. CASE UNCHANGED vars
  BY <1>11 DEF vars
<1> QED
  BY <1>1, <1>2, <1>3, <1>4, <1>5, <1>6, <1>7, <1>8, <1>9, <1>10, <1>11, <1>20, <1>21
  DEF Next, Main

(* The variables of the run keep their types.                              *)
LEMMA RunStep ==
    ASSUME TypeOK, ShapeInv, [Next]_vars
    PROVE  RunTyped'
<1> USE BoundsAssumption DEF TypeOK, RunTyped, Triggers, fileVars, runnerVars,
   threadVars, mainVars, pollVars, solverVars, countVars, otherVars
<1>1. ASSUME NEW t \in Requesters, NEW r \in StopRequests, BeginStop(t, r)
      PROVE  RunTyped'
  BY <1>1 DEF BeginStop, Begin
<1>2. ASSUME NEW t \in Requesters, BeginWrite(t)
      PROVE  RunTyped'
  BY <1>2 DEF BeginWrite, Begin
<1>3. ASSUME NEW t \in Threads, Step(t)
      PROVE  RunTyped'
  <2> UNCHANGED <<timerArg, triggersLeft, timerStopped, solverVars, otherVars>>
    BY <1>3 DEF Step
  <2>1. CASE StopSet(t)
    BY <2>1 DEF StopSet
  <2>2. CASE Count(t)
    BY <2>2 DEF Count
  <2>3. CASE First(t)
    BY <2>3 DEF First
  <2>4. CASE Copy(t)
    BY <2>4 DEF Copy
  <2>5. CASE Assign(t)
    BY <2>5 DEF Assign
  <2>6. CASE Read(t)
    BY <2>6 DEF Read
  <2>7. CASE Rename(t)
    BY <2>7 DEF Rename
  <2>8. CASE Requested(t)
    BY <2>8 DEF Requested
  <2>9. CASE Decrement(t)
    BY <2>9 DEF Decrement
  <2>10. CASE Test(t)
    BY <2>10 DEF Test
  <2>11. CASE PutBack(t)
    BY <2>11 DEF PutBack
  <2>12. CASE Fire(t)
    BY <2>12 DEF Fire
  <2>13. CASE SetNone(t)
    BY <2>13 DEF SetNone
  <2>14. CASE Add(t)
    BY <2>14 DEF Add
  <2>15. CASE Subtract(t)
    BY <2>15 DEF Subtract
  <2>16. CASE Remove(t)
    BY <2>16 DEF Remove
  <2>17. CASE Delete(t)
    BY <2>17 DEF Delete
  <2> QED
    BY <1>3, <2>1, <2>2, <2>3, <2>4, <2>5, <2>6, <2>7, <2>8, <2>9, <2>10, <2>11,
       <2>12, <2>13, <2>14, <2>15, <2>16, <2>17 DEF Step
<1>4. CASE HandleLine
  <2>3. lines' \in 0..MaxLines
    <3>1. lines > 0 /\ lines' = lines - 1
      BY <1>4 DEF HandleLine
    <3> QED
      BY <3>1
  <2> QED
    BY <1>4, <2>3 DEF HandleLine
<1>20. CASE StartTimer
  <2>1. timerArg' \in [Timers -> BOOLEAN]
    BY <1>20, Zenon DEF StartTimer
  <2> QED
    BY <1>20, <2>1 DEF StartTimer
<1>21. CASE ResetRequest
  BY <1>21 DEF ResetRequest
<1>5. CASE EndOfOutput
  BY <1>5 DEF EndOfOutput
<1>6. CASE StopHandle
  BY <1>6 DEF StopHandle
<1>7. CASE EndTriggers
  <2>1. triggersLeft' \in 0..Triggers'
    BY <1>7, ScenariosAssumption DEF EndTriggers, NextTrigger
  <2> QED
    BY <1>7, <2>1 DEF EndTriggers
<1>8. CASE StopTimer
  BY <1>8 DEF StopTimer
<1>9. CASE Reread
  BY <1>9 DEF Reread
<1>10. ASSUME NEW obeys \in BOOLEAN, SolverEnds(obeys)
      PROVE  RunTyped'
  BY <1>10 DEF SolverEnds
<1>11. CASE UNCHANGED vars
  BY <1>11 DEF vars
<1> QED
  BY <1>1, <1>2, <1>3, <1>4, <1>5, <1>6, <1>7, <1>8, <1>9, <1>10, <1>11, <1>20, <1>21
  DEF Next, Main

(* The loads and stores of the count keep their types, too.                *)
CountTyped == loaded \in [Threads -> Int \cup {NoEntry}] /\ lost \in BOOLEAN

(* What a thread stores, and whether it loses an update by that.           *)
LEMMA Storing ==
    ASSUME TypeOK, NEW t \in Threads, NEW count, Store(t, count)
    PROVE  /\ counter' = count /\ CountTyped' /\ loaded'[t] = NoEntry
           /\ \A u \in Threads : u # t => loaded'[u] = loaded[u]
           /\ ~lost' => ~lost /\ counter = loaded[t]
<1>1. lost' \in BOOLEAN /\ (~lost' => ~lost /\ counter = loaded[t])
  BY Zenon DEF Store, TypeOK
<1> QED
  BY <1>1 DEF Store, TypeOK, CountTyped

(* What a thread loads.                                                    *)
LEMMA Loads ==
    ASSUME TypeOK, NEW t \in Threads, Load(t)
    PROVE  /\ loaded' \in [Threads -> Int \cup {NoEntry}] /\ loaded'[t] = counter
           /\ \A u \in Threads : u # t => loaded'[u] = loaded[u]
  BY DEF Load, TypeOK

(* A step loads, stores or leaves the counts alone.                        *)
LEMMA Accesses ==
    ASSUME TypeOK, NEW t \in Threads, Step(t)
    PROVE  \/ Count(t) \/ Add(t) \/ First(t) \/ Decrement(t) \/ Subtract(t)
           \/ UNCHANGED <<loaded, lost>>
  BY DEF Step, countVars

(* What a thread that is not about to load or to store has loaded stays.   *)
LEMMA LoadsOwn ==
    ASSUME TypeOK, NEW t \in Threads, Step(t)
    PROVE  /\ \A u \in Threads : u # t => loaded'[u] = loaded[u]
           /\ loaded' \in [Threads -> Int \cup {NoEntry}]
           /\ ~lost' => ~lost
           /\ pc'[t] \in {"add", "subtract"} => loaded'[t] = counter /\ counter \in Int
<1>1. CASE Count(t)
  BY <1>1, Goes, Loads DEF Count, TypeOK
<1>2. CASE Add(t)
  BY <1>2, Goes, Storing DEF Add, CountTyped
<1>3. CASE First(t)
  BY <1>3, Goes, Storing DEF First, CountTyped
<1>4. CASE Decrement(t)
  BY <1>4, Goes, Raised, Loads DEF Decrement, TypeOK
<1>5. CASE Subtract(t)
  BY <1>5, Goes, Storing DEF Subtract, CountTyped
<1>6. CASE ~(Count(t) \/ Add(t) \/ First(t) \/ Decrement(t) \/ Subtract(t))
  <2>1. UNCHANGED <<loaded, lost>>
    BY <1>6, Accesses
  <2>2. pc'[t] \notin {"add", "subtract"}
    BY <1>6, Goes, Raised DEF Step, AfterRestore, StopSet, Copy, Assign, Read,
       Rename, Requested, Test, PutBack, Remove, Delete, Fire, SetNone
  <2> QED
    BY <2>1, <2>2 DEF TypeOK
<1> QED
  BY <1>1, <1>2, <1>3, <1>4, <1>5, <1>6

(* Only the steps of the threads load or store counts, and nobody else     *)
(* comes to where one is stored.                                           *)
LEMMA NoAccess ==
    ASSUME TypeOK, [Next]_vars, \A t \in Threads : ~Step(t)
    PROVE  /\ UNCHANGED <<loaded, lost, counter>>
           /\ \A t \in Threads : pc'[t] \in {"add", "subtract"} => pc'[t] = pc[t]
<1> "main" \in Threads /\ Timers \subseteq Threads /\ Requesters \subseteq Threads
  BY DEF Threads, Requesters
<1> USE DEF countVars, fileVars, vars
<1>1. ASSUME NEW t \in Requesters, NEW r \in StopRequests, BeginStop(t, r)
      PROVE  /\ UNCHANGED <<loaded, lost, counter>>
             /\ \A u \in Threads : pc'[u] \in {"add", "subtract"} => pc'[u] = pc[u]
  BY <1>1, Begins DEF BeginStop
<1>2. ASSUME NEW t \in Requesters, BeginWrite(t)
      PROVE  /\ UNCHANGED <<loaded, lost, counter>>
             /\ \A u \in Threads : pc'[u] \in {"add", "subtract"} => pc'[u] = pc[u]
  <2>1. \E label \in {"read", "count"} :
           Begin(t, label, <<"writeControl", "writeInterval">>)
    BY <1>2 DEF BeginWrite
  <2> QED
    BY <1>2, <2>1, Begins DEF BeginWrite
<1>3. CASE HandleLine
  BY <1>3, Goes DEF HandleLine
<1>4. CASE StartTimer
  BY <1>4 DEF StartTimer, TypeOK
<1>5. CASE ResetRequest
  BY <1>5, Goes DEF ResetRequest
<1>6. CASE EndOfOutput
  BY <1>6 DEF EndOfOutput, threadVars
<1>7. CASE StopHandle
  BY <1>7, Goes, Raised DEF StopHandle
<1>8. CASE EndTriggers
  BY <1>8, Goes DEF EndTriggers, NextTrigger
<1>9. CASE StopTimer \/ Reread \/ SolverEnds(TRUE) \/ SolverEnds(FALSE) \/ UNCHANGED vars
  BY <1>9 DEF StopTimer, Reread, SolverEnds, threadVars
<1> QED
  BY <1>1, <1>2, <1>3, <1>4, <1>5, <1>6, <1>7, <1>8, <1>9 DEF Next, Main

(* So a lost update is remembered, and a count is loaded before its store. *)
LEMMA LoadStep ==
    ASSUME TypeOK, LoadInv, [Next]_vars
    PROVE  LoadInv' /\ CountTyped' /\ (~lost' => ~lost)
<1>1. ASSUME NEW t \in Threads, Step(t)
      PROVE  LoadInv' /\ CountTyped' /\ (~lost' => ~lost)
  <2>1. \A u \in Threads : u # t => pc'[u] = pc[u]
    BY <1>1, Alone
  <2>2. LoadInv'
    BY <1>1, <2>1, LoadsOwn DEF LoadInv
  <2>3. lost' \in BOOLEAN
    <3>1. CASE Add(t) \/ First(t) \/ Subtract(t)
      <4>1. \E count : Store(t, count)
        BY <3>1 DEF Add, First, Subtract
      <4> QED
        BY <4>1, Storing DEF CountTyped
    <3>2. CASE Count(t) \/ Decrement(t)
      BY <3>2 DEF Count, Decrement, TypeOK
    <3>3. CASE UNCHANGED <<loaded, lost>>
      BY <3>3 DEF TypeOK
    <3> QED
      BY <1>1, <3>1, <3>2, <3>3, Accesses
  <2> QED
    BY <1>1, <2>2, <2>3, LoadsOwn DEF CountTyped
<1>2. CASE \A t \in Threads : ~Step(t)
  BY <1>2, NoAccess DEF LoadInv, CountTyped, TypeOK
<1> QED
  BY <1>1, <1>2

(* Every step keeps the types.                                             *)
LEMMA TypeStep ==
    ASSUME TypeOK, ShapeInv, [Next]_vars
    PROVE  TypeOK'
  BY FilesStep, ThreadsStep, RunStep, LoadStep
  DEF ShapeInv, TypeOK, FilesTyped, ThreadsTyped, RunTyped, CountTyped

(* Every step leaves each thread at a place of its own.                    *)
LEMMA PlacesStep ==
    ASSUME TypeOK, ListsInv, PlacesInv, [Next]_vars
    PROVE  PlacesInv'
<1> "main" \in Threads /\ Timers \subseteq Threads /\ Requesters \subseteq Threads
  BY DEF Threads, Requesters
<1> USE DEF fileVars, runnerVars, threadVars, mainVars, pollVars, solverVars, countVars, otherVars
<1>1. ASSUME NEW t \in Requesters, NEW r \in StopRequests, BeginStop(t, r)
      PROVE  PlacesInv'
  <2>1. \/ UNCHANGED <<pc, todo>>
        \/ Begin(t, "stopSet", StopTodo)
    BY <1>1 DEF BeginStop, StopTodo
  <2>2. UNCHANGED <<phase, scenario>> /\ Accepts(t)
    BY <1>1 DEF BeginStop
  <2>3. CASE UNCHANGED <<pc, todo>>
    BY <2>2, <2>3 DEF PlacesInv, InPlace, isRestarted
  <2>4. CASE Begin(t, "stopSet", StopTodo)
    <3>1. InPlace(t)'
      BY <2>2, <2>4, Begins, Kinds DEF Accepts, InPlace, Opening, Replacing, Asking,
         Restoring, TimerPlaces, ServantPlaces, MainPlaces
    <3> QED
      BY <2>2, <2>4, <3>1, Begins, OnePlace
  <2> QED
    BY <2>1, <2>3, <2>4
<1>2. ASSUME NEW t \in Requesters, BeginWrite(t)
      PROVE  PlacesInv'
  <2>1. Begin(t, "read", WriteTodo) \/ Begin(t, "count", WriteTodo)
    BY <1>2 DEF BeginWrite, WriteTodo
  <2>2. UNCHANGED <<phase, scenario>> /\ Accepts(t)
    BY <1>2 DEF BeginWrite
  <2>3. Begin(t, "count", WriteTodo) => ~isRestarted
    BY <1>2, Begins DEF BeginWrite
  <2>4. InPlace(t)'
    BY <2>1, <2>2, <2>3, Begins, Kinds DEF Accepts, InPlace, Opening, Replacing,
       Asking, Restoring, TimerPlaces, ServantPlaces, MainPlaces
  <2> QED
    BY <2>1, <2>2, <2>4, Begins, OnePlace
<1>3. ASSUME NEW t \in Threads, Step(t)
      PROVE  PlacesInv'
  <2> UNCHANGED <<timerArg, triggersLeft, timerStopped, solverVars, otherVars>>
    BY <1>3 DEF Step
  <2> InPlace(t)
    BY DEF PlacesInv
  <2> SUFFICES InPlace(t)'
    BY <1>3, Alone, OnePlace
  <2>1. CASE StopSet(t)
    BY <2>1, Goes, Raised, Kinds DEF StopSet, NoRaise, AfterRestore, InPlace,
       Opening, Replacing, Asking, Restoring, TimerPlaces, ServantPlaces, MainPlaces
  <2>2. CASE Count(t)
    BY <2>2, Goes, Raised, Kinds DEF Count, NoRaise, AfterRestore, InPlace, Opening,
       Replacing, Asking, Restoring, TimerPlaces, ServantPlaces, MainPlaces
  <2>3. CASE First(t)
    BY <2>3, Goes, Raised, Kinds DEF First, NoRaise, AfterRestore, InPlace, Opening,
       Replacing, Asking, Restoring, TimerPlaces, ServantPlaces, MainPlaces
  <2>4. CASE Copy(t)
    BY <2>4, Goes, Raised, Kinds DEF Copy, NoRaise, AfterRestore, InPlace, Opening,
       Replacing, Asking, Restoring, TimerPlaces, ServantPlaces, MainPlaces
  <2>5. CASE Assign(t)
    BY <2>5, Goes, Raised, Kinds DEF Assign, NoRaise, AfterRestore, InPlace,
       Opening, Replacing, Asking, Restoring, TimerPlaces, ServantPlaces, MainPlaces
  <2>6. CASE Read(t)
    BY <2>6, Goes, Raised, Kinds DEF Read, NoRaise, AfterRestore, InPlace, Opening,
       Replacing, Asking, Restoring, TimerPlaces, ServantPlaces, MainPlaces
  <2>7. CASE Rename(t)
    BY <2>7, Goes, Raised, Kinds DEF Rename, NoRaise, AfterRestore, Writing, Busy,
       InPlace, Opening, Replacing, Asking, Restoring, TimerPlaces, ServantPlaces,
       MainPlaces
  <2>8. CASE Requested(t)
    BY <2>8, Goes, Raised, Kinds DEF Requested, NoRaise, AfterRestore, InPlace,
       Opening, Replacing, Asking, Restoring, TimerPlaces, ServantPlaces, MainPlaces
  <2>9. CASE Decrement(t)
    BY <2>9, Goes, Raised, Kinds DEF Decrement, NoRaise, AfterRestore, InPlace,
       Opening, Replacing, Asking, Restoring, TimerPlaces, ServantPlaces, MainPlaces
  <2>10. CASE Test(t)
    BY <2>10, Goes, Raised, Kinds DEF Test, NoRaise, AfterRestore, InPlace, Opening,
       Replacing, Asking, Restoring, TimerPlaces, ServantPlaces, MainPlaces
  <2>11. CASE PutBack(t)
    BY <2>11, Goes, Raised, Kinds DEF PutBack, NoRaise, AfterRestore, InPlace,
       Opening, Replacing, Asking, Restoring, TimerPlaces, ServantPlaces, MainPlaces
  <2>12. CASE Fire(t)
    BY <2>12, Goes, Raised, Kinds DEF Fire, NoRaise, AfterRestore, InPlace, Opening,
       Replacing, Asking, Restoring, TimerPlaces, ServantPlaces, MainPlaces
  <2>13. CASE SetNone(t)
    BY <2>13, Goes, Raised, Kinds DEF SetNone, NoRaise, AfterRestore, InPlace,
       Opening, Replacing, Asking, Restoring, TimerPlaces, ServantPlaces, MainPlaces
  <2>14. CASE Add(t)
    BY <2>14, Goes, Raised, Kinds DEF Add, NoRaise, AfterRestore, InPlace, Opening,
       Replacing, Asking, Restoring, TimerPlaces, ServantPlaces, MainPlaces
  <2>15. CASE Subtract(t)
    BY <2>15, Goes, Raised, Kinds DEF Subtract, NoRaise, AfterRestore, InPlace, Opening,
       Replacing, Asking, Restoring, TimerPlaces, ServantPlaces, MainPlaces
  <2>16. CASE Remove(t)
    BY <2>16, Goes, Raised, Kinds DEF Remove, NoRaise, AfterRestore, InPlace, Opening,
       Replacing, Asking, Restoring, TimerPlaces, ServantPlaces, MainPlaces
  <2>17. CASE Delete(t)
    BY <2>17, Goes, Raised, Kinds DEF Delete, NoRaise, AfterRestore, InPlace,
       Opening, Replacing, Asking, Restoring, TimerPlaces, ServantPlaces, MainPlaces
  <2> QED
    BY <1>3, <2>1, <2>2, <2>3, <2>4, <2>5, <2>6, <2>7, <2>8, <2>9, <2>10, <2>11,
       <2>12, <2>13, <2>14, <2>15, <2>16, <2>17 DEF Step
<1>4. CASE HandleLine
  <2>1. UNCHANGED <<phase, scenario, todo>>
    BY <1>4 DEF HandleLine
  <2>2. CASE pc' = pc
    BY <2>1, <2>2 DEF PlacesInv, InPlace, isRestarted
  <2>3. CASE Goto("main", "startTimer")
    <3>1. /\ \A u \in Threads : u # "main" => pc'[u] = pc[u] /\ todo'[u] = todo[u]
          /\ pc'["main"] = "startTimer" /\ todo' = todo
      BY <2>1, <2>3, Goes
    <3>2. InPlace("main")'
      BY <1>4, <2>1, <3>1, Kinds DEF HandleLine, PlacesInv, InPlace, Opening, Replacing, Asking,
       Restoring, TimerPlaces, ServantPlaces, MainPlaces
    <3> QED
      BY <2>1, <3>1, <3>2, OnePlace
  <2> QED
    BY <1>4, <2>2, <2>3 DEF HandleLine
<1>20. CASE StartTimer
  <2>1. PICK t \in Timers :
          /\ pc[t] = "unset"
          /\ pc' = [pc EXCEPT ![t] = "waiting", !["main"] = "resetRequest"]
    BY <1>20 DEF StartTimer
  <2>2. UNCHANGED <<phase, scenario, todo>> /\ pc["main"] = "startTimer" /\ t # "main"
    BY <1>20, Kinds DEF StartTimer
  <2>3. /\ pc'[t] = "waiting" /\ pc'["main"] = "resetRequest"
        /\ \A u \in Threads : u # t /\ u # "main" => pc'[u] = pc[u]
    BY <2>1, <2>2 DEF TypeOK
  <2>4. InPlace("main")' /\ InPlace(t)'
    BY <2>1, <2>2, <2>3, Kinds DEF PlacesInv, InPlace, Opening, Replacing, Asking,
       Restoring, TimerPlaces, ServantPlaces, MainPlaces
  <2> QED
    BY <2>2, <2>3, <2>4 DEF PlacesInv, InPlace
<1>21. CASE ResetRequest
  <2>1. UNCHANGED <<phase, scenario, todo>> /\ pc["main"] = "resetRequest"
        /\ Goto("main", "idle")
    BY <1>21 DEF ResetRequest
  <2>2. pc'["main"] = "idle" /\ \A u \in Threads : u # "main" => pc'[u] = pc[u]
    BY <2>1, Goes
  <2>3. InPlace("main")'
    BY <2>1, <2>2, Kinds DEF PlacesInv, InPlace, Opening, Replacing, Asking,
       Restoring, TimerPlaces, ServantPlaces, MainPlaces
  <2> QED
    BY <2>1, <2>2, <2>3, OnePlace
<1>5. CASE EndOfOutput
  <2>1. \A u \in Threads : u # "main" => pc'[u] = pc[u] /\ todo'[u] = todo[u]
    BY <1>5, Goes, Raised DEF EndOfOutput
  <2>2. InPlace("main")'
    BY <1>5, Goes, Raised, Kinds DEF EndOfOutput, PlacesInv, InPlace, Opening,
       Replacing, Asking, Restoring, TimerPlaces, ServantPlaces, MainPlaces
  <2> QED
    BY <1>5, <2>1, <2>2, OnePlace DEF EndOfOutput
<1>6. CASE StopHandle
  <2>1. \A u \in Threads : u # "main" => pc'[u] = pc[u] /\ todo'[u] = todo[u]
    BY <1>6, Goes, Raised DEF StopHandle
  <2>2. InPlace("main")'
    BY <1>6, Goes, Raised, Kinds DEF StopHandle, PlacesInv, InPlace, Opening,
       Replacing, Asking, Restoring, TimerPlaces, ServantPlaces, MainPlaces
  <2> QED
    BY <1>6, <2>1, <2>2, OnePlace DEF StopHandle
<1>7. CASE EndTriggers
  <2>1. \A u \in Threads : u # "main" => pc'[u] = pc[u] /\ todo'[u] = todo[u]
    BY <1>7, Goes, Raised DEF EndTriggers, NextTrigger
  <2>2. InPlace("main")'
    BY <1>7, Goes, Raised, Kinds DEF EndTriggers, NextTrigger, PlacesInv, InPlace,
       Opening, Replacing, Asking, Restoring, TimerPlaces, ServantPlaces, MainPlaces
  <2> QED
    BY <1>7, <2>1, <2>2, OnePlace DEF EndTriggers, NextTrigger
<1>8. CASE StopTimer
  <2> UNCHANGED <<pc, todo, phase, scenario>>
    BY <1>8 DEF StopTimer
  <2> QED
    BY DEF PlacesInv, InPlace, isRestarted
<1>9. CASE Reread
  <2> UNCHANGED <<pc, todo, phase, scenario>>
    BY <1>9 DEF Reread
  <2> QED
    BY DEF PlacesInv, InPlace, isRestarted
<1>10. ASSUME NEW obeys \in BOOLEAN, SolverEnds(obeys)
      PROVE  PlacesInv'
  <2> UNCHANGED <<pc, todo, phase, scenario>>
    BY <1>10 DEF SolverEnds
  <2> QED
    BY DEF PlacesInv, InPlace, isRestarted
<1>11. CASE UNCHANGED vars
  <2> UNCHANGED <<pc, todo, phase, scenario>>
    BY <1>11 DEF vars
  <2> QED
    BY DEF PlacesInv, InPlace, isRestarted
<1> QED
  BY <1>1, <1>2, <1>3, <1>4, <1>5, <1>6, <1>7, <1>8, <1>9, <1>10, <1>11, <1>20, <1>21
  DEF Next, Main

(* Every step leaves each thread the list of its place.                    *)
LEMMA ListsStep ==
    ASSUME TypeOK, ListsInv, PlacesInv, [Next]_vars
    PROVE  ListsInv'
<1> "main" \in Threads /\ Timers \subseteq Threads /\ Requesters \subseteq Threads
  BY DEF Threads, Requesters
<1> USE DEF fileVars, runnerVars, threadVars, mainVars, pollVars, solverVars, countVars, otherVars
<1>1. ASSUME NEW t \in Requesters, NEW r \in StopRequests, BeginStop(t, r)
      PROVE  ListsInv'
  <2>1. \/ UNCHANGED <<pc, todo>>
        \/ Begin(t, "stopSet", StopTodo)
    BY <1>1 DEF BeginStop, StopTodo
  <2>2. UNCHANGED <<phase, scenario>> /\ Accepts(t)
    BY <1>1 DEF BeginStop
  <2>3. CASE UNCHANGED <<pc, todo>>
    BY <2>2, <2>3 DEF ListsInv, HasList, isRestarted
  <2>4. CASE Begin(t, "stopSet", StopTodo)
    <3>1. HasList(t)'
      BY <2>2, <2>4, Begins, Kinds DEF Accepts, HasList, Opening, Replacing, isRestarted
    <3> QED
      BY <2>2, <2>4, <3>1, Begins, OneList
  <2> QED
    BY <2>1, <2>3, <2>4
<1>2. ASSUME NEW t \in Requesters, BeginWrite(t)
      PROVE  ListsInv'
  <2>1. Begin(t, "read", WriteTodo) \/ Begin(t, "count", WriteTodo)
    BY <1>2 DEF BeginWrite, WriteTodo
  <2>2. UNCHANGED <<phase, scenario>> /\ Accepts(t)
    BY <1>2 DEF BeginWrite
  <2>3. Begin(t, "count", WriteTodo) => ~isRestarted
    BY <1>2, Begins DEF BeginWrite
  <2>4. HasList(t)'
    BY <2>1, <2>2, <2>3, Begins, Kinds DEF Accepts, HasList, Opening, Replacing,
       isRestarted
  <2> QED
    BY <2>1, <2>2, <2>4, Begins, OneList
<1>3. ASSUME NEW t \in Threads, Step(t)
      PROVE  ListsInv'
  <2> UNCHANGED <<timerArg, triggersLeft, timerStopped, solverVars, otherVars>>
    BY <1>3 DEF Step
  <2> HasList(t)
    BY DEF ListsInv
  <2> SUFFICES HasList(t)'
    BY <1>3, Alone, OneList
  <2>1. CASE StopSet(t)
    BY <2>1, Goes, Raised, Kinds, Todos DEF StopSet, NoRaise, AfterRestore, HasList,
       Opening, Replacing, isRestarted
  <2>2. CASE Count(t)
    BY <2>2, Goes, Raised, Kinds, Todos DEF Count, NoRaise, AfterRestore, HasList,
       Opening, Replacing, isRestarted
  <2>3. CASE First(t)
    BY <2>3, Goes, Raised, Kinds, Todos DEF First, NoRaise, AfterRestore, HasList,
       Opening, Replacing, isRestarted
  <2>4. CASE Copy(t)
    BY <2>4, Goes, Raised, Kinds, Todos DEF Copy, NoRaise, AfterRestore, HasList,
       Opening, Replacing, isRestarted
  <2>5. CASE Assign(t)
    BY <2>5, Goes, Raised, Kinds, Todos DEF Assign, NoRaise, AfterRestore, HasList,
       Opening, Replacing, isRestarted
  <2>6. CASE Read(t)
    BY <2>6, Goes, Raised, Kinds, Todos DEF Read, NoRaise, AfterRestore, HasList,
       Opening, Replacing, isRestarted
  <2>7. CASE Rename(t)
    <3>1. todo'[t] = Tail(todo[t])
      BY <2>7 DEF Rename, TypeOK
    <3>2. /\ todo[t] = WriteTodo => pc'[t] = "read"
          /\ todo[t] \in {StopTodo, LastTodo} => pc'[t] \in {"requested", "idle"}
      BY <2>7, Goes, Todos DEF Rename
    <3> QED
      BY <2>7, <3>1, <3>2, Todos DEF Rename, HasList, Opening, Replacing
  <2>8. CASE Requested(t)
    BY <2>8, Goes, Raised, Kinds, Todos DEF Requested, NoRaise, AfterRestore,
       HasList, Opening, Replacing, isRestarted
  <2>9. CASE Decrement(t)
    BY <2>9, Goes, Raised, Kinds, Todos DEF Decrement, NoRaise, AfterRestore,
       HasList, Opening, Replacing, isRestarted
  <2>10. CASE Test(t)
    BY <2>10, Goes, Raised, Kinds, Todos DEF Test, NoRaise, AfterRestore, HasList,
       Opening, Replacing, isRestarted
  <2>11. CASE PutBack(t)
    BY <2>11, Goes, Raised, Kinds, Todos DEF PutBack, NoRaise, AfterRestore,
       HasList, Opening, Replacing, isRestarted
  <2>12. CASE Fire(t)
    BY <2>12, Goes, Raised, Kinds, Todos DEF Fire, NoRaise, AfterRestore, HasList,
       Opening, Replacing, isRestarted
  <2>13. CASE SetNone(t)
    BY <2>13, Goes, Raised, Kinds, Todos DEF SetNone, NoRaise, AfterRestore,
       HasList, Opening, Replacing, isRestarted
  <2>14. CASE Add(t)
    BY <2>14, Goes, Raised, Kinds, Todos DEF Add, NoRaise, AfterRestore, HasList,
       Opening, Replacing, isRestarted
  <2>15. CASE Subtract(t)
    BY <2>15, Goes, Raised, Kinds, Todos DEF Subtract, NoRaise, AfterRestore, HasList,
       Opening, Replacing, isRestarted
  <2>16. CASE Remove(t)
    BY <2>16, Goes, Raised, Kinds, Todos DEF Remove, NoRaise, AfterRestore, HasList,
       Opening, Replacing, isRestarted
  <2>17. CASE Delete(t)
    BY <2>17, Goes, Raised, Kinds, Todos DEF Delete, NoRaise, AfterRestore,
       HasList, Opening, Replacing, isRestarted
  <2> QED
    BY <1>3, <2>1, <2>2, <2>3, <2>4, <2>5, <2>6, <2>7, <2>8, <2>9, <2>10, <2>11,
       <2>12, <2>13, <2>14, <2>15, <2>16, <2>17 DEF Step
<1>4. CASE HandleLine
  <2>1. UNCHANGED <<phase, scenario, todo>>
    BY <1>4 DEF HandleLine
  <2>2. CASE pc' = pc
    BY <2>1, <2>2 DEF ListsInv, HasList, isRestarted
  <2>3. CASE Goto("main", "startTimer")
    <3>1. /\ \A u \in Threads : u # "main" => pc'[u] = pc[u] /\ todo'[u] = todo[u]
          /\ pc'["main"] = "startTimer" /\ todo' = todo
      BY <2>1, <2>3, Goes
    <3>2. HasList("main")'
      BY <1>4, <2>1, <3>1, Kinds DEF HandleLine, ListsInv, HasList, Opening, Replacing, isRestarted
    <3> QED
      BY <2>1, <3>1, <3>2, OneList
  <2> QED
    BY <1>4, <2>2, <2>3 DEF HandleLine
<1>20. CASE StartTimer
  <2>1. PICK t \in Timers :
          /\ pc[t] = "unset"
          /\ pc' = [pc EXCEPT ![t] = "waiting", !["main"] = "resetRequest"]
    BY <1>20 DEF StartTimer
  <2>2. UNCHANGED <<phase, scenario, todo>> /\ pc["main"] = "startTimer" /\ t # "main"
    BY <1>20, Kinds DEF StartTimer
  <2>3. /\ pc'[t] = "waiting" /\ pc'["main"] = "resetRequest"
        /\ \A u \in Threads : u # t /\ u # "main" => pc'[u] = pc[u]
    BY <2>1, <2>2 DEF TypeOK
  <2>4. HasList("main")' /\ HasList(t)'
    BY <2>1, <2>2, <2>3, Kinds DEF ListsInv, HasList, Opening, Replacing, isRestarted
  <2> QED
    BY <2>2, <2>3, <2>4 DEF ListsInv, HasList, isRestarted
<1>21. CASE ResetRequest
  <2>1. UNCHANGED <<phase, scenario, todo>> /\ pc["main"] = "resetRequest"
        /\ Goto("main", "idle")
    BY <1>21 DEF ResetRequest
  <2>2. pc'["main"] = "idle" /\ \A u \in Threads : u # "main" => pc'[u] = pc[u]
    BY <2>1, Goes
  <2>3. HasList("main")'
    BY <2>1, <2>2, Kinds DEF ListsInv, HasList, Opening, Replacing, isRestarted
  <2> QED
    BY <2>1, <2>2, <2>3, OneList
<1>5. CASE EndOfOutput
  <2>1. \A u \in Threads : u # "main" => pc'[u] = pc[u] /\ todo'[u] = todo[u]
    BY <1>5, Goes, Raised DEF EndOfOutput
  <2>2. HasList("main")'
    BY <1>5, Goes, Raised, Kinds DEF EndOfOutput, ListsInv, HasList, Opening,
       Replacing, isRestarted
  <2> QED
    BY <1>5, <2>1, <2>2, OneList DEF EndOfOutput
<1>6. CASE StopHandle
  <2>1. /\ \A u \in Threads : u # "main" => pc'[u] = pc[u] /\ todo'[u] = todo[u]
        /\ UNCHANGED scenario
    BY <1>6, Goes, Raised DEF StopHandle
  <2>2. todo["main"] = <<>> /\ HasList("main") /\ pc["main"] \notin Opening \cup Replacing \cup {"stopSet"}
    BY <1>6, Kinds DEF StopHandle, PlacesInv, InPlace, ListsInv, HasList, Asking
  <2>3. pc'["main"] \in {pc["main"], "decrement", "dead"} /\ todo'["main"] = <<>>
    BY <1>6, <2>2, Goes, Raised DEF StopHandle
  <2>4. HasList("main")'
    BY <2>2, <2>3 DEF HasList, Opening, Replacing
  <2> QED
    BY <2>1, <2>4, OneList
<1>7. CASE EndTriggers
  <2>1. \A u \in Threads : u # "main" => pc'[u] = pc[u] /\ todo'[u] = todo[u]
    BY <1>7, Goes, Raised DEF EndTriggers, NextTrigger
  <2>2. HasList("main")'
    BY <1>7, Goes, Raised, Kinds DEF EndTriggers, NextTrigger, ListsInv, HasList,
       Opening, Replacing, isRestarted
  <2> QED
    BY <1>7, <2>1, <2>2, OneList DEF EndTriggers, NextTrigger
<1>8. CASE StopTimer
  <2> UNCHANGED <<pc, todo, phase, scenario>>
    BY <1>8 DEF StopTimer
  <2> QED
    BY DEF ListsInv, HasList, isRestarted
<1>9. CASE Reread
  <2> UNCHANGED <<pc, todo, phase, scenario>>
    BY <1>9 DEF Reread
  <2> QED
    BY DEF ListsInv, HasList, isRestarted
<1>10. ASSUME NEW obeys \in BOOLEAN, SolverEnds(obeys)
      PROVE  ListsInv'
  <2> UNCHANGED <<pc, todo, phase, scenario>>
    BY <1>10 DEF SolverEnds
  <2> QED
    BY DEF ListsInv, HasList, isRestarted
<1>11. CASE UNCHANGED vars
  <2> UNCHANGED <<pc, todo, phase, scenario>>
    BY <1>11 DEF vars
  <2> QED
    BY DEF ListsInv, HasList, isRestarted
<1> QED
  BY <1>1, <1>2, <1>3, <1>4, <1>5, <1>6, <1>7, <1>8, <1>9, <1>10, <1>11, <1>20, <1>21
  DEF Next, Main

(* Where a step leads to, or away from, "resetRequest".                    *)
LEMMA AtReset ==
    ASSUME TypeOK, NEW t \in Threads, Step(t)
    PROVE  /\ pc'["main"] = "resetRequest" <=> pc["main"] = "resetRequest"
           /\ pc'["main"] # "startTimer" \/ pc["main"] = "startTimer"
           /\ writeRequested => writeRequested'
<1>1. /\ pc[t] \notin {"startTimer", "resetRequest"}
      /\ pc'[t] \notin {"startTimer", "resetRequest"}
      /\ writeRequested => writeRequested'
  BY Goes, Raised DEF Step, AfterRestore, StopSet, Count, Add, First, Copy, Assign,
     Read, Rename, Requested, Decrement, Subtract, Test, PutBack, Remove, Delete,
     Fire, SetNone, runnerVars
<1> QED
  BY <1>1, Alone DEF Threads

(* Every step leaves main the request for which it starts a timer.         *)
LEMMA TimerStep ==
    ASSUME TypeOK, TimerInv, [Next]_vars
    PROVE  TimerInv'
<1> "main" \in Threads /\ Timers \subseteq Threads /\ Requesters \subseteq Threads
  BY DEF Threads, Requesters
<1> USE DEF TimerInv, fileVars, runnerVars, threadVars, mainVars, pollVars, solverVars,
   countVars, otherVars
<1>1. ASSUME NEW t \in Requesters, NEW r \in StopRequests, BeginStop(t, r)
      PROVE  TimerInv'
  BY <1>1, Begins DEF BeginStop
<1>2. ASSUME NEW t \in Requesters, BeginWrite(t)
      PROVE  TimerInv'
  <2>1. \E label \in {"read", "count"} :
           Begin(t, label, <<"writeControl", "writeInterval">>)
    BY <1>2 DEF BeginWrite
  <2> QED
    BY <1>2, <2>1, Begins DEF BeginWrite
<1>3. ASSUME NEW t \in Threads, Step(t)
      PROVE  TimerInv'
  BY <1>3, AtReset
<1>4. CASE HandleLine
  BY <1>4 DEF HandleLine
<1>5. CASE StartTimer
  BY <1>5 DEF StartTimer, TypeOK
<1>6. CASE ResetRequest
  BY <1>6, Goes DEF ResetRequest
<1>7. CASE EndOfOutput
  BY <1>7 DEF EndOfOutput
<1>8. CASE StopHandle
  BY <1>8, Goes, Raised DEF StopHandle
<1>9. CASE EndTriggers
  BY <1>9, Goes DEF EndTriggers, NextTrigger
<1>10. CASE StopTimer \/ Reread \/ SolverEnds(TRUE) \/ SolverEnds(FALSE) \/ UNCHANGED vars
  BY <1>10 DEF StopTimer, Reread, SolverEnds, vars
<1> QED
  BY <1>1, <1>2, <1>3, <1>4, <1>5, <1>6, <1>7, <1>8, <1>9, <1>10 DEF Next, Main

(* There are finitely many threads.                                        *)
LEMMA ThreadsFinite == IsFiniteSet(Threads)
<1>1. IsFiniteSet(({"main"} \cup {"poller"}) \cup {"server"})
  BY FS_Singleton, FS_AddElement
<1>2. {"main"} \cup Requesters = ({"main"} \cup {"poller"}) \cup {"server"}
  BY DEF Requesters
<1> QED
  BY <1>1, <1>2, TimersAssumption, FS_Union DEF Threads

(* How the debts change where only one thread moves.                       *)
LEMMA OneDebtor ==
    ASSUME NEW t \in Threads,
           \A u \in Threads : u # t => (Owes(u)' <=> Owes(u))
    PROVE  /\ Debts \in Nat /\ Debts' \in Nat
           /\ Debts' = Debts + Bit(Owes(t))' - Bit(Owes(t))
<1>1. IsFiniteSet(Threads)
  BY ThreadsFinite
<1>2. PICK before : before = {u \in Threads : Owes(u)}
  OBVIOUS
<1>3. PICK after : after = {u \in Threads : Owes(u)'}
  OBVIOUS
<1>4. IsFiniteSet(before) /\ IsFiniteSet(after)
  BY <1>1, <1>2, <1>3, FS_Subset
<1>5. Debts = Cardinality(before) /\ Debts' = Cardinality(after)
  BY <1>2, <1>3 DEF Debts
<1>6. after \ {t} = before \ {t}
  BY <1>2, <1>3
<1>7. t \in before <=> Owes(t)
  BY <1>2
<1>8. t \in after <=> Owes(t)'
  BY <1>3
<1>9. /\ Cardinality(before) \in Nat /\ Cardinality(after) \in Nat
      /\ Cardinality(before \ {t}) =
           IF t \in before THEN Cardinality(before) - 1 ELSE Cardinality(before)
      /\ Cardinality(after \ {t}) =
           IF t \in after THEN Cardinality(after) - 1 ELSE Cardinality(after)
  BY <1>4, FS_CardinalityType, FS_RemoveElement
<1>10. Bit(Owes(t)) = IF t \in before THEN 1 ELSE 0
  BY <1>7, Zenon DEF Bit
<1>11. Bit(Owes(t))' = IF t \in after THEN 1 ELSE 0
  BY <1>8, Zenon DEF Bit
<1> QED
  BY <1>5, <1>6, <1>9, <1>10, <1>11

(* If nobody begins or ends to owe a restore, the debts stay.              *)
LEMMA SameDebtors ==
    ASSUME \A u \in Threads : Owes(u)' <=> Owes(u)
    PROVE  Debts' = Debts /\ Debts \in Nat
<1>1. "main" \in Threads
  BY DEF Threads
<1> QED
  BY <1>1, OneDebtor DEF Bit

(* What was late, or overlapped, stays so.                                 *)
LEMMA History ==
    ASSUME TypeOK, [Next]_vars
    PROVE  /\ scenario' = scenario /\ (triggersLeft' > 0 => triggersLeft > 0)
           /\ ~late' => ~late
           /\ ~overlap' => ~overlap
<1> "main" \in Threads /\ Timers \subseteq Threads /\ Requesters \subseteq Threads
  BY DEF Threads, Requesters
<1> USE DEF fileVars, runnerVars, threadVars, mainVars, pollVars, solverVars, countVars, otherVars
<1>1. ASSUME NEW t \in Requesters, NEW r \in StopRequests, BeginStop(t, r)
      PROVE  /\ scenario' = scenario /\ (triggersLeft' > 0 => triggersLeft > 0)
             /\ ~late' => ~late
             /\ ~overlap' => ~overlap
  <2>1. ~overlap' => ~overlap
    BY <1>1, Zenon DEF BeginStop
  <2>2. ~late' => ~late
    <3>1. late' = late \/ Begin(t, "stopSet", <<"stopAt">>)
      BY <1>1 DEF BeginStop
    <3> QED
      BY <3>1, Begins
  <2> QED
    BY <1>1, <2>1, <2>2 DEF BeginStop, TypeOK
<1>2. ASSUME NEW t \in Requesters, BeginWrite(t)
      PROVE  /\ scenario' = scenario /\ (triggersLeft' > 0 => triggersLeft > 0)
             /\ ~late' => ~late
             /\ ~overlap' => ~overlap
  BY <1>2, Begins DEF BeginWrite, TypeOK
<1>3. ASSUME NEW t \in Threads, Step(t)
      PROVE  /\ scenario' = scenario /\ (triggersLeft' > 0 => triggersLeft > 0)
             /\ ~late' => ~late
             /\ ~overlap' => ~overlap
  BY <1>3 DEF Step, TypeOK
<1>4. CASE HandleLine
  BY <1>4 DEF HandleLine, TypeOK
<1>20. CASE StartTimer
  BY <1>20 DEF StartTimer, TypeOK
<1>21. CASE ResetRequest
  BY <1>21 DEF ResetRequest, TypeOK
<1>5. CASE EndOfOutput
  <2>1. ~late' => ~late
    BY <1>5, Zenon DEF EndOfOutput
  <2> QED
    BY <1>5, <2>1 DEF EndOfOutput, TypeOK
<1>6. CASE StopHandle
  BY <1>6 DEF StopHandle, TypeOK
<1>7. CASE EndTriggers
  BY <1>7 DEF EndTriggers, TypeOK, NextTrigger
<1>8. CASE StopTimer
  BY <1>8 DEF StopTimer, TypeOK
<1>9. CASE Reread
  BY <1>9 DEF Reread, TypeOK
<1>10. ASSUME NEW obeys \in BOOLEAN, SolverEnds(obeys)
      PROVE  /\ scenario' = scenario /\ (triggersLeft' > 0 => triggersLeft > 0)
             /\ ~late' => ~late
             /\ ~overlap' => ~overlap
  BY <1>10 DEF SolverEnds, TypeOK
<1>11. CASE UNCHANGED vars
  BY <1>11 DEF vars, TypeOK
<1> QED
  BY <1>1, <1>2, <1>3, <1>4, <1>5, <1>6, <1>7, <1>8, <1>9, <1>10, <1>11, <1>20, <1>21
  DEF Next, Main

(* Main raises only where a request, a timer or a write made the run late. *)
LEMMA LateStep ==
    ASSUME TypeOK, ListsInv, PlacesInv, LateInv, [Next]_vars
    PROVE  LateInv'
<1> "main" \in Threads /\ Timers \subseteq Threads /\ Requesters \subseteq Threads
  BY DEF Threads, Requesters
<1> USE DEF fileVars, runnerVars, threadVars, mainVars, pollVars, solverVars, countVars, otherVars
<1>1. ASSUME NEW t \in Requesters, NEW r \in StopRequests, BeginStop(t, r)
      PROVE  LateInv'
  <2>1. phase' = phase /\ triggersLeft' = triggersLeft
    BY <1>1 DEF BeginStop
  <2>2. \/ UNCHANGED <<pc, todo, late>>
        \/ phase = "loop"
        \/ late'
    <3>1. \/ UNCHANGED <<pc, todo, late>>
          \/ \E label, parameters : Begin(t, label, parameters)
      BY <1>1 DEF BeginStop
    <3> QED
      BY <3>1, Begins
  <2> QED
    BY <2>1, <2>2 DEF LateInv, Busy
<1>2. ASSUME NEW t \in Requesters, BeginWrite(t)
      PROVE  LateInv'
  <2>1. phase' = phase /\ triggersLeft' = triggersLeft
    BY <1>2 DEF BeginWrite
  <2>2. \/ UNCHANGED <<pc, todo, late>>
        \/ phase = "loop"
        \/ late'
    <3>1. \/ UNCHANGED <<pc, todo, late>>
          \/ \E label, parameters : Begin(t, label, parameters)
      BY <1>2 DEF BeginWrite
    <3> QED
      BY <3>1, Begins
  <2> QED
    BY <2>1, <2>2 DEF LateInv, Busy
<1>3. ASSUME NEW t \in Threads, Step(t)
      PROVE  LateInv'
  <2>1. triggersLeft' = triggersLeft /\ late' = late
    BY <1>3 DEF Step
  <2>2. \A u \in Threads : u # t => pc'[u] = pc[u] /\ todo'[u] = todo[u]
    BY <1>3, Alone
  <2>3. t # "main" => phase' = phase
    BY <1>3, Alone
  <2>7. phase' \in {phase, "raised"}
    BY <1>3, Raised DEF Step, NoRaise, StopSet, Count, Load, Store, Add, First, Copy, Assign, Read,
       Rename, Requested, Decrement, Subtract, Test, PutBack, Remove, Delete, Fire, SetNone
  <2>4. CASE t \in Timers
    BY <2>1, <2>2, <2>3, <2>4, Kinds DEF LateInv, Busy
  <2>5. CASE t \in Requesters /\ Busy(t)
    BY <2>1, <2>5, <2>7 DEF LateInv, ListsInv, HasList, PlacesInv, InPlace, Busy,
       Asking, Opening, Replacing
  <2>6. CASE t \in Requesters /\ ~Busy(t)
    <3>1. phase' \in {phase, "raised"} /\ (phase' # "raised" => ~Busy(t)')
      <4>1. pc[t] \in {"idle", "dead", "startTimer", "resetRequest"} \cup Restoring
        BY <2>6, Kinds, Todos DEF ListsInv, HasList, PlacesInv, InPlace, Busy,
           Asking, Opening, Replacing, ServantPlaces, MainPlaces
      <4>2. Decrement(t) \/ Subtract(t) \/ Test(t) \/ PutBack(t) \/ Remove(t) \/ Delete(t)
        BY <1>3, <4>1 DEF Step, Restoring, StopSet, Count, Load, Store, Add, First, Copy, Assign,
           Read, Rename, Requested, Fire, SetNone
      <4> QED
        BY <2>6, <4>2, Goes, Raised DEF Decrement, Subtract, Test, PutBack, Remove,
           Delete, NoRaise,
           AfterRestore, Busy
    <3> QED
      BY <2>1, <2>2, <2>6, <3>1 DEF LateInv, Busy
  <2> QED
    BY <2>4, <2>5, <2>6, Kinds
<1>4. CASE HandleLine
  BY <1>4 DEF HandleLine, LateInv
<1>20. CASE StartTimer
  <2>1. \A u \in Requesters : pc'[u] \in {pc[u], "resetRequest"}
    BY <1>20, Kinds DEF StartTimer, TypeOK
  <2> QED
    BY <1>20, <2>1 DEF StartTimer, LateInv, Busy
<1>21. CASE ResetRequest
  <2>1. \A u \in Requesters : pc'[u] \in {pc[u], "idle"}
    BY <1>21, Goes DEF ResetRequest
  <2> QED
    BY <1>21, <2>1 DEF ResetRequest, LateInv, Busy
<1>5. CASE EndOfOutput
  <2>1. ~late' => \A t \in Requesters : ~Busy(t)
    BY <1>5, Zenon DEF EndOfOutput
  <2> QED
    BY <1>5, <2>1 DEF EndOfOutput, LateInv, Busy
<1>6. CASE StopHandle
  <2>1. \/ phase' = "raised"
        \/ phase' = "triggers" /\ todo' = todo /\ late' = late
           /\ \A u \in Requesters : pc'[u] \in {pc[u], "decrement"}
    BY <1>6, Goes, Raised DEF StopHandle
  <2> QED
    BY <1>6, <2>1 DEF StopHandle, LateInv, Busy
<1>7. CASE EndTriggers
  <2>1. \A u \in Requesters : pc'[u] \in {pc[u], "decrement"}
    BY <1>7, Goes DEF EndTriggers, NextTrigger
  <2>2. phase' = "done" => triggersLeft' = 0
    BY <1>7 DEF EndTriggers, NextTrigger, TypeOK
  <2> QED
    BY <1>7, <2>1, <2>2 DEF EndTriggers, LateInv, Busy
<1>8. CASE StopTimer
  BY <1>8 DEF StopTimer, LateInv, Busy
<1>9. CASE Reread
  BY <1>9 DEF Reread, LateInv, Busy
<1>10. ASSUME NEW obeys \in BOOLEAN, SolverEnds(obeys)
       PROVE  LateInv'
  BY <1>10 DEF SolverEnds, LateInv, Busy
<1>11. CASE UNCHANGED vars
  BY <1>11 DEF vars, LateInv, Busy
<1> QED
  BY <1>1, <1>2, <1>3, <1>4, <1>5, <1>6, <1>7, <1>8, <1>9, <1>10, <1>11, <1>20, <1>21
  DEF Next, Main

(* A write is accepted only where the scenario has one left.               *)
LEMMA WriteSlots ==
    ASSUME TypeOK, NEW t \in Requesters, BeginWrite(t)
    PROVE  /\ scenario.writes # 0
           /\ scenario.writes = 1 => /\ \A u \in Requesters : ~Writing(u)
                                     /\ \A u \in Timers : pc[u] = "unset"
<1>1. PICK busy : busy = {u \in Requesters : Writing(u)}
  OBVIOUS
<1>2. PICK set : set = {u \in Timers : pc[u] # "unset"}
  OBVIOUS
<1>3. IsFiniteSet(Requesters)
  <2>1. IsFiniteSet(({"main"} \cup {"poller"}) \cup {"server"})
    BY FS_Singleton, FS_AddElement
  <2>2. Requesters = ({"main"} \cup {"poller"}) \cup {"server"}
    BY DEF Requesters
  <2> QED
    BY <2>1, <2>2
<1>4. IsFiniteSet(busy) /\ IsFiniteSet(set)
  BY <1>1, <1>2, <1>3, TimersAssumption, FS_Subset
<1>5. Cardinality(busy) \in Nat /\ Cardinality(set) \in Nat
  BY <1>4, FS_CardinalityType
<1>6. Cardinality(busy) + Cardinality(set) < scenario.writes
  BY <1>1, <1>2 DEF BeginWrite
<1>7. scenario.writes \in Int
  <2>1. IsFiniteSet(Timers) => Cardinality(Timers) \in Nat
    BY FS_CardinalityType
  <2> QED
    BY <2>1, TimersAssumption, ScenariosAssumption DEF TypeOK
<1>8. scenario.writes = 1 => busy = {} /\ set = {}
  BY <1>4, <1>5, <1>6, FS_EmptySet
<1> QED
  BY <1>1, <1>2, <1>5, <1>6, <1>7, <1>8

(* There are never more writers than writes begun.                         *)
LEMMA WritesStep ==
    ASSUME TypeOK, ListsInv, PlacesInv, WritesInv, [Next]_vars
    PROVE  WritesInv'
<1>0. scenario' = scenario
  BY History
<1> SUFFICES ASSUME scenario.writes = 0
             PROVE  WritesInv'
  BY <1>0 DEF WritesInv
<1> "main" \in Threads /\ Timers \subseteq Threads /\ Requesters \subseteq Threads
  BY DEF Threads, Requesters
<1> USE DEF fileVars, runnerVars, threadVars, mainVars, pollVars, solverVars, countVars, otherVars
<1>1. ASSUME NEW t \in Requesters, NEW r \in StopRequests, BeginStop(t, r)
      PROVE  WritesInv'
  <2>1. \/ UNCHANGED <<pc, todo>>
        \/ Begin(t, "stopSet", StopTodo)
    BY <1>1 DEF BeginStop, StopTodo
  <2> QED
    BY <1>1, <2>1, Begins, Kinds DEF BeginStop, WritesInv
<1>2. ASSUME NEW t \in Requesters, BeginWrite(t)
      PROVE  WritesInv'
  BY <1>2, WriteSlots
<1>3. ASSUME NEW t \in Threads, Step(t)
      PROVE  WritesInv'
  <2>1. \A u \in Threads : u # t => pc'[u] = pc[u] /\ todo'[u] = todo[u]
    BY <1>3, Alone
  <2>2. t \in Requesters
    <3>1. pc[t] # "unset"
      BY <1>3 DEF Step, StopSet, Count, Load, Store, Add, First, Copy, Assign, Read, Rename,
         Requested, Decrement, Subtract, Test, PutBack, Remove, Delete, Fire, SetNone
    <3> QED
      BY <3>1, Kinds DEF WritesInv
  <2>3. pc[t] # "requested" /\ todo[t] \in {<<>>, StopTodo} /\ ~writeRequested
    BY <2>2 DEF WritesInv
  <2>4. CASE Rename(t)
    <3>1. todo[t] = StopTodo
      BY <2>3, <2>4, Kinds, Todos DEF Rename, ListsInv, HasList, Replacing
    <3>2. todo'[t] = <<>> /\ pc'[t] = "idle"
      BY <2>4, <3>1, Goes, Todos DEF Rename, TypeOK, Writing, StopTodo
    <3> QED
      BY <2>1, <2>4, <3>2, Kinds DEF Rename, WritesInv
  <2>5. CASE ~Rename(t)
    <3>1. writeRequested' = writeRequested /\ pc'[t] # "requested"
      BY <1>3, <2>3, <2>5, Goes, Raised DEF Step, NoRaise, AfterRestore, StopSet,
         Count, Load, Store, Add, First, Copy, Assign, Read, Rename, Requested, Decrement, Subtract, Test,
         PutBack, Remove, Delete, Fire, SetNone
    <3>2. todo'[t] \in {<<>>, todo[t]}
      BY <1>3, <2>5, Raised DEF Step, NoRaise, StopSet, Count, Load, Store, Add, First, Copy, Assign,
         Read, Rename, Requested, Decrement, Subtract, Test, PutBack, Remove, Delete, Fire, SetNone
    <3>3. \A u \in Timers : pc'[u] = "unset"
      BY <2>1, <2>2, Kinds DEF WritesInv
    <3>4. \A u \in Requesters : todo'[u] \in {<<>>, StopTodo} /\ pc'[u] # "requested"
      BY <2>1, <2>3, <3>1, <3>2 DEF WritesInv
    <3>5. pc'["main"] \notin {"startTimer", "resetRequest"}
      BY <1>3, AtReset DEF WritesInv
    <3> QED
      BY <2>3, <3>1, <3>3, <3>4, <3>5 DEF WritesInv
  <2> QED
    BY <2>4, <2>5
<1>4. CASE HandleLine
  BY <1>4 DEF HandleLine, WritesInv
<1>20. CASE StartTimer
  BY <1>20 DEF StartTimer, WritesInv
<1>21. CASE ResetRequest
  BY <1>21 DEF ResetRequest, WritesInv
<1>5. CASE EndOfOutput
  BY <1>5 DEF EndOfOutput, WritesInv
<1>6. CASE StopHandle
  BY <1>6, Goes, Raised, Kinds DEF StopHandle, WritesInv
<1>7. CASE EndTriggers
  BY <1>7, Goes, Kinds DEF EndTriggers, NextTrigger, WritesInv
<1>8. CASE StopTimer
  BY <1>8 DEF StopTimer, WritesInv
<1>9. CASE Reread
  BY <1>9 DEF Reread, WritesInv
<1>10. ASSUME NEW obeys \in BOOLEAN, SolverEnds(obeys)
       PROVE  WritesInv'
  BY <1>10 DEF SolverEnds, WritesInv
<1>11. CASE UNCHANGED vars
  BY <1>11 DEF vars, WritesInv
<1> QED
  BY <1>1, <1>2, <1>3, <1>4, <1>5, <1>6, <1>7, <1>8, <1>9, <1>10, <1>11, <1>20, <1>21
  DEF Next, Main

(* In a run without on-demand writes only requesters take steps.           *)
LEMMA NoTimers ==
    ASSUME WritesInv, scenario.writes = 0, NEW t \in Threads, Step(t)
    PROVE  t \in Requesters
<1>1. pc[t] # "unset"
  BY DEF Step, StopSet, Count, Load, Store, Add, First, Copy, Assign, Read, Rename, Requested,
     Decrement, Subtract, Test, PutBack, Remove, Delete, Fire, SetNone
<1> QED
  BY <1>1, Kinds DEF WritesInv

(* Who has a list to replace, and where.                                   *)
LEMMA StopPlaces ==
    ASSUME ListsInv, NEW t \in Threads
    PROVE  /\ todo[t] = StopTodo => pc[t] \in {"stopSet"} \cup Opening \cup Replacing
           /\ pc[t] \notin {"stopSet"} \cup Opening \cup Replacing => todo[t] = <<>>
  BY Todos DEF ListsInv, HasList

(* Every step keeps what the requests to stop have opened.                 *)
LEMMA OpenStep ==
    ASSUME IInv, [Next]_vars, scenario.writes = 0
    PROVE  OpenInv'
<1> USE DEF fileVars, runnerVars, threadVars, mainVars, pollVars, solverVars, countVars, otherVars
<1> DEFINE Witness(t) == todo[t] = StopTodo /\ pc[t] # "stopSet"
<1>0. scenario' = scenario /\ OpenInv /\ TypeOK /\ WritesInv /\ ListsInv
  BY History DEF IInv, StopsInv
<1> "main" \in Threads /\ Timers \subseteq Threads /\ Requesters \subseteq Threads
  BY DEF Threads, Requesters
<1>12. ASSUME UNCHANGED <<file, backup, controlDict, stopMe>>, NEW t \in Requesters,
              \A u \in Threads : u # t => pc'[u] = pc[u] /\ todo'[u] = todo[u],
              pc[t] \notin {"stopSet"} \cup Opening \cup Replacing,
              pc'[t] \notin Replacing
       PROVE  OpenInv'
  <2>1. \A u \in Requesters : Witness(u) => Witness(u)'
    BY <1>0, <1>12, StopPlaces, Todos
  <2> QED
    BY <1>0, <1>12, <2>1 DEF OpenInv, isRestarted
<1>13. ASSUME UNCHANGED <<file, backup, controlDict, stopMe, pc, todo>>
       PROVE  OpenInv'
  BY <1>0, <1>13 DEF OpenInv, isRestarted
<1>1. ASSUME NEW t \in Requesters, NEW r \in StopRequests, BeginStop(t, r)
      PROVE  OpenInv'
  <2>1. \/ UNCHANGED <<pc, todo>>
        \/ Begin(t, "stopSet", StopTodo)
    BY <1>1 DEF BeginStop, StopTodo
  <2>2. UNCHANGED <<file, backup, controlDict, stopMe>> /\ pc[t] = "idle"
    BY <1>1 DEF BeginStop, Accepts
  <2> QED
    BY <1>0, <2>1, <2>2, <1>12, <1>13, Begins DEF Replacing, Opening
<1>2. ASSUME NEW t \in Requesters, BeginWrite(t)
      PROVE  OpenInv'
  BY <1>0, <1>2, WriteSlots
<1>3. ASSUME NEW t \in Threads, Step(t)
      PROVE  OpenInv'
  <2>1. t \in Requesters /\ t \notin Timers
    BY <1>0, <1>3, NoTimers, Kinds
  <2>2. \A u \in Threads : u # t => pc'[u] = pc[u] /\ todo'[u] = todo[u]
    BY <1>0, <1>3, Alone
  <2>3. ~SetNone(t) /\ ~Fire(t)
    BY <1>3, <2>1, Kinds DEF IInv, PlacesInv, InPlace, SetNone, Fire, ServantPlaces,
       MainPlaces, Asking, Opening, Replacing, Restoring
  <2>4. controlDict' = controlDict \/ controlDict'
    BY <1>3, <2>3 DEF Step, StopSet, Count, Load, Store, Add, First, Copy, Assign, Read, Rename,
       Requested, Decrement, Subtract, Test, PutBack, Remove, Delete, Fire, SetNone
  <2>5. CASE controlDict'
    BY <2>5 DEF OpenInv
  <2>6. CASE ~controlDict'
    <3>1. ~controlDict /\ ~isRestarted /\ ~isRestarted' /\ pc[t] \notin Replacing
      BY <1>0, <2>1, <2>4, <2>6 DEF OpenInv, isRestarted
    <3>2. ~Assign(t) /\ ~Read(t) /\ ~Rename(t)
      BY <2>6, <3>1 DEF Assign, Read, Rename, Replacing
    <3>3. pc'[t] \notin Replacing
      BY <1>0, <1>3, <2>3, <3>1, <3>2, Goes, Raised DEF Step, StopSet, Count, Load, Store, Add, First,
         Copy, Assign, Read, Rename, Requested, Decrement, Subtract, Test, PutBack, Remove, Delete, Fire,
         SetNone, AfterRestore, Replacing
    <3>4. Clean(file') /\ (backup' = NoFile \/ Clean(backup'))
      BY <1>0, <1>3, <2>3, <3>1, <3>2 DEF Step, StopSet, Count, Load, Store, Add, First, Copy, Assign,
         Read, Rename, Requested, Decrement, Subtract, Test, PutBack, Remove, Delete, Fire, SetNone, OpenInv
    <3>5. Witness(t) => Witness(t)'
      <4>1. Witness(t) => pc[t] \in {"count", "first", "add", "copy"}
        BY <1>0, <3>1, <3>2, StopPlaces, <1>3 DEF Opening, Step, StopSet, Count, Load, Store, Add,
           First, Copy, Assign, Read, Rename, Requested, Decrement, Subtract, Test, PutBack, Remove, Delete,
           Fire, SetNone
      <4> QED
        BY <1>0, <4>1, <1>3, Goes DEF Step, NoRaise, StopSet, Count, Load, Store, Add, First, Copy,
           Assign, Read, Rename, Requested, Decrement, Subtract, Test, PutBack, Remove, Delete, Fire, SetNone
    <3>6. stopMe' => stopMe \/ Witness(t)'
      <4>1. CASE StopSet(t)
        BY <1>0, <3>1, <4>1, Goes DEF StopSet, NoRaise, ListsInv, HasList
      <4>2. CASE ~StopSet(t)
        BY <1>3, <4>2 DEF Step, StopSet, Count, Load, Store, Add, First, Copy, Assign, Read, Rename,
           Requested, Decrement, Subtract, Test, PutBack, Remove, Delete, Fire, SetNone
      <4> QED
        BY <4>1, <4>2
    <3>7. \A u \in Requesters : u # t /\ Witness(u) => Witness(u)'
      BY <2>2
    <3>8. stopMe' => \E u \in Requesters : Witness(u)'
      BY <1>0, <2>1, <3>1, <3>5, <3>6, <3>7 DEF OpenInv
    <3>9. \A u \in Requesters : pc'[u] \notin Replacing
      BY <1>0, <2>2, <3>1, <3>3 DEF OpenInv
    <3> QED
      BY <2>6, <3>1, <3>4, <3>8, <3>9 DEF OpenInv, Clean
  <2> QED
    BY <2>5, <2>6
<1>4. CASE HandleLine
  BY <1>0, <1>4, <1>13 DEF HandleLine, WritesInv
<1>20. CASE StartTimer
  BY <1>0, <1>20 DEF StartTimer, WritesInv
<1>21. CASE ResetRequest
  BY <1>0, <1>21 DEF ResetRequest, WritesInv
<1>5. CASE EndOfOutput
  BY <1>5, <1>13 DEF EndOfOutput
<1>14. pc["main"] \in {"idle", "dead"} => pc["main"] \notin {"stopSet"} \cup Opening \cup Replacing
  BY DEF Opening, Replacing
<1>15. "main" \in Requesters
  BY DEF Requesters
<1>6. CASE StopHandle
  <2>1. pc["main"] \notin {"stopSet"} \cup Opening \cup Replacing
    BY <1>6 DEF StopHandle, IInv, PlacesInv, InPlace, Asking
  <2>2. /\ pc'["main"] \notin Replacing \/ pc'["main"] = pc["main"]
        /\ \A u \in Threads : u # "main" => pc'[u] = pc[u] /\ todo'[u] = todo[u]
    BY <1>0, <1>6, Goes, Raised DEF StopHandle, Replacing
  <2> QED
    BY <1>6, <2>1, <2>2, <1>12, <1>15 DEF StopHandle
<1>7. CASE EndTriggers
  <2>1. /\ pc'["main"] \notin Replacing
        /\ \A u \in Threads : u # "main" => pc'[u] = pc[u] /\ todo'[u] = todo[u]
    BY <1>0, <1>7, Goes DEF EndTriggers, NextTrigger, Replacing
  <2> QED
    BY <1>7, <2>1, <1>12, <1>14, <1>15 DEF EndTriggers
<1>8. CASE StopTimer
  BY <1>8, <1>13 DEF StopTimer
<1>9. CASE Reread
  BY <1>9, <1>13 DEF Reread
<1>10. ASSUME NEW obeys \in BOOLEAN, SolverEnds(obeys)
       PROVE  OpenInv'
  BY <1>10, <1>13 DEF SolverEnds
<1>11. CASE UNCHANGED vars
  BY <1>11, <1>13 DEF vars
<1> QED
  BY <1>1, <1>2, <1>3, <1>4, <1>5, <1>6, <1>7, <1>8, <1>9, <1>10, <1>11, <1>20, <1>21
  DEF Next, Main

(* What is due is a number, and it is positive where a thread owes.        *)
LEMMA DueType ==
    ASSUME TypeOK
    PROVE  /\ Debts \in Nat /\ Due \in Nat /\ triggersLeft \in Nat
           /\ \A t \in Threads : Owes(t) => Debts > 0 /\ Due > 0
           /\ triggersLeft > 0 => Due > 0
<1>1. PICK owing : owing = {u \in Threads : Owes(u)}
  OBVIOUS
<1>2. IsFiniteSet(owing) /\ Debts = Cardinality(owing)
  BY <1>1, ThreadsFinite, FS_Subset DEF Debts
<1>3. Debts \in Nat /\ (Debts = 0 <=> owing = {})
  BY <1>2, FS_CardinalityType, FS_EmptySet
<1>4. \A t \in Threads : Owes(t) => Debts > 0
  BY <1>1, <1>3
<1>5. triggersLeft \in Nat
  BY ScenariosAssumption DEF TypeOK, Triggers
<1>6. \A b : Bit(b) \in {0, 1}
  BY DEF Bit
<1>7. Bit(Pending) \in {0, 1} /\ Bit(StopOwed) \in {0, 1}
  BY <1>6
<1> QED
  BY <1>3, <1>4, <1>5, <1>7 DEF Due

(* A run with requests to stop only in which main has left its loop.       *)
LEMMA OnlyMain ==
    ASSUME IInv, scenario.writes = 0, ~late, phase \notin {"loop", "raised"}
    PROVE  /\ \A t \in Requesters : todo[t] = <<>> /\ pc[t] \notin {"stopSet"} \cup Opening \cup Replacing
           /\ \A t \in Threads : Step(t) => t = "main"
<1>1. \A t \in Requesters : todo[t] = <<>>
  BY DEF IInv, LateInv, Busy
<1>2. \A t \in Requesters : pc[t] \notin {"stopSet"} \cup Opening \cup Replacing
  BY <1>1, Todos DEF IInv, ListsInv, HasList, Threads
<1>3. ASSUME NEW t \in Threads, Step(t), t # "main"
      PROVE  FALSE
  <2>1. t \in Requesters
    BY <1>3, NoTimers DEF IInv
  <2>2. pc[t] \in {"idle", "dead"}
    BY <1>2, <1>3, <2>1, Kinds DEF IInv, PlacesInv, InPlace, ServantPlaces, Asking,
       WritesInv
  <2> QED
    BY <1>3, <2>2 DEF Step, StopSet, Count, Load, Store, Add, First, Copy, Assign, Read, Rename,
       Requested, Decrement, Subtract, Test, PutBack, Remove, Delete, Fire, SetNone
<1> QED
  BY <1>1, <1>2, <1>3

(* In such a run no request and no restore of main raises, unless late.    *)
LEMMA NothingRaised ==
    ASSUME IInv, scenario.writes = 0, ~late
    PROVE  /\ \A t \in Requesters : pc[t] \in Replacing => controlDict
           /\ pc["main"] \in {"decrement", "subtract"} \cup Ending => counter \in Int
           /\ pc["main"] = "subtract" => loaded["main"] = counter
           /\ pc["main"] \in {"putBack", "remove"} => backup # NoFile
           /\ phase = "stopHandle" /\ OwesRestore => controlDict
<1>1. \A t \in Requesters : pc[t] \in Replacing => controlDict
  BY DEF IInv, StopsInv, OpenInv
<1>2. pc["main"] \in {"decrement", "subtract"} => counter \in Int
  <2>1. /\ "main" \in Threads
        /\ pc["main"] \in {"decrement", "subtract"} => Owes("main")
    BY DEF Threads, Owes
  <2> QED
    BY <2>1, DueType DEF IInv, CountInv, Counted
<1>3. pc["main"] \in Ending => counter \in Int
  BY DEF IInv, StopsInv, FoundInv
<1>4. ASSUME pc["main"] \in {"putBack", "remove"} PROVE backup # NoFile
  <2>1. phase = "triggers"
    BY <1>4 DEF IInv, PlacesInv, InPlace, Threads, Restoring
  <2>2. \A t \in Requesters : pc[t] # "copy"
    BY <2>1, OnlyMain DEF Opening
  <2> QED
    BY <1>3, <1>4, <2>2 DEF Ending, IInv, StopsInv, FoundInv
<1>5. ASSUME phase = "stopHandle", OwesRestore PROVE controlDict
  BY <1>5, OnlyMain, Todos DEF IInv, StopsInv, OpenInv, OwesRestore
<1>6. pc["main"] = "subtract" => loaded["main"] = counter
  BY DEF IInv, MeantInv, Requesters
<1> QED
  BY <1>1, <1>2, <1>3, <1>4, <1>5, <1>6

(* Once the entry is there it stays until main gives the last one back:    *)
(* who adds to a count that it has loaded finds it.                        *)
LEMMA AddsToCount ==
    ASSUME IInv, scenario.writes = 0, ~late, NEW t \in Requesters, pc[t] = "add"
    PROVE  counter \in Int
  BY DEF IInv, MeantInv

(* Every step keeps what the requests to stop have found.                  *)
LEMMA FoundStep ==
    ASSUME IInv, [Next]_vars, scenario.writes = 0
    PROVE  FoundInv'
<1> USE DEF fileVars, runnerVars, threadVars, mainVars, pollVars, solverVars, countVars, otherVars
<1> SUFFICES ASSUME ~late'
             PROVE  FoundInv'
  BY DEF FoundInv
<1>0. /\ scenario' = scenario /\ FoundInv /\ TypeOK /\ WritesInv /\ ListsInv /\ PlacesInv
      /\ ~late /\ NoEntry \notin Int
  BY History, NoValueAssumption DEF IInv, StopsInv
<1> "main" \in Requesters /\ Timers \subseteq Threads /\ Requesters \subseteq Threads
  BY DEF Threads, Requesters
<1>12. ASSUME UNCHANGED <<backup, counter>>, phase' # "raised", NEW t \in Requesters,
              \A u \in Threads : u # t => pc'[u] = pc[u],
              pc[t] # "copy", pc[t] # "delete" \/ t # "main", pc'[t] \notin Ending
       PROVE  FoundInv'
  BY <1>0, <1>12 DEF FoundInv, Ending
<1>13. ASSUME UNCHANGED <<backup, counter, pc>>, phase' # "raised"
       PROVE  FoundInv'
  BY <1>0, <1>13 DEF FoundInv
<1>16. phase # "raised"
  BY <1>0 DEF FoundInv
<1>1. ASSUME NEW t \in Requesters, NEW r \in StopRequests, BeginStop(t, r)
      PROVE  FoundInv'
  <2>1. pc' = pc \/ Begin(t, "stopSet", StopTodo)
    BY <1>1 DEF BeginStop, StopTodo
  <2>2. UNCHANGED <<backup, counter, phase>> /\ pc[t] = "idle"
    BY <1>1 DEF BeginStop, Accepts
  <2> QED
    BY <1>0, <2>1, <2>2, <1>12, <1>13, <1>16, Begins DEF Ending
<1>2. ASSUME NEW t \in Requesters, BeginWrite(t)
      PROVE  FoundInv'
  BY <1>0, <1>2, WriteSlots
<1>3. ASSUME NEW t \in Threads, Step(t)
      PROVE  FoundInv'
  <2>1. t \in Requesters /\ (phase \notin {"loop", "raised"} => t = "main")
    BY <1>0, <1>3, NoTimers, OnlyMain
  <2>2. \A u \in Threads : u # t => pc'[u] = pc[u]
    BY <1>0, <1>3, Alone
  <2>3. pc["main"] \in Restoring => t = "main"
    BY <1>0, <1>16, <2>1 DEF PlacesInv, InPlace, Restoring
  <2>4. pc[t] \in Restoring => t = "main"
    BY <1>0, <2>1, Kinds DEF PlacesInv, InPlace, ServantPlaces, Asking, Restoring,
       Opening, Replacing
  <2>5. phase' # "raised"
    <3>1. CASE Read(t)
      BY <1>0, <1>16, <2>1, <3>1, NothingRaised DEF Read, Replacing, NoRaise
    <3>2. CASE Decrement(t) \/ Test(t) \/ PutBack(t) \/ Delete(t)
      BY <1>0, <1>16, <2>4, <3>2, NothingRaised DEF Decrement, Test, PutBack, Delete,
         NoRaise, Restoring, Ending
    <3> QED
      BY <1>3, <1>16, <3>1, <3>2 DEF Step, NoRaise, StopSet, Count, Load, Store, Add, First, Copy,
         Assign, Read, Rename, Requested, Decrement, Subtract, Test, PutBack, Remove, Delete, Fire, SetNone
  <2>6. pc'["main"] \in Ending => counter' \in Int
    <3>1. CASE t = "main"
      <4>1. CASE Subtract(t)
        BY <1>0, <3>1, <4>1, NothingRaised, Storing DEF Subtract
      <4>2. CASE ~Subtract(t)
        BY <1>0, <1>3, <3>1, <4>2, NothingRaised, Goes, Raised DEF Ending, TypeOK, Step,
           NoRaise, AfterRestore, StopSet, Count, Load, Store, Add, First, Copy,
           Assign, Read, Rename, Requested, Decrement, Test, PutBack, Remove, Delete,
           Fire, SetNone
      <4> QED
        BY <4>1, <4>2
    <3>2. CASE t # "main"
      BY <1>0, <2>2, <2>3, <3>2 DEF FoundInv, Ending, Restoring
    <3> QED
      BY <3>1, <3>2
  <2>7. \/ counter' \notin Int \/ backup' # NoFile \/ pc'["main"] = "delete"
        \/ \E u \in Requesters : pc'[u] = "copy"
    <3>1. CASE First(t)
      BY <1>0, <2>1, <3>1, Goes DEF First
    <3>2. CASE Copy(t)
      BY <1>0, <3>2, NoValueAssumption DEF Copy, TypeOK
    <3>3. CASE Remove(t)
      BY <1>0, <2>4, <3>3, Goes DEF Remove, Restoring
    <3>5. CASE Delete(t)
      BY <1>0, <2>4, <3>5, NothingRaised DEF Delete, Restoring, Ending
    <3>4. CASE ~First(t) /\ ~Copy(t) /\ ~Remove(t) /\ ~Delete(t)
      <4>1. /\ pc[t] # "copy" /\ backup' = backup /\ (t = "main" => pc[t] # "delete")
            /\ counter' = counter \/ Add(t) \/ Subtract(t)
        BY <1>0, <1>3, <3>4 DEF TypeOK, Step, StopSet, Count, Load, Store, Add,
           First, Copy, Assign, Read, Rename, Requested, Decrement, Subtract,
           Test, PutBack, Remove, Delete, Fire, SetNone
      <4>2. counter \in Int => \/ backup' # NoFile
                               \/ pc'["main"] = "delete"
                               \/ \E u \in Requesters : pc'[u] = "copy"
        BY <1>0, <2>2, <4>1 DEF FoundInv
      <4>3. CASE counter' = counter
        BY <4>2, <4>3
      <4>4. CASE Add(t)
        <5>1. counter \in Int
          BY <1>0, <2>1, <4>4, AddsToCount DEF Add
        <5> QED
          BY <4>2, <5>1
      <4>5. CASE Subtract(t)
        <5>1. counter \in Int
          BY <1>0, <2>4, <4>5, NothingRaised DEF Subtract, Restoring
        <5> QED
          BY <4>2, <5>1
      <4> QED
        BY <4>1, <4>3, <4>4, <4>5
    <3> QED
      BY <3>1, <3>2, <3>3, <3>4, <3>5
  <2>8. pc'["main"] = "delete" => backup' = NoFile
    <3>1. CASE t = "main"
      <4>1. CASE Remove(t)
        BY <4>1 DEF Remove
      <4>2. CASE ~Remove(t)
        BY <1>0, <1>3, <3>1, <4>2, Goes, Raised DEF Step, AfterRestore, StopSet,
           Count, Add, First, Copy, Assign, Read, Rename, Requested, Decrement,
           Subtract, Test, PutBack, Delete, Fire, SetNone
      <4> QED
        BY <4>1, <4>2
    <3>2. CASE t # "main"
      BY <1>0, <2>2, <2>3, <3>2 DEF FoundInv, Ending, Restoring
    <3> QED
      BY <3>1, <3>2
  <2> QED
    BY <2>5, <2>6, <2>7, <2>8 DEF FoundInv
<1>4. CASE HandleLine
  BY <1>0, <1>4, <1>13 DEF HandleLine, WritesInv
<1>20. CASE StartTimer
  BY <1>0, <1>20 DEF StartTimer, WritesInv
<1>21. CASE ResetRequest
  BY <1>0, <1>21 DEF ResetRequest, WritesInv
<1>5. CASE EndOfOutput
  BY <1>5, <1>13 DEF EndOfOutput
<1>6. CASE StopHandle
  <2>1. /\ pc' = pc \/ Goto("main", "decrement")
        /\ phase' = "triggers" /\ UNCHANGED <<backup, counter>>
    BY <1>0, <1>6, NothingRaised DEF StopHandle
  <2>2. pc["main"] # "copy"
    BY <1>0, <1>6, OnlyMain DEF StopHandle, Opening
  <2>3. pc["main"] # "delete"
    BY <1>0, <1>6 DEF StopHandle, PlacesInv, InPlace, Restoring
  <2> QED
    BY <1>0, <2>1, <2>2, <2>3, <1>12, <1>13, Goes DEF Ending
<1>7. CASE EndTriggers
  <2>1. pc' = pc \/ Goto("main", "decrement")
    BY <1>7 DEF EndTriggers, NextTrigger
  <2>2. phase' # "raised" /\ UNCHANGED <<backup, counter>> /\ pc["main"] = "idle"
    BY <1>7 DEF EndTriggers, NextTrigger
  <2> QED
    BY <1>0, <2>1, <2>2, <1>12, <1>13, Goes DEF Ending
<1>8. CASE StopTimer
  BY <1>8, <1>13, <1>16 DEF StopTimer
<1>9. CASE Reread
  BY <1>9, <1>13, <1>16 DEF Reread
<1>10. ASSUME NEW obeys \in BOOLEAN, SolverEnds(obeys)
       PROVE  FoundInv'
  BY <1>10, <1>13, <1>16 DEF SolverEnds
<1>11. CASE UNCHANGED vars
  BY <1>11, <1>13, <1>16 DEF vars
<1> QED
  BY <1>1, <1>2, <1>3, <1>4, <1>5, <1>6, <1>7, <1>8, <1>9, <1>10, <1>11, <1>20, <1>21
  DEF Next, Main

(* Every step keeps what the requests to stop rely on.                     *)
LEMMA StopsStep ==
    ASSUME IInv, [Next]_vars
    PROVE  StopsInv'
  BY History, OpenStep, FoundStep DEF StopsInv, IInv

(* How what is due changes where one thread moves.                         *)
LEMMA BitOf ==
    ASSUME NEW b
    PROVE  Bit(b) \in {0, 1} /\ (b => Bit(b) = 1) /\ (~b => Bit(b) = 0)
  BY DEF Bit

(* What is due changes with its parts.                                     *)
LEMMA DueChange ==
    ASSUME TypeOK, NEW t \in Threads, triggersLeft' = triggersLeft,
           \A u \in Threads : u # t => (Owes(u)' <=> Owes(u))
    PROVE  /\ Due \in Nat /\ Due' \in Int
           /\ Due' = Due + (Bit(Owes(t))' - Bit(Owes(t)))
                         + (Bit(Pending)' - Bit(Pending))
                         + (Bit(StopOwed)' - Bit(StopOwed))
<1>2. /\ Bit(Pending) \in {0, 1} /\ Bit(Pending)' \in {0, 1}
      /\ Bit(StopOwed) \in {0, 1} /\ Bit(StopOwed)' \in {0, 1}
      /\ Bit(Owes(t)) \in {0, 1} /\ Bit(Owes(t))' \in {0, 1}
  BY BitOf
<1>3. /\ Debts \in Nat /\ Debts' \in Nat
      /\ Debts' = Debts + Bit(Owes(t))' - Bit(Owes(t))
  BY OneDebtor
<1>4. triggersLeft \in Nat
  BY DueType
<1>5. Due = triggersLeft + Debts + Bit(Pending) + Bit(StopOwed)
  BY DEF Due
<1>6. Due' = triggersLeft' + Debts' + Bit(Pending)' + Bit(StopOwed)'
  BY DEF Due
<1>7. triggersLeft' \in Nat
  BY <1>4
<1> QED
  BY <1>2, <1>3, <1>4, <1>5, <1>6, <1>7

(* Nobody owes: the debts are zero.                                        *)
LEMMA NoDebts ==
    ASSUME TypeOK, \A u \in Threads : ~Owes(u)
    PROVE  Debts = 0
<1>1. {u \in Threads : Owes(u)} = {}
  OBVIOUS
<1> QED
  BY <1>1, FS_EmptySet DEF Debts

(* With requests to stop only, nobody but main owes a restore.             *)
LEMMA OnlyMainOwes ==
    ASSUME IInv, scenario.writes = 0
    PROVE  /\ ~Pending
           /\ \A u \in Threads : u # "main" => ~Owes(u)
           /\ Owes("main") => pc["main"] \in {"decrement", "subtract"}
<1> "main" \in Requesters /\ Requesters \subseteq Threads
  BY DEF Threads, Requesters
<1>1. ~Pending
  BY DEF IInv, WritesInv, Pending
<1>2. \A u \in Timers : ~Owes(u)
  BY Kinds DEF IInv, WritesInv, Owes
<1>3. \A u \in Requesters : pc[u] \notin {"decrement", "subtract"} => ~Owes(u)
  <2>1. ASSUME NEW u \in Requesters, pc[u] \notin {"decrement", "subtract"}
        PROVE  ~Owes(u)
    <3>1. u \in Threads /\ todo[u] \in {<<>>, StopTodo} /\ pc[u] # "requested"
      BY DEF IInv, WritesInv, Threads
    <3>2. pc[u] # "waiting"
      BY <3>1, Kinds DEF IInv, PlacesInv, InPlace, Opening, Replacing, Asking,
         MainPlaces, ServantPlaces, Restoring
    <3>3. pc[u] \in {"assign", "read", "rename"} => todo[u] = StopTodo
      BY <3>1, Todos DEF IInv, ListsInv, HasList, Opening, Replacing
    <3> QED
      BY <2>1, <3>1, <3>2, <3>3 DEF Owes
  <2> QED
    BY <2>1
<1>4. \A u \in {"poller", "server"} : pc[u] \notin {"decrement", "subtract"}
  BY DEF IInv, PlacesInv, InPlace, Opening, Replacing, Asking, ServantPlaces,
     Threads, Requesters
<1> QED
  BY <1>1, <1>2, <1>3, <1>4, Kinds

(* While main reads the output, nobody does.                               *)
LEMMA NoneOwes ==
    ASSUME IInv, scenario.writes = 0, phase = "loop"
    PROVE  ~Pending /\ Debts = 0 /\ \A u \in Threads : ~Owes(u)
<1>1. pc["main"] \notin {"decrement", "subtract"}
  BY DEF IInv, PlacesInv, InPlace, Threads, Restoring
<1>2. ~Pending /\ \A u \in Threads : ~Owes(u)
  BY <1>1, OnlyMainOwes
<1> QED
  BY <1>2, NoDebts DEF IInv

(* What a step does to the count, it does to what is due: the restores to  *)
(* come become fewer before the count does, and more after it.  In order   *)
(* they change together.  Requests to stop alone may lose an update, and   *)
(* still leave enough.                                                     *)
Settled ==
    \/ counter' = counter /\ Due' <= Due /\ (InOrder' => Due' = Due)
    \/ /\ counter \in Int /\ counter' = counter + 1
       /\ Due' <= Due + 1 /\ (InOrder' => Due' = Due + 1)
    \/ /\ counter \in Int /\ counter' \in Int /\ counter' >= Due'
       /\ InOrder' => counter' = counter + 1 /\ Due' = Due + 1
    \/ counter \in Int /\ counter' = counter - 1 /\ Due' = Due - 1
    \/ counter' = 1 /\ Due' <= 1 /\ (InOrder' => Due' = 1)
    \/ counter' = NoEntry /\ Due' = 0

(* A thread about to make the first copy does so for the first request,    *)
(* and main puts the copy back when nothing else is due.                   *)
LEMMA FirstDue ==
    ASSUME IInv, Counted, NEW t \in Requesters,
           pc[t] \in {"first", "putBack", "remove", "delete"}
    PROVE  /\ scenario.writes = 0 /\ triggersLeft = 0 /\ ~Pending
           /\ Debts = 0 /\ \A u \in Threads : ~Owes(u)
           /\ pc[t] = "first" => phase = "loop"
           /\ pc[t] # "first" => t = "main" /\ phase = "triggers"
<1>1. t \in Threads
  BY DEF Threads
<1>2. scenario.writes = 0 /\ triggersLeft = 0
  <2>1. ~(triggersLeft > 0)
    BY <1>1 DEF IInv, KeptInv
  <2> QED
    BY <2>1, DueType DEF Counted, IInv
<1>3. pc[t] # "first" => t = "main" /\ phase = "triggers"
  BY <1>1, Kinds DEF IInv, PlacesInv, InPlace, Opening, Replacing, Asking,
     ServantPlaces, Restoring
<1>4. pc[t] = "first" => phase \in {"loop", "raised"}
  BY <1>2, OnlyMain DEF Counted, Opening
<1>5. phase # "raised"
  BY <1>2 DEF IInv, StopsInv, FoundInv, Counted
<1>6. phase = "loop" => pc["main"] \notin {"decrement", "subtract"}
  BY DEF IInv, PlacesInv, InPlace, Threads, Restoring
<1>7. ~Pending /\ \A u \in Threads : ~Owes(u)
  BY <1>2, <1>3, <1>4, <1>5, <1>6, OnlyMainOwes
<1> QED
  BY <1>2, <1>3, <1>4, <1>5, <1>7, NoDebts DEF IInv

(* In order nobody else asks for a stop.                                   *)
LEMMA OneStopper ==
    ASSUME IInv, InOrder, NEW t \in Requesters, pc[t] \in Opening \cup Replacing
    PROVE  /\ stopMe /\ phase = "loop" /\ todo[t] = StopTodo
           /\ ~isRestarted => \A u \in Requesters : u # t => todo[u] # StopTodo
<1>1. t \in Threads /\ scenario.writes = 0
  BY DEF Threads, InOrder
<1>2. todo[t] = StopTodo /\ pc[t] # "stopSet"
  BY <1>1, Todos DEF IInv, WritesInv, ListsInv, HasList, Opening, Replacing
<1>3. phase \in {"loop", "raised"}
  BY <1>1, OnlyMain DEF InOrder
<1>4. phase # "raised"
  BY <1>1 DEF InOrder, IInv, StopsInv, FoundInv
<1> QED
  BY <1>2, <1>3, <1>4 DEF IInv, ExactInv, StopperInv

(* What a step does to the restores to come it does to the count.          *)
LEMMA DueStep ==
    ASSUME IInv, [Next]_vars, Counted'
    PROVE  Settled
<1> USE DEF fileVars, runnerVars, threadVars, mainVars, pollVars, solverVars, countVars, otherVars
<1>0. /\ scenario' = scenario /\ TypeOK /\ WritesInv /\ ListsInv /\ PlacesInv
      /\ ~late /\ Counted /\ (InOrder' => InOrder)
      /\ (isRestarted' <=> isRestarted)
      /\ (scenario.writes # 0 => ~lost')
  BY History, LoadStep DEF IInv, Counted, InOrder, isRestarted, TypeOK
<1> "main" \in Requesters /\ Timers \subseteq Threads /\ Requesters \subseteq Threads
  BY DEF Threads, Requesters
<1>12. ASSUME NEW t \in Threads, \A u \in Threads : u # t => (Owes(u)' <=> Owes(u)),
              Owes(t)' <=> Owes(t), triggersLeft' = triggersLeft, counter' = counter,
              Pending' <=> Pending, StopOwed' <=> StopOwed
       PROVE  Settled
  <2>1. /\ Bit(Owes(t))' = Bit(Owes(t)) /\ Bit(Pending)' = Bit(Pending)
        /\ Bit(StopOwed)' = Bit(StopOwed)
        /\ Bit(Owes(t)) \in {0, 1} /\ Bit(Pending) \in {0, 1} /\ Bit(StopOwed) \in {0, 1}
    BY <1>12, BitOf
  <2> QED
    BY <1>0, <1>12, <2>1, DueChange DEF Settled
<1>13. ASSUME UNCHANGED <<pc, todo, timerArg, triggersLeft, counter, writeRequested, stopMe>>,
              phase' = phase \/ (phase = "loop" /\ phase' = "stopHandle")
       PROVE  Settled
  <2>1. \A u \in Threads : Owes(u)' <=> Owes(u)
    BY <1>13 DEF Owes
  <2>2. (StopOwed' <=> StopOwed) /\ (Pending' <=> Pending)
    BY <1>0, <1>13 DEF StopOwed, Early, Pending
  <2> QED
    BY <1>12, <1>13, <2>1, <2>2
<1>15. /\ triggersLeft \in Nat /\ Debts \in Nat /\ Bit(Pending) \in {0, 1}
       /\ Bit(StopOwed) \in {0, 1} /\ Bit(StopOwed)' \in {0, 1}
  BY <1>0, DueType, BitOf
<1>16. /\ Due = triggersLeft + Debts + Bit(Pending) + Bit(StopOwed)
       /\ Due' = triggersLeft' + Debts' + Bit(Pending)' + Bit(StopOwed)'
  BY DEF Due
<1>1. ASSUME NEW t \in Requesters, NEW r \in StopRequests, BeginStop(t, r)
      PROVE  Settled
  <2>1. CASE UNCHANGED <<pc, todo>>
    BY <1>1, <2>1, <1>13 DEF BeginStop
  <2>2. CASE Begin(t, "stopSet", StopTodo) /\ ~stopMe
    <3>1. pc[t] = "idle" /\ UNCHANGED <<timerArg, triggersLeft, counter, writeRequested, stopMe, phase>>
      BY <1>1 DEF BeginStop, Accepts
    <3>2. /\ \A u \in Threads : u # t => (Owes(u)' <=> Owes(u))
          /\ Owes(t)' <=> Owes(t)
      BY <1>0, <2>2, <3>1, Begins DEF Owes
    <3>3. StopOwed' <=> StopOwed
      BY <1>0, <2>2, <3>1 DEF StopOwed
    <3>4. Pending' <=> Pending
      BY <1>0, <2>2, <3>1, Begins DEF Pending
    <3> QED
      BY <1>12, <3>1, <3>2, <3>3, <3>4
  <2> QED
    BY <1>1, <2>1, <2>2 DEF BeginStop, StopTodo
<1>2. ASSUME NEW t \in Requesters, BeginWrite(t)
      PROVE  Settled
  <2>1. ~isRestarted
    BY <1>0, <1>2, WriteSlots DEF Counted
  <2>2. Begin(t, "count", WriteTodo) /\ pc[t] = "idle"
        /\ UNCHANGED <<timerArg, triggersLeft, counter, writeRequested, stopMe, phase>>
    BY <1>2, <2>1 DEF BeginWrite, Accepts, WriteTodo
  <2>3. /\ \A u \in Threads : u # t => (Owes(u)' <=> Owes(u))
        /\ Owes(t)' <=> Owes(t)
    BY <1>0, <2>2, Begins DEF Owes
  <2>4. \A u \in Requesters : Early(u)' <=> Early(u)
    BY <1>0, <2>2, Begins, Todos DEF Early
  <2>5. (StopOwed' <=> StopOwed) /\ (Pending' <=> Pending)
    BY <1>0, <2>2, <2>4, Begins DEF StopOwed, Pending
  <2> QED
    BY <1>12, <2>2, <2>3, <2>5
<1>3. ASSUME NEW t \in Threads, Step(t)
      PROVE  Settled
  <2>20. UNCHANGED <<timerArg, triggersLeft>>
    BY <1>3 DEF Step
  <2>21. \A u \in Threads : u # t => pc'[u] = pc[u] /\ todo'[u] = todo[u]
    BY <1>0, <1>3, Alone
  <2>22. \A u \in Threads : u # t => (Owes(u)' <=> Owes(u))
    BY <2>20, <2>21 DEF Owes
  <2>23. \A u \in Requesters : u # t => (Early(u)' <=> Early(u))
    BY <2>21 DEF Early
  <2>24. /\ Due \in Nat /\ Due' \in Int
         /\ Due' = Due + (Bit(Owes(t))' - Bit(Owes(t)))
                       + (Bit(Pending)' - Bit(Pending))
                       + (Bit(StopOwed)' - Bit(StopOwed))
    BY <1>0, <2>20, <2>22, DueChange
  <2>25. /\ Bit(Owes(t)) \in {0, 1} /\ Bit(Owes(t))' \in {0, 1}
         /\ Bit(Pending) \in {0, 1} /\ Bit(Pending)' \in {0, 1}
         /\ Bit(StopOwed) \in {0, 1} /\ Bit(StopOwed)' \in {0, 1}
    BY BitOf
  <2>26. ASSUME UNCHANGED <<stopMe, phase>>, t \in Requesters => (Early(t)' <=> Early(t))
         PROVE  StopOwed' <=> StopOwed
    BY <1>0, <2>23, <2>26 DEF StopOwed
  <2>28. writeRequested' = writeRequested => (Pending' <=> Pending)
    BY <1>0, <1>3, AtReset DEF Pending
  <2>29. ASSUME NEW place, pc[t] = place,
                place \notin {"unset", "waiting", "setNone", "dead"} \cup Restoring
         PROVE  t \in Requesters
    BY <1>0, <2>29, Kinds DEF PlacesInv, InPlace, TimerPlaces
  <2>27. ASSUME counter' = counter, writeRequested' = writeRequested, Raise(t), stopMe' = stopMe,
                scenario.writes # 0, pc[t] \in {"read", "test"}
         PROVE  Settled
    <3>2. StopOwed' => StopOwed
      <4>1. phase' \in {phase, "raised"}
        BY <1>0, <2>27, Raised
      <4>2. ~Early(t) /\ ~Early(t)'
        BY <1>0, <2>27, Raised, Todos DEF Early
      <4> QED
        BY <1>0, <2>23, <2>27, <4>1, <4>2 DEF StopOwed
    <3>3. ~Owes(t)'
      BY <1>0, <2>27, Raised DEF Owes
    <3>4. Bit(Owes(t))' = 0 /\ Bit(Pending)' = Bit(Pending)
          /\ Bit(StopOwed)' <= Bit(StopOwed)
      BY <2>25, <2>27, <2>28, <3>2, <3>3, BitOf
    <3>5. ~InOrder'
      BY <1>0, <2>27 DEF InOrder
    <3> QED
      BY <2>24, <2>25, <2>27, <3>4, <3>5 DEF Settled
  <2>1. CASE StopSet(t)
    <3>1. /\ pc[t] = "stopSet" /\ todo[t] = StopTodo /\ todo' = todo /\ pc'[t] \in {"read", "count"}
          /\ ~isRestarted => pc'[t] = "count"
          /\ UNCHANGED <<counter, writeRequested, phase>>
      BY <1>0, <2>1, Goes DEF StopSet, NoRaise, ListsInv, HasList
    <3>2. t \in Requesters
      BY <3>1, Kinds, <1>0 DEF PlacesInv, InPlace, TimerPlaces, Restoring
    <3>3. ~Owes(t) /\ ~Owes(t)'
      BY <3>1 DEF Owes
    <3>4. StopOwed' <=> StopOwed
      BY <1>0, <3>1, <3>2 DEF StopOwed, Early
    <3> QED
      BY <1>12, <2>20, <2>22, <2>28, <3>1, <3>3, <3>4
  <2>2. CASE Count(t)
    <3>1. /\ pc[t] = "count" /\ todo' = todo
          /\ UNCHANGED <<writeRequested, stopMe, phase, counter>>
      BY <2>2 DEF Count, NoRaise
    <3>2. pc'[t] \in {"first", "add"}
      BY <1>0, <2>2, Goes DEF Count
    <3>3. ~Owes(t) /\ ~Owes(t)' /\ (Early(t)' <=> Early(t))
      BY <3>1, <3>2 DEF Owes, Early
    <3> QED
      BY <1>12, <2>20, <2>22, <2>26, <2>28, <3>1, <3>3
  <2>15. CASE Add(t)
    <3>1. /\ pc[t] = "add" /\ pc'[t] = "assign" /\ todo' = todo /\ ~isRestarted
          /\ todo[t] \in {StopTodo, WriteTodo} /\ loaded[t] \in Int
          /\ UNCHANGED <<writeRequested, stopMe, phase>>
      BY <1>0, <2>15, Goes DEF Add, NoRaise, ListsInv, HasList, Opening, IInv, LoadInv
    <3>2. t \in Requesters
      BY <2>29, <3>1 DEF Restoring
    <3>3. /\ counter' = loaded[t] + 1
          /\ ~lost' => counter = loaded[t]
      BY <1>0, <2>15, Storing DEF Add
    <3>4. ~Owes(t) /\ (Owes(t)' <=> todo[t] # StopTodo)
      BY <3>1, Todos DEF Owes
    <3>5. todo[t] = StopTodo => ~StopOwed
      BY <3>1, <3>2 DEF StopOwed, Early
    <3>6. todo[t] # StopTodo => (StopOwed' <=> StopOwed)
      BY <2>26, <3>1 DEF Early
    <3>7. Bit(Pending)' = Bit(Pending)
      BY <2>28, <3>1, BitOf
    <3>8. Due' <= Due + 1
      <4>1. CASE todo[t] = StopTodo
        <5>1. Bit(Owes(t)) = 0 /\ Bit(Owes(t))' = 0 /\ Bit(StopOwed) = 0
          BY <3>4, <3>5, <4>1, BitOf
        <5> QED
          BY <2>24, <2>25, <3>7, <5>1
      <4>2. CASE todo[t] # StopTodo
        <5>1. Bit(Owes(t)) = 0 /\ Bit(Owes(t))' = 1 /\ Bit(StopOwed)' = Bit(StopOwed)
          BY <3>4, <3>6, <4>2, Zenon DEF Bit
        <5> QED
          BY <2>24, <2>25, <3>7, <5>1
      <4> QED
        BY <4>1, <4>2
    <3>9. CASE scenario.writes # 0
      <4>1. counter \in Int /\ counter' = counter + 1 /\ ~InOrder'
        BY <1>0, <3>1, <3>3, <3>9 DEF Counted, InOrder
      <4> QED
        BY <3>8, <4>1 DEF Settled
    <3>10. CASE scenario.writes = 0
      <4>1. /\ todo[t] = StopTodo /\ phase = "loop"
            /\ loaded[t] >= triggersLeft /\ counter \in Int
            /\ ~overlap => loaded[t] = counter
        <5>1. todo[t] = StopTodo
          BY <3>1, <3>2, <3>10, Todos DEF IInv, WritesInv
        <5>2. phase \in {"loop", "raised"}
          BY <1>0, <3>1, <3>2, <3>10, OnlyMain DEF Opening
        <5>3. phase # "raised"
          BY <1>0, <3>10 DEF IInv, StopsInv, FoundInv
        <5> QED
          BY <1>0, <3>1, <3>2, <3>10, <5>1, <5>2, <5>3 DEF IInv, MeantInv
      <4>2. Due = triggersLeft
        <5>1. Debts = 0 /\ ~Pending /\ ~StopOwed
          BY <3>5, <3>10, <4>1, NoneOwes
        <5> QED
          BY <1>15, <1>16, <5>1, BitOf
      <4>3. counter' \in Int /\ counter' >= Due'
        BY <1>15, <2>24, <3>1, <3>3, <3>8, <4>1, <4>2
      <4>4. ASSUME InOrder' PROVE counter' = counter + 1 /\ Due' = Due + 1
        <5>1. StopOwed'
          BY <1>0, <2>21, <3>1, <3>2, <4>4, OneStopper DEF StopOwed, Early, Opening
        <5>2. Bit(Owes(t)) = 0 /\ Bit(Owes(t))' = 0 /\ Bit(StopOwed) = 0 /\ Bit(StopOwed)' = 1
          <6>1. ~Owes(t) /\ ~Owes(t)' /\ ~StopOwed /\ StopOwed'
            BY <3>4, <3>5, <4>1, <5>1
          <6> QED
            BY <6>1, Zenon DEF Bit
        <5>3. ~overlap
          BY <1>0, <4>4 DEF InOrder
        <5> QED
          BY <2>24, <2>25, <3>3, <3>7, <4>1, <5>2, <5>3
      <4> QED
        BY <4>1, <4>3, <4>4 DEF Settled
    <3> QED
      BY <3>9, <3>10
  <2>3. CASE First(t)
    <3>1. /\ pc[t] = "first" /\ pc'[t] = "copy" /\ counter' = 1
          /\ UNCHANGED <<writeRequested, phase, stopMe, todo>> /\ ~isRestarted
      BY <1>0, <2>3, Goes, Storing DEF First, NoRaise, ListsInv, HasList, Opening
    <3>2. t \in Requesters
      BY <3>1, Kinds, <1>0 DEF PlacesInv, InPlace, TimerPlaces, Restoring
    <3>3. ~Owes(t)' /\ ~Owes(t)
      BY <3>1 DEF Owes
    <3>4. Debts = 0 /\ triggersLeft = 0 /\ ~Pending
      BY <1>0, <3>1, <3>2, FirstDue
    <3>5. Due = Bit(StopOwed)
      BY <1>15, <1>16, <3>4, <2>25, BitOf
    <3>6. InOrder' => StopOwed'
      BY <1>0, <2>21, <3>1, <3>2, OneStopper DEF StopOwed, Early, Opening
    <3>7. /\ Bit(Owes(t)) = 0 /\ Bit(Owes(t))' = 0
          /\ Bit(Pending)' = Bit(Pending)
          /\ InOrder' => Bit(StopOwed)' = 1
      BY <2>28, <3>1, <3>3, <3>6, BitOf
    <3> QED
      <4>3. /\ Bit(Owes(t))' - Bit(Owes(t)) = 0
            /\ Bit(Pending)' - Bit(Pending) = 0
        BY <2>25, <3>7
      <4>1. Due' = Bit(StopOwed)'
        BY <2>24, <2>25, <3>5, <4>3
      <4>2. Due' <= 1 /\ (InOrder' => Due' = 1)
        BY <2>25, <3>7, <4>1
      <4> QED
        BY <3>1, <4>2 DEF Settled
  <2>4. CASE Copy(t)
    <3>1. /\ pc[t] = "copy" /\ pc'[t] = "assign"
          /\ UNCHANGED <<writeRequested, phase, stopMe, todo, counter>>
      BY <1>0, <2>4, Goes DEF Copy, NoRaise
    <3>2. t \in Requesters
      BY <3>1, Kinds, <1>0 DEF PlacesInv, InPlace, TimerPlaces, Restoring
    <3>3. scenario.writes = 0
      BY <1>0, <3>1, <3>2, DueType DEF IInv, KeptInv, Counted
    <3>4. todo[t] = StopTodo
      BY <1>0, <3>1, <3>2, <3>3, Todos DEF WritesInv, ListsInv, HasList, Opening
    <3>5. ~Owes(t)' /\ ~Owes(t) /\ (Early(t)' <=> Early(t))
      BY <3>1, <3>4 DEF Owes, Early
    <3> QED
      BY <1>12, <2>20, <2>22, <2>26, <2>28, <3>1, <3>5
  <2>5. CASE Assign(t)
    <3>1. /\ pc[t] = "assign" /\ pc'[t] = "read"
          /\ UNCHANGED <<writeRequested, phase, stopMe, todo, counter>>
      BY <1>0, <2>5, Goes DEF Assign, NoRaise
    <3>2. (Owes(t)' <=> Owes(t)) /\ (Early(t)' <=> Early(t))
      BY <3>1 DEF Owes, Early
    <3> QED
      BY <1>12, <2>20, <2>22, <2>26, <2>28, <3>1, <3>2
  <2>6. CASE Read(t)
    <3>1. pc[t] = "read" /\ UNCHANGED <<writeRequested, stopMe, counter>>
      BY <2>6 DEF Read
    <3>2. t \in Requesters
      BY <3>1, Kinds, <1>0 DEF PlacesInv, InPlace, TimerPlaces, Restoring
    <3>3. CASE controlDict
      <4>1. pc'[t] = "rename" /\ UNCHANGED <<todo, phase>>
        BY <1>0, <2>6, <3>3, Goes DEF Read, NoRaise
      <4>2. (Owes(t)' <=> Owes(t)) /\ (Early(t)' <=> Early(t))
        BY <3>1, <4>1 DEF Owes, Early
      <4> QED
        BY <1>12, <2>20, <2>22, <2>26, <2>28, <3>1, <4>1, <4>2
    <3>4. CASE ~controlDict
      <4>1. Raise(t) /\ scenario.writes # 0
        BY <1>0, <2>6, <3>1, <3>2, <3>4, NothingRaised DEF Read, Replacing
      <4> QED
        BY <3>1, <4>1, <2>27
    <3> QED
      BY <3>3, <3>4
  <2>7. CASE Rename(t)
    <3>1. /\ pc[t] = "rename" /\ todo[t] \in {StopTodo, WriteTodo, LastTodo}
          /\ todo'[t] = Tail(todo[t])
          /\ UNCHANGED <<writeRequested, phase, stopMe, counter>>
      BY <1>0, <2>7 DEF Rename, TypeOK, ListsInv, HasList, Replacing
    <3>2. /\ todo[t] = WriteTodo => pc'[t] = "read" /\ todo'[t] = LastTodo
          /\ todo[t] = LastTodo => pc'[t] = "requested"
          /\ todo[t] = StopTodo => pc'[t] = "idle"
      <4>1. pc'[t] = (CASE Len(todo[t]) > 1 -> "read"
                        [] Writing(t) /\ Len(todo[t]) = 1 -> "requested"
                        [] OTHER -> "idle")
        BY <1>0, <2>7, Goes DEF Rename
      <4>2. todo[t] = LastTodo => Writing(t)
        BY Todos DEF Writing, Busy, StopTodo
      <4>3. todo[t] = StopTodo => ~Writing(t)
        BY DEF Writing, StopTodo
      <4> QED
        BY <3>1, <4>1, <4>2, <4>3, Todos
    <3>3. (Owes(t)' <=> Owes(t)) /\ (Early(t)' <=> Early(t))
      BY <3>1, <3>2, Todos DEF Owes, Early
    <3> QED
      BY <1>12, <2>20, <2>22, <2>26, <2>28, <3>1, <3>3
  <2>8. CASE Requested(t)
    <3>1. /\ pc[t] = "requested" /\ pc'[t] = "idle" /\ writeRequested'
          /\ UNCHANGED <<todo, phase, stopMe, counter>>
      BY <1>0, <2>8, Goes DEF Requested, NoRaise
    <3>2. t \in Requesters
      BY <3>1, Kinds, <1>0 DEF PlacesInv, InPlace, TimerPlaces, Restoring
    <3>3. Owes(t) /\ ~Owes(t)' /\ (Early(t)' <=> Early(t))
      BY <3>1 DEF Owes, Early
    <3>4. StopOwed' <=> StopOwed
      BY <2>26, <3>1, <3>3
    <3>5. ~InOrder'
      BY <1>0, <3>1, <3>2 DEF InOrder, WritesInv
    <3>6. Bit(Owes(t)) = 1 /\ Bit(Owes(t))' = 0
      BY <3>3, Zenon DEF Bit
    <3>7. Bit(StopOwed)' = Bit(StopOwed)
      BY <3>4, Zenon DEF Bit
    <3>8. Due' <= Due
      BY <2>24, <2>25, <3>6, <3>7
    <3> QED
      BY <3>1, <3>5, <3>8 DEF Settled
  <2>9. CASE Decrement(t)
    <3>1. pc[t] = "decrement" /\ Owes(t)
      BY <2>9 DEF Decrement, Owes
    <3>2. counter \in Int
      BY <1>0, <3>1, DueType DEF IInv, CountInv
    <3>3. /\ counter' = counter /\ pc'[t] = "subtract"
          /\ UNCHANGED <<todo, phase, stopMe, writeRequested>>
      BY <1>0, <2>9, <3>2, Goes, NoValueAssumption DEF Decrement, NoRaise
    <3>4. Owes(t)' /\ (Early(t)' <=> Early(t))
      BY <3>1, <3>3 DEF Owes, Early
    <3> QED
      BY <1>12, <2>20, <2>22, <2>26, <2>28, <3>1, <3>3, <3>4
  <2>16. CASE Subtract(t)
    <3>1. pc[t] = "subtract" /\ Owes(t)
      BY <2>16 DEF Subtract, Owes
    <3>2. /\ pc'[t] = "test" /\ counter' = loaded[t] - 1
          /\ ~lost' => counter = loaded[t]
          /\ UNCHANGED <<todo, phase, stopMe, writeRequested>>
      BY <1>0, <2>16, Goes, Storing DEF Subtract, NoRaise
    <3>3. counter = loaded[t]
      <4>1. CASE scenario.writes # 0
        BY <1>0, <3>2, <4>1 DEF Counted
      <4>2. CASE scenario.writes = 0
        BY <1>0, <1>3, <3>1, <4>2, NoTimers DEF IInv, MeantInv
      <4> QED
        BY <4>1, <4>2
    <3>7. counter \in Int
      BY <1>0, <3>1, DueType DEF IInv, CountInv
    <3>4. ~Owes(t)' /\ (Early(t)' <=> Early(t))
      BY <3>1, <3>2 DEF Owes, Early
    <3>5. StopOwed' <=> StopOwed
      BY <2>26, <3>2, <3>4
    <3>6. /\ Bit(Owes(t)) = 1 /\ Bit(Owes(t))' = 0 /\ Bit(StopOwed)' = Bit(StopOwed)
          /\ Bit(Pending)' = Bit(Pending)
      <4>1. Owes(t) /\ ~Owes(t)' /\ (StopOwed' <=> StopOwed) /\ (Pending' <=> Pending)
        BY <2>28, <3>1, <3>2, <3>4, <3>5
      <4> QED
        BY <4>1, Zenon DEF Bit
    <3> QED
      BY <2>24, <2>25, <3>2, <3>3, <3>6, <3>7 DEF Settled
  <2>10. CASE Test(t)
    <3>1. pc[t] = "test" /\ UNCHANGED <<counter, stopMe, writeRequested>>
      BY <2>10 DEF Test
    <3>2. CASE counter # NoEntry
      <4>1. pc'[t] \in {"putBack", "idle", "setNone"} /\ UNCHANGED <<todo, phase>>
        BY <1>0, <2>10, <3>2, Goes DEF Test, NoRaise, AfterRestore
      <4>2. ~Owes(t) /\ ~Owes(t)' /\ (Early(t)' <=> Early(t))
        BY <3>1, <4>1 DEF Owes, Early
      <4> QED
        BY <1>12, <2>20, <2>22, <2>26, <2>28, <3>1, <4>1, <4>2
    <3>3. CASE counter = NoEntry
      <4>1. Raise(t)
        BY <2>10, <3>3 DEF Test
      <4>2. scenario.writes # 0
        <5>1. ASSUME scenario.writes = 0 PROVE FALSE
          <6>1. t = "main"
            BY <1>0, <1>3, <3>1, <5>1, NoTimers, Kinds DEF PlacesInv, InPlace,
               ServantPlaces, Asking, Opening, Replacing
          <6> QED
            BY <1>0, <3>1, <3>3, <5>1, <6>1, NothingRaised, NoValueAssumption DEF Ending
        <5> QED
          BY <5>1
      <4> QED
        BY <3>1, <4>1, <4>2, <2>27
    <3> QED
      BY <3>2, <3>3
  <2>30. ASSUME pc[t] \in {"putBack", "remove", "delete"}
         PROVE  /\ scenario.writes = 0 /\ t = "main" /\ Due = 0
                /\ ~StopOwed /\ ~Owes(t) /\ ~Pending /\ phase = "triggers"
                /\ counter # NoEntry /\ (pc[t] # "delete" => backup # NoFile)
    <3>1. scenario.writes = 0
      BY <1>0, <2>30, DueType DEF IInv, KeptInv, Counted
    <3>2. t \in Requesters
      BY <1>0, <1>3, <3>1, NoTimers
    <3>3. /\ t = "main" /\ Debts = 0 /\ triggersLeft = 0 /\ ~Pending
          /\ phase = "triggers" /\ ~Owes(t)
      BY <1>0, <2>30, <3>2, FirstDue
    <3>4. ~StopOwed
      BY <3>3 DEF StopOwed
    <3>5. Due = 0
      BY <1>15, <1>16, <3>3, <3>4, BitOf
    <3> QED
      BY <1>0, <2>30, <3>1, <3>3, <3>4, <3>5, NothingRaised, NoValueAssumption DEF Ending
  <2>31. ASSUME pc[t] \in {"putBack", "remove", "delete"}, UNCHANGED <<phase, writeRequested, todo>>,
                pc'[t] \in {"remove", "delete", "idle"}
         PROVE  Due' = 0 /\ ~StopOwed' /\ ~Owes(t)'
    <3>1. ~StopOwed' /\ ~Owes(t)'
      BY <2>30, <2>31 DEF StopOwed, Owes
    <3> QED
      BY <2>24, <2>28, <2>30, <2>31, <3>1, BitOf
  <2>11. CASE PutBack(t)
    <3>1. pc[t] = "putBack" /\ UNCHANGED <<stopMe, writeRequested>>
      BY <2>11 DEF PutBack
    <3>2. counter' = counter /\ pc'[t] = "remove" /\ UNCHANGED <<todo, phase>>
      BY <1>0, <2>11, <2>30, <3>1, Goes DEF PutBack, NoRaise
    <3> QED
      BY <2>30, <2>31, <3>1, <3>2 DEF Settled
  <2>17. CASE Remove(t)
    <3>1. pc[t] = "remove" /\ UNCHANGED <<stopMe, writeRequested>>
      BY <2>17 DEF Remove
    <3>2. counter' = counter /\ pc'[t] = "delete" /\ UNCHANGED <<todo, phase>>
      BY <1>0, <2>17, Goes DEF Remove, NoRaise
    <3> QED
      BY <2>30, <2>31, <3>1, <3>2 DEF Settled
  <2>18. CASE Delete(t)
    <3>1. pc[t] = "delete" /\ UNCHANGED <<stopMe, writeRequested>>
      BY <2>18 DEF Delete
    <3>2. counter' = NoEntry /\ pc'[t] = "idle" /\ UNCHANGED <<todo, phase>>
      BY <1>0, <2>18, <2>30, <3>1, Goes DEF Delete, NoRaise, AfterRestore
    <3> QED
      BY <2>31, <3>1, <3>2 DEF Settled
  <2>12. CASE Fire(t)
    <3>1. /\ pc[t] = "waiting" /\ pc'[t] = (IF timerArg[t] THEN "decrement" ELSE "dead")
          /\ UNCHANGED <<todo, phase, stopMe, counter, writeRequested>>
      BY <1>0, <2>12, Goes DEF Fire, NoRaise
    <3>2. (Owes(t)' <=> Owes(t)) /\ (Early(t)' <=> Early(t))
      BY <3>1, <2>20 DEF Owes, Early
    <3> QED
      BY <1>12, <2>20, <2>22, <2>26, <2>28, <3>1, <3>2
  <2>13. CASE SetNone(t)
    <3>1. /\ pc[t] = "setNone" /\ pc'[t] = "dead"
          /\ UNCHANGED <<todo, phase, stopMe, counter, writeRequested>>
      BY <1>0, <2>13, Goes DEF SetNone, NoRaise
    <3>2. (Owes(t)' <=> Owes(t)) /\ (Early(t)' <=> Early(t))
      BY <3>1, <2>20 DEF Owes, Early
    <3> QED
      BY <1>12, <2>20, <2>22, <2>26, <2>28, <3>1, <3>2
  <2> QED
    BY <1>3, <2>1, <2>2, <2>3, <2>4, <2>5, <2>6, <2>7, <2>8, <2>9, <2>10, <2>11,
       <2>12, <2>13, <2>15, <2>16, <2>17, <2>18 DEF Step
<1>4. CASE HandleLine
  <2>1. UNCHANGED <<triggersLeft, counter, todo, phase, stopMe, timerArg, writeRequested>>
    BY <1>4 DEF HandleLine
  <2>2. CASE ~writeRequested
    BY <1>4, <2>1, <2>2, <1>13 DEF HandleLine
  <2>3. CASE writeRequested
    <3>1. pc["main"] = "idle" /\ Goto("main", "startTimer")
      BY <1>4, <2>3 DEF HandleLine
    <3>2. /\ \A u \in Threads : u # "main" => (Owes(u)' <=> Owes(u))
          /\ ~Owes("main") /\ ~Owes("main")'
      BY <1>0, <2>1, <3>1, Goes DEF Owes
    <3>3. (StopOwed' <=> StopOwed) /\ (Pending' <=> Pending)
      BY <1>0, <2>1, <3>1, Goes DEF StopOwed, Early, Pending
    <3> QED
      BY <1>12, <2>1, <3>2, <3>3
  <2> QED
    BY <2>2, <2>3
<1>20. CASE StartTimer
  <2>1. UNCHANGED <<triggersLeft, counter, todo, phase, stopMe, writeRequested>>
    BY <1>20 DEF StartTimer
  <2>2. PICK t \in Timers :
           /\ pc[t] = "unset"
           /\ pc' = [pc EXCEPT ![t] = "waiting", !["main"] = "resetRequest"]
           /\ timerArg' = [timerArg EXCEPT ![t] = controlDict]
    BY <1>20 DEF StartTimer
  <2>3. pc["main"] = "startTimer" /\ writeRequested /\ t # "main"
    BY <1>20, <2>2 DEF StartTimer, IInv, TimerInv
  <2>4. /\ \A u \in Threads : u # t /\ u # "main" =>
               pc'[u] = pc[u] /\ (u \in Timers => timerArg'[u] = timerArg[u])
        /\ pc'[t] = "waiting" /\ pc'["main"] = "resetRequest"
    BY <1>0, <2>2, <2>3 DEF TypeOK
  <2>5. \A u \in Threads : u # t => (Owes(u)' <=> Owes(u))
    BY <1>0, <2>1, <2>3, <2>4, Kinds DEF Owes, PlacesInv, InPlace, ServantPlaces,
       MainPlaces, Asking, Opening, Replacing, Restoring
  <2>6. ~Owes(t) /\ Pending /\ ~Pending'
    BY <2>2, <2>3, <2>4 DEF Owes, Pending
  <2>7. StopOwed' <=> StopOwed
    <3>1. \A u \in Requesters : Early(u)' <=> Early(u)
      BY <2>1, <2>2, <2>3, <2>4, Kinds DEF Early
    <3> QED
      BY <1>0, <2>1, <3>1 DEF StopOwed
  <2>8. ~InOrder'
    BY <1>0, <2>3 DEF InOrder, WritesInv
  <2>9. /\ Due \in Nat /\ Due' \in Int
        /\ Due' = Due + (Bit(Owes(t))' - Bit(Owes(t)))
                      + (Bit(Pending)' - Bit(Pending))
                      + (Bit(StopOwed)' - Bit(StopOwed))
    BY <1>0, <2>1, <2>5, DueChange
  <2>10. /\ Bit(Owes(t)) = 0 /\ Bit(Owes(t))' \in {0, 1}
         /\ Bit(Pending) = 1 /\ Bit(Pending)' = 0
         /\ Bit(StopOwed)' = Bit(StopOwed) /\ Bit(StopOwed) \in {0, 1}
    <3>1. /\ Bit(Owes(t)) = 0 /\ Bit(Pending) = 1 /\ Bit(Pending)' = 0
          /\ Bit(StopOwed)' = Bit(StopOwed)
      BY <2>6, <2>7, Zenon DEF Bit
    <3>2. Bit(Owes(t))' \in {0, 1} /\ Bit(StopOwed) \in {0, 1}
      BY BitOf
    <3> QED
      BY <3>1, <3>2
  <2> QED
    BY <2>1, <2>8, <2>9, <2>10 DEF Settled
<1>21. CASE ResetRequest
  <2>1. /\ UNCHANGED <<triggersLeft, counter, todo, phase, stopMe, timerArg>>
        /\ pc["main"] = "resetRequest" /\ Goto("main", "idle") /\ ~writeRequested'
    BY <1>21 DEF ResetRequest
  <2>2. /\ \A u \in Threads : u # "main" => (Owes(u)' <=> Owes(u))
        /\ ~Owes("main") /\ ~Owes("main")'
    BY <1>0, <2>1, Goes DEF Owes
  <2>3. (StopOwed' <=> StopOwed) /\ (Pending' <=> Pending)
    BY <1>0, <2>1, Goes DEF StopOwed, Early, Pending
  <2> QED
    BY <1>12, <2>1, <2>2, <2>3
<1>5. CASE EndOfOutput
  BY <1>5, <1>13 DEF EndOfOutput
<1>14. ASSUME Goto("main", "decrement"), pc["main"] = "idle", UNCHANGED <<todo, timerArg>>
       PROVE  /\ Debts \in Nat /\ Debts' = Debts + 1
  <2>1. \A u \in Threads : u # "main" => (Owes(u)' <=> Owes(u))
    BY <1>0, <1>14, Goes DEF Owes
  <2>2. ~Owes("main") /\ Owes("main")'
    BY <1>0, <1>14, Goes DEF Owes
  <2>3. /\ Debts \in Nat /\ Debts' \in Nat
        /\ Debts' = Debts + Bit(Owes("main"))' - Bit(Owes("main"))
    BY <2>1, OneDebtor
  <2>4. Bit(Owes("main"))' = 1 /\ Bit(Owes("main")) = 0
    BY <2>2, BitOf
  <2> QED
    BY <2>3, <2>4
<1>6. CASE StopHandle
  <2>0. /\ phase = "stopHandle" /\ pc["main"] \in {"idle", "dead"}
        /\ UNCHANGED <<timerArg, triggersLeft, counter, writeRequested, stopMe>>
    BY <1>6 DEF StopHandle, IInv, PlacesInv, InPlace, MainPlaces, ServantPlaces,
       Asking, Restoring
  <2>4. pc["main"] = "idle"
    BY <1>0, <2>0 DEF PlacesInv, InPlace
  <2>5. todo["main"] = <<>>
    BY <1>0, <2>4, StopPlaces DEF Opening, Replacing
  <2>6. \A u \in Requesters : ~Early(u)
    BY <1>0, <2>0, Todos DEF IInv, LateInv, Busy, Early
  <2>7. StopOwed <=> OwesRestore
    BY <2>0, <2>6 DEF StopOwed, OwesRestore
  <2>1. CASE OwesRestore /\ ~controlDict
    <3>1. Raise("main")
      BY <1>6, <2>1 DEF StopHandle
    <3>2. scenario.writes # 0
      BY <1>0, <2>0, <2>1, NothingRaised
    <3>3. \A u \in Threads : Owes(u)' <=> Owes(u)
      BY <1>0, <2>0, <2>4, <2>5, <3>1, Raised DEF Owes
    <3>4. Debts' = Debts
      BY <3>3, SameDebtors
    <3>5. ~StopOwed'
      BY <1>0, <3>1, Raised DEF StopOwed
    <3>6. Bit(StopOwed)' = 0 /\ Bit(Pending)' = Bit(Pending)
      BY <1>0, <2>0, <2>4, <3>1, <3>5, Raised, BitOf DEF Pending
    <3>7. Due' <= Due
      BY <1>15, <1>16, <2>0, <3>4, <3>6
    <3>8. ~InOrder'
      BY <1>0, <3>2 DEF InOrder
    <3> QED
      BY <2>0, <3>7, <3>8 DEF Settled
  <2>2. CASE OwesRestore /\ controlDict
    <3>1. Goto("main", "decrement") /\ phase' = "triggers" /\ UNCHANGED todo
      BY <1>6, <2>2 DEF StopHandle
    <3>2. Debts' = Debts + 1
      BY <1>14, <2>0, <2>4, <3>1
    <3>3. StopOwed /\ ~StopOwed'
      BY <2>2, <2>7, <3>1 DEF StopOwed
    <3>4. Bit(StopOwed)' = 0 /\ Bit(StopOwed) = 1
      BY <3>3, Zenon DEF Bit
    <3>5. Bit(Pending)' = Bit(Pending)
      BY <1>0, <2>0, <2>4, <3>1, Goes, BitOf DEF Pending
    <3>7. Due' = Due
      BY <1>15, <1>16, <2>0, <3>2, <3>4, <3>5
    <3>8. Due \in Nat
      BY <1>0, DueType
    <3> QED
      BY <2>0, <3>7, <3>8 DEF Settled
  <2>3. CASE ~OwesRestore
    <3>1. UNCHANGED <<pc, todo>> /\ phase' = "triggers"
      BY <1>6, <2>3 DEF StopHandle
    <3>2. \A u \in Threads : Owes(u)' <=> Owes(u)
      BY <2>0, <3>1 DEF Owes
    <3>3. (StopOwed' <=> StopOwed) /\ (Pending' <=> Pending)
      BY <2>0, <2>3, <2>7, <3>1 DEF StopOwed, Pending
    <3> QED
      BY <1>12, <2>0, <3>2, <3>3
  <2> QED
    BY <2>1, <2>2, <2>3
<1>7. CASE EndTriggers
  <2>0. /\ phase = "triggers" /\ pc["main"] = "idle"
        /\ UNCHANGED <<timerArg, counter, writeRequested, stopMe, todo>>
    BY <1>7 DEF EndTriggers
  <2>1. CASE triggersLeft > 0
    <3>1. Goto("main", "decrement") /\ phase' = phase /\ triggersLeft' = triggersLeft - 1
      BY <1>7, <2>1 DEF EndTriggers, NextTrigger
    <3>2. Debts' = Debts + 1
      BY <1>14, <2>0, <3>1
    <3>3. ~StopOwed /\ ~StopOwed'
      BY <2>0, <3>1 DEF StopOwed
    <3>4. Bit(StopOwed)' = 0 /\ Bit(StopOwed) = 0
      BY <3>3, Zenon DEF Bit
    <3>5. Bit(Pending)' = Bit(Pending)
      BY <1>0, <2>0, <3>1, Goes, BitOf DEF Pending
    <3>7. Due' = Due
      BY <1>15, <1>16, <3>1, <3>2, <3>4, <3>5
    <3>8. Due \in Nat
      BY <1>0, DueType
    <3> QED
      BY <2>0, <3>7, <3>8 DEF Settled
  <2>2. CASE ~(triggersLeft > 0)
    <3>1. UNCHANGED <<pc, triggersLeft>> /\ phase' = "done"
      BY <1>7, <2>2 DEF EndTriggers, NextTrigger
    <3>2. \A u \in Threads : Owes(u)' <=> Owes(u)
      BY <2>0, <3>1 DEF Owes
    <3>3. (StopOwed' <=> StopOwed) /\ (Pending' <=> Pending)
      BY <2>0, <3>1 DEF StopOwed, Pending
    <3> QED
      BY <1>12, <2>0, <3>1, <3>2, <3>3
  <2> QED
    BY <2>1, <2>2
<1>8. CASE StopTimer
  BY <1>8, <1>13 DEF StopTimer
<1>9. CASE Reread
  BY <1>9, <1>13 DEF Reread
<1>10. ASSUME NEW obeys \in BOOLEAN, SolverEnds(obeys)
       PROVE  Settled
  BY <1>10, <1>13 DEF SolverEnds
<1>11. CASE UNCHANGED vars
  BY <1>11, <1>13 DEF vars
<1> QED
  BY <1>1, <1>2, <1>3, <1>4, <1>5, <1>6, <1>7, <1>8, <1>9, <1>10, <1>11, <1>20, <1>21
  DEF Next, Main

(* The restores to come are a number after a step, too.                    *)
LEMMA DueNext ==
    ASSUME TypeOK'
    PROVE  Due' \in Nat
<1>1. PICK owing : owing = {u \in Threads : Owes(u)'}
  OBVIOUS
<1>2. IsFiniteSet(owing) /\ Debts' = Cardinality(owing)
  BY <1>1, ThreadsFinite, FS_Subset DEF Debts
<1>3. Debts' \in Nat
  BY <1>2, FS_CardinalityType
<1>4. triggersLeft' \in Nat
  BY ScenariosAssumption DEF TypeOK, Triggers
<1>5. Bit(Pending)' \in {0, 1} /\ Bit(StopOwed)' \in {0, 1}
  BY BitOf
<1> QED
  BY <1>3, <1>4, <1>5 DEF Due

(* Every step keeps the count at least at what is due.                     *)
LEMMA CountStep ==
    ASSUME IInv, [Next]_vars
    PROVE  CountInv'
<1> SUFFICES ASSUME Counted'
             PROVE  CountInv'
  BY DEF CountInv
<1>1. Counted
  BY History, LoadStep DEF IInv, Counted, isRestarted
<1>2. TypeOK' /\ NoEntry \notin Int
  BY TypeStep, NoValueAssumption DEF IInv, ShapeInv
<1>3. Settled
  BY DueStep
<1>4. Due \in Nat /\ counter \in Int \cup {NoEntry}
  BY DueType DEF IInv, TypeOK
<1>5. Due' \in Nat
  BY <1>2, DueNext
<1>6. (counter \in Int => counter >= Due) /\ (Due > 0 => counter \in Int)
  BY <1>1 DEF IInv, CountInv
<1>7. (counter' \in Int => counter' >= Due') /\ (Due' > 0 => counter' \in Int)
  BY <1>2, <1>3, <1>4, <1>5, <1>6 DEF Settled
<1> QED
  BY <1>7 DEF CountInv

(* Every step keeps what is loaded good enough, and for main, and for a    *)
(* single request, up to date.                                             *)
LEMMA MeantStep ==
    ASSUME IInv, [Next]_vars
    PROVE  MeantInv'
<1> SUFFICES ASSUME scenario'.writes = 0, ~late'
             PROVE  \A t \in Requesters :
                       /\ pc'[t] = "add" => loaded'[t] >= triggersLeft' /\ counter' \in Int
                       /\ pc'[t] = "add" /\ ~overlap' => loaded'[t] = counter'
                       /\ pc'[t] = "subtract" => loaded'[t] = counter'
  BY DEF MeantInv
<1>0. /\ scenario.writes = 0 /\ ~late /\ TypeOK /\ WritesInv /\ ListsInv /\ PlacesInv
      /\ Counted /\ (~overlap' => InOrder) /\ NoEntry \notin Int
  BY History, NoValueAssumption DEF IInv, Counted, InOrder
<1> "main" \in Requesters /\ Timers \subseteq Threads /\ Requesters \subseteq Threads
  BY DEF Threads, Requesters
<1>1. \A t \in Requesters :
         /\ pc[t] = "add" => loaded[t] >= triggersLeft /\ counter \in Int
         /\ pc[t] = "add" /\ ~overlap => loaded[t] = counter
         /\ pc[t] = "subtract" => loaded[t] = counter
  BY <1>0 DEF IInv, MeantInv
<1>2. \A t \in Requesters : pc[t] \in Opening => phase \in {"loop", "raised"}
  BY <1>0, OnlyMain
<1>3. \A t \in Requesters : pc[t] \in Restoring => t = "main" /\ phase = "triggers"
  BY <1>0, Kinds DEF PlacesInv, InPlace, ServantPlaces, Asking, Opening, Replacing,
     Restoring
<1>4. ASSUME NEW t \in Threads, Step(t), NEW u \in Requesters
      PROVE  /\ pc'[u] = "add" => loaded'[u] >= triggersLeft' /\ counter' \in Int
             /\ pc'[u] = "add" /\ ~overlap' => loaded'[u] = counter'
             /\ pc'[u] = "subtract" => loaded'[u] = counter'
  <2>1. t \in Requesters /\ (phase \notin {"loop", "raised"} => t = "main")
    BY <1>0, <1>4, NoTimers, OnlyMain
  <2>2. triggersLeft' = triggersLeft
    BY <1>4 DEF Step
  <2>3. CASE u = t
    <3>1. pc'[t] \in {"add", "subtract"} => loaded'[t] = counter /\ counter \in Int
      BY <1>0, <1>4, LoadsOwn
    <3>2. pc'[t] \in {"add", "subtract"} => counter' = counter
      BY <1>0, <1>4, Goes, Raised DEF Step, AfterRestore, StopSet, Count, Add, First,
         Copy, Assign, Read, Rename, Requested, Decrement, Subtract, Test, PutBack,
         Remove, Delete, Fire, SetNone, fileVars
    <3>3. counter \in Int => counter >= Due
      BY <1>0 DEF IInv, CountInv
    <3>4. Due \in Nat /\ Due >= triggersLeft /\ triggersLeft \in Nat
      <4>1. Debts \in Nat /\ Due \in Nat /\ triggersLeft \in Nat
        BY <1>0, DueType
      <4>2. Bit(Pending) \in {0, 1} /\ Bit(StopOwed) \in {0, 1}
        BY BitOf
      <4>3. Due = triggersLeft + Debts + Bit(Pending) + Bit(StopOwed)
        BY DEF Due
      <4> QED
        BY <4>1, <4>2, <4>3
    <3> QED
      BY <2>2, <2>3, <3>1, <3>2, <3>3, <3>4
  <2>4. CASE u # t
    <3>1. pc'[u] = pc[u] /\ loaded'[u] = loaded[u]
      BY <1>0, <1>4, <2>4, Alone, LoadsOwn
    <3>2. pc[u] # "subtract"
      BY <1>3, <2>1, <2>4 DEF Restoring
    <3>3. CASE pc[u] = "add"
      <4>1. pc[t] \notin Restoring
        BY <1>2, <1>3, <2>1, <3>3 DEF Opening
      <4>2. /\ counter' = counter \/ (pc[t] = "add" /\ counter' = loaded[t] + 1) \/ counter' = 1
            /\ pc[t] \notin Opening => counter' = counter
        BY <1>4, <4>1 DEF Step, StopSet, Count, Store, Add, First, Copy, Assign, Read,
           Rename, Requested, Decrement, Subtract, Test, PutBack, Remove, Delete, Fire,
           SetNone, Opening, Restoring, fileVars
      <4>3. pc[t] = "add" => loaded[t] \in Int
        BY DEF IInv, LoadInv
      <4>4. ~overlap' => counter' = counter
        <5>1. ASSUME ~overlap' PROVE todo[t] # StopTodo
          <6>1. InOrder /\ pc[u] \in Opening \cup Replacing /\ ~isRestarted
            BY <1>0, <3>3, <5>1 DEF Opening, ListsInv, HasList
          <6> QED
            BY <2>1, <2>4, <6>1, OneStopper DEF IInv
        <5>2. ASSUME ~overlap' PROVE pc[t] \notin Opening
          BY <1>0, <2>1, <5>1, <5>2, Todos DEF WritesInv, ListsInv, HasList
        <5> QED
          BY <4>2, <5>2
      <4>5. ~overlap' => ~overlap
        BY <1>0 DEF InOrder
      <4> QED
        BY <1>1, <2>2, <3>1, <3>3, <4>2, <4>3, <4>4, <4>5
    <3> QED
      BY <3>1, <3>2, <3>3
  <2> QED
    BY <2>3, <2>4
<1>5. CASE \A t \in Threads : ~Step(t)
  <2>1. /\ UNCHANGED <<loaded, lost, counter>>
        /\ \A t \in Threads : pc'[t] \in {"add", "subtract"} => pc'[t] = pc[t]
    BY <1>0, <1>5, NoAccess
  <2>2. triggersLeft' = triggersLeft \/ phase = "triggers"
    BY <1>5 DEF Next, Main, BeginStop, BeginWrite, HandleLine, StartTimer, ResetRequest,
       EndOfOutput, StopHandle, EndTriggers, StopTimer, Reread, SolverEnds, vars, mainVars
  <2>3. \A t \in Requesters : pc[t] = "add" => triggersLeft' = triggersLeft
    BY <1>2, <2>2 DEF Opening
  <2>4. ~overlap' => ~overlap
    BY <1>0 DEF InOrder
  <2> QED
    BY <1>1, <2>1, <2>3, <2>4
<1> QED
  BY <1>4, <1>5

(* Every step keeps the changes of a trigger that is not undone.           *)
LEMMA KeptStep ==
    ASSUME IInv, [Next]_vars
    PROVE  KeptInv'
<1> USE DEF fileVars, runnerVars, threadVars, mainVars, pollVars, solverVars, countVars, otherVars
<1> SUFFICES ASSUME Counted', triggersLeft' > 0
             PROVE  KeptInv'
  BY DEF KeptInv
<1>0. /\ TypeOK /\ ListsInv /\ PlacesInv /\ "trigger" \in file /\ backup = {}
      /\ \A t \in Threads : /\ pc[t] \notin {"first", "copy", "putBack", "remove", "delete"}
                            /\ pc[t] = "rename" => "trigger" \in tmp[t]
  BY History, LoadStep DEF IInv, Counted, isRestarted, KeptInv
<1>1. Counted /\ triggersLeft > 0 /\ counter \in Int /\ counter > 0 /\ NoEntry \notin Int
  <2>1. Counted /\ triggersLeft > 0
    BY History, LoadStep DEF IInv, Counted, isRestarted
  <2>2. Due > 0 /\ Due \in Nat
    BY <1>0, <2>1, DueType
  <2> QED
    BY <2>1, <2>2, NoValueAssumption DEF IInv, CountInv
<1>2. ASSUME UNCHANGED <<file, backup, tmp>>, NEW t \in Threads,
             \A u \in Threads : u # t => pc'[u] = pc[u],
             pc'[t] \notin {"first", "copy", "putBack", "remove", "delete", "rename"} \/ pc'[t] = pc[t]
      PROVE  KeptInv'
  BY <1>0, <1>2 DEF KeptInv
<1>3. ASSUME UNCHANGED <<file, backup, tmp, pc>>
      PROVE  KeptInv'
  BY <1>0, <1>3 DEF KeptInv
<1> "main" \in Requesters /\ Timers \subseteq Threads /\ Requesters \subseteq Threads
  BY DEF Threads, Requesters
<1>4. ASSUME NEW t \in Requesters, NEW r \in StopRequests, BeginStop(t, r)
      PROVE  KeptInv'
  <2>1. pc' = pc \/ Begin(t, "stopSet", StopTodo)
    BY <1>4 DEF BeginStop, StopTodo
  <2> QED
    BY <1>0, <1>2, <1>3, <1>4, <2>1, Begins DEF BeginStop
<1>5. ASSUME NEW t \in Requesters, BeginWrite(t)
      PROVE  KeptInv'
  <2>1. Begin(t, "read", WriteTodo) \/ Begin(t, "count", WriteTodo)
    BY <1>5 DEF BeginWrite, WriteTodo
  <2> QED
    BY <1>0, <1>2, <1>5, <2>1, Begins DEF BeginWrite
<1>6. ASSUME NEW t \in Threads, Step(t)
      PROVE  KeptInv'
  <2>1. \A u \in Threads : u # t => pc'[u] = pc[u] /\ tmp'[u] = tmp[u]
    BY <1>0, <1>6, Alone
  <2>2. ~First(t) /\ ~Copy(t) /\ ~PutBack(t) /\ ~Remove(t) /\ ~Delete(t)
    BY <1>0 DEF First, Copy, PutBack, Remove, Delete
  <2>3. backup' = backup
    BY <1>6, <2>2 DEF Step, StopSet, Count, Load, Store, Add, First, Copy, Assign, Read, Rename,
       Requested, Decrement, Subtract, Test, PutBack, Remove, Delete, Fire, SetNone
  <2>4. "trigger" \in file'
    <3>1. CASE Rename(t)
      BY <1>0, <3>1 DEF Rename
    <3>2. CASE ~Rename(t)
      BY <1>0, <1>6, <2>2, <3>2 DEF Step, StopSet, Count, Load, Store, Add, First, Copy, Assign, Read,
         Rename, Requested, Decrement, Subtract, Test, PutBack, Remove, Delete, Fire, SetNone
    <3> QED
      BY <3>1, <3>2
  <2>7. pc[t] = "test" => counter # 0
    BY <1>1
  <2>5. pc'[t] \notin {"first", "copy", "putBack", "remove", "delete"}
    BY <1>0, <1>1, <1>6, <2>2, <2>7, Goes, Raised DEF Step, AfterRestore, StopSet, Count, Load, Store, Add,
       First, Copy, Assign, Read, Rename, Requested, Decrement, Subtract, Test, PutBack, Remove, Delete, Fire,
       SetNone
  <2>6. pc'[t] = "rename" => "trigger" \in tmp'[t]
    <3>1. CASE Read(t)
      BY <1>0, <3>1, Raised DEF Read, TypeOK
    <3>2. CASE ~Read(t)
      BY <1>0, <1>6, <2>2, <3>2, Goes, Raised DEF Step, AfterRestore, StopSet,
         Count, Load, Store, Add, First, Copy, Assign, Read, Rename, Requested, Decrement, Subtract, Test,
         PutBack, Remove, Delete, Fire, SetNone
    <3> QED
      BY <3>1, <3>2
  <2> QED
    BY <1>0, <2>1, <2>3, <2>4, <2>5, <2>6 DEF KeptInv
<1>7. CASE HandleLine
  BY <1>0, <1>2, <1>3, <1>7, Goes DEF HandleLine
<1>20. CASE StartTimer
  BY <1>0, <1>20 DEF StartTimer, TypeOK, KeptInv
<1>21. CASE ResetRequest
  BY <1>0, <1>2, <1>21, Goes DEF ResetRequest
<1>8. CASE EndOfOutput
  BY <1>3, <1>8 DEF EndOfOutput
<1>9. CASE StopHandle
  <2>1. pc' = pc \/ Goto("main", "decrement") \/ Raise("main")
    BY <1>9 DEF StopHandle
  <2> QED
    BY <1>0, <1>2, <1>3, <1>9, <2>1, Goes, Raised DEF StopHandle
<1>10. CASE EndTriggers
  <2>1. pc' = pc \/ Goto("main", "decrement")
    BY <1>10 DEF EndTriggers, NextTrigger
  <2> QED
    BY <1>0, <1>2, <1>3, <1>10, <2>1, Goes DEF EndTriggers
<1>11. CASE StopTimer
  BY <1>3, <1>11 DEF StopTimer
<1>12. CASE Reread
  BY <1>3, <1>12 DEF Reread
<1>13. ASSUME NEW obeys \in BOOLEAN, SolverEnds(obeys)
       PROVE  KeptInv'
  BY <1>3, <1>13 DEF SolverEnds
<1>14. CASE UNCHANGED vars
  BY <1>3, <1>14 DEF vars
<1> QED
  BY <1>4, <1>5, <1>6, <1>7, <1>8, <1>9, <1>10, <1>11, <1>12, <1>13, <1>14,
     <1>20, <1>21 DEF Next, Main

(* With one request to stop, nobody else comes to the backup.              *)
LEMMA StopperStep ==
    ASSUME IInv, [Next]_vars, InOrder'
    PROVE  StopperInv'
<1> USE DEF fileVars, runnerVars, threadVars, mainVars, pollVars, solverVars, countVars, otherVars
<1>0. /\ scenario' = scenario /\ InOrder /\ TypeOK /\ WritesInv /\ ListsInv /\ PlacesInv
      /\ StopperInv /\ UsersInv /\ TallyInv /\ scenario.writes = 0 /\ ~late /\ Counted
      /\ NoEntry \notin Int
  BY History, NoValueAssumption DEF IInv, InOrder, ExactInv, Counted
<1> "main" \in Requesters /\ Timers \subseteq Threads /\ Requesters \subseteq Threads
  BY DEF Threads, Requesters
<1>1. ASSUME UNCHANGED stopMe, NEW t \in Requesters,
             \A u \in Threads : u # t => pc'[u] = pc[u] /\ todo'[u] = todo[u],
             todo'[t] = StopTodo =>
                todo[t] = StopTodo /\ pc[t] # "stopSet" /\ pc'[t] # "stopSet"
      PROVE  StopperInv'
  BY <1>0, <1>1 DEF StopperInv, isRestarted
<1>13. ASSUME UNCHANGED <<stopMe, pc, todo>> PROVE StopperInv'
  BY <1>0, <1>13 DEF StopperInv, isRestarted
<1>2. ASSUME NEW t \in Requesters, NEW r \in StopRequests, BeginStop(t, r)
      PROVE  StopperInv'
  <2>1. CASE UNCHANGED <<pc, todo>>
    BY <1>2, <2>1, <1>13 DEF BeginStop
  <2>2. CASE Begin(t, "stopSet", StopTodo) /\ ~stopMe
    <3>1. overlap' = (overlap \/ (~isRestarted /\ Stopping))
      BY <1>2, <2>2 DEF BeginStop
    <3>2. ~isRestarted => \A u \in Requesters : todo[u] # StopTodo
      BY <3>1, Zenon DEF InOrder, Stopping, StopTodo
    <3>3. /\ pc'[t] = "stopSet" /\ stopMe' = stopMe
          /\ \A u \in Threads : u # t => pc'[u] = pc[u] /\ todo'[u] = todo[u]
      BY <1>0, <1>2, <2>2, Begins DEF BeginStop
    <3> QED
      BY <1>0, <2>2, <3>2, <3>3 DEF StopperInv, isRestarted
  <2> QED
    BY <1>2, <2>1, <2>2 DEF BeginStop, StopTodo
<1>3. ASSUME NEW t \in Requesters, BeginWrite(t)
      PROVE  StopperInv'
  BY <1>0, <1>3, WriteSlots
<1>4. ASSUME NEW t \in Threads, Step(t)
      PROVE  StopperInv'
  <2>1. t \in Requesters
    BY <1>0, <1>4, NoTimers
  <2>2. \A u \in Threads : u # t => pc'[u] = pc[u] /\ todo'[u] = todo[u]
    BY <1>0, <1>4, Alone
  <2>3. CASE StopSet(t)
    <3>1. pc[t] = "stopSet" /\ todo[t] = StopTodo /\ stopMe' /\ pc'[t] # "stopSet" /\ todo' = todo
      BY <1>0, <2>3, Goes DEF StopSet, NoRaise, ListsInv, HasList
    <3> QED
      BY <1>0, <2>1, <2>2, <3>1 DEF StopperInv, isRestarted
  <2>4. CASE ~StopSet(t)
    <3>1. pc[t] # "stopSet" /\ pc'[t] # "stopSet" /\ stopMe' = stopMe
      BY <1>0, <1>4, <2>4, Goes, Raised DEF Step, AfterRestore, StopSet, Count, Load, Store, Add,
         First, Copy, Assign, Read, Rename, Requested, Decrement, Subtract, Test, PutBack, Remove, Delete,
         Fire, SetNone
    <3>2. todo'[t] = StopTodo => todo[t] = StopTodo
      <4>1. CASE Rename(t)
        <5>1. todo'[t] = Tail(todo[t])
          BY <1>0, <4>1 DEF Rename, TypeOK
        <5>2. todo[t] \in {StopTodo, WriteTodo, LastTodo}
          BY <1>0, <4>1 DEF Rename, ListsInv, HasList, Replacing
        <5> QED
          BY <5>1, <5>2, Todos
      <4>2. CASE ~Rename(t)
        BY <1>0, <1>4, <4>2, Raised, Todos DEF Step, NoRaise, StopSet, Count, Load, Store, Add, First,
           Copy, Assign, Read, Rename, Requested, Decrement, Subtract, Test, PutBack, Remove, Delete, Fire,
           SetNone
      <4> QED
        BY <4>1, <4>2
    <3> QED
      BY <1>1, <2>1, <2>2, <3>1, <3>2
  <2> QED
    BY <2>3, <2>4
<1>7. CASE StopHandle
  <2>1. /\ \A u \in Threads : u # "main" => pc'[u] = pc[u] /\ todo'[u] = todo[u]
        /\ todo'["main"] \in {todo["main"], <<>>} /\ stopMe' = stopMe
    BY <1>0, <1>7, Goes, Raised DEF StopHandle
  <2>2. todo["main"] = <<>>
    BY <1>0, <1>7, OnlyMain DEF StopHandle
  <2> QED
    BY <1>1, <2>1, <2>2, Todos
<1>8. CASE EndTriggers
  <2>1. /\ \A u \in Threads : u # "main" => pc'[u] = pc[u] /\ todo' = todo
        /\ stopMe' = stopMe
    BY <1>0, <1>8, Goes DEF EndTriggers, NextTrigger
  <2>2. todo["main"] = <<>>
    BY <1>0, <1>8, OnlyMain DEF EndTriggers
  <2>3. todo' = todo
    BY <1>8 DEF EndTriggers
  <2> QED
    BY <1>1, <2>1, <2>2, <2>3, Todos
<1>5. CASE HandleLine
  BY <1>0, <1>5, <1>13 DEF HandleLine, WritesInv
<1>20. CASE StartTimer
  BY <1>0, <1>20 DEF StartTimer, WritesInv
<1>21. CASE ResetRequest
  BY <1>0, <1>21 DEF ResetRequest, WritesInv
<1>6. CASE EndOfOutput
  BY <1>6, <1>13 DEF EndOfOutput
<1>9. CASE StopTimer
  BY <1>9, <1>13 DEF StopTimer
<1>10. CASE Reread
  BY <1>10, <1>13 DEF Reread
<1>11. ASSUME NEW obeys \in BOOLEAN, SolverEnds(obeys)
       PROVE  StopperInv'
  BY <1>11, <1>13 DEF SolverEnds
<1>12. CASE UNCHANGED vars
  BY <1>12, <1>13 DEF vars
<1> QED
  BY <1>2, <1>3, <1>4, <1>5, <1>6, <1>7, <1>8, <1>9, <1>10, <1>11, <1>12, <1>20, <1>21
  DEF Next, Main

(* With one request to stop, the backup is there while it is counted.      *)
LEMMA UsersStep ==
    ASSUME IInv, [Next]_vars, InOrder'
    PROVE  UsersInv'
<1> USE DEF fileVars, runnerVars, threadVars, mainVars, pollVars, solverVars, countVars, otherVars
<1>0. /\ scenario' = scenario /\ InOrder /\ TypeOK /\ WritesInv /\ ListsInv /\ PlacesInv
      /\ StopperInv /\ UsersInv /\ TallyInv /\ scenario.writes = 0 /\ ~late /\ Counted
      /\ NoEntry \notin Int
  BY History, NoValueAssumption DEF IInv, InOrder, ExactInv, Counted
<1> "main" \in Requesters /\ Timers \subseteq Threads /\ Requesters \subseteq Threads
  BY DEF Threads, Requesters
<1>1. ASSUME UNCHANGED <<file, backup, counter>>, NEW t \in Requesters,
             \A u \in Threads : u # t => pc'[u] = pc[u],
             pc[t] \notin {"first", "copy", "delete"},
             pc'[t] \notin {"first", "copy", "remove", "delete"}
      PROVE  UsersInv'
  BY <1>0, <1>1 DEF UsersInv
<1>13. ASSUME UNCHANGED <<file, backup, counter, pc>> PROVE UsersInv'
  BY <1>0, <1>13 DEF UsersInv
<1>2. ASSUME NEW t \in Requesters, NEW r \in StopRequests, BeginStop(t, r)
      PROVE  UsersInv'
  <2>1. pc' = pc \/ Begin(t, "stopSet", StopTodo)
    BY <1>2 DEF BeginStop, StopTodo
  <2>2. pc[t] = "idle" /\ UNCHANGED <<file, backup, counter>>
    BY <1>2 DEF BeginStop, Accepts
  <2> QED
    BY <1>0, <1>1, <1>13, <2>1, <2>2, Begins
<1>3. ASSUME NEW t \in Requesters, BeginWrite(t)
      PROVE  UsersInv'
  BY <1>0, <1>3, WriteSlots
<1>4. ASSUME NEW t \in Threads, Step(t)
      PROVE  UsersInv'
  <2>1. t \in Requesters
    BY <1>0, <1>4, NoTimers
  <2>2. \A u \in Threads : u # t => pc'[u] = pc[u]
    BY <1>0, <1>4, Alone
  <2>3. ASSUME pc[t] \in Opening \cup Replacing, NEW u \in Requesters, u # t
        PROVE  pc[u] \notin {"first", "copy"}
    <3>1. ~isRestarted => todo[u] # StopTodo
      BY <1>0, <2>1, <2>3, OneStopper
    <3>2. todo[u] \in {<<>>, StopTodo}
      BY <1>0 DEF WritesInv
    <3> QED
      BY <1>0, <3>1, <3>2, Todos DEF ListsInv, HasList, Opening
  <2>10. ASSUME pc[t] \in Opening \cup Replacing, pc'[t] \notin Restoring
         PROVE  pc["main"] \notin Restoring /\ pc'["main"] \notin Restoring
    <3>1. phase = "loop"
      BY <1>0, <2>1, <2>10, OneStopper
    <3> QED
      BY <1>0, <2>2, <2>10, <3>1 DEF PlacesInv, InPlace, Restoring
  <2>4. CASE Count(t)
    <3>1. /\ pc[t] = "count" /\ UNCHANGED <<file, backup, counter>>
          /\ \/ counter = NoEntry /\ pc'[t] = "first"
             \/ counter \in Int /\ pc'[t] = "add"
      BY <1>0, <2>4, Goes DEF Count, TypeOK
    <3>2. \A u \in Requesters : pc'[u] \in {"first", "copy"} => u = t
      BY <2>2, <2>3, <3>1 DEF Opening
    <3>3. pc["main"] \notin Restoring /\ pc'["main"] \notin Restoring
      BY <2>10, <3>1 DEF Opening, Restoring
    <3>4. counter \in Int => backup = {} \/ \E u \in Requesters : u # t /\ pc'[u] = "copy"
      BY <1>0, <2>2, <3>1, <3>3 DEF UsersInv, Restoring
    <3> QED
      BY <1>0, <2>1, <3>1, <3>2, <3>3, <3>4 DEF UsersInv, Restoring
  <2>11. CASE Add(t)
    <3>1. /\ pc[t] = "add" /\ pc'[t] = "assign" /\ UNCHANGED <<file, backup>>
          /\ counter' = loaded[t] + 1 /\ loaded[t] \in Int
      BY <1>0, <2>11, Goes, Storing DEF Add, IInv, LoadInv
    <3>2. counter \in Int
      BY <1>0, <2>1, <3>1, AddsToCount
    <3>3. \A u \in Requesters : pc[u] \notin {"first", "copy"} /\ pc'[u] \notin {"first", "copy"}
      BY <2>2, <2>3, <3>1 DEF Opening
    <3>4. pc["main"] \notin Restoring /\ pc'["main"] \notin Restoring
      BY <2>10, <3>1 DEF Opening, Restoring
    <3>5. backup = {} /\ counter' \in Int
      BY <1>0, <3>1, <3>2, <3>3, <3>4 DEF UsersInv, Restoring
    <3> QED
      BY <1>0, <3>1, <3>3, <3>4, <3>5 DEF UsersInv, Restoring
  <2>5. CASE First(t)
    <3>1. pc[t] = "first" /\ pc'[t] = "copy" /\ counter' = 1 /\ UNCHANGED <<file, backup>>
      BY <1>0, <2>5, Goes, Storing DEF First
    <3>2. \A u \in Requesters : u # t => pc'[u] \notin {"first", "copy"}
      BY <2>2, <2>3, <3>1 DEF Opening
    <3>3. pc'["main"] \notin Restoring
      BY <2>10, <3>1 DEF Opening, Restoring
    <3> QED
      BY <1>0, <2>1, <3>1, <3>2, <3>3 DEF UsersInv, Restoring
  <2>6. CASE Copy(t)
    <3>1. pc[t] = "copy" /\ pc'[t] = "assign" /\ UNCHANGED <<file, counter>> /\ backup' = file
      BY <1>0, <2>6, Goes DEF Copy
    <3>2. \A u \in Requesters : pc'[u] \notin {"first", "copy"}
      BY <2>2, <2>3, <3>1 DEF Opening
    <3>3. pc'["main"] \notin Restoring
      BY <2>10, <3>1 DEF Opening, Restoring
    <3> QED
      BY <1>0, <2>1, <3>1, <3>2, <3>3 DEF UsersInv, Restoring
  <2>7. CASE Rename(t)
    <3>1. pc[t] = "rename" /\ UNCHANGED <<backup, counter>>
      BY <2>7 DEF Rename
    <3>2. pc'[t] \in {"read", "requested", "idle"}
      BY <1>0, <2>7, Goes DEF Rename
    <3>3. \A u \in Requesters : pc[u] \notin {"first", "copy"} /\ pc'[u] \notin {"first", "copy"}
      BY <2>2, <2>3, <3>1, <3>2 DEF Replacing
    <3>4. StopOwed
      BY <1>0, <2>1, <3>1, OneStopper DEF StopOwed, Early, Replacing
    <3>5. counter \in Int
      <4>1. Bit(StopOwed) = 1 /\ Bit(Pending) \in {0, 1}
        BY <3>4, BitOf
      <4>2. Due > 0
        BY <1>0, <4>1, DueType DEF Due
      <4> QED
        BY <1>0, <4>2 DEF IInv, CountInv
    <3>6. pc["main"] \notin Restoring /\ pc'["main"] \notin Restoring
      BY <2>10, <3>1, <3>2 DEF Replacing, Restoring
    <3> QED
      BY <1>0, <3>1, <3>3, <3>5, <3>6 DEF UsersInv, Restoring
  <2>8. CASE Decrement(t) \/ Subtract(t) \/ Test(t) \/ PutBack(t) \/ Remove(t) \/ Delete(t)
    <3>1. t = "main" /\ phase = "triggers"
      BY <1>0, <2>1, <2>8, Kinds DEF PlacesInv, InPlace, ServantPlaces, MainPlaces,
         Asking, Opening, Replacing, Restoring, Decrement, Subtract, Test, PutBack, Remove, Delete
    <3>2. \A u \in Requesters : pc[u] \notin {"first", "copy"}
      BY <1>0, <3>1, OnlyMain DEF Opening
    <3>3. counter \in Int
      BY <1>0, <2>8, <3>1, NothingRaised DEF Decrement, Subtract, Test, PutBack, Remove,
         Delete, Ending
    <3>4. pc["main"] # "delete" => backup = {}
      BY <1>0, <3>2, <3>3 DEF UsersInv
    <3>5. pc'["main"] \notin {"first", "copy"}
      BY <1>0, <2>8, <3>1, Goes, Raised DEF Decrement, Subtract, Test, PutBack, Remove, Delete, AfterRestore
    <3>6. CASE Decrement(t) \/ Test(t)
      <4>1. /\ UNCHANGED <<file, backup, counter>> /\ pc["main"] # "delete"
            /\ pc'["main"] \in {"subtract", "putBack", "idle"}
        BY <1>0, <3>1, <3>3, <3>6, Goes DEF Decrement, Test, AfterRestore
      <4> QED
        BY <1>0, <2>2, <3>1, <3>2, <3>3, <3>4, <3>5, <4>1 DEF UsersInv
    <3>7. CASE Subtract(t)
      <4>1. /\ UNCHANGED <<file, backup>> /\ pc["main"] # "delete"
            /\ pc'["main"] = "test" /\ counter' = loaded["main"] - 1 /\ loaded["main"] \in Int
        BY <1>0, <3>1, <3>7, Goes, Storing DEF Subtract, IInv, LoadInv
      <4> QED
        BY <1>0, <2>2, <3>1, <3>2, <3>4, <3>5, <4>1 DEF UsersInv
    <3>8. CASE PutBack(t)
      <4>1. /\ UNCHANGED <<backup, counter>> /\ pc["main"] # "delete" /\ backup # NoFile
            /\ pc'["main"] = "remove" /\ file' = backup
        BY <1>0, <3>1, <3>8, Goes, NothingRaised DEF PutBack
      <4> QED
        BY <1>0, <2>2, <3>1, <3>2, <3>3, <3>4, <3>5, <4>1 DEF UsersInv
    <3>9. CASE Remove(t)
      <4>1. /\ UNCHANGED <<file, counter>> /\ pc["main"] = "remove"
            /\ pc'["main"] = "delete" /\ backup' = NoFile
        BY <1>0, <3>1, <3>9, Goes DEF Remove
      <4> QED
        BY <1>0, <2>2, <3>1, <3>2, <3>3, <3>5, <4>1 DEF UsersInv
    <3>10. CASE Delete(t)
      <4>1. /\ UNCHANGED <<file, backup>> /\ pc["main"] = "delete" /\ counter' = NoEntry
            /\ pc'["main"] = "idle"
        BY <1>0, <3>1, <3>3, <3>10, Goes DEF Delete, AfterRestore
      <4>2. backup = NoFile /\ file = {}
        BY <1>0, <4>1 DEF UsersInv, IInv, StopsInv, FoundInv
      <4> QED
        BY <1>0, <2>2, <3>1, <3>2, <3>5, <4>1, <4>2 DEF UsersInv
    <3> QED
      BY <2>8, <3>6, <3>7, <3>8, <3>9, <3>10
  <2>9. CASE StopSet(t) \/ Assign(t) \/ Read(t) \/ Requested(t) \/ Fire(t) \/ SetNone(t)
    <3>1. /\ UNCHANGED <<file, backup, counter>>
          /\ pc[t] \notin {"first", "copy", "delete"}
          /\ pc'[t] \notin {"first", "copy", "remove", "delete"}
      BY <1>0, <2>9, Goes, Raised DEF StopSet, Assign, Read, Requested, Fire, SetNone
    <3> QED
      BY <1>1, <2>1, <2>2, <3>1
  <2> QED
    BY <1>4, <2>4, <2>5, <2>6, <2>7, <2>8, <2>9, <2>11 DEF Step
<1>7. CASE StopHandle
  <2>1. /\ \A u \in Threads : u # "main" => pc'[u] = pc[u]
        /\ pc'["main"] \in {pc["main"], "decrement", "dead"} /\ UNCHANGED <<file, backup, counter>>
    BY <1>0, <1>7, Goes, Raised DEF StopHandle
  <2>2. pc["main"] \notin {"first", "copy", "remove", "delete"}
    BY <1>0, <1>7, OnlyMain DEF StopHandle, Opening, PlacesInv, InPlace, Restoring
  <2> QED
    BY <1>1, <2>1, <2>2
<1>8. CASE EndTriggers
  <2>1. /\ \A u \in Threads : u # "main" => pc'[u] = pc[u]
        /\ pc["main"] = "idle" /\ pc'["main"] \in {pc["main"], "decrement"}
        /\ UNCHANGED <<file, backup, counter>>
    BY <1>0, <1>8, Goes DEF EndTriggers, NextTrigger
  <2> QED
    BY <1>1, <2>1
<1>5. CASE HandleLine
  BY <1>0, <1>5, <1>13 DEF HandleLine, WritesInv
<1>20. CASE StartTimer
  BY <1>0, <1>20 DEF StartTimer, WritesInv
<1>21. CASE ResetRequest
  BY <1>0, <1>21 DEF ResetRequest, WritesInv
<1>6. CASE EndOfOutput
  BY <1>6, <1>13 DEF EndOfOutput
<1>9. CASE StopTimer
  BY <1>9, <1>13 DEF StopTimer
<1>10. CASE Reread
  BY <1>10, <1>13 DEF Reread
<1>11. ASSUME NEW obeys \in BOOLEAN, SolverEnds(obeys)
       PROVE  UsersInv'
  BY <1>11, <1>13 DEF SolverEnds
<1>12. CASE UNCHANGED vars
  BY <1>12, <1>13 DEF vars
<1> QED
  BY <1>2, <1>3, <1>4, <1>5, <1>6, <1>7, <1>8, <1>9, <1>10, <1>11, <1>12, <1>20, <1>21
  DEF Next, Main

(* With one request to stop, the count is exactly what is due.             *)
LEMMA TallyStep ==
    ASSUME IInv, [Next]_vars, InOrder'
    PROVE  TallyInv'
<1> USE DEF fileVars, runnerVars, threadVars, mainVars, pollVars, solverVars, countVars, otherVars
<1>0. /\ InOrder /\ TypeOK /\ WritesInv /\ PlacesInv /\ TallyInv /\ scenario.writes = 0
      /\ ~late /\ Counted' /\ NoEntry \notin Int /\ Due \in Nat
  <2>1. Counted'
    BY DEF InOrder, Counted
  <2> QED
    BY <2>1, History, DueType, NoValueAssumption DEF IInv, InOrder, ExactInv
<1> "main" \in Requesters /\ Timers \subseteq Threads /\ Requesters \subseteq Threads
  BY DEF Threads, Requesters
<1>1. Settled
  BY <1>0, DueStep
<1>2. ASSUME counter' \in Int
      PROVE  counter' = Due'
  BY <1>0, <1>1, <1>2 DEF Settled, TallyInv, TypeOK
<1>3. ASSUME Step("main"), counter' \in Int
      PROVE  Due' > 0 \/ pc'["main"] \in Ending
  <2>1. CASE Subtract("main")
    BY <1>0, <2>1, Goes DEF Subtract, Ending
  <2>2. CASE Test("main")
    <3>1. counter \in Int /\ counter' = counter
      BY <1>0, <2>2, NothingRaised DEF Test, Ending
    <3>2. counter = 0 => pc'["main"] = "putBack"
      BY <1>0, <2>2, <3>1, Goes DEF Test
    <3>3. counter \in Nat
      BY <1>0, <3>1 DEF TallyInv
    <3> QED
      BY <1>2, <1>3, <3>1, <3>2, <3>3 DEF Ending
  <2>3. CASE PutBack("main") \/ Remove("main")
    <3>1. pc'["main"] \in {"remove", "delete"}
      BY <1>0, <2>3, Goes, NothingRaised DEF PutBack, Remove
    <3> QED
      BY <3>1 DEF Ending
  <2>5. CASE Delete("main")
    BY <1>0, <1>3, <2>5, NothingRaised DEF Delete, Ending
  <2>6. CASE Add("main")
    <3>1. counter \in Int /\ counter' = counter + 1
      BY <1>0, <2>6, Storing, AddsToCount DEF Add, IInv, MeantInv, InOrder
    <3>2. counter \in Nat
      BY <1>0, <3>1 DEF TallyInv
    <3> QED
      BY <1>2, <1>3, <3>1, <3>2
  <2>4. CASE ~Subtract("main") /\ ~Test("main") /\ ~PutBack("main") /\ ~Remove("main")
             /\ ~Delete("main") /\ ~Add("main")
    <3>1. pc["main"] \notin Ending
      BY <1>3, <2>4 DEF Step, StopSet, Count, First, Copy, Assign, Read, Rename,
         Requested, Decrement, Fire, SetNone, Ending
    <3>2. counter' = counter \/ counter' = 1
      BY <1>0, <1>3, <2>4 DEF Step, TypeOK, StopSet, Count, Store, First, Copy, Assign,
         Read, Rename, Requested, Decrement, Fire, SetNone
    <3> QED
      BY <1>0, <1>2, <1>3, <3>1, <3>2 DEF TallyInv
  <2> QED
    BY <2>1, <2>2, <2>3, <2>4, <2>5, <2>6
<1>4. ASSUME ~Step("main"), counter' \in Int
      PROVE  Due' > 0 \/ pc'["main"] \in Ending
  <2>1. pc["main"] \in Ending => pc'["main"] = pc["main"]
    <3>1. ASSUME pc["main"] \in Ending PROVE pc'["main"] = pc["main"]
      <4>1. /\ phase = "triggers" /\ pc["main"] \notin {"idle", "startTimer", "resetRequest"}
            /\ ~writeRequested
        BY <1>0, <3>1 DEF PlacesInv, InPlace, Restoring, WritesInv, Ending
      <4>2. ASSUME NEW t \in Requesters, NEW r \in StopRequests, BeginStop(t, r)
            PROVE  pc'["main"] = pc["main"]
        BY <1>0, <4>1, <4>2, Begins DEF BeginStop, Accepts
      <4>3. ASSUME NEW t \in Requesters, BeginWrite(t) PROVE FALSE
        BY <1>0, <4>3, WriteSlots
      <4>4. ASSUME NEW t \in Threads, Step(t)
            PROVE  pc'["main"] = pc["main"]
        BY <1>0, <1>4, <4>4, Alone
      <4>5. Main => FALSE
        BY <4>1 DEF Main, HandleLine, StartTimer, ResetRequest, EndOfOutput, StopHandle,
           EndTriggers
      <4>6. StopTimer \/ Reread \/ SolverEnds(TRUE) \/ SolverEnds(FALSE) \/ UNCHANGED vars
              => pc' = pc
        BY DEF StopTimer, Reread, SolverEnds, vars
      <4> QED
        BY <4>2, <4>3, <4>4, <4>5, <4>6 DEF Next
    <3> QED
      BY <3>1
  <2>2. ASSUME NEW t \in Threads, Step(t)
        PROVE  \/ counter' = counter
               \/ counter \in Int /\ counter' = counter + 1
               \/ counter' = 1
    <3>1. t \in Requesters /\ t # "main"
      BY <1>0, <1>4, <2>2, NoTimers
    <3>2. pc[t] \notin Restoring
      BY <1>0, <3>1, Kinds DEF PlacesInv, InPlace, ServantPlaces, Asking, Opening,
         Replacing, Restoring
    <3>3. CASE Add(t)
      BY <1>0, <3>1, <3>3, Storing, AddsToCount DEF Add, IInv, MeantInv, InOrder
    <3>4. CASE ~Add(t)
      BY <1>0, <2>2, <3>2, <3>4 DEF Step, Restoring, StopSet, Count, Store, First, Copy,
         Assign, Read, Rename, Requested, Decrement, Subtract, Test, PutBack, Remove,
         Delete, Fire, SetNone
    <3> QED
      BY <3>3, <3>4
  <2>3. (\E t \in Threads : Step(t)) \/ counter' = counter
    BY DEF Next, Main, BeginStop, BeginWrite, HandleLine, StartTimer, ResetRequest,
           EndOfOutput, StopHandle,
           EndTriggers, StopTimer, Reread, SolverEnds, vars
  <2>4. \/ counter' = counter
        \/ counter \in Int /\ counter' = counter + 1
        \/ counter' = 1
    BY <2>2, <2>3
  <2> QED
    BY <1>0, <1>2, <1>4, <2>1, <2>4 DEF TallyInv
<1> QED
  BY <1>2, <1>3, <1>4 DEF TallyInv

(* Every step keeps the exact count of a run with one request to stop.     *)
LEMMA ExactStep ==
    ASSUME IInv, [Next]_vars
    PROVE  ExactInv'
  BY StopperStep, UsersStep, TallyStep DEF ExactInv

(* Every step takes the single write from one stage to the next.           *)
LEMMA WriteStep ==
    ASSUME IInv, [Next]_vars
    PROVE  WriteInv'
<1> USE DEF fileVars, runnerVars, threadVars, mainVars, pollVars, solverVars, countVars, otherVars
<1> SUFFICES ASSUME OneWrite'
             PROVE  WriteInv'
  BY DEF WriteInv
<1>0. /\ scenario' = scenario /\ TypeOK /\ ListsInv /\ PlacesInv /\ NoEntry \notin Int
      /\ ~stopMe /\ triggersLeft = 0 /\ pc["main"] \notin Restoring
      /\ \A t \in Threads : StageInv(t)
      /\ \A t, u \in Threads : Active(t) /\ Active(u) => t = u
      /\ Pending => Held /\ \A t \in Threads : ~Active(t)
      /\ ~Pending /\ (\A t \in Threads : ~Active(t)) => Fresh
      /\ pc["main"] = "resetRequest" => \A t \in Requesters : ~Active(t)
      /\ pc["main"] \in {"startTimer", "resetRequest"} => writeRequested
      /\ ~isRestarted /\ scenario.writes = 1
      /\ \A t \in Requesters : scenario.asks[t] \subseteq {"write"}
  <2>1. scenario' = scenario
    BY History DEF IInv
  <2>2. OneWrite
    BY <2>1 DEF OneWrite, OneKind, isRestarted
  <2>3. ~isRestarted /\ \A t \in Requesters : scenario.asks[t] \subseteq {"write"}
    BY <2>2 DEF OneWrite, OneKind
  <2> QED
    BY <2>1, <2>2, <2>3, NoValueAssumption DEF IInv, WriteInv, OneWrite, TimerInv
<1> "main" \in Requesters /\ Timers \subseteq Threads /\ Requesters \subseteq Threads
  BY DEF Threads, Requesters
<1>1. ASSUME UNCHANGED <<file, backup, counter, runnerVars, pc, todo, timerArg, triggersLeft,
                        loaded>>
      PROVE  WriteInv'
  BY <1>0, <1>1 DEF WriteInv, Active, StageInv, Fresh, Held, Unmodified, Pending, Passive
<1>2. ASSUME NEW t \in Requesters, NEW r \in StopRequests, BeginStop(t, r)
      PROVE  WriteInv'
  <2>1. r \in scenario.asks[t] /\ r # "write"
    BY <1>2 DEF BeginStop, StopRequests
  <2> QED
    BY <1>0, <2>1
<1>3. ASSUME NEW t \in Requesters, BeginWrite(t)
      PROVE  WriteInv'
  <2>1. Begin(t, "count", WriteTodo) /\ ~writeRequested
        /\ UNCHANGED <<file, backup, counter, runnerVars, timerArg, triggersLeft>>
    BY <1>0, <1>3 DEF BeginWrite, WriteTodo
  <2>2. /\ \A u \in Requesters : ~Writing(u)
        /\ \A u \in Timers : pc[u] = "unset"
    BY <1>0, <1>3, WriteSlots
  <2>3. ASSUME NEW u \in Requesters PROVE ~Active(u)
    <3>1. (todo[u] = <<>> /\ pc[u] # "requested") \/ todo[u] = StopTodo
      BY <2>2, <2>3 DEF Writing, Busy, StopTodo
    <3>2. todo[u] # StopTodo /\ pc[u] # "stopSet" /\ (pc[u] = "dead" => u \in Timers)
      BY <1>0, <2>3 DEF StageInv
    <3>3. pc[u] \notin Opening \cup Replacing
      BY <1>0, <2>3, <3>1, <3>2, Todos DEF ListsInv, HasList
    <3>4. pc[u] \in MainPlaces /\ u \notin Timers /\ (u # "main" => pc[u] \notin Restoring)
      BY <1>0, <2>3, Kinds DEF PlacesInv, InPlace, ServantPlaces, MainPlaces,
         Asking, Opening, Replacing, Restoring
    <3> QED
      BY <1>0, <3>1, <3>2, <3>3, <3>4 DEF MainPlaces, ServantPlaces, Asking, Active, Passive
  <2>4. \A u \in Threads : ~Active(u)
    BY <2>2, <2>3, Kinds DEF Active, Passive
  <2>5. Fresh
    BY <1>0, <2>1, <2>4 DEF Pending
  <2>6. /\ pc'[t] = "count" /\ todo'[t] # StopTodo /\ t \in Threads
        /\ \A u \in Threads : u # t => pc'[u] = pc[u] /\ todo'[u] = todo[u]
    BY <1>0, <2>1, Begins, Todos
  <2>7. \A u \in Threads : StageInv(u)'
    <3>1. StageInv(t)'
      BY <2>1, <2>5, <2>6 DEF StageInv, Fresh, Unmodified, Ending
    <3>2. ASSUME NEW u \in Threads, u # t PROVE StageInv(u)'
      <4>1. pc'[u] \in Passive /\ todo'[u] # StopTodo
        BY <1>0, <2>4, <2>6, <3>2 DEF Active, StageInv
      <4> QED
        BY <4>1 DEF StageInv, Passive, Ending
    <3> QED
      BY <3>1, <3>2
  <2>8. /\ Active(t)' /\ \A u \in Threads : u # t => ~Active(u)'
    BY <2>4, <2>6 DEF Active, Passive
  <2>9. pc'["main"] \notin {"resetRequest"} \cup Restoring /\ ~Pending'
    BY <1>0, <2>1, <2>6 DEF Restoring, Pending
  <2> QED
    BY <1>0, <2>1, <2>6, <2>7, <2>8, <2>9 DEF WriteInv
<1>4. ASSUME NEW t \in Threads, Step(t)
      PROVE  WriteInv'
  <2>1. Active(t) /\ StageInv(t)
    BY <1>0, <1>4 DEF Step, Active, Passive, StopSet, Count, Load, Store, Add, First, Copy, Assign, Read,
       Rename, Requested, Decrement, Subtract, Test, PutBack, Remove, Delete, Fire, SetNone
  <2>2. ~Pending /\ \A u \in Threads : u # t => pc[u] \in Passive /\ todo[u] # StopTodo
    BY <1>0, <2>1 DEF Active, StageInv
  <2>3. \A u \in Threads : u # t => /\ pc'[u] \in Passive /\ todo'[u] # StopTodo
                                    /\ pc'[u] = pc[u]
    BY <1>0, <1>4, <2>2, Alone
  <2>19. /\ pc'["main"] = "resetRequest" => pc["main"] = "resetRequest" /\ t \notin Requesters
         /\ writeRequested' = writeRequested => (Pending' <=> Pending)
    BY <1>0, <1>4, <2>1, AtReset DEF Pending
  <2>4. UNCHANGED <<triggersLeft, timerArg>>
    BY <1>4 DEF Step
  <2>5. ASSUME StageInv(t)', Active(t)', ~stopMe', writeRequested' = writeRequested,
               t = "main" => pc'[t] \notin Restoring
        PROVE  WriteInv'
    <3>1. \A u \in Threads : StageInv(u)'
      BY <2>3, <2>5 DEF StageInv, Passive, Ending
    <3>2. \A u \in Threads : u # t => ~Active(u)'
      BY <2>3 DEF Active
    <3>3. pc'["main"] \notin Restoring
      BY <2>3, <2>5 DEF Restoring, Passive
    <3> QED
      BY <1>0, <2>2, <2>4, <2>5, <2>19, <3>1, <3>2, <3>3 DEF WriteInv
  <2>6. CASE StopSet(t)
    BY <2>1, <2>6 DEF StopSet, StageInv
  <2>7. CASE Count(t)
    <3>1. pc'[t] = "first" /\ UNCHANGED <<file, backup, counter, runnerVars, todo>>
      BY <1>0, <2>1, <2>7, Goes DEF Count, NoRaise, StageInv, Fresh, Held, Unmodified
    <3>2. StageInv(t)'
      BY <2>1, <2>7, <3>1 DEF Count, StageInv, Fresh, Held, Unmodified, Ending
    <3> QED
      BY <1>0, <2>5, <3>1, <3>2 DEF Active, Passive, Restoring
  <2>8. CASE First(t)
    <3>1. pc'[t] = "copy" /\ counter' = 1 /\ UNCHANGED <<file, backup, runnerVars, todo>>
      BY <1>0, <2>8, Goes, Storing DEF First, NoRaise
    <3>2. StageInv(t)'
      BY <2>1, <2>8, <3>1 DEF First, StageInv, Fresh, Held, Unmodified, Ending
    <3> QED
      BY <1>0, <2>5, <3>1, <3>2 DEF Active, Passive, Restoring
  <2>9. CASE Copy(t)
    <3>1. pc'[t] = "assign" /\ backup' = file /\ UNCHANGED <<file, counter, runnerVars, todo>>
      BY <1>0, <2>9, Goes DEF Copy, NoRaise
    <3>2. StageInv(t)'
      BY <2>1, <2>9, <3>1 DEF Copy, StageInv, Fresh, Held, Unmodified, Ending
    <3> QED
      BY <1>0, <2>5, <3>1, <3>2 DEF Active, Passive, Restoring
  <2>10. CASE Assign(t)
    <3>1. pc'[t] = "read" /\ controlDict'
          /\ UNCHANGED <<file, backup, counter, stopMe, writeRequested, todo>>
      BY <1>0, <2>10, Goes DEF Assign, NoRaise
    <3>2. StageInv(t)'
      BY <2>1, <2>10, <3>1 DEF Assign, StageInv, Fresh, Held, Unmodified, Ending
    <3> QED
      BY <1>0, <2>5, <3>1, <3>2 DEF Active, Passive, Restoring
  <2>11. CASE Read(t)
    <3>1. pc'[t] = "rename" /\ UNCHANGED <<file, backup, counter, runnerVars, todo>>
      BY <1>0, <2>1, <2>11, Goes DEF Read, NoRaise, StageInv, Fresh, Held, Unmodified
    <3>2. StageInv(t)'
      BY <2>1, <2>11, <3>1 DEF Read, StageInv, Fresh, Held, Unmodified, Ending
    <3> QED
      BY <1>0, <2>5, <3>1, <3>2 DEF Active, Passive, Restoring
  <2>12. CASE Rename(t)
    <3>1. /\ todo[t] \in {WriteTodo, LastTodo} /\ todo'[t] = Tail(todo[t])
          /\ UNCHANGED <<backup, counter, runnerVars>>
      BY <1>0, <2>1, <2>12 DEF Rename, TypeOK, ListsInv, HasList, Replacing, StageInv
    <3>2. pc'[t] \in {"read", "requested"}
      <4>1. pc'[t] = (CASE Len(todo[t]) > 1 -> "read"
                        [] Writing(t) /\ Len(todo[t]) = 1 -> "requested"
                        [] OTHER -> "idle")
        BY <1>0, <2>12, Goes DEF Rename
      <4>2. todo[t] = LastTodo => Writing(t)
        BY Todos DEF Writing, Busy, StopTodo
      <4> QED
        BY <3>1, <4>1, <4>2, Todos
    <3>3. StageInv(t)'
      BY <2>1, <2>12, <3>1, <3>2, Todos DEF Rename, StageInv, Fresh, Held, Unmodified, Ending
    <3> QED
      BY <1>0, <2>5, <3>1, <3>2, <3>3 DEF Active, Passive, Restoring
  <2>13. CASE Requested(t)
    <3>1. /\ pc[t] = "requested" /\ pc'[t] = "idle" /\ writeRequested'
          /\ UNCHANGED <<file, backup, counter, controlDict, stopMe, todo>>
      BY <1>0, <2>13, Goes DEF Requested, NoRaise
    <3>2. Held'
      BY <2>1, <3>1 DEF StageInv, Held
    <3>3. \A u \in Threads : pc'[u] \in Passive /\ todo'[u] # StopTodo
      BY <2>1, <2>3, <3>1 DEF StageInv, Passive
    <3>4. \A u \in Threads : ~Active(u)' /\ StageInv(u)'
      BY <3>3 DEF Active, Passive, StageInv, Ending
    <3>5. pc'["main"] # "resetRequest"
      <4>1. t \in Requesters
        BY <1>0, <3>1, Kinds DEF PlacesInv, InPlace, TimerPlaces, Restoring
      <4> QED
        BY <2>19, <4>1
    <3>6. Pending' /\ pc'["main"] \notin Restoring
      BY <3>1, <3>3, <3>5 DEF Pending, Passive, Restoring
    <3> QED
      BY <1>0, <2>4, <3>1, <3>2, <3>4, <3>5, <3>6 DEF WriteInv
  <2>20. ASSUME pc[t] \in Restoring
         PROVE  t \in Timers /\ t # "main"
    BY <1>0, <2>20, Kinds DEF PlacesInv, InPlace, MainPlaces, ServantPlaces, Asking,
       Opening, Replacing, Restoring
  <2>14. CASE Decrement(t)
    <3>1. pc[t] = "decrement" /\ Held
      BY <2>1, <2>14 DEF Decrement, StageInv
    <3>2. /\ pc'[t] = "subtract" /\ loaded'[t] = counter
          /\ UNCHANGED <<file, backup, counter, runnerVars, todo>>
      BY <1>0, <2>14, <3>1, Goes, Loads DEF Decrement, NoRaise, Held
    <3>3. StageInv(t)'
      BY <2>1, <3>1, <3>2 DEF StageInv, Held, Ending
    <3> QED
      BY <1>0, <2>5, <2>20, <3>1, <3>2, <3>3 DEF Active, Passive, Restoring
  <2>21. CASE Subtract(t)
    <3>1. pc[t] = "subtract" /\ Held /\ loaded[t] = 1
      BY <2>1, <2>21 DEF Subtract, StageInv
    <3>2. /\ pc'[t] = "test" /\ counter' = 0
          /\ UNCHANGED <<file, backup, runnerVars, todo>>
      BY <1>0, <2>21, <3>1, Goes, Storing DEF Subtract, NoRaise
    <3>3. StageInv(t)'
      BY <2>1, <3>1, <3>2 DEF StageInv, Held, Ending
    <3> QED
      BY <1>0, <2>5, <2>20, <3>1, <3>2, <3>3 DEF Active, Passive, Restoring
  <2>15. CASE Test(t)
    <3>1. pc[t] = "test" /\ counter = 0 /\ controlDict /\ backup = {}
      BY <2>1, <2>15 DEF Test, StageInv, Ending
    <3>2. /\ pc'[t] = "putBack"
          /\ UNCHANGED <<file, backup, counter, runnerVars, todo>>
      BY <1>0, <2>15, <3>1, Goes DEF Test, NoRaise
    <3>3. StageInv(t)'
      BY <2>1, <3>1, <3>2 DEF StageInv, Ending
    <3> QED
      BY <1>0, <2>5, <2>20, <3>1, <3>2, <3>3 DEF Active, Passive, Restoring
  <2>16. CASE PutBack(t)
    <3>1. pc[t] = "putBack" /\ counter = 0 /\ controlDict /\ backup = {} /\ backup # NoFile
      BY <2>1, <2>16, NoValueAssumption DEF PutBack, StageInv, Ending
    <3>2. /\ pc'[t] = "remove" /\ file' = {}
          /\ UNCHANGED <<backup, counter, runnerVars, todo>>
      BY <1>0, <2>16, <3>1, Goes DEF PutBack, NoRaise
    <3>3. StageInv(t)'
      BY <2>1, <3>1, <3>2 DEF StageInv, Ending
    <3> QED
      BY <1>0, <2>5, <2>20, <3>1, <3>2, <3>3 DEF Active, Passive, Restoring
  <2>22. CASE Remove(t)
    <3>1. pc[t] = "remove" /\ counter = 0 /\ controlDict /\ file = {}
      BY <2>1, <2>22 DEF Remove, StageInv, Ending
    <3>2. /\ pc'[t] = "delete" /\ backup' = NoFile
          /\ UNCHANGED <<file, counter, runnerVars, todo>>
      BY <1>0, <2>22, Goes DEF Remove, NoRaise
    <3>3. StageInv(t)'
      BY <2>1, <3>1, <3>2 DEF StageInv, Ending
    <3> QED
      BY <1>0, <2>5, <2>20, <3>1, <3>2, <3>3 DEF Active, Passive, Restoring
  <2>23. CASE Delete(t)
    <3>1. pc[t] = "delete" /\ counter = 0 /\ file = {} /\ backup = NoFile
      BY <2>1, <2>23 DEF Delete, StageInv, Ending
    <3>2. /\ pc'[t] = "setNone" /\ counter' = NoEntry
          /\ UNCHANGED <<file, backup, runnerVars, todo>>
      BY <1>0, <2>20, <2>23, <3>1, Goes DEF Delete, NoRaise, AfterRestore, Restoring
    <3>3. StageInv(t)'
      BY <2>1, <3>1, <3>2 DEF StageInv, Ending, Unmodified
    <3> QED
      BY <1>0, <2>5, <2>20, <3>1, <3>2, <3>3 DEF Active, Passive, Restoring
  <2>24. CASE Add(t)
    BY <2>1, <2>24 DEF Add, StageInv
  <2>17. CASE Fire(t)
    <3>1. /\ pc[t] = "waiting" /\ pc'[t] = "decrement"
          /\ UNCHANGED <<file, backup, counter, runnerVars, todo>>
      BY <1>0, <2>1, <2>17, Goes DEF Fire, NoRaise, StageInv
    <3>2. t # "main"
      BY <1>0, <3>1 DEF PlacesInv, InPlace, MainPlaces, ServantPlaces, Asking,
         Opening, Replacing, Restoring
    <3>3. StageInv(t)'
      BY <2>1, <3>1 DEF StageInv, Fresh, Held, Unmodified, Ending
    <3> QED
      BY <1>0, <2>5, <3>1, <3>2, <3>3 DEF Active, Passive
  <2>18. CASE SetNone(t)
    <3>1. /\ pc[t] = "setNone" /\ pc'[t] = "dead" /\ ~controlDict'
          /\ UNCHANGED <<file, backup, counter, stopMe, writeRequested, todo>>
      BY <1>0, <2>18, Goes DEF SetNone, NoRaise
    <3>2. t \in Timers
      BY <1>0, <3>1, Kinds DEF PlacesInv, InPlace, MainPlaces, ServantPlaces,
         Asking, Opening, Replacing, Restoring
    <3>3. StageInv(t)'
      BY <2>1, <3>1, <3>2 DEF StageInv, Fresh, Held, Unmodified, Ending
    <3> QED
      BY <1>0, <2>5, <3>1, <3>2, <3>3, Kinds DEF Active, Passive, Restoring
  <2> QED
    BY <1>4, <2>6, <2>7, <2>8, <2>9, <2>10, <2>11, <2>12, <2>13, <2>14, <2>15,
       <2>16, <2>17, <2>18, <2>21, <2>22, <2>23, <2>24 DEF Step
<1>5. CASE HandleLine
  <2>1. CASE ~writeRequested
    BY <1>1, <1>5, <2>1 DEF HandleLine
  <2>2. CASE writeRequested
    <3>1. pc["main"] = "idle" /\ Goto("main", "startTimer")
          /\ UNCHANGED <<file, backup, counter, runnerVars, todo, timerArg, triggersLeft, loaded>>
      BY <1>5, <2>2 DEF HandleLine
    <3>2. pc'["main"] = "startTimer" /\ \A u \in Threads : u # "main" => pc'[u] = pc[u]
      BY <1>0, <3>1, Goes
    <3>3. \A u \in Threads : (Active(u)' <=> Active(u)) /\ StageInv(u)'
      BY <1>0, <3>1, <3>2 DEF Active, Passive, StageInv, Fresh, Held, Unmodified, Ending
    <3>4. (Pending' <=> Pending) /\ pc'["main"] \notin {"resetRequest"} \cup Restoring
      BY <3>1, <3>2 DEF Pending, Restoring
    <3> QED
      BY <1>0, <3>1, <3>3, <3>4 DEF WriteInv, Fresh, Held, Unmodified
  <2> QED
    BY <2>1, <2>2
<1>20. CASE StartTimer
  <2>1. PICK t \in Timers :
           /\ pc' = [pc EXCEPT ![t] = "waiting", !["main"] = "resetRequest"]
           /\ timerArg' = [timerArg EXCEPT ![t] = controlDict]
    BY <1>20 DEF StartTimer
  <2>2. UNCHANGED <<file, backup, counter, runnerVars, todo, triggersLeft>>
    BY <1>20 DEF StartTimer
  <2>3. Held /\ \A u \in Threads : ~Active(u)
    BY <1>0, <1>20 DEF StartTimer, Pending
  <2>4. /\ pc'[t] = "waiting" /\ timerArg'[t] = controlDict /\ pc'["main"] = "resetRequest"
        /\ t # "main" /\ \A u \in Threads : u # t /\ u # "main" => pc'[u] = pc[u]
    BY <1>0, <2>1, Kinds DEF TypeOK
  <2>5. StageInv(t)'
    BY <1>0, <2>2, <2>3, <2>4 DEF StageInv, Fresh, Held, Unmodified, Ending
  <2>6. \A u \in Threads : u # t => ~Active(u)' /\ StageInv(u)'
    BY <1>0, <2>2, <2>3, <2>4 DEF Active, Passive, StageInv, Fresh, Held, Unmodified, Ending
  <2>7. Active(t)' /\ pc'["main"] \notin Restoring /\ ~Pending'
    BY <1>0, <2>4 DEF Active, Passive, Restoring, Pending
  <2>8. \A u \in Requesters : u # t
    BY Kinds
  <2> QED
    BY <1>0, <2>2, <2>5, <2>6, <2>7, <2>8 DEF WriteInv
<1>21. CASE ResetRequest
  <2>1. /\ pc["main"] = "resetRequest" /\ ~writeRequested' /\ Goto("main", "idle")
        /\ UNCHANGED <<file, backup, counter, controlDict, stopMe, todo, timerArg, triggersLeft,
                       loaded>>
    BY <1>21 DEF ResetRequest
  <2>2. pc'["main"] = "idle" /\ \A u \in Threads : u # "main" => pc'[u] = pc[u]
    BY <1>0, <2>1, Goes
  <2>3. \A u \in Threads : (Active(u)' <=> Active(u)) /\ StageInv(u)'
    BY <1>0, <2>1, <2>2 DEF Active, Passive, StageInv, Fresh, Held, Unmodified, Ending
  <2>4. ~Pending /\ ~Pending' /\ pc'["main"] \notin {"resetRequest"} \cup Restoring
    BY <2>1, <2>2 DEF Pending, Restoring
  <2> QED
    BY <1>0, <2>1, <2>3, <2>4 DEF WriteInv, Fresh, Held, Unmodified
<1>6. CASE EndOfOutput
  BY <1>6, <1>1 DEF EndOfOutput
<1>7. CASE StopHandle
  BY <1>0, <1>1, <1>7 DEF StopHandle, OwesRestore
<1>8. CASE EndTriggers
  BY <1>0, <1>1, <1>8 DEF EndTriggers, NextTrigger
<1>9. CASE StopTimer
  BY <1>9, <1>1 DEF StopTimer
<1>10. CASE Reread
  BY <1>10, <1>1 DEF Reread
<1>11. ASSUME NEW obeys \in BOOLEAN, SolverEnds(obeys)
       PROVE  WriteInv'
  BY <1>11, <1>1 DEF SolverEnds
<1>12. CASE UNCHANGED vars
  BY <1>12, <1>1 DEF vars
<1> QED
  BY <1>2, <1>3, <1>4, <1>5, <1>6, <1>7, <1>8, <1>9, <1>10, <1>11, <1>12, <1>20, <1>21
  DEF Next, Main

(* The invariant holds when start() begins.                                *)
LEMMA InitInv ==
    ASSUME Init
    PROVE  IInv
<1>0. counter = (IF isRestarted THEN Triggers + 1 ELSE IF Triggers > 0 THEN Triggers ELSE NoEntry)
      /\ backup = (IF counter = NoEntry THEN NoFile ELSE {})
  BY DEF Init
<1>1. scenario \in Scenarios /\ Triggers \in Nat /\ isRestarted \in BOOLEAN
  BY ScenariosAssumption DEF Triggers, isRestarted, Init
<1>3. /\ counter = NoEntry <=> (~isRestarted /\ Triggers = 0)
      /\ ~isRestarted /\ Triggers > 0 => counter = Triggers
      /\ isRestarted => counter = Triggers + 1
      /\ counter \in Int \cup {NoEntry}
  <2>1. CASE isRestarted
    BY <1>0, <1>1, <2>1, NoValueAssumption
  <2>2. CASE ~isRestarted /\ Triggers > 0
    BY <1>0, <1>1, <2>2, NoValueAssumption
  <2>3. CASE ~isRestarted /\ ~(Triggers > 0)
    <3>1. Triggers = 0
      BY <1>1, <2>3
    <3>2. counter = NoEntry
      BY <1>0, <2>3
    <3> QED
      BY <1>1, <2>3, <3>1, <3>2
  <2> QED
    BY <2>1, <2>2, <2>3
<1> USE DEF Init
<1>2. file \subseteq {"startFrom", "trigger"} /\ (~isRestarted => file \subseteq {"trigger"})
      /\ (Triggers > 0 => "trigger" \in file) /\ (~isRestarted /\ Triggers = 0 => file = {})
  BY <1>1
<1>4. /\ \A t \in Requesters : t \in Threads /\ pc[t] = "idle" /\ todo[t] = <<>>
      /\ \A t \in Timers : t \in Threads /\ pc[t] = "unset" /\ todo[t] = <<>>
      /\ \A t \in Threads : pc[t] \in {"idle", "unset"} /\ todo[t] = <<>>
  BY TimersAssumption DEF Threads, Requesters
<1>5. TypeOK
  <2>1. pc \in [Threads -> Labels]
    BY DEF Labels
  <2>2. todo \in [Threads -> Seq(Params)]
    BY Todos
  <2>3. file \subseteq Params
    BY <1>2 DEF Params
  <2>4. lines \in 0..MaxLines /\ triggersLeft \in 0..Triggers
    BY <1>1, BoundsAssumption
  <2>5. controlDict \in BOOLEAN
    BY <1>1
  <2>6. CountTyped
    BY DEF CountTyped
  <2> QED
    BY <1>1, <1>3, <2>1, <2>2, <2>3, <2>4, <2>5, <2>6 DEF TypeOK, CountTyped
<1>6. ListsInv
  BY <1>4 DEF ListsInv, HasList, Opening, Replacing
<1>7. PlacesInv
  BY <1>4, Kinds DEF PlacesInv, InPlace, TimerPlaces, ServantPlaces, MainPlaces,
     Asking, Opening, Replacing, Restoring
<1>17. LoadInv /\ TimerInv /\ MeantInv
  BY <1>4 DEF LoadInv, TimerInv, MeantInv, Threads
<1>8. LateInv
  BY DEF LateInv
<1>9. WritesInv
  BY <1>4 DEF WritesInv, Requesters
<1>10. Due = Triggers + Bit(isRestarted)
  <2>1. Debts = 0
    BY <1>4, <1>5, NoDebts DEF Owes
  <2>2. StopOwed <=> isRestarted
    BY DEF StopOwed
  <2>3. Bit(StopOwed) = Bit(isRestarted) /\ Bit(Pending) = 0 /\ Bit(isRestarted) \in {0, 1}
    BY <2>2, BitOf DEF Pending
  <2> QED
    BY <1>1, <2>1, <2>3 DEF Due
<1>11. (isRestarted => Bit(isRestarted) = 1) /\ (~isRestarted => Bit(isRestarted) = 0)
  BY BitOf
<1>12. CountInv
  BY <1>1, <1>3, <1>10, <1>11, NoValueAssumption DEF CountInv
<1>13. KeptInv
  BY <1>1, <1>2, <1>3, <1>4 DEF KeptInv
<1>14. StopsInv
  BY <1>2, <1>3, <1>4, NoValueAssumption DEF StopsInv, OpenInv, FoundInv, Ending, Replacing,
     Clean, Threads, Requesters
<1>15. ExactInv
  <2>1. StopperInv
    BY <1>4, Todos DEF StopperInv
  <2>2. UsersInv
    <3>1. \A t \in Requesters : pc[t] \notin {"first", "copy"}
      BY <1>4
    <3>2. counter = NoEntry => file = {} /\ backup = NoFile
      BY <1>0, <1>2, <1>3
    <3>3. counter \in Int => backup = {}
      BY <1>0, NoValueAssumption
    <3>4. pc["main"] = "idle"
      BY <1>4 DEF Requesters
    <3> QED
      BY <3>1, <3>2, <3>3, <3>4 DEF UsersInv
  <2>3. TallyInv
    BY <1>1, <1>3, <1>10, <1>11, NoValueAssumption DEF TallyInv
  <2> QED
    BY <2>1, <2>2, <2>3 DEF ExactInv
<1>16. WriteInv
  <2> SUFFICES ASSUME OneWrite
               PROVE  WriteInv
    BY DEF WriteInv
  <2>1. ~isRestarted /\ Triggers = 0
    BY DEF OneWrite, OneKind, Triggers
  <2>2. Fresh /\ triggersLeft = 0
    BY <1>2, <1>3, <2>1 DEF Fresh, Unmodified
  <2>3. \A t \in Threads : StageInv(t) /\ ~Active(t)
    BY <1>4, Todos DEF StageInv, Active, Passive, Ending
  <2>4. pc["main"] \notin {"resetRequest"} \cup Restoring /\ ~Pending
    BY <1>4 DEF Restoring, Threads, Pending
  <2> QED
    BY <2>2, <2>3, <2>4 DEF WriteInv
<1> QED
  BY <1>5, <1>6, <1>7, <1>8, <1>9, <1>12, <1>13, <1>14, <1>15, <1>16, <1>17 DEF IInv

(* Every step keeps the invariant.                                         *)
LEMMA NextInv == IInv /\ [Next]_vars => IInv'
<1> SUFFICES ASSUME IInv, [Next]_vars
             PROVE  IInv'
  OBVIOUS
<1>1. TypeOK /\ ListsInv /\ PlacesInv /\ LoadInv /\ TimerInv /\ LateInv /\ WritesInv
  BY DEF IInv
<1>2. TypeOK' /\ ListsInv' /\ PlacesInv' /\ LoadInv' /\ TimerInv'
  BY <1>1, TypeStep, ListsStep, PlacesStep, LoadStep, TimerStep DEF ShapeInv
<1>3. LateInv' /\ WritesInv'
  BY <1>1, LateStep, WritesStep
<1>4. CountInv' /\ MeantInv' /\ KeptInv' /\ StopsInv' /\ ExactInv' /\ WriteInv'
  BY CountStep, MeantStep, KeptStep, StopsStep, ExactStep, WriteStep
<1> QED
  BY <1>2, <1>3, <1>4 DEF IInv

(* Every state of every behaviour has it.                                  *)
LEMMA SpecInv == Spec => []IInv
<1>1. Init => IInv
  BY InitInv
<1> QED
  BY <1>1, NextInv, PTL DEF Spec

(* Every variable keeps its type, whoever asks for what; the count is any  *)
(* integer or missing.                                                     *)
THEOREM SpecTypeOK == Spec => []TypeOK
<1>1. IInv => TypeOK
  BY DEF IInv
<1> QED
  BY <1>1, SpecInv, PTL

(* While an end trigger holds controlDict, neither a request nor a restore *)
(* puts the original back (BasicRunner.py, FileBasis.py): for any number of*)
(* triggers and requests to stop, even if these lose an update of the      *)
(* count, and for any number of timers and writes as long as none is lost. *)
THEOREM SpecTriggerChangesKept == Spec => []TriggerChangesKept
<1>1. IInv => TriggerChangesKept
  BY DEF IInv, KeptInv, Counted, TriggerChangesKept
<1> QED
  BY <1>1, SpecInv, PTL

(* BasicRunner.start is left by an exception only if a request was under   *)
(* way when the output of the solver ended.                                *)
THEOREM SpecRaisesOnlyWhenLate == Spec => []RaisesOnlyWhenLate
<1>1. ASSUME IInv, OneKind, phase = "raised"
      PROVE  late
  <2>1. pc["main"] = "dead" /\ "main" \in Threads /\ "main" \notin Timers
    BY <1>1, TimersAssumption DEF IInv, PlacesInv, InPlace, Threads, Requesters
  <2>2. CASE scenario.writes = 0
    BY <1>1, <2>2 DEF IInv, StopsInv, FoundInv
  <2>3. CASE scenario.writes # 0
    BY <1>1, <2>1, <2>3 DEF IInv, WriteInv, OneWrite, OneKind, StageInv
  <2> QED
    BY <2>2, <2>3
<1>2. IInv => RaisesOnlyWhenLate
  BY <1>1 DEF RaisesOnlyWhenLate
<1> QED
  BY <1>2, SpecInv, PTL

(* When controlDictUnmodified answers TRUE and no request is being carried *)
(* out, controlDict holds what the user and the end triggers wrote.        *)
THEOREM SpecAnswerIsRight == Spec => []AnswerIsRight
<1>1. ASSUME IInv, OneKind, ~controlDict, \A t \in Requesters : ~Busy(t)
      PROVE  file \subseteq {"trigger"}
  <2>2. CASE scenario.writes = 0
    BY <1>1, <2>2 DEF IInv, StopsInv, OpenInv, Clean
  <2>3. CASE scenario.writes # 0
    <3>1. OneWrite /\ WriteInv /\ ~Pending
      BY <1>1, <2>3 DEF IInv, WriteInv, OneWrite, OneKind, Held
    <3>2. CASE \A t \in Threads : ~Active(t)
      BY <3>1, <3>2 DEF WriteInv, Fresh, Unmodified
    <3>3. ASSUME NEW t \in Threads, Active(t)
          PROVE  file \subseteq {"trigger"}
      <4>1. StageInv(t) /\ (t = "main" => pc[t] \notin Restoring)
        BY <3>1 DEF WriteInv
      <4>2. t \in Timers
        BY <1>1, <3>3, <4>1, Kinds, Todos DEF IInv, ListsInv, HasList, PlacesInv,
           InPlace, ServantPlaces, MainPlaces, Asking, Opening, Replacing, Active,
           Passive, Busy, StageInv
      <4>3. pc[t] \in {"setNone", "dead"}
        BY <1>1, <3>3, <4>1, <4>2 DEF IInv, PlacesInv, InPlace, TimerPlaces,
           Restoring, Active, Passive, StageInv, Held, Ending
      <4> QED
        BY <4>1, <4>3 DEF StageInv, Fresh, Unmodified
    <3> QED
      BY <3>2, <3>3
  <2> QED
    BY <2>2, <2>3
<1>2. IInv => AnswerIsRight
  BY <1>1 DEF AnswerIsRight
<1> QED
  BY <1>2, SpecInv, PTL

(* After a run in which no request came late and no two opened controlDict *)
(* at a time, controlDict is the user's again, without a copy or a count.  *)
THEOREM SpecRestoredAfterRun == Spec => []RestoredAfterRun
<1>1. ASSUME IInv, OneKind, phase = "done", ~late, ~overlap, TimersIdle, ~writeRequested
      PROVE  Unmodified
  <2>1. \A t \in Requesters : ~Busy(t) /\ t \in Threads
    BY <1>1 DEF IInv, LateInv, Threads
  <2>2. \A t \in Requesters : pc[t] \in {"idle", "dead"}
    BY <1>1, <2>1, Kinds, Todos DEF IInv, ListsInv, HasList, PlacesInv, InPlace,
       ServantPlaces, MainPlaces, Asking, Opening, Replacing, Restoring, Busy
  <2>3. CASE scenario.writes = 0
    <3>1. InOrder
      BY <1>1, <2>3 DEF InOrder
    <3>2. \A t \in Threads : ~Owes(t)
      BY <1>1, <2>2, Kinds DEF TimersIdle, Owes
    <3>3. Debts = 0 /\ triggersLeft = 0 /\ ~StopOwed
      BY <1>1, <3>2, NoDebts DEF IInv, LateInv, StopOwed
    <3>4. Bit(StopOwed) = 0 /\ Bit(Pending) = 0
      <4>1. ~StopOwed /\ ~Pending
        BY <1>1, <3>3 DEF Pending
      <4> QED
        BY <4>1, Zenon DEF Bit
    <3>5. Due = 0
      BY <3>3, <3>4 DEF Due
    <3>6. pc["main"] \notin Ending
      BY <2>2 DEF Requesters, Ending
    <3>7. counter \notin Int
      BY <1>1, <3>1, <3>5, <3>6 DEF IInv, ExactInv, TallyInv
    <3> QED
      BY <1>1, <3>1, <3>7 DEF IInv, TypeOK, ExactInv, UsersInv, Unmodified
  <2>4. CASE scenario.writes # 0
    <3>1. OneWrite /\ WriteInv
      BY <1>1, <2>4 DEF IInv, OneWrite, OneKind
    <3>2. CASE \A t \in Threads : ~Active(t)
      BY <1>1, <3>1, <3>2 DEF WriteInv, Fresh, Pending
    <3>3. ASSUME NEW t \in Threads, Active(t)
          PROVE  Unmodified
      <4>1. pc[t] = "dead"
        BY <1>1, <2>2, <3>3, Kinds DEF Active, Passive, TimersIdle
      <4> QED
        BY <3>1, <4>1 DEF WriteInv, StageInv, Fresh
    <3> QED
      BY <3>2, <3>3
  <2> QED
    BY <2>3, <2>4
<1>2. IInv => RestoredAfterRun
  BY <1>1 DEF RestoredAfterRun
<1> QED
  BY <1>2, SpecInv, PTL

=========================================================================
