------------------------ MODULE FoamThreadProofs ------------------------
(***************************************************************************)
(* Proofs about FoamThread for any number of lines and any pipe, with a    *)
(* kill by the server and Ctrl-C at any place.                             *)
(***************************************************************************)
EXTENDS FoamThread, TLAPS

(* A thread is in a statement of LineReader.read only while it reads. *)
PlaceInv ==
    /\ main # "read" => at["main"] = "enter"
    /\ run # "drain" => at["run"] = "enter"
    /\ run \in {"start", "wait", "sleep"} => ~shared

(* Nobody passes the lock before the solver is started. *)
StartInv ==
    run = "start" => /\ main \in {"check", "raised"} /\ stateLock = "init"
                     /\ solver = "none" /\ killer # "done"

(* An interrupt of any kind is known to the reader. *)
WasIntInv ==
    /\ ~goOn \/ at["main"] = "clear" \/ killer = "setState" => wasInt
    /\ main \in {"interrupt", "inInterrupt", "broken", "inBroken"} => wasInt
    /\ quiet => ~wasInt

(* An empty line is read only at the end of the file, and whoever of the   *)
(* two finds one in the reader has its end of the file or that of the      *)
(* other.                                                                  *)
IsOver == wasInt \/ EndOfFile
AfterPut == {"type", "decode", "store", "len", "strip", "putStripped"}
BlankInv ==
    /\ \A t \in Threads :
         /\ at[t] \in {"put", "store", "putStripped"} /\ got[t].nr = Blank
              => IsOver
         /\ at[t] \in AfterPut /\ rline.nr = Blank => IsOver
         /\ at[t] \in {"strip", "putStripped"} /\ ~status[t] => IsOver
    /\ \A i \in DOMAIN pipe : pipe[i] # Blank

(* The end is noticed, by whoever sets the state, only at the end of the   *)
(* file or after an interrupt, and main reads no more.                     *)
AfterRead == {"setState", "inState", "copy", "check2"}
Leaving == LoopIsOver \/ (main \in {"copy", "check2"} /\ ~status["main"])
EndInv ==
    /\ main \in AfterRead /\ ~status["main"] => IsOver
    /\ ~say /\ run # "start" => IsOver /\ (wasInt \/ Leaving)
    /\ EndsAtEndOfFile

(* A Ctrl-C is on its way to the handler or through the reader, or it is   *)
(* known.                                                                  *)
KeyInv ==
    /\ keyInt => readerKey
    /\ readerKey \/ dataKey \/ main \in {"interrupt", "inInterrupt"} => pressed
    /\ pressed =>
         \/ dataKey \/ keyInt
         \/ main \in {"interrupt", "inInterrupt", "raised"}
         \/ /\ readerKey /\ wasInt
            /\ \/ at["main"] = "clear"
               \/ ~status["main"] /\ main \in {"setState", "inState"}

(* The lines in the pipe follow those that were read, by whomever. *)
WasRead == emitted - Len(pipe)
PipeInv ==
    /\ Len(pipe) <= emitted
    /\ \A i \in 1..Len(pipe) : pipe[i] = WasRead + i

(* While main reads alone, the log holds what was read but for the line    *)
(* that main has in hand.                                                  *)
Alone == quiet \/ ~shared
AllLogged == Len(log) = WasRead
InHand(n) == n = WasRead /\ Len(log) + 1 = WasRead
AloneInv ==
    Alone =>
      /\ run = "drain" => LoopIsOver \/ (quiet /\ Leaving)
      /\ ~part["main"]
      /\ \A i \in 1..Len(log) : log[i] = i
      /\ main = "check" /\ (say \/ run = "start") => AllLogged
      /\ main = "read" /\ at["main"] \in {"enter", "readline"} => AllLogged
      /\ at["main"] = "put" =>
           IF got["main"].nr = Blank THEN AllLogged ELSE InHand(got["main"].nr)
      /\ at["main"] \in AfterPut =>
           IF rline.nr = Blank THEN AllLogged ELSE InHand(rline.nr)
      /\ at["main"] \in {"store", "putStripped"} => got["main"].nr = rline.nr
      /\ at["main"] \in {"strip", "putStripped"} =>
           (status["main"] <=> rline.nr # Blank)
      /\ main \in {"setState", "inState", "copy"} /\ status["main"] =>
           InHand(rline.nr)
      /\ main = "check2" /\ status["main"] => InHand(line.nr)
      /\ main \in {"copy", "check2"} /\ ~status["main"] => ~say
      /\ main \in {"handle", "broken", "inBroken", "write"} => InHand(line.nr)

IInv == /\ TypeOK /\ PlaceInv /\ StartInv /\ WasIntInv /\ BlankInv /\ EndInv
        /\ KeyInv /\ PipeInv /\ AloneInv
-------------------------------------------------------------------------
(* What a read takes from the pipe, and what stays there. *)
LEMMA HeadAndTail ==
    ASSUME NEW S, NEW s \in Seq(S), s # <<>>
    PROVE  /\ Head(s) \in S /\ Head(s) = s[1] /\ Tail(s) \in Seq(S)
           /\ Len(s) \in Nat \ {0}
           /\ Len(Tail(s)) = Len(s) - 1
           /\ \A i \in 1..(Len(s) - 1) : Tail(s)[i] = s[i + 1]
  OBVIOUS

(* A line that is added comes last. *)
LEMMA Appended ==
    ASSUME NEW S, NEW s \in Seq(S), NEW x \in S
    PROVE  /\ Append(s, x) \in Seq(S) /\ Len(Append(s, x)) = Len(s) + 1
           /\ DOMAIN s = 1..Len(s) /\ DOMAIN Append(s, x) = 1..(Len(s) + 1)
           /\ \A i \in 1..Len(s) : Append(s, x)[i] = s[i]
           /\ Append(s, x)[Len(s) + 1] = x
  OBVIOUS

(* The line numbers. *)
LEMMA Numbers ==
    /\ Lines \in Nat /\ Torn \in Nat /\ Torn # Blank
    /\ 1..Lines \subseteq 0..Torn /\ Blank \in 0..Torn /\ Torn \in 0..Torn
    /\ \A n \in 0..Torn : Str(n) \in LineType /\ Bytes(n) \in LineType
  BY ConstantsAssumption DEF Torn, Blank, Str, Bytes, LineType

(* A read takes the first line of the pipe, or a part of one, or finds the *)
(* end of the file.                                                        *)
LEMMA ReadLineTakes ==
    ASSUME TypeOK, NEW t \in Threads, ReadLine(t)
    PROVE  \/ /\ pipe # <<>> /\ pipe' = Tail(pipe)
              /\ got' \in {[got EXCEPT ![t] = Bytes(pipe[1])],
                           [got EXCEPT ![t] = Bytes(Torn)]}
           \/ /\ EndOfFile /\ pipe' = pipe
              /\ got' \in {[got EXCEPT ![t] = Bytes(Blank)],
                           [got EXCEPT ![t] = Bytes(Torn)]}
<1>1. pipe # <<>> => Head(pipe) = pipe[1]
  BY HeadAndTail DEF TypeOK
<1> QED
  BY <1>1 DEF ReadLine

(* Types: every step keeps every variable in its range. *)
LEMMA TypeStep ==
    ASSUME IInv, [Next]_vars
    PROVE  TypeOK'
<1> USE DEF IInv, TypeOK, Threads, Places, InTry, Statements, processVars,
            threadVars, flagVars, readVars, mainVars, otherVars
<1>1. CASE Emit
  <2>1. emitted' \in 1..Lines
    BY <1>1, ConstantsAssumption DEF Emit
  <2>2. pipe' \in Seq(1..Lines)
    BY <1>1, <2>1, Appended DEF Emit
  <2> QED
    BY <1>1, <2>1, <2>2 DEF Emit
<1>2. CASE Exit
  BY <1>2 DEF Exit
<1>3. CASE Check
  BY <1>3 DEF Check
<1>4. ASSUME NEW t \in Threads, Enter(t)
      PROVE  TypeOK'
  <2>1. status' \in [Threads -> BOOLEAN]
    BY <1>4, Zenon DEF Enter, Within, GoTo, Return
  <2>2. at' \in [Threads -> Statements]
    BY <1>4 DEF Enter, Within, GoTo, Return, Statements
  <2> QED
    BY <1>4, <2>1, <2>2 DEF Enter, Within, GoTo, Return
<1>5. ASSUME NEW t \in Threads, ReadLine(t)
      PROVE  TypeOK'
  <2>1. pipe' \in Seq(1..Lines) /\ pipe' \in {pipe, Tail(pipe)}
    <3>1. pipe' = pipe \/ (pipe # <<>> /\ pipe' = Tail(pipe))
      BY <1>5 DEF ReadLine
    <3>2. pipe # <<>> => Tail(pipe) \in Seq(1..Lines)
      BY HeadAndTail
    <3> QED
      BY <3>1, <3>2
  <2>2. got' \in [Threads -> LineType]
    <3>1. pipe # <<>> => Head(pipe) \in 0..Torn
      BY HeadAndTail, Numbers
    <3>2. PICK n \in 0..Torn : got' = [got EXCEPT ![t] = Bytes(n)]
      BY <1>5, <3>1, Numbers DEF ReadLine
    <3> QED
      BY <1>5, <3>2, Numbers
  <2>3. part' \in [Threads -> BOOLEAN]
    BY <1>5, Zenon DEF ReadLine
  <2>4. at' \in [Threads -> Statements]
    BY <1>5 DEF ReadLine, GoTo, Statements
  <2> QED
    BY <1>5, <2>1, <2>2, <2>3, <2>4 DEF ReadLine, Within, GoTo
<1>6. ASSUME NEW t \in Threads, Put(t)
      PROVE  TypeOK'
  <2>1. Nothing \in LineType
    BY Numbers DEF Nothing
  <2>2. rline' \in LineType /\ got' \in [Threads -> LineType]
    BY <1>6, <2>1 DEF Put
  <2>3. at' \in [Threads -> Statements]
    BY <1>6 DEF Put, GoTo, Statements
  <2> QED
    BY <1>6, <2>1, <2>2, <2>3 DEF Put, Within, GoTo
<1>7. ASSUME NEW t \in Threads, Type(t)
      PROVE  TypeOK'
  BY <1>7 DEF Type, Within, GoTo
<1>8. ASSUME NEW t \in Threads, Decode(t)
      PROVE  TypeOK'
  <2>1. rline.nr \in 0..Torn
    BY DEF LineType
  <2>2. got' \in [Threads -> LineType]
    BY <1>8, <2>1, Numbers DEF Decode
  <2>3. at' \in [Threads -> Statements]
    BY <1>8 DEF Decode, GoTo, Raise, Statements
  <2> QED
    BY <1>8, <2>1, <2>2, <2>3 DEF Decode, Within, GoTo, Raise
<1>9. ASSUME NEW t \in Threads, Store(t)
      PROVE  TypeOK'
  <2>1. Nothing \in LineType
    BY Numbers DEF Nothing
  <2>2. rline' \in LineType /\ got' \in [Threads -> LineType]
    BY <1>9, <2>1 DEF Store
  <2>3. at' \in [Threads -> Statements]
    BY <1>9 DEF Store, GoTo, Statements
  <2> QED
    BY <1>9, <2>1, <2>2, <2>3 DEF Store, Within, GoTo
<1>10. ASSUME NEW t \in Threads, Measure(t)
       PROVE  TypeOK'
  BY <1>10 DEF Measure, Within, GoTo
<1>11. ASSUME NEW t \in Threads, Strip(t)
       PROVE  TypeOK'
  BY <1>11 DEF Strip, Within, GoTo
<1>12. ASSUME NEW t \in Threads, PutStripped(t)
       PROVE  TypeOK'
  <2>1. Nothing \in LineType
    BY Numbers DEF Nothing
  <2>2. rline' \in LineType /\ got' \in [Threads -> LineType]
    BY <1>12, <2>1 DEF PutStripped
  <2>3. at' \in [Threads -> Statements]
    BY <1>12 DEF PutStripped, Return, Statements
  <2>4. status' \in [Threads -> BOOLEAN]
    BY <1>12, Zenon DEF PutStripped, Return
  <2> QED
    BY <1>12, <2>1, <2>2, <2>3, <2>4 DEF PutStripped, Within, Return
<1>13. CASE Clear
  <2>1. Nothing \in LineType
    BY Numbers DEF Nothing
  <2>2. rline' \in LineType
    BY <1>13, <2>1 DEF Clear
  <2>3. at' \in [Threads -> Statements]
    BY <1>13 DEF Clear, Return, Statements
  <2>4. status' \in [Threads -> BOOLEAN]
    BY <1>13, Zenon DEF Clear, Return
  <2> QED
    BY <1>13, <2>1, <2>2, <2>3, <2>4 DEF Clear, Within, Return
<1>14. CASE Acquire
  BY <1>14 DEF Acquire
<1>15. CASE InState
  BY <1>15 DEF InState, SetState
<1>16. CASE Copy
  BY <1>16 DEF Copy
<1>17. CASE Check2
  BY <1>17 DEF Check2
<1>18. CASE Handle
  <2>1. wasInt' \in BOOLEAN
    BY <1>18, Zenon DEF Handle
  <2> QED
    BY <1>18, <2>1 DEF Handle
<1>19. CASE WriteLog
  <2>1. line.nr \in 0..Torn
    BY DEF LineType
  <2>2. log' \in Seq(0..Torn)
    BY <1>19, <2>1, Appended DEF WriteLog
  <2> QED
    BY <1>19, <2>1, <2>2 DEF WriteLog
<1>20. CASE InInterrupt
  <2>1. say' \in BOOLEAN /\ keyInt' \in BOOLEAN /\ dataKey' \in BOOLEAN
    BY <1>20, Zenon DEF InInterrupt, SetState
  <2>2. solver' \in {"none", "running", "exited"}
    BY <1>20 DEF InInterrupt, SetState
  <2> QED
    BY <1>20, <2>1, <2>2 DEF InInterrupt
<1>21. CASE CtrlCInRead
  <2>1. Nothing \in LineType
    BY Numbers DEF Nothing
  <2>2. got' \in [Threads -> LineType] /\ at' \in [Threads -> Statements]
    BY <1>21, <2>1 DEF CtrlCInRead, Statements
  <2>3. part' \in [Threads -> BOOLEAN]
    BY <1>21, Zenon DEF CtrlCInRead
  <2>4. pressed' \in BOOLEAN /\ wasInt' \in BOOLEAN
        /\ readerKey' \in BOOLEAN /\ goOn' \in BOOLEAN
    BY <1>21, Zenon DEF CtrlCInRead
  <2> QED
    BY <1>21, <2>1, <2>2, <2>3, <2>4 DEF CtrlCInRead
<1>22. CASE CtrlCInBody
  <2>1. Nothing \in LineType
    BY Numbers DEF Nothing
  <2>2. got' \in [Threads -> LineType] /\ at' \in [Threads -> Statements]
    BY <1>22, <2>1 DEF CtrlCInBody, Statements
  <2>3. pressed' \in BOOLEAN /\ wasInt' \in BOOLEAN
    BY <1>22, Zenon DEF CtrlCInBody
  <2> QED
    BY <1>22, <2>1, <2>2, <2>3 DEF CtrlCInBody
<1>23. CASE CtrlCInCondition
  BY <1>23 DEF CtrlCInCondition
<1>24. CASE KillRequest
  BY <1>24 DEF KillRequest
<1>25. CASE KillState
  <2>1. say' \in BOOLEAN /\ keyInt' \in BOOLEAN
    BY <1>25, Zenon DEF KillState, SetState
  <2>2. solver' \in {"none", "running", "exited"}
    BY <1>25 DEF KillState, SetState
  <2> QED
    BY <1>25, <2>1, <2>2 DEF KillState
<1>26. CASE Start
  BY <1>26 DEF Start
<1>27. CASE Wait
  BY <1>27 DEF Wait
<1>28. CASE Wake
  BY <1>28 DEF Wake
<1>29. CASE Stop
  <2>1. pid' \in BOOLEAN
    BY <1>29, Zenon DEF Stop
  <2> QED
    BY <1>29, <2>1 DEF Stop
<1>30. CASE UNCHANGED vars
  BY <1>30 DEF vars
<1> QED
  BY <1>1, <1>2, <1>3, <1>4, <1>5, <1>6, <1>7, <1>8, <1>9, <1>10, <1>11,
     <1>12, <1>13, <1>14, <1>15, <1>16, <1>17, <1>18, <1>19, <1>20, <1>21,
     <1>22, <1>23, <1>24, <1>25, <1>26, <1>27, <1>28, <1>29, <1>30 DEF Next,
     Main, Keyboard, Killer, Run, Reads, Threads

(* Only the two readers are in LineReader.read. *)
LEMMA PlaceStep ==
    ASSUME IInv, [Next]_vars
    PROVE  PlaceInv'
<1> USE DEF IInv, TypeOK, PlaceInv, StartInv, Threads, Places, processVars,
            threadVars, flagVars, readVars, mainVars, otherVars
<1>1. CASE Emit
  BY <1>1 DEF Emit
<1>2. CASE Exit
  BY <1>2 DEF Exit
<1>3. CASE Check
  BY <1>3 DEF Check
<1>4. ASSUME NEW t \in Threads, Enter(t)
      PROVE  PlaceInv'
  BY <1>4 DEF Enter, Within, GoTo, Return
<1>5. ASSUME NEW t \in Threads, ReadLine(t)
      PROVE  PlaceInv'
  BY <1>5 DEF ReadLine, Within, GoTo, Other, Bytes
<1>6. ASSUME NEW t \in Threads, Put(t)
      PROVE  PlaceInv'
  BY <1>6 DEF Put, Within, GoTo, Nothing, Str
<1>7. ASSUME NEW t \in Threads, Type(t)
      PROVE  PlaceInv'
  BY <1>7 DEF Type, Within, GoTo
<1>8. ASSUME NEW t \in Threads, Decode(t)
      PROVE  PlaceInv'
  BY <1>8 DEF Decode, Within, GoTo, Raise, Str
<1>9. ASSUME NEW t \in Threads, Store(t)
      PROVE  PlaceInv'
  BY <1>9 DEF Store, Within, GoTo, Nothing, Str
<1>10. ASSUME NEW t \in Threads, Measure(t)
       PROVE  PlaceInv'
  BY <1>10 DEF Measure, Within, GoTo
<1>11. ASSUME NEW t \in Threads, Strip(t)
       PROVE  PlaceInv'
  BY <1>11 DEF Strip, Within, GoTo
<1>12. ASSUME NEW t \in Threads, PutStripped(t)
       PROVE  PlaceInv'
  BY <1>12 DEF PutStripped, Within, Return, Nothing, Str
<1>13. CASE Clear
  BY <1>13 DEF Clear, Within, Return, Nothing, Str
<1>14. CASE Acquire
  BY <1>14 DEF Acquire
<1>15. CASE InState
  BY <1>15 DEF InState, SetState
<1>16. CASE Copy
  BY <1>16 DEF Copy
<1>17. CASE Check2
  BY <1>17 DEF Check2
<1>18. CASE Handle
  BY <1>18 DEF Handle
<1>19. CASE WriteLog
  BY <1>19 DEF WriteLog
<1>20. CASE InInterrupt
  BY <1>20 DEF InInterrupt, SetState
<1>21. CASE CtrlCInRead
  BY <1>21 DEF CtrlCInRead, InTry, Nothing, Str
<1>22. CASE CtrlCInBody
  BY <1>22 DEF CtrlCInBody, InTry, Nothing, Str
<1>23. CASE CtrlCInCondition
  BY <1>23 DEF CtrlCInCondition
<1>24. CASE KillRequest
  BY <1>24 DEF KillRequest
<1>25. CASE KillState
  BY <1>25 DEF KillState, SetState
<1>26. CASE Start
  BY <1>26 DEF Start
<1>27. CASE Wait
  BY <1>27 DEF Wait
<1>28. CASE Wake
  BY <1>28 DEF Wake
<1>29. CASE Stop
  BY <1>29 DEF Stop
<1>30. CASE UNCHANGED vars
  BY <1>30 DEF vars
<1> QED
  BY <1>1, <1>2, <1>3, <1>4, <1>5, <1>6, <1>7, <1>8, <1>9, <1>10, <1>11,
     <1>12, <1>13, <1>14, <1>15, <1>16, <1>17, <1>18, <1>19, <1>20, <1>21,
     <1>22, <1>23, <1>24, <1>25, <1>26, <1>27, <1>28, <1>29, <1>30 DEF Next,
     Main, Keyboard, Killer, Run, Reads, Threads

(* Main and the server wait for the lock, which only Start releases. *)
LEMMA StartStep ==
    ASSUME IInv, [Next]_vars
    PROVE  StartInv'
<1> USE DEF IInv, TypeOK, StartInv, Places, processVars, threadVars, flagVars,
            readVars, mainVars, otherVars
<1>1. CASE Emit
  BY <1>1 DEF Emit
<1>2. CASE Exit
  BY <1>2 DEF Exit
<1>3. CASE Check
  BY <1>3 DEF Check
<1>4. ASSUME NEW t \in Threads, Enter(t)
      PROVE  StartInv'
  BY <1>4 DEF Enter, Within, GoTo, Return
<1>5. ASSUME NEW t \in Threads, ReadLine(t)
      PROVE  StartInv'
  BY <1>5 DEF ReadLine, Within, GoTo, Other, Bytes
<1>6. ASSUME NEW t \in Threads, Put(t)
      PROVE  StartInv'
  BY <1>6 DEF Put, Within, GoTo, Nothing, Str
<1>7. ASSUME NEW t \in Threads, Type(t)
      PROVE  StartInv'
  BY <1>7 DEF Type, Within, GoTo
<1>8. ASSUME NEW t \in Threads, Decode(t)
      PROVE  StartInv'
  BY <1>8 DEF Decode, Within, GoTo, Raise, Str
<1>9. ASSUME NEW t \in Threads, Store(t)
      PROVE  StartInv'
  BY <1>9 DEF Store, Within, GoTo, Nothing, Str
<1>10. ASSUME NEW t \in Threads, Measure(t)
       PROVE  StartInv'
  BY <1>10 DEF Measure, Within, GoTo
<1>11. ASSUME NEW t \in Threads, Strip(t)
       PROVE  StartInv'
  BY <1>11 DEF Strip, Within, GoTo
<1>12. ASSUME NEW t \in Threads, PutStripped(t)
       PROVE  StartInv'
  BY <1>12 DEF PutStripped, Within, Return, Nothing, Str
<1>13. CASE Clear
  BY <1>13 DEF Clear, Within, Return, Nothing, Str
<1>14. CASE Acquire
  BY <1>14 DEF Acquire
<1>15. CASE InState
  BY <1>15 DEF InState, SetState
<1>16. CASE Copy
  BY <1>16 DEF Copy
<1>17. CASE Check2
  BY <1>17 DEF Check2
<1>18. CASE Handle
  BY <1>18 DEF Handle
<1>19. CASE WriteLog
  BY <1>19 DEF WriteLog
<1>20. CASE InInterrupt
  BY <1>20 DEF InInterrupt, SetState
<1>21. CASE CtrlCInRead
  BY <1>21 DEF CtrlCInRead, InTry, Nothing, Str
<1>22. CASE CtrlCInBody
  BY <1>22, ConstantsAssumption DEF CtrlCInBody, InTry, Nothing, Str
<1>23. CASE CtrlCInCondition
  BY <1>23 DEF CtrlCInCondition
<1>24. CASE KillRequest
  BY <1>24 DEF KillRequest
<1>25. CASE KillState
  BY <1>25 DEF KillState, SetState
<1>26. CASE Start
  BY <1>26 DEF Start
<1>27. CASE Wait
  BY <1>27 DEF Wait
<1>28. CASE Wake
  BY <1>28 DEF Wake
<1>29. CASE Stop
  BY <1>29 DEF Stop
<1>30. CASE UNCHANGED vars
  BY <1>30 DEF vars
<1> QED
  BY <1>1, <1>2, <1>3, <1>4, <1>5, <1>6, <1>7, <1>8, <1>9, <1>10, <1>11,
     <1>12, <1>13, <1>14, <1>15, <1>16, <1>17, <1>18, <1>19, <1>20, <1>21,
     <1>22, <1>23, <1>24, <1>25, <1>26, <1>27, <1>28, <1>29, <1>30 DEF Next,
     Main, Keyboard, Killer, Run, Reads, Threads

(* Every way to close the reader or to call interrupt sets the flag. *)
LEMMA WasIntStep ==
    ASSUME IInv, [Next]_vars
    PROVE  WasIntInv'
<1> USE DEF IInv, TypeOK, PlaceInv, WasIntInv, Threads, Places, InTry,
            processVars, threadVars, flagVars, readVars, mainVars, otherVars
<1>1. CASE Emit
  BY <1>1 DEF Emit
<1>2. CASE Exit
  BY <1>2 DEF Exit
<1>3. CASE Check
  BY <1>3 DEF Check
<1>4. ASSUME NEW t \in Threads, Enter(t)
      PROVE  WasIntInv'
  BY <1>4 DEF Enter, Within, GoTo, Return
<1>5. ASSUME NEW t \in Threads, ReadLine(t)
      PROVE  WasIntInv'
  BY <1>5 DEF ReadLine, Within, GoTo, Other, Bytes
<1>6. ASSUME NEW t \in Threads, Put(t)
      PROVE  WasIntInv'
  BY <1>6 DEF Put, Within, GoTo, Nothing, Str
<1>7. ASSUME NEW t \in Threads, Type(t)
      PROVE  WasIntInv'
  BY <1>7 DEF Type, Within, GoTo
<1>8. ASSUME NEW t \in Threads, Decode(t)
      PROVE  WasIntInv'
  BY <1>8 DEF Decode, Within, GoTo, Raise, Str
<1>9. ASSUME NEW t \in Threads, Store(t)
      PROVE  WasIntInv'
  BY <1>9 DEF Store, Within, GoTo, Nothing, Str
<1>10. ASSUME NEW t \in Threads, Measure(t)
       PROVE  WasIntInv'
  BY <1>10 DEF Measure, Within, GoTo
<1>11. ASSUME NEW t \in Threads, Strip(t)
       PROVE  WasIntInv'
  BY <1>11 DEF Strip, Within, GoTo
<1>12. ASSUME NEW t \in Threads, PutStripped(t)
       PROVE  WasIntInv'
  BY <1>12 DEF PutStripped, Within, Return, Nothing, Str
<1>13. CASE Clear
  BY <1>13 DEF Clear, Within, Return, Nothing, Str
<1>14. CASE Acquire
  BY <1>14 DEF Acquire
<1>15. CASE InState
  BY <1>15 DEF InState, SetState
<1>16. CASE Copy
  BY <1>16 DEF Copy
<1>17. CASE Check2
  BY <1>17 DEF Check2
<1>18. CASE Handle
  BY <1>18 DEF Handle
<1>19. CASE WriteLog
  BY <1>19 DEF WriteLog
<1>20. CASE InInterrupt
  BY <1>20 DEF InInterrupt, SetState
<1>21. CASE CtrlCInRead
  BY <1>21 DEF CtrlCInRead, InTry, Nothing, Str
<1>22. CASE CtrlCInBody
  BY <1>22 DEF CtrlCInBody, InTry, Nothing, Str
<1>23. CASE CtrlCInCondition
  BY <1>23 DEF CtrlCInCondition
<1>24. CASE KillRequest
  BY <1>24 DEF KillRequest
<1>25. CASE KillState
  BY <1>25 DEF KillState, SetState
<1>26. CASE Start
  BY <1>26 DEF Start
<1>27. CASE Wait
  BY <1>27 DEF Wait
<1>28. CASE Wake
  BY <1>28 DEF Wake
<1>29. CASE Stop
  BY <1>29 DEF Stop
<1>30. CASE UNCHANGED vars
  BY <1>30 DEF vars
<1> QED
  BY <1>1, <1>2, <1>3, <1>4, <1>5, <1>6, <1>7, <1>8, <1>9, <1>10, <1>11,
     <1>12, <1>13, <1>14, <1>15, <1>16, <1>17, <1>18, <1>19, <1>20, <1>21,
     <1>22, <1>23, <1>24, <1>25, <1>26, <1>27, <1>28, <1>29, <1>30 DEF Next,
     Main, Keyboard, Killer, Run, Reads, Threads

(* A read that finds no line is at the end of the file. *)
LEMMA BlankStep ==
    ASSUME IInv, [Next]_vars
    PROVE  BlankInv'
<1> USE DEF IInv, TypeOK, PlaceInv, StartInv, WasIntInv, Threads, Places,
            InTry, AfterPut, BlankInv, IsOver, EndOfFile, processVars,
            threadVars, flagVars, readVars, mainVars, otherVars
<1>1. CASE Emit
  <2>1. emitted' \in 1..Lines /\ pipe' = Append(pipe, emitted')
    BY <1>1, ConstantsAssumption DEF Emit
  <2>2. \A i \in DOMAIN pipe' : pipe'[i] # Blank
    BY <2>1, Appended DEF Blank
  <2> QED
    BY <1>1, <2>2 DEF Emit
<1>2. CASE Exit
  BY <1>2 DEF Exit
<1>3. CASE Check
  BY <1>3 DEF Check
<1>4. ASSUME NEW t \in Threads, Enter(t)
      PROVE  BlankInv'
  BY <1>4 DEF Enter, Within, GoTo, Return
<1>5. ASSUME NEW t \in Threads, ReadLine(t)
      PROVE  BlankInv'
  <2>1. \A i \in DOMAIN pipe' : pipe'[i] # Blank
    <3>1. CASE pipe # <<>> /\ pipe' = Tail(pipe)
      <4>1. \A i \in DOMAIN pipe' :
              i + 1 \in DOMAIN pipe /\ pipe'[i] = pipe[i + 1]
        BY <3>1, HeadAndTail
      <4> QED
        BY <4>1
    <3>2. CASE pipe' = pipe
      BY <3>2
    <3> QED
      BY <1>5, <3>1, <3>2, ReadLineTakes
  <2>2. pipe # <<>> => 1 \in DOMAIN pipe
    BY HeadAndTail
  <2>3. got'[t].nr = Blank => EndOfFile
    BY <1>5, <2>2, ReadLineTakes, Numbers DEF Bytes
  <2>4. IsOver => IsOver'
    BY <1>5, ReadLineTakes DEF ReadLine, Within
  <2> QED
    BY <1>5, <2>1, <2>3, <2>4 DEF ReadLine, Within, GoTo
<1>6. ASSUME NEW t \in Threads, Put(t)
      PROVE  BlankInv'
  BY <1>6 DEF Put, Within, GoTo, Nothing, Str
<1>7. ASSUME NEW t \in Threads, Type(t)
      PROVE  BlankInv'
  BY <1>7 DEF Type, Within, GoTo
<1>8. ASSUME NEW t \in Threads, Decode(t)
      PROVE  BlankInv'
  BY <1>8 DEF Decode, Within, GoTo, Raise, Str
<1>9. ASSUME NEW t \in Threads, Store(t)
      PROVE  BlankInv'
  BY <1>9 DEF Store, Within, GoTo, Nothing, Str
<1>10. ASSUME NEW t \in Threads, Measure(t)
       PROVE  BlankInv'
  BY <1>10 DEF Measure, Within, GoTo
<1>11. ASSUME NEW t \in Threads, Strip(t)
       PROVE  BlankInv'
  BY <1>11 DEF Strip, Within, GoTo
<1>12. ASSUME NEW t \in Threads, PutStripped(t)
       PROVE  BlankInv'
  BY <1>12 DEF PutStripped, Within, Return, Nothing, Str
<1>13. CASE Clear
  BY <1>13 DEF Clear, Within, Return, Nothing, Str
<1>14. CASE Acquire
  BY <1>14 DEF Acquire
<1>15. CASE InState
  BY <1>15 DEF InState, SetState
<1>16. CASE Copy
  BY <1>16 DEF Copy
<1>17. CASE Check2
  BY <1>17 DEF Check2
<1>18. CASE Handle
  BY <1>18 DEF Handle
<1>19. CASE WriteLog
  BY <1>19 DEF WriteLog
<1>20. CASE InInterrupt
  BY <1>20 DEF InInterrupt, SetState
<1>21. CASE CtrlCInRead
  BY <1>21 DEF CtrlCInRead, InTry, Nothing, Str
<1>22. CASE CtrlCInBody
  BY <1>22 DEF CtrlCInBody, InTry, Nothing, Str
<1>23. CASE CtrlCInCondition
  BY <1>23 DEF CtrlCInCondition
<1>24. CASE KillRequest
  BY <1>24 DEF KillRequest
<1>25. CASE KillState
  BY <1>25 DEF KillState, SetState
<1>26. CASE Start
  BY <1>26 DEF Start
<1>27. CASE Wait
  BY <1>27 DEF Wait
<1>28. CASE Wake
  BY <1>28 DEF Wake
<1>29. CASE Stop
  BY <1>29 DEF Stop
<1>30. CASE UNCHANGED vars
  BY <1>30 DEF vars
<1> QED
  BY <1>1, <1>2, <1>3, <1>4, <1>5, <1>6, <1>7, <1>8, <1>9, <1>10, <1>11,
     <1>12, <1>13, <1>14, <1>15, <1>16, <1>17, <1>18, <1>19, <1>20, <1>21,
     <1>22, <1>23, <1>24, <1>25, <1>26, <1>27, <1>28, <1>29, <1>30 DEF Next,
     Main, Keyboard, Killer, Run, Reads, Threads

(* The state is set to FALSE only after a read that found the end of the   *)
(* file, or after an interrupt; a solver that is gone prints no more.      *)
LEMMA EndStep ==
    ASSUME IInv, [Next]_vars
    PROVE  EndInv'
<1> USE DEF IInv, TypeOK, PlaceInv, StartInv, WasIntInv, Threads, Places,
            InTry, AfterPut, BlankInv, IsOver, EndOfFile, EndInv, AfterRead,
            Leaving, LoopIsOver, EndsAtEndOfFile, processVars, threadVars,
            flagVars, readVars, mainVars, otherVars
<1>1. CASE Emit
  BY <1>1 DEF Emit
<1>2. CASE Exit
  BY <1>2 DEF Exit
<1>3. CASE Check
  BY <1>3 DEF Check
<1>4. ASSUME NEW t \in Threads, Enter(t)
      PROVE  EndInv'
  BY <1>4 DEF Enter, Within, GoTo, Return
<1>5. ASSUME NEW t \in Threads, ReadLine(t)
      PROVE  EndInv'
  BY <1>5 DEF ReadLine, Within, GoTo, Other, Bytes
<1>6. ASSUME NEW t \in Threads, Put(t)
      PROVE  EndInv'
  BY <1>6 DEF Put, Within, GoTo, Nothing, Str
<1>7. ASSUME NEW t \in Threads, Type(t)
      PROVE  EndInv'
  BY <1>7 DEF Type, Within, GoTo
<1>8. ASSUME NEW t \in Threads, Decode(t)
      PROVE  EndInv'
  BY <1>8 DEF Decode, Within, GoTo, Raise, Str
<1>9. ASSUME NEW t \in Threads, Store(t)
      PROVE  EndInv'
  BY <1>9 DEF Store, Within, GoTo, Nothing, Str
<1>10. ASSUME NEW t \in Threads, Measure(t)
       PROVE  EndInv'
  BY <1>10 DEF Measure, Within, GoTo
<1>11. ASSUME NEW t \in Threads, Strip(t)
       PROVE  EndInv'
  BY <1>11 DEF Strip, Within, GoTo
<1>12. ASSUME NEW t \in Threads, PutStripped(t)
       PROVE  EndInv'
  BY <1>12 DEF PutStripped, Within, Return, Nothing, Str
<1>13. CASE Clear
  BY <1>13 DEF Clear, Within, Return, Nothing, Str
<1>14. CASE Acquire
  BY <1>14 DEF Acquire
<1>15. CASE InState
  BY <1>15 DEF InState, SetState
<1>16. CASE Copy
  BY <1>16 DEF Copy
<1>17. CASE Check2
  BY <1>17 DEF Check2
<1>18. CASE Handle
  BY <1>18 DEF Handle
<1>19. CASE WriteLog
  BY <1>19 DEF WriteLog
<1>20. CASE InInterrupt
  BY <1>20 DEF InInterrupt, SetState
<1>21. CASE CtrlCInRead
  BY <1>21 DEF CtrlCInRead, InTry, Nothing, Str
<1>22. CASE CtrlCInBody
  BY <1>22 DEF CtrlCInBody, InTry, Nothing, Str
<1>23. CASE CtrlCInCondition
  BY <1>23 DEF CtrlCInCondition
<1>24. CASE KillRequest
  BY <1>24 DEF KillRequest
<1>25. CASE KillState
  BY <1>25 DEF KillState, SetState
<1>26. CASE Start
  BY <1>26 DEF Start
<1>27. CASE Wait
  BY <1>27 DEF Wait
<1>28. CASE Wake
  BY <1>28 DEF Wake
<1>29. CASE Stop
  BY <1>29 DEF Stop
<1>30. CASE UNCHANGED vars
  BY <1>30 DEF vars
<1> QED
  BY <1>1, <1>2, <1>3, <1>4, <1>5, <1>6, <1>7, <1>8, <1>9, <1>10, <1>11,
     <1>12, <1>13, <1>14, <1>15, <1>16, <1>17, <1>18, <1>19, <1>20, <1>21,
     <1>22, <1>23, <1>24, <1>25, <1>26, <1>27, <1>28, <1>29, <1>30 DEF Next,
     Main, Keyboard, Killer, Run, Reads, Threads

(* A Ctrl-C is handed over by every step. *)
LEMMA KeyStep ==
    ASSUME IInv, [Next]_vars
    PROVE  KeyInv'
<1> USE DEF IInv, TypeOK, PlaceInv, StartInv, WasIntInv, Threads, Places,
            InTry, AfterPut, KeyInv, processVars, threadVars, flagVars,
            readVars, mainVars, otherVars
<1>1. CASE Emit
  BY <1>1 DEF Emit
<1>2. CASE Exit
  BY <1>2 DEF Exit
<1>3. CASE Check
  BY <1>3 DEF Check
<1>4. ASSUME NEW t \in Threads, Enter(t)
      PROVE  KeyInv'
  BY <1>4 DEF Enter, Within, GoTo, Return
<1>5. ASSUME NEW t \in Threads, ReadLine(t)
      PROVE  KeyInv'
  BY <1>5 DEF ReadLine, Within, GoTo, Other, Bytes
<1>6. ASSUME NEW t \in Threads, Put(t)
      PROVE  KeyInv'
  BY <1>6 DEF Put, Within, GoTo, Nothing, Str
<1>7. ASSUME NEW t \in Threads, Type(t)
      PROVE  KeyInv'
  BY <1>7 DEF Type, Within, GoTo
<1>8. ASSUME NEW t \in Threads, Decode(t)
      PROVE  KeyInv'
  BY <1>8 DEF Decode, Within, GoTo, Raise, Str
<1>9. ASSUME NEW t \in Threads, Store(t)
      PROVE  KeyInv'
  BY <1>9 DEF Store, Within, GoTo, Nothing, Str
<1>10. ASSUME NEW t \in Threads, Measure(t)
       PROVE  KeyInv'
  BY <1>10 DEF Measure, Within, GoTo
<1>11. ASSUME NEW t \in Threads, Strip(t)
       PROVE  KeyInv'
  BY <1>11 DEF Strip, Within, GoTo
<1>12. ASSUME NEW t \in Threads, PutStripped(t)
       PROVE  KeyInv'
  BY <1>12 DEF PutStripped, Within, Return, Nothing, Str
<1>13. CASE Clear
  BY <1>13 DEF Clear, Within, Return, Nothing, Str
<1>14. CASE Acquire
  BY <1>14 DEF Acquire
<1>15. CASE InState
  BY <1>15 DEF InState, SetState
<1>16. CASE Copy
  BY <1>16 DEF Copy
<1>17. CASE Check2
  BY <1>17 DEF Check2
<1>18. CASE Handle
  BY <1>18 DEF Handle
<1>19. CASE WriteLog
  BY <1>19 DEF WriteLog
<1>20. CASE InInterrupt
  BY <1>20 DEF InInterrupt, SetState
<1>21. CASE CtrlCInRead
  BY <1>21 DEF CtrlCInRead, InTry, Nothing, Str
<1>22. CASE CtrlCInBody
  BY <1>22 DEF CtrlCInBody, InTry, Nothing, Str
<1>23. CASE CtrlCInCondition
  BY <1>23 DEF CtrlCInCondition
<1>24. CASE KillRequest
  BY <1>24 DEF KillRequest
<1>25. CASE KillState
  BY <1>25 DEF KillState, SetState
<1>26. CASE Start
  BY <1>26 DEF Start
<1>27. CASE Wait
  BY <1>27 DEF Wait
<1>28. CASE Wake
  BY <1>28 DEF Wake
<1>29. CASE Stop
  BY <1>29 DEF Stop
<1>30. CASE UNCHANGED vars
  BY <1>30 DEF vars
<1> QED
  BY <1>1, <1>2, <1>3, <1>4, <1>5, <1>6, <1>7, <1>8, <1>9, <1>10, <1>11,
     <1>12, <1>13, <1>14, <1>15, <1>16, <1>17, <1>18, <1>19, <1>20, <1>21,
     <1>22, <1>23, <1>24, <1>25, <1>26, <1>27, <1>28, <1>29, <1>30 DEF Next,
     Main, Keyboard, Killer, Run, Reads, Threads

(* Only a read takes a line, the next one. *)
LEMMA PipeStep ==
    ASSUME IInv, [Next]_vars
    PROVE  PipeInv'
<1> USE DEF IInv, TypeOK, PipeInv, WasRead, Threads, processVars, threadVars,
            flagVars, readVars, mainVars, otherVars
<1>1. CASE Emit
  BY <1>1 DEF Emit
<1>2. CASE Exit
  BY <1>2 DEF Exit
<1>3. CASE Check
  BY <1>3 DEF Check
<1>4. ASSUME NEW t \in Threads, Enter(t)
      PROVE  PipeInv'
  BY <1>4 DEF Enter, Within, GoTo, Return
<1>5. ASSUME NEW t \in Threads, ReadLine(t)
      PROVE  PipeInv'
  <2>1. CASE pipe # <<>> /\ pipe' = Tail(pipe)
    <3>1. Len(pipe) \in Nat \ {0} /\ Len(pipe') = Len(pipe) - 1
      BY <2>1, HeadAndTail
    <3>2. \A i \in 1..(Len(pipe) - 1) : pipe'[i] = pipe[i + 1]
      BY <2>1, HeadAndTail
    <3>3. \A i \in 1..(Len(pipe) - 1) : i + 1 \in 1..Len(pipe)
      BY <3>1
    <3>4. emitted' = emitted
      BY <1>5 DEF ReadLine, Within
    <3> QED
      BY <3>1, <3>2, <3>3, <3>4
  <2>2. CASE pipe' = pipe
    BY <1>5, <2>2 DEF ReadLine, Within
  <2> QED
    BY <1>5, <2>1, <2>2, ReadLineTakes
<1>6. ASSUME NEW t \in Threads, Put(t)
      PROVE  PipeInv'
  BY <1>6 DEF Put, Within, GoTo, Nothing, Str
<1>7. ASSUME NEW t \in Threads, Type(t)
      PROVE  PipeInv'
  BY <1>7 DEF Type, Within, GoTo
<1>8. ASSUME NEW t \in Threads, Decode(t)
      PROVE  PipeInv'
  BY <1>8 DEF Decode, Within, GoTo, Raise, Str
<1>9. ASSUME NEW t \in Threads, Store(t)
      PROVE  PipeInv'
  BY <1>9 DEF Store, Within, GoTo, Nothing, Str
<1>10. ASSUME NEW t \in Threads, Measure(t)
       PROVE  PipeInv'
  BY <1>10 DEF Measure, Within, GoTo
<1>11. ASSUME NEW t \in Threads, Strip(t)
       PROVE  PipeInv'
  BY <1>11 DEF Strip, Within, GoTo
<1>12. ASSUME NEW t \in Threads, PutStripped(t)
       PROVE  PipeInv'
  BY <1>12 DEF PutStripped, Within, Return, Nothing, Str
<1>13. CASE Clear
  BY <1>13 DEF Clear, Within, Return, Nothing, Str
<1>14. CASE Acquire
  BY <1>14 DEF Acquire
<1>15. CASE InState
  BY <1>15 DEF InState, SetState
<1>16. CASE Copy
  BY <1>16 DEF Copy
<1>17. CASE Check2
  BY <1>17 DEF Check2
<1>18. CASE Handle
  BY <1>18 DEF Handle
<1>19. CASE WriteLog
  BY <1>19 DEF WriteLog
<1>20. CASE InInterrupt
  BY <1>20 DEF InInterrupt, SetState
<1>21. CASE CtrlCInRead
  BY <1>21 DEF CtrlCInRead, InTry, Nothing, Str
<1>22. CASE CtrlCInBody
  BY <1>22 DEF CtrlCInBody, InTry, Nothing, Str
<1>23. CASE CtrlCInCondition
  BY <1>23 DEF CtrlCInCondition
<1>24. CASE KillRequest
  BY <1>24 DEF KillRequest
<1>25. CASE KillState
  BY <1>25 DEF KillState, SetState
<1>26. CASE Start
  BY <1>26 DEF Start
<1>27. CASE Wait
  BY <1>27 DEF Wait
<1>28. CASE Wake
  BY <1>28 DEF Wake
<1>29. CASE Stop
  BY <1>29 DEF Stop
<1>30. CASE UNCHANGED vars
  BY <1>30 DEF vars
<1> QED
  BY <1>1, <1>2, <1>3, <1>4, <1>5, <1>6, <1>7, <1>8, <1>9, <1>10, <1>11,
     <1>12, <1>13, <1>14, <1>15, <1>16, <1>17, <1>18, <1>19, <1>20, <1>21,
     <1>22, <1>23, <1>24, <1>25, <1>26, <1>27, <1>28, <1>29, <1>30 DEF Next,
     Main, Keyboard, Killer, Run, Reads, Threads

(* Main reads the next line and logs it before it reads on. *)
LEMMA AloneStep ==
    ASSUME IInv, [Next]_vars
    PROVE  AloneInv'
<1> USE DEF IInv, TypeOK, PlaceInv, StartInv, WasIntInv, Threads, Places,
            InTry, AfterPut, BlankInv, IsOver, EndOfFile, EndInv, AfterRead,
            Leaving, LoopIsOver, EndsAtEndOfFile, PipeInv, WasRead, AloneInv,
            Alone, AllLogged, InHand, processVars, threadVars, flagVars,
            readVars, mainVars, otherVars
<1>1. CASE Emit
  <2>1. emitted' \in 1..Lines /\ pipe' = Append(pipe, emitted') /\ emitted' = emitted + 1
    BY <1>1, ConstantsAssumption DEF Emit
  <2>2. Len(pipe') = Len(pipe) + 1 /\ Len(pipe) \in Nat
    BY <2>1, Appended
  <2>3. emitted' - Len(pipe') = emitted - Len(pipe)
    BY <2>1, <2>2
  <2> QED
    BY <1>1, <2>3 DEF Emit
<1>2. CASE Exit
  BY <1>2 DEF Exit
<1>3. CASE Check
  BY <1>3 DEF Check
<1>4. ASSUME NEW t \in Threads, Enter(t)
      PROVE  AloneInv'
  BY <1>4 DEF Enter, Within, GoTo, Return
<1>5. ASSUME NEW t \in Threads, ReadLine(t)
      PROVE  AloneInv'
  <2>0. SUFFICES ASSUME Alone
                PROVE  AloneInv'
    BY <1>5 DEF ReadLine, Within, GoTo
  <2>1. CASE t = "run"
    <3>1. run = "drain" /\ Leaving
      BY <1>5, <2>0, <2>1 DEF ReadLine, Within
    <3>2. at["main"] = "enter" /\ at'["main"] = "enter"
      BY <1>5, <2>0, <2>1, <3>1 DEF ReadLine, GoTo
    <3>3. ~part'["main"]
      BY <1>5, <2>0, <2>1, <3>1, <3>2 DEF ReadLine, Other
    <3>4. UNCHANGED <<main, run, log, say, status, quiet, shared>>
      BY <1>5, <2>0 DEF ReadLine, Within, GoTo
    <3> QED
      BY <2>0, <3>1, <3>2, <3>3, <3>4
  <2>2. CASE t = "main"
    <3>1. main = "read" /\ at["main"] = "readline" /\ at["run"] = "enter"
      BY <1>5, <2>0, <2>2 DEF ReadLine, Within
    <3>2. ~part'["main"] /\ at'["main"] = "put"
      BY <1>5, <2>0, <2>2, <3>1 DEF ReadLine, GoTo, Other
    <3>3. CASE pipe # <<>>
      <4>1. pipe' = Tail(pipe) /\ got'["main"].nr = Head(pipe)
        BY <1>5, <2>0, <2>2, <3>1, <3>3 DEF ReadLine, Other, Bytes
      <4>2. /\ Len(pipe) \in Nat \ {0} /\ Len(pipe') = Len(pipe) - 1
            /\ Head(pipe) = pipe[1] /\ 1 \in DOMAIN pipe
        BY <3>3, <4>1, HeadAndTail
      <4>3. Head(pipe) = emitted - Len(pipe) + 1 /\ Head(pipe) # Blank
        <5>1. 1 \in 1..Len(pipe)
          BY <4>2
        <5> QED
          BY <4>2, <5>1
      <4>4. got'["main"].nr = emitted - Len(pipe) + 1 /\ got'["main"].nr # Blank
        BY <4>1, <4>3
      <4>5. emitted' = emitted /\ log' = log /\ Len(log) = emitted - Len(pipe)
        BY <1>5, <2>0, <3>1 DEF ReadLine, Within
      <4>6. InHand(got["main"].nr)'
        BY <4>2, <4>4, <4>5
      <4> QED
        BY <1>5, <2>0, <2>2, <3>1, <3>2, <4>4, <4>6 DEF ReadLine, Within, GoTo
    <3>4. CASE pipe = <<>>
      <4>1. pipe' = pipe /\ got'["main"].nr = Blank
        BY <1>5, <2>0, <2>2, <3>1, <3>4 DEF ReadLine, Other, Bytes
      <4> QED
        BY <1>5, <2>0, <2>2, <3>1, <3>2, <4>1 DEF ReadLine, Within, GoTo
    <3> QED
      BY <3>3, <3>4
  <2> QED
    BY <2>1, <2>2
<1>6. ASSUME NEW t \in Threads, Put(t)
      PROVE  AloneInv'
  BY <1>6 DEF Put, Within, GoTo, Nothing, Str
<1>7. ASSUME NEW t \in Threads, Type(t)
      PROVE  AloneInv'
  BY <1>7 DEF Type, Within, GoTo
<1>8. ASSUME NEW t \in Threads, Decode(t)
      PROVE  AloneInv'
  BY <1>8 DEF Decode, Within, GoTo, Raise, Str
<1>9. ASSUME NEW t \in Threads, Store(t)
      PROVE  AloneInv'
  BY <1>9 DEF Store, Within, GoTo, Nothing, Str
<1>10. ASSUME NEW t \in Threads, Measure(t)
       PROVE  AloneInv'
  BY <1>10 DEF Measure, Within, GoTo
<1>11. ASSUME NEW t \in Threads, Strip(t)
       PROVE  AloneInv'
  BY <1>11 DEF Strip, Within, GoTo
<1>12. ASSUME NEW t \in Threads, PutStripped(t)
       PROVE  AloneInv'
  BY <1>12 DEF PutStripped, Within, Return, Nothing, Str
<1>13. CASE Clear
  BY <1>13 DEF Clear, Within, Return, Nothing, Str
<1>14. CASE Acquire
  BY <1>14 DEF Acquire
<1>15. CASE InState
  BY <1>15 DEF InState, SetState
<1>16. CASE Copy
  BY <1>16 DEF Copy
<1>17. CASE Check2
  BY <1>17 DEF Check2
<1>18. CASE Handle
  BY <1>18 DEF Handle
<1>19. CASE WriteLog
  <2>0. SUFFICES ASSUME Alone
                PROVE  AloneInv'
    BY <1>19 DEF WriteLog
  <2>1. /\ line.nr = Len(log) + 1 /\ line.nr = emitted - Len(pipe)
        /\ Len(log) \in Nat /\ line.nr \in 0..Torn /\ Len(pipe) \in Nat
    BY <1>19, <2>0 DEF WriteLog, LineType
  <2>2. Len(log) < MaxLog
    BY <2>1, ConstantsAssumption
  <2>3. /\ Len(log') = Len(log) + 1 /\ log'[Len(log) + 1] = line.nr
        /\ \A i \in 1..Len(log) : log'[i] = log[i]
    BY <1>19, <2>1, <2>2, Appended DEF WriteLog
  <2>4. ASSUME NEW i \in 1..Len(log')
        PROVE  log'[i] = i
    <3>1. CASE i = Len(log) + 1
      BY <2>1, <2>3, <3>1
    <3>2. CASE i # Len(log) + 1
      <4>1. i \in 1..Len(log)
        BY <2>1, <2>3, <3>2
      <4> QED
        BY <2>0, <2>3, <4>1
    <3> QED
      BY <3>1, <3>2
  <2>5. AllLogged'
    BY <1>19, <2>1, <2>3 DEF WriteLog
  <2> QED
    BY <1>19, <2>0, <2>4, <2>5 DEF WriteLog
<1>20. CASE InInterrupt
  BY <1>20 DEF InInterrupt, SetState
<1>21. CASE CtrlCInRead
  BY <1>21 DEF CtrlCInRead, InTry, Nothing, Str
<1>22. CASE CtrlCInBody
  BY <1>22, ConstantsAssumption DEF CtrlCInBody, InTry, Nothing, Str
<1>23. CASE CtrlCInCondition
  BY <1>23 DEF CtrlCInCondition
<1>24. CASE KillRequest
  BY <1>24 DEF KillRequest
<1>25. CASE KillState
  BY <1>25 DEF KillState, SetState
<1>26. CASE Start
  BY <1>26 DEF Start
<1>27. CASE Wait
  BY <1>27 DEF Wait
<1>28. CASE Wake
  BY <1>28 DEF Wake
<1>29. CASE Stop
  BY <1>29 DEF Stop
<1>30. CASE UNCHANGED vars
  BY <1>30 DEF vars
<1> QED
  BY <1>1, <1>2, <1>3, <1>4, <1>5, <1>6, <1>7, <1>8, <1>9, <1>10, <1>11,
     <1>12, <1>13, <1>14, <1>15, <1>16, <1>17, <1>18, <1>19, <1>20, <1>21,
     <1>22, <1>23, <1>24, <1>25, <1>26, <1>27, <1>28, <1>29, <1>30 DEF Next,
     Main, Keyboard, Killer, Run, Reads, Threads

-------------------------------------------------------------------------
(* The invariant holds before the solver is started. *)
LEMMA InitInv == Init => IInv
<1> SUFFICES ASSUME Init
             PROVE  IInv
  OBVIOUS
<1>1. /\ say \in BOOLEAN /\ pid \in BOOLEAN /\ keyInt \in BOOLEAN
      /\ wasInt \in BOOLEAN /\ readerKey \in BOOLEAN /\ goOn \in BOOLEAN
      /\ dataKey \in BOOLEAN /\ pressed \in BOOLEAN /\ shared \in BOOLEAN
      /\ part \in [Threads -> BOOLEAN] /\ status \in [Threads -> BOOLEAN]
  BY Zenon DEF Init
<1>2. Nothing \in LineType
  BY Numbers DEF Nothing
<1>3. quiet \in BOOLEAN
  BY ConstantsAssumption DEF Init
<1>4. TypeOK
  BY <1>1, <1>2, <1>3, ConstantsAssumption DEF Init, TypeOK, Places, Statements
<1>5. PlaceInv /\ StartInv /\ WasIntInv /\ BlankInv /\ EndInv /\ KeyInv
  BY DEF Init, PlaceInv, StartInv, WasIntInv, BlankInv, AfterPut, EndInv,
         AfterRead, EndsAtEndOfFile, KeyInv, Threads
<1>6. Len(pipe) = 0 /\ Len(log) = 0 /\ emitted = 0
  <2>1. emitted = 0 /\ pipe = <<>> /\ log = <<>>
    BY Zenon DEF Init
  <2> QED
    BY <2>1
<1>7. main = "check" /\ run = "start" /\ at["main"] = "enter" /\ ~part["main"]
  BY DEF Init, Threads
<1>8. PipeInv /\ AloneInv
  BY <1>6, <1>7 DEF PipeInv, WasRead, AloneInv, AllLogged, AfterPut
<1> QED
  BY <1>4, <1>5, <1>8 DEF IInv

(* The inductive invariant holds. *)
THEOREM SpecIInv == Spec => []IInv
<1>1. IInv /\ [Next]_vars => IInv'
  BY TypeStep, PlaceStep, StartStep, WasIntStep, BlankStep, EndStep, KeyStep,
     PipeStep, AloneStep DEF IInv
<1> QED
  BY <1>1, InitInv, PTL DEF Spec

(* Every state is well typed, for any number of lines and any pipe. *)
THEOREM SpecTypeOK == Spec => []TypeOK
  BY SpecIInv, PTL DEF IInv

(* As long as run() does not read before the main loop is over, the log    *)
(* has the first lines of the solver, each once and in order, although a   *)
(* kill, a broken pipe and Ctrl-C may come at any statement.               *)
THEOREM SpecInOrder == Spec => []InOrder
<1>1. IInv => InOrder
  BY DEF IInv, TypeOK, AloneInv, Alone, InOrder
<1> QED
  BY <1>1, SpecIInv, PTL

(* Without an interrupt the main loop ends only at the end of the file,    *)
(* also when the other thread reads from the same reader meanwhile.        *)
THEOREM SpecEndsAtEndOfFile == Spec => []EndsAtEndOfFile
<1>1. IInv => EndsAtEndOfFile
  BY DEF IInv, EndInv
<1> QED
  BY <1>1, SpecIInv, PTL

(* What RestartRunner relies on: a Ctrl-C at any place is in the data of a *)
(* run that ends, a kill by the server is not.                             *)
THEOREM SpecKeyboardReported == Spec => []KeyboardReported
<1>1. ASSUME IInv
      PROVE  KeyboardReported
  <2>1. SUFFICES ASSUME main = "end"
                 PROVE  ReportedKey <=> pressed
    BY DEF KeyboardReported
  <2>2. ReportedKey => pressed
    BY <1>1 DEF IInv, KeyInv, ReportedKey
  <2>3. pressed => ReportedKey
    BY <1>1, <2>1 DEF IInv, KeyInv, PlaceInv, ReportedKey
  <2> QED
    BY <2>2, <2>3
<1>2. IInv => KeyboardReported
  BY <1>1
<1> QED
  BY <1>2, SpecIInv, PTL

(* The two threads, the lock and the shared reader implement the copy of   *)
(* lines, one by one, of a quiet run; the fairness of LineCopy is left to  *)
(* TLC.                                                                    *)
THEOREM FoamThreadCopies == Spec => Copies!Init /\ [][Copies!Next]_Copies!vars
<1>1. Init => Copies!Init
  BY DEF Init, Copies!Init
<1>2. ASSUME IInv, [Next]_vars
      PROVE  [Copies!Next]_Copies!vars
  <2>1. quiet' = quiet
    BY <1>2
       DEF Next, Main, Keyboard, Killer, Run, Reads, Within, Emit, Exit,
           Check, Enter, ReadLine, Put, Type, Decode, Store, Measure, Strip,
           PutStripped, Clear, Acquire, InState, Copy, Check2, Handle,
           WriteLog, InInterrupt, CtrlCInRead, CtrlCInBody, CtrlCInCondition,
           KillRequest, KillState, Start, Wait, Wake, Stop, vars, otherVars,
           mainVars
  <2>2. CASE ~quiet
    BY <2>1, <2>2 DEF Copies!vars
  <2>3. CASE quiet /\ Emit
    BY <2>1, <2>3 DEF Emit, mainVars, Copies!Next, Copies!Produce
  <2>4. CASE quiet /\ WriteLog
    <3>1. line.nr = Len(log) + 1 /\ Len(log) < emitted /\ Len(log) < MaxLog
      <4>1. /\ line.nr = emitted - Len(pipe) /\ Len(log) + 1 = emitted - Len(pipe)
            /\ Len(log) \in Nat /\ Len(pipe) \in Nat /\ emitted \in 0..Lines
        BY <1>2, <2>4
           DEF IInv, TypeOK, AloneInv, Alone, InHand, WasRead, WriteLog
      <4> QED
        BY <4>1, ConstantsAssumption
    <3> QED
      BY <2>1, <2>4, <3>1 DEF WriteLog, processVars, Copies!Next, Copies!Copy
  <2>5. CASE quiet /\ ~Emit /\ ~WriteLog
    <3>1. emitted' = emitted /\ log' = log
      BY <1>2, <2>5
         DEF Next, Main, Keyboard, Killer, Run, Reads, Within, Emit, Exit,
             Check, Enter, ReadLine, Put, Type, Decode, Store, Measure, Strip,
             PutStripped, Clear, Acquire, InState, Copy, Check2, Handle,
             WriteLog, InInterrupt, CtrlCInRead, CtrlCInBody,
             CtrlCInCondition, KillRequest, KillState, Start, Wait, Wake,
             Stop, vars, otherVars, mainVars, processVars
    <3> QED
      BY <2>1, <3>1 DEF Copies!vars
  <2> QED
    BY <2>2, <2>3, <2>4, <2>5
<1>3. IInv /\ [Next]_vars => [Copies!Next]_Copies!vars
  BY <1>2
<1> QED
  BY <1>1, <1>3, SpecIInv, PTL DEF Spec
=========================================================================
