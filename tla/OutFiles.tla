---------------------------- MODULE OutFiles ----------------------------
(***************************************************************************)
(* The data files that the analyzers of a run write:                       *)
(* OutFileCollection, OutputFile and BasicFile (Basics/).  Every datum of  *)
(* a name at a time goes to a file of its own, <name>, <name>_2, ...,      *)
(* unless singleFile is set; of all these files at most maxOpenFiles have  *)
(* a handle, the others wait to be opened again for appending.             *)
(*                                                                         *)
(* The file of the k-th datum of a name is <<name, k>>: no analyzer may    *)
(* have a name that looks like that of another with such an ending.  A row *)
(* in a file is the simulation time it was written at, 0 before the first  *)
(* one was seen; the first line of a file is Title.                        *)
(***************************************************************************)
EXTENDS Naturals, Sequences, FiniteSets, Functions

CONSTANTS
    Names,          \* names the analyzers use
    maxOpenFiles,   \* OutFileCollection.maxOpenFiles
    SingleFiles,    \* the values of singleFile considered
    MaxTime,        \* bound on the simulation time
    MaxCalls,       \* bound on the data of a name at one time
    MaxReplaced,    \* bound on the collections that are replaced
    Title           \* the line with the titles of the columns

ASSUME OpenAssumption == maxOpenFiles \in Nat \ {0}
ASSUME BoundsAssumption == /\ MaxTime \in Nat /\ MaxCalls \in Nat \ {0}
                           /\ MaxReplaced \in Nat
                           /\ SingleFiles \subseteq BOOLEAN
ASSUME TitleAssumption == Title \notin Nat

Files == Names \X (1..MaxCalls)
Times == 0..MaxTime

VARIABLES
    now,            \* the time the log analyzer has seen
    singleFile,     \* never changes after __init__
    files,          \* the OutputFile objects of the collection
    open,           \* those with a handle
    append,         \* those that were closed temporarily
    openList,
    lastTime, called,
    disk,           \* [Files -> lines in the directory]
    abandoned,      \* handles of the collections that were replaced
    closing         \* close was called

vars == <<now, singleFile, files, open, append, openList, lastTime, called,
          disk, abandoned, closing>>

NoCalls == [n \in Names |-> 0]

(* OutFileCollection.__init__ in an empty directory *)
Init == /\ files = {} /\ open = {} /\ append = {} /\ openList = <<>>
        /\ lastTime = 0 /\ called = NoCalls
        /\ now = 0
        /\ singleFile \in SingleFiles
        /\ disk = [f \in Files |-> <<>>]
        /\ abandoned = <<>> /\ closing = FALSE
-------------------------------------------------------------------------
(* Mutant: the calls are not counted anew. *)
CheckTimeKeepsCalls == called

(* Mutant: the calls are always counted anew. *)
CheckTimeAlways == NoCalls

(* checkTime: called is emptied when the time has changed *)
CheckTime == IF now # lastTime THEN NoCalls ELSE called

(* The file that the next datum of a name goes to *)
FileName(name) ==
    LET calls == CheckTime[name] + 1
    IN  IF calls > 1 /\ ~singleFile THEN <<name, calls>> ELSE <<name, 1>>

(* The list without the first entry f, as removeFromOpenList leaves it *)
Without(f) ==
    LET i == CHOOSE i \in DOMAIN openList :
                 openList[i] = f /\ \A j \in 1..(i-1) : openList[j] # f
    IN  SubSeq(openList, 1, i-1) \o SubSeq(openList, i+1, Len(openList))

Listed(f) == f \in Range(openList)

(* Mutant: the limit is passed by one. *)
MakesRoomLate(f) == ~Listed(f) /\ Len(openList) > maxOpenFiles

(* Has the oldest file to be closed when f is opened? *)
MakesRoom(f) == ~Listed(f) /\ Len(openList) >= maxOpenFiles

(* Mutant: the file that makes room is closed for good. *)
AddToOpenListForGood(f) ==
    IF MakesRoom(f)
      THEN /\ open' = (open \ {Head(openList)}) \cup {f}
           /\ append' = append
           /\ openList' = Append(Tail(openList), f)
      ELSE /\ open' = open \cup {f}
           /\ append' = append
           /\ openList' = Append(IF Listed(f) THEN Without(f) ELSE openList, f)

(* getHandle of a closed file and then addToOpenList, which closes the     *)
(* oldest file temporarily.                                                *)
AddToOpenList(f) ==
    IF MakesRoom(f)
      THEN /\ open' = (open \ {Head(openList)}) \cup {f}
           /\ append' = append \cup (open \cap {Head(openList)})
           /\ openList' = Append(Tail(openList), f)
      ELSE /\ open' = open \cup {f}
           /\ append' = append
           /\ openList' = Append(IF Listed(f) THEN Without(f) ELSE openList, f)

(* What is in the file when getHandle has opened it: mode "w" empties it   *)
(* and the titles are written, mode "a" does neither.                      *)
Opened(f) == IF f \in open \cup append THEN disk[f] ELSE <<Title>>

(* OutFileCollection.write *)
Write(name) ==
    LET f == FileName(name) IN
    /\ ~closing
    /\ CheckTime[name] < MaxCalls
    /\ lastTime' = now
    /\ called' = [CheckTime EXCEPT ![name] = @ + 1]
    /\ files' = files \cup {f}
    /\ disk' = [disk EXCEPT ![f] = Append(Opened(f), now)]
    /\ IF f \in open THEN UNCHANGED <<open, append, openList>>
                     ELSE AddToOpenList(f)
    /\ UNCHANGED <<now, singleFile, abandoned, closing>>

(* The solver says a new time. *)
NewTime ==
    /\ ~closing /\ now < MaxTime
    /\ now' = now + 1
    /\ UNCHANGED <<singleFile, files, open, append, openList, lastTime, called,
                   disk, abandoned, closing>>

(* setDirectory, when the log names another program with plots of its own: *)
(* a new collection for the same directory.  Nobody closes the files of    *)
(* the old one, which refer to it as their parent.                         *)
NewCollection ==
    /\ ~closing /\ Len(abandoned) < MaxReplaced
    /\ abandoned' = Append(abandoned, open)
    /\ files' = {} /\ open' = {} /\ append' = {} /\ openList' = <<>>
    /\ lastTime' = 0 /\ called' = NoCalls
    /\ UNCHANGED <<now, singleFile, disk, closing>>

(* Python finds the collections that refer only to themselves, and closes  *)
(* their handles.                                                          *)
CollectGarbage ==
    /\ abandoned # <<>>
    /\ abandoned' = <<>>
    /\ UNCHANGED <<now, singleFile, files, open, append, openList, lastTime,
                   called, disk, closing>>

(* tearDown calls close: every file is closed, one after the other. *)
Close ==
    /\ ~closing
    /\ closing' = TRUE
    /\ UNCHANGED <<now, singleFile, files, open, append, openList, lastTime,
                   called, disk, abandoned>>

CloseFile(f) ==
    /\ closing /\ f \in open
    /\ open' = open \ {f}
    /\ openList' = IF Listed(f) THEN Without(f) ELSE openList
    /\ UNCHANGED <<now, singleFile, files, append, lastTime, called, disk,
                   abandoned, closing>>

Next == \/ \E name \in Names : Write(name)
        \/ NewTime \/ NewCollection \/ CollectGarbage \/ Close
        \/ \E f \in Files : CloseFile(f)

Spec == Init /\ [][Next]_vars
-------------------------------------------------------------------------
TypeOK ==
    /\ now \in Times
    /\ singleFile \in BOOLEAN
    /\ files \subseteq Files
    /\ open \subseteq files
    /\ append \subseteq files
    /\ openList \in Seq(Files)
    /\ lastTime \in Times
    /\ called \in [Names -> 0..MaxCalls]
    /\ disk \in [Files -> Seq(Times \cup {Title})]
    /\ abandoned \in Seq(SUBSET Files)
    /\ closing \in BOOLEAN

(* openList is a list of exactly the files with a handle, each once.       *)
ListIsOpen == open = Range(openList) /\ IsInjective(openList)

(* A collection never has more handles than the limit allows, however many *)
(* files are written (Basics/OutFileCollection.py:79).  The limit is one   *)
(* of each collection: a collection that was replaced keeps up to as many  *)
(* until Python finds it.                                                  *)
HandlesBounded ==
    /\ Cardinality(open) <= maxOpenFiles
    /\ \A i \in DOMAIN abandoned : Cardinality(abandoned[i]) <= maxOpenFiles

(* Unless everything goes to one file, no file has two rows of one time,   *)
(* and the times go up.                                                    *)
OneRowPerTime ==
    ~singleFile =>
        \A f \in files : \A i, j \in 2..Len(disk[f]) :
            i < j => disk[f][i] < disk[f][j]

RowsAt(f, t) == {i \in DOMAIN disk[f] : disk[f][i] = t}

(* The k-th file of a name has a row of a time only if the files before it *)
(* have one: no datum of a time is missing.                                *)
NoGaps ==
    \A n \in Names, k \in 2..MaxCalls, t \in Times :
        /\ <<n, k>> \in files
        /\ RowsAt(<<n, k>>, t) # {}
        => <<n, k-1>> \in files /\ RowsAt(<<n, k-1>>, t) # {}

(* All the closing and reopening is invisible: what is in the files of the *)
(* collection below the titles is a table to which rows are only added.    *)
Written == INSTANCE DataTables WITH
               Tables <- Files, Rows <- Times,
               rows <- [f \in Files |-> IF f \in files THEN Tail(disk[f])
                                                       ELSE <<>>]
DataTablesSpec == Written!Spec
=========================================================================
