-------------------------- MODULE MCLogWatcher --------------------------
(* Small instances of LogWatcher for TLC: logs of runs and their restarts. *)
EXTENDS LogWatcher

Text(n) == [time |-> None, bytes |-> n, chars |-> n]
Time(t) == [time |-> t, bytes |-> 2, chars |-> 2]
Umlaut == [time |-> None, bytes |-> 3, chars |-> 2]

(* A log: its head, and a time and a text for every step. *)
Log(mesh, head, times) ==
    [mesh |-> mesh,
     lines |-> FoldLeft(LAMBDA s, t : s \o <<Time(t), Text(1)>>, <<head>>, times)]

Setup(logs, growing, written, follow, ctrlC) ==
    [logs |-> logs, growing |-> growing, written |-> written, follow |-> follow,
     ctrlC |-> ctrlC, tail |-> 2]

(* One log, from its start, also with a name of the case that is not ASCII. *)
One == {Setup(<<Log(0, head, <<1, 2, 3>>)>>, 1, 0, follow, ctrlC) :
            head \in {Text(1), Umlaut}, follow \in BOOLEAN, ctrlC \in BOOLEAN}

(* Three runs, in the orders in which listdir gives them: the second goes  *)
(* on from the middle of the first, the third from the end of the second   *)
(* or before.                                                              *)
First == Log(0, Text(1), <<1, 2, 3>>)
Second == Log(2, Text(2), <<3, 4, 5>>)
Third(mesh) == Log(mesh, Text(1), <<mesh + 1, mesh + 2>>)
Three ==
    UNION {{Setup(<<First, Second, Third(mesh)>>, 3, written, follow, ctrlC),
            Setup(<<Third(mesh), Second, First>>, 1, written, follow, ctrlC)} :
              mesh \in {3, 4, 5}, written \in {0, 2}, follow \in BOOLEAN,
              ctrlC \in BOOLEAN}

(* A run that failed at once, before the first time.                       *)
Failed == {Setup(<<First, Log(2, Text(1), <<>>), Second>>, 3, 1, follow, FALSE) :
              follow \in BOOLEAN}

AllLogged == One \cup Three \cup Failed

(* The log of a case whose name is not ASCII, the solver not running any   *)
(* more.                                                                   *)
UmlautLogged == {Setup(<<Log(0, Umlaut, <<1, 2, 3>>)>>, 1, 7, FALSE, FALSE)}
=========================================================================
