-------------------------- MODULE MCTimeLines --------------------------
(* Small instance of TimeLines for TLC: a master and a slave with all      *)
(* accumulations over few times, and a long log that is split often.       *)
EXTENDS TimeLines

(* Values at any of few times, or at none *)
Few(order, names, kind, extend) ==
    [order |-> order, names |-> names, maxTime |-> 4, maxCalls |-> 2,
     data |-> [t \in 1..4 |-> {2, 4}], sparse |-> TRUE, thres |-> 0,
     extendCopy |-> extend,
     accumulation |-> IF kind \in {"last", "sum"} THEN "first" ELSE kind,
     special |-> kind]

(* One value at each of many times, going up and down *)
Many(thres, maxTime) ==
    [order |-> <<"master">>, names |-> {"a", "b"}, maxTime |-> maxTime,
     maxCalls |-> 1, data |-> [t \in 1..maxTime |-> {((7 * t) % 5) - 2}],
     sparse |-> FALSE, thres |-> thres, extendCopy |-> FALSE,
     accumulation |-> "first", special |-> "first"]

MasterSlave == {<<"master", "slave">>, <<"slave", "master">>}

AllSetups ==
    {Few(order, {"a"}, kind, FALSE) : order \in MasterSlave, kind \in {"last", "max"}}
    \cup {Few(<<"master">>, {"a", "b"}, "sum", TRUE)}
    \cup {Few(<<"master">>, {"a"}, kind, FALSE) : kind \in Kinds}
    \cup {[Many(14, 17) EXCEPT !.sparse = TRUE, !.names = {"a"}]}
    \cup {Many(thres, 60) : thres \in {14, 16, 20, 32}}
========================================================================
