------------------------- MODULE MCRunnerControl -------------------------
(* Small instance of RunnerControl for TLC: who may ask for what.          *)
EXTENDS RunnerControl

Nobody == [r \in Requesters |-> {}]

(* Every source of stop requests. *)
AllStops == [poller |-> {"stop", "stopWrite"}, server |-> {"stop"},
             main |-> {"stop"}]

(* A write file in the directory of the case. *)
WriteFile == [Nobody EXCEPT !["poller"] = {"write"}]

(* Files and network at the same time. *)
FilesAndServer == [WriteFile EXCEPT !["server"] = {"stop", "write"}]

Run(asks, triggers, restart, writes) ==
    [asks |-> asks, triggers |-> triggers, restart |-> restart,
     writes |-> writes]

AllRuns == {Run(AllStops, 1, TRUE, 0), Run(AllStops, 1, FALSE, 0),
            Run(WriteFile, 0, FALSE, 1), Run(WriteFile, 1, FALSE, 2),
            Run(FilesAndServer, 1, FALSE, 1)}
OnlyWrite == {Run(WriteFile, 0, FALSE, 1)}

AllParams == Params
=========================================================================
