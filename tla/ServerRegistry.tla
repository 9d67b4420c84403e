------------------------- MODULE ServerRegistry -------------------------
(***************************************************************************)
(* The FoamMetaServer (Infrastructure/FoamMetaServer.py) and the servers   *)
(* of the runs that register with it (Infrastructure/FoamServer.py).       *)
(*                                                                         *)
(* Every run has a process, whose pid is never used again, with a server   *)
(* at the lowest free port.  Five seconds after its start a Timer calls    *)
(* register; at the end of the run main calls deregister, which does       *)
(* something only if the answer to register was seen.  The meta server     *)
(* has one thread "rpc" for these calls, a MetaChecker, which asks all     *)
(* known servers for their pid, and a MetaCollector for every scan of the  *)
(* ports.  dataLock is held while a server is registered, which asks the   *)
(* server back; startupLock keeps checker and collector apart.             *)
(*                                                                         *)
(* Processes die, the meta server is killed and started again, and a       *)
(* server may be too slow for the time limit of a question.                *)
(***************************************************************************)
EXTENDS Naturals, FiniteSets, FiniteSetsExt

CONSTANTS Servers,      \* processes, named by their pids
          Ports,        \* startServerPort, ...: the ports of the machine
          MaxEvents     \* bound on the calls of collect and scan, the starts
                        \* of the meta server, the questions that time out
                        \* and the scans that raise

ASSUME ServersAssumption == Servers \subseteq Nat \ {0}
ASSUME PortsAssumption == Ports \subseteq Nat \ {0}
ASSUME BoundsAssumption == MaxEvents \in Nat

VARIABLES
    main,           \* per server: where BasicRunner.start is
    port,           \* per server: FoamServer._port, kept when it is closed
    reg,            \* per server: where the Timer with register is
    dereg,          \* per server: where the call of deregister is
    isRegistered,   \* per server: FoamServer.isRegistered
    servers,        \* FoamMetaServer.servers: the pid at every known port
    dataLock,       \* who holds it: "free", "rpc" or "collector"
    startupLock,    \* "free", "checker" or "collector"
    register,       \* per thread: where _registerServer is, and for whom
    checker,        \* where MetaChecker.run is, its copy of servers, and the
                    \* entry that it found dead
    collector,      \* where MetaCollector.run is, ports to probe, ports found
    waiting,        \* collectors that have not begun
    lastScan,       \* history: how the last scan to begin went: "fine", it
                    \* was "cut" short, or it "raised"
    unscanned,      \* history: the meta server was started again and no scan
                    \* has gone through since
    scans, restarts, timeouts, raised   \* how often it happened

serverVars == <<main, port, reg, dereg, isRegistered>>
lockVars == <<dataLock, startupLock>>
threadVars == <<register, checker, collector, waiting>>
scanVars == <<lastScan, unscanned>>
countVars == <<scans, restarts, timeouts, raised>>
vars == <<serverVars, servers, lockVars, threadVars, scanVars, countVars>>

Nobody == 0

Nothing == [p \in Ports |-> Nobody]
NotRegistering == [at |-> "idle", server |-> Nobody]
Sleeping == [at |-> "sleep", copy |-> Nothing, bad |-> 0]
NotScanning == [at |-> "idle", todo |-> {}, found |-> {}]

MoreEvents == scans + restarts + timeouts + raised < MaxEvents

Threads == {"rpc", "collector"}

(* The meta server starts with a collector. *)
Init ==
    /\ main = [s \in Servers |-> "init"]
    /\ port = [s \in Servers |-> 0]
    /\ reg = [s \in Servers |-> "unset"]
    /\ dereg = [s \in Servers |-> "unset"]
    /\ isRegistered = [s \in Servers |-> FALSE]
    /\ servers = Nothing
    /\ dataLock = "free" /\ startupLock = "free"
    /\ register = [t \in Threads |-> NotRegistering]
    /\ checker = Sleeping
    /\ collector = NotScanning
    /\ waiting = 1
    /\ lastScan = "fine" /\ unscanned = FALSE
    /\ scans = 0 /\ restarts = 0 /\ timeouts = 0 /\ raised = 0
-------------------------------------------------------------------------
(* The socket is bound in FoamServer.__init__ and closed by deregister. *)
Serves(s) == main[s] = "running"

ServesAt(s, p) == Serves(s) /\ port[s] = p

IsFree(p) == \A s \in Servers : ~ServesAt(s, p)

FreePorts == {p \in Ports : IsFree(p)}

(* What server.pid() or another question to a port returns: the pid of who *)
(* serves there; Nobody is the exception for a refused connection or a     *)
(* question that took too long.                                            *)
Answer(p, got) ==
    \/ /\ got \in Servers /\ ServesAt(got, p)
       /\ UNCHANGED timeouts
    \/ /\ got = Nobody /\ IsFree(p)
       /\ UNCHANGED timeouts
    \/ /\ got = Nobody /\ ~IsFree(p) /\ MoreEvents
       /\ timeouts' = timeouts + 1
-------------------------------------------------------------------------
(* The process of a run *)

(* FoamServer.__init__ with findFreePort, and FoamServer.run.  Without a   *)
(* free port the run goes on without a server (BasicRunner.py:213).  Pids  *)
(* are given in ascending order.                                           *)
Start(s) ==
    /\ main[s] = "init"
    /\ \A q \in Servers : q < s => main[q] # "init"
    /\ IF FreePorts = {}
         THEN /\ main' = [main EXCEPT ![s] = "alone"]
              /\ UNCHANGED <<port, reg>>
         ELSE /\ main' = [main EXCEPT ![s] = "running"]
              /\ port' = [port EXCEPT ![s] = Min(FreePorts)]
              /\ reg' = [reg EXCEPT ![s] = "timer"]
    /\ UNCHANGED <<dereg, isRegistered, servers, lockVars, threadVars,
                   scanVars, countVars>>

(* Mutant: isRegistered is set before the meta server was called. *)
RegisterEarly(s) ==
    /\ reg[s] = "timer" /\ main[s] # "dead"
    /\ reg' = [reg EXCEPT ![s] = "called"]
    /\ isRegistered' = [isRegistered EXCEPT ![s] = TRUE]
    /\ UNCHANGED <<main, port, dereg, servers, lockVars, threadVars,
                   scanVars, countVars>>

(* The Timer runs out; it is not cancelled by the end of the run. *)
Register(s) ==
    /\ reg[s] = "timer" /\ main[s] # "dead"
    /\ reg' = [reg EXCEPT ![s] = "called"]
    /\ UNCHANGED <<main, port, dereg, isRegistered, servers, lockVars,
                   threadVars, scanVars, countVars>>

(* The answer has come. *)
Registered(s) ==
    /\ reg[s] = "answered" /\ main[s] # "dead"
    /\ reg' = [reg EXCEPT ![s] = "done"]
    /\ isRegistered' = [isRegistered EXCEPT ![s] = TRUE]
    /\ UNCHANGED <<main, port, dereg, servers, lockVars, threadVars,
                   scanVars, countVars>>

(* The end of BasicRunner.start: deregister calls the meta server only if  *)
(* isRegistered is set.                                                    *)
Deregister(s) ==
    /\ main[s] = "running" /\ dereg[s] = "unset"
    /\ dereg' = [dereg EXCEPT ![s] =
                   IF isRegistered[s] THEN "called" ELSE "answered"]
    /\ UNCHANGED <<main, port, reg, isRegistered, servers, lockVars,
                   threadVars, scanVars, countVars>>

(* self._server.server_close() *)
Close(s) ==
    /\ main[s] = "running" /\ dereg[s] = "answered"
    /\ main' = [main EXCEPT ![s] = "closed"]
    /\ UNCHANGED <<port, reg, dereg, isRegistered, servers, lockVars,
                   threadVars, scanVars, countVars>>

(* The process is killed.  Its calls may already be with the meta server. *)
Die(s) ==
    /\ main[s] = "running"
    /\ main' = [main EXCEPT ![s] = "dead"]
    /\ UNCHANGED <<port, reg, dereg, isRegistered, servers, lockVars,
                   threadVars, scanVars, countVars>>
-------------------------------------------------------------------------
(* FoamMetaServer._registerServer and deregisterServer *)

(* Up to the question whether the port is known *)
LockData(t, s) ==
    /\ dataLock = "free"
    /\ dataLock' = t
    /\ register' = [register EXCEPT ![t] =
         [at |-> IF servers[port[s]] # Nobody THEN "askPid"
                 ELSE IF t = "rpc" THEN "query" ELSE "checkValid",
          server |-> s]]

(* An XMLRPC call gets its answer, True whatever happened. *)
UnlockData(t) ==
    /\ dataLock' = "free"
    /\ register' = [register EXCEPT ![t] = NotRegistering]
    /\ IF t = "rpc"
         THEN reg' = [reg EXCEPT ![register[t].server] = "answered"]
         ELSE UNCHANGED reg

Continue(t, label) ==
    /\ register' = [register EXCEPT ![t].at = label]
    /\ UNCHANGED <<dataLock, reg>>

RegisterCall(s) ==
    /\ register["rpc"].at = "idle" /\ reg[s] = "called"
    /\ LockData("rpc", s)
    /\ UNCHANGED <<serverVars, servers, startupLock, checker, collector,
                   waiting, scanVars, countVars>>

(* Mutant: the comparison of the pids the wrong way round. *)
AskPidInverted(t) ==
    LET s == register[t].server
        p == port[s]
    IN  /\ register[t].at = "askPid"
        /\ \E got \in Servers \cup {Nobody} :
             /\ Answer(p, got)
             /\ IF got # s
                  THEN UnlockData(t) /\ UNCHANGED servers
                  ELSE /\ servers' = [servers EXCEPT ![p] = Nobody]
                       /\ Continue(t, IF t = "rpc" THEN "query"
                                                   ELSE "checkValid")
        /\ UNCHANGED <<main, port, dereg, isRegistered, startupLock, checker,
                       collector, waiting, scanVars, scans, restarts, raised>>

(* A known port: the pid of the call is compared with the one that the     *)
(* server at the port has now, not with the one in the list.               *)
AskPid(t) ==
    LET s == register[t].server
        p == port[s]
    IN  /\ register[t].at = "askPid"
        /\ \E got \in Servers \cup {Nobody} :
             /\ Answer(p, got)
             /\ IF got \in {s, Nobody}
                  THEN UnlockData(t) /\ UNCHANGED servers
                  ELSE /\ servers' = [servers EXCEPT ![p] = Nobody]
                       /\ Continue(t, IF t = "rpc" THEN "query"
                                                   ELSE "checkValid")
        /\ UNCHANGED <<main, port, dereg, isRegistered, startupLock, checker,
                       collector, waiting, scanVars, scans, restarts, raised>>

(* Calls that do not come from the server itself are checked first. *)
CheckValid(t) ==
    LET s == register[t].server
    IN  /\ register[t].at = "checkValid"
        /\ \E got \in Servers \cup {Nobody} :
             /\ Answer(port[s], got)
             /\ IF got = s THEN Continue(t, "query") ELSE UnlockData(t)
        /\ UNCHANGED <<main, port, dereg, isRegistered, servers, startupLock,
                       checker, collector, waiting, scanVars, scans,
                       restarts, raised>>

(* queryData, and only if nothing was raised the new entry *)
Query(t) ==
    LET s == register[t].server
    IN  /\ register[t].at = "query"
        /\ \E got \in Servers \cup {Nobody} :
             /\ Answer(port[s], got)
             /\ servers' = IF got = Nobody THEN servers
                           ELSE [servers EXCEPT ![port[s]] = s]
        /\ UnlockData(t)
        /\ UNCHANGED <<main, port, dereg, isRegistered, startupLock, checker,
                       collector, waiting, scanVars, scans, restarts, raised>>

(* deregisterServer by the server: whoever is known at the port is removed *)
DeregisterCall(s) ==
    /\ register["rpc"].at = "idle" /\ dereg[s] = "called"
    /\ dataLock = "free"
    /\ servers' = [servers EXCEPT ![port[s]] = Nobody]
    /\ dereg' = [dereg EXCEPT ![s] = "answered"]
    /\ UNCHANGED <<main, port, reg, isRegistered, lockVars, threadVars,
                   scanVars, countVars>>
-------------------------------------------------------------------------
(* MetaChecker.run *)

CopyServers ==
    /\ checker.at = "sleep" /\ startupLock = "free" /\ dataLock = "free"
    /\ startupLock' = "checker"
    /\ checker' = [at |-> "check", copy |-> servers, bad |-> 0]
    /\ UNCHANGED <<serverVars, servers, dataLock, register, collector,
                   waiting, scanVars, countVars>>

CheckEntry(p) ==
    /\ checker.at = "check" /\ checker.copy[p] # Nobody
    /\ \E got \in Servers \cup {Nobody} :
         /\ Answer(p, got)
         /\ checker' = IF got = checker.copy[p]
                         THEN [checker EXCEPT !.copy[p] = Nobody]
                         ELSE [checker EXCEPT !.at = "deregister", !.bad = p]
    /\ UNCHANGED <<serverVars, servers, lockVars, register, collector,
                   waiting, scanVars, scans, restarts, raised>>

(* Mutant: the entry of a dead server stays. *)
DeregisterNothing ==
    /\ checker.at = "deregister" /\ dataLock = "free"
    /\ checker' = [at |-> "check", bad |-> 0,
                   copy |-> [checker.copy EXCEPT ![checker.bad] = Nobody]]
    /\ UNCHANGED <<serverVars, servers, lockVars, register, collector,
                   waiting, scanVars, countVars>>

DeregisterBad ==
    /\ checker.at = "deregister" /\ dataLock = "free"
    /\ servers' = [servers EXCEPT ![checker.bad] = Nobody]
    /\ checker' = [at |-> "check", bad |-> 0,
                   copy |-> [checker.copy EXCEPT ![checker.bad] = Nobody]]
    /\ UNCHANGED <<serverVars, lockVars, register, collector, waiting,
                   scanVars, countVars>>

Sleep ==
    /\ checker.at = "check" /\ checker.copy = Nothing
    /\ checker' = Sleeping
    /\ startupLock' = "free"
    /\ UNCHANGED <<serverVars, servers, dataLock, register, collector,
                   waiting, scanVars, countVars>>
-------------------------------------------------------------------------
(* MetaCollector.run *)

(* collect and scan are called by users of the meta server *)
Collect ==
    /\ MoreEvents
    /\ scans' = scans + 1
    /\ waiting' = waiting + 1
    /\ UNCHANGED <<serverVars, servers, lockVars, register, checker, collector,
                   scanVars, restarts, timeouts, raised>>

BeginScan ==
    /\ waiting > 0 /\ startupLock = "free"
    /\ startupLock' = "collector"
    /\ waiting' = waiting - 1
    /\ collector' = [at |-> "scan", todo |-> Ports, found |-> {}]
    /\ lastScan' = "fine"
    /\ UNCHANGED <<serverVars, servers, dataLock, register, checker, unscanned,
                   countVars>>

(* No ports of this machine: checkFoamServers returned None or raised,     *)
(* which run() catches.                                                    *)
DropResult ==
    /\ collector' = [at |-> "scan", todo |-> {}, found |-> {}]
    /\ lastScan' = "cut"

(* checkFoamServers, port by port: connect, which is refused if nobody     *)
(* serves there; if it takes too long the scan of the machine ends.        *)
Connect ==
    /\ collector.at = "scan" /\ collector.todo # {}
    /\ LET p == Min(collector.todo)
       IN  \E got \in Servers \cup {Nobody} :
             /\ Answer(p, got)
             /\ \/ /\ got # Nobody
                   /\ collector' = [collector EXCEPT !.at = "isFoamServer"]
                   /\ UNCHANGED lastScan
                \/ /\ got = Nobody /\ IsFree(p)
                   /\ collector' = [collector EXCEPT !.todo = @ \ {p}]
                   /\ UNCHANGED lastScan
                \/ got = Nobody /\ ~IsFree(p) /\ DropResult
    /\ UNCHANGED <<serverVars, servers, lockVars, register, checker, waiting,
                   unscanned, scans, restarts, raised>>

(* ... and isFoamServer, another connection: if the server has gone or     *)
(* takes too long the socket.error is not caught in checkFoamServers, and  *)
(* the ports found so far are lost with the others.                        *)
IsFoamServer ==
    /\ collector.at = "isFoamServer"
    /\ LET p == Min(collector.todo)
       IN  \E got \in Servers \cup {Nobody} :
             /\ Answer(p, got)
             /\ IF got = Nobody THEN DropResult
                ELSE /\ collector' = [at |-> "scan",
                                      todo |-> collector.todo \ {p},
                                      found |-> collector.found \cup {p}]
                     /\ UNCHANGED lastScan
    /\ UNCHANGED <<serverVars, servers, lockVars, register, checker, waiting,
                   unscanned, scans, restarts, raised>>

(* Before and after a machine is scanned the subnet is parsed (IP) and the *)
(* name of the host looked up; an exception that is not a socket.herror    *)
(* ends the thread, and startupLock is never released.                     *)
ScanRaises ==
    /\ collector.at = "scan" /\ register["collector"].at = "idle"
    /\ \/ collector.todo = Ports
       \/ collector.todo = {} /\ collector.found = {}
    /\ MoreEvents
    /\ raised' = raised + 1
    /\ lastScan' = "raised"
    /\ collector' = NotScanning
    /\ UNCHANGED <<serverVars, servers, lockVars, register, checker, waiting,
                   unscanned, scans, restarts, timeouts>>

(* pid=server.pid() for the next port that was found *)
AskFound ==
    /\ collector.at = "scan" /\ collector.todo = {} /\ collector.found # {}
    /\ register["collector"].at = "idle"
    /\ LET p == Min(collector.found)
       IN  \E got \in Servers \cup {Nobody} :
             /\ Answer(p, got)
             /\ collector' = [collector EXCEPT !.found = @ \ {p}]
             /\ register' = IF got = Nobody THEN register
                            ELSE [register EXCEPT !["collector"] =
                                    [at |-> "wait", server |-> got]]
    /\ UNCHANGED <<serverVars, servers, lockVars, checker, waiting, scanVars,
                   scans, restarts, raised>>

RegisterFound ==
    /\ register["collector"].at = "wait"
    /\ LockData("collector", register["collector"].server)
    /\ UNCHANGED <<serverVars, servers, startupLock, checker, collector,
                   waiting, scanVars, countVars>>

(* Mutant: the lock is not given back. *)
EndScanKeepsLock ==
    /\ collector.at = "scan" /\ collector.todo = {} /\ collector.found = {}
    /\ register["collector"].at = "idle"
    /\ collector' = NotScanning
    /\ unscanned' = (unscanned /\ lastScan # "fine")
    /\ UNCHANGED <<serverVars, servers, lockVars, register, checker, waiting,
                   lastScan, countVars>>

EndScan ==
    /\ collector.at = "scan" /\ collector.todo = {} /\ collector.found = {}
    /\ register["collector"].at = "idle"
    /\ collector' = NotScanning
    /\ startupLock' = "free"
    /\ unscanned' = (unscanned /\ lastScan # "fine")
    /\ UNCHANGED <<serverVars, servers, dataLock, register, checker, waiting,
                   lastScan, countVars>>
-------------------------------------------------------------------------
(* The meta server is killed and started again: what it knew is lost, and  *)
(* calls that it did not answer fail with a socket.error, which the        *)
(* servers catch.                                                          *)
Restart ==
    /\ MoreEvents
    /\ restarts' = restarts + 1
    /\ servers' = Nothing
    /\ dataLock' = "free" /\ startupLock' = "free"
    /\ register' = [t \in Threads |-> NotRegistering]
    /\ checker' = Sleeping /\ collector' = NotScanning
    /\ waiting' = 1
    /\ lastScan' = "fine" /\ unscanned' = TRUE
    /\ reg' = [s \in Servers |-> IF reg[s] = "called" THEN "done" ELSE reg[s]]
    /\ dereg' = [s \in Servers |->
                   IF dereg[s] = "called" THEN "answered" ELSE dereg[s]]
    /\ UNCHANGED <<main, port, isRegistered, scans, timeouts, raised>>
-------------------------------------------------------------------------
ServerStep(s) == Register(s) \/ Registered(s) \/ Close(s)
RegisterServer(t) == AskPid(t) \/ CheckValid(t) \/ Query(t)
Rpc == \/ \E s \in Servers : RegisterCall(s) \/ DeregisterCall(s)
       \/ RegisterServer("rpc")
Checker == \/ CopyServers \/ DeregisterBad \/ Sleep
           \/ \E p \in Ports : CheckEntry(p)
Collector == \/ BeginScan \/ Connect \/ IsFoamServer \/ AskFound
             \/ RegisterFound \/ EndScan
             \/ RegisterServer("collector")

Next == \/ \E s \in Servers : \/ Start(s) \/ ServerStep(s)
                              \/ Deregister(s) \/ Die(s)
        \/ Rpc \/ Checker \/ Collector
        \/ Collect \/ ScanRaises \/ Restart

(* Threads of the meta server go on.  The checker sleeps 30 seconds        *)
(* without startupLock (FoamMetaServer.py:323), so a waiting collector     *)
(* gets it.                                                                *)
(* Nothing has to happen in a run, and nobody has to ask for a scan.       *)
Fairness == /\ WF_vars(Rpc) /\ WF_vars(Checker) /\ WF_vars(Collector)
            /\ SF_vars(BeginScan)

Spec == Init /\ [][Next]_vars
FairSpec == Spec /\ Fairness
-------------------------------------------------------------------------
Pids == Servers \cup {Nobody}

TypeOK ==
    /\ main \in [Servers -> {"init", "alone", "running", "closed", "dead"}]
    /\ port \in [Servers -> Ports \cup {0}]
    /\ reg \in [Servers -> {"unset", "timer", "called", "answered", "done"}]
    /\ dereg \in [Servers -> {"unset", "called", "answered"}]
    /\ isRegistered \in [Servers -> BOOLEAN]
    /\ servers \in [Ports -> Pids]
    /\ dataLock \in Threads \cup {"free"}
    /\ startupLock \in {"free", "checker", "collector"}
    /\ register \in [Threads -> [at : {"idle", "wait", "askPid", "checkValid",
                                       "query"}, server : Pids]]
    /\ checker \in [at : {"sleep", "check", "deregister"},
                    copy : [Ports -> Pids], bad : Ports \cup {0}]
    /\ collector \in [at : {"idle", "scan", "isFoamServer"},
                      todo : SUBSET Ports, found : SUBSET Ports]
    /\ lastScan \in {"fine", "cut", "raised"} /\ unscanned \in BOOLEAN
    /\ waiting \in Nat /\ scans \in Nat /\ restarts \in Nat
    /\ timeouts \in Nat /\ raised \in Nat

(* The server is the first one that ever had its port. *)
FirstAtPort(s) == \A q \in Servers \ {s} : port[q] # port[s]

Knows(s) == port[s] \in Ports /\ servers[port[s]] = s

(* A server whose port was never used before is not taken off the list     *)
(* while it serves, except by its own call or because it did not answer in *)
(* time (or the meta server dies): not by checks, scans or late calls of   *)
(* others, although all of them work with what they knew before.           *)
KeepsServers ==
    [][\A s \in Servers :
         Serves(s) /\ FirstAtPort(s) /\ Knows(s) /\ ~Knows(s)'
           => \/ dereg[s] # dereg'[s]
              \/ timeouts' > 0
              \/ restarts' > restarts]_vars

(* At such a port, and if every question is answered in time, a server     *)
(* that was told it is registered is in the list until it deregisters.     *)
(* After a restart of the meta server it is listed again as soon as one    *)
(* scan has gone through: a scan that another server cuts short by dying   *)
(* between the two questions, or that raised, does not count.              *)
RegisteredIsListed ==
    \A s \in Servers :
        /\ Serves(s) /\ isRegistered[s] /\ dereg[s] = "unset"
        /\ FirstAtPort(s) /\ timeouts = 0
        /\ ~unscanned
        => Knows(s)

(* Whoever is in the list and does not serve any more is removed, unless a *)
(* scan raised: then the checker waits for startupLock for ever.           *)
DeadAreRemoved ==
    \A s \in Servers :
        Knows(s) /\ ~Serves(s) ~> ~Knows(s) \/ lastScan = "raised"

(* A collector gets its turn, whatever the scans before it met, unless one *)
(* of them raised.  What it scans from the first port to the last without  *)
(* being cut short it finds.                                               *)
ScanFinds ==
    /\ waiting > 0 ~> collector.at = "scan" \/ lastScan = "raised"
    /\ \A s \in Servers :
         Serves(s) /\ collector.at = "scan" /\ collector.todo = Ports ~>
            \/ Knows(s) \/ ~Serves(s) \/ ~FirstAtPort(s)
            \/ timeouts > 0 \/ lastScan # "fine"

(* "maybe it's another process": what RegisteredIsListed says should also  *)
(* hold for a server at a port that another one used before.               *)
ReusedPortListed ==
    \A s \in Servers :
        /\ Serves(s) /\ isRegistered[s] /\ dereg[s] = "unset"
        /\ timeouts = 0 /\ restarts = 0 /\ startupLock = "free"
        /\ \A q \in Servers \ {s} : reg[q] \in {"unset", "timer", "done"}
        => Knows(s)
=========================================================================
