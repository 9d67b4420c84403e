---------------------- MODULE ServerRegistryProofs ----------------------
(***************************************************************************)
(* Proofs about ServerRegistry for any number of servers, ports, scans,    *)
(* restarts and questions that take too long.                              *)
(***************************************************************************)
EXTENDS ServerRegistry, WellFoundedInduction, TLAPS

(* A process without a server has no port and called nobody; one that      *)
(* serves has a port for itself.                                           *)
PortInv ==
    \A s \in Servers :
        /\ main[s] \in {"init", "alone"} =>
             port[s] = 0 /\ reg[s] = "unset" /\ ~isRegistered[s]
        /\ Serves(s) => port[s] \in Ports
        /\ \A q \in Servers : Serves(s) /\ Serves(q) /\ port[s] = port[q] => s = q

(* An entry for port p names a process that had port p. *)
Entries(known) ==
    \A p \in Ports :
        known[p] # Nobody => main[known[p]] # "init" /\ port[known[p]] = p

(* A thread that registers works for a process that has begun. *)
Registering ==
    \A t \in Threads :
        register[t].at # "idle" =>
            /\ register[t].server \in Servers
            /\ main[register[t].server] \notin {"init", "alone"}

(* The checker removes only what is gone for ever, if the answer came in   *)
(* time.                                                                   *)
BadIsGone ==
    checker.at = "deregister" /\ timeouts = 0 =>
        /\ checker.bad \in Ports
        /\ checker.copy[checker.bad] \in Servers
        /\ port[checker.copy[checker.bad]] = checker.bad
        /\ main[checker.copy[checker.bad]] \in {"closed", "dead"}

(* The collector asks isFoamServer at a port that it has yet to scan.      *)
Asking == collector.at = "isFoamServer" => collector.todo # {}

(* What a server that has been told that it is registered may rely on: it  *)
(* is listed, or no scan has gone through yet and the one that runs now    *)
(* was cut short or has yet to come to the server.                         *)
Undisturbed(s) ==
    Serves(s) /\ FirstAtPort(s) /\ timeouts = 0 /\ dereg[s] = "unset"

InScan(s) ==
    \/ port[s] \in collector.todo \cup collector.found
    \/ /\ register["collector"].at # "idle"
       /\ register["collector"].server = s

ScanWillFind(s) ==
    unscanned /\ (collector.at # "idle" /\ lastScan = "fine" => InScan(s))

AskedIfListed(s) ==
    \A t \in Threads :
        register[t].at = "askPid" /\ register[t].server = s => Knows(s)

ListedOrFound(s) ==
    reg[s] = "answered" \/ isRegistered[s] => Knows(s) \/ ScanWillFind(s)

Listed ==
    \A s \in Servers : Undisturbed(s) => AskedIfListed(s) /\ ListedOrFound(s)

IInv == /\ TypeOK /\ PortInv
        /\ Entries(servers) /\ Entries(checker.copy)
        /\ Registering /\ BadIsGone /\ Asking /\ Listed
-------------------------------------------------------------------------
(* A set of natural numbers that is not empty has a first one. *)
LEMMA MinOf ==
    ASSUME NEW S \in SUBSET Nat, S # {}
    PROVE  Min(S) \in S /\ \A y \in S : Min(S) <= y
<1> DEFINE R == {ss \in Nat \X Nat : ss[1] < ss[2]}
<1>1. IsWellFoundedOn(R, Nat)
  BY NatLessThanWellFounded DEF OpToRel
<1>2. PICK x \in S : \A y \in S : ~ (<<y, x>> \in R)
  <2> HIDE DEF R
  <2> QED
    BY <1>1, WFMin
<1>3. ASSUME NEW y \in S
      PROVE  x <= y
  <2>1. <<y, x>> \in Nat \X Nat /\ <<y, x>>[1] = y /\ <<y, x>>[2] = x
    OBVIOUS
  <2>2. ~ (y < x)
    BY <1>2, <2>1
  <2> QED
    BY <2>2
<1> QED
  BY <1>3 DEF Min

(* If a server is asked in time it is the one that answers. *)
LEMMA InTime ==
    ASSUME TypeOK, PortInv, NEW s \in Servers, Serves(s), NEW got \in Pids,
           Answer(port[s], got), timeouts' = 0
    PROVE  got = s /\ timeouts = 0
<1>1. ~IsFree(port[s])
  BY DEF IsFree, ServesAt
<1>2. timeouts = 0 /\ got \in Servers /\ ServesAt(got, port[s])
  BY <1>1 DEF Answer, TypeOK
<1> QED
  BY <1>2 DEF PortInv, ServesAt

(* The port that a new server gets is free. *)
LEMMA LowestIsFree ==
    ASSUME FreePorts # {}
    PROVE  Min(FreePorts) \in FreePorts
<1>1. FreePorts \in SUBSET Nat
  BY PortsAssumption DEF FreePorts
<1> QED
  BY <1>1, MinOf

(* Types: every step keeps every variable in its range. *)
LEMMA TypeStep ==
    ASSUME IInv, [Next]_vars
    PROVE  TypeOK'
<1> USE DEF IInv, TypeOK, Pids, Nobody, Nothing, NotRegistering, Sleeping,
            NotScanning, Threads, PortInv,
            serverVars, lockVars, threadVars, scanVars, countVars
<1>1. ASSUME NEW s \in Servers, Start(s)
      PROVE  TypeOK'
  <2>1. CASE FreePorts = {}
    BY <1>1, <2>1 DEF Start
  <2>2. CASE FreePorts # {}
    <3>1. Min(FreePorts) \in Ports
      BY <2>2, LowestIsFree DEF FreePorts
    <3> QED
      BY <1>1, <2>2, <3>1 DEF Start
  <2> QED
    BY <2>1, <2>2
<1>2. ASSUME NEW s \in Servers, Register(s)
      PROVE  TypeOK'
  BY <1>2 DEF Register
<1>3. ASSUME NEW s \in Servers, Registered(s)
      PROVE  TypeOK'
  BY <1>3 DEF Registered
<1>4. ASSUME NEW s \in Servers, Deregister(s)
      PROVE  TypeOK'
  BY <1>4 DEF Deregister
<1>5. ASSUME NEW s \in Servers, Close(s)
      PROVE  TypeOK'
  BY <1>5 DEF Close
<1>6. ASSUME NEW s \in Servers, Die(s)
      PROVE  TypeOK'
  BY <1>6 DEF Die
<1>7. ASSUME NEW s \in Servers, RegisterCall(s)
      PROVE  TypeOK'
  BY <1>7 DEF RegisterCall, LockData
<1>8. ASSUME NEW s \in Servers, DeregisterCall(s)
      PROVE  TypeOK'
  BY <1>8 DEF DeregisterCall
<1>9. ASSUME NEW t \in Threads, AskPid(t)
      PROVE  TypeOK'
  BY <1>9 DEF AskPid, Answer, UnlockData, Continue
<1>10. ASSUME NEW t \in Threads, CheckValid(t)
      PROVE  TypeOK'
  BY <1>10 DEF CheckValid, Answer, UnlockData, Continue
<1>11. ASSUME NEW t \in Threads, Query(t)
      PROVE  TypeOK'
  <2>1. PICK got \in Servers \cup {Nobody} :
          /\ timeouts' = timeouts \/ timeouts' = timeouts + 1
          /\ servers' = IF got = Nobody THEN servers
                          ELSE [servers EXCEPT ![port[register[t].server]]
                                  = register[t].server]
    BY <1>11 DEF Query, Answer
  <2>3. timeouts' \in Nat
    BY <2>1
  <2>4. register[t].server \in Pids
    OBVIOUS
  <2>5. servers' \in [Ports -> Pids]
    BY <2>1, <2>4
  <2>2. /\ /\ dataLock' = "free"
        /\ register' = [register EXCEPT ![t] = NotRegistering]
        /\ reg' \in [Servers -> {"unset", "timer", "called", "answered", "done"}]
    BY <1>11 DEF Query, UnlockData
  <2> QED
    BY <1>11, <2>2, <2>3, <2>5 DEF Query
<1>12. ASSUME NEW p \in Ports, CheckEntry(p)
      PROVE  TypeOK'
  <2>1. PICK got \in Servers \cup {Nobody} :
          /\ timeouts' = timeouts \/ timeouts' = timeouts + 1
          /\ checker' = IF got = checker.copy[p]
                         THEN [checker EXCEPT !.copy[p] = Nobody]
                         ELSE [checker EXCEPT !.at = "deregister", !.bad = p]
    BY <1>12 DEF CheckEntry, Answer
  <2>4. timeouts' \in Nat
    BY <2>1
  <2>2. [checker.copy EXCEPT ![p] = Nobody] \in [Ports -> Pids]
    OBVIOUS
  <2>3. checker' \in [at : {"sleep", "check", "deregister"},
                      copy : [Ports -> Pids], bad : Ports \cup {0}]
    BY <2>1, <2>2
  <2> QED
    BY <1>12, <2>3, <2>4 DEF CheckEntry
<1>13. CASE CopyServers
  BY <1>13 DEF CopyServers
<1>14. CASE DeregisterBad
  BY <1>14 DEF DeregisterBad
<1>15. CASE Sleep
  BY <1>15 DEF Sleep
<1>16. CASE BeginScan
  BY <1>16 DEF BeginScan
<1>17. CASE Connect
  <2>1. PICK got \in Servers \cup {Nobody} :
          /\ timeouts' = timeouts \/ timeouts' = timeouts + 1
          /\ \/ collector' = [collector EXCEPT !.at = "isFoamServer"]
             \/ collector' = [collector EXCEPT
                                !.todo = @ \ {Min(collector.todo)}]
             \/ collector' = [at |-> "scan", todo |-> {}, found |-> {}]
          /\ lastScan' \in {"fine", "cut", "raised"}
    BY <1>17 DEF Connect, Answer, DropResult
  <2>2. timeouts' \in Nat
    BY <2>1
  <2>3. collector' \in [at : {"idle", "scan", "isFoamServer"},
                        todo : SUBSET Ports, found : SUBSET Ports]
    BY <2>1
  <2> QED
    BY <1>17, <2>1, <2>2, <2>3 DEF Connect
<1>18. CASE AskFound
  BY <1>18 DEF AskFound, Answer
<1>19. CASE RegisterFound
  BY <1>19 DEF RegisterFound, LockData
<1>20. CASE EndScan
  BY <1>20 DEF EndScan
<1>21. CASE Collect
  BY <1>21 DEF Collect
<1>22. CASE Restart
  BY <1>22 DEF Restart
<1>23. CASE IsFoamServer
  <2>1. Min(collector.todo) \in Ports
    BY <1>23, PortsAssumption, MinOf DEF IsFoamServer, Asking
  <2>2. PICK got \in Servers \cup {Nobody} :
          /\ timeouts' = timeouts \/ timeouts' = timeouts + 1
          /\ \/ collector' =
                   [at |-> "scan",
                    todo |-> collector.todo \ {Min(collector.todo)},
                    found |-> collector.found \cup {Min(collector.todo)}]
             \/ collector' = [at |-> "scan", todo |-> {}, found |-> {}]
          /\ lastScan' \in {"fine", "cut", "raised"}
    BY <1>23 DEF IsFoamServer, Answer, DropResult
  <2>3. timeouts' \in Nat
    BY <2>2
  <2>4. collector' \in [at : {"idle", "scan", "isFoamServer"},
                        todo : SUBSET Ports, found : SUBSET Ports]
    BY <2>1, <2>2
  <2> QED
    BY <1>23, <2>2, <2>3, <2>4 DEF IsFoamServer
<1>24. CASE ScanRaises
  BY <1>24 DEF ScanRaises
<1>25. CASE UNCHANGED vars
  BY <1>25 DEF vars
<1> QED
  BY <1>1, <1>2, <1>3, <1>4, <1>5, <1>6, <1>7, <1>8, <1>9, <1>10, <1>11, <1>12,
     <1>13, <1>14, <1>15, <1>16, <1>17, <1>18, <1>19, <1>20, <1>21, <1>22,
     <1>23, <1>24, <1>25
     DEF Next, ServerStep, Rpc, Checker, Collector, RegisterServer, Threads

(* A port is given by Start, which takes a free one, and never again.      *)
LEMMA PortStep ==
    ASSUME IInv, [Next]_vars
    PROVE  PortInv'
<1> USE DEF IInv, TypeOK, PortInv, Registering, Serves, ServesAt, FreePorts,
            serverVars, lockVars, threadVars, scanVars, countVars
<1>1. ASSUME NEW s \in Servers, Start(s)
      PROVE  PortInv'
  <2>1. CASE FreePorts = {}
    BY <1>1, <2>1 DEF Start
  <2>2. CASE FreePorts # {}
    <3> DEFINE p == Min(FreePorts)
    <3>1. p \in Ports /\ \A q \in Servers : ~(Serves(q) /\ port[q] = p)
      BY <2>2, LowestIsFree DEF IsFree
    <3>2. /\ main' = [main EXCEPT ![s] = "running"]
          /\ port' = [port EXCEPT ![s] = p]
          /\ reg' = [reg EXCEPT ![s] = "timer"]
          /\ isRegistered' = isRegistered
      BY <1>1, <2>2 DEF Start
    <3> HIDE DEF p
    <3> QED
      BY <3>1, <3>2
  <2> QED
    BY <2>1, <2>2
<1>2. ASSUME NEW s \in Servers, Register(s)
      PROVE  PortInv'
  BY <1>2 DEF Register
<1>3. ASSUME NEW s \in Servers, Registered(s)
      PROVE  PortInv'
  BY <1>3 DEF Registered
<1>4. ASSUME NEW s \in Servers, Deregister(s)
      PROVE  PortInv'
  BY <1>4 DEF Deregister
<1>5. ASSUME NEW s \in Servers, Close(s)
      PROVE  PortInv'
  BY <1>5 DEF Close
<1>6. ASSUME NEW s \in Servers, Die(s)
      PROVE  PortInv'
  BY <1>6 DEF Die
<1>7. ASSUME NEW s \in Servers, RegisterCall(s)
      PROVE  PortInv'
  BY <1>7 DEF RegisterCall, LockData
<1>8. ASSUME NEW s \in Servers, DeregisterCall(s)
      PROVE  PortInv'
  BY <1>8 DEF DeregisterCall
<1>9. ASSUME NEW t \in Threads, AskPid(t)
      PROVE  PortInv'
  BY <1>9 DEF AskPid, Answer, UnlockData, Continue
<1>10. ASSUME NEW t \in Threads, CheckValid(t)
      PROVE  PortInv'
  BY <1>10 DEF CheckValid, Answer, UnlockData, Continue
<1>11. ASSUME NEW t \in Threads, Query(t)
      PROVE  PortInv'
  BY <1>11 DEF Query, Answer, UnlockData
<1>12. ASSUME NEW p \in Ports, CheckEntry(p)
      PROVE  PortInv'
  BY <1>12 DEF CheckEntry, Answer
<1>13. CASE CopyServers
  BY <1>13 DEF CopyServers
<1>14. CASE DeregisterBad
  BY <1>14 DEF DeregisterBad
<1>15. CASE Sleep
  BY <1>15 DEF Sleep
<1>16. CASE BeginScan
  BY <1>16 DEF BeginScan
<1>17. CASE Connect
  BY <1>17 DEF Connect, Answer, DropResult
<1>18. CASE AskFound
  BY <1>18 DEF AskFound, Answer
<1>19. CASE RegisterFound
  BY <1>19 DEF RegisterFound, LockData
<1>20. CASE EndScan
  BY <1>20 DEF EndScan
<1>21. CASE Collect
  BY <1>21 DEF Collect
<1>22. CASE Restart
  BY <1>22 DEF Restart
<1>23. CASE IsFoamServer
  BY <1>23 DEF IsFoamServer, Answer, DropResult
<1>24. CASE ScanRaises
  BY <1>24 DEF ScanRaises
<1>25. CASE UNCHANGED vars
  BY <1>25 DEF vars
<1> QED
  BY <1>1, <1>2, <1>3, <1>4, <1>5, <1>6, <1>7, <1>8, <1>9, <1>10, <1>11, <1>12,
     <1>13, <1>14, <1>15, <1>16, <1>17, <1>18, <1>19, <1>20, <1>21, <1>22,
     <1>23, <1>24, <1>25
     DEF Next, ServerStep, Rpc, Checker, Collector, RegisterServer, Threads

(* Registrations are asked for by a server, or found by a collector that   *)
(* was answered by one.                                                    *)
LEMMA RegisteringStep ==
    ASSUME IInv, [Next]_vars
    PROVE  Registering'
<1> USE DEF IInv, TypeOK, Registering, PortInv, Threads, NotRegistering,
            Nobody, ServesAt, Serves,
            serverVars, lockVars, threadVars, scanVars, countVars
<1>1. ASSUME NEW s \in Servers, Start(s)
      PROVE  Registering'
  BY <1>1 DEF Start
<1>2. ASSUME NEW s \in Servers, Register(s)
      PROVE  Registering'
  BY <1>2 DEF Register
<1>3. ASSUME NEW s \in Servers, Registered(s)
      PROVE  Registering'
  BY <1>3 DEF Registered
<1>4. ASSUME NEW s \in Servers, Deregister(s)
      PROVE  Registering'
  BY <1>4 DEF Deregister
<1>5. ASSUME NEW s \in Servers, Close(s)
      PROVE  Registering'
  BY <1>5 DEF Close
<1>6. ASSUME NEW s \in Servers, Die(s)
      PROVE  Registering'
  BY <1>6 DEF Die
<1>7. ASSUME NEW s \in Servers, RegisterCall(s)
      PROVE  Registering'
  BY <1>7 DEF RegisterCall, LockData
<1>8. ASSUME NEW s \in Servers, DeregisterCall(s)
      PROVE  Registering'
  BY <1>8 DEF DeregisterCall
<1>9. ASSUME NEW t \in Threads, AskPid(t)
      PROVE  Registering'
  BY <1>9 DEF AskPid, Answer, UnlockData, Continue
<1>10. ASSUME NEW t \in Threads, CheckValid(t)
      PROVE  Registering'
  BY <1>10 DEF CheckValid, Answer, UnlockData, Continue
<1>11. ASSUME NEW t \in Threads, Query(t)
      PROVE  Registering'
  BY <1>11 DEF Query, Answer, UnlockData
<1>12. ASSUME NEW p \in Ports, CheckEntry(p)
      PROVE  Registering'
  BY <1>12 DEF CheckEntry, Answer
<1>13. CASE CopyServers
  BY <1>13 DEF CopyServers
<1>14. CASE DeregisterBad
  BY <1>14 DEF DeregisterBad
<1>15. CASE Sleep
  BY <1>15 DEF Sleep
<1>16. CASE BeginScan
  BY <1>16 DEF BeginScan
<1>17. CASE Connect
  BY <1>17 DEF Connect, Answer, DropResult
<1>18. CASE AskFound
  BY <1>18 DEF AskFound, Answer
<1>19. CASE RegisterFound
  BY <1>19 DEF RegisterFound, LockData
<1>20. CASE EndScan
  BY <1>20 DEF EndScan
<1>21. CASE Collect
  BY <1>21 DEF Collect
<1>22. CASE Restart
  BY <1>22 DEF Restart
<1>23. CASE IsFoamServer
  BY <1>23 DEF IsFoamServer, Answer, DropResult
<1>24. CASE ScanRaises
  BY <1>24 DEF ScanRaises
<1>25. CASE UNCHANGED vars
  BY <1>25 DEF vars
<1> QED
  BY <1>1, <1>2, <1>3, <1>4, <1>5, <1>6, <1>7, <1>8, <1>9, <1>10, <1>11, <1>12,
     <1>13, <1>14, <1>15, <1>16, <1>17, <1>18, <1>19, <1>20, <1>21, <1>22,
     <1>23, <1>24, <1>25
     DEF Next, ServerStep, Rpc, Checker, Collector, RegisterServer, Threads

(* Entries are made by Query, from who has the port.                       *)
LEMMA EntriesStep ==
    ASSUME IInv, [Next]_vars
    PROVE  (Entries(servers) /\ Entries(checker.copy))'
<1> USE DEF IInv, TypeOK, Entries, PortInv, Registering, Threads, Nothing,
            Sleeping, Nobody, ServesAt, Serves,
            serverVars, lockVars, threadVars, scanVars, countVars
<1>1. ASSUME NEW s \in Servers, Start(s)
      PROVE  (Entries(servers) /\ Entries(checker.copy))'
  <2>1. /\ servers' = servers /\ checker' = checker
        /\ \A q \in Servers : main[q] # "init" => main'[q] # "init"
        /\ \A q \in Servers \ {s} : port'[q] = port[q]
        /\ main[s] = "init"
    BY <1>1 DEF Start
  <2> QED
    BY <2>1 DEF Pids
<1>2. ASSUME NEW s \in Servers, Register(s)
      PROVE  (Entries(servers) /\ Entries(checker.copy))'
  BY <1>2 DEF Register
<1>3. ASSUME NEW s \in Servers, Registered(s)
      PROVE  (Entries(servers) /\ Entries(checker.copy))'
  BY <1>3 DEF Registered
<1>4. ASSUME NEW s \in Servers, Deregister(s)
      PROVE  (Entries(servers) /\ Entries(checker.copy))'
  BY <1>4 DEF Deregister
<1>5. ASSUME NEW s \in Servers, Close(s)
      PROVE  (Entries(servers) /\ Entries(checker.copy))'
  BY <1>5 DEF Close
<1>6. ASSUME NEW s \in Servers, Die(s)
      PROVE  (Entries(servers) /\ Entries(checker.copy))'
  BY <1>6 DEF Die
<1>7. ASSUME NEW s \in Servers, RegisterCall(s)
      PROVE  (Entries(servers) /\ Entries(checker.copy))'
  BY <1>7 DEF RegisterCall, LockData
<1>8. ASSUME NEW s \in Servers, DeregisterCall(s)
      PROVE  (Entries(servers) /\ Entries(checker.copy))'
  BY <1>8 DEF DeregisterCall
<1>9. ASSUME NEW t \in Threads, AskPid(t)
      PROVE  (Entries(servers) /\ Entries(checker.copy))'
  BY <1>9 DEF AskPid, Answer, UnlockData, Continue
<1>10. ASSUME NEW t \in Threads, CheckValid(t)
      PROVE  (Entries(servers) /\ Entries(checker.copy))'
  BY <1>10 DEF CheckValid, Answer, UnlockData, Continue
<1>11. ASSUME NEW t \in Threads, Query(t)
      PROVE  (Entries(servers) /\ Entries(checker.copy))'
  BY <1>11 DEF Query, Answer, UnlockData
<1>12. ASSUME NEW p \in Ports, CheckEntry(p)
      PROVE  (Entries(servers) /\ Entries(checker.copy))'
  BY <1>12 DEF CheckEntry, Answer
<1>13. CASE CopyServers
  BY <1>13 DEF CopyServers
<1>14. CASE DeregisterBad
  BY <1>14 DEF DeregisterBad
<1>15. CASE Sleep
  BY <1>15 DEF Sleep
<1>16. CASE BeginScan
  BY <1>16 DEF BeginScan
<1>17. CASE Connect
  BY <1>17 DEF Connect, Answer, DropResult
<1>18. CASE AskFound
  BY <1>18 DEF AskFound, Answer
<1>19. CASE RegisterFound
  BY <1>19 DEF RegisterFound, LockData
<1>20. CASE EndScan
  BY <1>20 DEF EndScan
<1>21. CASE Collect
  BY <1>21 DEF Collect
<1>22. CASE Restart
  BY <1>22 DEF Restart
<1>23. CASE IsFoamServer
  BY <1>23 DEF IsFoamServer, Answer, DropResult
<1>24. CASE ScanRaises
  BY <1>24 DEF ScanRaises
<1>25. CASE UNCHANGED vars
  BY <1>25 DEF vars
<1> QED
  BY <1>1, <1>2, <1>3, <1>4, <1>5, <1>6, <1>7, <1>8, <1>9, <1>10, <1>11, <1>12,
     <1>13, <1>14, <1>15, <1>16, <1>17, <1>18, <1>19, <1>20, <1>21, <1>22,
     <1>23, <1>24, <1>25
     DEF Next, ServerStep, Rpc, Checker, Collector, RegisterServer, Threads

(* A process that did not answer in time does not serve, and will not.     *)
LEMMA BadStep ==
    ASSUME IInv, [Next]_vars
    PROVE  BadIsGone'
<1> USE DEF IInv, TypeOK, BadIsGone, Entries, Threads, Nothing, Sleeping,
            Nobody, Serves,
            serverVars, lockVars, threadVars, scanVars, countVars
<1>1. ASSUME NEW s \in Servers, Start(s)
      PROVE  BadIsGone'
  BY <1>1 DEF Start
<1>2. ASSUME NEW s \in Servers, Register(s)
      PROVE  BadIsGone'
  BY <1>2 DEF Register
<1>3. ASSUME NEW s \in Servers, Registered(s)
      PROVE  BadIsGone'
  BY <1>3 DEF Registered
<1>4. ASSUME NEW s \in Servers, Deregister(s)
      PROVE  BadIsGone'
  BY <1>4 DEF Deregister
<1>5. ASSUME NEW s \in Servers, Close(s)
      PROVE  BadIsGone'
  BY <1>5 DEF Close
<1>6. ASSUME NEW s \in Servers, Die(s)
      PROVE  BadIsGone'
  BY <1>6 DEF Die
<1>7. ASSUME NEW s \in Servers, RegisterCall(s)
      PROVE  BadIsGone'
  BY <1>7 DEF RegisterCall, LockData
<1>8. ASSUME NEW s \in Servers, DeregisterCall(s)
      PROVE  BadIsGone'
  BY <1>8 DEF DeregisterCall
<1>9. ASSUME NEW t \in Threads, AskPid(t)
      PROVE  BadIsGone'
  BY <1>9 DEF AskPid, Answer, UnlockData, Continue
<1>10. ASSUME NEW t \in Threads, CheckValid(t)
      PROVE  BadIsGone'
  BY <1>10 DEF CheckValid, Answer, UnlockData, Continue
<1>11. ASSUME NEW t \in Threads, Query(t)
      PROVE  BadIsGone'
  BY <1>11 DEF Query, Answer, UnlockData
<1>12. ASSUME NEW p \in Ports, CheckEntry(p)
      PROVE  BadIsGone'
  <2> SUFFICES ASSUME checker'.at = "deregister", timeouts' = 0
               PROVE  /\ checker'.bad \in Ports
                      /\ checker'.copy[checker'.bad] \in Servers
                      /\ port[checker'.copy[checker'.bad]] = checker'.bad
                      /\ main[checker'.copy[checker'.bad]] \in {"closed", "dead"}
    BY <1>12 DEF CheckEntry
  <2>1. PICK got \in Servers \cup {Nobody} :
          /\ Answer(p, got)
          /\ checker' = IF got = checker.copy[p]
                         THEN [checker EXCEPT !.copy[p] = Nobody]
                         ELSE [checker EXCEPT !.at = "deregister", !.bad = p]
    BY <1>12 DEF CheckEntry
  <2>2. checker' = [checker EXCEPT !.at = "deregister", !.bad = p]
        /\ got # checker.copy[p]
    BY <1>12, <2>1 DEF CheckEntry
  <2>3. checker.copy[p] \in Servers /\ port[checker.copy[p]] = p
        /\ main[checker.copy[p]] # "init"
    BY <1>12 DEF CheckEntry, Pids
  <2>4. main[checker.copy[p]] # "running"
    BY <2>1, <2>2, <2>3, InTime DEF Pids
  <2>5. main[checker.copy[p]] # "alone"
    BY <2>3, PortsAssumption DEF PortInv
  <2> QED
    BY <2>2, <2>3, <2>4, <2>5
<1>13. CASE CopyServers
  BY <1>13 DEF CopyServers
<1>14. CASE DeregisterBad
  BY <1>14 DEF DeregisterBad
<1>15. CASE Sleep
  BY <1>15 DEF Sleep
<1>16. CASE BeginScan
  BY <1>16 DEF BeginScan
<1>17. CASE Connect
  BY <1>17 DEF Connect, Answer, DropResult
<1>18. CASE AskFound
  BY <1>18 DEF AskFound, Answer
<1>19. CASE RegisterFound
  BY <1>19 DEF RegisterFound, LockData
<1>20. CASE EndScan
  BY <1>20 DEF EndScan
<1>21. CASE Collect
  BY <1>21 DEF Collect
<1>22. CASE Restart
  BY <1>22 DEF Restart
<1>23. CASE IsFoamServer
  BY <1>23 DEF IsFoamServer, Answer, DropResult
<1>24. CASE ScanRaises
  BY <1>24 DEF ScanRaises
<1>25. CASE UNCHANGED vars
  BY <1>25 DEF vars
<1> QED
  BY <1>1, <1>2, <1>3, <1>4, <1>5, <1>6, <1>7, <1>8, <1>9, <1>10, <1>11, <1>12,
     <1>13, <1>14, <1>15, <1>16, <1>17, <1>18, <1>19, <1>20, <1>21, <1>22,
     <1>23, <1>24, <1>25
     DEF Next, ServerStep, Rpc, Checker, Collector, RegisterServer, Threads

(* No one else takes a server off the list: AskPid would need a third      *)
(* process at the port, DeregisterCall another one that had it, and what   *)
(* DeregisterBad removes is gone.                                          *)
LEMMA KeepsStep ==
    ASSUME IInv, [Next]_vars, NEW s \in Servers,
           Serves(s), FirstAtPort(s), Knows(s),
           dereg'[s] = dereg[s], timeouts' = 0, restarts' = restarts
    PROVE  Knows(s)'
<1> USE DEF IInv, TypeOK, PortInv, BadIsGone, Registering, Threads, Knows,
            FirstAtPort, Serves, Nobody, ServesAt,
            serverVars, lockVars, threadVars, scanVars, countVars
<1>1. ASSUME NEW q \in Servers, Start(q)
      PROVE  Knows(s)'
  BY <1>1 DEF Start
<1>2. ASSUME NEW q \in Servers, Register(q)
      PROVE  Knows(s)'
  BY <1>2 DEF Register
<1>3. ASSUME NEW q \in Servers, Registered(q)
      PROVE  Knows(s)'
  BY <1>3 DEF Registered
<1>4. ASSUME NEW q \in Servers, Deregister(q)
      PROVE  Knows(s)'
  BY <1>4 DEF Deregister
<1>5. ASSUME NEW q \in Servers, Close(q)
      PROVE  Knows(s)'
  BY <1>5 DEF Close
<1>6. ASSUME NEW q \in Servers, Die(q)
      PROVE  Knows(s)'
  BY <1>6 DEF Die
<1>7. ASSUME NEW q \in Servers, RegisterCall(q)
      PROVE  Knows(s)'
  BY <1>7 DEF RegisterCall, LockData
<1>8. ASSUME NEW q \in Servers, DeregisterCall(q)
      PROVE  Knows(s)'
  BY <1>8 DEF DeregisterCall
<1>9. ASSUME NEW t \in Threads, AskPid(t)
      PROVE  Knows(s)'
  BY <1>9 DEF AskPid, Answer, UnlockData, Continue
<1>10. ASSUME NEW t \in Threads, CheckValid(t)
      PROVE  Knows(s)'
  BY <1>10 DEF CheckValid, Answer, UnlockData, Continue
<1>11. ASSUME NEW t \in Threads, Query(t)
      PROVE  Knows(s)'
  <2>1. register[t].server \in Servers /\ port' = port
    BY <1>11 DEF Query
  <2>2. port[register[t].server] = port[s] => register[t].server = s
    BY <2>1
  <2>3. servers' = servers
        \/ servers' = [servers EXCEPT ![port[register[t].server]] = register[t].server]
    BY <1>11 DEF Query
  <2> QED
    BY <2>1, <2>2, <2>3
<1>12. ASSUME NEW p \in Ports, CheckEntry(p)
      PROVE  Knows(s)'
  BY <1>12 DEF CheckEntry, Answer
<1>13. CASE CopyServers
  BY <1>13 DEF CopyServers
<1>14. CASE DeregisterBad
  <2>1. timeouts = 0 /\ port' = port
    BY <1>14 DEF DeregisterBad
  <2>2. checker.bad # port[s]
    BY <1>14, <2>1 DEF DeregisterBad
  <2> QED
    BY <1>14, <2>1, <2>2 DEF DeregisterBad
<1>15. CASE Sleep
  BY <1>15 DEF Sleep
<1>16. CASE BeginScan
  BY <1>16 DEF BeginScan
<1>17. CASE Connect
  BY <1>17 DEF Connect, Answer, DropResult
<1>18. CASE AskFound
  BY <1>18 DEF AskFound, Answer
<1>19. CASE RegisterFound
  BY <1>19 DEF RegisterFound, LockData
<1>20. CASE EndScan
  BY <1>20 DEF EndScan
<1>21. CASE Collect
  BY <1>21 DEF Collect
<1>22. CASE Restart
  BY <1>22 DEF Restart
<1>23. CASE IsFoamServer
  BY <1>23 DEF IsFoamServer, Answer, DropResult
<1>24. CASE ScanRaises
  BY <1>24 DEF ScanRaises
<1>25. CASE UNCHANGED vars
  BY <1>25 DEF vars
<1> QED
  BY <1>1, <1>2, <1>3, <1>4, <1>5, <1>6, <1>7, <1>8, <1>9, <1>10, <1>11, <1>12,
     <1>13, <1>14, <1>15, <1>16, <1>17, <1>18, <1>19, <1>20, <1>21, <1>22,
     <1>23, <1>24, <1>25
     DEF Next, ServerStep, Rpc, Checker, Collector, RegisterServer, Threads

(* A server that begins was not yet told anything. *)
LEMMA BeginsUntold ==
    ASSUME IInv, [Next]_vars, NEW s \in Servers,
           main[s] = "init", Serves(s)'
    PROVE  reg'[s] = "timer" /\ ~isRegistered'[s] /\ register' = register
<1> USE DEF IInv, TypeOK, PortInv, Serves,
            serverVars, lockVars, threadVars, scanVars, countVars
<1>1. ASSUME NEW q \in Servers, Start(q)
      PROVE  reg'[s] = "timer" /\ ~isRegistered'[s] /\ register' = register
  BY <1>1 DEF Start
<1>2. ASSUME NEW q \in Servers, Register(q)
      PROVE  reg'[s] = "timer" /\ ~isRegistered'[s] /\ register' = register
  BY <1>2 DEF Register
<1>3. ASSUME NEW q \in Servers, Registered(q)
      PROVE  reg'[s] = "timer" /\ ~isRegistered'[s] /\ register' = register
  BY <1>3 DEF Registered
<1>4. ASSUME NEW q \in Servers, Deregister(q)
      PROVE  reg'[s] = "timer" /\ ~isRegistered'[s] /\ register' = register
  BY <1>4 DEF Deregister
<1>5. ASSUME NEW q \in Servers, Close(q)
      PROVE  reg'[s] = "timer" /\ ~isRegistered'[s] /\ register' = register
  BY <1>5 DEF Close
<1>6. ASSUME NEW q \in Servers, Die(q)
      PROVE  reg'[s] = "timer" /\ ~isRegistered'[s] /\ register' = register
  BY <1>6 DEF Die
<1>7. ASSUME NEW q \in Servers, RegisterCall(q)
      PROVE  reg'[s] = "timer" /\ ~isRegistered'[s] /\ register' = register
  BY <1>7 DEF RegisterCall, LockData
<1>8. ASSUME NEW q \in Servers, DeregisterCall(q)
      PROVE  reg'[s] = "timer" /\ ~isRegistered'[s] /\ register' = register
  BY <1>8 DEF DeregisterCall
<1>9. ASSUME NEW t \in Threads, AskPid(t)
      PROVE  reg'[s] = "timer" /\ ~isRegistered'[s] /\ register' = register
  BY <1>9 DEF AskPid, Answer, UnlockData, Continue
<1>10. ASSUME NEW t \in Threads, CheckValid(t)
      PROVE  reg'[s] = "timer" /\ ~isRegistered'[s] /\ register' = register
  BY <1>10 DEF CheckValid, Answer, UnlockData, Continue
<1>11. ASSUME NEW t \in Threads, Query(t)
      PROVE  reg'[s] = "timer" /\ ~isRegistered'[s] /\ register' = register
  BY <1>11 DEF Query, Answer, UnlockData
<1>12. ASSUME NEW p \in Ports, CheckEntry(p)
      PROVE  reg'[s] = "timer" /\ ~isRegistered'[s] /\ register' = register
  BY <1>12 DEF CheckEntry, Answer
<1>13. CASE CopyServers
  BY <1>13 DEF CopyServers
<1>14. CASE DeregisterBad
  BY <1>14 DEF DeregisterBad
<1>15. CASE Sleep
  BY <1>15 DEF Sleep
<1>16. CASE BeginScan
  BY <1>16 DEF BeginScan
<1>17. CASE Connect
  BY <1>17 DEF Connect, Answer, DropResult
<1>18. CASE AskFound
  BY <1>18 DEF AskFound, Answer
<1>19. CASE RegisterFound
  BY <1>19 DEF RegisterFound, LockData
<1>20. CASE EndScan
  BY <1>20 DEF EndScan
<1>21. CASE Collect
  BY <1>21 DEF Collect
<1>22. CASE Restart
  BY <1>22 DEF Restart
<1>23. CASE IsFoamServer
  BY <1>23 DEF IsFoamServer, Answer, DropResult
<1>24. CASE ScanRaises
  BY <1>24 DEF ScanRaises
<1>25. CASE UNCHANGED vars
  BY <1>25 DEF vars
<1> QED
  BY <1>1, <1>2, <1>3, <1>4, <1>5, <1>6, <1>7, <1>8, <1>9, <1>10, <1>11, <1>12,
     <1>13, <1>14, <1>15, <1>16, <1>17, <1>18, <1>19, <1>20, <1>21, <1>22,
     <1>23, <1>24, <1>25
     DEF Next, ServerStep, Rpc, Checker, Collector, RegisterServer, Threads

(* An undisturbed server was undisturbed before, if it served before.      *)
LEMMA UndisturbedBefore ==
    ASSUME IInv, [Next]_vars, NEW s \in Servers,
           main[s] # "init", Undisturbed(s)'
    PROVE  Undisturbed(s) /\ dereg'[s] = dereg[s] /\ port'[s] = port[s]
<1> USE DEF IInv, TypeOK, PortInv, Undisturbed, FirstAtPort, Serves, ServesAt,
            FreePorts,
            serverVars, lockVars, threadVars, scanVars, countVars
<1>1. ASSUME NEW q \in Servers, Start(q)
      PROVE  Undisturbed(s) /\ dereg'[s] = dereg[s] /\ port'[s] = port[s]
  BY <1>1, PortsAssumption, ServersAssumption DEF Start
<1>2. ASSUME NEW q \in Servers, Register(q)
      PROVE  Undisturbed(s) /\ dereg'[s] = dereg[s] /\ port'[s] = port[s]
  BY <1>2 DEF Register
<1>3. ASSUME NEW q \in Servers, Registered(q)
      PROVE  Undisturbed(s) /\ dereg'[s] = dereg[s] /\ port'[s] = port[s]
  BY <1>3 DEF Registered
<1>4. ASSUME NEW q \in Servers, Deregister(q)
      PROVE  Undisturbed(s) /\ dereg'[s] = dereg[s] /\ port'[s] = port[s]
  BY <1>4 DEF Deregister
<1>5. ASSUME NEW q \in Servers, Close(q)
      PROVE  Undisturbed(s) /\ dereg'[s] = dereg[s] /\ port'[s] = port[s]
  BY <1>5 DEF Close
<1>6. ASSUME NEW q \in Servers, Die(q)
      PROVE  Undisturbed(s) /\ dereg'[s] = dereg[s] /\ port'[s] = port[s]
  BY <1>6 DEF Die
<1>7. ASSUME NEW q \in Servers, RegisterCall(q)
      PROVE  Undisturbed(s) /\ dereg'[s] = dereg[s] /\ port'[s] = port[s]
  BY <1>7 DEF RegisterCall, LockData
<1>8. ASSUME NEW q \in Servers, DeregisterCall(q)
      PROVE  Undisturbed(s) /\ dereg'[s] = dereg[s] /\ port'[s] = port[s]
  BY <1>8 DEF DeregisterCall
<1>9. ASSUME NEW t \in Threads, AskPid(t)
      PROVE  Undisturbed(s) /\ dereg'[s] = dereg[s] /\ port'[s] = port[s]
  BY <1>9 DEF AskPid, Answer, UnlockData, Continue
<1>10. ASSUME NEW t \in Threads, CheckValid(t)
      PROVE  Undisturbed(s) /\ dereg'[s] = dereg[s] /\ port'[s] = port[s]
  BY <1>10 DEF CheckValid, Answer, UnlockData, Continue
<1>11. ASSUME NEW t \in Threads, Query(t)
      PROVE  Undisturbed(s) /\ dereg'[s] = dereg[s] /\ port'[s] = port[s]
  BY <1>11 DEF Query, Answer, UnlockData
<1>12. ASSUME NEW p \in Ports, CheckEntry(p)
      PROVE  Undisturbed(s) /\ dereg'[s] = dereg[s] /\ port'[s] = port[s]
  BY <1>12 DEF CheckEntry, Answer
<1>13. CASE CopyServers
  BY <1>13 DEF CopyServers
<1>14. CASE DeregisterBad
  BY <1>14 DEF DeregisterBad
<1>15. CASE Sleep
  BY <1>15 DEF Sleep
<1>16. CASE BeginScan
  BY <1>16 DEF BeginScan
<1>17. CASE Connect
  BY <1>17 DEF Connect, Answer, DropResult
<1>18. CASE AskFound
  BY <1>18 DEF AskFound, Answer
<1>19. CASE RegisterFound
  BY <1>19 DEF RegisterFound, LockData
<1>20. CASE EndScan
  BY <1>20 DEF EndScan
<1>21. CASE Collect
  BY <1>21 DEF Collect
<1>22. CASE Restart
  BY <1>22 DEF Restart
<1>23. CASE IsFoamServer
  BY <1>23 DEF IsFoamServer, Answer, DropResult
<1>24. CASE ScanRaises
  BY <1>24 DEF ScanRaises
<1>25. CASE UNCHANGED vars
  BY <1>25 DEF vars
<1> QED
  BY <1>1, <1>2, <1>3, <1>4, <1>5, <1>6, <1>7, <1>8, <1>9, <1>10, <1>11, <1>12,
     <1>13, <1>14, <1>15, <1>16, <1>17, <1>18, <1>19, <1>20, <1>21, <1>22,
     <1>23, <1>24, <1>25
     DEF Next, ServerStep, Rpc, Checker, Collector, RegisterServer, Threads

(* Whoever is listed at a port that only one server ever had is this server. *)
LEMMA Occupied ==
    ASSUME TypeOK, PortInv, Entries(servers), NEW s \in Servers,
           Serves(s), FirstAtPort(s), servers[port[s]] # Nobody
    PROVE  Knows(s)
  BY DEF TypeOK, PortInv, Entries, FirstAtPort, Knows, Pids

(* While a thread asks again about a server that is listed it stays listed. *)
LEMMA WaitsStep ==
    ASSUME IInv, [Next]_vars, NEW s \in Servers,
           Undisturbed(s), Undisturbed(s)', port'[s] = port[s],
           restarts' = restarts /\ Knows(s) => Knows(s)'
    PROVE  AskedIfListed(s)'
<1> USE DEF IInv, TypeOK, Entries, Listed, AskedIfListed, PortInv, Registering,
            Threads, Knows, Undisturbed, FirstAtPort, Serves, Nobody, ServesAt,
            serverVars, lockVars, threadVars, scanVars, countVars
<1>1. ASSUME NEW q \in Servers, Start(q)
      PROVE  AskedIfListed(s)'
  BY <1>1 DEF Start
<1>2. ASSUME NEW q \in Servers, Register(q)
      PROVE  AskedIfListed(s)'
  BY <1>2 DEF Register
<1>3. ASSUME NEW q \in Servers, Registered(q)
      PROVE  AskedIfListed(s)'
  BY <1>3 DEF Registered
<1>4. ASSUME NEW q \in Servers, Deregister(q)
      PROVE  AskedIfListed(s)'
  BY <1>4 DEF Deregister
<1>5. ASSUME NEW q \in Servers, Close(q)
      PROVE  AskedIfListed(s)'
  BY <1>5 DEF Close
<1>6. ASSUME NEW q \in Servers, Die(q)
      PROVE  AskedIfListed(s)'
  BY <1>6 DEF Die
<1>7. ASSUME NEW q \in Servers, RegisterCall(q)
      PROVE  AskedIfListed(s)'
  <2> SUFFICES ASSUME NEW t \in Threads, register'[t].at = "askPid",
                      register'[t].server = s
               PROVE  Knows(s)
    BY <1>7 DEF RegisterCall
  <2>1. CASE t = "rpc"
    <3>1. servers[port[s]] # Nobody
      BY <1>7, <2>1 DEF RegisterCall, LockData
    <3> QED
      BY <3>1, Occupied
  <2>2. CASE t # "rpc"
    BY <1>7, <2>2 DEF RegisterCall, LockData
  <2> QED
    BY <2>1, <2>2
<1>8. ASSUME NEW q \in Servers, DeregisterCall(q)
      PROVE  AskedIfListed(s)'
  BY <1>8 DEF DeregisterCall
<1>9. ASSUME NEW t \in Threads, AskPid(t)
      PROVE  AskedIfListed(s)'
  <2> SUFFICES ASSUME NEW u \in Threads, register'[u].at = "askPid",
                      register'[u].server = s
               PROVE  Knows(s)
    BY <1>9 DEF AskPid
  <2>1. register'[t].at # "askPid"
    BY <1>9 DEF AskPid, UnlockData, Continue, NotRegistering
  <2>2. u # t /\ register'[u] = register[u]
    BY <1>9, <2>1 DEF AskPid, UnlockData, Continue
  <2> QED
    BY <2>2
<1>10. ASSUME NEW t \in Threads, CheckValid(t)
      PROVE  AskedIfListed(s)'
  <2> SUFFICES ASSUME NEW u \in Threads, register'[u].at = "askPid",
                      register'[u].server = s
               PROVE  Knows(s)
    BY <1>10 DEF CheckValid
  <2>1. register'[t].at # "askPid"
    BY <1>10 DEF CheckValid, UnlockData, Continue, NotRegistering
  <2>2. u # t /\ register'[u] = register[u]
    BY <1>10, <2>1 DEF CheckValid, UnlockData, Continue
  <2> QED
    BY <2>2
<1>11. ASSUME NEW t \in Threads, Query(t)
      PROVE  AskedIfListed(s)'
  <2> SUFFICES ASSUME NEW u \in Threads, register'[u].at = "askPid",
                      register'[u].server = s
               PROVE  Knows(s)
    BY <1>11 DEF Query
  <2>1. register'[t].at # "askPid"
    BY <1>11 DEF Query, UnlockData, Continue, NotRegistering
  <2>2. u # t /\ register'[u] = register[u]
    BY <1>11, <2>1 DEF Query, UnlockData, Continue
  <2> QED
    BY <2>2
<1>12. ASSUME NEW p \in Ports, CheckEntry(p)
      PROVE  AskedIfListed(s)'
  BY <1>12 DEF CheckEntry, Answer
<1>13. CASE CopyServers
  BY <1>13 DEF CopyServers
<1>14. CASE DeregisterBad
  BY <1>14 DEF DeregisterBad
<1>15. CASE Sleep
  BY <1>15 DEF Sleep
<1>16. CASE BeginScan
  BY <1>16 DEF BeginScan
<1>17. CASE Connect
  BY <1>17 DEF Connect, Answer, DropResult
<1>18. CASE AskFound
  BY <1>18 DEF AskFound, Answer
<1>19. CASE RegisterFound
  <2> SUFFICES ASSUME NEW t \in Threads, register'[t].at = "askPid",
                      register'[t].server = s
               PROVE  Knows(s)
    BY <1>19 DEF RegisterFound
  <2>1. CASE t = "collector"
    <3>1. servers[port[s]] # Nobody
      BY <1>19, <2>1 DEF RegisterFound, LockData
    <3> QED
      BY <3>1, Occupied
  <2>2. CASE t # "collector"
    BY <1>19, <2>2 DEF RegisterFound, LockData
  <2> QED
    BY <2>1, <2>2
<1>20. CASE EndScan
  BY <1>20 DEF EndScan
<1>21. CASE Collect
  BY <1>21 DEF Collect
<1>22. CASE Restart
  BY <1>22 DEF Restart, NotRegistering
<1>23. CASE IsFoamServer
  BY <1>23 DEF IsFoamServer, Answer, DropResult
<1>24. CASE ScanRaises
  BY <1>24 DEF ScanRaises
<1>25. CASE UNCHANGED vars
  BY <1>25 DEF vars
<1> QED
  BY <1>1, <1>2, <1>3, <1>4, <1>5, <1>6, <1>7, <1>8, <1>9, <1>10, <1>11, <1>12,
     <1>13, <1>14, <1>15, <1>16, <1>17, <1>18, <1>19, <1>20, <1>21, <1>22,
     <1>23, <1>24, <1>25
     DEF Next, ServerStep, Rpc, Checker, Collector, RegisterServer, Threads

(* A scan keeps a server among the ports to probe, those found or the one   *)
(* that it registers, until it is listed.                                  *)
LEMMA FoundStep ==
    ASSUME IInv, [Next]_vars, NEW s \in Servers,
           Undisturbed(s), Undisturbed(s)', port'[s] = port[s],
           restarts' = restarts /\ Knows(s) => Knows(s)'
    PROVE  ListedOrFound(s)'
<1>a. \A got \in Pids : Answer(port[s], got) => got = s
  BY InTime DEF IInv, Undisturbed
<1>b. timeouts' = 0 /\ timeouts = 0
  BY DEF Undisturbed
<1> USE DEF IInv, TypeOK, Entries, Listed, AskedIfListed, ListedOrFound,
            PortInv, Registering, Threads, Knows, Undisturbed, FirstAtPort,
            Serves, Nobody, ServesAt, ScanWillFind, InScan, IsFree,
            serverVars, lockVars, threadVars, scanVars, countVars
<1>1. ASSUME NEW q \in Servers, Start(q)
      PROVE  ListedOrFound(s)'
  BY <1>1 DEF Start
<1>2. ASSUME NEW q \in Servers, Register(q)
      PROVE  ListedOrFound(s)'
  BY <1>2 DEF Register
<1>3. ASSUME NEW q \in Servers, Registered(q)
      PROVE  ListedOrFound(s)'
  BY <1>3 DEF Registered
<1>4. ASSUME NEW q \in Servers, Deregister(q)
      PROVE  ListedOrFound(s)'
  BY <1>4 DEF Deregister
<1>5. ASSUME NEW q \in Servers, Close(q)
      PROVE  ListedOrFound(s)'
  BY <1>5 DEF Close
<1>6. ASSUME NEW q \in Servers, Die(q)
      PROVE  ListedOrFound(s)'
  BY <1>6 DEF Die
<1>7. ASSUME NEW q \in Servers, RegisterCall(q)
      PROVE  ListedOrFound(s)'
  BY <1>7 DEF RegisterCall, LockData
<1>8. ASSUME NEW q \in Servers, DeregisterCall(q)
      PROVE  ListedOrFound(s)'
  BY <1>8 DEF DeregisterCall
<1>9. ASSUME NEW t \in Threads, AskPid(t)
      PROVE  ListedOrFound(s)'
  BY <1>9 DEF AskPid, Answer, UnlockData, Continue
<1>10. ASSUME NEW t \in Threads, CheckValid(t)
      PROVE  ListedOrFound(s)'
  <2>1. register[t].server \in Servers
    BY <1>10 DEF CheckValid
  <2>2. CASE register[t].server = s
    <3>1. register' = [register EXCEPT ![t].at = "query"] /\ reg' = reg
      BY <1>10, <2>2, <1>a, ServersAssumption DEF Pids, CheckValid, Continue
    <3> QED
      BY <1>10, <2>2, <3>1 DEF CheckValid
  <2>3. CASE register[t].server # s
    <3>1. reg'[s] = reg[s] /\ (register["collector"].server = s
                                => register'["collector"] = register["collector"])
      BY <1>10, <2>1, <2>3 DEF CheckValid, UnlockData, Continue
    <3> QED
      BY <1>10, <3>1 DEF CheckValid
  <2> QED
    BY <2>2, <2>3
<1>11. ASSUME NEW t \in Threads, Query(t)
      PROVE  ListedOrFound(s)'
  <2>1. register[t].server \in Servers
    BY <1>11 DEF Query
  <2>2. CASE register[t].server = s
    <3>1. servers' = [servers EXCEPT ![port[s]] = s]
      BY <1>11, <2>2, <1>a, ServersAssumption DEF Pids, Query
    <3> QED
      BY <1>11, <3>1 DEF Query
  <2>3. CASE register[t].server # s
    <3>1. reg'[s] = reg[s] /\ (register["collector"].server = s
                                => register'["collector"] = register["collector"])
      BY <1>11, <2>1, <2>3 DEF Query, UnlockData
    <3> QED
      BY <1>11, <3>1 DEF Query
  <2> QED
    BY <2>2, <2>3
<1>12. ASSUME NEW p \in Ports, CheckEntry(p)
      PROVE  ListedOrFound(s)'
  BY <1>12 DEF CheckEntry, Answer
<1>13. CASE CopyServers
  BY <1>13 DEF CopyServers
<1>14. CASE DeregisterBad
  BY <1>14 DEF DeregisterBad
<1>15. CASE Sleep
  BY <1>15 DEF Sleep
<1>16. CASE BeginScan
  BY <1>16 DEF BeginScan
<1>17. CASE Connect
  <2> DEFINE p == Min(collector.todo)
  <2>1. PICK got \in Servers \cup {Nobody} :
          /\ Answer(p, got)
          /\ \/ /\ got # Nobody
                /\ collector' = [collector EXCEPT !.at = "isFoamServer"]
                /\ UNCHANGED lastScan
             \/ /\ got = Nobody /\ IsFree(p)
                /\ collector' = [collector EXCEPT !.todo = @ \ {p}]
                /\ UNCHANGED lastScan
             \/ lastScan' = "cut"
    BY <1>17 DEF Connect, DropResult
  <2> HIDE DEF p
  <2>2. p = port[s] => got = s
    BY <2>1, <1>a DEF Pids
  <2>3. lastScan' = "cut" \/
          (/\ lastScan' = lastScan /\ collector.at # "idle"
           /\ collector'.found = collector.found
           /\ port[s] \in collector.todo => port[s] \in collector'.todo)
    BY <1>17, <2>1, <2>2, ServersAssumption DEF Connect
  <2> QED
    BY <1>17, <2>3 DEF Connect
<1>18. CASE AskFound
  <2> DEFINE p == Min(collector.found)
  <2>1. PICK got \in Servers \cup {Nobody} :
          /\ Answer(p, got)
          /\ collector' = [collector EXCEPT !.found = @ \ {p}]
          /\ register' = IF got = Nobody THEN register
                           ELSE [register EXCEPT !["collector"] =
                                   [at |-> "wait", server |-> got]]
    BY <1>18 DEF AskFound
  <2> HIDE DEF p
  <2>2. p = port[s] => got = s
    BY <2>1, <1>a DEF Pids
  <2>3. CASE p = port[s]
    <3>1. register'["collector"] = [at |-> "wait", server |-> s]
          /\ collector'.at = "scan"
      BY <1>18, <2>1, <2>2, <2>3, ServersAssumption DEF AskFound
    <3> QED
      BY <1>18, <3>1 DEF AskFound
  <2>4. CASE p # port[s]
    <3>1. port[s] \in collector.found => port[s] \in collector'.found
      BY <2>1, <2>4
    <3>2. collector'.at = "scan" /\ collector'.todo = collector.todo
          /\ register["collector"].at = "idle"
      BY <1>18, <2>1 DEF AskFound
    <3> QED
      BY <1>18, <3>1, <3>2 DEF AskFound
  <2> QED
    BY <2>3, <2>4
<1>19. CASE RegisterFound
  BY <1>19 DEF RegisterFound, LockData
<1>20. CASE EndScan
  BY <1>20 DEF EndScan
<1>21. CASE Collect
  BY <1>21 DEF Collect
<1>22. CASE Restart
  BY <1>22 DEF Restart, NotScanning
<1>23. CASE IsFoamServer
  <2> DEFINE p == Min(collector.todo)
  <2>1. \/ lastScan' = "cut"
        \/ /\ lastScan' = lastScan
           /\ collector' = [at |-> "scan", todo |-> collector.todo \ {p},
                            found |-> collector.found \cup {p}]
    BY <1>23 DEF IsFoamServer, DropResult
  <2> HIDE DEF p
  <2>2. port[s] \in collector.todo \cup collector.found =>
          \/ lastScan' = "cut"
          \/ port[s] \in collector'.todo \cup collector'.found
    BY <2>1
  <2> QED
    BY <1>23, <2>1, <2>2 DEF IsFoamServer
<1>24. CASE ScanRaises
  BY <1>24 DEF ScanRaises
<1>25. CASE UNCHANGED vars
  BY <1>25 DEF vars
<1> QED
  BY <1>1, <1>2, <1>3, <1>4, <1>5, <1>6, <1>7, <1>8, <1>9, <1>10, <1>11, <1>12,
     <1>13, <1>14, <1>15, <1>16, <1>17, <1>18, <1>19, <1>20, <1>21, <1>22,
     <1>23, <1>24, <1>25
     DEF Next, ServerStep, Rpc, Checker, Collector, RegisterServer, Threads

(* Between the two questions the port stays the next one to scan.          *)
LEMMA AskingStep ==
    ASSUME IInv, [Next]_vars
    PROVE  Asking'
<1> USE DEF IInv, TypeOK, Asking, NotScanning,
            serverVars, lockVars, threadVars, scanVars, countVars
<1>1. ASSUME NEW s \in Servers, Start(s)
      PROVE  Asking'
  BY <1>1 DEF Start
<1>2. ASSUME NEW s \in Servers, Register(s)
      PROVE  Asking'
  BY <1>2 DEF Register
<1>3. ASSUME NEW s \in Servers, Registered(s)
      PROVE  Asking'
  BY <1>3 DEF Registered
<1>4. ASSUME NEW s \in Servers, Deregister(s)
      PROVE  Asking'
  BY <1>4 DEF Deregister
<1>5. ASSUME NEW s \in Servers, Close(s)
      PROVE  Asking'
  BY <1>5 DEF Close
<1>6. ASSUME NEW s \in Servers, Die(s)
      PROVE  Asking'
  BY <1>6 DEF Die
<1>7. ASSUME NEW s \in Servers, RegisterCall(s)
      PROVE  Asking'
  BY <1>7 DEF RegisterCall
<1>8. ASSUME NEW s \in Servers, DeregisterCall(s)
      PROVE  Asking'
  BY <1>8 DEF DeregisterCall
<1>9. ASSUME NEW t \in Threads, AskPid(t)
      PROVE  Asking'
  BY <1>9 DEF AskPid
<1>10. ASSUME NEW t \in Threads, CheckValid(t)
      PROVE  Asking'
  BY <1>10 DEF CheckValid
<1>11. ASSUME NEW t \in Threads, Query(t)
      PROVE  Asking'
  BY <1>11 DEF Query
<1>12. ASSUME NEW p \in Ports, CheckEntry(p)
      PROVE  Asking'
  BY <1>12 DEF CheckEntry
<1>13. CASE CopyServers
  BY <1>13 DEF CopyServers
<1>14. CASE DeregisterBad
  BY <1>14 DEF DeregisterBad
<1>15. CASE Sleep
  BY <1>15 DEF Sleep
<1>16. CASE BeginScan
  BY <1>16 DEF BeginScan
<1>17. CASE Connect
  BY <1>17 DEF Connect, DropResult
<1>18. CASE AskFound
  BY <1>18 DEF AskFound
<1>19. CASE RegisterFound
  BY <1>19 DEF RegisterFound
<1>20. CASE EndScan
  BY <1>20 DEF EndScan
<1>21. CASE Collect
  BY <1>21 DEF Collect
<1>22. CASE Restart
  BY <1>22 DEF Restart
<1>23. CASE IsFoamServer
  BY <1>23 DEF IsFoamServer, DropResult
<1>24. CASE ScanRaises
  BY <1>24 DEF ScanRaises
<1>25. CASE UNCHANGED vars
  BY <1>25 DEF vars
<1> QED
  BY <1>1, <1>2, <1>3, <1>4, <1>5, <1>6, <1>7, <1>8, <1>9, <1>10, <1>11, <1>12,
     <1>13, <1>14, <1>15, <1>16, <1>17, <1>18, <1>19, <1>20, <1>21, <1>22,
     <1>23, <1>24, <1>25
     DEF Next, ServerStep, Rpc, Checker, Collector, RegisterServer, Threads

(* Both together: what a server relies on stays true.                      *)
LEMMA ListedStep ==
    ASSUME IInv, [Next]_vars
    PROVE  Listed'
<1>1. SUFFICES ASSUME NEW s \in Servers, Undisturbed(s)'
               PROVE  AskedIfListed(s)' /\ ListedOrFound(s)'
  BY DEF Listed
<1>2. CASE main[s] = "init"
  <2>1. reg'[s] = "timer" /\ ~isRegistered'[s] /\ register' = register
    BY <1>1, <1>2, BeginsUntold DEF Undisturbed
  <2>2. \A t \in Threads : register[t].at = "askPid" => register[t].server # s
    BY <1>2 DEF IInv, Registering
  <2> QED
    BY <2>1, <2>2 DEF AskedIfListed, ListedOrFound
<1>3. CASE main[s] # "init"
  <2>1. Undisturbed(s) /\ dereg'[s] = dereg[s] /\ port'[s] = port[s]
    BY <1>1, <1>3, UndisturbedBefore
  <2>2. restarts' = restarts /\ Knows(s) => Knows(s)'
    BY <1>1, <2>1, KeepsStep DEF Undisturbed
  <2> QED
    BY <1>1, <2>1, <2>2, WaitsStep, FoundStep
<1> QED
  BY <1>2, <1>3
-------------------------------------------------------------------------
(* The invariant holds when nobody has begun and the first scan waits. *)
LEMMA InitInv == Init => IInv
<1> SUFFICES ASSUME Init
             PROVE  IInv
  OBVIOUS
<1> USE DEF Init, Nothing, NotRegistering, Sleeping, NotScanning, Nobody, Serves
<1>1. isRegistered \in [Servers -> BOOLEAN]
  BY Zenon
<1>2. TypeOK
  BY <1>1 DEF TypeOK, Threads, Pids
<1>3. PortInv /\ Entries(servers) /\ Entries(checker.copy)
  BY DEF PortInv, Entries
<1>4. Registering /\ BadIsGone /\ Asking /\ Listed
  BY DEF Registering, BadIsGone, Asking, Listed, Undisturbed, AskedIfListed
<1> QED
  BY <1>2, <1>3, <1>4 DEF IInv

(* The inductive invariant holds. *)
THEOREM SpecIInv == Spec => []IInv
<1>1. IInv /\ [Next]_vars => IInv'
  BY TypeStep, PortStep, EntriesStep, RegisteringStep, BadStep, AskingStep,
     ListedStep
     DEF IInv
<1> QED
  BY <1>1, InitInv, PTL DEF Spec

(* Every state is well typed, for any number of processes and ports. *)
THEOREM SpecTypeOK == Spec => []TypeOK
  BY SpecIInv, PTL DEF IInv

(* What a server is told holds: at a port that was not used before, and if *)
(* every question is answered in time, it is listed until it deregisters   *)
(* or the meta server dies, and then again after the first scan that goes  *)
(* through.                                                                *)
THEOREM SpecRegisteredIsListed == Spec => []RegisteredIsListed
<1>1. ASSUME IInv
      PROVE  RegisteredIsListed
  <2>1. SUFFICES ASSUME NEW s \in Servers,
                        Undisturbed(s), isRegistered[s], ~unscanned
                 PROVE  Knows(s)
    BY DEF RegisteredIsListed, Undisturbed
  <2>2. Knows(s) \/ ScanWillFind(s)
    BY <1>1, <2>1 DEF IInv, Listed, ListedOrFound
  <2> QED
    BY <2>1, <2>2 DEF ScanWillFind
<1>2. IInv => RegisteredIsListed
  BY <1>1
<1> QED
  BY <1>2, SpecIInv, PTL

(* Only its own call, a question that took too long or the death of the    *)
(* meta server takes a server off the list, at a port that was not used    *)
(* before.                                                                 *)
THEOREM SpecKeepsServers == Spec => KeepsServers
<1> DEFINE Keeps == \A s \in Servers :
                      Serves(s) /\ FirstAtPort(s) /\ Knows(s) /\ ~Knows(s)'
                        => \/ dereg[s] # dereg'[s]
                           \/ timeouts' > 0
                           \/ restarts' > restarts
<1>1. ASSUME IInv, [Next]_vars
      PROVE  Keeps
  <2>1. timeouts' \in Nat /\ (restarts' = restarts \/ restarts' > restarts)
    <3>1. TypeOK'
      BY <1>1, TypeStep
    <3>2. restarts' = restarts \/ restarts' = restarts + 1
      BY <1>1 DEF Next, ServerStep, Rpc, Checker, Collector, RegisterServer,
                  Start, Register, Registered, Deregister, Close, Die,
                  RegisterCall, DeregisterCall, AskPid, CheckValid, Query,
                  CopyServers, CheckEntry, DeregisterBad, Sleep, BeginScan,
                  Connect, IsFoamServer, ScanRaises, AskFound, RegisterFound,
                  EndScan, Collect, Restart, vars, countVars
    <3> QED
      BY <1>1, <3>1, <3>2 DEF IInv, TypeOK
  <2>2. SUFFICES ASSUME NEW s \in Servers, Serves(s), FirstAtPort(s),
                        Knows(s), dereg'[s] = dereg[s], timeouts' = 0,
                        restarts' = restarts
                 PROVE  Knows(s)'
    BY <2>1
  <2> QED
    BY <1>1, <2>2, KeepsStep
<1>2. IInv /\ [Next]_vars => [Keeps]_vars
  BY <1>1
<1> QED
  BY <1>2, SpecIInv, PTL DEF Spec, KeepsServers
=========================================================================
