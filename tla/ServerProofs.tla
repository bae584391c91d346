---------------------------- MODULE ServerProofs ----------------------------
(***************************************************************************)
(* Proofs about the processes of the server: ServeSupervisor and           *)
(* ResponseServer, for any ports, number of retries and faults, and the    *)
(* Stash they share, for any threads, processes and values.                *)
(*                                                                         *)
(* Three facts make the supervisor's invariants inductive: a main process  *)
(* that has ended properly leaves no server behind; between generations no *)
(* main process runs; and each generation that does not end well is paid   *)
(* for by a fault of its own.                                              *)
(*                                                                         *)
(* The setup of the stash needs that only the holder of _initializing is   *)
(* in it.  That a value is returned once under the lock needs that the     *)
(* caller who holds it finds the store as it has seen it, and that a value *)
(* is stored once: what a put has not written yet is not in the store and  *)
(* nobody else's.                                                          *)
(***************************************************************************)
EXTENDS ResponseServer, Stash, TLAPS

\* Stop flags are set when main asks the servers to stop, not before, and main
\* does not run, or has ended, when the next generation may be started.
Generations ==
  /\ main \in {"starting", "poll"} => \A p \in Port : ~flag[p]
  /\ main = "starting" => \A p \in Port : srv[p] = "none"
  /\ sup \in {"spawn", "sleep", "gaveUp"} => main \in {"none", "ended"}

\* A main process that has ended properly leaves no server behind.
NobodyLeft ==
  main \in {"none", "ended"} /\ ~cut => \A p \in Port : srv[p] \notin Live

\* Something has happened to this generation.
Damaged ==
  \/ main \notin {"starting", "poll"}
  \/ \E p \in Port : srv[p] \in {"stopping", "ok", "failed"}

\* Every attempt counted in retries has had its fault, and so has a generation
\* that is about to be counted.
Balance ==
  ~cut => /\ retries <= faults
          /\ sup \in {"popen", "wait"} /\ Damaged => retries < faults

Attempts ==
  IF sup = "gaveUp" THEN retries = MaxRetries
  ELSE sup # "returned" => retries < MaxRetries

IInv ==
  /\ TypeOK /\ Attempts
  /\ Generations /\ NobodyLeft /\ PortsAreFree
  /\ Balance

LEMMA InitEstablishes == Init => IInv
<1> SUFFICES ASSUME Init PROVE IInv
  OBVIOUS
<1>1. retries \in 0..MaxRetries /\ retries < MaxRetries /\ faults \in 0..MaxFaults
  BY MaxRetriesAssumption, MaxFaultsAssumption DEF Init
<1>2. TypeOK /\ Attempts
  BY <1>1 DEF Init, TypeOK, Attempts
<1>3. Generations /\ NobodyLeft /\ PortsAreFree /\ Balance
  BY DEF Init, Generations, NobodyLeft, PortsAreFree, Balance, Live
<1> QED
  BY <1>2, <1>3 DEF IInv

-----------------------------------------------------------------------------
(* The supervisor                                                          *)

LEMMA SpawnPreserves == ASSUME IInv, Spawn PROVE IInv'
<1>1. /\ sup = "spawn" /\ sup' = "popen" /\ main' = "starting" /\ code' = 0
      /\ held' = held \union {p \in Port : srv[p] \in Live}
      /\ srv' = [p \in Port |-> "none"] /\ flag' = [p \in Port |-> FALSE]
      /\ retries' = retries /\ faults' = faults /\ cut' = cut
  BY DEF Spawn, history
<1>2. TypeOK' /\ Attempts'
  BY <1>1 DEF IInv, TypeOK, Attempts
<1>3. PortsAreFree'
  BY <1>1 DEF IInv, Generations, NobodyLeft, PortsAreFree
<1>4. Generations' /\ NobodyLeft' /\ Balance'
  BY <1>1 DEF IInv, TypeOK, Generations, NobodyLeft, Balance, Damaged
<1> QED
  BY <1>2, <1>3, <1>4 DEF IInv

LEMMA EndsWellPreserves ==
  ASSUME IInv, ExitedCorrectly \/ Stopped PROVE IInv'
<1>1. /\ main = "ended" /\ sup' = "spawn" /\ retries' = 0 /\ faults' = 0
      /\ UNCHANGED <<main, code, srv, flag, held, cut>>
  BY DEF ExitedCorrectly, Stopped, EndsWell, generation
<1>2. TypeOK' /\ Attempts'
  BY <1>1, MaxRetriesAssumption, MaxFaultsAssumption DEF IInv, TypeOK, Attempts
<1>3. Generations' /\ NobodyLeft' /\ PortsAreFree' /\ Balance'
  BY <1>1 DEF IInv, Generations, NobodyLeft, PortsAreFree, Balance
<1> QED
  BY <1>2, <1>3 DEF IInv

LEMMA ExitedWithErrorPreserves == ASSUME IInv, ExitedWithError PROVE IInv'
<1>1. /\ sup = "wait" /\ main = "ended" /\ retries' = retries + 1
      /\ sup' = IF retries + 1 >= MaxRetries THEN "gaveUp" ELSE "sleep"
      /\ UNCHANGED <<main, code, srv, flag, held, faults, cut>>
  BY DEF ExitedWithError, generation, history
<1>2. /\ retries \in Nat /\ faults \in Nat /\ MaxRetries \in Nat
      /\ retries < MaxRetries
  BY <1>1, MaxRetriesAssumption, MaxFaultsAssumption DEF IInv, TypeOK, Attempts
<1>3. TypeOK' /\ Attempts'
  BY <1>1, <1>2 DEF IInv, TypeOK, Attempts
<1>4. Balance'
  BY <1>1, <1>2 DEF IInv, Balance, Damaged
<1>5. Generations' /\ NobodyLeft' /\ PortsAreFree'
  BY <1>1 DEF IInv, Generations, NobodyLeft, PortsAreFree
<1> QED
  BY <1>3, <1>4, <1>5 DEF IInv

\* Steps of server.py that it does for itself, whether Ctrl-C makes it take them
\* or not.
LEMMA MovesOnPreserves ==
  ASSUME IInv,
         \/ Wake \/ Leave \/ PopenReturns \/ Timeout \/ KeyboardInterrupt
         \/ PassOn /\ UNCHANGED <<generation, held, cut>>
  PROVE  IInv'
<1>1. /\ \/ sup = "sleep" /\ sup' = "spawn"
         \/ sup = "popen" /\ sup' = "wait"
         \/ /\ sup \notin {"gaveUp", "returned"}
            /\ sup' \in {"timedOut", "interrupted", "leaving", "returned", "escaped"}
      /\ UNCHANGED <<retries, main, code, srv, flag, held, faults, cut>>
  BY DEF Wake, Leave, PopenReturns, Timeout, KeyboardInterrupt, PassOn, generation, history
<1>2. TypeOK' /\ Attempts'
  BY <1>1 DEF IInv, TypeOK, Attempts
<1>3. Generations' /\ NobodyLeft' /\ PortsAreFree'
  BY <1>1 DEF IInv, Generations, NobodyLeft, PortsAreFree
<1>4. Balance'
  BY <1>1 DEF IInv, Balance, Damaged
<1> QED
  BY <1>2, <1>3, <1>4 DEF IInv

\* The signal ends a generation or cuts it, or comes after its end.
LEMMA SignalGroupEffect ==
  ASSUME IInv, SignalGroup
  PROVE  /\ main' \in {"request", "exit", "ended"}
         /\ main = "ended" => main' = "ended"
         /\ main # "none"
         /\ main' = "ended" =>
              \/ cut'
              \/ main = "ended" /\ \A p \in Port : srv'[p] \in Live => srv[p] \in Live
         /\ code' \in {0, 1} /\ cut' \in BOOLEAN /\ (cut => cut')
         /\ srv' \in [Port -> {"none"} \union Live \union Dead]
         /\ UNCHANGED <<flag, held>>
<1>1. \A p \in Port : Interrupted(srv[p]) \in {"none"} \union Live \union Dead
  BY DEF IInv, TypeOK, Interrupted, Live, Dead
<1>2. srv' = [p \in Port |-> Interrupted(srv[p])]
  BY DEF SignalGroup
<1>3. \A p \in Port : srv'[p] \in Live => srv[p] \in Live
  BY <1>2 DEF IInv, TypeOK, Interrupted, Live, Dead
<1> QED
  BY <1>1, <1>3 DEF SignalGroup, IInv, TypeOK

\* killpg: the generation is no longer supervised.
LEMMA SignalPreserves ==
  ASSUME IInv, EndGeneration \/ (PassOn /\ SignalGroup) PROVE IInv'
<1>1. /\ sup \in {"timedOut", "interrupted"}
      /\ sup' \in {"stopping", "leaving", "returned"} /\ SignalGroup
      /\ UNCHANGED <<retries, faults>>
  BY DEF EndGeneration, PassOn
<1>2. /\ main' \in {"request", "exit", "ended"}
      /\ main' = "ended" =>
           \/ cut'
           \/ main = "ended" /\ \A p \in Port : srv'[p] \in Live => srv[p] \in Live
      /\ code' \in {0, 1} /\ cut' \in BOOLEAN /\ (cut => cut')
      /\ srv' \in [Port -> {"none"} \union Live \union Dead]
      /\ UNCHANGED <<flag, held>>
  BY <1>1, SignalGroupEffect
<1>3. TypeOK' /\ Attempts'
  BY <1>1, <1>2 DEF IInv, TypeOK, Attempts
<1>4. NobodyLeft'
  BY <1>2 DEF IInv, NobodyLeft
<1>5. Generations' /\ PortsAreFree' /\ Balance'
  BY <1>1, <1>2 DEF IInv, Generations, PortsAreFree, Balance
<1> QED
  BY <1>3, <1>4, <1>5 DEF IInv

-----------------------------------------------------------------------------
(* The main process                                                        *)

LEMMA StartServersPreserves == ASSUME IInv, StartServers PROVE IInv'
<1>1. /\ main = "starting" /\ main' = "poll" /\ srv' = [p \in Port |-> "init"]
      /\ UNCHANGED <<sup, retries, code, flag, held, faults, cut>>
  BY DEF StartServers, supervisor, history
<1>2. TypeOK' /\ Attempts'
  BY <1>1 DEF IInv, TypeOK, Attempts, Live
<1>3. Generations' /\ NobodyLeft' /\ PortsAreFree' /\ Balance'
  BY <1>1 DEF IInv, Generations, NobodyLeft, PortsAreFree, Balance, Damaged
<1> QED
  BY <1>2, <1>3 DEF IInv

\* A generation whose main leaves the loop is damaged already.
LEMMA ShutdownPreserves ==
  ASSUME IInv, PollFindsDead \/ RequestShutdown \/ JoinServers PROVE IInv'
<1>1. /\ main \in {"poll", "request", "join"} /\ main' \in {"request", "join", "exit"}
      /\ main = "poll" => \E p \in Port : srv[p] \in Dead
      /\ UNCHANGED <<sup, retries, srv, held, faults, cut>>
  <2>1. CASE PollFindsDead
    BY <2>1 DEF PollFindsDead, supervisor, history
  <2>2. CASE RequestShutdown
    BY <2>2 DEF RequestShutdown, supervisor, history
  <2>3. CASE JoinServers
    BY <2>3 DEF JoinServers, supervisor, history
  <2> QED
    BY <2>1, <2>2, <2>3
<1>2. code' \in {0, 1} /\ flag' \in [Port -> BOOLEAN]
  <2>1. CASE PollFindsDead
    BY <2>1 DEF PollFindsDead, IInv, TypeOK
  <2>2. CASE RequestShutdown
    BY <2>2 DEF RequestShutdown, IInv, TypeOK
  <2>3. CASE JoinServers
    BY <2>3 DEF JoinServers, IInv, TypeOK
  <2> QED
    BY <2>1, <2>2, <2>3
<1>3. Damaged
  BY <1>1 DEF Damaged, Dead
<1>4. TypeOK' /\ Attempts'
  BY <1>1, <1>2 DEF IInv, TypeOK, Attempts
<1>5. Generations' /\ NobodyLeft' /\ PortsAreFree'
  BY <1>1 DEF IInv, Generations, NobodyLeft, PortsAreFree
<1>6. Balance'
  BY <1>1, <1>3 DEF IInv, Balance
<1> QED
  BY <1>4, <1>5, <1>6 DEF IInv

LEMMA TerminatePreserves == ASSUME IInv, Terminate PROVE IInv'
<1>1. /\ main = "exit" /\ main' = "ended"
      /\ srv' = [p \in Port |-> IF srv[p] \in Live THEN "failed" ELSE srv[p]]
      /\ UNCHANGED <<sup, retries, code, flag, held, faults, cut>>
  BY DEF Terminate, supervisor, history
<1>2. \A p \in Port : srv'[p] \notin Live /\ srv'[p] \in {"none"} \union Live \union Dead
  BY <1>1 DEF IInv, TypeOK, Live, Dead
<1>3. TypeOK' /\ Attempts'
  BY <1>1, <1>2 DEF IInv, TypeOK, Attempts
<1>4. Generations' /\ NobodyLeft' /\ PortsAreFree'
  BY <1>1, <1>2 DEF IInv, Generations, NobodyLeft, PortsAreFree
<1>5. Balance'
  BY <1>1 DEF IInv, Balance, Damaged
<1> QED
  BY <1>3, <1>4, <1>5 DEF IInv

-----------------------------------------------------------------------------
(* The servers                                                             *)

\* Without a fault, a server goes on from a state in which it was alive, and is
\* damaged only if the generation was.
LEMMA ServerPreserves ==
  ASSUME IInv, NEW p \in Port, Bind(p) \/ StopFlagged(p) \/ StopEnds(p) PROVE IInv'
<1>1. PICK s \in {"serving", "stopping", "ok", "failed"} :
        /\ srv' = [srv EXCEPT ![p] = s]
        /\ srv[p] \in Live
        /\ s = "failed" => p \in held
        /\ s = "stopping" => flag[p]
        /\ s = "ok" => srv[p] = "stopping"
  BY DEF Bind, StopFlagged, StopEnds, Server, Live
<1>2. UNCHANGED <<sup, retries, main, code, flag, held, faults, cut>>
  BY DEF Bind, StopFlagged, StopEnds, Server, supervisor, history
<1>3. /\ srv'[p] = s /\ \A q \in Port \ {p} : srv'[q] = srv[q]
      /\ s \in {"none"} \union Live \union Dead
  BY <1>1 DEF IInv, TypeOK, Live, Dead
<1>4. TypeOK' /\ Attempts'
  BY <1>1, <1>2, <1>3 DEF IInv, TypeOK, Attempts
<1>5. srv[p] # "none"
  BY <1>1 DEF Live
<1>6. Generations' /\ NobodyLeft' /\ PortsAreFree'
  BY <1>1, <1>2, <1>3, <1>5 DEF IInv, Generations, NobodyLeft, PortsAreFree
<1>7. ~cut /\ Damaged' => Damaged
  BY <1>1, <1>2, <1>3 DEF IInv, Generations, PortsAreFree, Damaged
<1>8. Balance'
  BY <1>2, <1>7 DEF IInv, Balance
<1> QED
  BY <1>4, <1>6, <1>8 DEF IInv

LEMMA LeftServerPreserves == ASSUME IInv, NEW p \in Port, LeftServerEnds(p) PROVE IInv'
<1>1. /\ held' = held \ {p} /\ p \in held
      /\ UNCHANGED <<sup, retries, main, code, srv, flag, faults, cut>>
  BY DEF LeftServerEnds, supervisor, generation, history
<1>2. TypeOK' /\ Attempts'
  BY <1>1 DEF IInv, TypeOK, Attempts
<1>3. Generations' /\ NobodyLeft' /\ PortsAreFree' /\ Balance'
  BY <1>1 DEF IInv, Generations, NobodyLeft, PortsAreFree, Balance, Damaged
<1> QED
  BY <1>2, <1>3 DEF IInv

-----------------------------------------------------------------------------
(* Faults                                                                  *)

LEMMA FaultEffect ==
  ASSUME IInv, Fault
  PROVE  /\ faults' = faults + 1 /\ faults' \in 0..MaxFaults
         /\ sup' = sup /\ retries' = retries
         /\ (cut => cut') => Balance'
<1>1. faults \in Nat /\ retries \in Nat
  BY MaxFaultsAssumption DEF IInv, TypeOK
<1>2. /\ faults' = faults + 1 /\ faults' \in 0..MaxFaults
      /\ sup' = sup /\ retries' = retries
  BY <1>1, MaxFaultsAssumption DEF Fault, supervisor
<1>3. (cut => cut') => Balance'
  BY <1>1, <1>2 DEF IInv, Balance
<1> QED
  BY <1>2, <1>3

LEMMA ServerFaultPreserves ==
  ASSUME IInv, NEW p \in Port, ServerDies(p) \/ ServerDiesDuringRequest(p) PROVE IInv'
<1>1. /\ Fault /\ srv[p] \in Live /\ srv' = [srv EXCEPT ![p] = "failed"]
      /\ \/ main' = main
         \/ main = "request" /\ main' = "hung"
      /\ UNCHANGED <<code, flag, held, cut>>
  <2>1. CASE ServerDies(p)
    BY <2>1 DEF ServerDies
  <2>2. CASE ServerDiesDuringRequest(p)
    BY <2>2 DEF ServerDiesDuringRequest, Live
  <2> QED
    BY <2>1, <2>2
<1>2. faults' \in 0..MaxFaults /\ sup' = sup /\ retries' = retries /\ Balance'
  BY <1>1, FaultEffect
<1>3. /\ srv'[p] = "failed" /\ \A q \in Port \ {p} : srv'[q] = srv[q]
      /\ srv[p] # "none" /\ "failed" \notin Live
  BY <1>1 DEF IInv, TypeOK, Live
<1>4. TypeOK' /\ Attempts'
  BY <1>1, <1>2 DEF IInv, TypeOK, Attempts, Dead
<1>5. Generations' /\ NobodyLeft' /\ PortsAreFree'
  BY <1>1, <1>2, <1>3 DEF IInv, Generations, NobodyLeft, PortsAreFree
<1> QED
  BY <1>2, <1>4, <1>5 DEF IInv

LEMMA MainFaultPreserves == ASSUME IInv, MainFails \/ MainKilled PROVE IInv'
<1>1. /\ Fault /\ code' = 1 /\ main \notin {"none", "ended"}
      /\ \/ main' = "exit" /\ cut' = cut
         \/ main' = "ended" /\ cut' = TRUE
      /\ UNCHANGED <<srv, flag, held>>
  BY DEF MainFails, MainKilled
<1>2. /\ faults' \in 0..MaxFaults /\ sup' = sup /\ retries' = retries
      /\ (cut => cut') => Balance'
  BY <1>1, FaultEffect
<1>3. TypeOK' /\ Attempts'
  BY <1>1, <1>2 DEF IInv, TypeOK, Attempts
<1>4. Generations' /\ NobodyLeft' /\ PortsAreFree'
  BY <1>1, <1>2 DEF IInv, Generations, NobodyLeft, PortsAreFree
<1> QED
  BY <1>1, <1>2, <1>3, <1>4 DEF IInv

LEMMA OutsideSignalPreserves == ASSUME IInv, InterruptedFromOutside PROVE IInv'
<1>1. /\ main' \in {"request", "exit", "ended"}
      /\ main = "ended" => main' = "ended"
      /\ main # "none"
      /\ main' = "ended" =>
           \/ cut'
           \/ main = "ended" /\ \A p \in Port : srv'[p] \in Live => srv[p] \in Live
      /\ code' \in {0, 1} /\ cut' \in BOOLEAN /\ (cut => cut')
      /\ srv' \in [Port -> {"none"} \union Live \union Dead]
      /\ UNCHANGED <<flag, held>>
  BY SignalGroupEffect DEF InterruptedFromOutside
<1>2. /\ faults' \in 0..MaxFaults /\ sup' = sup /\ retries' = retries
      /\ Balance'
  BY <1>1, FaultEffect DEF InterruptedFromOutside
<1>3. TypeOK' /\ Attempts'
  BY <1>1, <1>2 DEF IInv, TypeOK, Attempts
<1>4. NobodyLeft'
  BY <1>1 DEF IInv, NobodyLeft
<1>5. Generations' /\ PortsAreFree'
  BY <1>1, <1>2 DEF IInv, Generations, PortsAreFree
<1> QED
  BY <1>2, <1>3, <1>4, <1>5 DEF IInv

LEMMA NextPreserves == IInv /\ [Next]_vars => IInv'
<1> SUFFICES ASSUME IInv, [Next]_vars PROVE IInv'
  OBVIOUS
<1>1. CASE Supervise
  <2>1. PassOn => SignalGroup \/ UNCHANGED <<generation, held, cut>>
    BY DEF PassOn
  <2> QED
    BY <1>1, <2>1, SpawnPreserves, EndsWellPreserves, ExitedWithErrorPreserves,
       MovesOnPreserves, SignalPreserves DEF Supervise
<1>2. CASE Timeout \/ KeyboardInterrupt
  BY <1>2, MovesOnPreserves
<1>3. CASE RunMain
  BY <1>3, StartServersPreserves, ShutdownPreserves, TerminatePreserves DEF RunMain
<1>4. CASE MainFails \/ MainKilled \/ InterruptedFromOutside
  BY <1>4, MainFaultPreserves, OutsideSignalPreserves
<1>5. ASSUME NEW p \in Port,
             \/ Bind(p) \/ StopFlagged(p) \/ StopEnds(p)
             \/ LeftServerEnds(p)
             \/ ServerDies(p) \/ ServerDiesDuringRequest(p)
      PROVE  IInv'
  BY <1>5, ServerPreserves, LeftServerPreserves, ServerFaultPreserves
<1>6. CASE UNCHANGED vars
  BY <1>6 DEF vars, supervisor, generation, history, IInv, TypeOK, Attempts, Generations,
              NobodyLeft, PortsAreFree, Balance, Damaged
<1> QED
  BY <1>1, <1>2, <1>3, <1>4, <1>5, <1>6 DEF Next

-----------------------------------------------------------------------------
(* The caches                                                              *)

CachesType ==
  /\ stored \in BOOLEAN
  /\ atStart \in [Asked -> BOOLEAN]
  /\ reading \in [Asked -> [Query -> SUBSET Answer]]
  /\ entry \in [Asked -> [Query -> Answer \union {"unknown"}]]

\* A process that does not answer has no cache, and of a response that was there
\* at the start nobody has read that it is not.
CacheShape ==
  \A p \in Asked :
    /\ ~Answers(p) => reading[p] = NoReading /\ entry[p] = NoEntry
    /\ atStart[p] => /\ stored
                     /\ "none" \notin reading[p]["response"]
                     /\ entry[p]["response"] # "none"

CacheInv == IInv /\ CachesType /\ CacheShape

LEMMA InitCachesEstablishes == InitWithCaches => CacheInv
<1> SUFFICES ASSUME Init, InitCaches PROVE CacheInv
  BY DEF InitWithCaches
<1>1. IInv
  BY InitEstablishes
<1>2. CachesType
  BY DEF InitCaches, CachesType, NoReading, NoEntry
<1>3. CacheShape
  BY DEF InitCaches, CacheShape
<1> QED
  BY <1>1, <1>2, <1>3 DEF CacheInv

LEMMA CachesFollowPreserves ==
  ASSUME CacheInv, Next, CachesFollow PROVE CacheInv'
<1>1. IInv'
  BY NextPreserves DEF CacheInv
<1>2. CachesType'
  BY DEF CachesFollow, CacheInv, CachesType, NoReading, NoEntry
<1>3. ASSUME NEW p \in Asked
      PROVE  /\ ~Answers(p)' => reading'[p] = NoReading /\ entry'[p] = NoEntry
             /\ atStart'[p] => /\ stored'
                               /\ "none" \notin reading'[p]["response"]
                               /\ entry'[p]["response"] # "none"
  <2>1. /\ atStart'[p] = IF srv[p] = "none" THEN stored ELSE atStart[p]
        /\ reading'[p] = IF Answers(p)' THEN reading[p] ELSE NoReading
        /\ entry'[p] = IF Answers(p)' THEN entry[p] ELSE NoEntry
        /\ stored' = stored
    BY DEF CachesFollow
  <2>2. /\ NoReading["response"] = {} /\ NoEntry["response"] = "unknown"
        /\ NoReading' = NoReading /\ NoEntry' = NoEntry
    BY DEF NoReading, NoEntry, Query
  <2>3. srv[p] = "none" => reading[p] = NoReading /\ entry[p] = NoEntry
    BY DEF CacheInv, CacheShape, Answers
  <2> QED
    BY <2>1, <2>2, <2>3 DEF CacheInv, CacheShape
<1>4. CacheShape'
  BY <1>3 DEF CacheShape, NoReading, NoEntry
<1> QED
  BY <1>1, <1>2, <1>4 DEF CacheInv

LEMMA UnchangedVars == ASSUME UNCHANGED vars, IInv PROVE IInv' /\ srv' = srv
BY NextPreserves DEF vars, generation

LEMMA CreateResponsePreserves == ASSUME CacheInv, CreateResponse PROVE CacheInv'
<1>1. IInv' /\ srv' = srv /\ stored' = TRUE /\ UNCHANGED <<atStart, reading, entry>>
  BY UnchangedVars DEF CreateResponse, CacheInv
<1>2. CachesType' /\ CacheShape'
  BY <1>1 DEF CacheInv, CachesType, CacheShape, Answers, NoReading, NoEntry
<1> QED
  BY <1>1, <1>2 DEF CacheInv

LEMMA ReadsPreserves ==
  ASSUME CacheInv, NEW p \in Asked, NEW q \in Query, NEW a \in Answer, Reads(p, q, a),
         q = "response" /\ stored => a = "row"
  PROVE  CacheInv'
<1>1. /\ IInv' /\ srv' = srv /\ UNCHANGED <<stored, atStart, entry>>
      /\ reading' = [reading EXCEPT ![p][q] = @ \union {a}]
      /\ srv[p] \in {"serving", "stopping"}
  BY UnchangedVars DEF Reads, CacheInv, Answers
<1>2. /\ \A o \in Asked \ {p} : reading'[o] = reading[o]
      /\ \A r \in Query \ {q} : reading'[p][r] = reading[p][r]
      /\ reading'[p][q] = reading[p][q] \union {a}
      /\ reading' \in [Asked -> [Query -> SUBSET Answer]]
  BY <1>1 DEF CacheInv, CachesType
<1>3. CachesType'
  BY <1>1, <1>2 DEF CacheInv, CachesType
<1>4. "response" \in Query
  BY DEF Query
<1>5. ASSUME atStart[p] PROVE "none" \notin reading'[p]["response"]
  BY <1>2, <1>4, <1>5 DEF CacheInv, CacheShape
<1>6. CacheShape'
  BY <1>1, <1>2, <1>5 DEF CacheInv, CacheShape, Answers, NoReading, NoEntry
<1> QED
  BY <1>1, <1>3, <1>6 DEF CacheInv

LEMMA FillPreserves ==
  ASSUME CacheInv, NEW p \in Asked, NEW q \in Query, Fill(p, q) PROVE CacheInv'
<1>1. PICK a \in reading[p][q] : entry' = [entry EXCEPT ![p][q] = a]
  BY DEF Fill
<1>2. /\ IInv' /\ srv' = srv /\ UNCHANGED <<stored, atStart, reading>>
      /\ srv[p] \in {"serving", "stopping"}
  BY UnchangedVars DEF Fill, CacheInv, Answers
<1>3. a \in Answer
  BY DEF CacheInv, CachesType
<1>4. /\ \A o \in Asked \ {p} : entry'[o] = entry[o]
      /\ \A r \in Query \ {q} : entry'[p][r] = entry[p][r]
      /\ entry'[p][q] = a
      /\ entry' \in [Asked -> [Query -> Answer \union {"unknown"}]]
  BY <1>1, <1>2, <1>3 DEF CacheInv, CachesType
<1>5. CachesType'
  BY <1>2, <1>4 DEF CacheInv, CachesType
<1>6. "response" \in Query
  BY DEF Query
<1>7. ASSUME atStart[p]
      PROVE  "none" \notin reading'[p]["response"] /\ entry'[p]["response"] # "none"
  BY <1>1, <1>2, <1>4, <1>6, <1>7 DEF CacheInv, CacheShape
<1>8. ASSUME NEW o \in Asked
      PROVE  /\ ~Answers(o)' => reading'[o] = NoReading' /\ entry'[o] = NoEntry'
             /\ atStart'[o] => /\ stored'
                               /\ "none" \notin reading'[o]["response"]
                               /\ entry'[o]["response"] # "none"
  <2>1. NoReading' = NoReading /\ NoEntry' = NoEntry
    BY DEF NoReading, NoEntry
  <2>2. CASE o = p
    BY <1>2, <1>7, <2>2 DEF CacheInv, CacheShape, Answers
  <2>3. CASE o # p
    BY <1>2, <1>4, <2>1, <2>3 DEF CacheInv, CacheShape, Answers
  <2> QED
    BY <2>2, <2>3
<1>9. CacheShape'
  BY <1>8 DEF CacheShape
<1> QED
  BY <1>2, <1>5, <1>9 DEF CacheInv

LEMMA NextWithCachesPreserves == CacheInv /\ [NextWithCaches]_allVars => CacheInv'
<1> SUFFICES ASSUME CacheInv, [NextWithCaches]_allVars PROVE CacheInv'
  OBVIOUS
<1>1. CASE Next /\ CachesFollow
  BY <1>1, CachesFollowPreserves
<1>2. CASE CreateResponse
  BY <1>2, CreateResponsePreserves
<1>3. ASSUME NEW p \in Asked, QueryFails(p) PROVE CacheInv'
  BY <1>3, ReadsPreserves DEF QueryFails, Query, Answer
<1>4. ASSUME NEW p \in Asked, NEW q \in Query, Read(p, q) PROVE CacheInv'
  BY <1>4, ReadsPreserves DEF Read, Answer
<1>5. ASSUME NEW p \in Asked, NEW q \in Query, Fill(p, q) PROVE CacheInv'
  BY <1>5, FillPreserves
<1>6. CASE UNCHANGED allVars
  <2>1. IInv' /\ srv' = srv /\ UNCHANGED <<stored, atStart, reading, entry>>
    BY <1>6, UnchangedVars DEF allVars, caches, CacheInv
  <2>2. CachesType' /\ CacheShape'
    BY <2>1 DEF CacheInv, CachesType, CacheShape, Answers, NoReading, NoEntry
  <2> QED
    BY <2>1, <2>2 DEF CacheInv
<1> QED
  BY <1>1, <1>2, <1>3, <1>4, <1>5, <1>6 DEF NextWithCaches

-----------------------------------------------------------------------------
(* What follows                                                            *)

\* The invariant of supervisor, generations and caches always holds.
THEOREM Invariance == SpecWithCaches => []CacheInv
<1> QED
  BY InitCachesEstablishes, NextWithCachesPreserves, PTL DEF SpecWithCaches

\* Every variable keeps its type: run_with_restart does not count beyond
\* max_retries.
THEOREM TypeCorrect == SpecWithCaches => []CachesTypeOK
<1>1. CacheInv => CachesTypeOK
  BY DEF CacheInv, IInv, CachesType, CachesTypeOK
<1> QED
  BY <1>1, Invariance, PTL

\* server.py gives up only after max_retries generations in a row that faults
\* have ended, or because of ports that a cut generation has left occupied.
THEOREM GivesUpOnlyForCause == SpecWithCaches => []GivesUpForCause
<1>1. CacheInv => GivesUpForCause
  BY DEF CacheInv, IInv, TypeOK, Attempts, Balance, GivesUpForCause
<1> QED
  BY <1>1, Invariance, PTL

\* Without a main process that was killed or interrupted at its end, every
\* generation finds all its ports free.
THEOREM PortsFree == SpecWithCaches => []PortsAreFree
<1>1. CacheInv => PortsAreFree
  BY DEF CacheInv, IInv
<1> QED
  BY <1>1, Invariance, PTL

\* A server never caches that a response which it could have read at its start
\* does not exist.
THEOREM ExistingAlwaysServed == SpecWithCaches => []ExistingServed
<1>1. CacheInv => ExistingServed
  BY DEF CacheInv, CacheShape, ExistingServed
<1> QED
  BY <1>1, Invariance, PTL

-----------------------------------------------------------------------------
(* The stash                                                               *)


Setup ==
  \A t \in Thread : pc[t] \in Starting => initializing[processOf[t]] = t

\* What the calls under way have in their hands.
Values ==
  /\ \A t \in Thread :
       /\ pc[t] \in {"look", "write"} => val[t] \in Value \ written
       /\ pc[t] = "pop" => val[t] \in written
  /\ \A t, u \in Thread :
       t # u /\ pc[t] \in {"look", "write"} /\ pc[u] \in {"look", "write"} => val[t] # val[u]
  /\ data # None => data \in written

\* What was returned has been stored before, and is stored no more.
Returned ==
  /\ \A v \in Value : returns[v] > 0 => v \in written /\ data # v
  /\ \A t \in Thread : \A v \in past[t] : returns[v] > 0

\* With the lock, a caller finds the store as it has seen it.
Exclusive ==
  careful =>
    \A t \in Thread :
      /\ pc[t] \in Calling => holder = t
      /\ pc[t] = "write" => data = None
      /\ pc[t] = "pop" => data = val[t]

StashInv ==
  StashTypeOK /\ Setup /\ Values /\ Returned /\ Exclusive /\ EachValueOnce /\ NotTakenAgain

LEMMA StashInitEstablishes == StashInit => StashInv
<1> SUFFICES ASSUME StashInit PROVE StashInv
  OBVIOUS
<1>1. StashTypeOK
  BY DEF StashInit, StashTypeOK, Starting, Calling
<1>2. Setup /\ Values /\ Returned /\ Exclusive /\ EachValueOnce /\ NotTakenAgain
  BY DEF StashInit, Setup, Values, Returned, Exclusive, EachValueOnce, NotTakenAgain, Starting,
         Calling
<1> QED
  BY <1>1, <1>2 DEF StashInv

LEMMA GoesEffect ==
  ASSUME StashTypeOK, NEW t \in Thread, NEW p, NEW q, Goes(t, p, q)
  PROVE  /\ pc[t] = p /\ pc'[t] = q /\ \A u \in Thread \ {t} : pc'[u] = pc[u]
         /\ careful' = careful
BY DEF Goes, StashTypeOK

-----------------------------------------------------------------------------
(* The stash: the constructor                                              *)

\* A step that leaves the store alone, of a thread that is then in no call.
LEMMA StoreKept ==
  ASSUME StashInv, NEW t \in Thread, UNCHANGED <<store, careful>>,
         pc'[t] \notin Calling, \A u \in Thread \ {t} : pc'[u] = pc[u]
  PROVE  Values' /\ Returned' /\ Exclusive' /\ EachValueOnce' /\ NotTakenAgain'
<1>1. UNCHANGED <<holder, data, val, past, written, returns>>
  BY DEF store
<1>2. Values' /\ NotTakenAgain'
  BY <1>1 DEF StashInv, Values, NotTakenAgain, Calling
<1>3. Returned' /\ EachValueOnce'
  BY <1>1 DEF StashInv, Returned, EachValueOnce
<1>4. Exclusive'
  BY <1>1 DEF StashInv, Exclusive, Calling
<1> QED
  BY <1>2, <1>3, <1>4

LEMMA ConstructPreserves == ASSUME StashInv, NEW t \in Thread, Construct(t) PROVE StashInv'
<1> USE ProcessOfAssumption
<1>1. /\ UNCHANGED <<store, careful>>
      /\ \A u \in Thread \ {t} : pc'[u] = pc[u]
      /\ pc'[t] \in {"idle", "init", "ready"} \union Starting
  BY GoesEffect DEF Construct, New, Enter, MakeManager, Connect, SetupFails, GetDict, GetLock,
                    Goes, StashInv, Starting
<1>2. Values' /\ Returned' /\ Exclusive' /\ EachValueOnce' /\ NotTakenAgain'
  BY <1>1, StoreKept DEF Starting, Calling
<1>3. UNCHANGED <<holder, data, val, past, written, returns, careful>>
  BY <1>1 DEF store
<1>4. pc' \in [Thread -> {"idle", "init", "ready"} \union Starting \union Calling]
  BY <1>1 DEF Construct, New, Enter, MakeManager, Connect, SetupFails, GetDict, GetLock, Goes,
              StashInv, StashTypeOK
<1> DEFINE x == processOf[t]
<1>5. /\ x \in Process
      /\ \A u \in Thread \ {t} : pc[u] \in Starting /\ pc[t] \in Starting => processOf[u] # x
  BY DEF StashInv, Setup
<1>6. CASE New(t) \/ GetDict(t) \/ (Enter(t) /\ UNCHANGED initializing)
  <2>1. /\ UNCHANGED setup
        /\ pc'[t] \in Starting => pc[t] \in Starting
        /\ pc'[t] = "get_lock" => pc[t] = "get_dict"
        /\ pc'[t] = "get_dict" => FALSE
        /\ pc'[t] = "ready" => lock[x]
        /\ pc'[t] \in {"init", "ready", "get_lock"}
    <3>1. CASE New(t)
      BY <3>1, GoesEffect DEF New, StashInv, Starting
    <3>2. CASE GetDict(t)
      BY <3>2, GoesEffect DEF GetDict, StashInv, Starting
    <3>3. CASE Enter(t) /\ UNCHANGED initializing
      <4>1. t # None
        BY NoneAssumption
      <4>2. initializing[x] = None /\ initializing \in [Process -> Thread \union {None}]
        BY <3>3 DEF Enter, StashInv, StashTypeOK
      <4>3. lock[x] /\ Goes(t, "init", "ready") /\ UNCHANGED <<manager, lock>>
        BY <3>3, <1>5, <4>1, <4>2 DEF Enter
      <4> QED
        BY <3>3, <4>3, GoesEffect DEF setup, StashInv, Starting
    <3> QED
      BY <1>6, <3>1, <3>2, <3>3
  <2>2. UNCHANGED <<initializing, manager, lock>>
    BY <2>1 DEF setup
  <2>3. StashTypeOK'
    BY <1>1, <1>3, <1>4, <2>1, <2>2 DEF StashInv, StashTypeOK, Calling
  <2>4. Setup'
    BY <1>1, <2>1, <2>2 DEF StashInv, Setup
  <2> QED
    BY <1>2, <2>3, <2>4 DEF StashInv
<1>7. CASE Enter(t) /\ initializing' = [initializing EXCEPT ![x] = t]
  <2>1. /\ pc[t] = "init" /\ initializing[x] = None /\ UNCHANGED <<manager, lock>>
        /\ pc'[t] \in {"make", "ready"} /\ (pc'[t] = "ready" => lock[x])
    BY <1>7, GoesEffect DEF Enter, StashInv
  <2>2. StashTypeOK'
    BY <1>1, <1>3, <1>4, <1>5, <1>7, <2>1 DEF StashInv, StashTypeOK, Calling
  <2>3. \A u \in Thread \ {t} : pc[u] \in Starting => processOf[u] # x
    BY <2>1, NoneAssumption DEF StashInv, Setup
  <2>4. Setup'
    BY <1>1, <1>5, <1>7, <2>3 DEF StashInv, StashTypeOK, Setup
  <2> QED
    BY <1>2, <2>2, <2>4 DEF StashInv
<1>8. CASE MakeManager(t) \/ Connect(t)
  <2>1. PICK s \in {"made", "connected"} :
          /\ manager' = [manager EXCEPT ![x] = s]
          /\ pc[t] \in Starting /\ pc'[t] \in {"connect", "get_dict"}
          /\ pc'[t] = "get_dict" => s = "connected"
          /\ UNCHANGED <<initializing, lock>>
    BY <1>8, GoesEffect DEF MakeManager, Connect, StashInv, Starting
  <2>2. StashTypeOK'
    BY <1>1, <1>3, <1>4, <1>5, <2>1 DEF StashInv, StashTypeOK, Starting, Calling
  <2>3. Setup'
    BY <1>1, <2>1 DEF StashInv, Setup
  <2> QED
    BY <1>2, <2>2, <2>3 DEF StashInv
<1>9. CASE SetupFails(t) \/ GetLock(t)
  <2>1. /\ initializing' = [initializing EXCEPT ![x] = None]
        /\ pc[t] \in Starting /\ pc'[t] \in {"idle", "ready"}
        /\ UNCHANGED manager
        /\ lock' = lock \/ lock' = [lock EXCEPT ![x] = TRUE]
        /\ pc'[t] = "ready" => lock' = [lock EXCEPT ![x] = TRUE]
    BY <1>9, GoesEffect DEF SetupFails, GetLock, Unlock, StashInv, Starting
  <2>2. /\ initializing' \in [Process -> Thread \union {None}]
        /\ lock' \in [Process -> BOOLEAN]
        /\ \A y \in Process : lock[y] => lock'[y]
        /\ pc'[t] = "ready" => lock'[x]
    BY <1>5, <2>1 DEF StashInv, StashTypeOK
  <2>3. StashTypeOK'
    BY <1>1, <1>3, <1>4, <1>5, <2>1, <2>2 DEF StashInv, StashTypeOK, Starting, Calling
  <2>4. Setup'
    BY <1>1, <1>5, <2>1 DEF StashInv, StashTypeOK, Setup, Starting
  <2> QED
    BY <1>2, <2>3, <2>4 DEF StashInv
<1>10. CASE Enter(t)
  <2>1. UNCHANGED initializing \/ initializing' = [initializing EXCEPT ![x] = t]
    BY <1>10 DEF Enter
  <2> QED
    BY <1>6, <1>7, <1>10, <2>1
<1>11. CASE New(t) \/ GetDict(t)
  BY <1>6, <1>11
<1>12. CASE \/ MakeManager(t) \/ Connect(t)
            \/ SetupFails(t) \/ GetLock(t)
  BY <1>8, <1>9, <1>12
<1> HIDE DEF x
<1> QED
  BY ONLY <1>10, <1>11, <1>12, Construct(t) DEF Construct

LEMMA DonePreserves == ASSUME StashInv, NEW t \in Thread, Done(t) PROVE StashInv'
<1>1. /\ pc' = [pc EXCEPT ![t] = "idle"] /\ careful' = careful
      /\ UNCHANGED <<setup, store>>
  BY DEF Done, Goes
<1>2. /\ pc'[t] = "idle" /\ \A u \in Thread \ {t} : pc'[u] = pc[u]
      /\ UNCHANGED <<initializing, manager, lock, holder, data, val, past, written, returns>>
  BY <1>1 DEF setup, store, StashInv, StashTypeOK
<1>3. Values' /\ Returned' /\ Exclusive' /\ EachValueOnce' /\ NotTakenAgain'
  BY <1>1, <1>2, StoreKept DEF Calling
<1>4. StashTypeOK'
  BY <1>1, <1>2 DEF StashInv, StashTypeOK, Calling
<1>5. Setup'
  BY <1>2 DEF StashInv, Setup, Starting
<1> QED
  BY <1>3, <1>4, <1>5 DEF StashInv

-----------------------------------------------------------------------------
(* The stash: put and take                                                 *)

\* A call leaves the setup alone.
LEMMA SetupKept ==
  ASSUME StashInv, NEW t \in Thread, NEW p \in {"ready"} \union Calling,
         NEW q \in {"ready"} \union Calling, Goes(t, p, q), UNCHANGED setup
  PROVE  /\ Setup' /\ careful' \in BOOLEAN
         /\ pc' \in [Thread -> {"idle", "init", "ready"} \union Starting \union Calling]
         /\ initializing' \in [Process -> Thread \union {None}]
         /\ manager' \in [Process -> {None, "made", "connected"}]
         /\ lock' \in [Process -> BOOLEAN]
         /\ \A u \in Thread :
              /\ pc'[u] \in {"get_dict", "get_lock"} => manager'[processOf[u]] = "connected"
              /\ pc'[u] \in {"ready"} \union Calling => lock'[processOf[u]]
<1>1. /\ pc[t] = p /\ pc'[t] = q /\ \A u \in Thread \ {t} : pc'[u] = pc[u]
      /\ careful' = careful /\ pc' = [pc EXCEPT ![t] = q]
  BY GoesEffect DEF StashInv, Goes
<1>2. UNCHANGED <<initializing, manager, lock>>
  BY DEF setup
<1>3. q \notin Starting /\ q \notin {"get_dict", "get_lock"}
  BY DEF Starting, Calling
<1>4. Setup'
  BY <1>1, <1>2, <1>3 DEF StashInv, Setup
<1> QED
  BY <1>1, <1>2, <1>3, <1>4 DEF StashInv, StashTypeOK

\* With the lock, the thread in a call is the only one.
LEMMA AloneInCall ==
  ASSUME StashInv, careful, NEW t \in Thread, pc[t] \in Calling
  PROVE  \A u \in Thread \ {t} : pc[u] \notin Calling
BY DEF StashInv, Exclusive

LEMMA NobodyInCall ==
  ASSUME StashInv, careful, holder = None
  PROVE  \A u \in Thread : pc[u] \notin Calling
BY NoneAssumption DEF StashInv, Exclusive

LEMMA ReturnEffect ==
  ASSUME StashInv, NEW t \in Thread, NEW p \in Calling, Return(t, p)
  PROVE  /\ Goes(t, p, "ready")
         /\ pc[t] = p /\ pc'[t] = "ready" /\ \A u \in Thread \ {t} : pc'[u] = pc[u]
         /\ val' \in [Thread -> Value \union {None}]
         /\ \A u \in Thread \ {t} : val'[u] = val[u] /\ past'[u] = past[u]
         /\ past' \in [Thread -> SUBSET Value] /\ past'[t] = {}
         /\ holder' \in Thread \union {None}
         /\ careful => \A u \in Thread : pc'[u] \notin Calling
<1>1. /\ pc[t] = p /\ pc'[t] = "ready" /\ \A u \in Thread \ {t} : pc'[u] = pc[u]
  BY GoesEffect DEF Return, StashInv
<1>2. careful => \A u \in Thread : pc'[u] \notin Calling
  BY <1>1, AloneInCall DEF Calling
<1> QED
  BY <1>1, <1>2 DEF Return, StashInv, StashTypeOK

LEMMA CallPutPreserves == ASSUME StashInv, NEW t \in Thread, CallPut(t) PROVE StashInv'
<1>1. PICK v \in Value \ written :
        (\A u \in Thread : val[u] # v) /\ val' = [val EXCEPT ![t] = v]
  BY DEF CallPut
<1>2. /\ Goes(t, "ready", "look") /\ Acquire(t)
      /\ UNCHANGED <<setup, data, past, written, returns>>
  BY DEF CallPut
<1>3. /\ pc[t] = "ready" /\ pc'[t] = "look" /\ \A u \in Thread \ {t} : pc'[u] = pc[u]
      /\ careful' = careful
      /\ val'[t] = v /\ \A u \in Thread \ {t} : val'[u] = val[u]
  BY <1>1, <1>2, GoesEffect DEF StashInv, StashTypeOK
<1>4. StashTypeOK' /\ Setup'
  <2>1. /\ val' \in [Thread -> Value \union {None}] /\ holder' \in Thread \union {None}
        /\ data' \in Value \union {None} /\ past' \in [Thread -> SUBSET Value]
        /\ written' \subseteq Value /\ returns' \in [Value -> Nat]
    BY <1>1, <1>2 DEF Acquire, StashInv, StashTypeOK
  <2> QED
    BY <1>2, <2>1, SetupKept DEF StashTypeOK, Calling
<1>5. Values'
  BY <1>1, <1>2, <1>3 DEF StashInv, Values
<1>6. Returned' /\ EachValueOnce' /\ NotTakenAgain'
  BY <1>2, <1>3 DEF StashInv, Returned, EachValueOnce, NotTakenAgain
<1>7. Exclusive'
  BY <1>2, <1>3, NobodyInCall DEF Acquire, Exclusive, Calling
<1> QED
  BY <1>4, <1>5, <1>6, <1>7 DEF StashInv

LEMMA CallTakePreserves == ASSUME StashInv, NEW t \in Thread, CallTake(t) PROVE StashInv'
<1>1. /\ Goes(t, "ready", "get") /\ Acquire(t)
      /\ past' = [past EXCEPT ![t] = {v \in Value : returns[v] > 0}]
      /\ UNCHANGED <<setup, data, val, written, returns>>
  BY DEF CallTake
<1>2. /\ pc[t] = "ready" /\ pc'[t] = "get" /\ \A u \in Thread \ {t} : pc'[u] = pc[u]
      /\ careful' = careful
      /\ past'[t] = {v \in Value : returns[v] > 0}
      /\ \A u \in Thread \ {t} : past'[u] = past[u]
  BY <1>1, GoesEffect DEF StashInv, StashTypeOK
<1>3. StashTypeOK' /\ Setup'
  <2>1. /\ val' \in [Thread -> Value \union {None}] /\ holder' \in Thread \union {None}
        /\ data' \in Value \union {None} /\ past' \in [Thread -> SUBSET Value]
        /\ written' \subseteq Value /\ returns' \in [Value -> Nat]
    BY <1>1 DEF Acquire, StashInv, StashTypeOK
  <2> QED
    BY <1>1, <2>1, SetupKept DEF StashTypeOK, Calling
<1>4. Values' /\ EachValueOnce' /\ NotTakenAgain'
  BY <1>1, <1>2 DEF StashInv, Values, EachValueOnce, NotTakenAgain
<1>5. Returned'
  BY <1>1, <1>2 DEF StashInv, Returned
<1>6. Exclusive'
  BY <1>1, <1>2, NobodyInCall DEF Acquire, Exclusive, Calling
<1> QED
  BY <1>3, <1>4, <1>5, <1>6 DEF StashInv

\* A call that returns without having changed anything.
LEMMA NothingDonePreserves ==
  ASSUME StashInv, NEW t \in Thread, PutFails(t) \/ TakeNothing(t) PROVE StashInv'
<1>1. PICK p \in Calling : Return(t, p)
  BY DEF PutFails, TakeNothing, Calling
<1>2. UNCHANGED <<setup, data, written, returns>>
  BY DEF PutFails, TakeNothing
<1>3. /\ Goes(t, p, "ready") /\ pc'[t] = "ready" /\ \A u \in Thread \ {t} : pc'[u] = pc[u]
      /\ val' \in [Thread -> Value \union {None}]
      /\ \A u \in Thread \ {t} : val'[u] = val[u] /\ past'[u] = past[u]
      /\ past' \in [Thread -> SUBSET Value] /\ past'[t] = {}
      /\ holder' \in Thread \union {None}
      /\ careful => \A u \in Thread : pc'[u] \notin Calling
      /\ careful' = careful
  BY <1>1, ReturnEffect DEF Return, Goes
<1>4. StashTypeOK' /\ Setup'
  BY <1>2, <1>3, SetupKept DEF StashInv, StashTypeOK
<1>5. Values' /\ Returned' /\ EachValueOnce' /\ NotTakenAgain'
  BY <1>2, <1>3 DEF StashInv, Values, Returned, EachValueOnce, NotTakenAgain
<1>6. Exclusive'
  BY <1>3 DEF Exclusive, Calling
<1> QED
  BY <1>4, <1>5, <1>6 DEF StashInv

LEMMA LookPreserves == ASSUME StashInv, NEW t \in Thread, Look(t) PROVE StashInv'
<1>1. data = None /\ Goes(t, "look", "write") /\ UNCHANGED <<setup, store>>
  BY DEF Look
<1>2. /\ pc[t] = "look" /\ pc'[t] = "write" /\ \A u \in Thread \ {t} : pc'[u] = pc[u]
      /\ UNCHANGED <<careful, holder, data, val, past, written, returns>>
  BY <1>1, GoesEffect DEF StashInv, store
<1>3. StashTypeOK' /\ Setup'
  BY <1>1, <1>2, SetupKept DEF StashInv, StashTypeOK, Calling
<1>4. Values' /\ Returned' /\ EachValueOnce' /\ NotTakenAgain'
  BY <1>2 DEF StashInv, Values, Returned, EachValueOnce, NotTakenAgain
<1>5. Exclusive'
  BY <1>1, <1>2 DEF StashInv, Exclusive, Calling
<1> QED
  BY <1>3, <1>4, <1>5 DEF StashInv

LEMMA WritePreserves == ASSUME StashInv, NEW t \in Thread, Write(t) PROVE StashInv'
<1>1. /\ data' = val[t] /\ written' = written \union {val[t]} /\ Return(t, "write")
      /\ UNCHANGED <<setup, returns>>
  BY DEF Write
<1>2. /\ Goes(t, "write", "ready")
      /\ pc[t] = "write" /\ pc'[t] = "ready" /\ \A u \in Thread \ {t} : pc'[u] = pc[u]
      /\ val' \in [Thread -> Value \union {None}]
      /\ \A u \in Thread \ {t} : val'[u] = val[u] /\ past'[u] = past[u]
      /\ past' \in [Thread -> SUBSET Value] /\ past'[t] = {}
      /\ holder' \in Thread \union {None}
      /\ careful => \A u \in Thread : pc'[u] \notin Calling
      /\ careful' = careful
  BY <1>1, ReturnEffect DEF Return, Goes, Calling
<1>3. val[t] \in Value \ written /\ val[t] # None
  BY <1>2, NoneAssumption DEF StashInv, Values
<1>4. StashTypeOK' /\ Setup'
  BY <1>1, <1>2, <1>3, SetupKept DEF StashInv, StashTypeOK, Calling
<1>5. Values'
  BY <1>1, <1>2, <1>3 DEF StashInv, Values
<1>6. ~(returns[val[t]] > 0) /\ returns[val[t]] = 0
  BY <1>3 DEF StashInv, StashTypeOK, Returned
<1>7. Returned'
  BY <1>1, <1>2, <1>6 DEF StashInv, Returned
<1>8. NotTakenAgain'
  BY <1>2 DEF StashInv, NotTakenAgain
<1>9. EachValueOnce'
  <2>1. careful => data = None
    BY <1>2 DEF StashInv, Exclusive
  <2>2. \A v \in written : v # None
    BY NoneAssumption DEF StashInv, StashTypeOK
  <2> QED
    BY <1>1, <1>2, <1>3, <1>6, <2>1, <2>2 DEF StashInv, EachValueOnce
<1>10. Exclusive'
  BY <1>2 DEF Exclusive, Calling
<1> QED
  BY <1>4, <1>5, <1>7, <1>8, <1>9, <1>10 DEF StashInv

LEMMA GetPreserves == ASSUME StashInv, NEW t \in Thread, Get(t) PROVE StashInv'
<1>1. /\ data # None /\ Goes(t, "get", "pop") /\ val' = [val EXCEPT ![t] = data]
      /\ UNCHANGED <<setup, holder, data, past, written, returns>>
  BY DEF Get
<1>2. /\ pc[t] = "get" /\ pc'[t] = "pop" /\ \A u \in Thread \ {t} : pc'[u] = pc[u]
      /\ val'[t] = data /\ \A u \in Thread \ {t} : val'[u] = val[u]
      /\ careful' = careful
  BY <1>1, GoesEffect DEF StashInv, StashTypeOK
<1>3. StashTypeOK' /\ Setup'
  BY <1>1, SetupKept DEF StashInv, StashTypeOK, Calling
<1>4. Values' /\ Returned' /\ EachValueOnce'
  BY <1>1, <1>2 DEF StashInv, Values, Returned, EachValueOnce
<1>5. data \notin past[t]
  BY <1>1 DEF StashInv, StashTypeOK, Returned
<1>6. NotTakenAgain'
  BY <1>1, <1>2, <1>5 DEF StashInv, NotTakenAgain
<1>7. Exclusive'
  BY <1>1, <1>2 DEF StashInv, Exclusive, Calling
<1> QED
  BY <1>3, <1>4, <1>6, <1>7 DEF StashInv

LEMMA PopPreserves == ASSUME StashInv, NEW t \in Thread, Pop(t) PROVE StashInv'
<1>1. /\ data' = None /\ returns' = [returns EXCEPT ![val[t]] = @ + 1] /\ Return(t, "pop")
      /\ UNCHANGED <<setup, written>>
  BY DEF Pop
<1>2. /\ Goes(t, "pop", "ready")
      /\ pc[t] = "pop" /\ pc'[t] = "ready" /\ \A u \in Thread \ {t} : pc'[u] = pc[u]
      /\ val' \in [Thread -> Value \union {None}]
      /\ \A u \in Thread \ {t} : val'[u] = val[u] /\ past'[u] = past[u]
      /\ past' \in [Thread -> SUBSET Value] /\ past'[t] = {}
      /\ holder' \in Thread \union {None}
      /\ careful => \A u \in Thread : pc'[u] \notin Calling
      /\ careful' = careful
  BY <1>1, ReturnEffect DEF Return, Goes, Calling
<1>3. val[t] \in written /\ val[t] \in Value
  BY <1>2 DEF StashInv, Values, StashTypeOK
<1>4. /\ returns' \in [Value -> Nat] /\ returns'[val[t]] = returns[val[t]] + 1
      /\ \A v \in Value \ {val[t]} : returns'[v] = returns[v]
      /\ \A v \in Value : returns[v] > 0 => returns'[v] > 0
  BY <1>1, <1>3 DEF StashInv, StashTypeOK
<1>5. StashTypeOK' /\ Setup'
  BY <1>1, <1>2, <1>4, SetupKept DEF StashInv, StashTypeOK, Calling
<1>6. Values'
  BY <1>1, <1>2 DEF StashInv, Values
<1>7. Returned'
  <2>1. \A v \in Value : v # None
    BY NoneAssumption
  <2> QED
    BY <1>1, <1>2, <1>3, <1>4, <2>1 DEF StashInv, StashTypeOK, Returned
<1>8. NotTakenAgain'
  BY <1>2 DEF StashInv, NotTakenAgain
<1>9. EachValueOnce'
  <2>1. careful => data = val[t]
    BY <1>2 DEF StashInv, Exclusive
  <2>2. \A v \in written : v # None /\ v \in Value
    BY NoneAssumption DEF StashInv, StashTypeOK
  <2> QED
    BY <1>1, <1>2, <1>3, <1>4, <2>1, <2>2 DEF StashInv, StashTypeOK, EachValueOnce
<1>10. Exclusive'
  BY <1>2 DEF Exclusive, Calling
<1> QED
  BY <1>5, <1>6, <1>7, <1>8, <1>9, <1>10 DEF StashInv

LEMMA StashNextPreserves == StashInv /\ [StashNext]_stashVars => StashInv'
<1> SUFFICES ASSUME StashInv, [StashNext]_stashVars PROVE StashInv'
  OBVIOUS
<1>1. ASSUME NEW t \in Thread, Construct(t) \/ Done(t) PROVE StashInv'
  BY <1>1, ConstructPreserves, DonePreserves
<1>2. ASSUME NEW t \in Thread, Call(t) PROVE StashInv'
  BY <1>2, CallPutPreserves, NothingDonePreserves, LookPreserves, WritePreserves,
     CallTakePreserves, GetPreserves, PopPreserves DEF Call
<1>3. CASE UNCHANGED stashVars
  BY <1>3 DEF stashVars, setup, store, StashInv, StashTypeOK, Setup, Values, Returned, Exclusive,
              EachValueOnce, NotTakenAgain
<1> QED
  BY <1>1, <1>2, <1>3 DEF StashNext

-----------------------------------------------------------------------------
(* What follows for the stash                                              *)

\* The invariant of setup, calls and store always holds.
THEOREM StashInvariance == StashSpec => []StashInv
<1> QED
  BY StashInitEstablishes, StashNextPreserves, PTL DEF StashSpec

\* Every variable keeps its type, and no request uses a connection to the
\* manager that is not set up.
THEOREM StashTypeCorrect == StashSpec => []StashTypeOK
<1>1. StashInv => StashTypeOK
  BY DEF StashInv
<1> QED
  BY <1>1, StashInvariance, PTL

\* Callers that take Stash.lock get every stored value once.
THEOREM ReadOnce == StashSpec => []EachValueOnce
<1>1. StashInv => EachValueOnce
  BY DEF StashInv
<1> QED
  BY <1>1, StashInvariance, PTL

\* With or without the lock, a value that was returned before a take began is
\* not returned by it.
THEOREM NoLateReturn == StashSpec => []NotTakenAgain
<1>1. StashInv => NotTakenAgain
  BY DEF StashInv
<1> QED
  BY <1>1, StashInvariance, PTL
=============================================================================
