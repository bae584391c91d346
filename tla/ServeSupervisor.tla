--------------------------- MODULE ServeSupervisor ---------------------------
(***************************************************************************)
(* Start, restart and stop of the servers.  server.py starts `wpt serve`   *)
(* in a process group of its own, ends it every ten minutes with SIGINT,   *)
(* and starts the next generation of servers; serve.py runs one generation: *)
(* a main process (run) that starts a daemonic process for each port, waits *)
(* until one of them is dead, asks the others to stop and exits with the    *)
(* number of those that have not exited correctly.                          *)
(*                                                                         *)
(* A server may not stop when it is asked to: the accept loop does the TLS  *)
(* handshake, and shutdown waits for that loop.  When main exits,           *)
(* multiprocessing sends SIGTERM to the daemonic processes that are left.   *)
(* A server whose main was killed goes on and keeps its port.               *)
(*                                                                         *)
(* The ten minutes may be over at any time, and Ctrl-C may come at any time, *)
(* several times.  What server.py does when an exception arrives is not one *)
(* step: there are windows in which a generation runs that nobody tells.    *)
(***************************************************************************)
EXTENDS Naturals

CONSTANTS
  Port,                 \* the fixed ports of wpt-config.json
  MaxRetries,           \* max_retries
  MaxFaults             \* bound on the faults between two good generations

ASSUME MaxRetriesAssumption == MaxRetries \in Nat \ {0}
ASSUME MaxFaultsAssumption == MaxFaults \in Nat

VARIABLES
  sup,                  \* where run_with_restart is
  retries,
  main,                 \* where main of the current generation is
  code,                 \* its exit code: 0, or 1 for any other
  srv,                  \* srv[p]: the server process of this generation
  flag,                 \* flag[p]: its stop_flag
  held,                 \* ports that servers of earlier generations keep
  faults,               \* faults since the last generation that ended well
  cut                   \* some main was killed, or interrupted at its end

supervisor == <<sup, retries>>
generation == <<main, code, srv, flag>>
history == <<faults, cut>>
vars == <<supervisor, generation, held, history>>

Live == {"init", "serving", "stopping"}
Dead == {"ok", "failed"}

TypeOK ==
  /\ sup \in {"spawn", "popen", "wait", "sleep", "timedOut", "stopping",
              "interrupted", "leaving", "gaveUp", "returned", "escaped"}
  /\ retries \in 0..MaxRetries
  /\ main \in {"none", "starting", "poll", "request", "hung", "join", "exit", "ended"}
  /\ code \in {0, 1}
  /\ srv \in [Port -> {"none"} \union Live \union Dead]
  /\ flag \in [Port -> BOOLEAN]
  /\ held \subseteq Port
  /\ faults \in 0..MaxFaults
  /\ cut \in BOOLEAN

Init ==
  /\ sup = "spawn"
  /\ retries = 0
  /\ main = "none"
  /\ code = 0
  /\ srv = [p \in Port |-> "none"]
  /\ flag = [p \in Port |-> FALSE]
  /\ held = {}
  /\ faults = 0
  /\ cut = FALSE

-----------------------------------------------------------------------------
(* SIGINT to the process group of a generation                             *)

\* A server that serves goes on to daemon.stop(); while it starts or stops,
\* KeyboardInterrupt ends it.
Interrupted(s) ==
  CASE s = "serving" -> "stopping"
    [] s \in {"init", "stopping"} -> "failed"
    [] OTHER -> s

\* In the loop of run the exception is caught; elsewhere it ends main, which
\* then leaves its with blocks and ends its children, if it does not hit main
\* in that very code.
SignalGroup ==
  /\ srv' = [p \in Port |-> Interrupted(srv[p])]
  /\ \/ /\ main = "poll"
        /\ main' = "request"
        /\ UNCHANGED <<code, cut>>
     \/ /\ main \in {"starting", "request", "hung", "join", "exit"}
        /\ main' = "exit"
        /\ code' = 1
        /\ UNCHANGED cut
     \/ /\ main = "exit"
        /\ main' = "ended"
        /\ code' = 1
        /\ cut' = TRUE
     \/ /\ main = "ended"
        /\ UNCHANGED <<main, code, cut>>
  /\ UNCHANGED <<flag, held>>

-----------------------------------------------------------------------------
(* server.py: run_with_restart                                             *)

\* In Popen: the new generation is there, in a group of its own.  A server that
\* was left behind while it was starting has its port before the ten seconds
\* are over.  (A Popen that raises is a generation that fails at once.)
Spawn ==
  /\ sup = "spawn"
  /\ sup' = "popen"
  /\ main' = "starting"
  /\ code' = 0
  /\ held' = held \union {p \in Port : srv[p] \in Live}
  /\ srv' = [p \in Port |-> "none"]
  /\ flag' = [p \in Port |-> FALSE]
  /\ UNCHANGED <<retries, history>>

\* Popen returns, and process is the new generation.
PopenReturns ==
  /\ sup = "popen"
  /\ sup' = "wait"
  /\ UNCHANGED <<retries, generation, held, history>>

\* A generation that ends well pays for all faults before.
EndsWell ==
  /\ retries' = 0
  /\ faults' = 0

ExitedCorrectly ==
  /\ sup = "wait"
  /\ main = "ended"
  /\ code = 0
  /\ sup' = "spawn"
  /\ EndsWell
  /\ UNCHANGED <<generation, held, cut>>

\* A mutant of ExitedWithError: it gives up one attempt too late.
GivesUpLate ==
  /\ sup = "wait"
  /\ main = "ended"
  /\ code # 0
  /\ retries' = retries + 1
  /\ sup' = IF retries + 1 > MaxRetries THEN "gaveUp" ELSE "sleep"
  /\ UNCHANGED <<generation, held, history>>

ExitedWithError ==
  /\ sup = "wait"
  /\ main = "ended"
  /\ code # 0
  /\ retries' = retries + 1
  /\ sup' = IF retries + 1 >= MaxRetries THEN "gaveUp" ELSE "sleep"
  /\ UNCHANGED <<generation, held, history>>

Wake ==
  /\ sup = "sleep"
  /\ sup' = "spawn"
  /\ UNCHANGED <<retries, generation, held, history>>

\* TimeoutExpired.
Timeout ==
  /\ sup = "wait"
  /\ main # "ended"
  /\ sup' = "timedOut"
  /\ UNCHANGED <<retries, generation, held, history>>

\* killpg after the timeout.  A main process that has ended since then has not
\* been waited for: its group is still there.
EndGeneration ==
  /\ sup = "timedOut"
  /\ sup' = "stopping"
  /\ SignalGroup
  /\ UNCHANGED <<retries, faults>>

\* A mutant of Stopped: retries is not reset after a timeout.
StoppedWithoutReset ==
  /\ sup = "stopping"
  /\ main = "ended"
  /\ sup' = "spawn"
  /\ faults' = 0
  /\ UNCHANGED <<retries, generation, held, cut>>

\* process.wait() after the timeout.
Stopped ==
  /\ sup = "stopping"
  /\ main = "ended"
  /\ sup' = "spawn"
  /\ EndsWell
  /\ UNCHANGED <<generation, held, cut>>

\* Ctrl-C at server.py.  In process.wait() it is caught.  In Popen it is caught
\* as well, but process is not yet the new generation: it is unbound, or the last
\* one, which has ended, and killpg raises.  Elsewhere it escapes.  "escaped" are
\* the ends at which there is a generation that was not told.
KeyboardInterrupt ==
  /\ \/ sup = "wait" /\ sup' = "interrupted"
     \/ sup \in {"popen", "timedOut", "interrupted"} /\ sup' = "escaped"
     \/ sup \in {"spawn", "sleep", "stopping", "leaving"} /\ sup' = "returned"
  /\ UNCHANGED <<retries, generation, held, history>>

\* A mutant of PassOn: the generation is not told.
KeepToItself ==
  /\ sup = "interrupted"
  /\ sup' = "leaving"
  /\ UNCHANGED <<retries, generation, held, history>>

\* killpg after Ctrl-C.  If the interrupted wait() has already seen the end of
\* main, getpgid finds no process and raises.
PassOn ==
  /\ sup = "interrupted"
  /\ \/ /\ sup' = "leaving"
        /\ SignalGroup
     \/ /\ main = "ended"
        /\ sup' = "returned"
        /\ UNCHANGED <<generation, held, cut>>
  /\ UNCHANGED <<retries, faults>>

\* process.wait() after Ctrl-C.
Leave ==
  /\ sup = "leaving"
  /\ main = "ended"
  /\ sup' = "returned"
  /\ UNCHANGED <<retries, generation, held, history>>

-----------------------------------------------------------------------------
(* serve.py: run                                                           *)

\* start_servers.
StartServers ==
  /\ main = "starting"
  /\ main' = "poll"
  /\ srv' = [p \in Port |-> "init"]
  /\ UNCHANGED <<supervisor, code, flag, held, history>>

\* A mutant of PollFindsDead: the loop ends once all servers are dead.
PollFindsAllDead ==
  /\ main = "poll"
  /\ \A p \in Port : srv[p] \in Dead
  /\ main' = "request"
  /\ UNCHANGED <<supervisor, code, srv, flag, held, history>>

PollFindsDead ==
  /\ main = "poll"
  /\ \E p \in Port : srv[p] \in Dead
  /\ main' = "request"
  /\ UNCHANGED <<supervisor, code, srv, flag, held, history>>

RequestShutdown ==
  /\ main = "request"
  /\ flag' = [p \in Port |-> srv[p] \in Live]
  /\ main' = "join"
  /\ UNCHANGED <<supervisor, code, srv, held, history>>

\* wait(timeout=1) for each server, and the return of failed_subproc.
JoinServers ==
  /\ main = "join"
  /\ code' = IF \A p \in Port : srv[p] = "ok" THEN 0 ELSE 1
  /\ main' = "exit"
  /\ UNCHANGED <<supervisor, srv, flag, held, history>>

\* A mutant of Terminate: the processes are not daemonic, they are joined only.
TerminateNone ==
  /\ main = "exit"
  /\ \A p \in Port : srv[p] \notin Live
  /\ main' = "ended"
  /\ UNCHANGED <<supervisor, code, srv, flag, held, history>>

\* A mutant of Terminate: main does not wait for its children at all.
ExitAtOnce ==
  /\ main = "exit"
  /\ main' = "ended"
  /\ UNCHANGED <<supervisor, code, srv, flag, held, history>>

\* The exit handler of multiprocessing: SIGTERM to all daemonic children.
Terminate ==
  /\ main = "exit"
  /\ srv' = [p \in Port |-> IF srv[p] \in Live THEN "failed" ELSE srv[p]]
  /\ main' = "ended"
  /\ UNCHANGED <<supervisor, code, flag, held, history>>

-----------------------------------------------------------------------------
(* serve.py: ServerProc.create_daemon, in the server processes             *)

\* The outcome s of a step of the server for p.
Server(p, s) ==
  /\ srv' = [srv EXCEPT ![p] = s]
  /\ UNCHANGED <<supervisor, main, code, flag, held, history>>

\* init_func binds the port or calls startup_failed.
Bind(p) ==
  /\ srv[p] = "init"
  /\ Server(p, IF p \in held THEN "failed" ELSE "serving")

\* stop_flag.wait() returns.
StopFlagged(p) ==
  /\ srv[p] = "serving"
  /\ flag[p]
  /\ Server(p, "stopping")

\* daemon.stop() returns.
StopEnds(p) ==
  /\ srv[p] = "stopping"
  /\ Server(p, "ok")

\* A server left behind ends after all.
LeftServerEnds(p) ==
  /\ p \in held
  /\ held' = held \ {p}
  /\ UNCHANGED <<supervisor, generation, history>>

-----------------------------------------------------------------------------
(* Faults                                                                  *)

Fault ==
  /\ faults < MaxFaults
  /\ faults' = faults + 1
  /\ UNCHANGED supervisor

\* A server process fails to start or dies.
ServerDies(p) ==
  /\ Fault
  /\ srv[p] \in Live
  /\ srv' = [srv EXCEPT ![p] = "failed"]
  /\ UNCHANGED <<main, code, flag, held, cut>>

\* It dies between is_alive and the end of stop_flag.set(), which waits until
\* the sleeping process has woken up.
ServerDiesDuringRequest(p) ==
  /\ Fault
  /\ main = "request"
  /\ srv[p] = "serving"
  /\ srv' = [srv EXCEPT ![p] = "failed"]
  /\ main' = "hung"
  /\ UNCHANGED <<code, flag, held, cut>>

\* build_config, the stash or start_servers raise.
MainFails ==
  /\ Fault
  /\ main = "starting"
  /\ main' = "exit"
  /\ code' = 1
  /\ UNCHANGED <<srv, flag, held, cut>>

\* SIGKILL, as by the out-of-memory killer.
MainKilled ==
  /\ Fault
  /\ main \notin {"none", "ended"}
  /\ main' = "ended"
  /\ code' = 1
  /\ cut' = TRUE
  /\ UNCHANGED <<srv, flag, held>>

\* Somebody else sends SIGINT to the generation.
InterruptedFromOutside ==
  /\ Fault
  /\ SignalGroup

-----------------------------------------------------------------------------

Supervise ==
  \/ Spawn
  \/ PopenReturns
  \/ ExitedCorrectly
  \/ ExitedWithError
  \/ Wake
  \/ EndGeneration
  \/ Stopped
  \/ PassOn
  \/ Leave

RunMain ==
  \/ StartServers
  \/ PollFindsDead
  \/ RequestShutdown
  \/ JoinServers
  \/ Terminate

Next ==
  \/ Supervise
  \/ Timeout
  \/ KeyboardInterrupt
  \/ RunMain
  \/ MainFails
  \/ MainKilled
  \/ InterruptedFromOutside
  \/ \E p \in Port :
       \/ Bind(p)
       \/ StopFlagged(p)
       \/ StopEnds(p)
       \/ LeftServerEnds(p)
       \/ ServerDies(p)
       \/ ServerDiesDuringRequest(p)

\* Processes go on where they wait for nobody; a server need not stop.
Fairness ==
  /\ WF_vars(Supervise)
  /\ WF_vars(RunMain)
  /\ \A p \in Port : WF_vars(Bind(p) \/ StopFlagged(p))

Spec == Init /\ [][Next]_vars

FairSpec == Spec /\ Fairness

-----------------------------------------------------------------------------
(* Properties                                                              *)

\* server.py gives up only after MaxRetries faults in a row, with no generation
\* in between that ended well, or because a server that was left behind by a
\* main process without a proper end keeps its port.
GivesUpForCause == sup = "gaveUp" => faults >= MaxRetries \/ cut

\* No port is kept by a server of an earlier generation unless a main process
\* had no proper end.
PortsAreFree == held # {} => cut

\* After the ten minutes the restart comes, although servers may not stop and
\* the wait after SIGINT has no timeout, unless Ctrl-C ends server.py.
RestartComes == sup = "timedOut" ~> sup \in {"spawn", "returned", "escaped"}

\* A generation with a dead server comes to its end without the ten minutes.
DeadServerNoticed ==
  \A p \in Port : srv[p] \in Dead /\ sup = "wait" ~> sup # "wait" \/ main = "hung"

\* Once server.py has given up, or was interrupted outside of the windows in
\* which it cannot tell the generation, no server goes on, unless a main process
\* had no proper end: one Ctrl-C during process.wait() ends everything, and so
\* does one in the waits after SIGINT, although server.py does not wait then.
NothingLeftBehind ==
  sup \in {"gaveUp", "returned"} ~> cut \/ \A p \in Port : srv[p] \notin Live
=============================================================================
