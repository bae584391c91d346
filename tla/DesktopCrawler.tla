--------------------------- MODULE DesktopCrawler ---------------------------
(***************************************************************************)
(* The desktop crawler (_hp/hp/tools/crawler/desktop_selenium.py): a       *)
(* multiprocessing Pool whose workers execute worker_function, one URL     *)
(* chunk at a time.  worker_function runs run_task under a CustomErrorTimeout *)
(* (a SignalTimeout, Timeout.py): the with block installs a SIGALRM        *)
(* handler that raises CustomTimeout, then starts the real-time interval   *)
(* timer; leaving the block restores the previous handler, then the        *)
(* previous timer.  run_task nests a second block of that kind around the  *)
(* closing of the browser.                                                 *)
(*                                                                         *)
(* The signal is delivered between any two steps of the worker while a     *)
(* timer is armed; where the exception goes depends on the step it hits.   *)
(* The durations are abstracted: an armed timer may fire at any time.      *)
(*                                                                         *)
(* A driver call (Selenium over HTTP to the driver process) succeeds,      *)
(* raises, or does not return; the calls that may not return are those at  *)
(* the control points in Hangs.                                            *)
(***************************************************************************)
EXTENDS Naturals

CONSTANTS
  Worker,               \* slots of the process pool (--num_browsers)
  Chunk,                \* the elements of all_args
  NoChunk,              \* what an idle worker works on
  NumUrls,              \* URLs of a chunk (at most --max_urls_until_restart)
  Hangs                 \* control points whose driver call may not return

\* The control points of a worker that are inside a driver call.
DriverCalls == {"launch", "bind", "setup", "visit", "close", "quit"}

ASSUME ChunkAssumption == NoChunk \notin Chunk
ASSUME NumUrlsAssumption == NumUrls \in Nat \ {0}
ASSUME HangsAssumption == Hangs \subseteq DriverCalls

VARIABLES
  todo,                 \* chunks in the task queue of the pool
  reported,             \* chunks whose result the main process has received
  up,                   \* chunks whose browser processes are alive
  fired,                \* chunks interrupted by SIGALRM so far
  visited,              \* visited[c]: URLs of c that were attempted
  pc,                   \* pc[w]: next step of worker w
  job,                  \* job[w]: chunk of worker w
  handler,              \* handler[w]: disposition of SIGALRM
  timer,                \* timer[w]: which timeout the interval timer runs for
  saved,                \* saved[w]: old_timeout of the inner with block
  attempt,              \* attempt[w]: which call of get_browser this is
  bound,                \* bound[w]: run_task's driver is assigned
  exc,                  \* exc[w]: an exception is in flight
  procs,                \* procs[w]: run_task's processes holds the browser
  ret                   \* ret[w]: worker_function's processes holds it

signals == <<handler, timer>>
locals == <<saved, attempt, bound, exc, procs, ret>>
pool == <<todo, reported, job>>
world == <<up, fired, visited>>
vars == <<pool, world, pc, signals, locals>>

PC == {"idle", "install", "arm",                      \* worker_function 260-281
       "launch", "bind", "record", "setup",           \* run_task 165-188
       "visit", "close",                              \* run_task 190-234
       "install2", "arm2", "quit", "return",          \* run_task 235-257
       "restore", "rearm",                            \* inner SignalTimeout.cancel
       "assign", "uninstall", "disarm", "kill"}       \* worker_function 283-292

TypeOK ==
  /\ todo \subseteq Chunk
  /\ reported \subseteq Chunk
  /\ up \subseteq Chunk
  /\ fired \subseteq Chunk
  /\ visited \in [Chunk -> 0..NumUrls]
  /\ pc \in [Worker -> PC]
  /\ job \in [Worker -> Chunk \union {NoChunk}]
  /\ handler \in [Worker -> {"default", "task", "closing"}]
  /\ timer \in [Worker -> {"off", "task", "closing"}]
  /\ saved \in [Worker -> {"off", "task", "closing"}]
  /\ attempt \in [Worker -> {1, 2}]
  /\ bound \in [Worker -> BOOLEAN]
  /\ exc \in [Worker -> BOOLEAN]
  /\ procs \in [Worker -> BOOLEAN]
  /\ ret \in [Worker -> BOOLEAN]

Init ==
  /\ todo = Chunk
  /\ reported = {}
  /\ up = {}
  /\ fired = {}
  /\ visited = [c \in Chunk |-> 0]
  /\ pc = [w \in Worker |-> "idle"]
  /\ job = [w \in Worker |-> NoChunk]
  /\ handler = [w \in Worker |-> "default"]
  /\ timer = [w \in Worker |-> "off"]
  /\ saved = [w \in Worker |-> "off"]
  /\ attempt = [w \in Worker |-> 1]
  /\ bound = [w \in Worker |-> FALSE]
  /\ exc = [w \in Worker |-> FALSE]
  /\ procs = [w \in Worker |-> FALSE]
  /\ ret = [w \in Worker |-> FALSE]

Goto(w, from, to) ==
  /\ pc[w] = from
  /\ pc' = [pc EXCEPT ![w] = to]

-----------------------------------------------------------------------------
(* worker_function: entering the outer timeout                             *)

TakeChunk(w, c) ==
  /\ Goto(w, "idle", "install")
  /\ c \in todo
  /\ todo' = todo \ {c}
  /\ job' = [job EXCEPT ![w] = c]
  /\ UNCHANGED <<reported, world, signals, locals>>

\* SignalTimeout.__enter__ of the outer block, first call.
InstallHandler(w) ==
  /\ Goto(w, "install", "arm")
  /\ handler' = [handler EXCEPT ![w] = "task"]
  /\ UNCHANGED <<pool, world, timer, locals>>

\* SignalTimeout.__enter__ of the outer block, second call.
ArmTimer(w) ==
  /\ Goto(w, "arm", "launch")
  /\ timer' = [timer EXCEPT ![w] = "task"]
  /\ UNCHANGED <<pool, world, handler, locals>>

-----------------------------------------------------------------------------
(* run_task: starting the browser                                          *)

\* The constructor of the driver has started the driver and browser processes.
Launch(w) ==
  /\ Goto(w, "launch", "bind")
  /\ up' = up \union {job[w]}
  /\ UNCHANGED <<pool, fired, visited, signals, locals>>

BindDriver(w) ==
  /\ Goto(w, "bind", "record")
  /\ bound' = [bound EXCEPT ![w] = TRUE]
  /\ UNCHANGED <<pool, world, signals, saved, attempt, exc, procs, ret>>

\* The constructor raises; Selenium has then quit what it started.  A
\* WebDriverException or OSError of the first call is tried again, any other
\* exception and every exception of the second call ends the chunk.
LaunchFails(w) ==
  /\ pc[w] = "bind"
  /\ up' = up \ {job[w]}
  /\ \/ /\ attempt[w] = 1
        /\ attempt' = [attempt EXCEPT ![w] = 2]
        /\ pc' = [pc EXCEPT ![w] = "launch"]
     \/ /\ pc' = [pc EXCEPT ![w] = "install2"]
        /\ UNCHANGED attempt
  /\ UNCHANGED <<pool, fired, visited, signals, saved, bound, exc, procs, ret>>

\* get_child_processes: [] if the driver process is gone by now.
RecordProcesses(w) ==
  /\ Goto(w, "record", "setup")
  /\ procs' = [procs EXCEPT ![w] = job[w] \in up]
  /\ UNCHANGED <<pool, world, signals, saved, attempt, bound, exc, ret>>

\* set_page_load_timeout and current_window_handle return or raise.
SetUp(w) ==
  /\ pc[w] = "setup"
  /\ \E next \in {"visit", "install2"} : pc' = [pc EXCEPT ![w] = next]
  /\ UNCHANGED <<pool, world, signals, locals>>

\* The browser dies by itself, or with its driver service when that object is
\* finalized; at any time of its life.
BrowserCrashes(w) ==
  /\ job[w] \in up
  /\ up' = up \ {job[w]}
  /\ UNCHANGED <<pool, fired, visited, pc, signals, locals>>

-----------------------------------------------------------------------------
(* run_task: the loop over the URLs                                        *)

\* The body of the try statement for one URL ends normally or with an
\* exception that is logged; when reading driver.current_url for the log
\* message raises as well, that exception is in flight during the finally
\* clause.
Visit(w) ==
  /\ Goto(w, "visit", "close")
  /\ visited' = [visited EXCEPT ![job[w]] = @ + 1]
  /\ exc' \in {exc, [exc EXCEPT ![w] = TRUE]}
  /\ UNCHANGED <<pool, up, fired, signals, saved, attempt, bound, procs, ret>>

\* A mutant of CloseWindow: the loop runs once too often.
CloseWindowOnceMore(w) ==
  /\ pc[w] = "close"
  /\ pc' = [pc EXCEPT ![w] = IF exc[w] \/ visited[job[w]] > NumUrls
                              THEN "install2" ELSE "visit"]
  /\ exc' = [exc EXCEPT ![w] = FALSE]
  /\ UNCHANGED <<pool, world, signals, saved, attempt, bound, procs, ret>>

\* driver.close and switch_to.window of the finally clause return.
CloseWindow(w) ==
  /\ pc[w] = "close"
  /\ pc' = [pc EXCEPT ![w] = IF exc[w] \/ visited[job[w]] = NumUrls
                              THEN "install2" ELSE "visit"]
  /\ exc' = [exc EXCEPT ![w] = FALSE]
  /\ UNCHANGED <<pool, world, signals, saved, attempt, bound, procs, ret>>

\* They raise: the exception leaves the loop and the outer clause logs it.
CloseWindowFails(w) ==
  /\ Goto(w, "close", "install2")
  /\ exc' = [exc EXCEPT ![w] = FALSE]
  /\ UNCHANGED <<pool, world, signals, saved, attempt, bound, procs, ret>>

-----------------------------------------------------------------------------
(* run_task: closing the browser under the inner timeout                   *)

InstallClosingHandler(w) ==
  /\ Goto(w, "install2", "arm2")
  /\ handler' = [handler EXCEPT ![w] = "closing"]
  /\ UNCHANGED <<pool, world, timer, locals>>

\* A mutant of ArmClosingTimer: the closing of the browser gets no timer.
ArmNoClosingTimer(w) ==
  /\ Goto(w, "arm2", "quit")
  /\ saved' = [saved EXCEPT ![w] = timer[w]]
  /\ UNCHANGED <<pool, world, signals, attempt, bound, exc, procs, ret>>

\* setitimer returns what was left of the outer timeout: 0 if it has fired.
ArmClosingTimer(w) ==
  /\ Goto(w, "arm2", "quit")
  /\ saved' = [saved EXCEPT ![w] = timer[w]]
  /\ timer' = [timer EXCEPT ![w] = "closing"]
  /\ UNCHANGED <<pool, world, handler, attempt, bound, exc, procs, ret>>

\* driver.close and driver.quit; UnboundLocalError without a driver, any
\* exception is caught and may leave the browser alive.
Quit(w) ==
  /\ Goto(w, "quit", "return")
  /\ up' \in {up} \union (IF bound[w] THEN {up \ {job[w]}} ELSE {})
  /\ UNCHANGED <<pool, fired, visited, signals, locals>>

\* The finally clause logs and evaluates "return processes".
Return(w) ==
  /\ Goto(w, "return", "restore")
  /\ UNCHANGED <<pool, world, signals, locals>>

\* SignalTimeout.cancel of the inner block, first call.
RestoreHandler(w) ==
  /\ Goto(w, "restore", "rearm")
  /\ handler' = [handler EXCEPT ![w] = "task"]
  /\ UNCHANGED <<pool, world, timer, locals>>

\* A mutant of RearmTimer: cancel only restores the handler.
RearmNoTimer(w) ==
  /\ Goto(w, "rearm", IF exc[w] THEN "uninstall" ELSE "assign")
  /\ saved' = [saved EXCEPT ![w] = "off"]
  /\ exc' = [exc EXCEPT ![w] = FALSE]
  /\ UNCHANGED <<pool, world, signals, attempt, bound, procs, ret>>

\* SignalTimeout.cancel of the inner block, second call; without an exception
\* in flight run_task returns.
RearmTimer(w) ==
  /\ Goto(w, "rearm", IF exc[w] THEN "uninstall" ELSE "assign")
  /\ timer' = [timer EXCEPT ![w] = saved[w]]
  /\ saved' = [saved EXCEPT ![w] = "off"]
  /\ exc' = [exc EXCEPT ![w] = FALSE]
  /\ UNCHANGED <<pool, world, handler, attempt, bound, procs, ret>>

-----------------------------------------------------------------------------
(* worker_function: leaving the outer timeout                              *)

\* A mutant of AssignProcesses: the result of run_task is dropped.
AssignNothing(w) ==
  /\ Goto(w, "assign", "uninstall")
  /\ UNCHANGED <<pool, world, signals, locals>>

AssignProcesses(w) ==
  /\ Goto(w, "assign", "uninstall")
  /\ ret' = [ret EXCEPT ![w] = procs[w]]
  /\ UNCHANGED <<pool, world, signals, saved, attempt, bound, exc, procs>>

\* SignalTimeout.cancel of the outer block, first call.
UninstallHandler(w) ==
  /\ Goto(w, "uninstall", "disarm")
  /\ handler' = [handler EXCEPT ![w] = "default"]
  /\ UNCHANGED <<pool, world, timer, locals>>

\* A mutant of DisarmTimer: the timer runs on after the with block.
DisarmNoTimer(w) ==
  /\ Goto(w, "disarm", "kill")
  /\ UNCHANGED <<pool, world, signals, locals>>

\* SignalTimeout.cancel of the outer block, second call: no timer ran before.
DisarmTimer(w) ==
  /\ Goto(w, "disarm", "kill")
  /\ timer' = [timer EXCEPT ![w] = "off"]
  /\ UNCHANGED <<pool, world, handler, locals>>

\* The frames of worker_function and run_task are gone, the slot is idle.
EndCall(w) ==
  /\ pc' = [pc EXCEPT ![w] = "idle"]
  /\ job' = [job EXCEPT ![w] = NoChunk]
  /\ saved' = [saved EXCEPT ![w] = "off"]
  /\ attempt' = [attempt EXCEPT ![w] = 1]
  /\ bound' = [bound EXCEPT ![w] = FALSE]
  /\ exc' = [exc EXCEPT ![w] = FALSE]
  /\ procs' = [procs EXCEPT ![w] = FALSE]
  /\ ret' = [ret EXCEPT ![w] = FALSE]
  /\ UNCHANGED todo

\* kill_processes ends every process it is given; worker_function returns and
\* the pool reports the chunk.
KillAndReport(w) ==
  /\ pc[w] = "kill"
  /\ up' = IF ret[w] THEN up \ {job[w]} ELSE up
  /\ reported' = reported \union {job[w]}
  /\ EndCall(w)
  /\ UNCHANGED <<fired, visited, signals>>

-----------------------------------------------------------------------------
(* SIGALRM: the timer runs out and the handler raises CustomTimeout at the  *)
(* step the worker is at.                                                   *)

\* The except clause of run_task logs it.
CaughtInRunTask(w) ==
  /\ pc[w] \in {"launch", "bind", "record", "setup", "close", "install2"}
  /\ pc' = [pc EXCEPT ![w] = "install2"]
  /\ exc' = [exc EXCEPT ![w] = FALSE]

\* In the loop, the finally clause for the current URL is executed first.
CaughtAfterClosingWindow(w) ==
  /\ Goto(w, "visit", "close")
  /\ exc' = [exc EXCEPT ![w] = TRUE]

\* The inner try statement catches it.
CaughtWhileQuitting(w) ==
  /\ Goto(w, "quit", "return")
  /\ UNCHANGED exc

\* Raised in the innermost finally clause it replaces the return statement.
ReplacesReturn(w) ==
  /\ Goto(w, "return", "restore")
  /\ exc' = [exc EXCEPT ![w] = TRUE]

\* Raised in the finally clause of run_task outside of the inner with body, or
\* before worker_function has assigned the result: worker_function catches it,
\* its processes stays [].
EscapesRunTask(w) ==
  /\ pc[w] \in {"install2", "arm2", "restore", "rearm", "assign"}
  /\ pc' = [pc EXCEPT ![w] = "uninstall"]
  /\ exc' = [exc EXCEPT ![w] = FALSE]

Alarm(w) ==
  /\ timer[w] # "off"
  /\ timer' = [timer EXCEPT ![w] = "off"]
  /\ fired' = fired \union {job[w]}
  /\ \/ CaughtInRunTask(w)
     \/ CaughtAfterClosingWindow(w)
     \/ CaughtWhileQuitting(w)
     \/ ReplacesReturn(w)
     \/ EscapesRunTask(w)
  /\ UNCHANGED <<pool, up, visited, handler, saved, attempt, bound, procs, ret>>

\* Raised while the outer with block is left, CustomTimeout escapes from
\* worker_function; it is no Exception, so it ends the worker process.  Once the
\* default handler is back the signal itself does.  The pool starts another
\* process and never reports the chunk.
AlarmEndsWorker(w) ==
  /\ timer[w] # "off"
  /\ pc[w] \in {"uninstall", "disarm"}
  /\ fired' = fired \union {job[w]}
  /\ handler' = [handler EXCEPT ![w] = "default"]
  /\ timer' = [timer EXCEPT ![w] = "off"]
  /\ EndCall(w)
  /\ UNCHANGED <<reported, up, visited>>

-----------------------------------------------------------------------------

\* The steps of a worker's own control flow.
Step(w) ==
  \/ \E c \in Chunk : TakeChunk(w, c)
  \/ InstallHandler(w)
  \/ ArmTimer(w)
  \/ Launch(w)
  \/ BindDriver(w)
  \/ LaunchFails(w)
  \/ RecordProcesses(w)
  \/ SetUp(w)
  \/ Visit(w)
  \/ CloseWindow(w)
  \/ CloseWindowFails(w)
  \/ InstallClosingHandler(w)
  \/ ArmClosingTimer(w)
  \/ Quit(w)
  \/ Return(w)
  \/ RestoreHandler(w)
  \/ RearmTimer(w)
  \/ AssignProcesses(w)
  \/ UninstallHandler(w)
  \/ DisarmTimer(w)
  \/ KillAndReport(w)

Next ==
  \E w \in Worker :
    \/ Step(w)
    \/ Alarm(w)
    \/ AlarmEndsWorker(w)
    \/ BrowserCrashes(w)

\* A worker goes on unless it is inside a call that may not return, and an
\* armed timer runs out sooner or later.
Fairness ==
  \A w \in Worker :
    /\ WF_vars(pc[w] \notin Hangs /\ Step(w))
    /\ WF_vars(Alarm(w) \/ AlarmEndsWorker(w))

Spec == Init /\ [][Next]_vars

FairSpec == Spec /\ Fairness

-----------------------------------------------------------------------------
(* Properties                                                              *)

Running(c) == \E w \in Worker : job[w] = c

\* Between two chunks, and while worker_function kills the processes it was
\* given, no timer runs and SIGALRM has its default disposition: the timeout of
\* one chunk never interrupts the next one or the killing of its browser.
SignalsQuiet ==
  \A w \in Worker :
    pc[w] \in {"idle", "install", "kill"} => timer[w] = "off" /\ handler[w] = "default"

\* A CustomTimeout is raised only while run_task or worker_function has a with
\* block to catch or to clean up for; the timer of the inner block never
\* outlives the block, and no handler of the inner block is left to a timer of
\* the outer one, except between the two calls of __enter__.
TimersNest ==
  \A w \in Worker :
    /\ timer[w] = "closing" => pc[w] \in {"quit", "return", "restore", "rearm"}
    /\ timer[w] = "task" /\ handler[w] # "task" => pc[w] \in {"arm2", "disarm"}

\* No chunk loses its browser's processes on the way from run_task to
\* kill_processes, and none is lost by the pool, unless an alarm hit it: the
\* crawler implements ChunkPool.
Pool == INSTANCE ChunkPool WITH running <- {c \in Chunk : Running(c)}

ImplementsChunkPool == Pool!Spec

\* Every chunk a worker takes comes to an end, whatever driver calls do not
\* return.
ChunkEnds == \A c \in Chunk : Running(c) ~> ~Running(c)
=============================================================================
