------------------------ MODULE DesktopCrawlerProofs ------------------------
(***************************************************************************)
(* Proofs about DesktopCrawler, for any pool, any set of chunks of any     *)
(* length and any set of driver calls that may not return:                 *)
(*                                                                         *)
(*   TypeCorrect, QuietBetweenChunks, TimersAreNested   the invariants     *)
(*   Refinement                      the crawler implements ChunkPool      *)
(*                                                                         *)
(* None of the invariants is inductive by itself: that the loop does not   *)
(* overrun a chunk needs that no two workers have the same chunk, and that *)
(* a browser is not forgotten needs to know, at every control point, which *)
(* variable its processes are in.  IInv says all of this.                  *)
(***************************************************************************)
EXTENDS DesktopCrawler, TLAPS

Body == {"launch", "bind", "record", "setup", "visit", "close", "install2"}
Closing == {"quit", "return", "restore"}
HasProcesses == {"setup", "visit", "close", "install2", "arm2", "rearm", "assign"}
                  \union Closing

\* Which handler and which timer go with which control point.
SignalShape(w) ==
  /\ pc[w] \in {"idle", "install", "kill"} => timer[w] = "off" /\ handler[w] = "default"
  /\ pc[w] = "arm" => timer[w] = "off" /\ handler[w] = "task"
  /\ pc[w] \in Body \union {"assign"} => timer[w] \in {"off", "task"} /\ handler[w] = "task"
  /\ pc[w] = "arm2" => timer[w] \in {"off", "task"} /\ handler[w] = "closing"
  /\ pc[w] \in Closing => timer[w] \in {"off", "closing"} /\ handler[w] = "closing"
  /\ pc[w] = "rearm" => timer[w] \in {"off", "closing"} /\ handler[w] = "task"
  /\ pc[w] \in {"uninstall", "disarm"} => timer[w] \in {"off", "task"}
  /\ pc[w] = "uninstall" => timer[w] = "off" \/ handler[w] = "task"
  /\ pc[w] = "disarm" => handler[w] = "default"
  /\ saved[w] \in {"off", "task"}

\* A chunk has one worker, and is no longer in the queue nor reported.
JobShape(w) ==
  /\ pc[w] = "idle" <=> job[w] = NoChunk
  /\ job[w] \notin todo
  /\ \A v \in Worker : job[v] = job[w] /\ job[w] # NoChunk => v = w

\* The loop over the URLs stays within the chunk.
UrlShape(w) ==
  /\ pc[w] \in {"install", "arm", "launch", "bind", "record", "setup"} => visited[job[w]] = 0
  /\ pc[w] = "visit" => visited[job[w]] < NumUrls

\* Where the processes of a browser are known if no alarm hit the chunk.
ProcessShape(w) ==
  /\ exc[w] => pc[w] = "close" \/ (pc[w] \in {"restore", "rearm"} /\ job[w] \in fired)
  /\ job[w] \in up \ fired =>
       /\ pc[w] \in {"bind", "record", "uninstall", "disarm", "kill"} \union HasProcesses
       /\ pc[w] \in HasProcesses => procs[w]
       /\ pc[w] \in {"uninstall", "disarm", "kill"} => ret[w]

\* What became of a chunk no worker is at.
FateShape ==
  /\ \A c \in up : Running(c) \/ c \in fired
  /\ \A c \in Chunk : c \in todo \/ Running(c) \/ c \in reported \/ c \in fired
  /\ \A c \in todo : c \notin fired /\ visited[c] = 0

IInv ==
  /\ TypeOK
  /\ \A w \in Worker :
       SignalShape(w) /\ JobShape(w) /\ UrlShape(w) /\ ProcessShape(w)
  /\ FateShape

-----------------------------------------------------------------------------
(* IInv is inductive                                                       *)

LEMMA InitEstablishes == Init => IInv
BY ChunkAssumption, NumUrlsAssumption
DEF Init, IInv, TypeOK, PC, Body, Closing, HasProcesses, SignalShape, JobShape, UrlShape,
         ProcessShape, FateShape, Running

LEMMA TakePreserves ==
  ASSUME IInv, NEW w \in Worker, NEW c \in Chunk, TakeChunk(w, c)
  PROVE  IInv'
BY ChunkAssumption, NumUrlsAssumption, SMTT(60)
DEF TakeChunk, IInv, TypeOK, PC, Body, Closing, HasProcesses, SignalShape, JobShape, UrlShape,
         ProcessShape, FateShape, Running, Goto, pool, world, signals, locals

\* The list that get_child_processes returns holds the browser if it lives.
LEMMA RecordPreserves ==
  ASSUME IInv, NEW w \in Worker, RecordProcesses(w)
  PROVE  IInv'
<1> DEFINE known == job[w] \in up
<1>1. known \in BOOLEAN /\ procs' = [procs EXCEPT ![w] = known]
  BY DEF RecordProcesses
<1>2. known <=> job[w] \in up
  OBVIOUS
<1> HIDE DEF known
<1> QED
  BY <1>1, <1>2, ChunkAssumption, NumUrlsAssumption, SMTT(60)
  DEF RecordProcesses, IInv, TypeOK, PC, Body, Closing, HasProcesses, SignalShape, JobShape, UrlShape,
         ProcessShape, FateShape, Running, Goto, pool, world, signals, locals

\* The loop leaves the visited URLs of every other chunk alone.
LEMMA VisitPreserves ==
  ASSUME IInv, NEW w \in Worker, Visit(w)
  PROVE  IInv'
<1> USE ChunkAssumption, NumUrlsAssumption
<1>1. job[w] \in Chunk /\ visited[job[w]] \in 0..(NumUrls - 1)
  BY DEF Visit, Goto, IInv, TypeOK, JobShape, UrlShape
<1>2. visited' \in [Chunk -> 0..NumUrls]
  BY <1>1 DEF Visit, IInv, TypeOK
<1>3. exc' \in [Worker -> BOOLEAN] /\ \A v \in Worker : v # w => exc'[v] = exc[v]
  BY DEF Visit, IInv, TypeOK
<1>4. \A c \in Chunk : c # job[w] => visited'[c] = visited[c]
  BY DEF Visit, IInv, TypeOK
<1>5. TypeOK'
  BY <1>2, <1>3 DEF Visit, IInv, TypeOK, PC, Body, Closing, HasProcesses, SignalShape, JobShape, UrlShape,
         ProcessShape, FateShape, Running, Goto, pool, world, signals, locals
<1>6. ASSUME NEW v \in Worker
      PROVE  (SignalShape(v) /\ JobShape(v) /\ UrlShape(v) /\ ProcessShape(v))'
  BY <1>1, <1>3, <1>4, SMTT(60) DEF Visit, IInv, TypeOK, PC, Body, Closing, HasProcesses, SignalShape, JobShape, UrlShape,
         ProcessShape, FateShape, Running, Goto, pool, world, signals, locals
<1>7. FateShape'
  BY <1>1, <1>4, SMTT(60) DEF Visit, IInv, TypeOK, PC, Body, Closing, HasProcesses, SignalShape, JobShape, UrlShape,
         ProcessShape, FateShape, Running, Goto, pool, world, signals, locals
<1> QED
  BY <1>5, <1>6, <1>7 DEF IInv

\* Wherever the alarm lands, it moves the worker to a point whose shape holds.
LEMMA AlarmPreserves ==
  ASSUME IInv, NEW w \in Worker, Alarm(w)
  PROVE  IInv'
<1> USE ChunkAssumption, NumUrlsAssumption
<1> USE DEF IInv, TypeOK, PC, Body, Closing, HasProcesses, SignalShape, JobShape, UrlShape,
         ProcessShape, FateShape, Running, Goto, pool, world, signals, locals
<1>1. CASE CaughtInRunTask(w)
  BY <1>1, SMTT(60) DEF CaughtInRunTask, Alarm
<1>2. CASE CaughtAfterClosingWindow(w)
  BY <1>2, SMTT(60) DEF CaughtAfterClosingWindow, Alarm
<1>3. CASE CaughtWhileQuitting(w)
  BY <1>3, SMTT(60) DEF CaughtWhileQuitting, Alarm
<1>4. CASE ReplacesReturn(w)
  BY <1>4, SMTT(60) DEF ReplacesReturn, Alarm
<1>5. CASE EscapesRunTask(w)
  BY <1>5, SMTT(60) DEF EscapesRunTask, Alarm
<1> QED
  BY <1>1, <1>2, <1>3, <1>4, <1>5 DEF Alarm

LEMMA NextPreserves == IInv /\ [Next]_vars => IInv'
<1> SUFFICES ASSUME IInv, [Next]_vars
             PROVE  IInv'
  OBVIOUS
<1> USE ChunkAssumption, NumUrlsAssumption
<1> USE DEF IInv, TypeOK, PC, Body, Closing, HasProcesses, SignalShape, JobShape, UrlShape,
         ProcessShape, FateShape, Running, Goto, pool, world, signals, locals
<1>1. CASE UNCHANGED vars
  BY <1>1 DEF vars
<1>2. ASSUME NEW w \in Worker, NEW c \in Chunk, TakeChunk(w, c) PROVE IInv'
  BY <1>2, TakePreserves
<1>3. ASSUME NEW w \in Worker, RecordProcesses(w) PROVE IInv'
  BY <1>3, RecordPreserves
<1>4. ASSUME NEW w \in Worker, Visit(w) PROVE IInv'
  BY <1>4, VisitPreserves
<1>5. ASSUME NEW w \in Worker, Alarm(w) PROVE IInv'
  BY <1>5, AlarmPreserves
<1>6. ASSUME NEW w \in Worker, InstallHandler(w) PROVE IInv'
  BY <1>6, SMTT(60) DEF InstallHandler
<1>7. ASSUME NEW w \in Worker, ArmTimer(w) PROVE IInv'
  BY <1>7, SMTT(60) DEF ArmTimer
<1>8. ASSUME NEW w \in Worker, Launch(w) PROVE IInv'
  BY <1>8, SMTT(60) DEF Launch
<1>9. ASSUME NEW w \in Worker, BindDriver(w) PROVE IInv'
  BY <1>9, SMTT(60) DEF BindDriver
<1>10. ASSUME NEW w \in Worker, LaunchFails(w) PROVE IInv'
  BY <1>10, SMTT(60) DEF LaunchFails
<1>11. ASSUME NEW w \in Worker, SetUp(w) PROVE IInv'
  BY <1>11, SMTT(60) DEF SetUp
<1>12. ASSUME NEW w \in Worker, CloseWindow(w) PROVE IInv'
  BY <1>12, SMTT(60) DEF CloseWindow
<1>13. ASSUME NEW w \in Worker, CloseWindowFails(w) PROVE IInv'
  BY <1>13, SMTT(60) DEF CloseWindowFails
<1>14. ASSUME NEW w \in Worker, InstallClosingHandler(w) PROVE IInv'
  BY <1>14, SMTT(60) DEF InstallClosingHandler
<1>15. ASSUME NEW w \in Worker, ArmClosingTimer(w) PROVE IInv'
  BY <1>15, SMTT(60) DEF ArmClosingTimer
<1>16. ASSUME NEW w \in Worker, Quit(w) PROVE IInv'
  BY <1>16, SMTT(60) DEF Quit
<1>17. ASSUME NEW w \in Worker, Return(w) PROVE IInv'
  BY <1>17, SMTT(60) DEF Return
<1>18. ASSUME NEW w \in Worker, RestoreHandler(w) PROVE IInv'
  BY <1>18, SMTT(60) DEF RestoreHandler
<1>19. ASSUME NEW w \in Worker, RearmTimer(w) PROVE IInv'
  BY <1>19, SMTT(60) DEF RearmTimer
<1>20. ASSUME NEW w \in Worker, AssignProcesses(w) PROVE IInv'
  BY <1>20, SMTT(60) DEF AssignProcesses
<1>21. ASSUME NEW w \in Worker, UninstallHandler(w) PROVE IInv'
  BY <1>21, SMTT(60) DEF UninstallHandler
<1>22. ASSUME NEW w \in Worker, DisarmTimer(w) PROVE IInv'
  BY <1>22, SMTT(60) DEF DisarmTimer
<1>23. ASSUME NEW w \in Worker, KillAndReport(w) PROVE IInv'
  BY <1>23, SMTT(60) DEF KillAndReport, EndCall
<1>24. ASSUME NEW w \in Worker, AlarmEndsWorker(w) PROVE IInv'
  BY <1>24, SMTT(60) DEF AlarmEndsWorker, EndCall
<1>25. ASSUME NEW w \in Worker, BrowserCrashes(w) PROVE IInv'
  BY <1>25, SMTT(60) DEF BrowserCrashes
<1> QED
  BY <1>1, <1>2, <1>3, <1>4, <1>5, <1>6, <1>7, <1>8, <1>9, <1>10, <1>11, <1>12, <1>13, <1>14, <1>15, <1>16, <1>17, <1>18, <1>19, <1>20, <1>21, <1>22, <1>23, <1>24, <1>25 DEF Next, Step

-----------------------------------------------------------------------------
(* The invariants                                                          *)

THEOREM Invariance == Spec => []IInv
BY InitEstablishes, NextPreserves, PTL DEF Spec

\* Every variable keeps its type; in particular the loop never counts beyond
\* the URLs of the chunk.
THEOREM TypeCorrect == Spec => []TypeOK
<1>1. IInv => TypeOK
  BY DEF IInv
<1> QED
  BY <1>1, Invariance, PTL

\* The timeout of one chunk never reaches the next chunk, nor the killing of
\* the processes of its own.
THEOREM QuietBetweenChunks == Spec => []SignalsQuiet
<1>1. IInv => SignalsQuiet
  BY DEF IInv, SignalShape, SignalsQuiet
<1> QED
  BY <1>1, Invariance, PTL

\* The two timeouts of a worker are properly nested.
THEOREM TimersAreNested == Spec => []TimersNest
<1>1. IInv => TimersNest
  BY DEF IInv, TypeOK, PC, Body, Closing, SignalShape, TimersNest
<1> QED
  BY <1>1, Invariance, PTL

-----------------------------------------------------------------------------
(* The crawler implements ChunkPool                                        *)

RunningChunks == {c \in Chunk : Running(c)}

LEMMA TakeRuns ==
  ASSUME IInv, NEW w \in Worker, NEW c \in Chunk, TakeChunk(w, c)
  PROVE  RunningChunks' = RunningChunks \union {c}
<1>1. job[w] = NoChunk /\ job' = [job EXCEPT ![w] = c] /\ job \in [Worker -> Chunk \union {NoChunk}]
  BY DEF TakeChunk, Goto, IInv, TypeOK, JobShape
<1> QED
  BY <1>1, ChunkAssumption DEF RunningChunks, Running

LEMMA EndStopsRunning ==
  ASSUME IInv, NEW w \in Worker, EndCall(w), job[w] # NoChunk
  PROVE  RunningChunks' = RunningChunks \ {job[w]}
<1>1. job' = [job EXCEPT ![w] = NoChunk] /\ job \in [Worker -> Chunk \union {NoChunk}]
  BY DEF EndCall, IInv, TypeOK
<1>2. \A v \in Worker : job[v] = job[w] => v = w
  BY DEF IInv, JobShape
<1> QED
  BY <1>1, <1>2, ChunkAssumption DEF RunningChunks, Running

LEMMA StepRefines ==
  ASSUME IInv, [Next]_vars
  PROVE  [Pool!Next]_(Pool!vars)
<1> USE ChunkAssumption
<1>1. ASSUME NEW w \in Worker, pc[w] # "idle"
      PROVE  job[w] \in Chunk /\ job[w] # NoChunk /\ job[w] \in RunningChunks
  BY <1>1 DEF IInv, TypeOK, JobShape, RunningChunks, Running
<1>2. ASSUME UNCHANGED job PROVE RunningChunks' = RunningChunks
  BY <1>2 DEF RunningChunks, Running
<1>3. CASE UNCHANGED vars
  BY <1>2, <1>3 DEF vars, pool, world, Pool!vars, RunningChunks
<1>4. ASSUME NEW w \in Worker, NEW c \in Chunk, TakeChunk(w, c) PROVE Pool!Take(c)
  BY <1>4, TakeRuns DEF TakeChunk, world, Pool!Take, RunningChunks
<1>5. ASSUME NEW w \in Worker, Launch(w) PROVE job[w] \in Chunk /\ Pool!StartBrowser(job[w])
  BY <1>1, <1>2, <1>5 DEF Launch, Goto, pool, Pool!StartBrowser, RunningChunks
<1>6. ASSUME NEW w \in Worker, LaunchFails(w) PROVE job[w] \in Chunk /\ Pool!StopBrowser(job[w])
  BY <1>1, <1>2, <1>6 DEF LaunchFails, pool, Pool!StopBrowser, RunningChunks
<1>7. ASSUME NEW w \in Worker, BrowserCrashes(w) PROVE job[w] \in Chunk /\ Pool!StopBrowser(job[w])
  <2>1. pc[w] # "idle"
    BY <1>7, ChunkAssumption DEF BrowserCrashes, IInv, TypeOK, JobShape
  <2> QED
    BY <1>1, <1>2, <1>7, <2>1 DEF BrowserCrashes, pool, Pool!StopBrowser, RunningChunks
<1>8. ASSUME NEW w \in Worker, Quit(w)
      PROVE  job[w] \in Chunk /\ (Pool!StopBrowser(job[w]) \/ UNCHANGED Pool!vars)
  BY <1>1, <1>2, <1>8 DEF Quit, Goto, pool, Pool!StopBrowser, Pool!vars, RunningChunks
<1>9. ASSUME NEW w \in Worker, Alarm(w) PROVE job[w] \in Chunk /\ Pool!Interrupt(job[w])
  <2>1. pc[w] # "idle"
    BY <1>9 DEF Alarm, CaughtInRunTask, CaughtAfterClosingWindow, CaughtWhileQuitting,
                ReplacesReturn, EscapesRunTask, Goto
  <2> QED
    BY <1>1, <1>2, <1>9, <2>1 DEF Alarm, pool, Pool!Interrupt, RunningChunks
<1>10. ASSUME NEW w \in Worker, AlarmEndsWorker(w) PROVE job[w] \in Chunk /\ Pool!Lose(job[w])
  <2>1. pc[w] # "idle" /\ EndCall(w)
    BY <1>10 DEF AlarmEndsWorker
  <2>2. RunningChunks' = RunningChunks \ {job[w]}
    BY <1>1, <2>1, EndStopsRunning
  <2> QED
    BY <1>1, <1>10, <2>1, <2>2 DEF AlarmEndsWorker, EndCall, Pool!Lose, RunningChunks
\* At the end of an undisturbed chunk, worker_function knows the processes.
<1>11. ASSUME NEW w \in Worker, KillAndReport(w) PROVE job[w] \in Chunk /\ Pool!Report(job[w])
  <2>1. pc[w] # "idle" /\ EndCall(w)
    BY <1>11 DEF KillAndReport
  <2>2. RunningChunks' = RunningChunks \ {job[w]}
    BY <1>1, <2>1, EndStopsRunning
  <2>3. job[w] \in up' => job[w] \in fired
    BY <1>11 DEF KillAndReport, IInv, ProcessShape
  <2> QED
    BY <1>1, <1>11, <2>1, <2>2, <2>3 DEF KillAndReport, EndCall, Pool!Report, RunningChunks
\* All other steps are invisible to ChunkPool.
<1>12. ASSUME NEW w \in Worker,
              \/ InstallHandler(w) \/ ArmTimer(w) \/ BindDriver(w) \/ RecordProcesses(w)
              \/ SetUp(w) \/ Visit(w) \/ CloseWindow(w) \/ CloseWindowFails(w)
              \/ InstallClosingHandler(w) \/ ArmClosingTimer(w) \/ Return(w)
              \/ RestoreHandler(w) \/ RearmTimer(w) \/ AssignProcesses(w)
              \/ UninstallHandler(w) \/ DisarmTimer(w)
       PROVE  UNCHANGED Pool!vars
  BY <1>2, <1>12
  DEF InstallHandler, ArmTimer, BindDriver, RecordProcesses, SetUp, Visit, CloseWindow,
      CloseWindowFails, InstallClosingHandler, ArmClosingTimer, Return, RestoreHandler,
      RearmTimer, AssignProcesses, UninstallHandler, DisarmTimer, pool, world, Pool!vars,
      RunningChunks
<1> QED
  BY <1>3, <1>4, <1>5, <1>6, <1>7, <1>8, <1>9, <1>10, <1>11, <1>12
  DEF Next, Step, Pool!Next

\* A chunk is reported or lost exactly once, and one that no alarm hit is not
\* lost and leaves no browser behind.
THEOREM Refinement == Spec => ImplementsChunkPool
<1>1. Init => Pool!Init
  BY ChunkAssumption DEF Init, Pool!Init, Running
<1>2. IInv /\ [Next]_vars => [Pool!Next]_(Pool!vars)
  BY StepRefines
<1> QED
  BY <1>1, <1>2, Invariance, PTL DEF Spec, ImplementsChunkPool, Pool!Spec
=============================================================================
