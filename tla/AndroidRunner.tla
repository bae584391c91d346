---------------------------- MODULE AndroidRunner ----------------------------
(***************************************************************************)
(* The runner for Android emulators (_hp/hp/tools/crawler/android_intent.py) *)
(* together with what ends its tests: save_result in the test page          *)
(* (_hp/resources/store_results.sub.js) and the notification the server     *)
(* sends through Postgres (_hp/server/notify_runner_clients.py).            *)
(*                                                                         *)
(* main lists what has to be visited and gives each emulator a share of the *)
(* list.  A worker per emulator visits its share: for each entry it listens *)
(* on the channel all workers share, sends the URL to the browser with an   *)
(* intent and waits for the notification with the run_id of the entry, for  *)
(* at most as long as SignalTimeout allows.  The number of an entry stands  *)
(* for its run_id, a fresh UUID.  A page that was not waited for long       *)
(* enough stays open and goes on beside the next one.                       *)
(*                                                                         *)
(* The exception of the alarm is no Exception: in run_test it is caught     *)
(* outside of the with block only.                                         *)
(***************************************************************************)
EXTENDS Integers, Sequences

CONSTANTS
  NumBrowsers,          \* length of browser_list
  NumTests,             \* bound on the URLs of one browser
  RepeatTimes,          \* --repeat
  NumDevices,           \* --num_devices
  RestartAfter,         \* runs until an emulator is restarted, 100 in the code
  AutoRestart           \* --auto_restart

ASSUME SizesAssumption ==
  /\ NumBrowsers \in Nat /\ NumTests \in Nat
  /\ RepeatTimes \in Nat /\ NumDevices \in Nat
ASSUME RestartAssumption == RestartAfter \in Nat \ {0}
ASSUME AutoRestartAssumption == AutoRestart \in BOOLEAN

Device == 1..NumDevices

VARIABLES
  main,                 \* progress of main
  listed,               \* browsers of browser_list that have been listed
  urlList,              \* url_list
  appList,              \* app_list
  devices,              \* emulators that came up
  pc,                   \* pc[d]: where the worker of emulator d is
  work,                 \* work[d]: entries the worker has not come to yet
  current,              \* current[d]: the entry it has come to
  runTimes,             \* run_times
  timer,                \* timer[d]: the interval timer of the worker runs
  handler,              \* handler[d]: what SIGALRM does in it
  oldHandler,           \* old_handler of its SignalTimeout
  emulator,             \* emulator[d]: emulator d runs
  listening,            \* listening[d]: the worker's connection listens
  inbox,                \* inbox[d]: notifications it has not yet looked at
  page,                 \* page[k]: how far the test page of entry k is
  open,                 \* entries whose page is open in a running emulator
  ended                 \* ended[k]: what ended the run of entry k

lists == <<main, listed, urlList, appList, devices>>
signals == <<timer, handler, oldHandler>>
pages == <<page, open>>
vars == <<lists, pc, work, current, runTimes, signals, emulator, listening,
          inbox, pages, ended>>

Entries == DOMAIN appList

TypeOK ==
  /\ main \in {"listing", "starting", "running", "failed"}
  /\ listed \in 0..NumBrowsers
  /\ urlList \in Seq([browser_id : Nat, test : Nat])
  /\ appList \in Seq([app : Nat, url : [browser_id : Nat, test : Nat]])
  /\ devices \in 0..NumDevices
  /\ pc \in [Device -> {"off", "next", "connect", "intent", "wait", "exit",
                        "disarm", "count", "done", "failed", "dead"}]
  /\ work \in [Device -> SUBSET Entries]
  /\ current \in [Device -> Entries \union {0}]
  /\ runTimes \in [Device -> Nat]
  /\ \A d \in Device : AutoRestart => runTimes[d] <= RestartAfter
  /\ timer \in [Device -> BOOLEAN]
  /\ handler \in [Device -> {"default", "custom"}]
  /\ oldHandler \in [Device -> {"default", "custom"}]
  /\ emulator \in [Device -> BOOLEAN]
  /\ listening \in [Device -> BOOLEAN]
  /\ inbox \in [Device -> SUBSET Entries]
  /\ page \in [Entries -> {"none", "testing", "saving", "saved", "notifying",
                           "notified", "silent"}]
  /\ open \subseteq Entries
  /\ ended \in [Entries -> {"no", "notification", "alarm", "error"}]

Init ==
  /\ main = "listing"
  /\ listed = 0
  /\ urlList = <<>>
  /\ appList = <<>>
  /\ devices = 0
  /\ pc = [d \in Device |-> "off"]
  /\ work = [d \in Device |-> {}]
  /\ current = [d \in Device |-> 0]
  /\ runTimes = [d \in Device |-> 0]
  /\ timer = [d \in Device |-> FALSE]
  /\ handler = [d \in Device |-> "default"]
  /\ oldHandler = [d \in Device |-> "default"]
  /\ emulator = [d \in Device |-> FALSE]
  /\ listening = [d \in Device |-> FALSE]
  /\ inbox = [d \in Device |-> {}]
  /\ page = [k \in {} |-> "none"]
  /\ open = {}
  /\ ended = [k \in {} |-> "no"]

-----------------------------------------------------------------------------
(* main                                                                    *)

\* get_tests for browser b, or its part of url_dict: n URLs.
UrlsOf(b, n) == [i \in 1..n |-> [browser_id |-> b, test |-> i]]

\* The URLs, RepeatTimes over, to be opened in the app of browser b.
AppsFor(b, urls) ==
  [k \in 1..(RepeatTimes * Len(urls)) |->
     [app |-> b, url |-> urls[((k - 1) % Len(urls)) + 1]]]

\* One iteration of the loop over browser_list.
ListBrowser ==
  /\ main = "listing"
  /\ listed < NumBrowsers
  /\ \E n \in 0..NumTests :
       urlList' = urlList \o UrlsOf(listed + 1, n)
  /\ appList' = appList \o AppsFor(listed + 1, urlList')
  /\ listed' = listed + 1
  /\ page' = [k \in DOMAIN appList' |-> "none"]
  /\ ended' = [k \in DOMAIN appList' |-> "no"]
  /\ UNCHANGED <<main, devices, pc, work, current, runTimes, signals, emulator,
                 listening, inbox, open>>

\* Emulators of an earlier run are stopped, as often as it takes.
OldEmulatorsGone ==
  /\ main = "listing"
  /\ listed = NumBrowsers
  /\ main' = "starting"
  /\ UNCHANGED <<listed, urlList, appList, devices, pc, work, current, runTimes,
                 signals, emulator, listening, inbox, pages, ended>>

\* A mutant of Owner: equal shares, of the quotient.
OwnerWithoutRemainder(k, n) ==
  IF Len(appList) < n THEN k ELSE ((k - 1) \div (Len(appList) \div n)) + 1

\* np.array_split among n: the first shares are longer by one if need be.
Owner(k, n) ==
  LET size == Len(appList) \div n
      long == (Len(appList) % n) * (size + 1)
  IN  IF k <= long THEN ((k - 1) \div (size + 1)) + 1
      ELSE (Len(appList) % n) + ((k - 1 - long) \div size) + 1

\* Emulators are started, not all may come up, and run_test is mapped over them.
StartWorkers ==
  /\ main = "starting"
  /\ \E n \in 1..NumDevices :
       /\ main' = "running"
       /\ devices' = n
       /\ pc' = [d \in Device |-> IF d <= n THEN "next" ELSE "off"]
       /\ emulator' = [d \in Device |-> d <= n]
       /\ work' = [d \in Device |-> {k \in Entries : d <= n /\ Owner(k, n) = d}]
  /\ UNCHANGED <<listed, urlList, appList, current, runTimes, signals, listening,
                 inbox, pages, ended>>

\* No emulator comes up: array_split raises an exception.
NoDevices ==
  /\ main = "starting"
  /\ main' = "failed"
  /\ UNCHANGED <<listed, urlList, appList, devices, pc, work, current, runTimes,
                 signals, emulator, listening, inbox, pages, ended>>

-----------------------------------------------------------------------------
(* run_test                                                                *)

\* A mutant of BeginTest: the with block sets no timer.
BeginWithoutTimer(d) ==
  /\ pc[d] = "next"
  /\ \E k \in work[d] :
       /\ \A j \in work[d] : k <= j
       /\ current' = [current EXCEPT ![d] = k]
       /\ work' = [work EXCEPT ![d] = @ \ {k}]
  /\ runTimes' = [runTimes EXCEPT ![d] = @ + 1]
  /\ handler' = [handler EXCEPT ![d] = "custom"]
  /\ oldHandler' = [oldHandler EXCEPT ![d] = handler[d]]
  /\ pc' = [pc EXCEPT ![d] = "connect"]
  /\ UNCHANGED <<lists, timer, emulator, listening, inbox, pages, ended>>

\* The next entry, and SignalTimeout.__enter__.
BeginTest(d) ==
  /\ pc[d] = "next"
  /\ \E k \in work[d] :
       /\ \A j \in work[d] : k <= j
       /\ current' = [current EXCEPT ![d] = k]
       /\ work' = [work EXCEPT ![d] = @ \ {k}]
  /\ runTimes' = [runTimes EXCEPT ![d] = @ + 1]
  /\ handler' = [handler EXCEPT ![d] = "custom"]
  /\ oldHandler' = [oldHandler EXCEPT ![d] = handler[d]]
  /\ timer' = [timer EXCEPT ![d] = TRUE]
  /\ pc' = [pc EXCEPT ![d] = "connect"]
  /\ UNCHANGED <<lists, emulator, listening, inbox, pages, ended>>

\* A mutant of Listen: without autocommit, LISTEN has no effect yet.
ListenUncommitted(d) ==
  /\ pc[d] = "connect"
  /\ inbox' = [inbox EXCEPT ![d] = {}]
  /\ pc' = [pc EXCEPT ![d] = "intent"]
  /\ UNCHANGED <<lists, work, current, runTimes, signals, emulator, listening,
                 pages, ended>>

\* connect and LISTEN.
Listen(d) ==
  /\ pc[d] = "connect"
  /\ listening' = [listening EXCEPT ![d] = TRUE]
  /\ inbox' = [inbox EXCEPT ![d] = {}]
  /\ pc' = [pc EXCEPT ![d] = "intent"]
  /\ UNCHANGED <<lists, work, current, runTimes, signals, emulator, pages, ended>>

\* adb am start; nobody looks whether the browser opens the page.
SendIntent(d) ==
  /\ pc[d] = "intent"
  /\ \/ /\ emulator[d]
        /\ page' = [page EXCEPT ![current[d]] = "testing"]
        /\ open' = open \union {current[d]}
     \/ UNCHANGED <<page, open>>
  /\ pc' = [pc EXCEPT ![d] = "wait"]
  /\ UNCHANGED <<lists, work, current, runTimes, signals, emulator, listening,
                 inbox, ended>>

\* The run of the current entry is over, by reason of cause.
EndRun(d, cause) ==
  /\ ended' = [ended EXCEPT ![current[d]] = cause]
  /\ listening' = [listening EXCEPT ![d] = FALSE]
  /\ pc' = [pc EXCEPT ![d] = "exit"]

\* A mutant of ReceiveOwn: any notification on the channel will do.
ReceiveAny(d) ==
  /\ pc[d] = "wait"
  /\ inbox[d] # {}
  /\ inbox' = [inbox EXCEPT ![d] = {}]
  /\ EndRun(d, "notification")
  /\ UNCHANGED <<lists, work, current, runTimes, signals, emulator, pages>>

\* A notification of the run.
ReceiveOwn(d) ==
  /\ pc[d] = "wait"
  /\ current[d] \in inbox[d]
  /\ inbox' = [inbox EXCEPT ![d] = {}]
  /\ EndRun(d, "notification")
  /\ UNCHANGED <<lists, work, current, runTimes, signals, emulator, pages>>

\* A notification of another run.
ReceiveOther(d) ==
  /\ pc[d] = "wait"
  /\ \E k \in inbox[d] \ {current[d]} :
       inbox' = [inbox EXCEPT ![d] = @ \ {k}]
  /\ UNCHANGED <<lists, pc, work, current, runTimes, signals, emulator, listening,
                 pages, ended>>

\* An Exception: the database cannot be reached, or the connection is lost.
ConnectionFails(d) ==
  /\ pc[d] \in {"connect", "wait"}
  /\ inbox' = [inbox EXCEPT ![d] = {}]
  /\ EndRun(d, "error")
  /\ UNCHANGED <<lists, work, current, runTimes, signals, emulator, pages>>

\* SignalTimeout.cancel: the handler first, then the timer.
RestoreHandler(d) ==
  /\ pc[d] = "exit"
  /\ handler' = [handler EXCEPT ![d] = oldHandler[d]]
  /\ pc' = [pc EXCEPT ![d] = "disarm"]
  /\ UNCHANGED <<lists, work, current, runTimes, timer, oldHandler, emulator,
                 listening, inbox, pages, ended>>

DisarmTimer(d) ==
  /\ pc[d] = "disarm"
  /\ timer' = [timer EXCEPT ![d] = FALSE]
  /\ pc' = [pc EXCEPT ![d] = "count"]
  /\ UNCHANGED <<lists, work, current, runTimes, handler, oldHandler, emulator,
                 listening, inbox, pages, ended>>

\* The timer fires and timeout_handler raises CustomTimeout: in the with block
\* that leaves the block, in cancel it leaves cancel.
Alarm(d) ==
  /\ timer[d] /\ handler[d] = "custom"
  /\ timer' = [timer EXCEPT ![d] = FALSE]
  /\ \/ /\ pc[d] \in {"connect", "intent", "wait"}
        /\ inbox' = [inbox EXCEPT ![d] = {}]
        /\ EndRun(d, "alarm")
     \/ /\ pc[d] \in {"exit", "disarm"}
        /\ pc' = [pc EXCEPT ![d] = "count"]
        /\ UNCHANGED <<listening, inbox, ended>>
  /\ UNCHANGED <<lists, work, current, runTimes, handler, oldHandler, emulator, pages>>

\* In cancel the timer may fire when the default handler, which ends the
\* process, is back.
AlarmEndsWorker(d) ==
  /\ timer[d] /\ handler[d] = "default"
  /\ timer' = [timer EXCEPT ![d] = FALSE]
  /\ pc' = [pc EXCEPT ![d] = "dead"]
  /\ UNCHANGED <<lists, work, current, runTimes, handler, oldHandler, emulator,
                 listening, inbox, pages, ended>>

\* The pages in an emulator are gone when it is killed.
PagesOn(d) == {k \in Entries : Owner(k, devices) = d}

GoOn(d) ==
  /\ pc[d] = "count"
  /\ ~(runTimes[d] >= RestartAfter /\ AutoRestart)
  /\ pc' = [pc EXCEPT ![d] = "next"]
  /\ UNCHANGED <<lists, work, current, runTimes, signals, emulator, listening,
                 inbox, pages, ended>>

\* A mutant of RestartEmulator: run_times is not reset.
RestartEveryTime(d) ==
  /\ pc[d] = "count"
  /\ runTimes[d] >= RestartAfter /\ AutoRestart
  /\ open' = open \ PagesOn(d)
  /\ \E up \in BOOLEAN : emulator' = [emulator EXCEPT ![d] = up]
  /\ pc' = [pc EXCEPT ![d] = "next"]
  /\ UNCHANGED <<lists, work, current, runTimes, signals, listening, inbox, page, ended>>

\* force_stop_emulators and start_emulator_by_avd_name, which gives up waiting
\* for the emulator after a while, or fails if adb does.
RestartEmulator(d) ==
  /\ pc[d] = "count"
  /\ runTimes[d] >= RestartAfter /\ AutoRestart
  /\ runTimes' = [runTimes EXCEPT ![d] = 0]
  /\ open' = open \ PagesOn(d)
  /\ \E up \in BOOLEAN : emulator' = [emulator EXCEPT ![d] = up]
  /\ pc' \in {[pc EXCEPT ![d] = "next"], [pc EXCEPT ![d] = "failed"]}
  /\ UNCHANGED <<lists, work, current, signals, listening, inbox, page, ended>>

\* The end of run_test.
StopEmulator(d) ==
  /\ pc[d] = "next"
  /\ work[d] = {}
  /\ open' = open \ PagesOn(d)
  /\ emulator' = [emulator EXCEPT ![d] = FALSE]
  /\ pc' = [pc EXCEPT ![d] = "done"]
  /\ UNCHANGED <<lists, work, current, runTimes, signals, listening, inbox, page, ended>>

-----------------------------------------------------------------------------
(* A test page, and what the server does for it                            *)

\* The tests are complete and save_result posts the results.
CompleteTests(k) ==
  /\ k \in open /\ page[k] = "testing"
  /\ page' = [page EXCEPT ![k] = "saving"]
  /\ UNCHANGED <<lists, pc, work, current, runTimes, signals, emulator, listening,
                 inbox, open, ended>>

\* The server stores them, or answers with an error, which the page does not
\* look at.
StoreResults(k) ==
  /\ page[k] = "saving"
  /\ page' = [page EXCEPT ![k] = "saved"]
  /\ UNCHANGED <<lists, pc, work, current, runTimes, signals, emulator, listening,
                 inbox, open, ended>>

\* The answer has come: save_result asks for the notification.
RequestNotify(k) ==
  /\ k \in open /\ page[k] = "saved"
  /\ page' = [page EXCEPT ![k] = "notifying"]
  /\ UNCHANGED <<lists, pc, work, current, runTimes, signals, emulator, listening,
                 inbox, open, ended>>

\* pg_notify reaches every connection that listens, or fails.
Notify(k) ==
  /\ page[k] = "notifying"
  /\ \/ /\ page' = [page EXCEPT ![k] = "notified"]
        /\ inbox' = [d \in Device |-> IF listening[d] THEN inbox[d] \union {k}
                                      ELSE inbox[d]]
     \/ /\ page' = [page EXCEPT ![k] = "silent"]
        /\ UNCHANGED inbox
  /\ UNCHANGED <<lists, pc, work, current, runTimes, signals, emulator, listening,
                 open, ended>>

-----------------------------------------------------------------------------

Worker(d) ==
  \/ BeginTest(d)
  \/ Listen(d)
  \/ SendIntent(d)
  \/ ReceiveOwn(d)
  \/ ReceiveOther(d)
  \/ ConnectionFails(d)
  \/ RestoreHandler(d)
  \/ DisarmTimer(d)
  \/ Alarm(d)
  \/ AlarmEndsWorker(d)
  \/ GoOn(d)
  \/ RestartEmulator(d)
  \/ StopEmulator(d)

Page(k) ==
  \/ CompleteTests(k)
  \/ StoreResults(k)
  \/ RequestNotify(k)
  \/ Notify(k)

Next ==
  \/ ListBrowser
  \/ OldEmulatorsGone
  \/ StartWorkers
  \/ NoDevices
  \/ \E d \in Device : Worker(d)
  \/ \E k \in Entries : Page(k)

\* The worker goes on where it waits for nobody, and its timer fires.  Nothing
\* is assumed of the database, the browser and the pages.
Fairness ==
  /\ WF_vars(StartWorkers \/ NoDevices)
  /\ \A d \in Device :
       /\ WF_vars(BeginTest(d) \/ GoOn(d) \/ RestartEmulator(d) \/ StopEmulator(d))
       /\ WF_vars(RestoreHandler(d) \/ DisarmTimer(d))
       /\ WF_vars(Alarm(d))

Spec == Init /\ [][Next]_vars

FairSpec == Spec /\ Fairness

-----------------------------------------------------------------------------
(* Properties                                                              *)

\* The notification that ends a run is that of its own page, which has its
\* answer from the server by then, although all workers share one channel and
\* the pages of runs given up may still send theirs.
EndedByOwnPage ==
  \A k \in Entries : ended[k] = "notification" => page[k] = "notified"

\* A worker does not miss the notification it waits for: it listens before the
\* page is opened.
NotificationArrives ==
  \A d \in Device :
    /\ pc[d] = "wait"
    /\ page[current[d]] = "notified"
    => current[d] \in inbox[d]

\* When every worker has come to its end, every entry of app_list has been run.
EveryEntryRun ==
  /\ main = "running"
  /\ \A d \in 1..devices : pc[d] = "done"
  => \A k \in Entries : ended[k] # "no"

\* Once main has seen that no emulator runs, which it may wait for in vain, every
\* worker comes to its end, whatever the pages and the database do.
WorkersEnd ==
  main \in {"starting", "running"} ~>
    /\ main # "starting"
    /\ \A d \in 1..devices : pc[d] \in {"done", "failed", "dead"}

\* get_tests documents its browser_id as the requested browser, filled in the
\* URLs: the results a page has posted name the browser that has run the test.
StoredUnderOwnBrowser ==
  \A k \in Entries :
    page[k] \notin {"none", "testing"} =>
      appList[k].url.browser_id = appList[k].app
=============================================================================
