------------------------- MODULE AndroidRunnerProofs -------------------------
(***************************************************************************)
(* Proofs about AndroidRunner, for any number of browsers, tests, repeats  *)
(* and emulators.                                                          *)
(*                                                                         *)
(* Nothing needs to be known of the shares but that an entry has one owner: *)
(* the page of an entry is opened by its owner only, after it has begun to *)
(* listen, and what an inbox holds are runs whose page has been served.    *)
(*                                                                         *)
(* That every entry is run also needs that its owner is an emulator that   *)
(* is up (OwnerExists), that the owner has the entry before it, in a test  *)
(* or behind it (Reached), and that an alarm in a test ends the test, not  *)
(* the worker (Handled).                                                   *)
(***************************************************************************)
EXTENDS AndroidRunner, TLAPS

\* The owner of an entry, as a value.
Owners == [k \in Entries |-> Owner(k, devices)]

\* Until the workers start there is nothing but lists.
BeforeStart ==
  main # "running" =>
    /\ \A d \in Device : /\ pc[d] = "off" /\ work[d] = {} /\ current[d] = 0
                         /\ inbox[d] = {} /\ ~listening[d] /\ runTimes[d] = 0
    /\ \A k \in Entries : page[k] = "none" /\ ended[k] = "no"
    /\ open = {}

\* A worker comes to its own entries only, and no page is opened before.
Shares ==
  \A d \in Device :
    /\ \A k \in work[d] : Owners[k] = d /\ page[k] = "none" /\ ended[k] = "no"
    /\ current[d] \notin work[d]
    /\ current[d] # 0 => Owners[current[d]] = d
    /\ pc[d] \in {"connect", "intent", "wait"} => current[d] # 0
    /\ pc[d] \in {"connect", "intent"} => page[current[d]] = "none"

\* The connection of a worker.
Connection ==
  \A d \in Device :
    /\ pc[d] \in {"intent", "wait"} => listening[d]
    /\ \A k \in inbox[d] : page[k] = "notified"

\* run_times is reset in time.
Restarts ==
  \A d \in Device : AutoRestart /\ pc[d] \in {"off", "next"} => runTimes[d] < RestartAfter

\* The timer runs inside the with block only.
Signals ==
  \A d \in Device : timer[d] => pc[d] \in {"connect", "intent", "wait", "exit", "disarm"}

IInv ==
  /\ TypeOK /\ BeforeStart /\ Shares /\ Connection /\ Restarts /\ Signals
  /\ NotificationArrives /\ EndedByOwnPage

LEMMA InitEstablishes == Init => IInv
<1> SUFFICES ASSUME Init PROVE IInv
  OBVIOUS
<1> USE SizesAssumption, RestartAssumption DEF Init, Device, Entries
<1>1. TypeOK
  BY DEF TypeOK
<1>2. BeforeStart /\ Shares /\ Connection /\ Restarts /\ Signals
  BY DEF BeforeStart, Shares, Connection, Restarts, Signals
<1>3. NotificationArrives /\ EndedByOwnPage
  BY DEF NotificationArrives, EndedByOwnPage
<1> QED
  BY <1>1, <1>2, <1>3 DEF IInv

-----------------------------------------------------------------------------
(* main                                                                    *)

LEMMA UrlsTyped ==
  ASSUME NEW b \in Nat, NEW n \in Nat
  PROVE  UrlsOf(b, n) \in Seq([browser_id : Nat, test : Nat])
BY DEF UrlsOf

LEMMA AppsTyped ==
  ASSUME NEW b \in Nat, NEW urls \in Seq([browser_id : Nat, test : Nat])
  PROVE  AppsFor(b, urls) \in Seq([app : Nat, url : [browser_id : Nat, test : Nat]])
<1> DEFINE n == RepeatTimes * Len(urls)
           Url == [browser_id : Nat, test : Nat]
           App == [app : Nat, url : Url]
<1>1. n \in Nat
  BY SizesAssumption
<1>2. ASSUME NEW k \in 1..n
      PROVE  urls[((k - 1) % Len(urls)) + 1] \in Url
  <2>1. Len(urls) \in Nat /\ Len(urls) # 0
    <3>1. Len(urls) = 0 => n = 0
      BY SizesAssumption
    <3> QED
      BY <3>1
  <2>2. ((k - 1) % Len(urls)) + 1 \in 1..Len(urls)
    BY <2>1
  <2>3. urls \in Seq(Url)
    OBVIOUS
  <2> HIDE DEF Url
  <2> QED
    BY <2>2, <2>3
<1>3. AppsFor(b, urls) = [k \in 1..n |-> [app |-> b, url |-> urls[((k - 1) % Len(urls)) + 1]]]
  BY DEF AppsFor
<1>4. \A k \in 1..n : [app |-> b, url |-> urls[((k - 1) % Len(urls)) + 1]] \in App
  BY <1>2
<1> HIDE DEF n, App
<1>5. AppsFor(b, urls) \in [1..n -> App]
  BY <1>3, <1>4
<1>6. AppsFor(b, urls) \in Seq(App)
  BY <1>1, <1>5
<1> QED
  BY <1>6 DEF App

LEMMA ListBrowserPreserves == IInv /\ ListBrowser => IInv'
<1> SUFFICES ASSUME IInv, ListBrowser PROVE IInv'
  OBVIOUS
<1> USE SizesAssumption, RestartAssumption
<1>1. PICK n \in 0..NumTests : urlList' = urlList \o UrlsOf(listed + 1, n)
  BY DEF ListBrowser
<1>2. urlList' \in Seq([browser_id : Nat, test : Nat])
  <2>1. UrlsOf(listed + 1, n) \in Seq([browser_id : Nat, test : Nat])
    BY UrlsTyped DEF IInv, TypeOK
  <2>2. urlList \in Seq([browser_id : Nat, test : Nat])
    BY DEF IInv, TypeOK
  <2> QED
    BY <1>1, <2>1, <2>2
<1>3. appList' \in Seq([app : Nat, url : [browser_id : Nat, test : Nat]])
  <2>1. AppsFor(listed + 1, urlList') \in Seq([app : Nat, url : [browser_id : Nat, test : Nat]])
    BY <1>2, AppsTyped DEF IInv, TypeOK
  <2>2. appList \in Seq([app : Nat, url : [browser_id : Nat, test : Nat]])
    BY DEF IInv, TypeOK
  <2> QED
    BY <2>1, <2>2 DEF ListBrowser
<1>4. /\ main = "listing" /\ main' = main /\ listed' = listed + 1 /\ listed < NumBrowsers
      /\ page' = [k \in Entries' |-> "none"] /\ ended' = [k \in Entries' |-> "no"]
      /\ UNCHANGED <<devices, pc, work, current, runTimes, timer, handler, oldHandler,
                     emulator, listening, inbox, open>>
  BY DEF ListBrowser, signals, Entries
<1>5. /\ \A d \in Device : /\ pc[d] = "off" /\ work[d] = {} /\ current[d] = 0
                           /\ inbox[d] = {} /\ ~listening[d] /\ runTimes[d] = 0
      /\ open = {}
  BY <1>4 DEF IInv, BeforeStart
<1>6. TypeOK'
  BY <1>2, <1>3, <1>4, <1>5 DEF IInv, TypeOK
<1>7. BeforeStart' /\ Shares' /\ Connection' /\ Restarts' /\ Signals'
  BY <1>4, <1>5 DEF BeforeStart, Shares, Connection, Restarts, IInv, Signals
<1>8. NotificationArrives' /\ EndedByOwnPage'
  BY <1>4, <1>5 DEF NotificationArrives, EndedByOwnPage
<1> QED
  BY <1>6, <1>7, <1>8 DEF IInv

LEMMA StartPreserves == IInv /\ (OldEmulatorsGone \/ StartWorkers \/ NoDevices) => IInv'
<1> SUFFICES ASSUME IInv, OldEmulatorsGone \/ StartWorkers \/ NoDevices PROVE IInv'
  OBVIOUS
<1> USE SizesAssumption, RestartAssumption
<1>1. main \in {"listing", "starting"}
  BY DEF OldEmulatorsGone, StartWorkers, NoDevices
<1>2. /\ \A d \in Device : /\ pc[d] = "off" /\ work[d] = {} /\ current[d] = 0
                           /\ inbox[d] = {} /\ ~listening[d] /\ runTimes[d] = 0
      /\ \A k \in Entries : page[k] = "none" /\ ended[k] = "no"
      /\ open = {}
  BY <1>1 DEF IInv, BeforeStart
<1>3. CASE StartWorkers
  <2>1. PICK n \in 1..NumDevices :
          /\ main' = "running"
          /\ devices' = n
          /\ pc' = [d \in Device |-> IF d <= n THEN "next" ELSE "off"]
          /\ emulator' = [d \in Device |-> d <= n]
          /\ work' = [d \in Device |-> {k \in Entries : d <= n /\ Owner(k, n) = d}]
    BY <1>3 DEF StartWorkers
  <2>2. UNCHANGED <<listed, urlList, appList, current, runTimes, timer, handler, oldHandler,
                    listening, inbox, page, open, ended>>
    BY <1>3 DEF StartWorkers, signals, pages
  <2>3. Entries' = Entries /\ Owners' = [k \in Entries |-> Owner(k, n)]
    BY <2>1, <2>2 DEF Entries, Owners, Owner
  <2>4. \A d \in Device : \A k \in work'[d] : k \in Entries /\ Owner(k, n) = d
    BY <2>1
  <2>5. \A d \in Device : pc'[d] \in {"next", "off"}
    BY <2>1
  <2>6. 0 \notin Entries
    BY DEF IInv, TypeOK, Entries
  <2>7. TypeOK'
    <3> HIDE DEF Entries
    <3> QED
      BY <2>1, <2>2, <2>3 DEF IInv, TypeOK, Device
  <2>8. Shares'
    BY <1>2, <2>2, <2>3, <2>4, <2>5, <2>6 DEF Shares
  <2>9. BeforeStart' /\ Connection' /\ Restarts' /\ Signals'
    BY <1>2, <2>1, <2>2, <2>5 DEF BeforeStart, Connection, Restarts, IInv, Signals
  <2>10. NotificationArrives' /\ EndedByOwnPage'
    BY <1>2, <2>2, <2>3, <2>5 DEF NotificationArrives, EndedByOwnPage
  <2> QED
    BY <2>7, <2>8, <2>9, <2>10 DEF IInv
<1>4. CASE OldEmulatorsGone \/ NoDevices
  <2>1. /\ main' \in {"starting", "failed"}
        /\ UNCHANGED <<listed, urlList, appList, devices, pc, work, current, runTimes,
                       timer, handler, oldHandler, emulator, listening, inbox, page, open,
                       ended>>
    BY <1>4 DEF OldEmulatorsGone, NoDevices, signals, pages
  <2>2. Entries' = Entries /\ Owners' = Owners
    BY <2>1 DEF Entries, Owners, Owner
  <2>3. TypeOK'
    BY <2>1, <2>2 DEF IInv, TypeOK
  <2>4. BeforeStart'
    BY <1>2, <2>1, <2>2 DEF BeforeStart
  <2>5. Shares' /\ Connection' /\ Restarts' /\ Signals' /\ NotificationArrives' /\ EndedByOwnPage'
    BY <2>1, <2>2 DEF IInv, Shares, Connection, Restarts, Signals, NotificationArrives,
                       EndedByOwnPage
  <2> QED
    BY <2>3, <2>4, <2>5 DEF IInv
<1> QED
  BY <1>3, <1>4

-----------------------------------------------------------------------------
(* The workers                                                             *)

\* What every step after the start leaves alone.
LEMMA ListsStay ==
  ASSUME UNCHANGED lists
  PROVE  Entries' = Entries /\ Owners' = Owners /\ main' = main
BY DEF lists, Entries, Owners, Owner

\* A worker that is at work is there because main has started it.
LEMMA Started ==
  ASSUME BeforeStart, NEW d \in Device, pc[d] # "off"
  PROVE  main = "running"
BY DEF BeforeStart

\* The steps of a worker that open no page and read no notification.
Quiet(d) ==
  \/ RestoreHandler(d) \/ DisarmTimer(d) \/ AlarmEndsWorker(d)
  \/ GoOn(d) \/ RestartEmulator(d) \/ StopEmulator(d)

LEMMA StaysBounded ==
  ASSUME NEW old, NEW new, old <= RestartAfter, new = 0 \/ new = old
  PROVE  new <= RestartAfter
BY RestartAssumption

LEMMA QuietTyped == ASSUME TypeOK, NEW d \in Device, Quiet(d) PROVE TypeOK'
<1> USE SizesAssumption, RestartAssumption DEF Quiet, TypeOK, lists, signals, pages, Entries
<1>1. CASE RestoreHandler(d)  BY <1>1 DEF RestoreHandler
<1>2. CASE DisarmTimer(d)     BY <1>2 DEF DisarmTimer
<1>3. CASE AlarmEndsWorker(d) BY <1>3 DEF AlarmEndsWorker
<1>4. CASE GoOn(d)            BY <1>4 DEF GoOn
<1>5. CASE RestartEmulator(d)
  <2>1. PICK up \in BOOLEAN : emulator' = [emulator EXCEPT ![d] = up]
    BY <1>5 DEF RestartEmulator
  <2>2. pc' = [pc EXCEPT ![d] = "next"] \/ pc' = [pc EXCEPT ![d] = "failed"]
    BY <1>5 DEF RestartEmulator
  <2>3. runTimes' = [runTimes EXCEPT ![d] = 0] /\ open' \subseteq open
    BY <1>5 DEF RestartEmulator
  <2>4. /\ UNCHANGED <<main, listed, urlList, appList, devices, work, current>>
        /\ UNCHANGED <<timer, handler, oldHandler, listening, inbox, page, ended>>
    BY <1>5 DEF RestartEmulator
  <2>5. runTimes' \in [Device -> Nat]
    BY <2>3
  <2>6. \A e \in Device : runTimes'[e] = 0 \/ runTimes'[e] = runTimes[e]
    BY <2>3
  <2>7. ASSUME NEW e \in Device, AutoRestart PROVE runTimes'[e] <= RestartAfter
    <3>1. runTimes[e] <= RestartAfter
      BY <2>7, Zenon
    <3>2. runTimes'[e] = 0 \/ runTimes'[e] = runTimes[e]
      BY <2>6
    <3> QED
      BY <3>1, <3>2, StaysBounded
  <2>8. pc' \in [Device -> {"off", "next", "connect", "intent", "wait", "exit",
                           "disarm", "count", "done", "failed", "dead"}]
    BY <2>2
  <2>9. emulator' \in [Device -> BOOLEAN]
    BY <2>1
  <2> QED
    BY <2>3, <2>4, <2>5, <2>7, <2>8, <2>9
<1>6. CASE StopEmulator(d)    BY <1>6 DEF StopEmulator
<1> QED
  BY <1>1, <1>2, <1>3, <1>4, <1>5, <1>6

LEMMA QuietPreserves == ASSUME IInv, NEW d \in Device, Quiet(d) PROVE IInv'
<1> USE SizesAssumption, RestartAssumption
<1>1. TypeOK /\ TypeOK'
  BY QuietTyped DEF IInv
<1>2. /\ UNCHANGED lists
      /\ UNCHANGED <<work, current, listening, inbox, page, ended>>
      /\ pc[d] # "off"
      /\ pc'[d] \in {"disarm", "count", "dead", "next", "failed", "done"}
      /\ \A e \in Device : e # d => pc'[e] = pc[e]
  <2> USE <1>1 DEF TypeOK, signals, pages
  <2>1. CASE RestoreHandler(d)  BY <2>1 DEF RestoreHandler
  <2>2. CASE DisarmTimer(d)     BY <2>2 DEF DisarmTimer
  <2>3. CASE AlarmEndsWorker(d)
    <3>1. timer[d] => pc[d] # "off"
      BY DEF IInv, Signals
    <3> QED
      BY <2>3, <3>1 DEF AlarmEndsWorker
  <2>4. CASE GoOn(d)            BY <2>4 DEF GoOn
  <2>5. CASE RestartEmulator(d) BY <2>5 DEF RestartEmulator
  <2>6. CASE StopEmulator(d)    BY <2>6 DEF StopEmulator
  <2> QED
    BY <2>1, <2>2, <2>3, <2>4, <2>5, <2>6 DEF Quiet
<1>3. main = "running" /\ main' = main /\ Entries' = Entries /\ Owners' = Owners
  BY <1>2, ListsStay, Started DEF IInv
<1>4. BeforeStart'
  BY <1>3 DEF BeforeStart
<1>5. Shares' /\ Connection' /\ NotificationArrives' /\ EndedByOwnPage'
  BY <1>2, <1>3 DEF IInv, Shares, Connection, NotificationArrives, EndedByOwnPage
<1>6. Restarts' /\ Signals'
  <2> USE <1>1 DEF TypeOK, signals, IInv, Restarts, Signals
  <2>1. CASE RestoreHandler(d)  BY <2>1 DEF RestoreHandler
  <2>2. CASE DisarmTimer(d)     BY <2>2 DEF DisarmTimer
  <2>3. CASE AlarmEndsWorker(d) BY <2>3 DEF AlarmEndsWorker
  <2>4. CASE GoOn(d)            BY <2>4 DEF GoOn
  <2>5. CASE RestartEmulator(d)
    <3>1. pc' = [pc EXCEPT ![d] = "next"] \/ pc' = [pc EXCEPT ![d] = "failed"]
      BY <2>5 DEF RestartEmulator
    <3>2. runTimes' = [runTimes EXCEPT ![d] = 0] /\ timer' = timer /\ ~timer[d]
      BY <2>5 DEF RestartEmulator
    <3>3. \A e \in Device : e # d => runTimes'[e] = runTimes[e] /\ pc'[e] = pc[e]
      BY <3>1, <3>2
    <3>4. runTimes'[d] = 0 /\ 0 < RestartAfter
      BY <3>2
    <3>5. Restarts'
      BY <3>3, <3>4
    <3>6. ASSUME NEW e \in Device, timer'[e]
          PROVE  pc'[e] \in {"connect", "intent", "wait", "exit", "disarm"}
      <4>1. e # d /\ timer[e]
        BY <3>2, <3>6
      <4> QED
        BY <3>3, <4>1
    <3> QED
      BY <3>5, <3>6
  <2>6. CASE StopEmulator(d)    BY <2>6 DEF StopEmulator
  <2> QED
    BY <2>1, <2>2, <2>3, <2>4, <2>5, <2>6 DEF Quiet
<1> QED
  BY <1>1, <1>4, <1>5, <1>6 DEF IInv

LEMMA BeginPreserves == ASSUME IInv, NEW d \in Device, BeginTest(d) PROVE IInv'
<1> USE SizesAssumption
<1>1. TypeOK /\ pc[d] = "next"
  BY DEF IInv, BeginTest
<1>2. PICK k \in work[d] : /\ current' = [current EXCEPT ![d] = k]
                           /\ work' = [work EXCEPT ![d] = @ \ {k}]
  BY DEF BeginTest
<1>3. /\ pc' = [pc EXCEPT ![d] = "connect"]
      /\ runTimes' = [runTimes EXCEPT ![d] = @ + 1]
      /\ timer' = [timer EXCEPT ![d] = TRUE]
      /\ handler' = [handler EXCEPT ![d] = "custom"]
      /\ oldHandler' = [oldHandler EXCEPT ![d] = handler[d]]
      /\ UNCHANGED lists
      /\ UNCHANGED <<emulator, listening, inbox, page, open, ended>>
  BY DEF BeginTest, pages
<1>4. main = "running" /\ main' = main /\ Entries' = Entries /\ Owners' = Owners
  <2>1. pc[d] # "off"
    BY <1>1
  <2> QED
    BY <1>3, <2>1, ListsStay, Started DEF IInv
<1>5. k \in Entries /\ k # 0
  BY <1>1, <1>2 DEF TypeOK, Entries
<1>6. \A e \in Device \ {d} : /\ pc'[e] = pc[e] /\ work'[e] = work[e] /\ current'[e] = current[e]
                              /\ runTimes'[e] = runTimes[e] /\ timer'[e] = timer[e]
  BY <1>1, <1>2, <1>3 DEF TypeOK
<1>7. /\ pc'[d] = "connect" /\ work'[d] = work[d] \ {k} /\ current'[d] = k
      /\ runTimes'[d] = runTimes[d] + 1 /\ runTimes[d] \in Nat
  BY <1>1, <1>2, <1>3 DEF TypeOK
<1>8. TypeOK'
  <2>1. ASSUME NEW e \in Device, AutoRestart PROVE runTimes'[e] <= RestartAfter
    <3>1. CASE e = d
      <4>1. runTimes[d] < RestartAfter
        BY <1>1, <2>1, Zenon DEF IInv, Restarts
      <4> QED
        BY <1>7, <3>1, <4>1, RestartAssumption
    <3>2. CASE e # d
      <4>1. runTimes[e] <= RestartAfter
        BY <1>1, <2>1, Zenon DEF TypeOK
      <4> QED
        BY <1>6, <3>2, <4>1
    <3> QED
      BY <3>1, <3>2
  <2>2. runTimes' \in [Device -> Nat]
    BY <1>1, <1>3 DEF TypeOK
  <2>3. work' \in [Device -> SUBSET Entries] /\ current' \in [Device -> Entries \union {0}]
    BY <1>1, <1>2, <1>5 DEF TypeOK
  <2>4. /\ pc' \in [Device -> {"off", "next", "connect", "intent", "wait", "exit",
                               "disarm", "count", "done", "failed", "dead"}]
        /\ timer' \in [Device -> BOOLEAN]
        /\ handler' \in [Device -> {"default", "custom"}]
        /\ oldHandler' \in [Device -> {"default", "custom"}]
    BY <1>1, <1>3 DEF TypeOK
  <2> QED
    BY <1>1, <1>3, <1>4, <2>1, <2>2, <2>3, <2>4 DEF TypeOK, lists
<1>9. BeforeStart'
  BY <1>4 DEF BeforeStart
<1>10. Shares'
  BY <1>2, <1>3, <1>4, <1>5, <1>6, <1>7 DEF IInv, Shares
<1>11. Connection' /\ NotificationArrives' /\ EndedByOwnPage'
  BY <1>3, <1>4, <1>6, <1>7 DEF IInv, Connection, NotificationArrives, EndedByOwnPage
<1>12. Restarts' /\ Signals'
  BY <1>6, <1>7 DEF IInv, Restarts, Signals
<1> QED
  BY <1>8, <1>9, <1>10, <1>11, <1>12 DEF IInv

LEMMA ListenPreserves == ASSUME IInv, NEW d \in Device, Listen(d) PROVE IInv'
<1>1. TypeOK /\ pc[d] = "connect"
  BY DEF IInv, Listen
<1>2. /\ pc' = [pc EXCEPT ![d] = "intent"]
      /\ listening' = [listening EXCEPT ![d] = TRUE]
      /\ inbox' = [inbox EXCEPT ![d] = {}]
      /\ UNCHANGED lists
      /\ UNCHANGED <<work, current, runTimes, timer, handler, oldHandler, emulator, page,
                     open, ended>>
  BY DEF Listen, signals, pages
<1>3. main = "running" /\ main' = main /\ Entries' = Entries /\ Owners' = Owners
  <2>1. pc[d] # "off"
    BY <1>1
  <2> QED
    BY <1>2, <2>1, ListsStay, Started DEF IInv
<1>4. TypeOK'
  BY <1>1, <1>2, <1>3 DEF TypeOK, lists
<1>5. /\ \A e \in Device \ {d} : /\ pc'[e] = pc[e] /\ listening'[e] = listening[e]
                                 /\ inbox'[e] = inbox[e]
      /\ pc'[d] = "intent" /\ listening'[d] /\ inbox'[d] = {}
  BY <1>1, <1>2 DEF TypeOK
<1>6. BeforeStart'
  BY <1>3 DEF BeforeStart
<1>7. Shares' /\ Connection'
  BY <1>1, <1>2, <1>3, <1>5 DEF IInv, Shares, Connection
<1>8. NotificationArrives' /\ EndedByOwnPage'
  BY <1>2, <1>3, <1>5 DEF IInv, NotificationArrives, EndedByOwnPage
<1>9. Restarts' /\ Signals'
  BY <1>1, <1>2, <1>5 DEF IInv, Restarts, Signals
<1> QED
  BY <1>4, <1>6, <1>7, <1>8, <1>9 DEF IInv

\* An intent opens a page that was not opened before and of no other worker.
LEMMA IntentPreserves == ASSUME IInv, NEW d \in Device, SendIntent(d) PROVE IInv'
<1>1. TypeOK /\ pc[d] = "intent" /\ current[d] \in Entries
  BY DEF IInv, SendIntent, Shares, TypeOK
<1>2. /\ pc' = [pc EXCEPT ![d] = "wait"]
      /\ UNCHANGED lists
      /\ UNCHANGED <<work, current, runTimes, timer, handler, oldHandler, emulator,
                     listening, inbox, ended>>
  BY DEF SendIntent, signals
<1>3. \/ /\ page' = [page EXCEPT ![current[d]] = "testing"]
         /\ open' = open \union {current[d]}
      \/ page' = page /\ open' = open
  BY DEF SendIntent
<1>4. main = "running" /\ main' = main /\ Entries' = Entries /\ Owners' = Owners
  <2>1. pc[d] # "off"
    BY <1>1
  <2> QED
    BY <1>2, <2>1, ListsStay, Started DEF IInv
<1>5. TypeOK'
  <2>1. /\ page' \in [Entries -> {"none", "testing", "saving", "saved", "notifying",
                                  "notified", "silent"}]
        /\ open' \subseteq Entries
    BY <1>1, <1>3 DEF TypeOK
  <2>2. pc' \in [Device -> {"off", "next", "connect", "intent", "wait", "exit",
                            "disarm", "count", "done", "failed", "dead"}]
    BY <1>1, <1>2 DEF TypeOK
  <2> QED
    BY <1>1, <1>2, <1>4, <2>1, <2>2 DEF TypeOK, lists
<1>6. /\ \A e \in Device \ {d} : pc'[e] = pc[e]
      /\ pc'[d] = "wait"
      /\ \A k \in Entries : k # current[d] => page'[k] = page[k]
      /\ page'[current[d]] \in {"testing", "none"}
      /\ page[current[d]] = "none"
      /\ Owners[current[d]] = d
      /\ current[d] # 0
      /\ \A e \in Device : work[e] \subseteq Entries /\ current[e] \in Entries \union {0}
                           /\ inbox[e] \subseteq Entries
  BY <1>1, <1>2, <1>3 DEF IInv, TypeOK, Shares
<1>7. BeforeStart'
  BY <1>4 DEF BeforeStart
<1>8. Shares'
  BY <1>2, <1>4, <1>6 DEF IInv, Shares
<1>9. Connection'
  BY <1>1, <1>2, <1>4, <1>6 DEF IInv, Connection
<1>10. NotificationArrives' /\ EndedByOwnPage'
  BY <1>1, <1>2, <1>4, <1>6 DEF IInv, NotificationArrives, EndedByOwnPage, Connection, Shares
<1>11. Restarts' /\ Signals'
  BY <1>1, <1>2, <1>6 DEF IInv, Restarts, Signals
<1> QED
  BY <1>5, <1>7, <1>8, <1>9, <1>10, <1>11 DEF IInv

\* The end of the with block over the connection, for any cause.  The cause may
\* be a notification only if the page of the current entry has been served.
LEMMA EndPreserves ==
  ASSUME IInv, NEW d \in Device, pc[d] \in {"connect", "intent", "wait"},
         NEW cause \in {"notification", "alarm", "error"},
         cause = "notification" => page[current[d]] = "notified",
         EndRun(d, cause),
         inbox' = [inbox EXCEPT ![d] = {}],
         timer' = timer \/ timer' = [timer EXCEPT ![d] = FALSE],
         UNCHANGED lists, UNCHANGED pages,
         UNCHANGED <<work, current, runTimes, handler, oldHandler, emulator>>
  PROVE  IInv'
<1>1. TypeOK /\ current[d] \in Entries /\ pc[d] # "off"
  BY DEF IInv, TypeOK, Shares
<1>2. /\ pc' = [pc EXCEPT ![d] = "exit"]
      /\ listening' = [listening EXCEPT ![d] = FALSE]
      /\ ended' = [ended EXCEPT ![current[d]] = cause]
      /\ page' = page /\ open' = open
  BY DEF EndRun, pages
<1>3. main = "running" /\ main' = main /\ Entries' = Entries /\ Owners' = Owners
  BY <1>1, ListsStay, Started DEF IInv
<1>4. TypeOK'
  <2>1. /\ pc' \in [Device -> {"off", "next", "connect", "intent", "wait", "exit",
                               "disarm", "count", "done", "failed", "dead"}]
        /\ listening' \in [Device -> BOOLEAN]
        /\ timer' \in [Device -> BOOLEAN]
        /\ inbox' \in [Device -> SUBSET Entries]
        /\ ended' \in [Entries -> {"no", "notification", "alarm", "error"}]
    BY <1>1, <1>2 DEF TypeOK
  <2> QED
    BY <1>1, <1>2, <1>3, <2>1 DEF TypeOK, lists
<1>5. /\ \A e \in Device \ {d} : /\ pc'[e] = pc[e] /\ listening'[e] = listening[e]
                                 /\ inbox'[e] = inbox[e]
      /\ pc'[d] = "exit" /\ inbox'[d] = {}
      /\ \A k \in Entries : k # current[d] => ended'[k] = ended[k]
      /\ ended'[current[d]] = cause
      /\ \A e \in Device : timer'[e] => timer[e]
      /\ \A e \in Device : work[e] \subseteq Entries
  <2>1. /\ \A e \in Device \ {d} : /\ pc'[e] = pc[e] /\ listening'[e] = listening[e]
                                   /\ inbox'[e] = inbox[e]
        /\ pc'[d] = "exit" /\ inbox'[d] = {}
    BY <1>1, <1>2 DEF TypeOK
  <2>2. /\ \A k \in Entries : k # current[d] => ended'[k] = ended[k]
        /\ ended'[current[d]] = cause
    BY <1>1, <1>2 DEF TypeOK
  <2>3. \A e \in Device : (timer'[e] => timer[e]) /\ work[e] \subseteq Entries
    BY <1>1 DEF TypeOK
  <2> QED
    BY <2>1, <2>2, <2>3
<1>6. BeforeStart'
  BY <1>3 DEF BeforeStart
<1>7. current[d] # 0
  BY DEF IInv, Shares
<1>8. Shares'
  BY <1>2, <1>3, <1>5, <1>7 DEF IInv, Shares
<1>9. Connection' /\ Restarts' /\ Signals'
  BY <1>2, <1>3, <1>5 DEF IInv, Connection, Restarts, Signals
<1>10. NotificationArrives' /\ EndedByOwnPage'
  BY <1>2, <1>3, <1>5 DEF IInv, NotificationArrives, EndedByOwnPage
<1> QED
  BY <1>4, <1>6, <1>8, <1>9, <1>10 DEF IInv

LEMMA ReceivePreserves ==
  ASSUME IInv, NEW d \in Device, ReceiveOwn(d) \/ ConnectionFails(d)
  PROVE  IInv'
<1>1. CASE ReceiveOwn(d)
  <2>1. pc[d] = "wait" /\ page[current[d]] = "notified"
    BY <1>1 DEF ReceiveOwn, IInv, Connection
  <2> QED
    BY <1>1, <2>1, EndPreserves DEF ReceiveOwn, signals
<1>2. CASE ConnectionFails(d)
  BY <1>2, EndPreserves DEF ConnectionFails, signals
<1> QED
  BY <1>1, <1>2

LEMMA OtherPreserves == ASSUME IInv, NEW d \in Device, ReceiveOther(d) PROVE IInv'
<1>1. TypeOK /\ pc[d] = "wait"
  BY DEF IInv, ReceiveOther
<1>2. PICK k \in inbox[d] \ {current[d]} : inbox' = [inbox EXCEPT ![d] = @ \ {k}]
  BY DEF ReceiveOther
<1>3. /\ UNCHANGED lists
      /\ UNCHANGED <<pc, work, current, runTimes, timer, handler, oldHandler, emulator,
                     listening, page, open, ended>>
  BY DEF ReceiveOther, signals, pages
<1>4. main = "running" /\ main' = main /\ Entries' = Entries /\ Owners' = Owners
  <2>1. pc[d] # "off"
    BY <1>1
  <2> QED
    BY <1>3, <2>1, ListsStay, Started DEF IInv
<1>5. \A e \in Device : /\ inbox'[e] \subseteq inbox[e]
                        /\ current[e] \in inbox[e] => current[e] \in inbox'[e]
  BY <1>1, <1>2 DEF TypeOK
<1>6. TypeOK'
  <2>1. inbox' \in [Device -> SUBSET Entries]
    BY <1>1, <1>2 DEF TypeOK
  <2> QED
    BY <1>1, <1>3, <1>4, <2>1 DEF TypeOK, lists
<1>7. BeforeStart'
  BY <1>4 DEF BeforeStart
<1>8. Shares' /\ Connection' /\ NotificationArrives' /\ EndedByOwnPage'
  BY <1>3, <1>4, <1>5 DEF IInv, Shares, Connection, NotificationArrives, EndedByOwnPage
<1>9. Restarts' /\ Signals'
  BY <1>3 DEF IInv, Restarts, Signals
<1> QED
  BY <1>6, <1>7, <1>8, <1>9 DEF IInv

\* In cancel, the alarm only ends the with block.
LEMMA AlarmPreserves == ASSUME IInv, NEW d \in Device, Alarm(d) PROVE IInv'
<1>1. CASE pc[d] \in {"connect", "intent", "wait"}
  <2>1. EndRun(d, "alarm") /\ inbox' = [inbox EXCEPT ![d] = {}]
    BY <1>1 DEF Alarm
  <2>2. /\ timer' = [timer EXCEPT ![d] = FALSE]
        /\ UNCHANGED lists /\ UNCHANGED pages
        /\ UNCHANGED <<work, current, runTimes, handler, oldHandler, emulator>>
    BY DEF Alarm
  <2> QED
    BY <1>1, <2>1, <2>2, EndPreserves
<1>2. CASE pc[d] \notin {"connect", "intent", "wait"}
  <2>1. /\ pc[d] \in {"exit", "disarm"}
        /\ pc' = [pc EXCEPT ![d] = "count"]
        /\ timer' = [timer EXCEPT ![d] = FALSE]
        /\ UNCHANGED lists
        /\ UNCHANGED <<work, current, runTimes, handler, oldHandler, emulator, listening,
                       inbox, page, open, ended>>
    BY <1>2 DEF Alarm, pages
  <2>2. TypeOK
    BY DEF IInv
  <2>3. main = "running" /\ main' = main /\ Entries' = Entries /\ Owners' = Owners
    <3>1. pc[d] # "off"
      BY <2>1
    <3> QED
      BY <2>1, <3>1, ListsStay, Started DEF IInv
  <2>4. /\ \A e \in Device \ {d} : pc'[e] = pc[e] /\ timer'[e] = timer[e]
        /\ pc'[d] = "count" /\ ~timer'[d]
    BY <2>1, <2>2 DEF TypeOK
  <2>5. TypeOK'
    BY <2>1, <2>2, <2>3 DEF TypeOK, lists
  <2>6. BeforeStart'
    BY <2>3 DEF BeforeStart
  <2>7. Shares' /\ Connection' /\ NotificationArrives' /\ EndedByOwnPage'
    BY <2>1, <2>3, <2>4 DEF IInv, Shares, Connection, NotificationArrives, EndedByOwnPage
  <2>8. Restarts' /\ Signals'
    BY <2>1, <2>4 DEF IInv, Restarts, Signals
  <2> QED
    BY <2>5, <2>6, <2>7, <2>8 DEF IInv
<1> QED
  BY <1>1, <1>2

-----------------------------------------------------------------------------
(* The pages                                                               *)

\* A page never falls back to "none", and what is put in an inbox is a run
\* whose page has been served.
LEMMA PagePreserves == ASSUME IInv, NEW k \in Entries, Page(k) PROVE IInv'
<1>1. TypeOK
  BY DEF IInv
<1>2. /\ UNCHANGED lists
      /\ UNCHANGED <<pc, work, current, runTimes, timer, handler, oldHandler, emulator,
                     listening, open, ended>>
      /\ page[k] \in {"testing", "saving", "saved", "notifying"}
  BY DEF Page, CompleteTests, StoreResults, RequestNotify, Notify, signals
<1>3. \/ /\ \E p \in {"saving", "saved", "notifying", "silent"} : page' = [page EXCEPT ![k] = p]
         /\ inbox' = inbox
      \/ /\ page' = [page EXCEPT ![k] = "notified"]
         /\ inbox' = [d \in Device |-> IF listening[d] THEN inbox[d] \union {k} ELSE inbox[d]]
  BY DEF Page, CompleteTests, StoreResults, RequestNotify, Notify
<1>4. Entries' = Entries /\ Owners' = Owners /\ main' = main
  BY <1>2, ListsStay
<1>5. main = "running"
  BY <1>2 DEF IInv, BeforeStart
<1>6. /\ \A j \in Entries : j # k => page'[j] = page[j]
      /\ page'[k] # "none"
      /\ \A d \in Device : inbox[d] \subseteq inbox'[d] /\ inbox'[d] \subseteq inbox[d] \union {k}
      /\ \A d \in Device : k \in inbox'[d] \ inbox[d] => page'[k] = "notified"
      /\ \A d \in Device : page'[k] = "notified" /\ listening[d] => k \in inbox'[d]
      /\ page' \in [Entries -> {"none", "testing", "saving", "saved", "notifying",
                                "notified", "silent"}]
      /\ inbox' \in [Device -> SUBSET Entries]
  <2>1. /\ page \in [Entries -> {"none", "testing", "saving", "saved", "notifying",
                                 "notified", "silent"}]
        /\ inbox \in [Device -> SUBSET Entries]
    BY <1>1 DEF TypeOK
  <2>2. CASE \E p \in {"saving", "saved", "notifying", "silent"} :
               page' = [page EXCEPT ![k] = p] /\ inbox' = inbox
    <3>1. PICK p \in {"saving", "saved", "notifying", "silent"} :
            page' = [page EXCEPT ![k] = p] /\ inbox' = inbox
      BY <2>2
    <3>2. page'[k] = p /\ \A j \in Entries : j # k => page'[j] = page[j]
      BY <2>1, <3>1
    <3>3. page' \in [Entries -> {"none", "testing", "saving", "saved", "notifying",
                                "notified", "silent"}]
      BY <2>1, <3>1
    <3> QED
      BY <2>1, <3>1, <3>2, <3>3
  <2>3. CASE /\ page' = [page EXCEPT ![k] = "notified"]
             /\ inbox' = [d \in Device |-> IF listening[d] THEN inbox[d] \union {k} ELSE inbox[d]]
    <3>1. page'[k] = "notified" /\ \A j \in Entries : j # k => page'[j] = page[j]
      BY <2>1, <2>3
    <3>2. page' \in [Entries -> {"none", "testing", "saving", "saved", "notifying",
                                "notified", "silent"}]
      BY <2>1, <2>3
    <3>3. \A d \in Device : inbox'[d] = IF listening[d] THEN inbox[d] \union {k} ELSE inbox[d]
      BY <2>3
    <3>4. inbox' \in [Device -> SUBSET Entries]
      BY <2>1, <2>3
    <3> QED
      BY <3>1, <3>2, <3>3, <3>4
  <2> QED
    BY <1>3, <2>2, <2>3
<1>7. TypeOK'
  BY <1>1, <1>2, <1>4, <1>6 DEF TypeOK, lists
<1>8. \A d \in Device : work[d] \subseteq Entries /\ current[d] \in Entries \union {0}
                        /\ inbox[d] \subseteq Entries
  BY <1>1 DEF TypeOK
<1>9. BeforeStart'
  BY <1>4, <1>5 DEF BeforeStart
<1>10. Shares'
  <2>1. \A d \in Device : pc[d] \in {"connect", "intent"} => page'[current[d]] = "none"
    BY <1>2, <1>6, <1>8 DEF IInv, Shares
  <2>2. \A d \in Device : \A j \in work[d] : page'[j] = "none"
    BY <1>2, <1>6, <1>8 DEF IInv, Shares
  <2> QED
    BY <1>2, <1>4, <2>1, <2>2 DEF IInv, Shares
<1>11. Connection'
  BY <1>2, <1>6, <1>8 DEF IInv, Connection
<1>12. NotificationArrives'
  BY <1>2, <1>6, <1>8 DEF IInv, NotificationArrives, Connection, Shares
<1>13. EndedByOwnPage'
  BY <1>2, <1>4, <1>6 DEF IInv, EndedByOwnPage
<1>14. Restarts' /\ Signals'
  BY <1>2 DEF IInv, Restarts, Signals
<1> QED
  BY <1>7, <1>9, <1>10, <1>11, <1>12, <1>13, <1>14 DEF IInv

-----------------------------------------------------------------------------
(* The theorems                                                            *)

LEMMA NextPreserves == IInv /\ [Next]_vars => IInv'
<1> SUFFICES ASSUME IInv, [Next]_vars PROVE IInv'
  OBVIOUS
<1>1. CASE UNCHANGED vars
  <2>1. Entries' = Entries /\ Owners' = Owners
    BY <1>1, ListsStay DEF vars
  <2>2. TypeOK'
    BY <1>1, <2>1 DEF vars, lists, signals, pages, IInv, TypeOK
  <2>3. BeforeStart' /\ Shares' /\ Connection' /\ Restarts' /\ Signals'
    BY <1>1, <2>1 DEF vars, lists, signals, pages, IInv, BeforeStart, Shares, Connection,
                      Restarts, Signals
  <2>4. NotificationArrives' /\ EndedByOwnPage'
    BY <1>1, <2>1 DEF vars, signals, pages, IInv, NotificationArrives, EndedByOwnPage
  <2> QED
    BY <2>2, <2>3, <2>4 DEF IInv
<1>2. ASSUME NEW d \in Device, Worker(d) PROVE IInv'
  BY <1>2, BeginPreserves, ListenPreserves, IntentPreserves, ReceivePreserves,
     OtherPreserves, AlarmPreserves, QuietPreserves DEF Worker, Quiet
<1> QED
  BY <1>1, <1>2, ListBrowserPreserves, StartPreserves, PagePreserves DEF Next

\* The invariant of runs and notifications always holds.
THEOREM Invariance == Spec => []IInv
<1> QED
  BY InitEstablishes, NextPreserves, PTL DEF Spec

\* Every variable keeps its type; run_times is reset before it passes its bound.
THEOREM TypeCorrect == Spec => []TypeOK
<1>1. IInv => TypeOK
  BY DEF IInv
<1> QED
  BY <1>1, Invariance, PTL

\* The run_id keeps the notifications of the runs apart: a run is ended by that
\* of its own page only.
THEOREM OwnPage == Spec => []EndedByOwnPage
<1>1. IInv => EndedByOwnPage
  BY DEF IInv
<1> QED
  BY <1>1, Invariance, PTL

\* run_test listens before it sends the intent: no notification is missed.
THEOREM NothingMissed == Spec => []NotificationArrives
<1>1. IInv => NotificationArrives
  BY DEF IInv
<1> QED
  BY <1>1, Invariance, PTL

-----------------------------------------------------------------------------
(* The shares, and that they are worked off                                *)

LEMMA Quotient ==
  ASSUME NEW a \in Nat, NEW n \in Nat \ {0}
  PROVE  /\ a \div n \in Nat /\ a % n \in 0..(n - 1)
         /\ a = (a \div n) * n + (a % n)
OBVIOUS

LEMMA SmallQuotient ==
  ASSUME NEW a \in Nat, NEW m \in Nat \ {0}, NEW b \in Nat, a < b * m
  PROVE  a \div m \in Nat /\ a \div m < b
<1> DEFINE c == a \div m
<1>1. c \in Nat /\ c * m <= a
  BY Quotient
<1> HIDE DEF c
<1>2. ASSUME b <= c PROVE FALSE
  <2>1. b * m <= c * m
    BY <1>1, <1>2
  <2>2. b * m \in Nat /\ c * m \in Nat
    BY <1>1
  <2> QED
    BY <1>1, <2>1, <2>2
<1> QED
  BY <1>1, <1>2 DEF c

\* array_split leaves no entry out.
LEMMA OwnerExists ==
  ASSUME Len(appList) \in Nat, NEW n \in Nat \ {0}, NEW k \in 1..Len(appList)
  PROVE  Owner(k, n) \in 1..n
<1> DEFINE len == Len(appList)
           q == len \div n
           r == len % n
           long == r * (q + 1)
<1>1. q \in Nat /\ r \in Nat /\ r < n /\ len = q * n + r
  <2>1. len \in Nat
    OBVIOUS
  <2> HIDE DEF len
  <2>2. q \in Nat /\ r \in 0..(n - 1) /\ len = q * n + r
    BY <2>1, Quotient
  <2> HIDE DEF q, r
  <2> QED
    BY <2>2
<1>2. Owner(k, n) = IF k <= long THEN ((k - 1) \div (q + 1)) + 1
                    ELSE r + ((k - 1 - long) \div q) + 1
  BY DEF Owner
<1>3. k \in Nat /\ 1 <= k /\ k <= len
  OBVIOUS
<1> HIDE DEF len, q, r
<1>4. long \in Nat
  BY <1>1
<1>5. CASE k <= long
  <2>1. k - 1 \in Nat /\ q + 1 \in Nat \ {0} /\ k - 1 < r * (q + 1)
    BY <1>1, <1>3, <1>4, <1>5
  <2>2. (k - 1) \div (q + 1) \in Nat /\ (k - 1) \div (q + 1) < r
    BY <1>1, <2>1, SmallQuotient
  <2> QED
    BY <1>1, <1>2, <1>5, <2>2
<1>6. CASE long < k
  <2>1. len - long = (n - r) * q
    BY <1>1
  <2>2. k - 1 - long \in Nat /\ k - 1 - long < (n - r) * q /\ n - r \in Nat
    BY <1>1, <1>3, <1>4, <1>6, <2>1
  <2>3. q # 0
    BY <1>1, <2>2
  <2> HIDE DEF long
  <2>4. (k - 1 - long) \div q \in Nat /\ (k - 1 - long) \div q < n - r
    BY <1>1, <2>2, <2>3, SmallQuotient
  <2> QED
    BY <1>1, <1>2, <1>4, <1>6, <2>4
<1> QED
  BY <1>3, <1>4, <1>5, <1>6

\* Between __enter__ and the end of the with block over the connection.
InTest == {"connect", "intent", "wait"}

\* The worker that owns an entry ends its run, or has it still before it.
Reached ==
  main = "running" =>
    /\ devices <= NumDevices
    /\ \A k \in Entries : Owners[k] \in 1..devices
    /\ \A d \in Device : \A k \in Entries :
         Owners[k] = d /\ ended[k] = "no" =>
           k \in work[d] \/ (k = current[d] /\ pc[d] \in InTest)
    /\ \A d \in Device : pc[d] = "done" => work[d] = {}

\* In a test the alarm raises an exception and ends nobody.
Handled == \A d \in Device : pc[d] \in InTest => handler[d] = "custom"

RunInv == IInv /\ Reached /\ Handled

LEMMA InitEstablishesRuns == Init => RunInv
BY InitEstablishes DEF Init, RunInv, Reached, Handled, InTest

\* Every entry is in the share of some emulator that is up.
LEMMA StartReaches == ASSUME RunInv, StartWorkers PROVE Reached' /\ Handled'
<1>1. IInv /\ TypeOK
  BY DEF RunInv, IInv
<1>2. PICK n \in 1..NumDevices :
        /\ main' = "running"
        /\ devices' = n
        /\ pc' = [d \in Device |-> IF d <= n THEN "next" ELSE "off"]
        /\ work' = [d \in Device |-> {k \in Entries : d <= n /\ Owner(k, n) = d}]
  BY DEF StartWorkers
<1>3. n \in Nat \ {0} /\ n <= NumDevices
  BY SizesAssumption
<1>4. appList' = appList
  BY DEF StartWorkers
<1>5. Entries' = Entries /\ Owners' = [k \in Entries |-> Owner(k, n)]
  BY <1>2, <1>4 DEF Entries, Owners, Owner
<1>6. Entries = 1..Len(appList) /\ Len(appList) \in Nat
  BY <1>1 DEF TypeOK, Entries
<1>7. \A k \in Entries : Owner(k, n) \in 1..n
  BY <1>3, <1>6, OwnerExists
<1>8. \A d \in Device : d \in Nat
  BY SizesAssumption DEF Device
<1>9. ASSUME NEW d \in Device, NEW k \in Entries, Owners'[k] = d PROVE k \in work'[d]
  BY <1>2, <1>3, <1>5, <1>7, <1>8, <1>9
<1>10. \A d \in Device : pc'[d] \in {"next", "off"}
  BY <1>2
<1>11. Reached'
  BY <1>2, <1>3, <1>5, <1>7, <1>9, <1>10 DEF Reached
<1> QED
  BY <1>10, <1>11 DEF Handled, InTest

\* A step that leaves the shares alone and does not leave a test.
LEMMA StaysReached ==
  ASSUME RunInv, UNCHANGED lists, UNCHANGED <<work, current, ended, handler>>,
         \A d \in Device :
           /\ pc[d] \in InTest <=> pc'[d] \in InTest
           /\ pc'[d] = "done" => pc[d] = "done" \/ work[d] = {}
  PROVE  Reached' /\ Handled'
<1>1. Entries' = Entries /\ Owners' = Owners /\ main' = main /\ devices' = devices
  BY ListsStay DEF lists
<1> QED
  BY <1>1 DEF RunInv, Reached, Handled

LEMMA BeginReaches == ASSUME RunInv, NEW d \in Device, BeginTest(d) PROVE Reached' /\ Handled'
<1>1. TypeOK /\ pc[d] = "next"
  BY DEF RunInv, IInv, BeginTest
<1>2. PICK k \in work[d] : /\ current' = [current EXCEPT ![d] = k]
                           /\ work' = [work EXCEPT ![d] = @ \ {k}]
  BY DEF BeginTest
<1>3. /\ pc' = [pc EXCEPT ![d] = "connect"]
      /\ handler' = [handler EXCEPT ![d] = "custom"]
      /\ UNCHANGED lists /\ ended' = ended
  BY DEF BeginTest
<1>4. Entries' = Entries /\ Owners' = Owners /\ main' = main /\ devices' = devices
  BY <1>3, ListsStay DEF lists
<1>5. /\ \A e \in Device \ {d} : /\ pc'[e] = pc[e] /\ work'[e] = work[e]
                                 /\ current'[e] = current[e] /\ handler'[e] = handler[e]
      /\ pc'[d] = "connect" /\ work'[d] = work[d] \ {k} /\ current'[d] = k
      /\ handler'[d] = "custom"
  BY <1>1, <1>2, <1>3 DEF TypeOK
<1> QED
  BY <1>1, <1>3, <1>4, <1>5 DEF RunInv, Reached, Handled, InTest

\* The run that is left has ended.
LEMMA EndReaches ==
  ASSUME RunInv, NEW d \in Device, pc[d] \in InTest,
         NEW cause \in {"notification", "alarm", "error"}, EndRun(d, cause),
         UNCHANGED lists, UNCHANGED <<work, current, handler>>
  PROVE  Reached' /\ Handled'
<1>1. TypeOK /\ current[d] \in Entries
  BY DEF RunInv, IInv, TypeOK, Shares, InTest
<1>2. Entries' = Entries /\ Owners' = Owners /\ main' = main /\ devices' = devices
  BY ListsStay DEF lists
<1>3. /\ \A e \in Device \ {d} : pc'[e] = pc[e]
      /\ pc'[d] = "exit"
      /\ \A k \in Entries : k # current[d] => ended'[k] = ended[k]
      /\ ended'[current[d]] # "no"
  BY <1>1 DEF EndRun, TypeOK
<1> QED
  BY <1>2, <1>3 DEF RunInv, Reached, Handled, InTest

LEMMA WorkerReaches == ASSUME RunInv, NEW d \in Device, Worker(d) PROVE Reached' /\ Handled'
<1>1. TypeOK
  BY DEF RunInv, IInv
<1>2. CASE BeginTest(d)
  BY <1>2, BeginReaches
<1>3. CASE ReceiveOwn(d) \/ ConnectionFails(d)
  <2>1. PICK cause \in {"notification", "alarm", "error"} : EndRun(d, cause)
    BY <1>3 DEF ReceiveOwn, ConnectionFails
  <2>2. /\ pc[d] \in InTest /\ UNCHANGED lists /\ UNCHANGED <<work, current, handler>>
    BY <1>3 DEF ReceiveOwn, ConnectionFails, InTest, signals
  <2> QED
    BY <2>1, <2>2, EndReaches
<1>4. CASE Alarm(d) /\ pc[d] \in InTest
  <2>1. EndRun(d, "alarm") /\ UNCHANGED lists /\ UNCHANGED <<work, current, handler>>
    BY <1>4 DEF Alarm, InTest
  <2> QED
    BY <1>4, <2>1, EndReaches
<1>5. CASE Listen(d) \/ SendIntent(d) \/ ReceiveOther(d)
  <2>1. /\ UNCHANGED lists /\ UNCHANGED <<work, current, ended, handler>>
        /\ pc[d] \in InTest /\ pc'[d] \in InTest /\ \A e \in Device \ {d} : pc'[e] = pc[e]
        /\ pc'[d] # "done"
    BY <1>1, <1>5 DEF TypeOK, Listen, SendIntent, ReceiveOther, signals, InTest
  <2> QED
    BY <2>1, StaysReached
<1>6. CASE \/ RestoreHandler(d)
           \/ AlarmEndsWorker(d)
           \/ DisarmTimer(d) \/ GoOn(d) \/ RestartEmulator(d) \/ StopEmulator(d)
           \/ (Alarm(d) /\ pc[d] \notin InTest)
  <2>1. CASE RestoreHandler(d)
    <3>1. /\ UNCHANGED lists /\ UNCHANGED <<work, current, ended>>
          /\ pc[d] = "exit" /\ pc'[d] = "disarm" /\ \A e \in Device \ {d} : pc'[e] = pc[e]
          /\ \A e \in Device \ {d} : handler'[e] = handler[e]
      BY <1>1, <2>1 DEF TypeOK, RestoreHandler, pages
    <3>2. Entries' = Entries /\ Owners' = Owners /\ main' = main /\ devices' = devices
      BY <3>1, ListsStay DEF lists
    <3> QED
      BY <3>1, <3>2 DEF RunInv, Reached, Handled, InTest
  <2>2. CASE ~RestoreHandler(d)
    <3>1. /\ UNCHANGED lists /\ UNCHANGED <<work, current, ended, handler>>
          /\ \A e \in Device \ {d} : pc'[e] = pc[e]
      BY <1>1, <1>6, <2>2 DEF TypeOK, AlarmEndsWorker, DisarmTimer, GoOn, RestartEmulator,
                              StopEmulator, Alarm, signals, pages, InTest
    <3>2. pc[d] \notin InTest /\ pc'[d] \notin InTest
      BY <1>1, <1>6, <2>2 DEF TypeOK, AlarmEndsWorker, DisarmTimer, GoOn, RestartEmulator,
                              StopEmulator, Alarm, InTest, RunInv, Handled
    <3>3. pc'[d] = "done" => work[d] = {}
      BY <1>1, <1>6, <2>2 DEF TypeOK, AlarmEndsWorker, DisarmTimer, GoOn, RestartEmulator,
                              StopEmulator, Alarm, InTest
    <3> QED
      BY <3>1, <3>2, <3>3, StaysReached
  <2> QED
    BY <2>1, <2>2
<1>7. \/ BeginTest(d) \/ (ReceiveOwn(d) \/ ConnectionFails(d))
      \/ Listen(d) \/ SendIntent(d) \/ ReceiveOther(d)
      \/ RestoreHandler(d) \/ AlarmEndsWorker(d)
      \/ DisarmTimer(d) \/ GoOn(d) \/ RestartEmulator(d) \/ StopEmulator(d) \/ Alarm(d)
  BY DEF Worker
<1> QED
  BY <1>2, <1>3, <1>4, <1>5, <1>6, <1>7

LEMMA NextReaches == RunInv /\ [Next]_vars => RunInv'
<1> SUFFICES ASSUME RunInv, [Next]_vars PROVE RunInv'
  OBVIOUS
<1>1. IInv'
  BY NextPreserves DEF RunInv
<1>2. CASE UNCHANGED vars
  BY <1>1, <1>2, StaysReached DEF vars, signals, pages, RunInv
<1>3. CASE ListBrowser \/ OldEmulatorsGone \/ NoDevices
  <2>1. main' # "running" /\ main # "running" /\ pc' = pc /\ handler' = handler
    BY <1>3 DEF ListBrowser, OldEmulatorsGone, NoDevices, signals
  <2> QED
    BY <1>1, <2>1 DEF RunInv, Reached, Handled
<1>4. ASSUME NEW k \in Entries, Page(k) PROVE Reached' /\ Handled'
  <2>1. UNCHANGED lists /\ UNCHANGED <<pc, work, current, ended, handler>>
    BY <1>4 DEF Page, CompleteTests, StoreResults, RequestNotify, Notify, signals
  <2> QED
    BY <2>1, StaysReached
<1> QED
  BY <1>1, <1>2, <1>3, <1>4, StartReaches, WorkerReaches DEF Next, RunInv

\* When all workers have come to their end no entry of app_list has been left
\* out, however many there are for however many emulators.
THEOREM NothingLeftOut == Spec => []EveryEntryRun
<1>1. Spec => []RunInv
  BY InitEstablishesRuns, NextReaches, PTL DEF Spec
<1>2. RunInv => EveryEntryRun
  <2> SUFFICES ASSUME RunInv, main = "running", \A d \in 1..devices : pc[d] = "done",
                      NEW k \in Entries, ended[k] = "no"
               PROVE  FALSE
    BY DEF EveryEntryRun
  <2>1. Owners[k] \in 1..devices /\ devices <= NumDevices /\ devices \in Nat
    BY DEF RunInv, Reached, IInv, TypeOK
  <2>2. PICK d \in Device : d = Owners[k] /\ d \in 1..devices
    BY <2>1, SizesAssumption DEF Device
  <2>3. pc[d] = "done" /\ pc[d] \notin InTest
    BY <2>2 DEF InTest
  <2> QED
    BY <2>2, <2>3 DEF RunInv, Reached
<1> QED
  BY <1>1, <1>2, PTL
=============================================================================
