----------------------------- MODULE PageRunner -----------------------------
(***************************************************************************)
(* The test page runner (_hp/hp/tools/crawler/test-page-runner.html), which *)
(* runs the tests of a chunk in a browser that is not driven URL by URL:   *)
(* it opens one test page at a time in a new window and goes on when that  *)
(* page posts the message 'finished' or when a timeout runs out.  The end  *)
(* of a test page is save_result (_hp/resources/store_results.sub.js).     *)
(*                                                                         *)
(* The runner is one event loop: a timeout or a message is handled in one  *)
(* step.  The test windows run beside it.  A message names no test and the *)
(* runner asks for no sender, so it is represented here by the window it   *)
(* comes from only to say what the runner does with it.  Closing a window  *)
(* is asynchronous: its scripts may run on until it is gone, and a request *)
(* it has sent is executed by the server even after that.                  *)
(*                                                                         *)
(* Window i shows urls[i - 1].  The durations of the timeouts are          *)
(* abstracted: an armed timeout may run out at any time.                   *)
(***************************************************************************)
EXTENDS Naturals, FiniteSets

CONSTANT NumUrls        \* length of urls

ASSUME NumUrlsAssumption == NumUrls \in Nat \ {0}

Window == 1..NumUrls

VARIABLES
  counter,              \* URLs opened so far
  openWindow,           \* the window opened last, 0 if the browser blocked it
  timers,               \* URLs whose setTimeout is pending
  inbox,                \* windows whose 'finished' message is queued
  finished,             \* "finished" elements appended to the page
  phase,                \* phase[i]: how far the test page in window i is
  shut,                 \* shut[i]: window i is open, closing or gone
  handled,              \* windows whose message the runner has handled
  ended                 \* ended[i]: what made the runner close window i

runner == <<counter, openWindow, timers, finished>>
vars == <<runner, inbox, phase, shut, handled, ended>>

TypeOK ==
  /\ counter \in 0..NumUrls
  /\ openWindow \in 0..NumUrls
  /\ timers \subseteq Window
  /\ inbox \subseteq Window
  /\ finished \in Nat
  /\ phase \in [Window -> {"none", "testing", "saving", "saved", "done"}]
  /\ shut \in [Window -> {"open", "closing", "gone"}]
  /\ handled \subseteq Window
  /\ ended \in [Window -> {"no", "message", "timeout", "stale"}]

\* The script of the runner page has run: the first window is open.
Init ==
  /\ counter = 1
  /\ openWindow \in {0, 1}
  /\ timers = {1}
  /\ inbox = {}
  /\ finished = 0
  /\ phase = [i \in Window |-> IF i = openWindow THEN "testing" ELSE "none"]
  /\ shut = [i \in Window |-> "open"]
  /\ handled = {}
  /\ ended = [i \in Window |-> "no"]

-----------------------------------------------------------------------------
(* The runner                                                              *)

\* closeCurrentWindow, by reason of cause; closing a closed window does nothing.
CloseCurrentWindow(cause) ==
  IF openWindow # 0 /\ shut[openWindow] = "open"
  THEN /\ shut' = [shut EXCEPT ![openWindow] = "closing"]
       /\ ended' = [ended EXCEPT ![openWindow] = cause]
  ELSE UNCHANGED <<shut, ended>>

\* A mutant of OpenOrFinish: the counter is compared with <=.
OpenOnceMore(armed) ==
  \/ /\ counter <= NumUrls
     /\ counter' = counter + 1
     /\ timers' = armed \union {counter + 1}
     /\ openWindow' = counter + 1
     /\ UNCHANGED <<phase, finished>>
  \/ /\ counter > NumUrls
     /\ finished' = finished + 1
     /\ timers' = armed
     /\ UNCHANGED <<counter, openWindow, phase>>

\* A mutant of OpenOrFinish: only a message can end the test just opened.
OpenWithoutTimeout(armed) ==
  \/ /\ counter < NumUrls
     /\ counter' = counter + 1
     /\ timers' = armed
     /\ openWindow' = counter + 1
     /\ phase' = [phase EXCEPT ![counter + 1] = "testing"]
     /\ UNCHANGED finished
  \/ /\ counter = NumUrls
     /\ finished' = finished + 1
     /\ timers' = armed
     /\ UNCHANGED <<counter, openWindow, phase>>

\* The rest of openNextWindow; armed are the timeouts still pending.
OpenOrFinish(armed) ==
  \/ /\ counter < NumUrls
     /\ counter' = counter + 1
     /\ timers' = armed \union {counter + 1}
     /\ \/ /\ openWindow' = counter + 1
           /\ phase' = [phase EXCEPT ![counter + 1] = "testing"]
        \/ /\ openWindow' = 0
           /\ UNCHANGED phase
     /\ UNCHANGED finished
  \/ /\ counter = NumUrls
     /\ finished' = finished + 1
     /\ timers' = armed
     /\ UNCHANGED <<counter, openWindow, phase>>

OpenNextWindow(cause, armed) ==
  /\ CloseCurrentWindow(cause)
  /\ OpenOrFinish(armed)

\* The callback of setTimeout.
Timeout(t) ==
  /\ t \in timers
  /\ OpenNextWindow("timeout", timers \ {t})
  /\ UNCHANGED <<inbox, handled>>

\* A mutant of HandleMessage: the pending timeout is not cleared.
HandleWithoutClear(i) ==
  /\ i \in inbox
  /\ inbox' = inbox \ {i}
  /\ handled' = handled \union {i}
  /\ OpenNextWindow(IF i = openWindow THEN "message" ELSE "stale", timers)

\* handleMessage: clearTimeout(timeoutId), where timeoutId is the timeout set
\* last, then openNextWindow.
HandleMessage(i) ==
  /\ i \in inbox
  /\ inbox' = inbox \ {i}
  /\ handled' = handled \union {i}
  /\ OpenNextWindow(IF i = openWindow THEN "message" ELSE "stale",
                    timers \ {counter})

-----------------------------------------------------------------------------
(* A test window                                                           *)

\* All tests of the page are complete: save_result posts the results.
CompleteTests(i) ==
  /\ phase[i] = "testing"
  /\ shut[i] # "gone"
  /\ phase' = [phase EXCEPT ![i] = "saving"]
  /\ UNCHANGED <<runner, inbox, shut, handled, ended>>

\* The server answers; save_result does not look whether it stored the results.
AnswerRequest(i) ==
  /\ phase[i] = "saving"
  /\ phase' = [phase EXCEPT ![i] = "saved"]
  /\ UNCHANGED <<runner, inbox, shut, handled, ended>>

\* A mutant of PostFinished: the completion callback runs more than once.
PostAgainAndAgain(i) ==
  /\ phase[i] = "saved"
  /\ shut[i] # "gone"
  /\ inbox' = inbox \union {i}
  /\ UNCHANGED <<runner, phase, shut, handled, ended>>

\* The rest of save_result, window.opener.postMessage.
PostFinished(i) ==
  /\ phase[i] = "saved"
  /\ shut[i] # "gone"
  /\ phase' = [phase EXCEPT ![i] = "done"]
  /\ inbox' = inbox \union {i}
  /\ UNCHANGED <<runner, shut, handled, ended>>

Disappear(i) ==
  /\ shut[i] = "closing"
  /\ shut' = [shut EXCEPT ![i] = "gone"]
  /\ UNCHANGED <<runner, inbox, phase, handled, ended>>

-----------------------------------------------------------------------------

Next ==
  \E i \in Window :
    \/ Timeout(i)
    \/ HandleMessage(i)
    \/ CompleteTests(i)
    \/ AnswerRequest(i)
    \/ PostFinished(i)
    \/ Disappear(i)

\* A pending timeout runs out; nothing is assumed of the test windows.
Fairness == \A i \in Window : WF_vars(Timeout(i))

Spec == Init /\ [][Next]_vars

FairSpec == Spec /\ Fairness

-----------------------------------------------------------------------------
(* Properties                                                              *)

Opened == {i \in Window : phase[i] # "none"}
EndedBy(cause) == {i \in Window : ended[i] = cause}

\* One test at a time: of the windows opened, all but the last are closed, and
\* no timeout is pending but that of the last URL.
OneAtATime ==
  /\ {i \in Opened : shut[i] = "open"} \subseteq {openWindow}
  /\ timers \subseteq {counter}

\* A message that arrives late ends the test that is running when it arrives.
\* Such tests are lost unless they were finished themselves, but a test that is
\* late costs at most one other test its result.
EachLateTestCostsOne ==
  Cardinality(EndedBy("stale") \ handled)
    <= Cardinality(EndedBy("timeout") \intersect handled)

\* The runner comes to its end whatever the test windows do.
RunnerFinishes == <>(finished > 0)
=============================================================================
