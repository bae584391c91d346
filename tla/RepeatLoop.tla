----------------------------- MODULE RepeatLoop -----------------------------
(***************************************************************************)
(* How tests get enough results (_hp/hp/tools/crawler/create_repeat.py and  *)
(* the loop of REPRODUCTION.md around it): all pages are visited Wanted     *)
(* times in each browser; then calc_repeat writes the pages of tests that   *)
(* lack results in some browser, they are visited, and again, until nothing *)
(* is lacking.                                                             *)
(*                                                                         *)
(* A test is a response id with a place on the page: place 0 for what opens *)
(* no popup, or the number of a popup.  A page of get_tests runs all places *)
(* of a range of ids, or a range of the popups of one id.                  *)
(*                                                                         *)
(* The URL of a test to be repeated is made from the URL of one of its      *)
(* results, of any browser: the query has no ORDER BY, and the first row of *)
(* each test is taken.                                                     *)
(***************************************************************************)
EXTENDS Integers, FiniteSets

CONSTANTS
  Browser,
  Page,                 \* the pages of get_tests
  PagesOf,              \* PagesOf[b]: those for browser b
  NumPopups,            \* NumPopups[i]: popups that tests with id i open
  Wanted,               \* results wanted: 5
  MaxLosses             \* bound on loads without a result for some test

Id == DOMAIN NumPopups
Test == UNION {{i} \X (0..NumPopups[i]) : i \in Id}

\* The parameters of a page without the origin.
PageParams ==
  [first : Id, last : Id, firstPopup : Nat, lastPopup : Nat, noPopup : BOOLEAN]

\* A page that runs all popups has firstPopup 0.  Only popups of one id are
\* divided: test_info puts a label that opens popups one id on a page.
WellFormed(u) == u \in PageParams /\ (u.firstPopup # 0 => u.first = u.last)

ASSUME IdAssumption == Id \subseteq Nat
ASSUME PageAssumption == \A u \in Page : WellFormed(u)
ASSUME PagesOfAssumption == PagesOf \in [Browser -> SUBSET Page]
ASSUME WantedAssumption == Wanted \in Nat \ {0}
ASSUME MaxLossesAssumption == MaxLosses \in Nat

VARIABLES
  mult,                 \* --mult_resp_ids
  phase,                \* what is run
  rounds,               \* rounds of run_all that are left
  todo,                 \* URLs of this round not yet visited, with their browsers
  count,                \* count[t][b]: results of t in b, Wanted and more alike
  rows,                 \* rows[t]: the URLs in the results of t
  losses

vars == <<mult, phase, rounds, todo, count, rows, losses>>

\* A URL, with the browser_id in it.
Url(b, u) == <<b, u>>
FirstRound == UNION {{Url(b, u) : u \in PagesOf[b]} : b \in Browser}

Init ==
  /\ mult \in BOOLEAN
  /\ phase = "visit"
  /\ rounds = Wanted - 1
  /\ todo = FirstRound
  /\ count = [t \in Test |-> [b \in Browser |-> 0]]
  /\ rows = [t \in Test |-> {}]
  /\ losses = 0

-----------------------------------------------------------------------------

\* The tests of a page: run_tests.
Tests(u) ==
  {t \in Test :
     /\ u.first <= t[1] /\ t[1] <= u.last
     /\ IF t[2] = 0 THEN u.noPopup
        ELSE u.firstPopup = 0 \/ t[2] \in u.firstPopup..u.lastPopup}

\* The browser loads a URL, and the results of tests T are stored.
Load(url, T) ==
  /\ phase = "visit"
  /\ url \in todo
  /\ todo' = todo \ {url}
  /\ count' = [t \in Test |-> [b \in Browser |->
                 IF t \in T /\ b = url[1] /\ count[t][b] < Wanted THEN count[t][b] + 1
                 ELSE count[t][b]]]
  /\ rows' = [t \in Test |-> IF t \in T THEN rows[t] \union {url} ELSE rows[t]]
  /\ UNCHANGED <<mult, phase, rounds>>

LoadAll(url) ==
  /\ Load(url, Tests(url[2]))
  /\ UNCHANGED losses

\* Tests time out, the page does not load, or its results are not stored.
LoadSome(url) ==
  /\ losses < MaxLosses
  /\ losses' = losses + 1
  /\ \E T \in SUBSET Tests(url[2]) : T # Tests(url[2]) /\ Load(url, T)

\* for i in {1..5}
NextRound ==
  /\ phase = "visit"
  /\ todo = {}
  /\ IF rounds > 0
     THEN rounds' = rounds - 1 /\ todo' = FirstRound /\ UNCHANGED phase
     ELSE phase' = "calc_repeat" /\ UNCHANGED <<rounds, todo>>
  /\ UNCHANGED <<mult, count, rows, losses>>

-----------------------------------------------------------------------------
(* calc_repeat                                                             *)

\* The categories of browser_id.
Known == {b \in Browser : \E t \in Test : count[t][b] > 0}

\* tests_to_repeat.  browser_id is categorical, so browsers without a result of
\* the test are counted with 0; a test without any result is not known.
Lacking == {x \in Test \X Known : rows[x[1]] # {} /\ count[x[1]][x[2]] < Wanted}

\* A mutant of RepeatUrl: browser_id of the row is not replaced.
RepeatUrlOfRow(t, b, row) ==
  Url(row[1], IF mult THEN row[2] ELSE [row[2] EXCEPT !.first = t[1], !.last = t[1]])

RepeatUrl(t, b, row) ==
  Url(b, IF mult THEN row[2] ELSE [row[2] EXCEPT !.first = t[1], !.last = t[1]])

\* A mutant of Raises: whether f_id and l_id differ is not asked.
RaisesForPopups(row) == row[2].firstPopup # 0

\* f_id and l_id are not assigned, or differ.
Raises(row) ==
  /\ row[2].firstPopup # 0
  /\ mult \/ row[2].first # row[2].last

CalcRepeat ==
  /\ phase = "calc_repeat"
  /\ \E first \in [{x[1] : x \in Lacking} -> UNION {rows[t] : t \in Test}] :
       /\ \A t \in DOMAIN first : first[t] \in rows[t]
       /\ IF \E t \in DOMAIN first : Raises(first[t])
          THEN phase' = "failed" /\ UNCHANGED todo
          ELSE /\ todo' = {RepeatUrl(x[1], x[2], first[x[1]]) : x \in Lacking}
               /\ phase' = IF todo' = {} THEN "done" ELSE "visit"
  /\ UNCHANGED <<mult, rounds, count, rows, losses>>

-----------------------------------------------------------------------------

Next ==
  \/ \E url \in todo : LoadAll(url) \/ LoadSome(url)
  \/ NextRound
  \/ CalcRepeat

Spec == Init /\ [][Next]_vars

\* The scripts are run again as long as there is something to repeat.
FairSpec == Spec /\ WF_vars(Next)

-----------------------------------------------------------------------------
(* Properties                                                              *)

\* The pages that calc_repeat writes, visited in their browsers, run each test
\* that some browser has a result of and that lacks results in this one.
CoversMissing ==
  [][phase = "calc_repeat" /\ phase' # "failed" =>
       \A t \in Test, b \in Known :
         rows[t] # {} /\ count[t][b] < Wanted =>
           \E url \in todo' : url[1] = b /\ t \in Tests(url[2])]_vars

\* The loop ends, and then all known tests have enough results in all browsers;
\* calc_repeat raises no exception without --mult_resp_ids.
RepeatEnds ==
  <>\/ phase = "failed" /\ mult
    \/ /\ phase = "done"
       /\ \A t \in Test, b \in Known : rows[t] # {} => count[t][b] = Wanted
=============================================================================
