-------------------------- MODULE RepeatLoopProofs --------------------------
(***************************************************************************)
(* Proofs about RepeatLoop, for any browsers, pages and tests.              *)
(*                                                                         *)
(* That a page made from the URL of a result runs the test again needs two *)
(* facts about what earlier visits have left: the page in the URL of a     *)
(* result runs the test, and its popups are divided only if it is about    *)
(* one id, so that narrowing it to the id of the test changes nothing else. *)
(***************************************************************************)
EXTENDS RepeatLoop, TLAPS

\* The URLs of a round are those of pages that get_tests could have made.
TodoWellFormed == \A url \in todo : WellFormed(url[2])

\* A result was stored by a page that runs its test.
RowsRun == \A t \in Test : \A url \in rows[t] : WellFormed(url[2]) /\ t \in Tests(url[2])

\* calc_repeat raises an exception with --mult_resp_ids only.
FailsWithMult == phase = "failed" => mult

IInv == TodoWellFormed /\ RowsRun /\ FailsWithMult

\* Of the parts of a test the first is a response id.
LEMMA IdOfTest == ASSUME NEW t \in Test PROVE t[1] \in Id /\ t[1] \in Nat
BY IdAssumption DEF Test

\* The page of the URL made for a test is well formed and runs the test, if
\* that of the result does and no exception is raised.
LEMMA RepeatUrlRuns ==
  ASSUME NEW t \in Test, NEW b \in Browser, NEW row,
         WellFormed(row[2]), t \in Tests(row[2])
  PROVE  /\ RepeatUrl(t, b, row)[1] = b
         /\ WellFormed(RepeatUrl(t, b, row)[2])
         /\ t \in Tests(RepeatUrl(t, b, row)[2])
<1> DEFINE narrow == [row[2] EXCEPT !.first = t[1], !.last = t[1]]
<1>1. t[1] \in Id /\ t[1] \in Nat
  BY IdOfTest
<1>2. row[2] \in PageParams
  BY DEF WellFormed
<1>3. /\ narrow \in PageParams /\ narrow.first = t[1] /\ narrow.last = t[1]
      /\ narrow.firstPopup = row[2].firstPopup /\ narrow.lastPopup = row[2].lastPopup
      /\ narrow.noPopup = row[2].noPopup
  BY <1>1, <1>2 DEF PageParams
<1>4. WellFormed(narrow)
  BY <1>3 DEF WellFormed
<1>5. t \in Tests(narrow)
  BY <1>1, <1>3 DEF Tests
<1> HIDE DEF narrow
<1>6. CASE mult
  BY <1>6 DEF RepeatUrl, Url
<1>7. CASE ~mult
  <2>1. RepeatUrl(t, b, row) = <<b, narrow>>
    BY <1>7 DEF RepeatUrl, Url, narrow
  <2> QED
    BY <2>1, <1>4, <1>5
<1> QED
  BY <1>6, <1>7

LEMMA InitIInv == Init => IInv
<1> SUFFICES ASSUME Init PROVE IInv
  OBVIOUS
<1>1. TodoWellFormed
  BY PageAssumption, PagesOfAssumption DEF Init, FirstRound, Url, TodoWellFormed
<1>2. RowsRun /\ FailsWithMult
  BY DEF Init, RowsRun, FailsWithMult
<1> QED
  BY <1>1, <1>2 DEF IInv

LEMMA LoadPreserves ==
  ASSUME IInv, NEW url, NEW T \in SUBSET Tests(url[2]), Load(url, T) PROVE IInv'
<1>1. /\ todo' \subseteq todo /\ url \in todo /\ UNCHANGED <<mult, phase>>
      /\ rows' = [t \in Test |-> IF t \in T THEN rows[t] \union {url} ELSE rows[t]]
  BY DEF Load
<1>2. TodoWellFormed' /\ FailsWithMult'
  BY <1>1 DEF IInv, TodoWellFormed, FailsWithMult, WellFormed
<1>3. ASSUME NEW t \in Test, NEW r \in rows'[t]
      PROVE  WellFormed(r[2]) /\ t \in Tests(r[2])
  <2>1. r \in rows[t] \/ (r = url /\ t \in T)
    BY <1>1, <1>3
  <2>2. CASE r \in rows[t]
    BY <2>2 DEF IInv, RowsRun
  <2>3. CASE r = url /\ t \in T
    BY <2>3, <1>1 DEF IInv, TodoWellFormed
  <2> QED
    BY <2>1, <2>2, <2>3
<1>4. RowsRun'
  BY <1>3 DEF RowsRun, WellFormed, Tests
<1> QED
  BY <1>2, <1>4 DEF IInv

LEMMA NextRoundPreserves == ASSUME IInv, NextRound PROVE IInv'
<1>1. /\ UNCHANGED <<mult, rows>> /\ (phase' = phase \/ phase' = "calc_repeat")
      /\ todo' = FirstRound \/ todo' = todo
  BY DEF NextRound
<1>2. \A url \in FirstRound : WellFormed(url[2])
  BY PageAssumption, PagesOfAssumption DEF FirstRound, Url
<1>3. TodoWellFormed' /\ FailsWithMult'
  BY <1>1, <1>2 DEF IInv, TodoWellFormed, FailsWithMult, WellFormed
<1>4. RowsRun'
  BY <1>1 DEF IInv, RowsRun, WellFormed, Tests
<1> QED
  BY <1>1, <1>3, <1>4 DEF IInv

\* The URLs calc_repeat writes cover what is lacking, and are well formed.
LEMMA Written ==
  ASSUME IInv, CalcRepeat, phase' # "failed"
  PROVE  /\ TodoWellFormed'
         /\ \A t \in Test, b \in Known :
              rows[t] # {} /\ count[t][b] < Wanted =>
                \E url \in todo' : url[1] = b /\ t \in Tests(url[2])
<1>1. PICK first \in [{x[1] : x \in Lacking} -> UNION {rows[t] : t \in Test}] :
        /\ \A t \in DOMAIN first : first[t] \in rows[t]
        /\ todo' = {RepeatUrl(x[1], x[2], first[x[1]]) : x \in Lacking}
  BY DEF CalcRepeat
<1>2. ASSUME NEW x \in Lacking
      PROVE  /\ x[1] \in Test /\ x[2] \in Browser
             /\ WellFormed(first[x[1]][2]) /\ x[1] \in Tests(first[x[1]][2])
  <2>1. x[1] \in Test /\ x[2] \in Browser /\ first[x[1]] \in rows[x[1]]
    BY <1>1 DEF Lacking, Known
  <2> QED
    BY <2>1 DEF IInv, RowsRun
<1>3. ASSUME NEW x \in Lacking
      PROVE  LET url == RepeatUrl(x[1], x[2], first[x[1]]) IN
               url[1] = x[2] /\ WellFormed(url[2]) /\ x[1] \in Tests(url[2])
  BY <1>2, RepeatUrlRuns
<1>4. TodoWellFormed'
  BY <1>1, <1>3 DEF TodoWellFormed, WellFormed
<1>5. ASSUME NEW t \in Test, NEW b \in Known, rows[t] # {}, count[t][b] < Wanted
      PROVE  \E url \in todo' : url[1] = b /\ t \in Tests(url[2])
  <2>1. <<t, b>> \in Lacking
    BY <1>5 DEF Lacking
  <2>2. RepeatUrl(t, b, first[t]) \in todo'
    BY <1>1, <2>1
  <2> QED
    BY <1>3, <2>1, <2>2
<1> QED
  BY <1>4, <1>5

LEMMA CalcRepeatPreserves == ASSUME IInv, CalcRepeat PROVE IInv'
<1>1. UNCHANGED <<mult, rows>>
  BY DEF CalcRepeat
<1>2. RowsRun'
  BY <1>1 DEF IInv, RowsRun, WellFormed, Tests
<1>3. CASE phase' = "failed"
  <2>1. PICK t \in {x[1] : x \in Lacking} :
          \E row \in rows[t] : Raises(row) /\ UNCHANGED todo
    <3>1. PICK first \in [{x[1] : x \in Lacking} -> UNION {rows[t] : t \in Test}] :
            /\ \A t \in DOMAIN first : first[t] \in rows[t]
            /\ \E t \in DOMAIN first : Raises(first[t])
            /\ UNCHANGED todo
      BY <1>3 DEF CalcRepeat
    <3> QED
      BY <3>1
  <2>2. t \in Test
    BY DEF Lacking
  <2>3. mult
    BY <2>1, <2>2 DEF IInv, RowsRun, Raises, WellFormed
  <2>4. TodoWellFormed' /\ FailsWithMult'
    BY <1>1, <2>1, <2>3 DEF IInv, TodoWellFormed, FailsWithMult, WellFormed
  <2> QED
    BY <1>1, <1>2, <2>4 DEF IInv
<1>4. CASE phase' # "failed"
  BY <1>1, <1>2, <1>4, Written DEF IInv, FailsWithMult
<1> QED
  BY <1>3, <1>4

LEMMA NextPreserves == IInv /\ [Next]_vars => IInv'
<1> SUFFICES ASSUME IInv, [Next]_vars PROVE IInv'
  OBVIOUS
<1>1. ASSUME NEW url \in todo, LoadAll(url) PROVE IInv'
  BY <1>1, LoadPreserves DEF LoadAll
<1>2. ASSUME NEW url \in todo, LoadSome(url) PROVE IInv'
  BY <1>2, LoadPreserves DEF LoadSome
<1>3. CASE NextRound
  BY <1>3, NextRoundPreserves
<1>4. CASE CalcRepeat
  BY <1>4, CalcRepeatPreserves
<1>5. CASE UNCHANGED vars
  BY <1>5 DEF vars, IInv, TodoWellFormed, RowsRun, FailsWithMult, WellFormed, Tests
<1> QED
  BY <1>1, <1>2, <1>3, <1>4, <1>5 DEF Next

THEOREM Invariance == Spec => []IInv
BY InitIInv, NextPreserves, PTL DEF Spec

\* calc_repeat never meets a URL it cannot make another from, if it is called
\* without --mult_resp_ids.
THEOREM FailsOnlyWithMult == Spec => []FailsWithMult
BY Invariance, PTL DEF IInv

\* The pages that calc_repeat writes run each test that some browser has a
\* result of and that lacks results in this one.
THEOREM MissingCovered == Spec => CoversMissing
<1>1. IInv /\ [Next]_vars =>
        [phase = "calc_repeat" /\ phase' # "failed" =>
           \A t \in Test, b \in Known :
             rows[t] # {} /\ count[t][b] < Wanted =>
               \E url \in todo' : url[1] = b /\ t \in Tests(url[2])]_vars
  <2> SUFFICES ASSUME IInv, Next, phase = "calc_repeat", phase' # "failed"
               PROVE  \A t \in Test, b \in Known :
                        rows[t] # {} /\ count[t][b] < Wanted =>
                          \E url \in todo' : url[1] = b /\ t \in Tests(url[2])
    OBVIOUS
  <2>1. CalcRepeat
    BY DEF Next, LoadAll, LoadSome, Load, NextRound
  <2> QED
    BY <2>1, Written
<1> QED
  BY <1>1, Invariance, PTL DEF Spec, CoversMissing
=============================================================================
