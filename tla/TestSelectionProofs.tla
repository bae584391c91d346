------------------------ MODULE TestSelectionProofs ------------------------
(***************************************************************************)
(* Proofs about the selection of tests, for any ids in any order, with     *)
(* gaps, any origins and declarations, and any limits.                     *)
(*                                                                         *)
(* get_resp_ids: the ids taken so far are those in the splits and those of *)
(* the split the loop is at, and no two of these share an id.              *)
(*                                                                         *)
(* get_tests and the pages never meet, so the invariant says when a URL    *)
(* selects a test (Selects): the popups a page counts before it (Before)   *)
(* have a closed form, and the URLs of a split share its tests among them  *)
(* (Shares).  A test of a listed id waits for just one URL, waits on the   *)
(* page that is open, or has been run once (Served).                       *)
(***************************************************************************)
EXTENDS TestSelection, TLAPS

\* The types of the variables of get_resp_ids.
Typing ==
  /\ numRespIds \in Nat
  /\ respIds \in Seq(Nat \ {0})
  /\ taken \in 0..Len(respIds)
  /\ start \in Nat /\ cur \in Nat /\ count \in Nat
  /\ splits \in Seq([first : Nat, last : Nat])

DistinctIds == \A i, j \in 1..Len(respIds) : respIds[i] = respIds[j] => i = j

\* id is among those taken, in a split, or in the split the loop is at.
Taken(id) == \E i \in 1..taken : respIds[i] = id
InSplit(id) == \E i \in 1..Len(splits) : Covers(splits[i], id)
Current(id) == start # None /\ start <= id /\ id <= cur

NoOverlap ==
  \A id \in Nat : \A i, j \in 1..Len(splits) :
    Covers(splits[i], id) /\ Covers(splits[j], id) => i = j

\* A split has an id, and not too many.
Short ==
  \A i \in 1..Len(splits) :
    /\ 0 < splits[i].first /\ splits[i].first <= splits[i].last
    /\ splits[i].last - splits[i].first < numRespIds

Loop ==
  /\ start # None => start <= cur /\ count = cur - start + 1 /\ count < numRespIds
  /\ \A id \in Nat \ {0} : Taken(id) <=> InSplit(id) \/ Current(id)
  /\ \A id \in Nat : ~(InSplit(id) /\ Current(id))

\* What get_resp_ids promises.
Result == \A id \in Nat \ {0} : id \in Listed <=> InSplit(id)

IInv ==
  /\ Typing /\ DistinctIds /\ NoOverlap /\ Short
  /\ pc = "get_resp_ids" => Loop
  /\ pc # "get_resp_ids" => Result

\* What Append does to the splits.
LEMMA CloseFacts ==
  ASSUME Typing, NEW last \in Nat, CloseSplit(last)
  PROVE  /\ splits' \in Seq([first : Nat, last : Nat])
         /\ Len(splits') = Len(splits) + 1
         /\ \A i \in 1..Len(splits) : splits'[i] = splits[i]
         /\ splits'[Len(splits) + 1] = [first |-> start, last |-> last]
  BY DEF CloseSplit, Typing

\* A split is added that covers no id covered before, and is short enough.
LEMMA CloseKeeps ==
  ASSUME Typing, NoOverlap, Short, NEW last \in Nat, CloseSplit(last), numRespIds' = numRespIds,
         0 < start, start <= last, last - start < numRespIds,
         \A id \in Nat : start <= id /\ id <= last => ~InSplit(id)
  PROVE  /\ NoOverlap' /\ Short'
         /\ \A id \in Nat : InSplit(id)' <=> InSplit(id) \/ (start <= id /\ id <= last)
<1>1. /\ Len(splits) \in Nat
      /\ Len(splits') = Len(splits) + 1
      /\ \A i \in 1..Len(splits) : splits'[i] = splits[i]
      /\ splits'[Len(splits) + 1].first = start /\ splits'[Len(splits) + 1].last = last
  <2>1. Len(splits) \in Nat
    BY DEF Typing
  <2>2. splits'[Len(splits) + 1] = [first |-> start, last |-> last]
    BY CloseFacts
  <2>3. splits'[Len(splits) + 1].first = start /\ splits'[Len(splits) + 1].last = last
    BY <2>2
  <2>4. Len(splits') = Len(splits) + 1 /\ \A i \in 1..Len(splits) : splits'[i] = splits[i]
    BY CloseFacts
  <2> QED
    BY <2>1, <2>3, <2>4
<1>2. \A i \in 1..Len(splits') : i \in 1..Len(splits) \/ i = Len(splits) + 1
  BY <1>1
<1>3. \A id \in Nat : InSplit(id)' <=> InSplit(id) \/ (start <= id /\ id <= last)
  BY <1>1, <1>2 DEF InSplit, Covers
<1>4. NoOverlap'
  BY <1>1, <1>2 DEF NoOverlap, InSplit, Covers
<1>5. Short'
  BY <1>1, <1>2 DEF Short
<1> QED
  BY <1>3, <1>4, <1>5

\* The splits stay as they are.
LEMMA SplitsStay ==
  ASSUME UNCHANGED <<splits, numRespIds>>, NoOverlap, Short
  PROVE  NoOverlap' /\ Short' /\ \A id \in Nat : InSplit(id)' <=> InSplit(id)
  BY DEF NoOverlap, Short, InSplit, Covers

LEMMA InitEstablishes == Init => IInv
<1> SUFFICES ASSUME Init PROVE IInv
  OBVIOUS
<1>1. PICK n \in 0..MaxId :
        respIds \in {s \in [1..n -> Id] : \A i, j \in 1..n : s[i] = s[j] => i = j}
  BY DEF Init, Listings
<1>2. respIds \in [1..n -> Nat \ {0}] /\ n \in Nat
  BY <1>1, MaxIdAssumption DEF Id
<1>3. respIds \in Seq(Nat \ {0}) /\ Len(respIds) = n
  BY <1>2
<1>4. Typing /\ DistinctIds
  BY <1>1, <1>3, LimitsAssumption DEF Init, Typing, DistinctIds, None
<1>5. NoOverlap /\ Short
  BY DEF Init, NoOverlap, Short
<1>6. Loop
  BY DEF Init, Loop, Taken, InSplit, Current, None
<1> QED
  BY <1>4, <1>5, <1>6 DEF IInv, Init

-----------------------------------------------------------------------------
(* The loop                                                                *)

LEMMA TakePreserves == ASSUME IInv, TakeId PROVE IInv'
<1> DEFINE next == respIds[taken + 1]
<1>1. /\ UNCHANGED <<numRespIds, respIds>> /\ pc = "get_resp_ids" /\ pc' = pc
      /\ numRespIds > 1 /\ taken < Len(respIds) /\ taken' = taken + 1
  BY DEF TakeId, parameters
<1>2. Typing /\ DistinctIds /\ NoOverlap /\ Short /\ Loop
  BY <1>1 DEF IInv
<1>3. next \in Nat \ {0} /\ taken + 1 \in 1..Len(respIds)
  BY <1>1, <1>2 DEF Typing
<1>4. \A id \in Nat \ {0} : Taken(id)' <=> Taken(id) \/ id = next
  BY <1>1, <1>2, <1>3 DEF Typing, Taken
<1>5. ~Taken(next) /\ ~InSplit(next) /\ ~Current(next)
  <2>1. \A i \in 1..taken : i \in 1..Len(respIds) /\ i # taken + 1
    BY <1>1, <1>2 DEF Typing
  <2>2. ~Taken(next)
    BY <1>2, <1>3, <2>1 DEF Taken, DistinctIds
  <2>3. Taken(next) <=> InSplit(next) \/ Current(next)
    BY <1>2, <1>3 DEF Loop
  <2> QED
    BY <2>2, <2>3
<1> HIDE DEF next
<1>6. CASE start = None /\ BeginSplit(next) /\ UNCHANGED splits
  <2>1. start' = next /\ cur' = next /\ count' = 1 /\ ~\E id \in Nat : Current(id)
    BY <1>6 DEF BeginSplit, Current
  <2>2. NoOverlap' /\ Short' /\ \A id \in Nat : InSplit(id)' <=> InSplit(id)
    BY <1>1, <1>2, <1>6, SplitsStay
  <2>3. \A id \in Nat : Current(id)' <=> id = next
    BY <1>3, <2>1 DEF Current, None
  <2>4. Typing'
    BY <1>1, <1>2, <1>3, <1>6, <2>1 DEF Typing
  <2>5. Loop'
    BY <1>1, <1>2, <1>3, <1>4, <1>5, <2>1, <2>2, <2>3 DEF Loop, Typing
  <2> QED
    BY <1>1, <1>2, <2>2, <2>4, <2>5 DEF IInv, DistinctIds
<1>7. CASE start # None /\ Gap(next) /\ CloseSplit(cur) /\ BeginSplit(next)
  <2>1. start' = next /\ cur' = next /\ count' = 1
    BY <1>7 DEF BeginSplit
  <2>2. \A id \in Nat : Current(id) <=> start <= id /\ id <= cur
    BY <1>7 DEF Current
  <2>3. 0 < start /\ start <= cur /\ cur - start < numRespIds /\ cur \in Nat
    BY <1>2, <1>7 DEF Loop, Typing, None
  <2>4. \A id \in Nat : start <= id /\ id <= cur => ~InSplit(id)
    BY <1>2, <2>2 DEF Loop
  <2>5. NoOverlap' /\ Short' /\ \A id \in Nat : InSplit(id)' <=> InSplit(id) \/ Current(id)
    BY <1>1, <1>2, <1>7, <2>2, <2>3, <2>4, CloseKeeps
  <2>6. \A id \in Nat : Current(id)' <=> id = next
    BY <1>3, <2>1 DEF Current, None
  <2>7. Typing'
    <3>1. splits' \in Seq([first : Nat, last : Nat])
      BY <1>2, <1>7, <2>3, CloseFacts
    <3> QED
      BY <1>1, <1>2, <1>3, <2>1, <3>1 DEF Typing
  <2>8. Loop'
    BY <1>1, <1>2, <1>3, <1>4, <1>5, <2>1, <2>5, <2>6 DEF Loop, Typing
  <2> QED
    BY <1>1, <1>2, <2>5, <2>7, <2>8 DEF IInv, DistinctIds
<1>8. CASE start # None /\ ~Gap(next) /\ Full /\ CloseSplit(next) /\ NoSplit
  <2>1. start' = None /\ cur' = None /\ count' = 0
    BY <1>8 DEF NoSplit
  <2>2. next = cur + 1 /\ count + 1 = numRespIds /\ start <= cur /\ count = cur - start + 1
    BY <1>2, <1>3, <1>8 DEF Gap, Full, Loop, Typing
  <2>3. \A id \in Nat : start <= id /\ id <= next <=> Current(id) \/ id = next
    BY <1>2, <1>8, <2>2 DEF Current, Typing
  <2>4. \A id \in Nat : start <= id /\ id <= next => ~InSplit(id)
    BY <1>2, <1>5, <2>3 DEF Loop
  <2>5. 0 < start /\ start <= next /\ next - start < numRespIds
    BY <1>2, <1>8, <2>2 DEF Typing, None
  <2>6. /\ NoOverlap' /\ Short'
        /\ \A id \in Nat : InSplit(id)' <=> InSplit(id) \/ Current(id) \/ id = next
    BY <1>1, <1>2, <1>3, <1>8, <2>3, <2>4, <2>5, CloseKeeps
  <2>7. \A id \in Nat : ~Current(id)'
    BY <2>1 DEF Current
  <2>8. Typing'
    <3>1. splits' \in Seq([first : Nat, last : Nat])
      BY <1>2, <1>3, <1>8, CloseFacts
    <3> QED
      BY <1>1, <1>2, <1>3, <2>1, <3>1 DEF Typing, None
  <2>9. Loop'
    BY <1>1, <1>2, <1>3, <1>4, <2>1, <2>6, <2>7 DEF Loop
  <2> QED
    BY <1>1, <1>2, <2>6, <2>8, <2>9 DEF IInv, DistinctIds
<1>9. CASE /\ start # None /\ ~Gap(next) /\ ~Full
           /\ cur' = next /\ count' = count + 1
           /\ UNCHANGED <<start, splits>>
  <2>1. next = cur + 1 /\ count + 1 # numRespIds /\ start <= cur
        /\ count = cur - start + 1 /\ count < numRespIds
    BY <1>2, <1>3, <1>9 DEF Gap, Full, Loop, Typing
  <2>2. NoOverlap' /\ Short' /\ \A id \in Nat : InSplit(id)' <=> InSplit(id)
    BY <1>1, <1>2, <1>9, SplitsStay
  <2>3. \A id \in Nat : Current(id)' <=> Current(id) \/ id = next
    BY <1>2, <1>9, <2>1 DEF Current, Typing
  <2>4. Typing'
    BY <1>1, <1>2, <1>3, <1>9 DEF Typing
  <2>5. start' # None => start' <= cur' /\ count' = cur' - start' + 1 /\ count' < numRespIds'
    BY <1>1, <1>2, <1>9, <2>1 DEF Typing
  <2>6. Loop'
    BY <1>1, <1>2, <1>3, <1>4, <1>5, <2>2, <2>3, <2>5 DEF Loop
  <2> QED
    BY <1>1, <1>2, <2>2, <2>4, <2>6 DEF IInv, DistinctIds
<1> QED
  BY <1>6, <1>7, <1>8, <1>9 DEF TakeId, next

LEMMA EndPreserves == ASSUME IInv, EndSplits PROVE IInv'
<1>1. /\ UNCHANGED <<numRespIds, respIds, taken>>
      /\ pc = "get_resp_ids" /\ pc' = "get_tests" /\ taken = Len(respIds)
      /\ start' = None /\ cur' = None /\ count' = 0
  BY DEF EndSplits, parameters, NoSplit
<1>2. Typing /\ DistinctIds /\ NoOverlap /\ Short /\ Loop
  BY <1>1 DEF IInv
<1>3. \A id \in Nat \ {0} : id \in Listed' <=> Taken(id)
  BY <1>1, <1>2 DEF Typing, Listed, Taken
<1>4. CASE start # None
  <2>1. CloseSplit(cur)
    BY <1>4 DEF EndSplits
  <2>2. \A id \in Nat : Current(id) <=> start <= id /\ id <= cur
    BY <1>4 DEF Current
  <2>3. 0 < start /\ start <= cur /\ cur - start < numRespIds /\ cur \in Nat
    BY <1>2, <1>4 DEF Loop, Typing, None
  <2>4. \A id \in Nat : start <= id /\ id <= cur => ~InSplit(id)
    BY <1>2, <2>2 DEF Loop
  <2>5. NoOverlap' /\ Short' /\ \A id \in Nat : InSplit(id)' <=> InSplit(id) \/ Current(id)
    BY <1>1, <1>2, <2>1, <2>2, <2>3, <2>4, CloseKeeps
  <2>6. Typing'
    BY <1>1, <1>2, <2>1, <2>3, CloseFacts DEF Typing, None
  <2>7. Result'
    BY <1>2, <1>3, <2>5 DEF Result, Loop
  <2> QED
    BY <1>1, <1>2, <2>5, <2>6, <2>7 DEF IInv, DistinctIds
<1>5. CASE start = None
  <2>1. UNCHANGED splits
    BY <1>5 DEF EndSplits
  <2>2. NoOverlap' /\ Short' /\ \A id \in Nat : InSplit(id)' <=> InSplit(id)
    BY <1>1, <1>2, <2>1, SplitsStay
  <2>3. Typing'
    BY <1>1, <1>2, <2>1 DEF Typing, None
  <2>4. Result'
    BY <1>2, <1>3, <1>5, <2>2 DEF Result, Loop, Current
  <2> QED
    BY <1>1, <1>2, <2>2, <2>3, <2>4 DEF IInv, DistinctIds
<1> QED
  BY <1>4, <1>5

\* Without the loop, there is a split for each id.
LEMMA EachPreserves == ASSUME IInv, SplitEach PROVE IInv'
<1>1. /\ UNCHANGED <<numRespIds, respIds, start, cur, count>>
      /\ pc' = "get_tests" /\ numRespIds = 1 /\ taken' = Len(respIds)
      /\ splits' = [i \in 1..Len(respIds) |-> [first |-> respIds[i], last |-> respIds[i]]]
  BY DEF SplitEach, parameters
<1>2. Typing /\ DistinctIds
  BY DEF IInv
<1>3. Len(respIds) \in Nat /\ \A i \in 1..Len(respIds) : respIds[i] \in Nat \ {0}
  BY <1>2 DEF Typing
<1>4. /\ splits' \in Seq([first : Nat, last : Nat]) /\ Len(splits') = Len(respIds)
      /\ \A i \in 1..Len(respIds) : splits'[i].first = respIds[i] /\ splits'[i].last = respIds[i]
  BY <1>1, <1>3
<1>5. Typing'
  BY <1>1, <1>2, <1>3, <1>4 DEF Typing
<1>6. \A i \in 1..Len(splits') : \A id \in Nat : Covers(splits'[i], id) <=> id = respIds[i]
  BY <1>3, <1>4 DEF Covers
<1>7. NoOverlap'
  <2>1. ASSUME NEW id \in Nat, NEW i \in 1..Len(splits'), NEW j \in 1..Len(splits'),
               Covers(splits'[i], id), Covers(splits'[j], id)
        PROVE  i = j
    <3>1. respIds[i] = id /\ respIds[j] = id
      BY <1>6, <2>1
    <3> QED
      BY <1>2, <1>4, <2>1, <3>1 DEF DistinctIds
  <2> QED
    BY <2>1 DEF NoOverlap, Covers
<1>8. Short'
  <2>1. ASSUME NEW i \in 1..Len(splits')
        PROVE  /\ 0 < splits'[i].first /\ splits'[i].first <= splits'[i].last
               /\ splits'[i].last - splits'[i].first < numRespIds'
    <3>1. respIds[i] \in Nat \ {0} /\ splits'[i].first = respIds[i] /\ splits'[i].last = respIds[i]
      BY <1>3, <1>4, <2>1
    <3>2. numRespIds' = 1
      BY <1>1
    <3> QED
      BY <3>1, <3>2
  <2> QED
    BY <2>1 DEF Short
<1>9. Result'
  <2>1. \A id \in Nat : id \in Listed <=> \E i \in 1..Len(splits') : Covers(splits'[i], id)
    BY <1>4, <1>6 DEF Listed
  <2>2. Listed' = Listed
    BY <1>1 DEF Listed
  <2> QED
    BY <2>1, <2>2 DEF Result, InSplit, Covers
<1> QED
  BY <1>1, <1>2, <1>5, <1>7, <1>8, <1>9 DEF IInv, DistinctIds

\* Nobody changes the splits later.
LEMMA QuietPreserves ==
  ASSUME IInv, UNCHANGED numRespIds, UNCHANGED search,
         pc' = pc \/ (pc # "get_resp_ids" /\ pc' # "get_resp_ids")
  PROVE  IInv'
<1>1. /\ UNCHANGED <<numRespIds, respIds, taken, start, cur, count, splits>>
  BY DEF search
<1>2. Typing' /\ DistinctIds' /\ NoOverlap' /\ Short'
  BY <1>1, SplitsStay DEF IInv, Typing, DistinctIds
<1>3. (Loop <=> Loop') /\ (Result <=> Result')
  BY <1>1 DEF Loop, Result, Taken, InSplit, Current, Listed, Covers
<1> QED
  BY <1>2, <1>3 DEF IInv

-----------------------------------------------------------------------------
(* What get_resp_ids promises                                              *)

LEMMA SplittingPreserves == IInv /\ [Next]_vars => IInv'
<1> SUFFICES ASSUME IInv, [Next]_vars PROVE IInv'
  OBVIOUS
<1>1. CASE AddUrls \/ EndUrls \/ OpenPage \/ EndCrawl \/ TryTest
  BY <1>1, QuietPreserves DEF AddUrls, EndUrls, OpenPage, EndCrawl, TryTest, parameters
<1>2. CASE UNCHANGED vars
  BY <1>2, QuietPreserves DEF vars, parameters, search
<1> QED
  BY <1>1, <1>2, TakePreserves, EndPreserves, EachPreserves DEF Next

\* get_resp_ids gives every listed id to exactly one split, no other id to any,
\* and makes no split too long.
THEOREM SplittingCorrect == Spec => []SplitsPartition
<1>1. IInv => SplitsPartition
  <2> SUFFICES ASSUME IInv, pc # "get_resp_ids" PROVE SplitsPartition
    BY DEF SplitsPartition
  <2>1. Id \subseteq Nat \ {0}
    BY MaxIdAssumption DEF Id
  <2> QED
    BY <2>1 DEF IInv, SplitsPartition, NoOverlap, Short, Result, InSplit
<1> QED
  BY <1>1, InitEstablishes, SplittingPreserves, PTL DEF Spec

-----------------------------------------------------------------------------
(* The places of the tests on a page                                       *)

\* The popups that a page of u meets before test x.
Before(u, x) ==
  (x[1] - u.first) * NumPopups + (x[2] - 1) * NumWithPopup
    + IF HasPopup(x[3]) THEN x[3] - NumPlain - 1 ELSE 0

\* Test x is not before test y in the loops of run_tests.
NotBefore(x, y) ==
  \/ x[1] > y[1]
  \/ x[1] = y[1] /\ x[2] > y[2]
  \/ x[1] = y[1] /\ x[2] = y[2] /\ x[3] >= y[3]

LEMMA TestParts ==
  ASSUME NEW x \in Test
  PROVE  /\ x[1] \in 1..MaxId /\ x[2] \in 1..NumOrigins /\ x[3] \in 1..(NumPlain + NumWithPopup)
         /\ x = <<x[1], x[2], x[3]>>
  BY DEF Test, Id, Origin, Declaration

LEMMA Product == ASSUME NEW a \in Nat, NEW b \in Nat PROVE a * b \in Nat
  OBVIOUS

LEMMA OneMore == ASSUME NEW a \in Int, NEW b \in Int PROVE (a + 1) * b = a * b + b
  OBVIOUS

LEMMA Larger ==
  ASSUME NEW a \in Nat, NEW b \in Nat, NEW n \in Nat, a <= b PROVE a * n <= b * n
  OBVIOUS

LEMMA Division ==
  ASSUME NEW a \in Nat, NEW m \in Nat \ {0}
  PROVE  /\ a \div m \in Nat
         /\ (a \div m) * m <= a /\ a < (a \div m) * m + m
  OBVIOUS

LEMMA PopupsOfPage == NumPopups \in Nat /\ MaxId \in Nat
  BY PageAssumption, MaxIdAssumption, NumPopupsAssumption, Product

\* A page counts no more popups than its ids have.
LEMMA BeforeBounds ==
  ASSUME NEW u, u.first \in Nat, NEW x \in Test, u.first <= x[1]
  PROVE  /\ Before(u, x) \in Nat
         /\ HasPopup(x[3]) => Before(u, x) + 1 <= (x[1] - u.first + 1) * NumPopups
<1> DEFINE a == (x[1] - u.first) * NumPopups
           b == (x[2] - 1) * NumWithPopup
<1>1. /\ x[1] \in Nat /\ x[2] \in 1..NumOrigins /\ x[3] \in 1..(NumPlain + NumWithPopup)
      /\ NumOrigins \in Nat /\ NumPlain \in Nat /\ NumWithPopup \in Nat /\ NumPopups \in Nat
  BY TestParts, PageAssumption, MaxIdAssumption, PopupsOfPage
<1>2. x[1] - u.first \in Nat /\ x[2] - 1 \in Nat /\ NumOrigins \in Nat
  BY <1>1
<1>3. a \in Nat /\ b \in Nat
  BY <1>1, <1>2, Product
<1>4. (x[1] - u.first + 1) * NumPopups = a + NumPopups
  BY <1>1, <1>2, OneMore
<1>5. b + NumWithPopup <= NumPopups
  <2>1. b + NumWithPopup = (x[2] - 1 + 1) * NumWithPopup
    BY <1>1, <1>2, OneMore
  <2>2. x[2] - 1 + 1 \in Nat /\ x[2] - 1 + 1 <= NumOrigins
    BY <1>1
  <2>3. (x[2] - 1 + 1) * NumWithPopup <= NumOrigins * NumWithPopup
    BY <1>1, <2>2, Larger
  <2> QED
    BY <2>1, <2>3, NumPopupsAssumption
<1>6. Before(u, x) = a + b + IF HasPopup(x[3]) THEN x[3] - NumPlain - 1 ELSE 0
  BY DEF Before
<1> HIDE DEF a, b
<1> QED
  BY <1>1, <1>3, <1>4, <1>5, <1>6 DEF HasPopup

\* The loops meet the tests in this order, and count a popup with each that
\* has one.
LEMMA FollowingCounts ==
  ASSUME NEW u, u.first \in Nat, NEW x \in Test
  PROVE  Before(u, Following(x)) = Before(u, x) + IF HasPopup(x[3]) THEN 1 ELSE 0
<1> DEFINE a == (x[1] - u.first) * NumPopups
           b == (x[2] - 1) * NumWithPopup
<1>1. /\ x[1] \in Nat /\ x[2] \in 1..NumOrigins /\ x[3] \in 1..(NumPlain + NumWithPopup)
      /\ NumOrigins \in Nat /\ NumPlain \in Nat /\ NumWithPopup \in Nat /\ NumPopups \in Nat
  BY TestParts, PageAssumption, MaxIdAssumption, PopupsOfPage
<1>2. /\ a \in Int /\ b \in Int
      /\ (x[1] + 1 - u.first) * NumPopups = a + NumPopups
      /\ x[2] * NumWithPopup = b + NumWithPopup
      /\ (1 - 1) * NumWithPopup = 0
  <2>1. x[1] - u.first \in Int /\ x[2] - 1 \in Int
        /\ x[1] + 1 - u.first = x[1] - u.first + 1 /\ x[2] = x[2] - 1 + 1
    BY <1>1
  <2> QED
    BY <1>1, <2>1, OneMore
<1>3. Before(u, x) = a + b + IF HasPopup(x[3]) THEN x[3] - NumPlain - 1 ELSE 0
  BY DEF Before
<1> DEFINE f == Following(x)
           c == (f[1] - u.first) * NumPopups
           d == (f[2] - 1) * NumWithPopup
           e == IF HasPopup(f[3]) THEN f[3] - NumPlain - 1 ELSE 0
<1>4. Before(u, f) = c + d + e
  BY DEF Before
<1>5. CASE x[3] < NumPlain + NumWithPopup
  <2>1. f[1] = x[1] /\ f[2] = x[2] /\ f[3] = x[3] + 1
    BY <1>5 DEF Following
  <2>2. c = a /\ d = b
    BY <2>1
  <2>3. e = IF HasPopup(x[3] + 1) THEN x[3] - NumPlain ELSE 0
    BY <1>1, <2>1
  <2> HIDE DEF a, b, c, d, e
  <2> QED
    BY <1>1, <1>2, <1>3, <1>4, <2>2, <2>3 DEF HasPopup
<1>6. CASE x[3] = NumPlain + NumWithPopup /\ x[2] < NumOrigins
  <2>1. f[1] = x[1] /\ f[2] - 1 = x[2] /\ f[3] = 1
    BY <1>1, <1>6 DEF Following
  <2>2. c = a /\ d = b + NumWithPopup
    BY <1>2, <2>1
  <2>3. e = 0
    BY <1>1, <2>1 DEF HasPopup
  <2> HIDE DEF a, b, c, d, e
  <2> QED
    BY <1>1, <1>2, <1>3, <1>4, <1>6, <2>2, <2>3 DEF HasPopup
<1>7. CASE x[3] = NumPlain + NumWithPopup /\ x[2] = NumOrigins
  <2>1. f[1] = x[1] + 1 /\ f[2] = 1 /\ f[3] = 1
    BY <1>1, <1>7 DEF Following
  <2>2. c = a + NumPopups /\ d = 0
    <3>1. f[1] - u.first = x[1] + 1 - u.first
      BY <1>1, <2>1
    <3>2. c = (x[1] + 1 - u.first) * NumPopups
      BY ONLY <3>1 DEF c
    <3>3. d = (1 - 1) * NumWithPopup
      BY <2>1
    <3> QED
      BY <1>2, <3>2, <3>3
  <2>3. e = 0
    BY <1>1, <2>1 DEF HasPopup
  <2>4. NumPopups = b + NumWithPopup
    BY <1>2, <1>7, NumPopupsAssumption
  <2> HIDE DEF a, b, c, d, e
  <2> QED
    BY <1>1, <1>2, <1>3, <1>4, <1>7, <2>2, <2>3, <2>4 DEF HasPopup
<1> QED
  BY <1>1, <1>5, <1>6, <1>7

LEMMA FollowingOrder ==
  ASSUME NEW x \in Test
  PROVE  /\ Following(x)[1] \in {x[1], x[1] + 1}
         /\ Following(x)[1] \in Id => Following(x) \in Test
         /\ \A y \in Test : NotBefore(y, Following(x)) <=> NotBefore(y, x) /\ y # x
<1>1. /\ x[1] \in Nat /\ x[2] \in 1..NumOrigins /\ x[3] \in 1..(NumPlain + NumWithPopup)
      /\ NumOrigins \in Nat /\ NumPlain \in Nat /\ NumWithPopup \in Nat
      /\ x = <<x[1], x[2], x[3]>>
  BY TestParts, PageAssumption, MaxIdAssumption
<1>2. /\ Following(x)[1] \in {x[1], x[1] + 1}
      /\ Following(x)[1] \in Id => Following(x) \in Test
  BY <1>1 DEF Following, Test, Origin, Declaration
<1>3. ASSUME NEW y \in Test
      PROVE  NotBefore(y, Following(x)) <=> NotBefore(y, x) /\ y # x
  <2>1. /\ y[1] \in Nat /\ y[2] \in 1..NumOrigins /\ y[3] \in 1..(NumPlain + NumWithPopup)
        /\ y = <<y[1], y[2], y[3]>>
    BY TestParts, MaxIdAssumption
  <2>2. y # x <=> y[1] # x[1] \/ y[2] # x[2] \/ y[3] # x[3]
    BY <1>1, <2>1
  <2> QED
    BY <1>1, <2>1, <2>2 DEF Following, NotBefore
<1> QED
  BY <1>2, <1>3

-----------------------------------------------------------------------------
(* The URLs of a split                                                     *)

AnyUrl == [first : Nat, last : Nat, firstPopup : Nat, lastPopup : Nat, noPopup : BOOLEAN]

\* The parameters of URL u select test x on its page.
InPart(u, x) ==
  IF HasPopup(x[3]) THEN u.firstPopup <= Before(u, x) + 1 /\ Before(u, x) + 1 <= u.lastPopup
  ELSE u.noPopup

Selects(u, x) == Covers(u, x[1]) /\ InPart(u, x)

\* A URL that get_tests may make.
Allowed(u) ==
  /\ u.first \in Id /\ u.last \in Id /\ u.first <= u.last
  /\ \/ u.firstPopup = 0 /\ (u.last - u.first + 1) * NumPopups <= maxPopups
     \/ u.firstPopup > 0 /\ u.lastPopup < u.firstPopup + maxPopups

\* The URLs in w share the tests of split s among them.
Shares(w, s) ==
  /\ w \in Seq(AnyUrl)
  /\ \A i \in 1..Len(w) : Allowed(w[i])
  /\ \A x \in Test : \A i, j \in 1..Len(w) : Selects(w[i], x) /\ Selects(w[j], x) => i = j
  /\ \A x \in Test : (\E i \in 1..Len(w) : Selects(w[i], x)) <=> Covers(s, x[1])

\* The popups that the ids from first to last open.
PopupsOf(s) == NumPopups * (s.last - s.first + 1)

\* A popup of a page has its number among those of the split.
LEMMA NumberInSplit ==
  ASSUME NEW s \in Split, NEW x \in Test, Covers(s, x[1]), HasPopup(x[3]),
         NEW u, u.first = s.first
  PROVE  /\ Before(u, x) \in Nat /\ Before(u, x) + 1 <= PopupsOf(s)
         /\ PopupsOf(s) \in Nat /\ PopupsOf(s) <= MaxId * NumPopups
<1>1. /\ s.first \in Nat /\ s.first > 0 /\ s.last \in Nat /\ s.last <= MaxId /\ x[1] \in Nat
      /\ s.first <= x[1] /\ x[1] <= s.last /\ NumPopups \in Nat /\ MaxId \in Nat
  BY TestParts, PopupsOfPage, MaxIdAssumption DEF Covers, Split, Id
<1>2. Before(u, x) \in Nat /\ Before(u, x) + 1 <= (x[1] - s.first + 1) * NumPopups
  BY <1>1, BeforeBounds
<1>3. /\ x[1] - s.first + 1 \in Nat /\ s.last - s.first + 1 \in Nat
      /\ x[1] - s.first + 1 <= s.last - s.first + 1 /\ s.last - s.first + 1 <= MaxId
  BY <1>1
<1>4. /\ (x[1] - s.first + 1) * NumPopups <= (s.last - s.first + 1) * NumPopups
      /\ (s.last - s.first + 1) * NumPopups <= MaxId * NumPopups
      /\ (x[1] - s.first + 1) * NumPopups \in Nat /\ (s.last - s.first + 1) * NumPopups \in Nat
      /\ MaxId * NumPopups \in Nat
  BY <1>1, <1>3, Larger, Product
<1>5. PopupsOf(s) = (s.last - s.first + 1) * NumPopups
  BY <1>1, <1>3 DEF PopupsOf
<1> QED
  BY <1>2, <1>4, <1>5

\* A page that runs all tests of its ids.
LEMMA WholeShares ==
  ASSUME NEW s \in Split, s.first <= s.last, maxPopups \in Nat \ {0},
         PopupsOf(s) <= maxPopups
  PROVE  Shares(WholeUrl(s), s)
<1> DEFINE w == WholeUrl(s)
           u == [first |-> s.first, last |-> s.last, firstPopup |-> 0, lastPopup |-> Infinity,
                 noPopup |-> TRUE]
<1>1. s.first \in Nat /\ s.last \in Nat /\ s.first \in Id /\ s.last \in Id /\ Infinity \in Nat
  BY MaxIdAssumption, PopupsOfPage, Product DEF Split, Id, Infinity
<1>2. w \in Seq(AnyUrl) /\ Len(w) = 1 /\ w[1] = u
  BY <1>1 DEF WholeUrl, AnyUrl
<1>3. \A i \in 1..Len(w) : i = 1
  BY <1>2
<1>4. Allowed(u)
  <2>1. PopupsOf(s) = (s.last - s.first + 1) * NumPopups
    BY <1>1, PopupsOfPage DEF PopupsOf
  <2> QED
    BY <1>1, <2>1 DEF Allowed
<1>5. ASSUME NEW x \in Test PROVE Selects(u, x) <=> Covers(s, x[1])
  <2>1. Covers(u, x[1]) <=> Covers(s, x[1])
    BY DEF Covers
  <2>2. ASSUME Covers(s, x[1]), HasPopup(x[3])
        PROVE  0 <= Before(u, x) + 1 /\ Before(u, x) + 1 <= Infinity
    <3>1. /\ Before(u, x) \in Nat /\ Before(u, x) + 1 <= PopupsOf(s)
          /\ PopupsOf(s) \in Nat /\ PopupsOf(s) <= MaxId * NumPopups
      BY <2>2, NumberInSplit
    <3>2. MaxId * NumPopups \in Nat
      BY PopupsOfPage, Product
    <3> HIDE DEF u
    <3> QED
      BY <3>1, <3>2 DEF Infinity
  <2> QED
    BY <2>1, <2>2 DEF Selects, InPart
<1> HIDE DEF u, w
<1> QED
  BY <1>2, <1>3, <1>4, <1>5 DEF Shares, w

\* The buckets do not overlap.
LEMMA OneBucket ==
  ASSUME NEW m \in Nat, NEW i \in Nat, NEW j \in Nat, NEW n \in Nat,
         (i - 1) * m + 1 <= n, n <= j * m
  PROVE  i <= j
<1> SUFFICES ASSUME j <= i - 1 PROVE FALSE
  OBVIOUS
<1>1. j * m <= (i - 1) * m
  BY Larger
<1>2. j * m \in Nat /\ (i - 1) * m \in Nat
  BY Product
<1> QED
  BY <1>1, <1>2

\* Every popup has a bucket.
LEMMA SomeBucket ==
  ASSUME NEW m \in Nat \ {0}, NEW all \in Nat, NEW n \in 1..all
  PROVE  \E i \in 1..((all + m - 1) \div m) : (i - 1) * m + 1 <= n /\ n <= i * m
<1> DEFINE b == (n - 1) \div m
           k == (all + m - 1) \div m
<1>1. b \in Nat /\ b * m <= n - 1 /\ n - 1 < b * m + m
  BY Division
<1>2. k \in Nat /\ k * m <= all + m - 1 /\ all + m - 1 < k * m + m
  BY Division
<1> HIDE DEF b, k
<1>3. (b + 1) * m = b * m + m /\ b * m \in Nat /\ k * m \in Nat
  BY <1>1, <1>2, OneMore, Product
<1>4. b < k
  <2> SUFFICES ASSUME k <= b PROVE FALSE
    BY <1>1, <1>2
  <2>1. k * m <= b * m
    BY <1>1, <1>2, Larger
  <2> QED
    BY <1>1, <1>2, <1>3, <2>1
<1>5. b + 1 \in 1..k /\ (b + 1) - 1 = b
  BY <1>1, <1>2, <1>4
<1>6. ((b + 1) - 1) * m + 1 <= n /\ n <= (b + 1) * m
  BY <1>1, <1>3, <1>5
<1> QED
  BY <1>5, <1>6 DEF k

\* The pages of a split with too many popups for one.
LEMMA BucketsShare ==
  ASSUME NEW s \in Split, s.first <= s.last, maxPopups \in Nat \ {0},
         PopupsOf(s) \in Nat, PopupsOf(s) > maxPopups
  PROVE  Shares(Buckets(s, PopupsOf(s)), s)
<1> DEFINE all == PopupsOf(s)
           k == (all + maxPopups - 1) \div maxPopups
           w == Buckets(s, all)
<1> USE DEF LastPopup, Smaller, RunNoPopup
<1>1. /\ s.first \in Nat /\ s.last \in Nat /\ s.first \in Id /\ s.last \in Id
      /\ all \in Nat /\ maxPopups \in Nat \ {0}
  BY MaxIdAssumption DEF Split, Id
<1> HIDE DEF all
<1>2. k \in Nat /\ k > 0
  <2>1. /\ k \in Nat /\ k * maxPopups \in Nat
        /\ all + maxPopups - 1 < k * maxPopups + maxPopups
    BY <1>1, Division, Product
  <2>2. k = 0 => k * maxPopups = 0
    BY <1>1
  <2> HIDE DEF k
  <2> QED
    BY <1>1, <2>1, <2>2 DEF all
<1>3. ASSUME NEW i \in 1..k
      PROVE  /\ w[i].first = s.first /\ w[i].last = s.last
             /\ w[i].firstPopup = (i - 1) * maxPopups + 1
             /\ w[i].lastPopup = LastPopup(i, all)
             /\ w[i].noPopup = RunNoPopup(i)
             /\ w[i] \in AnyUrl /\ Allowed(w[i])
  <2> DEFINE u == [first |-> s.first, last |-> s.last,
                   firstPopup |-> (i - 1) * maxPopups + 1, lastPopup |-> LastPopup(i, all),
                   noPopup |-> RunNoPopup(i)]
  <2>1. w[i] = u
    BY DEF Buckets
  <2>2. /\ (i - 1) * maxPopups \in Nat /\ i * maxPopups \in Nat
        /\ i * maxPopups = (i - 1) * maxPopups + maxPopups
    <3>1. i - 1 \in Nat /\ i \in Nat /\ i = i - 1 + 1
      BY <1>2
    <3> QED
      BY <1>1, <3>1, Product, OneMore
  <2>3. u.firstPopup \in Nat /\ u.lastPopup \in Nat /\ u.noPopup \in BOOLEAN
    BY <1>1, <2>2
  <2>4. u \in AnyUrl
    BY <1>1, <2>3 DEF AnyUrl
  <2>5. u.firstPopup > 0 /\ u.lastPopup < u.firstPopup + maxPopups
    BY <1>1, <2>2
  <2> QED
    BY <1>1, <2>1, <2>4, <2>5 DEF Allowed
<1>4. w \in Seq(AnyUrl) /\ Len(w) = k
  <2> DEFINE f(i) == [first |-> s.first, last |-> s.last,
                      firstPopup |-> (i - 1) * maxPopups + 1, lastPopup |-> LastPopup(i, all),
                      noPopup |-> RunNoPopup(i)]
  <2>1. w = [i \in 1..k |-> f(i)]
    BY DEF Buckets
  <2> HIDE DEF f, k
  <2>2. w = [i \in 1..k |-> w[i]] /\ \A i \in 1..k : w[i] \in AnyUrl
    BY <1>3, <2>1
  <2> HIDE DEF w
  <2> QED
    BY <1>2, <2>2
<1> HIDE DEF w, k
<1>5. ASSUME NEW x \in Test, NEW i \in 1..k
      PROVE  Selects(w[i], x) <=>
               /\ Covers(s, x[1])
               /\ IF HasPopup(x[3])
                  THEN (i - 1) * maxPopups + 1 <= Before(s, x) + 1 /\ Before(s, x) + 1 <= i * maxPopups
                  ELSE i = 1
  <2>1. Covers(w[i], x[1]) <=> Covers(s, x[1])
    BY <1>3 DEF Covers
  <2>2. Before(w[i], x) = Before(s, x)
    BY <1>3 DEF Before
  <2>3. CASE ~HasPopup(x[3])
    BY <1>3, <2>1, <2>3 DEF Selects, InPart
  <2>4. CASE HasPopup(x[3]) /\ Covers(s, x[1])
    <3>1. Before(s, x) \in Nat /\ Before(s, x) + 1 <= all /\ i * maxPopups \in Nat
      <4>1. i \in Nat
        BY <1>2
      <4> QED
        BY <1>1, <2>4, <4>1, NumberInSplit, Product DEF all
    <3>2. Before(s, x) + 1 <= LastPopup(i, all) <=> Before(s, x) + 1 <= i * maxPopups
      BY <1>1, <3>1
    <3> QED
      BY <1>3, <2>1, <2>2, <2>4, <3>2 DEF Selects, InPart
  <2> QED
    BY <2>1, <2>3, <2>4 DEF Selects
<1>6. ASSUME NEW x \in Test, NEW i \in 1..k, NEW j \in 1..k, Selects(w[i], x), Selects(w[j], x)
      PROVE  i = j
  <2>1. CASE ~HasPopup(x[3])
    BY <1>5, <1>6, <2>1
  <2>2. CASE HasPopup(x[3])
    <3>1. Before(s, x) + 1 \in Nat
      BY <1>1, <1>5, <1>6, <2>2, NumberInSplit
    <3>2. i <= j
      BY <1>1, <1>2, <1>5, <1>6, <2>2, <3>1, OneBucket
    <3>3. j <= i
      BY <1>1, <1>2, <1>5, <1>6, <2>2, <3>1, OneBucket
    <3> QED
      BY <1>2, <3>2, <3>3
  <2> QED
    BY <2>1, <2>2
<1>7. ASSUME NEW x \in Test, Covers(s, x[1])
      PROVE  \E i \in 1..k : Selects(w[i], x)
  <2>1. CASE ~HasPopup(x[3])
    BY <1>2, <1>5, <1>7, <2>1
  <2>2. CASE HasPopup(x[3])
    <3>1. Before(s, x) \in Nat /\ Before(s, x) + 1 <= all
      BY <1>7, <2>2, NumberInSplit DEF all
    <3>2. Before(s, x) + 1 \in 1..all
      BY <1>1, <3>1
    <3>3. \E i \in 1..k :
            (i - 1) * maxPopups + 1 <= Before(s, x) + 1 /\ Before(s, x) + 1 <= i * maxPopups
      BY <1>1, <3>2, SomeBucket DEF k
    <3> QED
      BY <1>5, <1>7, <2>2, <3>3
  <2> QED
    BY <2>1, <2>2
<1>8. ASSUME NEW x \in Test
      PROVE  (\E i \in 1..k : Selects(w[i], x)) <=> Covers(s, x[1])
  BY <1>5, <1>7
<1>9. Shares(w, s)
  BY <1>3, <1>4, <1>6, <1>8 DEF Shares
<1> QED
  BY <1>9 DEF w, all

LEMMA UrlsForShares ==
  ASSUME NEW s \in Split, s.first <= s.last, maxPopups \in Nat \ {0}
  PROVE  Shares(UrlsFor(s), s)
<1>1. PopupsOf(s) \in Nat
  <2>1. s.last - s.first + 1 \in Nat
    BY MaxIdAssumption DEF Split, Id
  <2> QED
    BY <2>1, PopupsOfPage, Product DEF PopupsOf
<1>2. UrlsFor(s) = IF PopupsOf(s) > maxPopups THEN Buckets(s, PopupsOf(s)) ELSE WholeUrl(s)
  BY DEF UrlsFor, PopupsOf
<1> QED
  BY <1>1, <1>2, BucketsShare, WholeShares

-----------------------------------------------------------------------------
(* The invariant of get_tests and of the pages                             *)

Limits ==
  /\ maxPopups \in Nat \ {0}
  /\ respIds \in Seq(Id)
  /\ runs \in [Test -> Nat]
  /\ popups \in Nat /\ opened \in Nat

\* A test is still to be run by the page of a URL, or by the page that is open.
Ahead(x) == \E i \in 1..Len(urls) : Selects(urls[i], x)
Here(x) == pc = "run_tests" /\ Selects(url, x) /\ NotBefore(x, at)

\* get_tests has taken a split with id.
Added(id) == \E i \in 1..added : Covers(splits[i], id)

Waiting ==
  /\ added \in 0..Len(splits)
  /\ urls \in Seq(AnyUrl)
  /\ \A i \in 1..Len(urls) : Allowed(urls[i])
  /\ \A x \in Test : \A i, j \in 1..Len(urls) :
       Selects(urls[i], x) /\ Selects(urls[j], x) => i = j

\* Before the crawl no test has been run, and those of the splits taken wait.
Untouched ==
  pc \in {"get_resp_ids", "get_tests"} =>
    /\ pc = "get_resp_ids" => added = 0
    /\ \A x \in Test : runs[x] = 0 /\ (Ahead(x) <=> Added(x[1]))

\* Then the tests of the listed ids have been run, but for those that wait.
Served(x) ==
  /\ runs[x] = IF x[1] \in Listed /\ ~Ahead(x) /\ ~Here(x) THEN 1 ELSE 0
  /\ Ahead(x) \/ Here(x) => x[1] \in Listed
  /\ ~(Ahead(x) /\ Here(x))

Crawled ==
  /\ pc \notin {"get_resp_ids", "get_tests"} => \A x \in Test : Served(x)
  /\ pc = "done" => urls = <<>>

\* The page that is open has counted the popups up to the test it is at.
Counted ==
  /\ opened <= popups
  /\ \/ url.firstPopup = 0
     \/ opened = 0
     \/ /\ opened <= popups - url.firstPopup + 1
        /\ opened <= url.lastPopup - url.firstPopup + 1

OnPage ==
  pc = "run_tests" =>
    /\ url \in AnyUrl /\ Allowed(url)
    /\ at \in Test /\ Covers(url, at[1])
    /\ popups = Before(url, at)
    /\ Counted

PagesInv ==
  /\ IInv /\ Limits /\ Waiting /\ Untouched /\ Crawled /\ OnPage
  /\ FewPopups

LEMMA InitEstablishesPages == Init => PagesInv
<1> SUFFICES ASSUME Init PROVE PagesInv
  OBVIOUS
<1>1. IInv
  BY InitEstablishes
<1>2. PICK n \in 0..MaxId : respIds \in [1..n -> Id]
  BY DEF Init, Listings
<1>3. respIds \in Seq(Id)
  BY <1>2, MaxIdAssumption
<1>4. maxPopups \in Nat \ {0}
  BY LimitsAssumption DEF Init
<1>5. Limits /\ FewPopups
  BY <1>3, <1>4 DEF Init, Limits, FewPopups
<1>6. Waiting /\ Untouched /\ Crawled /\ OnPage
  BY DEF Init, Waiting, Untouched, Crawled, OnPage, Ahead, Added
<1> QED
  BY <1>1, <1>5, <1>6 DEF PagesInv

-----------------------------------------------------------------------------
(* get_resp_ids and get_tests                                              *)

LEMMA SplitStepPreserves ==
  ASSUME PagesInv, IInv', SplitEach \/ TakeId \/ EndSplits PROVE PagesInv'
<1>1. /\ UNCHANGED <<maxPopups, respIds, added, urls, url, at, popups, opened, runs>>
      /\ pc = "get_resp_ids" /\ pc' \in {"get_resp_ids", "get_tests"}
  BY DEF SplitEach, TakeId, EndSplits, parameters, page
<1>2. added = 0 /\ Len(splits') \in Nat
  BY <1>1 DEF PagesInv, Untouched, IInv, Typing
<1>3. Limits' /\ Waiting' /\ FewPopups'
  BY <1>1, <1>2 DEF PagesInv, Limits, Waiting, FewPopups, Allowed
<1>4. Untouched'
  BY <1>1, <1>2 DEF PagesInv, Untouched, Ahead, Added
<1>5. Crawled' /\ OnPage'
  BY <1>1 DEF Crawled, OnPage
<1> QED
  BY <1>3, <1>4, <1>5 DEF PagesInv

LEMMA Element == ASSUME NEW S, NEW q \in Seq(S), NEW i \in 1..Len(q) PROVE q[i] \in S
  OBVIOUS

\* The splits have listed ids.
LEMMA SplitsListed ==
  ASSUME IInv, Limits, pc # "get_resp_ids", NEW i \in 1..Len(splits)
  PROVE  splits[i] \in Split /\ splits[i].first <= splits[i].last
<1>1. /\ splits[i] \in [first : Nat, last : Nat]
      /\ 0 < splits[i].first /\ splits[i].first <= splits[i].last
  <2>1. splits \in Seq([first : Nat, last : Nat]) /\ Short
    BY DEF IInv, Typing
  <2>2. splits[i] \in [first : Nat, last : Nat]
    BY <2>1, Element
  <2>3. 0 < splits[i].first /\ splits[i].first <= splits[i].last
    BY <2>1 DEF Short
  <2> QED
    BY <2>2, <2>3
<1>2. Result
  BY DEF IInv
<1>3. /\ Covers(splits[i], splits[i].first) /\ Covers(splits[i], splits[i].last)
  BY <1>1 DEF Covers
<1>4. InSplit(splits[i].first) /\ InSplit(splits[i].last)
  BY <1>3 DEF InSplit
<1>5. \A id \in Listed : id \in Id
  BY DEF Listed, Limits
<1>6. splits[i].first \in Nat \ {0} /\ splits[i].last \in Nat \ {0}
  BY <1>1
<1> QED
  BY <1>1, <1>2, <1>4, <1>5, <1>6 DEF Result, Split

LEMMA AddUrlsPreserves == ASSUME PagesInv, IInv', AddUrls PROVE PagesInv'
<1> DEFINE s == splits[added + 1]
           w == UrlsFor(s)
           n == Len(urls)
<1>1. /\ UNCHANGED <<maxPopups, respIds, splits, pc, url, at, popups, opened, runs>>
      /\ pc = "get_tests" /\ added < Len(splits) /\ added' = added + 1 /\ urls' = urls \o w
  BY DEF AddUrls, parameters, search, page
<1>2. /\ Limits /\ Waiting /\ Untouched /\ FewPopups /\ IInv
      /\ splits \in Seq([first : Nat, last : Nat]) /\ Len(splits) \in Nat
  BY DEF PagesInv, IInv, Typing
<1>3. added + 1 \in 1..Len(splits) /\ added \in Nat
  BY <1>1, <1>2 DEF Waiting
<1>4. s \in Split /\ s.first <= s.last
  BY <1>1, <1>2, <1>3, SplitsListed
<1>5. Shares(w, s)
  BY <1>2, <1>4, UrlsForShares DEF Limits
<1> HIDE DEF s, w
<1>6. /\ w \in Seq(AnyUrl) /\ urls \in Seq(AnyUrl) /\ n \in Nat /\ Len(w) \in Nat
      /\ urls' \in Seq(AnyUrl) /\ Len(urls') = n + Len(w)
      /\ \A i \in 1..n : urls'[i] = urls[i]
      /\ \A i \in 1..Len(w) : urls'[n + i] = w[i]
  <2>1. w \in Seq(AnyUrl) /\ urls \in Seq(AnyUrl)
    BY <1>2, <1>5 DEF Shares, Waiting
  <2> QED
    BY <1>1, <2>1
<1> HIDE DEF n
<1>7. \A i \in 1..Len(urls') : i \in 1..n \/ \E j \in 1..Len(w) : i = n + j
  <2> SUFFICES ASSUME NEW i \in 1..Len(urls'), i \notin 1..n
               PROVE  i - n \in 1..Len(w) /\ i = n + (i - n)
    OBVIOUS
  <2> QED
    BY <1>6
<1>8. /\ \A i \in 1..n : i \in 1..Len(urls')
      /\ \A i \in 1..Len(w) : n + i \in 1..Len(urls')
  BY <1>6
<1>9. \A i \in 1..Len(urls') : Allowed(urls[i])'
  <2>1. \A i \in 1..n : Allowed(urls[i])
    BY <1>2 DEF Waiting, n
  <2>2. \A i \in 1..Len(w) : Allowed(w[i])
    BY <1>5 DEF Shares
  <2>3. \A i \in 1..Len(urls') : Allowed(urls'[i])
    BY <1>6, <1>7, <2>1, <2>2
  <2> QED
    BY <1>1, <2>3 DEF Allowed
<1>10. ASSUME NEW x \in Test
       PROVE  /\ \A i \in 1..n, j \in 1..Len(w) : ~(Selects(urls[i], x) /\ Selects(w[j], x))
              /\ Ahead(x)' <=> Added(x[1])'
  <2>1. Ahead(x) <=> Added(x[1])
    BY <1>1, <1>2 DEF Untouched
  <2>2. (\E j \in 1..Len(w) : Selects(w[j], x)) <=> Covers(s, x[1])
    BY <1>5 DEF Shares
  <2>3. ~(Added(x[1]) /\ Covers(s, x[1]))
    <3> SUFFICES ASSUME NEW a \in 1..added, Covers(splits[a], x[1]), Covers(s, x[1])
                 PROVE  FALSE
      BY DEF Added
    <3>1. NoOverlap /\ x[1] \in Nat
      BY <1>2, TestParts, MaxIdAssumption DEF IInv
    <3>2. a \in 1..Len(splits) /\ a # added + 1
      BY <1>2, <1>3
    <3> QED
      BY <1>3, <3>1, <3>2 DEF NoOverlap, s
  <2>4. \A i \in 1..n, j \in 1..Len(w) : ~(Selects(urls[i], x) /\ Selects(w[j], x))
    BY <2>1, <2>2, <2>3 DEF Ahead, n
  <2>5. Ahead(x)' <=> Ahead(x) \/ \E j \in 1..Len(w) : Selects(w[j], x)
    BY <1>6, <1>7, <1>8 DEF Ahead, n
  <2>6. \A a \in 1..(added + 1) : a \in 1..added \/ a = added + 1
    BY <1>3
  <2>7. Added(x[1])' <=> Added(x[1]) \/ Covers(s, x[1])
    BY <1>1, <1>3, <2>6 DEF Added, s
  <2> QED
    BY <2>1, <2>2, <2>4, <2>5, <2>7
<1>11. ASSUME NEW x \in Test, NEW i \in 1..Len(urls'), NEW j \in 1..Len(urls'),
              Selects(urls'[i], x), Selects(urls'[j], x)
       PROVE  i = j
  <2>1. CASE i \in 1..n /\ j \in 1..n
    BY <1>2, <1>6, <1>11, <2>1 DEF Waiting, n
  <2>2. ASSUME NEW a \in 1..Len(w), NEW b \in 1..Len(w), i = n + a, j = n + b PROVE i = j
    BY <1>5, <1>6, <1>11, <2>2 DEF Shares
  <2>3. CASE i \in 1..n <=> j \notin 1..n
    BY <1>6, <1>7, <1>10, <1>11, <2>3
  <2> QED
    BY <1>7, <2>1, <2>2, <2>3
<1>12. Waiting'
  <2>1. added' \in 0..Len(splits')
    BY <1>1, <1>2, <1>3
  <2>2. \A x \in Test : \A i, j \in 1..Len(urls') :
          Selects(urls'[i], x) /\ Selects(urls'[j], x) => i = j
    BY <1>11
  <2> QED
    BY <1>6, <1>9, <2>1, <2>2 DEF Waiting
<1>13. Untouched'
  BY <1>1, <1>2, <1>10 DEF Untouched
<1>14. Limits' /\ Crawled' /\ OnPage' /\ FewPopups'
  BY <1>1, <1>2 DEF Limits, Crawled, OnPage, FewPopups
<1> QED
  BY <1>12, <1>13, <1>14 DEF PagesInv

\* The splits are complete, and so are the URLs.
LEMMA EndUrlsPreserves == ASSUME PagesInv, IInv', EndUrls PROVE PagesInv'
<1>1. /\ UNCHANGED <<maxPopups, respIds, splits, added, urls, url, at, popups, opened, runs>>
      /\ pc = "get_tests" /\ pc' = "crawl" /\ added = Len(splits)
  BY DEF EndUrls, parameters, search, page
<1>2. Limits' /\ Waiting' /\ Untouched' /\ OnPage' /\ FewPopups'
  BY <1>1 DEF PagesInv, Limits, Waiting, Untouched, OnPage, FewPopups, Allowed
<1>3. ASSUME NEW x \in Test PROVE Served(x)'
  <2>1. x[1] \in Nat \ {0}
    BY TestParts, MaxIdAssumption
  <2>2. x[1] \in Listed <=> Added(x[1])
    BY <1>1, <2>1 DEF PagesInv, IInv, Result, InSplit, Added
  <2>3. runs[x] = 0 /\ (Ahead(x) <=> Added(x[1]))
    BY <1>1 DEF PagesInv, Untouched
  <2>4. (Ahead(x)' <=> Ahead(x)) /\ ~Here(x)' /\ Listed' = Listed
    BY <1>1 DEF Ahead, Here, Listed
  <2> QED
    BY <1>1, <2>2, <2>3, <2>4 DEF Served
<1>4. Crawled'
  BY <1>1, <1>3 DEF Crawled
<1> QED
  BY <1>2, <1>4 DEF PagesInv

-----------------------------------------------------------------------------
(* The pages                                                               *)

LEMMA OpenPagePreserves == ASSUME PagesInv, IInv', OpenPage PROVE PagesInv'
<1> DEFINE u == Head(urls)
           n == Len(urls)
<1>1. /\ UNCHANGED <<maxPopups, respIds, splits, added, runs>>
      /\ pc = "crawl" /\ urls # <<>> /\ url' = u /\ urls' = Tail(urls)
      /\ at' = <<u.first, 1, 1>> /\ popups' = 0 /\ opened' = 0
      /\ pc' = IF Origin = {} \/ Declaration = {} THEN "crawl" ELSE "run_tests"
  BY DEF OpenPage, parameters, search
<1>2. Limits /\ Waiting /\ Crawled
  BY DEF PagesInv
<1>3. urls \in Seq(AnyUrl)
  BY <1>2 DEF Waiting
<1>4. /\ n \in Nat /\ n > 0 /\ u = urls[1]
      /\ urls' \in Seq(AnyUrl) /\ Len(urls') = n - 1
      /\ \A i \in 1..(n - 1) : urls'[i] = urls[i + 1]
  BY <1>1, <1>3
<1>5. u \in AnyUrl
  <2>1. 1 \in 1..Len(urls)
    BY <1>4
  <2>2. urls[1] \in AnyUrl
    BY <1>3, <2>1, Element
  <2> QED
    BY <1>4, <2>2
<1> HIDE DEF u
<1>6. /\ \A i \in 1..(n - 1) : i + 1 \in 1..n /\ i + 1 # 1
      /\ \A i \in 1..n : i = 1 \/ (i - 1 \in 1..(n - 1) /\ i = (i - 1) + 1)
      /\ 1 \in 1..n
  BY <1>4
<1> HIDE DEF n
<1>7. Allowed(u)
  BY <1>2, <1>4, <1>6 DEF Waiting, n
<1>8. Waiting'
  <2>1. \A i \in 1..(n - 1) : Allowed(urls[i + 1])
    BY <1>2, <1>6 DEF Waiting, n
  <2>2. \A i \in 1..Len(urls') : Allowed(urls[i])'
    BY <1>1, <1>4, <2>1 DEF Allowed
  <2>3. ASSUME NEW x \in Test, NEW i \in 1..(n - 1), NEW j \in 1..(n - 1),
               Selects(urls[i + 1], x), Selects(urls[j + 1], x)
        PROVE  i = j
    <3>1. i + 1 = j + 1
      BY <1>2, <1>6, <2>3 DEF Waiting, n
    <3> QED
      BY <1>4, <3>1
  <2>4. \A x \in Test : \A i, j \in 1..Len(urls') :
          Selects(urls'[i], x) /\ Selects(urls'[j], x) => i = j
    BY <1>4, <2>3
  <2> QED
    BY <1>1, <1>2, <1>4, <2>2, <2>4 DEF Waiting
<1>9. ASSUME NEW x \in Test
      PROVE  /\ Ahead(x) <=> Ahead(x)' \/ Selects(u, x)
             /\ ~(Ahead(x)' /\ Selects(u, x))
  <2>1. Ahead(x)' <=> \E i \in 1..(n - 1) : Selects(urls[i + 1], x)
    BY <1>4 DEF Ahead
  <2>2. Ahead(x) <=> Ahead(x)' \/ Selects(u, x)
    BY <1>4, <1>6, <2>1 DEF Ahead, n
  <2>3. ~(Ahead(x)' /\ Selects(u, x))
    BY <1>2, <1>4, <1>6, <2>1 DEF Waiting, n
  <2> QED
    BY <2>2, <2>3
<1>10. ASSUME NEW x \in Test PROVE Served(x)'
  <2>1. /\ pc' = "run_tests"
        /\ x[1] \in Nat /\ x[2] \in Nat \ {0} /\ x[3] \in Nat \ {0} /\ u.first \in Nat
    BY <1>1, <1>5, TestParts, MaxIdAssumption, PageAssumption DEF Test, AnyUrl
  <2>2. Here(x)' <=> Selects(u, x)
    BY <1>1, <2>1 DEF Here, Selects, Covers, NotBefore
  <2>3. Served(x) /\ ~Here(x)
    BY <1>1, <1>2 DEF Crawled, Here
  <2>4. Listed' = Listed
    BY <1>1 DEF Listed
  <2> QED
    BY <1>1, <1>9, <2>2, <2>3, <2>4 DEF Served
<1>11. Crawled' /\ Untouched'
  BY <1>1, <1>10 DEF Crawled, Untouched
<1>12. OnPage'
  <2> SUFFICES ASSUME pc' = "run_tests" PROVE OnPage'
    BY DEF OnPage
  <2>1. Origin # {} /\ Declaration # {}
    BY <1>1
  <2>2. 1 \in Origin /\ 1 \in Declaration
    BY <2>1, PageAssumption DEF Origin, Declaration
  <2>3. at' \in Test /\ at'[1] = u.first
    BY <1>1, <1>7, <2>2 DEF Test, Allowed
  <2>4. Covers(u, u.first)
    BY <1>5, <1>7 DEF Covers, Allowed, AnyUrl
  <2>5. Before(u, <<u.first, 1, 1>>) = 0
    <3>1. /\ u.first - u.first = 0 /\ 1 - 1 = 0
          /\ 0 * NumPopups = 0 /\ 0 * NumWithPopup = 0
      BY <1>5, PopupsOfPage, PageAssumption DEF AnyUrl
    <3>2. (IF HasPopup(1) THEN 1 - NumPlain - 1 ELSE 0) = 0
      BY PageAssumption DEF HasPopup
    <3> QED
      BY <3>1, <3>2 DEF Before
  <2>6. Counted'
    BY <1>1 DEF Counted
  <2>7. Allowed(url)'
    BY <1>1, <1>7 DEF Allowed
  <2>8. popups' = Before(url', at')
    BY <1>1, <2>5
  <2> QED
    BY <1>1, <1>5, <2>3, <2>4, <2>6, <2>7, <2>8 DEF OnPage
<1>13. Limits' /\ FewPopups'
  BY <1>1, <1>2 DEF Limits, FewPopups
<1> QED
  BY <1>8, <1>11, <1>12, <1>13 DEF PagesInv

LEMMA EndCrawlPreserves == ASSUME PagesInv, IInv', EndCrawl PROVE PagesInv'
<1>1. /\ UNCHANGED <<maxPopups, respIds, splits, added, urls, url, at, popups, opened, runs>>
      /\ pc = "crawl" /\ pc' = "done" /\ urls = <<>>
  BY DEF EndCrawl, parameters, search, page
<1>2. Limits' /\ Waiting' /\ Untouched' /\ OnPage' /\ FewPopups'
  BY <1>1 DEF PagesInv, Limits, Waiting, Untouched, OnPage, FewPopups, Allowed
<1>3. Crawled'
  BY <1>1 DEF PagesInv, Crawled, Served, Ahead, Here, Listed
<1> QED
  BY <1>2, <1>3 DEF PagesInv

\* What a page has counted keeps within its URL.
LEMMA CountedIsFew ==
  ASSUME NEW u \in AnyUrl, Allowed(u), maxPopups \in Nat \ {0},
         NEW x \in Test, Covers(u, x[1]), HasPopup(x[3]), InPart(u, x),
         NEW k \in Nat, k <= Before(u, x),
         \/ u.firstPopup = 0
         \/ k = 0
         \/ /\ k <= Before(u, x) - u.firstPopup + 1
            /\ k <= u.lastPopup - u.firstPopup + 1
  PROVE  /\ k + 1 <= maxPopups
         /\ \/ u.firstPopup = 0
            \/ /\ k + 1 <= (Before(u, x) + 1) - u.firstPopup + 1
               /\ k + 1 <= u.lastPopup - u.firstPopup + 1
<1> DEFINE b == Before(u, x)
<1>1. /\ u.first \in Nat /\ u.last \in Nat /\ u.firstPopup \in Nat /\ u.lastPopup \in Nat
      /\ u.first <= x[1] /\ x[1] <= u.last /\ x[1] \in Nat /\ NumPopups \in Nat
  BY TestParts, MaxIdAssumption, PopupsOfPage DEF AnyUrl, Covers
<1>2. b \in Nat /\ b + 1 <= (x[1] - u.first + 1) * NumPopups
  BY <1>1, BeforeBounds
<1>3. u.firstPopup <= b + 1 /\ b + 1 <= u.lastPopup
  BY DEF InPart
<1> HIDE DEF b
<1>4. CASE u.firstPopup = 0
  <2>1. (u.last - u.first + 1) * NumPopups <= maxPopups
    BY <1>4 DEF Allowed
  <2>2. /\ x[1] - u.first + 1 \in Nat /\ u.last - u.first + 1 \in Nat
        /\ x[1] - u.first + 1 <= u.last - u.first + 1
    BY <1>1
  <2>3. /\ (x[1] - u.first + 1) * NumPopups <= (u.last - u.first + 1) * NumPopups
        /\ (x[1] - u.first + 1) * NumPopups \in Nat /\ (u.last - u.first + 1) * NumPopups \in Nat
    BY <1>1, <2>2, Larger, Product
  <2> QED
    BY <1>2, <1>4, <2>1, <2>3 DEF b
<1>5. CASE u.firstPopup # 0
  <2>1. u.lastPopup < u.firstPopup + maxPopups
    BY <1>5 DEF Allowed
  <2> QED
    BY <1>1, <1>2, <1>3, <1>5, <2>1 DEF b
<1> QED
  BY <1>4, <1>5

LEMMA TryTestPreserves == ASSUME PagesInv, IInv', TryTest PROVE PagesInv'
<1> DEFINE popup == HasPopup(at[3])
           number == popups + 1
           selected == IF popup THEN url.firstPopup <= number /\ number <= url.lastPopup
                       ELSE url.noPopup
           following == Following(at)
<1>1. /\ UNCHANGED <<maxPopups, respIds, splits, added, urls>>
      /\ pc = "run_tests"
      /\ popups' = (IF popup THEN number ELSE popups)
      /\ opened' = (IF popup /\ selected THEN opened + 1 ELSE opened)
      /\ runs' = (IF selected THEN [runs EXCEPT ![at] = @ + 1] ELSE runs)
      /\ \/ following[1] <= url.last /\ at' = following /\ UNCHANGED <<pc, url>>
         \/ following[1] > url.last /\ pc' = "crawl"
  BY DEF TryTest, parameters, search
<1>2. /\ url \in AnyUrl /\ Allowed(url) /\ at \in Test /\ Covers(url, at[1])
      /\ popups = Before(url, at) /\ Counted
      /\ Limits /\ Waiting /\ FewPopups /\ \A x \in Test : Served(x)
  BY <1>1 DEF PagesInv, OnPage, Crawled
<1>3. /\ following[1] \in {at[1], at[1] + 1}
      /\ following[1] \in Id => following \in Test
      /\ \A y \in Test : NotBefore(y, following) <=> NotBefore(y, at) /\ y # at
  BY <1>2, FollowingOrder
<1>4. /\ url.first \in Nat /\ url.last \in Nat /\ url.last <= MaxId /\ MaxId \in Nat
      /\ at[1] \in Nat \ {0} /\ url.first <= at[1] /\ at[1] <= url.last
  BY <1>2, TestParts, MaxIdAssumption DEF AnyUrl, Allowed, Covers, Id
<1>5. selected <=> InPart(url, at)
  BY <1>2 DEF InPart
<1>6. popups' = Before(url, following)
  BY <1>1, <1>2, <1>4, FollowingCounts
<1>7. /\ popups \in Nat /\ opened \in Nat /\ popups' \in Nat /\ opened' \in Nat
      /\ runs \in [Test -> Nat] /\ runs' \in [Test -> Nat]
      /\ runs'[at] = (IF selected THEN runs[at] + 1 ELSE runs[at])
      /\ \A x \in Test \ {at} : runs'[x] = runs[x]
  <2>1. popups \in Nat /\ opened \in Nat /\ runs \in [Test -> Nat] /\ runs[at] \in Nat
    BY <1>2 DEF Limits
  <2> HIDE DEF selected, popup
  <2> QED
    BY <1>1, <1>2, <2>1
<1> HIDE DEF selected, following
<1>8. Limits'
  BY <1>1, <1>2, <1>7 DEF Limits
<1>9. Waiting'
  BY <1>1, <1>2 DEF Waiting, Allowed
<1>10. Untouched'
  BY <1>1 DEF Untouched
<1>11. ASSUME popup, selected PROVE FewPopups' /\ (url' = url => Counted')
  <2>1. opened <= Before(url, at)
    BY <1>2 DEF Counted
  <2>2. \/ url.firstPopup = 0
        \/ opened = 0
        \/ /\ opened <= Before(url, at) - url.firstPopup + 1
           /\ opened <= url.lastPopup - url.firstPopup + 1
    BY <1>2 DEF Counted
  <2>3. maxPopups \in Nat \ {0}
    BY <1>2 DEF Limits
  <2>4. /\ opened + 1 <= maxPopups
        /\ \/ url.firstPopup = 0
           \/ /\ opened + 1 <= (Before(url, at) + 1) - url.firstPopup + 1
              /\ opened + 1 <= url.lastPopup - url.firstPopup + 1
    BY <1>2, <1>5, <1>7, <1>11, <2>1, <2>2, <2>3, CountedIsFew
  <2>5. FewPopups'
    BY <1>1, <1>11, <2>4 DEF FewPopups
  <2>6. url' = url => Counted'
    BY <1>1, <1>2, <1>7, <1>11, <2>1, <2>4 DEF Counted
  <2> QED
    BY <2>5, <2>6
<1>12. ASSUME ~(popup /\ selected) PROVE FewPopups' /\ (url' = url => Counted')
  <2>1. opened' = opened /\ popups' \in {popups, popups + 1}
    BY <1>1, <1>12
  <2>2. FewPopups'
    BY <1>1, <1>2, <2>1 DEF FewPopups
  <2>3. url' = url => Counted'
    <3>1. url.firstPopup \in Nat /\ url.lastPopup \in Nat
      BY <1>2 DEF AnyUrl
    <3> QED
      BY <1>2, <1>7, <2>1, <3>1 DEF Counted
  <2> QED
    BY <2>2, <2>3
<1>13. FewPopups' /\ (url' = url => Counted')
  BY <1>11, <1>12
<1>14. OnPage'
  <2> SUFFICES ASSUME pc' = "run_tests" PROVE OnPage'
    BY DEF OnPage
  <2>1. following[1] <= url.last /\ at' = following /\ url' = url
    BY <1>1
  <2>2. following \in Test
    BY <1>3, <1>4, <2>1 DEF Id
  <2>3. Covers(url, following[1])
    BY <1>3, <1>4, <2>1 DEF Covers
  <2>4. Allowed(url)'
    BY <1>1, <1>2, <2>1 DEF Allowed
  <2> QED
    BY <1>2, <1>6, <1>13, <2>1, <2>2, <2>3, <2>4 DEF OnPage
<1>15. ASSUME NEW x \in Test
       PROVE  Here(x)' <=> Here(x) /\ x # at
  <2>1. Here(x) /\ x # at <=> Selects(url, x) /\ NotBefore(x, following)
    BY <1>1, <1>3 DEF Here
  <2>2. CASE following[1] <= url.last /\ at' = following /\ UNCHANGED <<pc, url>>
    BY <1>1, <2>1, <2>2 DEF Here
  <2>3. CASE following[1] > url.last /\ pc' = "crawl"
    <3>1. x[1] \in Nat /\ following[1] \in Nat
      BY <1>3, <1>4, TestParts, MaxIdAssumption
    <3>2. NotBefore(x, following) => x[1] >= following[1]
      BY <3>1 DEF NotBefore
    <3>3. ~(Selects(url, x) /\ NotBefore(x, following))
      BY <1>4, <2>3, <3>1, <3>2 DEF Selects, Covers
    <3> QED
      BY <2>1, <2>3, <3>3 DEF Here
  <2> QED
    BY <1>1, <2>2, <2>3
<1>16. Here(at) <=> selected
  <2>1. NotBefore(at, at)
    BY <1>2, TestParts DEF NotBefore
  <2> QED
    BY <1>1, <1>2, <1>5, <2>1 DEF Here, Selects
<1>17. ASSUME NEW x \in Test PROVE Served(x)'
  <2>1. Served(x) /\ (Ahead(x)' <=> Ahead(x)) /\ Listed' = Listed
    BY <1>1, <1>2 DEF Ahead, Listed
  <2>2. CASE x # at
    BY <1>7, <1>15, <2>1, <2>2 DEF Served
  <2>3. CASE x = at
    BY <1>7, <1>15, <1>16, <2>1, <2>3 DEF Served
  <2> QED
    BY <2>2, <2>3
<1>18. Crawled'
  BY <1>1, <1>17 DEF Crawled
<1> QED
  BY <1>8, <1>9, <1>10, <1>13, <1>14, <1>18 DEF PagesInv

-----------------------------------------------------------------------------
(* What the pages promise together                                         *)

LEMMA NextPreserves == PagesInv /\ [Next]_vars => PagesInv'
<1> SUFFICES ASSUME PagesInv, [Next]_vars PROVE PagesInv'
  OBVIOUS
<1>1. IInv'
  BY SplittingPreserves DEF PagesInv
<1>2. CASE UNCHANGED vars
  <2>1. UNCHANGED <<maxPopups, respIds, splits, pc, added, urls, url, at, popups, opened, runs>>
    BY <1>2 DEF vars, parameters
  <2>2. Limits' /\ Waiting' /\ OnPage' /\ FewPopups'
    BY <2>1 DEF PagesInv, Limits, Waiting, OnPage, FewPopups, Allowed, Counted
  <2>3. Untouched' /\ Crawled'
    BY <2>1 DEF PagesInv, Untouched, Crawled, Served, Ahead, Here, Added, Listed
  <2> QED
    BY <1>1, <2>2, <2>3 DEF PagesInv
<1> QED
  BY <1>1, <1>2, SplitStepPreserves, AddUrlsPreserves, EndUrlsPreserves, OpenPagePreserves,
     EndCrawlPreserves, TryTestPreserves DEF Next

\* The invariant of splits, URLs and pages always holds.
THEOREM Invariance == Spec => []PagesInv
<1> QED
  BY InitEstablishesPages, NextPreserves, PTL DEF Spec

\* When the crawl is done every test of every listed id has been run once, and
\* no other test, for any ids, origins, declarations and limits.
THEOREM EveryTestOnce == Spec => []ExactlyOnce
<1>1. PagesInv => ExactlyOnce
  <2> SUFFICES ASSUME PagesInv, pc = "done", NEW x \in Test
               PROVE  runs[x] = IF x[1] \in Listed THEN 1 ELSE 0
    BY DEF ExactlyOnce
  <2>1. Served(x) /\ urls = <<>>
    BY DEF PagesInv, Crawled
  <2>2. ~Ahead(x) /\ ~Here(x)
    BY <2>1 DEF Ahead, Here
  <2> QED
    BY <2>1, <2>2 DEF Served
<1> QED
  BY <1>1, Invariance, PTL

\* No page opens more popups than max_popups.
THEOREM PopupsLimited == Spec => []FewPopups
<1>1. PagesInv => FewPopups
  BY DEF PagesInv
<1> QED
  BY <1>1, Invariance, PTL
=============================================================================
