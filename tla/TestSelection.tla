---------------------------- MODULE TestSelection ----------------------------
(***************************************************************************)
(* Which tests of a label are run by which page: get_resp_ids and get_tests *)
(* (_hp/hp/tools/crawler/utils.py) make the URLs, run_tests in the page     *)
(* (_hp/resources/store_results.sub.js) selects its tests by the parameters *)
(* of its URL.                                                              *)
(*                                                                         *)
(* A test is a response id with an origin and a test declaration.  The two  *)
(* sides never meet: get_tests cuts the popups of a page in pieces by their *)
(* number, and run_tests counts them again.  The declarations are numbered, *)
(* those that open popups last; popups are counted among themselves, so     *)
(* their place does not matter.                                            *)
(***************************************************************************)
EXTENDS Integers, Sequences

CONSTANTS
  MaxId,                \* bound on the response ids
  RespIdsBound,         \* bound on max_resp_ids
  PopupsBound,          \* bound on max_popups
  NumOrigins,           \* number of origins
  NumPlain,             \* test declarations that open no popup
  NumWithPopup,         \* test declarations that do
  NumPopups             \* num_popups of the label in test_info

ASSUME MaxIdAssumption == MaxId \in Nat
ASSUME LimitsAssumption == RespIdsBound \in Nat /\ PopupsBound \in Nat
ASSUME PageAssumption == NumOrigins \in Nat /\ NumPlain \in Nat /\ NumWithPopup \in Nat
\* The number written by hand in test_info is that of the popups a page opens for
\* one response id.
ASSUME NumPopupsAssumption == NumPopups = NumOrigins * NumWithPopup

Id == 1..MaxId
Origin == 1..NumOrigins
Declaration == 1..(NumPlain + NumWithPopup)
Test == Id \X Origin \X Declaration
HasPopup(t) == t > NumPlain

None == 0
Infinity == MaxId * NumPopups + 1

VARIABLES
  numRespIds,           \* num_resp_ids: the most ids for one URL
  maxPopups,            \* max_popups: the most popups for one URL
  pc,                   \* the function that runs
  respIds,              \* resp_ids, in the order the database returns them
  taken,                \* how many of them the loop of get_resp_ids has taken
  start, cur, count,    \* its variables
  splits,               \* its result
  added,                \* how many of them the loop of get_tests has taken
  urls,                 \* test_urls, those a page has not been opened for yet
  url,                  \* the URL of the page that is open
  at,                   \* the test its loops are at
  popups,               \* popup_count
  opened,               \* popups the page has opened
  runs                  \* runs[x]: how often test x has been run

parameters == <<numRespIds, maxPopups>>
vars == <<parameters, pc, respIds, taken, start, cur, count, splits, added, urls, url, at,
          popups, opened, runs>>

Split == [first : Id, last : Id]
Url == [first : Id, last : Id, firstPopup : 0..Infinity, lastPopup : 1..Infinity,
        noPopup : BOOLEAN]
NoUrl == [first |-> 0]
NoTest == <<0, 0, 0>>

TypeOK ==
  /\ numRespIds \in 1..RespIdsBound
  /\ maxPopups \in 1..PopupsBound
  /\ pc \in {"get_resp_ids", "get_tests", "crawl", "run_tests", "done"}
  /\ respIds \in Seq(Id)
  /\ taken \in 0..Len(respIds)
  /\ start \in Id \union {None} /\ cur \in Id \union {None}
  /\ count \in 0..(numRespIds - 1)
  /\ splits \in Seq(Split)
  /\ added \in 0..Len(splits)
  /\ urls \in Seq(Url)
  /\ url \in Url \union {NoUrl}
  /\ at \in Test \union {NoTest}
  /\ popups \in 0..Infinity
  /\ opened \in 0..Infinity
  /\ runs \in [Test -> Nat]

\* All ids of the label, each once, in any order: the query has no ORDER BY.
Listings ==
  UNION {{s \in [1..n -> Id] : \A i, j \in 1..n : s[i] = s[j] => i = j} : n \in 0..MaxId}

Init ==
  /\ numRespIds \in 1..RespIdsBound
  /\ maxPopups \in 1..PopupsBound
  /\ pc = "get_resp_ids"
  /\ respIds \in Listings
  /\ taken = 0
  /\ start = None /\ cur = None /\ count = 0
  /\ splits = <<>>
  /\ added = 0
  /\ urls = <<>>
  /\ url = NoUrl
  /\ at = NoTest
  /\ popups = 0
  /\ opened = 0
  /\ runs = [x \in Test |-> 0]

-----------------------------------------------------------------------------
(* get_resp_ids                                                            *)

search == <<respIds, taken, start, cur, count, splits>>
page == <<url, at, popups, opened, runs>>

\* One split for each id.
SplitEach ==
  /\ pc = "get_resp_ids"
  /\ numRespIds = 1
  /\ splits' = [i \in 1..Len(respIds) |-> [first |-> respIds[i], last |-> respIds[i]]]
  /\ taken' = Len(respIds)
  /\ pc' = "get_tests"
  /\ UNCHANGED <<parameters, respIds, start, cur, count, added, urls, page>>

\* A mutant of Gap: ids are taken to follow each other.
NoGap(next) == FALSE

\* resp_ids need not be continuous.
Gap(next) == next - cur # 1

\* The next id makes the split as long as it may be.
Full == count + 1 = numRespIds

BeginSplit(next) == start' = next /\ cur' = next /\ count' = 1
NoSplit == start' = None /\ cur' = None /\ count' = 0
CloseSplit(last) == splits' = Append(splits, [first |-> start, last |-> last])

\* One iteration of the loop over resp_ids.
TakeId ==
  /\ pc = "get_resp_ids"
  /\ numRespIds > 1
  /\ taken < Len(respIds)
  /\ taken' = taken + 1
  /\ LET next == respIds[taken + 1]
     IN  \/ start = None /\ BeginSplit(next) /\ UNCHANGED splits
         \/ start # None /\ Gap(next) /\ CloseSplit(cur) /\ BeginSplit(next)
         \/ start # None /\ ~Gap(next) /\ Full /\ CloseSplit(next) /\ NoSplit
         \/ /\ start # None /\ ~Gap(next) /\ ~Full
            /\ cur' = next /\ count' = count + 1
            /\ UNCHANGED <<start, splits>>
  /\ UNCHANGED <<parameters, pc, respIds, added, urls, page>>

\* The end of the loop.
EndSplits ==
  /\ pc = "get_resp_ids"
  /\ numRespIds > 1
  /\ taken = Len(respIds)
  /\ IF start # None THEN CloseSplit(cur) ELSE UNCHANGED splits
  /\ NoSplit
  /\ pc' = "get_tests"
  /\ UNCHANGED <<parameters, respIds, taken, added, urls, page>>

-----------------------------------------------------------------------------
(* get_tests                                                               *)

Smaller(a, b) == IF a < b THEN a ELSE b

\* A mutant of LastPopup: the buckets overlap by one.
LastPopupInclusive(i, all) == Smaller(i * maxPopups + 1, all)

\* The last popup of bucket i.
LastPopup(i, all) == Smaller(i * maxPopups, all)

\* A mutant of RunNoPopup: it stays "yes".
RunNoPopupAlways(i) == TRUE

\* The tests without popups run with the first bucket only.
RunNoPopup(i) == i = 1

\* At most maxPopups popups for each URL.
Buckets(s, all) ==
  [i \in 1..((all + maxPopups - 1) \div maxPopups) |->
     [first |-> s.first, last |-> s.last,
      firstPopup |-> (i - 1) * maxPopups + 1, lastPopup |-> LastPopup(i, all),
      noPopup |-> RunNoPopup(i)]]

\* Without the parameters, run_tests takes the defaults 0 and Infinity.
WholeUrl(s) ==
  <<[first |-> s.first, last |-> s.last, firstPopup |-> 0, lastPopup |-> Infinity,
     noPopup |-> TRUE]>>

UrlsFor(s) ==
  LET all == NumPopups * (s.last - s.first + 1)
  IN  IF all > maxPopups THEN Buckets(s, all) ELSE WholeUrl(s)

\* One iteration of the loop over the splits.
AddUrls ==
  /\ pc = "get_tests"
  /\ added < Len(splits)
  /\ added' = added + 1
  /\ urls' = urls \o UrlsFor(splits[added + 1])
  /\ UNCHANGED <<parameters, pc, search, page>>

EndUrls ==
  /\ pc = "get_tests"
  /\ added = Len(splits)
  /\ pc' = "crawl"
  /\ UNCHANGED <<parameters, search, added, urls, page>>

-----------------------------------------------------------------------------
(* run_tests                                                               *)

\* The crawler opens the page of the next URL.
OpenPage ==
  /\ pc = "crawl"
  /\ urls # <<>>
  /\ url' = Head(urls)
  /\ urls' = Tail(urls)
  /\ at' = <<Head(urls).first, 1, 1>>
  /\ popups' = 0
  /\ opened' = 0
  /\ pc' = IF Origin = {} \/ Declaration = {} THEN "crawl" ELSE "run_tests"
  /\ UNCHANGED <<parameters, search, added, runs>>

EndCrawl ==
  /\ pc = "crawl"
  /\ urls = <<>>
  /\ pc' = "done"
  /\ UNCHANGED <<parameters, search, added, urls, page>>

\* The next test of the three nested loops.
Following(x) ==
  IF x[3] < NumPlain + NumWithPopup THEN <<x[1], x[2], x[3] + 1>>
  ELSE IF x[2] < NumOrigins THEN <<x[1], x[2] + 1, 1>>
  ELSE <<x[1] + 1, 1, 1>>

\* One iteration of the innermost loop.
TryTest ==
  /\ pc = "run_tests"
  /\ LET popup == HasPopup(at[3])
         number == popups + 1
         selected == IF popup THEN url.firstPopup <= number /\ number <= url.lastPopup
                     ELSE url.noPopup
         following == Following(at)
     IN  /\ popups' = IF popup THEN number ELSE popups
         /\ opened' = IF popup /\ selected THEN opened + 1 ELSE opened
         /\ runs' = IF selected THEN [runs EXCEPT ![at] = @ + 1] ELSE runs
         /\ \/ /\ following[1] <= url.last
               /\ at' = following
               /\ UNCHANGED <<pc, url>>
            \/ /\ following[1] > url.last
               /\ at' = NoTest /\ url' = NoUrl
               /\ pc' = "crawl"
  /\ UNCHANGED <<parameters, search, added, urls>>

Next ==
  \/ SplitEach
  \/ TakeId
  \/ EndSplits
  \/ AddUrls
  \/ EndUrls
  \/ OpenPage
  \/ EndCrawl
  \/ TryTest

Spec == Init /\ [][Next]_vars

-----------------------------------------------------------------------------
(* Properties                                                              *)

Listed == {respIds[i] : i \in 1..Len(respIds)}
Covers(s, id) == s.first <= id /\ id <= s.last

\* get_resp_ids gives every id to one split and no split an id that is not
\* listed, whatever the order and the gaps, and no split more than its share:
\* run_tests runs every id between the first and the last.
SplitsPartition ==
  pc # "get_resp_ids" =>
    /\ \A id \in Id : \A i, j \in 1..Len(splits) :
         Covers(splits[i], id) /\ Covers(splits[j], id) => i = j
    /\ \A id \in Id :
         id \in Listed <=> \E i \in 1..Len(splits) : Covers(splits[i], id)
    /\ \A i \in 1..Len(splits) : splits[i].last - splits[i].first < numRespIds

\* In the end every test of every listed id has been run, and only once,
\* although popups are cut in pieces on one side and counted on the other.
ExactlyOnce ==
  pc = "done" => \A x \in Test : runs[x] = (IF x[1] \in Listed THEN 1 ELSE 0)

\* No page opens more popups than its URL is to have.
FewPopups == opened <= maxPopups
=============================================================================
