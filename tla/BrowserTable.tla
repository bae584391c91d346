---------------------------- MODULE BrowserTable ----------------------------
(***************************************************************************)
(* get_or_create_browser and get_or_create of _hp/hp/tools/crawler/utils.py *)
(* on the table Browser of _hp/hp/tools/models.py, called by crawlers that  *)
(* start at the same time, and what becomes of the results of the crawler   *)
(* that uses the id (_hp/server/store_results.py).                          *)
(*                                                                         *)
(* The query filters by all columns, the unique constraint uq_browser       *)
(* leaves out add_info: the columns of the constraint are one value, the    *)
(* key of a configuration.  PostgreSQL lets an INSERT wait while another    *)
(* transaction has a row with its key that is not committed yet.            *)
(***************************************************************************)
EXTENDS Integers

CONSTANTS
  Crawler,              \* processes that look up a browser
  Key,                  \* values of name, version, os and the two modes
  Info,                 \* values of add_info
  MaxId                 \* bound on the ids the sequence gives out

ASSUME MaxIdAssumption == MaxId \in Nat

Config == [key : Key, info : Info]
None == 0

VARIABLES
  rows,                 \* committed rows of Browser
  pending,              \* rows inserted by transactions not yet committed
  nextId,               \* the sequence of the primary key
  pc,                   \* pc[c]: where crawler c is
  config,               \* config[c]: the configuration it looks up
  browserId,            \* browserId[c]: what get_or_create_browser returns
  results               \* results in the database

vars == <<rows, pending, nextId, pc, config, browserId, results>>

Row == [id : 1..MaxId, config : Config]

TypeOK ==
  /\ rows \subseteq Row
  /\ pending \in [Crawler -> SUBSET Row]
  /\ nextId \in 1..(MaxId + 1)
  /\ pc \in [Crawler -> {"idle", "query", "add", "commit", "refresh", "crawl"}]
  /\ config \in [Crawler -> Config]
  /\ browserId \in [Crawler -> 0..MaxId]
  /\ results \subseteq [config : Config, browser_id : 1..MaxId]

Init ==
  /\ rows = {}
  /\ pending = [c \in Crawler |-> {}]
  /\ nextId = 1
  /\ pc = [c \in Crawler |-> "idle"]
  /\ config \in [Crawler -> Config]
  /\ browserId = [c \in Crawler |-> None]
  /\ results = {}

-----------------------------------------------------------------------------

\* get_or_create_browser is called for some configuration.
Call(c) ==
  /\ pc[c] = "idle"
  /\ \E wanted \in Config : config' = [config EXCEPT ![c] = wanted]
  /\ pc' = [pc EXCEPT ![c] = "query"]
  /\ UNCHANGED <<rows, pending, nextId, browserId, results>>

\* get_or_create_browser returns b.
Returns(c, b) ==
  /\ browserId' = [browserId EXCEPT ![c] = b]
  /\ pc' = [pc EXCEPT ![c] = "crawl"]

\* A mutant of Query: add_info is left to the defaults.
QueryWithoutInfo(c) ==
  /\ pc[c] = "query"
  /\ \/ \E r \in rows : r.config.key = config[c].key /\ Returns(c, r.id)
     \/ /\ \A r \in rows : r.config.key # config[c].key
        /\ pc' = [pc EXCEPT ![c] = "add"]
        /\ UNCHANGED browserId
  /\ UNCHANGED <<rows, pending, nextId, config, results>>

\* filter_by(...).first()
Query(c) ==
  /\ pc[c] = "query"
  /\ \/ \E r \in rows : r.config = config[c] /\ Returns(c, r.id)
     \/ /\ \A r \in rows : r.config # config[c]
        /\ pc' = [pc EXCEPT ![c] = "add"]
        /\ UNCHANGED browserId
  /\ UNCHANGED <<rows, pending, nextId, config, results>>

\* A row with the key of c's configuration in the set R.
Taken(c, R) == \E r \in R : r.config.key = config[c].key

\* A mutant of Insert: the constraint is not checked.
InsertUnchecked(c) ==
  /\ pc[c] = "add"
  /\ nextId <= MaxId
  /\ nextId' = nextId + 1
  /\ pending' = [pending EXCEPT ![c] = {[id |-> nextId, config |-> config[c]]}]
  /\ pc' = [pc EXCEPT ![c] = "commit"]
  /\ UNCHANGED <<rows, config, browserId, results>>

\* commit flushes the INSERT.
Insert(c) ==
  /\ pc[c] = "add"
  /\ nextId <= MaxId
  /\ ~Taken(c, rows)
  /\ \A d \in Crawler : ~Taken(c, pending[d])
  /\ nextId' = nextId + 1
  /\ pending' = [pending EXCEPT ![c] = {[id |-> nextId, config |-> config[c]]}]
  /\ pc' = [pc EXCEPT ![c] = "commit"]
  /\ UNCHANGED <<rows, config, browserId, results>>

\* A mutant of InsertConflicts: it does not wait for the other transaction.
InsertConflictsAtOnce(c) ==
  /\ pc[c] = "add"
  /\ nextId <= MaxId
  /\ Taken(c, rows) \/ \E d \in Crawler : Taken(c, pending[d])
  /\ nextId' = nextId + 1
  /\ Returns(c, None)
  /\ UNCHANGED <<rows, pending, config, results>>

\* IntegrityError, once the row of the other transaction is committed: the
\* sequence has moved on, the session is rolled back and None is returned.
InsertConflicts(c) ==
  /\ pc[c] = "add"
  /\ nextId <= MaxId
  /\ Taken(c, rows)
  /\ nextId' = nextId + 1
  /\ Returns(c, None)
  /\ UNCHANGED <<rows, pending, config, results>>

\* COMMIT, which lets the attributes of the new instance expire.
Commit(c) ==
  /\ pc[c] = "commit"
  /\ rows' = rows \union pending[c]
  /\ pending' = [pending EXCEPT ![c] = {}]
  /\ \E r \in pending[c] : browserId' = [browserId EXCEPT ![c] = r.id]
  /\ pc' = [pc EXCEPT ![c] = "refresh"]
  /\ UNCHANGED <<nextId, config, results>>

\* browser.id is loaded again by the primary key.
Refresh(c) ==
  /\ pc[c] = "refresh"
  /\ \E r \in rows : r.id = browserId[c] /\ Returns(c, r.id)
  /\ UNCHANGED <<rows, pending, nextId, config, results>>

\* A mutant of Fail: what was flushed stays.
FailAfterFlush(c) ==
  /\ pc[c] \in {"query", "add", "commit", "refresh"}
  /\ pc' = [pc EXCEPT ![c] = "idle"]
  /\ UNCHANGED <<rows, pending, nextId, config, browserId, results>>

\* The crawler is killed or the connection is lost: any other exception leaves
\* get_or_create_browser, and what is not committed is rolled back.
Fail(c) ==
  /\ pc[c] \in {"query", "add", "commit", "refresh"}
  /\ pending' = [pending EXCEPT ![c] = {}]
  /\ pc' = [pc EXCEPT ![c] = "idle"]
  /\ UNCHANGED <<rows, nextId, config, browserId, results>>

\* A mutant of Crawl: the database takes any browser_id.
CrawlUnchecked(c) ==
  /\ pc[c] = "crawl"
  /\ results' = results \union {[config |-> config[c], browser_id |-> browserId[c]]}
  /\ pc' = [pc EXCEPT ![c] = "idle"]
  /\ UNCHANGED <<rows, pending, nextId, config, browserId>>

\* The crawler visits its URLs and ends.  The id is filled in the URLs; the
\* INSERT of a result is refused if it is no number.
Crawl(c) ==
  /\ pc[c] = "crawl"
  /\ results' = IF browserId[c] = None THEN results
                ELSE results \union {[config |-> config[c], browser_id |-> browserId[c]]}
  /\ pc' = [pc EXCEPT ![c] = "idle"]
  /\ UNCHANGED <<rows, pending, nextId, config, browserId>>

Step(c) ==
  \/ Query(c)
  \/ Insert(c)
  \/ InsertConflicts(c)
  \/ Commit(c)
  \/ Refresh(c)
  \/ Fail(c)
  \/ Crawl(c)

Next == \E c \in Crawler : Call(c) \/ Step(c)

\* The database answers, and a transaction that waits goes on in the end.
Fairness ==
  \A c \in Crawler :
    WF_vars(Query(c) \/ Insert(c) \/ InsertConflicts(c) \/ Commit(c) \/ Refresh(c))

Spec == Init /\ [][Next]_vars

FairSpec == Spec /\ Fairness

-----------------------------------------------------------------------------
(* Properties                                                              *)

\* No two rows have the same id or the same key, committed or about to be, so
\* a configuration never has two ids and no id two configurations.
OneRowPerKey ==
  LET all == rows \union UNION {pending[c] : c \in Crawler}
  IN  \A r, s \in all : r.id = s.id \/ r.config.key = s.config.key => r = s

\* Results are stored under the row of the configuration that has produced
\* them, whoever has created it.
ResultsUnderOwnRow ==
  \A res \in results : [id |-> res.browser_id, config |-> res.config] \in rows

\* Calls that overlap are as good as calls one after the other: each takes effect
\* at one moment, when the row it returns is committed or found, or when its key
\* is in the table and it returns None.  The crawlers implement AtomicTable.
Asking == {"query", "add", "commit"}

Phase ==
  [c \in Crawler |-> IF pc[c] \in Asking THEN "asked"
                     ELSE IF pc[c] = "refresh" THEN "made"
                     ELSE IF pc[c] = "crawl" THEN "answered"
                     ELSE "idle"]

Table ==
  INSTANCE AtomicTable WITH
    Id <- 1..MaxId, NoId <- None, table <- rows, phase <- Phase, answer <- browserId

ImplementsAtomicTable == Table!Spec

\* A call comes to an end, although INSERTs wait for each other.
CallsEnd ==
  \A c \in Crawler : pc[c] = "query" ~> (pc[c] \in {"crawl", "idle"} \/ nextId > MaxId)
=============================================================================
