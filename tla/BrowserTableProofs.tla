------------------------- MODULE BrowserTableProofs -------------------------
(***************************************************************************)
(* Proofs about BrowserTable, for any crawlers, configurations and ids.    *)
(*                                                                         *)
(* The row a transaction has inserted is not in the table yet, and what a  *)
(* crawler goes on with is the id of a row that is.  The invariant says    *)
(* which rows there may be besides: ids below the sequence, one per key.   *)
(***************************************************************************)
EXTENDS BrowserTable, TLAPS

\* A transaction has inserted a row, that of its configuration, while it is
\* about to commit and at no other time.
Transactions ==
  \A c \in Crawler :
    /\ pc[c] = "commit" => \E r \in Row : pending[c] = {r} /\ r.config = config[c]
    /\ pc[c] # "commit" => pending[c] = {}

\* The ids given out are below the next one.
Sequence ==
  /\ \A r \in rows : r.id < nextId
  /\ \A c \in Crawler : \A r \in pending[c] : r.id < nextId

\* No two rows clash, in the table and in the transactions.
Clash(r, s) == r.id = s.id \/ r.config.key = s.config.key

OnePerKey ==
  /\ \A r, s \in rows : Clash(r, s) => r = s
  /\ \A c \in Crawler : \A r \in pending[c], s \in rows : ~Clash(r, s) /\ ~Clash(s, r)
  /\ \A c, d \in Crawler : c # d => \A r \in pending[c], s \in pending[d] : ~Clash(r, s)

\* The id a crawler goes on with.
Found ==
  \A c \in Crawler :
    pc[c] = "refresh" \/ (pc[c] = "crawl" /\ browserId[c] # None) =>
      [id |-> browserId[c], config |-> config[c]] \in rows

IInv ==
  /\ TypeOK /\ Transactions /\ Sequence /\ OnePerKey /\ Found
  /\ ResultsUnderOwnRow

LEMMA InitEstablishes == Init => IInv
<1> SUFFICES ASSUME Init PROVE IInv
  OBVIOUS
<1>1. TypeOK
  BY MaxIdAssumption DEF Init, TypeOK, None
<1>2. Transactions /\ Sequence /\ OnePerKey /\ Found
  BY DEF Init, Transactions, Sequence, OnePerKey, Found
<1>3. ResultsUnderOwnRow
  BY DEF Init, ResultsUnderOwnRow
<1> QED
  BY <1>1, <1>2, <1>3 DEF IInv

-----------------------------------------------------------------------------
(* What does not touch the table                                           *)

LEMMA CallPreserves == ASSUME IInv, NEW c \in Crawler, Call(c) PROVE IInv'
<1> USE DEF Call
<1>1. PICK wanted \in Config : config' = [config EXCEPT ![c] = wanted]
  OBVIOUS
<1>2. /\ pc[c] = "idle" /\ pc'[c] = "query" /\ \A d \in Crawler \ {c} : pc'[d] = pc[d]
      /\ \A d \in Crawler \ {c} : config'[d] = config[d]
  BY <1>1 DEF IInv, TypeOK
<1>3. TypeOK'
  BY <1>1 DEF IInv, TypeOK
<1>4. Transactions' /\ Sequence' /\ OnePerKey' /\ Found'
  BY <1>2 DEF IInv, Transactions, Sequence, OnePerKey, Found
<1>5. ResultsUnderOwnRow'
  BY <1>2 DEF IInv, ResultsUnderOwnRow
<1> QED
  BY <1>3, <1>4, <1>5 DEF IInv

LEMMA QueryPreserves == ASSUME IInv, NEW c \in Crawler, Query(c) PROVE IInv'
<1>1. /\ UNCHANGED <<rows, pending, nextId, config, results>>
      /\ pc[c] = "query"
  BY DEF Query
<1>2. CASE \E r \in rows : r.config = config[c] /\ Returns(c, r.id)
  <2>1. PICK r \in rows : r.config = config[c] /\ Returns(c, r.id)
    BY <1>2
  <2>2. /\ pc' = [pc EXCEPT ![c] = "crawl"]
        /\ browserId' = [browserId EXCEPT ![c] = r.id]
    BY <2>1 DEF Returns
  <2>3. r \in Row /\ r.id \in 1..MaxId /\ r = [id |-> r.id, config |-> config[c]]
    BY <2>1 DEF IInv, TypeOK, Row, Config
  <2>4. TypeOK'
    BY <1>1, <2>2, <2>3, MaxIdAssumption DEF IInv, TypeOK
  <2>5. /\ \A d \in Crawler \ {c} : pc'[d] = pc[d] /\ browserId'[d] = browserId[d]
        /\ pc'[c] = "crawl" /\ browserId'[c] = r.id /\ r.id # None
    BY <2>2, <2>3 DEF IInv, TypeOK, None
  <2>6. Transactions' /\ Sequence' /\ OnePerKey'
    BY <1>1, <2>5 DEF IInv, Transactions, Sequence, OnePerKey
  <2>7. Found'
    BY <1>1, <2>1, <2>3, <2>5 DEF IInv, Found
  <2>8. ResultsUnderOwnRow'
    BY <1>1, <2>5 DEF IInv, ResultsUnderOwnRow
  <2> QED
    BY <2>4, <2>6, <2>7, <2>8 DEF IInv
<1>3. CASE pc' = [pc EXCEPT ![c] = "add"] /\ UNCHANGED browserId
  <2>1. pc'[c] = "add" /\ \A d \in Crawler \ {c} : pc'[d] = pc[d]
    BY <1>3 DEF IInv, TypeOK
  <2>2. TypeOK'
    BY <1>1, <1>3 DEF IInv, TypeOK
  <2>3. Transactions' /\ Sequence' /\ OnePerKey' /\ Found'
    BY <1>1, <1>3, <2>1 DEF IInv, Transactions, Sequence, OnePerKey, Found
  <2>4. ResultsUnderOwnRow'
    BY <1>1, <1>3, <2>1 DEF IInv, ResultsUnderOwnRow
  <2> QED
    BY <2>2, <2>3, <2>4 DEF IInv
<1> QED
  BY <1>2, <1>3 DEF Query

LEMMA ConflictPreserves ==
  ASSUME IInv, NEW c \in Crawler, InsertConflicts(c) PROVE IInv'
<1>1. /\ UNCHANGED <<rows, pending, config, results>>
      /\ pc[c] = "add" /\ Taken(c, rows)
      /\ nextId <= MaxId /\ nextId' = nextId + 1
      /\ pc' = [pc EXCEPT ![c] = "crawl"]
      /\ browserId' = [browserId EXCEPT ![c] = None]
  BY DEF InsertConflicts, Returns
<1>2. /\ \A d \in Crawler \ {c} : pc'[d] = pc[d] /\ browserId'[d] = browserId[d]
      /\ pc'[c] = "crawl" /\ browserId'[c] = None
  BY <1>1 DEF IInv, TypeOK
<1>3. TypeOK'
  BY <1>1, MaxIdAssumption DEF IInv, TypeOK, None
<1>4. Transactions' /\ OnePerKey' /\ Found'
  BY <1>1, <1>2 DEF IInv, Transactions, OnePerKey, Found
<1>5. Sequence'
  BY <1>1, MaxIdAssumption DEF IInv, TypeOK, Row, Sequence
<1>6. ResultsUnderOwnRow'
  BY <1>1, <1>2 DEF IInv, ResultsUnderOwnRow
<1> QED
  BY <1>3, <1>4, <1>5, <1>6 DEF IInv

LEMMA FailPreserves == ASSUME IInv, NEW c \in Crawler, Fail(c) PROVE IInv'
<1>1. /\ UNCHANGED <<rows, nextId, config, browserId, results>>
      /\ pending' = [pending EXCEPT ![c] = {}]
      /\ pc' = [pc EXCEPT ![c] = "idle"]
  BY DEF Fail
<1>2. /\ \A d \in Crawler \ {c} : pc'[d] = pc[d] /\ pending'[d] = pending[d]
      /\ pc'[c] = "idle" /\ pending'[c] = {}
  BY <1>1 DEF IInv, TypeOK
<1>3. TypeOK'
  BY <1>1 DEF IInv, TypeOK
<1>4. Transactions' /\ Sequence' /\ OnePerKey' /\ Found'
  BY <1>1, <1>2 DEF IInv, Transactions, Sequence, OnePerKey, Found
<1>5. ResultsUnderOwnRow'
  BY <1>1, <1>2 DEF IInv, ResultsUnderOwnRow
<1> QED
  BY <1>3, <1>4, <1>5 DEF IInv

LEMMA CrawlPreserves == ASSUME IInv, NEW c \in Crawler, Crawl(c) PROVE IInv'
<1>1. /\ UNCHANGED <<rows, pending, nextId, config, browserId>>
      /\ pc[c] = "crawl" /\ pc' = [pc EXCEPT ![c] = "idle"]
      /\ results' = IF browserId[c] = None THEN results
                    ELSE results \union {[config |-> config[c], browser_id |-> browserId[c]]}
  BY DEF Crawl
<1>2. pc'[c] = "idle" /\ \A d \in Crawler \ {c} : pc'[d] = pc[d]
  BY <1>1 DEF IInv, TypeOK
<1>3. TypeOK'
  <2>1. config[c] \in Config /\ browserId[c] \in 0..MaxId
    BY DEF IInv, TypeOK
  <2>2. results' \subseteq [config : Config, browser_id : 1..MaxId]
    BY <1>1, <2>1, MaxIdAssumption DEF IInv, TypeOK, None
  <2> QED
    BY <1>1, <2>2 DEF IInv, TypeOK
<1>4. Transactions' /\ Sequence' /\ OnePerKey' /\ Found'
  BY <1>1, <1>2 DEF IInv, Transactions, Sequence, OnePerKey, Found
<1>5. ResultsUnderOwnRow'
  <2>1. \A res \in results : [id |-> res.browser_id, config |-> res.config] \in rows'
    BY <1>1 DEF IInv, ResultsUnderOwnRow
  <2>2. browserId[c] # None => [id |-> browserId[c], config |-> config[c]] \in rows'
    BY <1>1 DEF IInv, Found
  <2>3. CASE browserId[c] = None
    BY <1>1, <2>1, <2>3 DEF ResultsUnderOwnRow
  <2>4. CASE browserId[c] # None
    <3> DEFINE new == [config |-> config[c], browser_id |-> browserId[c]]
    <3>1. results' = results \union {new}
      BY <1>1, <2>4
    <3>2. new.browser_id = browserId[c] /\ new.config = config[c]
      OBVIOUS
    <3> HIDE DEF new
    <3>3. \A res \in results' : [id |-> res.browser_id, config |-> res.config] \in rows'
      BY <2>1, <2>2, <2>4, <3>1, <3>2
    <3> QED
      BY <3>3 DEF ResultsUnderOwnRow
  <2> QED
    BY <2>3, <2>4
<1> QED
  BY <1>3, <1>4, <1>5 DEF IInv

-----------------------------------------------------------------------------
(* INSERT and COMMIT                                                       *)

\* The new row has a new id, and nobody has its key.
LEMMA InsertPreserves == ASSUME IInv, NEW c \in Crawler, Insert(c) PROVE IInv'
<1> DEFINE new == [id |-> nextId, config |-> config[c]]
<1>1. /\ UNCHANGED <<rows, config, browserId, results>>
      /\ pc[c] = "add" /\ pc' = [pc EXCEPT ![c] = "commit"]
      /\ nextId <= MaxId /\ nextId' = nextId + 1
      /\ pending' = [pending EXCEPT ![c] = {new}]
      /\ ~Taken(c, rows) /\ \A d \in Crawler : ~Taken(c, pending[d])
  BY DEF Insert
<1>2. /\ \A d \in Crawler \ {c} : pc'[d] = pc[d] /\ pending'[d] = pending[d]
      /\ pc'[c] = "commit" /\ pending'[c] = {new}
  BY <1>1 DEF IInv, TypeOK
<1>3. nextId \in 1..MaxId /\ config[c] \in Config /\ new \in Row
  BY <1>1, MaxIdAssumption DEF IInv, TypeOK, Row
<1>4. TypeOK'
  BY <1>1, <1>3, MaxIdAssumption DEF IInv, TypeOK
<1>5. Transactions'
  BY <1>1, <1>2, <1>3 DEF IInv, Transactions
<1>6. Sequence'
  <2>1. /\ \A r \in rows : r.id < nextId /\ r.id \in Int
        /\ \A d \in Crawler : \A r \in pending[d] : r.id < nextId /\ r.id \in Int
    BY DEF IInv, TypeOK, Row, Sequence
  <2>2. \A r \in rows : r.id < nextId'
    BY <1>1, <1>3, <2>1
  <2>3. \A d \in Crawler : \A r \in pending'[d] : r.id < nextId'
    BY <1>1, <1>2, <1>3, <2>1
  <2> QED
    BY <1>1, <2>2, <2>3 DEF Sequence
<1>7. OnePerKey'
  <2>1. \A r \in rows : r.id # new.id /\ r.config.key # new.config.key
    BY <1>1, <1>3 DEF IInv, TypeOK, Row, Sequence, Taken
  <2>2. \A d \in Crawler : \A r \in pending[d] : r.id # new.id /\ r.config.key # new.config.key
    BY <1>1, <1>3 DEF IInv, TypeOK, Row, Sequence, Taken
  <2> QED
    BY <1>1, <1>2, <2>1, <2>2 DEF IInv, OnePerKey, Clash
<1>8. Found' /\ ResultsUnderOwnRow'
  BY <1>1, <1>2 DEF IInv, Found, ResultsUnderOwnRow
<1> QED
  BY <1>4, <1>5, <1>6, <1>7, <1>8 DEF IInv

LEMMA CommitPreserves == ASSUME IInv, NEW c \in Crawler, Commit(c) PROVE IInv'
<1>1. PICK r \in Row : pending[c] = {r} /\ r.config = config[c]
  BY DEF Commit, IInv, Transactions
<1>2. /\ UNCHANGED <<nextId, config, results>>
      /\ rows' = rows \union {r}
      /\ pending' = [pending EXCEPT ![c] = {}]
      /\ pc' = [pc EXCEPT ![c] = "refresh"]
      /\ browserId' = [browserId EXCEPT ![c] = r.id]
  BY <1>1 DEF Commit
<1>3. /\ \A d \in Crawler \ {c} : /\ pc'[d] = pc[d] /\ pending'[d] = pending[d]
                                  /\ browserId'[d] = browserId[d]
      /\ pc'[c] = "refresh" /\ pending'[c] = {} /\ browserId'[c] = r.id
  BY <1>2 DEF IInv, TypeOK
<1>4. r.id \in 1..MaxId /\ r.id # None /\ r = [id |-> r.id, config |-> config[c]]
  BY <1>1 DEF Row, Config, None
<1>5. TypeOK'
  BY <1>1, <1>2, <1>4, MaxIdAssumption DEF IInv, TypeOK
<1>6. Transactions' /\ Sequence'
  BY <1>1, <1>2, <1>3 DEF IInv, Transactions, Sequence
<1>7. OnePerKey'
  BY <1>1, <1>2, <1>3 DEF IInv, OnePerKey, Clash
<1>8. Found'
  BY <1>2, <1>3, <1>4 DEF IInv, Found
<1>9. ResultsUnderOwnRow'
  BY <1>2, <1>3, <1>4 DEF IInv, ResultsUnderOwnRow
<1> QED
  BY <1>5, <1>6, <1>7, <1>8, <1>9 DEF IInv

LEMMA RefreshPreserves == ASSUME IInv, NEW c \in Crawler, Refresh(c) PROVE IInv'
<1>1. /\ UNCHANGED <<rows, pending, nextId, config, results>>
      /\ pc[c] = "refresh" /\ pc' = [pc EXCEPT ![c] = "crawl"]
      /\ browserId' = [browserId EXCEPT ![c] = browserId[c]]
  BY DEF Refresh, Returns
<1>2. /\ pc'[c] = "crawl" /\ \A d \in Crawler \ {c} : pc'[d] = pc[d]
      /\ browserId' = browserId
  BY <1>1 DEF IInv, TypeOK
<1>3. TypeOK'
  BY <1>1, <1>2 DEF IInv, TypeOK
<1>4. Transactions' /\ Sequence' /\ OnePerKey'
  BY <1>1, <1>2 DEF IInv, Transactions, Sequence, OnePerKey
<1>5. Found' /\ ResultsUnderOwnRow'
  BY <1>1, <1>2 DEF IInv, Found, ResultsUnderOwnRow
<1> QED
  BY <1>3, <1>4, <1>5 DEF IInv

-----------------------------------------------------------------------------
(* The theorems                                                            *)

LEMMA NextPreserves == IInv /\ [Next]_vars => IInv'
<1> SUFFICES ASSUME IInv, [Next]_vars PROVE IInv'
  OBVIOUS
<1>1. CASE UNCHANGED vars
  <2>1. TypeOK' /\ Transactions' /\ Sequence' /\ OnePerKey' /\ Found'
    BY <1>1 DEF vars, IInv, TypeOK, Transactions, Sequence, OnePerKey, Found
  <2>2. ResultsUnderOwnRow'
    BY <1>1 DEF vars, IInv, ResultsUnderOwnRow
  <2> QED
    BY <2>1, <2>2 DEF IInv
<1>2. ASSUME NEW c \in Crawler, Call(c) \/ Step(c) PROVE IInv'
  BY <1>2, CallPreserves, QueryPreserves, InsertPreserves, ConflictPreserves,
     CommitPreserves, RefreshPreserves, FailPreserves, CrawlPreserves DEF Step
<1> QED
  BY <1>1, <1>2 DEF Next

THEOREM Invariance == Spec => []IInv
<1> QED
  BY InitEstablishes, NextPreserves, PTL DEF Spec

\* Every variable keeps its type; in particular no result without a browser id
\* is stored.
THEOREM TypeCorrect == Spec => []TypeOK
<1>1. IInv => TypeOK
  BY DEF IInv
<1> QED
  BY <1>1, Invariance, PTL

\* Crawlers that look up their browsers at the same time never make two rows of
\* one key, committed or not.
THEOREM UniqueRows == Spec => []OneRowPerKey
<1>1. IInv => OneRowPerKey
  BY DEF IInv, Transactions, OnePerKey, Clash, OneRowPerKey
<1> QED
  BY <1>1, Invariance, PTL

\* Whoever has created the row, results are stored under the row of the
\* configuration that has produced them.
THEOREM OwnRow == Spec => []ResultsUnderOwnRow
<1>1. IInv => ResultsUnderOwnRow
  BY DEF IInv
<1> QED
  BY <1>1, Invariance, PTL

-----------------------------------------------------------------------------
(* The crawlers implement AtomicTable                                      *)

\* What a step that moves c to q is for AtomicTable.
LEMMA Moves ==
  ASSUME IInv, NEW c \in Crawler, NEW q, pc' = [pc EXCEPT ![c] = q]
  PROVE  /\ pc[c] \in Asking /\ q \in Asking => Phase' = Phase
         /\ pc[c] = "idle" /\ q \in Asking => Table!Goes(c, "idle", "asked")
         /\ pc[c] \in Asking /\ q = "refresh" => Table!Goes(c, "asked", "made")
         /\ pc[c] \in Asking /\ q = "crawl" => Table!Goes(c, "asked", "answered")
         /\ pc[c] = "refresh" /\ q = "crawl" => Table!Goes(c, "made", "answered")
         /\ pc[c] \in Asking /\ q = "idle" => Table!Goes(c, "asked", "idle")
         /\ pc[c] = "refresh" /\ q = "idle" => Table!Goes(c, "made", "idle")
         /\ pc[c] = "crawl" /\ q = "idle" => Table!Goes(c, "answered", "idle")
<1>1. \A d \in Crawler : pc'[d] = IF d = c THEN q ELSE pc[d]
  BY DEF IInv, TypeOK
<1>2. pc[c] \in Asking /\ q \in Asking => Phase' = Phase
  BY <1>1 DEF Phase, Asking
<1>3. \A p : (q = "idle" /\ p = "idle") \/ (q \in Asking /\ p = "asked")
               \/ (q = "refresh" /\ p = "made") \/ (q = "crawl" /\ p = "answered")
             => Phase' = [Phase EXCEPT ![c] = p]
  BY <1>1 DEF Phase, Asking
<1>4. /\ pc[c] = "idle" => Phase[c] = "idle"
      /\ pc[c] \in Asking => Phase[c] = "asked"
      /\ pc[c] = "refresh" => Phase[c] = "made"
      /\ pc[c] = "crawl" => Phase[c] = "answered"
  BY DEF Phase, Asking
<1> QED
  BY <1>2, <1>3, <1>4 DEF Table!Goes

\* The row is committed while nobody has its key: its transaction has kept
\* others from it since the INSERT.
LEMMA CommitCreates == ASSUME IInv, NEW c \in Crawler, Commit(c) PROVE Table!Create(c)
<1>1. PICK r \in Row : pending[c] = {r} /\ r.config = config[c]
  BY DEF Commit, IInv, Transactions
<1>2. /\ UNCHANGED config
      /\ rows' = rows \union {r}
      /\ pc[c] = "commit" /\ pc' = [pc EXCEPT ![c] = "refresh"]
      /\ browserId' = [browserId EXCEPT ![c] = r.id]
  BY <1>1 DEF Commit
<1>3. r.id \in 1..MaxId /\ r = [id |-> r.id, config |-> config[c]]
  BY <1>1 DEF Row
<1>4. \A s \in rows : s.id # r.id /\ s.config.key # config[c].key
  BY <1>1 DEF IInv, OnePerKey, Clash
<1>5. Table!Answers(c, r.id, "made")
  BY <1>2, Moves DEF Asking, Table!Answers
<1> QED
  BY <1>2, <1>3, <1>4, <1>5 DEF Table!Create

LEMMA QueryFinds ==
  ASSUME IInv, NEW c \in Crawler, Query(c)
  PROVE  Table!Find(c) \/ UNCHANGED Table!vars
<1>1. /\ pc[c] = "query" /\ UNCHANGED <<rows, config>>
      /\ \/ \E r \in rows : r.config = config[c] /\ Returns(c, r.id)
         \/ pc' = [pc EXCEPT ![c] = "add"] /\ UNCHANGED browserId
  BY DEF Query
<1>2. ASSUME NEW r \in rows, r.config = config[c], Returns(c, r.id) PROVE Table!Find(c)
  <2>1. Table!Answers(c, r.id, "answered")
    BY <1>1, <1>2, Moves DEF Asking, Returns, Table!Answers
  <2> QED
    BY <1>1, <1>2, <2>1 DEF Table!Find
<1>3. ASSUME pc' = [pc EXCEPT ![c] = "add"], UNCHANGED browserId PROVE UNCHANGED Table!vars
  <2>1. Phase' = Phase
    BY <1>1, <1>3, Moves DEF Asking
  <2> QED
    BY <1>1, <1>3, <2>1 DEF Table!vars
<1> QED
  BY <1>1, <1>2, <1>3

LEMMA StepRefines == ASSUME IInv, [Next]_vars PROVE [Table!Next]_(Table!vars)
<1>1. CASE UNCHANGED vars
  BY <1>1 DEF vars, Phase, Table!vars
<1>2. ASSUME NEW c \in Crawler, Call(c) PROVE Table!Ask(c)
  BY <1>2, Moves DEF Asking, Call, Table!Ask, Config, Table!Config
<1>3. ASSUME NEW c \in Crawler, Insert(c) PROVE UNCHANGED Table!vars
  <2>1. pc[c] = "add" /\ pc' = [pc EXCEPT ![c] = "commit"] /\ UNCHANGED <<rows, config, browserId>>
    BY <1>3 DEF Insert
  <2>2. Phase' = Phase
    BY <2>1, Moves DEF Asking
  <2> QED
    BY <2>1, <2>2 DEF Table!vars
<1>4. ASSUME NEW c \in Crawler, InsertConflicts(c) PROVE Table!Refuse(c)
  BY <1>4, Moves DEF Asking, InsertConflicts, Returns, Taken, Table!Refuse, Table!Answers
<1>5. ASSUME NEW c \in Crawler, Fail(c) PROVE Table!Fail(c)
  BY <1>5, Moves DEF Asking, Fail, Table!Fail
<1>6. ASSUME NEW c \in Crawler, Crawl(c) PROVE Table!Leave(c)
  BY <1>6, Moves DEF Asking, Crawl, Table!Leave
<1>7. ASSUME NEW c \in Crawler, Refresh(c) PROVE Table!Return(c)
  <2>1. browserId' = browserId
    BY <1>7 DEF Refresh, Returns, IInv, TypeOK
  <2> QED
    BY <1>7, <2>1, Moves DEF Asking, Refresh, Returns, Table!Return
<1> QED
  BY <1>1, <1>2, <1>3, <1>4, <1>5, <1>6, <1>7, CommitCreates, QueryFinds DEF Next, Step, Table!Next

\* Concurrent calls of get_or_create_browser are as good as calls one after the
\* other: a row is made by one of them, and None is returned only for a key that
\* is in the table.
THEOREM Refinement == Spec => ImplementsAtomicTable
<1>1. Init => Table!Init
  BY DEF Init, Phase, Asking, Table!Init, Config, Table!Config
<1>2. IInv /\ [Next]_vars => [Table!Next]_(Table!vars)
  BY StepRefines
<1> QED
  BY <1>1, <1>2, Invariance, PTL DEF Spec, ImplementsAtomicTable, Table!Spec
=============================================================================
