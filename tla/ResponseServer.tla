--------------------------- MODULE ResponseServer ---------------------------
(***************************************************************************)
(* The caches of the server processes that ServeSupervisor starts and      *)
(* ends: get_response (_hp/server/responses.py) and get_resp_ids           *)
(* (_hp/server/get_resp_ids.py) keep what they have found in the table     *)
(* Response until their process ends.                                      *)
(*                                                                         *)
(* One response is followed.  It is created before a server process starts *)
(* or while it runs.  functools.lru_cache calls the function without a     *)
(* lock: threads that miss at the same time all read the table.  In the    *)
(* bounded cache of get_response the first to return fills the entry; in   *)
(* the unbounded one of get_resp_ids, the last to return overwrites it.    *)
(***************************************************************************)
EXTENDS ServeSupervisor

CONSTANT Asked          \* ports whose servers are asked for the response

ASSUME AskedAssumption == Asked \subseteq Port

VARIABLES
  stored,               \* the row of the response is committed
  atStart,              \* atStart[p]: it was when the server for p started
  reading,              \* reading[p][q]: what calls that missed have read
  entry                 \* entry[p][q]: what the cache of query q has

caches == <<stored, atStart, reading, entry>>
allVars == <<vars, caches>>

Query == {"response", "list"}
Answer == {"row", "none"}       \* with the response, or without it

NoReading == [q \in Query |-> {}]
NoEntry == [q \in Query |-> "unknown"]

CachesTypeOK ==
  /\ TypeOK
  /\ stored \in BOOLEAN
  /\ atStart \in [Asked -> BOOLEAN]
  /\ reading \in [Asked -> [Query -> SUBSET Answer]]
  /\ entry \in [Asked -> [Query -> Answer \union {"unknown"}]]

InitCaches ==
  /\ stored \in BOOLEAN
  /\ atStart = [p \in Asked |-> FALSE]
  /\ reading = [p \in Asked |-> NoReading]
  /\ entry = [p \in Asked |-> NoEntry]

\* create_responses.py commits the row.
CreateResponse ==
  /\ ~stored
  /\ stored' = TRUE
  /\ UNCHANGED <<vars, atStart, reading, entry>>

\* A server answers requests until its process ends.
Answers(p) == srv[p] \in {"serving", "stopping"}

\* A call that missed may still fill the entry of q.
Open(p, q) == q = "list" \/ entry[p][q] = "unknown"

\* A call that found no entry when it began, of which there may be any number,
\* has read answer a.
Reads(p, q, a) ==
  /\ Answers(p)
  /\ Open(p, q)
  /\ reading' = [reading EXCEPT ![p][q] = @ \union {a}]
  /\ UNCHANGED <<vars, stored, atStart, entry>>

Read(p, q) == Reads(p, q, IF stored THEN "row" ELSE "none")

\* A mutant of QueryFails: get_response returns None as well.
QueryFailsQuietly(p) == \E q \in Query : Reads(p, q, "none")

\* The query raises.  get_resp_ids returns an empty list; in get_response the
\* name it returns is unbound, the exception is raised and nothing is cached.
QueryFails(p) == Reads(p, "list", "none")

\* A call returns.  Others may have read the same and return later.
Fill(p, q) ==
  /\ Answers(p)
  /\ Open(p, q)
  /\ \E a \in reading[p][q] : entry' = [entry EXCEPT ![p][q] = a]
  /\ UNCHANGED <<vars, stored, atStart, reading>>

\* A mutant of CachesFollow: lists are kept for the next process.
ListsSurvive ==
  /\ atStart' = [p \in Asked |-> IF srv[p] = "none" THEN stored ELSE atStart[p]]
  /\ reading' = [p \in Asked |-> IF Answers(p)' THEN reading[p] ELSE NoReading]
  /\ entry' = [p \in Asked |-> IF Answers(p)' THEN entry[p]
                               ELSE [NoEntry EXCEPT !["list"] = entry[p]["list"]]]
  /\ UNCHANGED stored

\* Caches begin and end with the process.
CachesFollow ==
  /\ atStart' = [p \in Asked |-> IF srv[p] = "none" THEN stored ELSE atStart[p]]
  /\ reading' = [p \in Asked |-> IF Answers(p)' THEN reading[p] ELSE NoReading]
  /\ entry' = [p \in Asked |-> IF Answers(p)' THEN entry[p] ELSE NoEntry]
  /\ UNCHANGED stored

NextWithCaches ==
  \/ Next /\ CachesFollow
  \/ CreateResponse
  \/ \E p \in Asked :
       \/ QueryFails(p)
       \/ \E q \in Query : Read(p, q) \/ Fill(p, q)

InitWithCaches == Init /\ InitCaches

SpecWithCaches == InitWithCaches /\ [][NextWithCaches]_allVars /\ Fairness

-----------------------------------------------------------------------------
(* Properties                                                              *)

\* A response that exists when a server starts is served by it, whatever
\* errors the database has in between.
ExistingServed ==
  \A p \in Asked : atStart[p] => entry[p]["response"] # "none"

\* A response that a server has cached as missing, or left out of the list of
\* its label, is not hidden for longer than until the next restart, if server.py
\* is there to restart it.
StaleEnds ==
  WF_vars(Timeout) =>
    \A p \in Asked, q \in Query :
      stored /\ entry[p][q] = "none" ~>
        entry[p][q] # "none" \/ cut \/ sup = "escaped"
=============================================================================
