------------------------------- MODULE Stash -------------------------------
(***************************************************************************)
(* The key-value store that requests of all servers share                  *)
(* (wptserve/stash.py).  The data is in a manager process; each server      *)
(* process connects to it once, with the first request that needs it, and  *)
(* keeps proxies of the dictionary and of one lock in class attributes.    *)
(*                                                                         *)
(* put looks for the key and then writes, take reads and then pops, each in *)
(* two calls of the manager.  Callers that need more take Stash.lock        *)
(* around them.  One key is followed.                                      *)
(***************************************************************************)
EXTENDS Integers

CONSTANTS
  Thread,               \* threads that handle requests
  Process,              \* server processes
  processOf,            \* processOf[t]: the process of t
  Value                 \* values put, each by one call

None == "None"          \* no value, or no thread

ASSUME ProcessOfAssumption == processOf \in [Thread -> Process]
ASSUME NoneAssumption == None \notin Thread \union Value

VARIABLES
  careful,              \* callers use Stash.lock
  pc,                   \* where the threads are
  initializing,         \* initializing[x]: the holder of _initializing in x
  manager,              \* manager[x]: Stash.manager
  lock,                 \* lock[x]: Stash.lock of x is set
  holder,               \* the holder of the one lock behind them
  data,                 \* the value stored under the key
  val,                  \* val[t]: the value a call puts, or has read
  past,                 \* past[t]: values returned before its take began
  written,              \* values that have been stored
  returns               \* returns[v]: how often v was returned

setup == <<initializing, manager, lock>>
store == <<holder, data, val, past, written, returns>>
stashVars == <<careful, pc, setup, store>>

Calling == {"look", "write", "get", "pop"}
Starting == {"make", "connect", "get_dict", "get_lock"}

\* The manager is connected when get_dict and Lock are called, and Stash.lock
\* is set once the constructor returns: nobody meets a half-finished setup.
StashTypeOK ==
  /\ careful \in BOOLEAN
  /\ pc \in [Thread -> {"idle", "init", "ready"} \union Starting \union Calling]
  /\ initializing \in [Process -> Thread \union {None}]
  /\ manager \in [Process -> {None, "made", "connected"}]
  /\ lock \in [Process -> BOOLEAN]
  /\ \A t \in Thread :
       /\ pc[t] \in {"get_dict", "get_lock"} => manager[processOf[t]] = "connected"
       /\ pc[t] \in {"ready"} \union Calling => lock[processOf[t]]
  /\ holder \in Thread \union {None}
  /\ data \in Value \union {None}
  /\ val \in [Thread -> Value \union {None}]
  /\ past \in [Thread -> SUBSET Value]
  /\ written \subseteq Value
  /\ returns \in [Value -> Nat]

StashInit ==
  /\ careful \in BOOLEAN
  /\ pc = [t \in Thread |-> "idle"]
  /\ initializing = [x \in Process |-> None]
  /\ manager = [x \in Process |-> None]
  /\ lock = [x \in Process |-> FALSE]
  /\ holder = None
  /\ data = None
  /\ val = [t \in Thread |-> None]
  /\ past = [t \in Thread |-> {}]
  /\ written = {}
  /\ returns = [v \in Value |-> 0]

Goes(t, p, q) ==
  /\ pc[t] = p
  /\ pc' = [pc EXCEPT ![t] = q]
  /\ UNCHANGED careful

-----------------------------------------------------------------------------
(* The constructor: _get_proxy                                             *)

\* The first use of request.server.stash.
New(t) ==
  /\ Goes(t, "idle", "init")
  /\ UNCHANGED <<setup, store>>

\* A mutant of Enter: there is no lock around the setup.
EnterUnlocked(t) ==
  /\ Goes(t, "init", IF lock[processOf[t]] THEN "ready" ELSE "make")
  /\ UNCHANGED <<setup, store>>

\* with Stash._initializing.
Enter(t) ==
  LET x == processOf[t] IN
    /\ initializing[x] = None
    /\ \/ /\ lock[x]
          /\ Goes(t, "init", "ready")
          /\ UNCHANGED initializing
       \/ /\ ~lock[x]
          /\ Goes(t, "init", "make")
          /\ initializing' = [initializing EXCEPT ![x] = t]
    /\ UNCHANGED <<manager, lock, store>>

MakeManager(t) ==
  /\ Goes(t, "make", "connect")
  /\ manager' = [manager EXCEPT ![processOf[t]] = "made"]
  /\ UNCHANGED <<initializing, lock, store>>

Unlock(t) == initializing' = [initializing EXCEPT ![processOf[t]] = None]

Connect(t) ==
  /\ Goes(t, "connect", "get_dict")
  /\ manager' = [manager EXCEPT ![processOf[t]] = "connected"]
  /\ UNCHANGED <<initializing, lock, store>>

\* connect, get_dict or Lock raises: the manager process does not answer.  The
\* next request begins anew.
SetupFails(t) ==
  /\ \E p \in {"connect", "get_dict", "get_lock"} : Goes(t, p, "idle")
  /\ Unlock(t)
  /\ UNCHANGED <<manager, lock, store>>

GetDict(t) ==
  /\ Goes(t, "get_dict", "get_lock")
  /\ UNCHANGED <<setup, store>>

GetLock(t) ==
  /\ Goes(t, "get_lock", "ready")
  /\ lock' = [lock EXCEPT ![processOf[t]] = TRUE]
  /\ Unlock(t)
  /\ UNCHANGED <<manager, store>>

-----------------------------------------------------------------------------
(* put and take                                                            *)

\* A mutant of Acquire: each process has a lock of its own.
AcquireOwn(t) ==
  /\ careful => \A u \in Thread : processOf[u] = processOf[t] => pc[u] \notin Calling
  /\ UNCHANGED holder

\* with Stash.lock, if the caller is careful.
Acquire(t) ==
  /\ careful => holder = None
  /\ holder' = IF careful THEN t ELSE holder

Return(t, p) ==
  /\ Goes(t, p, "ready")
  /\ val' = [val EXCEPT ![t] = None]
  /\ past' = [past EXCEPT ![t] = {}]
  /\ holder' = IF holder = t THEN None ELSE holder

CallPut(t) ==
  /\ Goes(t, "ready", "look")
  /\ Acquire(t)
  /\ \E v \in Value \ written :
       /\ \A u \in Thread : val[u] # v
       /\ val' = [val EXCEPT ![t] = v]
  /\ UNCHANGED <<setup, data, past, written, returns>>

\* StashError: the key has a value.
PutFails(t) ==
  /\ data # None
  /\ Return(t, "look")
  /\ UNCHANGED <<setup, data, written, returns>>

Look(t) ==
  /\ data = None
  /\ Goes(t, "look", "write")
  /\ UNCHANGED <<setup, store>>

Write(t) ==
  /\ data' = val[t]
  /\ written' = written \union {val[t]}
  /\ Return(t, "write")
  /\ UNCHANGED <<setup, returns>>

CallTake(t) ==
  /\ Goes(t, "ready", "get")
  /\ Acquire(t)
  /\ past' = [past EXCEPT ![t] = {v \in Value : returns[v] > 0}]
  /\ UNCHANGED <<setup, data, val, written, returns>>

\* get returns None.
TakeNothing(t) ==
  /\ data = None
  /\ Return(t, "get")
  /\ UNCHANGED <<setup, data, written, returns>>

Get(t) ==
  /\ data # None
  /\ Goes(t, "get", "pop")
  /\ val' = [val EXCEPT ![t] = data]
  /\ UNCHANGED <<setup, holder, data, past, written, returns>>

\* A mutant of Pop: the value is returned and stays.
Peek(t) ==
  /\ Return(t, "pop")
  /\ UNCHANGED data
  /\ returns' = [returns EXCEPT ![val[t]] = @ + 1]
  /\ UNCHANGED <<setup, written>>

\* pop removes what is stored now; KeyError, if that is nothing, is ignored.
Pop(t) ==
  /\ Return(t, "pop")
  /\ data' = None
  /\ returns' = [returns EXCEPT ![val[t]] = @ + 1]
  /\ UNCHANGED <<setup, written>>

\* The request is over.
Done(t) ==
  /\ Goes(t, "ready", "idle")
  /\ UNCHANGED <<setup, store>>

-----------------------------------------------------------------------------

Construct(t) ==
  \/ New(t)
  \/ Enter(t)
  \/ MakeManager(t)
  \/ Connect(t)
  \/ SetupFails(t)
  \/ GetDict(t)
  \/ GetLock(t)

Call(t) ==
  \/ CallPut(t)
  \/ PutFails(t)
  \/ Look(t)
  \/ Write(t)
  \/ CallTake(t)
  \/ TakeNothing(t)
  \/ Get(t)
  \/ Pop(t)

StashNext == \E t \in Thread : Construct(t) \/ Call(t) \/ Done(t)

StashSpec == StashInit /\ [][StashNext]_stashVars

-----------------------------------------------------------------------------
(* Properties                                                              *)

\* With the lock the store is write-once and read-once: what was stored is
\* there until it is returned, and is returned once.
EachValueOnce ==
  careful => \A v \in written : returns[v] = IF data = v THEN 0 ELSE 1

\* Without it two takes may both return a value, but not if one begins after
\* the other has ended.
NotTakenAgain == \A t \in Thread : pc[t] = "pop" => val[t] \notin past[t]
=============================================================================
