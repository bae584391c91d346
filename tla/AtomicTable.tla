----------------------------- MODULE AtomicTable -----------------------------
(***************************************************************************)
(* What get_or_create_browser promises to crawlers that call it at the     *)
(* same time, with nothing said about queries, inserts and transactions: a *)
(* call takes effect at one moment, at which it                            *)
(*                                                                         *)
(*   - makes the row of its configuration, if nobody has its key,          *)
(*   - or finds that row,                                                  *)
(*   - or refuses, and only because there is a row with the key;           *)
(*                                                                         *)
(* and rows are never changed.  Somebody who has made a row may fail       *)
(* before the answer; no other call that fails has an effect.              *)
(*                                                                         *)
(* BrowserTable is shown to implement this specification.                  *)
(***************************************************************************)

CONSTANTS
  Crawler,
  Key,                  \* what may be in the table only once
  Info,                 \* the rest of a configuration
  Id,                   \* ids of rows
  NoId                  \* what a refused call returns

Config == [key : Key, info : Info]

VARIABLES
  table,                \* the rows
  phase,                \* phase[c]: "idle", "asked", "made" or "answered"
  config,               \* config[c]: the configuration c asks for
  answer                \* answer[c]: what its last call returns

vars == <<table, phase, config, answer>>

Init ==
  /\ table = {}
  /\ phase = [c \in Crawler |-> "idle"]
  /\ config \in [Crawler -> Config]
  /\ answer = [c \in Crawler |-> NoId]

Goes(c, p, q) ==
  /\ phase[c] = p
  /\ phase' = [phase EXCEPT ![c] = q]

Ask(c) ==
  /\ Goes(c, "idle", "asked")
  /\ \E wanted \in Config : config' = [config EXCEPT ![c] = wanted]
  /\ UNCHANGED <<table, answer>>

Answers(c, i, p) ==
  /\ Goes(c, "asked", p)
  /\ answer' = [answer EXCEPT ![c] = i]
  /\ UNCHANGED config

Create(c) ==
  /\ \A r \in table : r.config.key # config[c].key
  /\ \E i \in Id \ {r.id : r \in table} :
       /\ table' = table \union {[id |-> i, config |-> config[c]]}
       /\ Answers(c, i, "made")

Return(c) ==
  /\ Goes(c, "made", "answered")
  /\ UNCHANGED <<table, config, answer>>

Find(c) ==
  /\ \E r \in table : r.config = config[c] /\ Answers(c, r.id, "answered")
  /\ UNCHANGED table

Refuse(c) ==
  /\ \E r \in table : r.config.key = config[c].key
  /\ Answers(c, NoId, "answered")
  /\ UNCHANGED table

Fail(c) ==
  /\ Goes(c, "asked", "idle") \/ Goes(c, "made", "idle")
  /\ UNCHANGED <<table, config, answer>>

\* The crawler has done its work with the answer.
Leave(c) ==
  /\ Goes(c, "answered", "idle")
  /\ UNCHANGED <<table, config, answer>>

Next ==
  \E c \in Crawler :
    \/ Ask(c)
    \/ Create(c)
    \/ Return(c)
    \/ Find(c)
    \/ Refuse(c)
    \/ Fail(c)
    \/ Leave(c)

Spec == Init /\ [][Next]_vars
=============================================================================
