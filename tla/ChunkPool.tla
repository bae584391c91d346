------------------------------ MODULE ChunkPool ------------------------------
(***************************************************************************)
(* What the desktop crawler promises about the URL chunks it hands to its  *)
(* process pool, with nothing said about how the workers keep the promise: *)
(* a chunk is taken once, it may own a browser while it runs, and          *)
(*                                                                         *)
(*   - a chunk that was never interrupted by an alarm is reported, and     *)
(*     only once its browser is gone;                                      *)
(*   - only an interrupted chunk can leave a browser behind or be lost.    *)
(*                                                                         *)
(* DesktopCrawler is shown to implement this specification.                *)
(***************************************************************************)

CONSTANT Chunk          \* the elements of all_args

VARIABLES
  todo,                 \* chunks still in the task queue of the pool
  running,              \* chunks some worker is executing
  reported,             \* chunks whose result reached imap_unordered
  up,                   \* chunks whose browser processes are alive
  fired                 \* chunks an alarm signal interrupted

vars == <<todo, running, reported, up, fired>>

Init ==
  /\ todo = Chunk
  /\ running = {}
  /\ reported = {}
  /\ up = {}
  /\ fired = {}

Take(c) ==
  /\ c \in todo
  /\ todo' = todo \ {c}
  /\ running' = running \union {c}
  /\ UNCHANGED <<reported, up, fired>>

StartBrowser(c) ==
  /\ c \in running
  /\ up' = up \union {c}
  /\ UNCHANGED <<todo, running, reported, fired>>

StopBrowser(c) ==
  /\ c \in running
  /\ up' = up \ {c}
  /\ UNCHANGED <<todo, running, reported, fired>>

Interrupt(c) ==
  /\ c \in running
  /\ fired' = fired \union {c}
  /\ UNCHANGED <<todo, running, reported, up>>

\* The last step of a chunk may be the one that removes its browser.
Report(c) ==
  /\ c \in running
  /\ running' = running \ {c}
  /\ reported' = reported \union {c}
  /\ up' \in {up, up \ {c}}
  /\ c \in up' => c \in fired
  /\ UNCHANGED <<todo, fired>>

\* The worker process dies with the chunk; the pool never hears of it again.
Lose(c) ==
  /\ c \in running
  /\ running' = running \ {c}
  /\ fired' = fired \union {c}
  /\ UNCHANGED <<todo, reported, up>>

Next ==
  \E c \in Chunk :
    \/ Take(c)
    \/ StartBrowser(c)
    \/ StopBrowser(c)
    \/ Interrupt(c)
    \/ Report(c)
    \/ Lose(c)

Spec == Init /\ [][Next]_vars
=============================================================================
