------------------------------ MODULE MCStash ------------------------------
(***************************************************************************)
(* Two threads of one server process and one of another.                   *)
(***************************************************************************)
EXTENDS Stash

MCProcessOf == [t \in Thread |-> IF t = "c" THEN "https" ELSE "http"]
=============================================================================
