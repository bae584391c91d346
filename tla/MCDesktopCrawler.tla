-------------------------- MODULE MCDesktopCrawler --------------------------
(***************************************************************************)
(* DesktopCrawler for TLC: two workers, chunks of two URLs.                *)
(***************************************************************************)
EXTENDS DesktopCrawler, TLC

\* Every driver call but the close of a test window may hang.
HangsButClose == DriverCalls \ {"close"}

\* Workers and chunks are interchangeable in the safety runs.
Symmetry == Permutations(Worker) \union Permutations(Chunk)
=============================================================================
