---------------------------- MODULE MCRepeatLoop ----------------------------
(***************************************************************************)
(* Two ids without popups share a page; the third has two popups.  One      *)
(* browser runs each popup on a page of its own, as on Android, the other   *)
(* runs them on one page.                                                  *)
(***************************************************************************)
EXTENDS RepeatLoop

CONSTANTS desktop, android

MCNumPopups == [i \in 1..3 |-> IF i = 3 THEN 2 ELSE 0]

Range(f, l, fp, lp, np) ==
  [first |-> f, last |-> l, firstPopup |-> fp, lastPopup |-> lp, noPopup |-> np]

Shared == Range(1, 2, 0, 0, TRUE)
OnePage == Range(3, 3, 0, 0, TRUE)
Pieces == {Range(3, 3, 1, 1, TRUE), Range(3, 3, 2, 2, FALSE)}

MCPage == {Shared, OnePage} \union Pieces
MCPagesOf ==
  [b \in {desktop, android} |-> {Shared} \union IF b = desktop THEN {OnePage} ELSE Pieces]
=============================================================================
