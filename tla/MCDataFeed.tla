----------------------------- MODULE MCDataFeed -----------------------------
(***************************************************************************)
(* A small archive for checking DataFeed.                                  *)
(***************************************************************************)
EXTENDS DataFeed

ThreeMinutes == 0..2

\* The first day lacks a minute of the asks, and the bid has one more bar.
SmallArchive ==
  [f \in (1..3) \X {"bid", "ask"} |->
     IF f = <<1, "ask">> THEN {0, 2} ELSE IF f[1] = 2 THEN {} ELSE {0, 1, 2}]

\* The last bar of the third day is padding.
SmallPadding == [d \in 1..3 |-> IF d = 3 THEN {2} ELSE {}]
==============================================================================
