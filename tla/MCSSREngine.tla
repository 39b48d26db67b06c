----------------------------- MODULE MCSSREngine -----------------------------
(***************************************************************************)
(* Bars for checking SSREngine.                                            *)
(***************************************************************************)
EXTENDS SSREngine

BarsUpTo(n) ==
  {b \in [h : 0..n, l : 0..n, c : 0..n, spread : {0, 1}] : b.l <= b.c /\ b.c <= b.h}

EightBars == BarsUpTo(8)
TwoAdrs == {NoAdr, 12}
==============================================================================
