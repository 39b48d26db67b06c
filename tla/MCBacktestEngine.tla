-------------------------- MODULE MCBacktestEngine --------------------------
(***************************************************************************)
(* Values for checking BacktestEngine.                                     *)
(***************************************************************************)
EXTENDS BacktestEngine

\* tp1_r = 1 and tp1_close = 0.5, as shipped; half a lot step is a unit of volume.
OneR == [stop \in {4} |-> stop]
HalfOf == [n \in 0..2 |-> n \div 2]

MinusFifteen == -15
MinusEighteen == -18
MinusTwentyFour == -24
==============================================================================
