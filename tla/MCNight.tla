------------------------------- MODULE MCNight -------------------------------
(***************************************************************************)
(* Values for checking Night.                                              *)
(***************************************************************************)
EXTENDS Night

FewBids == {1, 3}

MinusFive == -5
MinusSix == -6
MinusFifteen == -15
==============================================================================
