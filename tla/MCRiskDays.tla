----------------------------- MODULE MCRiskDays -----------------------------
(***************************************************************************)
(* Values for checking RiskDays: TLC's configuration files have no         *)
(* negative numbers.                                                       *)
(***************************************************************************)
EXTENDS RiskDays

MinusFour == -4
MinusFive == -5
MinusSix == -6
==============================================================================
