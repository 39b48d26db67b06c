--------------------------- MODULE MCPaperSession ---------------------------
(***************************************************************************)
(* Model-checking definitions for PaperSession, and what the documents say *)
(* where the code does otherwise.                                          *)
(***************************************************************************)
EXTENDS PaperSession

Bids == 0..10
FewBids == {0, 3, 6}

MinusFive == -5
MinusNine == -9
MinusFifteen == -15

\* SPEC.md:169, config_schema.py:111: EUR/USD and GBP/USD are one risk unit, of
\* which at most one position is open.
OneRiskUnit == Cardinality(Live) <= 1
==============================================================================
