--------------------------- MODULE MCOrderManager ---------------------------
(***************************************************************************)
(* Model-checking definitions for OrderManager.                            *)
(***************************************************************************)
EXTENDS OrderManager, TLC

Symmetry == Permutations(Intents)

\* DECISIONS.md:317: partial fills resize management, the managed position is
\* built from the filled lots.  The code does so for a partial fill that is
\* answered "ok"; an order that was filled in part and answered with MetaTrader's
\* code for it (10010) is a rejected order to submit_entry.
PartialFillsAreManaged ==
  \A t \in OpenTickets :
    pos[t].owner \in Intents /\ pos[t].lots < Lots
      => row[pos[t].owner].status \in {"sent", "filled"}
==============================================================================
