----------------------------- MODULE OrderLedger -----------------------------
(***************************************************************************)
(* What the order path promises to the rest of the system, without saying  *)
(* how: an idempotency key is claimed at most once, at most one order is   *)
(* ever placed at the broker under a claimed key, and a key that was given *)
(* up never has an order behind it.  OrderManager implements this whenever *)
(* no answer is lost.  There a key is given up when it was rate limited or *)
(* abandoned; a rejected key only if the adapter names the code of every   *)
(* executed order, which the MT5 adapter does not.                         *)
(***************************************************************************)
EXTENDS Naturals

CONSTANT Intents  \* idempotency keys

VARIABLES
  claimed,        \* keys with an order_intent row
  given_up,       \* claimed keys whose row says that no order was placed
  placed          \* [Intents -> Nat], orders placed at the broker per key

ledgerVars == <<claimed, given_up, placed>>

Init ==
  /\ claimed = {}
  /\ given_up = {}
  /\ placed = [i \in Intents |-> 0]

Claim(i) ==
  /\ i \notin claimed
  /\ claimed' = claimed \union {i}
  /\ UNCHANGED <<given_up, placed>>

Place(i) ==
  /\ i \in claimed \ given_up
  /\ placed[i] = 0
  /\ placed' = [placed EXCEPT ![i] = 1]
  /\ UNCHANGED <<claimed, given_up>>

GiveUp(i) ==
  /\ i \in claimed
  /\ placed[i] = 0
  /\ given_up' = given_up \union {i}
  /\ UNCHANGED <<claimed, placed>>

Next == \E i \in Intents : Claim(i) \/ Place(i) \/ GiveUp(i)

Spec == Init /\ [][Next]_ledgerVars
==============================================================================
