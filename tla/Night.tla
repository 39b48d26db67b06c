-------------------------------- MODULE Night --------------------------------
(***************************************************************************)
(* The end of a day on a broker account: the sessions of PaperSession, the *)
(* flattener (services/flattener.py), which is a process of its own with   *)
(* its own connection and takes one step per broker call, and restarts of  *)
(* a session through OrderManager.reconcile (services/order_manager.py).   *)
(***************************************************************************)
EXTENDS PaperSession

CONSTANTS
  FlattenFrom,  \* the time of the first scheduled run
  Runs,         \* scheduled runs of the flattener
  MaxRounds,    \* max_rounds
  MaxRestarts,  \* bound on the restarts of sessions
  Raises,       \* may a failed call of the flattener raise?
  Blind         \* may a failed query show nothing?

ASSUME NightAssumption ==
  /\ FlattenFrom \in Nat /\ Runs \in Nat /\ MaxRounds \in Nat \ {0}
  /\ MaxRestarts \in Nat /\ Raises \in BOOLEAN /\ Blind \in BOOLEAN

VARIABLES
  step,      \* of the flattener: "idle", "look", "close", "verify", "last"
  round,
  todo,      \* the positions of this round that it has not tried to close yet
  report,    \* how the latest run ended: "none", "ok", "escalated", "dead"
  blind,     \* did a failed query look like a flat account in it? (history)
  runs,      \* runs started
  rows,      \* the store: keys that were ordered, with or without a ticket
  restarts

flattener == <<step, round, todo, report, blind, runs>>
nightvars == <<vars, flattener, rows, restarts>>

(* --------------------------------- broker -------------------------------- *)

\* The broker closes by itself, at the level or at the quote.
NativeBracket(t, price) ==
  /\ ~Emulated /\ t \in Crossed
  /\ price \in {Level(t), ExitPrice(t)}
  /\ balance' = balance + Profit(t, price, book[t].lots)
  /\ book' = Without(book, {t})
  /\ UNCHANGED <<now, bid, session, seen, flattener, rows, restarts>>

(* ------------------------------- flattener ------------------------------- *)

\* The scheduler starts a run when the one before has ended.
FlattenStart ==
  /\ step = "idle" /\ runs < Runs
  /\ now >= FlattenFrom
  /\ step' = "look" /\ round' = 1 /\ runs' = runs + 1
  /\ report' = "none" /\ blind' = FALSE
  /\ UNCHANGED <<vars, todo, rows, restarts>>

\* positions(): what is open, or nothing when positions_get failed.
Positions == {P \in SUBSET Tickets : P = Live \/ (Blind /\ P = {})}

RunEnds(verdict) == step' = "idle" /\ report' = verdict /\ round' = 0 /\ todo' = {}

\* A look that shows nothing ends the run.
LooksFlat(P) ==
  /\ P = {}
  /\ RunEnds("ok") /\ blind' = (Live # {})

Look(P) ==
  /\ step = "look"
  /\ \/ LooksFlat(P)
     \/ /\ P # {}
        /\ step' = "close" /\ todo' = P
        /\ UNCHANGED <<round, report, blind>>
  /\ UNCHANGED <<vars, runs, rows, restarts>>

Tried(t) ==
  /\ todo' = todo \ {t}
  /\ step' = IF todo = {t} THEN "verify" ELSE "close"

\* close_position for one of them: n lots went.  Its result goes into the report
\* only.  Nothing goes if its session or its bracket closed it since the look, or
\* if the call fails; a failed one may also have closed a part, or all of it.
CloseOne(t, n) ==
  /\ step = "close" /\ t \in todo
  /\ n \in 0..book[t].lots /\ (n = book[t].lots \/ Unreliable)
  /\ Tried(t)
  /\ balance' = balance + Profit(t, ExitPrice(t), n)
  /\ book' = [book EXCEPT ![t] = PositionLess(@, n)]
  /\ UNCHANGED <<now, bid, session, seen, round, report, blind, runs, rows, restarts>>

MutVerify(P) ==
  /\ step = "verify"
  /\ RunEnds("ok")
  /\ UNCHANGED <<vars, blind, runs, rows, restarts>>
\* Flat or not is what the broker says after the round; then another round.
Verify(P) ==
  /\ step = "verify"
  /\ \/ LooksFlat(P)
     \/ /\ P # {}
        /\ IF round < MaxRounds THEN step' = "look" /\ round' = round + 1
           ELSE step' = "last" /\ UNCHANGED round
        /\ UNCHANGED <<todo, report, blind>>
  /\ UNCHANGED <<vars, runs, rows, restarts>>

\* The critical alert names what remains, which may be nothing by now.
Escalate ==
  /\ step = "last"
  /\ RunEnds("escalated")
  /\ UNCHANGED <<vars, blind, runs, rows, restarts>>

\* order_send answered None (adapter.py:236), or the connection could not be
\* made: an exception ends the process, without an alert.
FlattenDies ==
  /\ Raises /\ step # "idle"
  /\ RunEnds("dead")
  /\ UNCHANGED <<vars, blind, runs, rows, restarts>>

(* -------------------------------- sessions ------------------------------- *)

\* A session that was restarted may see a setup again: the UNIQUE key refuses it,
\* which changes no more than a filter does.  (Its decision rows may collide with
\* those before the restart, runner.py:113, and stop more entries than that.)
EnterOnce(t) ==
  \/ SetupFiltered(t) /\ UNCHANGED rows
  \/ /\ rows[t] = "none"
     /\ \E ref \in (Bid(t) - Drift)..(Bid(t) + Drift) :
          \/ EntryFilled(t, ref) /\ rows' = [rows EXCEPT ![t] = "filled"]
          \/ EntryFailed(t, ref) /\ rows' = [rows EXCEPT ![t] = "sent"]

\* A session dies and is built again for the day: reconcile, then a new engine
\* and new risk and compliance states.  A position whose ticket is in the store
\* is left as it is, and managed by nobody; one without is closed, or not when
\* the close fails: nobody looks at its result.
Strays == {t \in Live : rows[t] # "filled"}

Restart(s, T) ==
  /\ restarts < MaxRestarts
  /\ T \subseteq Strays /\ (T = Strays \/ Unreliable)
  /\ balance' =
       balance + MapThenSumSet(LAMBDA t : Profit(t, ExitPrice(t), book[t].lots), T)
  /\ book' = Without(book, T)
  /\ open' = [open EXCEPT ![s] = NoTrade]
  /\ at_entry' = [at_entry EXCEPT ![s] = 0]
  /\ risk' = [risk EXCEPT ![s] = InitialRisk]
  /\ comp' = [comp EXCEPT ![s] = OnDailyReset(InitialCompliance(balance'), balance')]
  /\ seen' = {t \in seen : t[1] # s}
  /\ restarts' = restarts + 1
  /\ UNCHANGED <<now, bid, flattener, rows>>

(* ------------------------------ specification ---------------------------- *)

NightInit ==
  /\ Init
  /\ step = "idle" /\ round = 0 /\ todo = {}
  /\ report = "none" /\ blind = FALSE /\ runs = 0
  /\ rows = [t \in Tickets |-> "none"]
  /\ restarts = 0

Flatten ==
  \/ FlattenStart
  \/ \E P \in Positions : Look(P) \/ Verify(P)
  \/ \E t \in Tickets, n \in 0..Lots : CloseOne(t, n)
  \/ Escalate

NightNext ==
  \/ /\ (\E s \in Symbols : Poll(s)) \/ Market
     /\ UNCHANGED <<flattener, rows, restarts>>
  \/ \E t \in Tickets : \E price \in {Level(t), ExitPrice(t)} : NativeBracket(t, price)
  \/ /\ \E t \in Tickets : EnterOnce(t)
     /\ UNCHANGED <<flattener, restarts>>
  \/ Flatten \/ FlattenDies
  \/ \E s \in Symbols, T \in SUBSET Tickets : Restart(s, T)

\* The forced close of a poll closes, or its TP1 does not raise.
CallSucceeds(s) ==
  \/ PollHardStop(s, "closed") \/ PollExit(s, "closed")
  \/ \E n \in 0..Lots, modified \in BOOLEAN : PollTp1(s, n, modified)

\* The fairness of the sessions, and of the flattener: the scheduler starts its
\* runs and a run goes on.  A broker may refuse its closes for ever.
NightSpec ==
  /\ NightInit /\ [][NightNext]_nightvars
  /\ WF_vars(Tick)
  /\ \A s \in Symbols :
       /\ WF_vars(Poll(s))
       /\ SF_vars(CallSucceeds(s))
  /\ WF_nightvars(Flatten)

(* ------------------------------- properties ------------------------------ *)

\* Whatever the broker refuses, loses or does by itself, what a session holds
\* is closed after the forced exit and stays so (runner.py:12-14).
KnownFlatByNight ==
  <>[](\A s \in Symbols : open[s] # NoTrade => book[Ticket(s)].lots = 0)

\* In the end the account is flat, or somebody was told, or the run died of the
\* adapter or mistook a failed query for a flat account, whatever sessions were
\* restarted and forgot a position, were never told of one, or close at the same
\* time (flattener.py:3-4 has the first two only: "VERIFIES flat by re-querying
\* the broker, retries, and escalates").  Where neither can happen (Raises and
\* Blind FALSE) the last two are empty.
FlatOrEscalated ==
  <>[](Live = {} \/ report \in {"escalated", "dead"} \/ blind)
==============================================================================
