---------------------------- MODULE PaperSession ----------------------------
(***************************************************************************)
(* One trading day of PaperSession (services/runner.py): a session per     *)
(* symbol, each with its own risk and compliance state, all on the account *)
(* of one broker that carries stop and target of every position.  A method *)
(* call is one step: a session has one thread, and nothing in the          *)
(* repository lets another touch its broker meanwhile.  An order call is   *)
(* its result; OrderManager models what happens inside.                    *)
(***************************************************************************)
EXTENDS RiskRules, FiniteSets, FiniteSetsExt

CONSTANTS
  Symbols,      \* one session each
  Prices,       \* bids that the feed may show
  FirstBid,     \* the first of them
  Spread,       \* ask - bid
  Drift,        \* bid may move by Drift from the close of a bar to the order
  Stop,         \* distance of the stop from the close of the reclaim bar
  Tp1, Target,  \* distances of TP1 and of TP2, the native target
  Lots,         \* volume of a position
  Tp1Lots,      \* volume of it that TP1 closes: tp1_close of the original
  EntryEnd,     \* last time a bar of the entry window closes
  ForcedExit,   \* forced_exit_utc
  TimeStop,     \* time_stop_min
  MaxTime,      \* bound on the clock
  Emulated,     \* does the broker have check_brackets (PaperBroker)?
  Unreliable    \* may a close or modify fail, raise, do a part or do it untold?

ASSUME SessionAssumption ==
  /\ Prices \subseteq Int /\ FirstBid \in Prices
  /\ Spread \in Nat /\ Drift \in Nat /\ Stop \in Nat \ {0}
  /\ Tp1 \in Nat \ {0} /\ Target \in Nat /\ Tp1 < Target
  /\ Lots \in Nat \ {0} /\ Tp1Lots \in 1..Lots
  /\ EntryEnd \in Nat /\ ForcedExit \in Nat /\ EntryEnd < ForcedExit
  /\ TimeStop \in Nat /\ MaxTime \in Nat
  /\ Emulated \in BOOLEAN /\ Unreliable \in BOOLEAN

Sides == {"long", "short"}
Tickets == Symbols \X Sides   \* a setup is ordered once: its key is its ticket

VARIABLES
  now,
  bid,        \* latest quote per symbol
  balance,    \* of the account, whose day starts at 0
  book,       \* broker: ticket -> position
  open,       \* session: its _LiveTrade
  at_entry,   \* session: _balance_at_entry
  risk, comp, \* session: RiskState, ComplianceState
  seen        \* setups the engine has emitted; it emits each once a day

account == <<balance, book>>
session == <<open, at_entry, risk, comp>>
vars == <<now, bid, account, session, seen>>

NoPosition == [lots |-> 0, entry |-> 0, sl |-> 0, tp |-> 0]
NoTrade == [side |-> "none", entry |-> 0, since |-> 0, tp1 |-> 0,
            lots_open |-> 0, tp1_done |-> FALSE]

(* --------------------------------- broker -------------------------------- *)

Long(t) == t[2] = "long"
Bid(t) == bid[t[1]]
Ask(t) == bid[t[1]] + Spread
EntryPrice(t) == IF Long(t) THEN Ask(t) ELSE Bid(t)
ExitPrice(t) == IF Long(t) THEN Bid(t) ELSE Ask(t)

Profit(t, price, n) ==
  n * (IF Long(t) THEN price - book[t].entry ELSE book[t].entry - price)

Live == {t \in Tickets : book[t].lots > 0}
SlHit(t) == IF Long(t) THEN Bid(t) <= book[t].sl ELSE Ask(t) >= book[t].sl
TpHit(t) == IF Long(t) THEN Bid(t) >= book[t].tp ELSE Ask(t) <= book[t].tp
Level(t) == IF SlHit(t) THEN book[t].sl ELSE book[t].tp
Crossed == {t \in Live : SlHit(t) \/ TpHit(t)}

Without(b, T) == [t \in Tickets |-> IF t \in T THEN NoPosition ELSE b[t]]
Floating(b) ==
  MapThenSumSet(LAMBDA t : Profit(t, ExitPrice(t), b[t].lots),
                {t \in Tickets : b[t].lots > 0})

\* check_brackets closes what the latest quotes have crossed, at the level, for
\* every position of the broker; another kind of broker closes by itself (Night).
Brackets == IF Emulated THEN Crossed ELSE {}
SweptBook == Without(book, Brackets)
SweptBalance ==
  balance + MapThenSumSet(LAMBDA t : Profit(t, Level(t), book[t].lots), Brackets)
SweptFloating == Floating(SweptBook)

Quote(s, p) ==
  /\ p # bid[s]
  /\ bid' = [bid EXCEPT ![s] = p]
  /\ UNCHANGED <<now, account, session, seen>>

Tick ==
  /\ now < MaxTime
  /\ now' = now + 1
  /\ UNCHANGED <<bid, account, session, seen>>

(* ------------------------------- _try_enter ------------------------------ *)

MutEmits(t) == now <= EntryEnd /\ seen' = seen \union {t}
Emits(t) == now <= EntryEnd /\ t \notin seen /\ seen' = seen \union {t}

\* A setup that a filter, a halt, the floor buffer, the size or an open trade
\* keeps out; the filters this module leaves out may stop any setup.
SetupFiltered(t) ==
  /\ Emits(t)
  /\ UNCHANGED <<now, bid, account, session>>

\* entry_halts and entry_blocked, and the session's own position.  The filter
\* of the risk unit is switched off: position_open_in_risk_unit=False.
MutMayEnter(s) ==
  open[s] = NoTrade /\ ~EntryBlocked(comp[s], balance + Floating(book))
MutMayEnterAgain(s) ==
  EntryHalts(risk[s]) = {} /\ ~EntryBlocked(comp[s], balance + Floating(book))
MayEnter(s) ==
  /\ open[s] = NoTrade
  /\ EntryHalts(risk[s]) = {}
  /\ ~EntryBlocked(comp[s], balance + Floating(book))

Away(t, distance) == IF Long(t) THEN distance ELSE 0 - distance

\* ref is the close of the reclaim bar, from which SL, TP1 and TP2 are measured;
\* the fill is the quote of the moment.
Bracketed(t, ref, n) ==
  [book EXCEPT ![t] = [lots |-> n, entry |-> EntryPrice(t),
                       sl |-> ref - Away(t, Stop), tp |-> ref + Away(t, Target)]]

\* submit_entry did not say "filled": no order, or one whose answers were lost or
\* taken for a refusal, as that of an order filled in part.
EntryFailed(t, ref) ==
  /\ Emits(t) /\ MayEnter(t[1])
  /\ at_entry' = [at_entry EXCEPT ![t[1]] = balance]
  /\ book' = book \/ (Unreliable /\ \E n \in 1..Lots : book' = Bracketed(t, ref, n))
  /\ UNCHANGED <<now, bid, balance, open, risk, comp>>

EntryFilled(t, ref) ==
  LET s == t[1]
  IN /\ Emits(t) /\ MayEnter(s)
     /\ book' = Bracketed(t, ref, Lots)
     /\ open' = [open EXCEPT ![s] =
                   [side |-> t[2], entry |-> EntryPrice(t), since |-> now,
                    tp1 |-> ref + Away(t, Tp1), lots_open |-> Lots,
                    tp1_done |-> FALSE]]
     /\ at_entry' = [at_entry EXCEPT ![s] = balance]
     /\ risk' = [risk EXCEPT ![s] = OnEntryOpened(@)]
     /\ UNCHANGED <<now, bid, balance, comp>>

(* ------------------------------- poll_quotes ----------------------------- *)

Ticket(s) == <<s, open[s].side>>

\* on_trade_closed with what the account made since the entry.
MutFinalize(s, state, bal) ==
  /\ risk' = [risk EXCEPT ![s] = OnTradeClosed(state, bal - balance)]
  /\ open' = [open EXCEPT ![s] = NoTrade]
  /\ UNCHANGED at_entry
Finalize(s, state, bal) ==
  /\ risk' = [risk EXCEPT ![s] = OnTradeClosed(state, bal - at_entry[s])]
  /\ open' = [open EXCEPT ![s] = NoTrade]
  /\ UNCHANGED at_entry

PollFlat(s) ==
  /\ open[s] = NoTrade
  /\ book' = SweptBook /\ balance' = SweptBalance
  /\ UNCHANGED <<now, bid, session, seen>>

PollBracket(s) ==
  /\ open[s] # NoTrade /\ Ticket(s) \in Brackets
  /\ book' = SweptBook /\ balance' = SweptBalance
  /\ Finalize(s, risk[s], SweptBalance)
  /\ UNCHANGED <<now, bid, comp, seen>>

\* The session goes on to mark the account.
Marks(s) ==
  /\ open[s] # NoTrade /\ Ticket(s) \notin Brackets
  /\ comp' = [comp EXCEPT ![s] = OnEquity(@, SweptBalance + SweptFloating)]
  /\ UNCHANGED <<now, bid, seen>>

HardStopped(s) == ShouldFlattenDay(risk[s], SweptFloating)

\* What the account has after n lots of what the brackets left were closed.
BalanceLess(t, n) == SweptBalance + Profit(t, ExitPrice(t), n)
PositionLess(p, n) == IF n = p.lots THEN NoPosition ELSE [p EXCEPT !.lots = @ - n]
SweptBookWith(t, p) == [u \in Tickets |-> IF u = t THEN p ELSE SweptBook[u]]

\* _close_all: "closed", or the call failed or raised and the trade stays open in
\* the session.  Then any part of it may be gone at the broker: the answer was
\* lost, or that of a partial fill was taken for a refusal.
CloseAll(s, state, outcome) ==
  LET t == Ticket(s)
      have == SweptBook[t].lots
  IN \E sold \in 0..have :
     /\ IF outcome = "closed" THEN have > 0 /\ sold = have ELSE have = 0 \/ Unreliable
     /\ balance' = BalanceLess(t, sold)
     /\ book' = SweptBookWith(t, PositionLess(SweptBook[t], sold))
     /\ IF outcome = "closed" THEN Finalize(s, state, BalanceLess(t, sold))
        ELSE risk' = [risk EXCEPT ![s] = state] /\ UNCHANGED <<open, at_entry>>

PollHardStop(s, outcome) ==
  /\ Marks(s) /\ HardStopped(s)
  /\ CloseAll(s, LatchHardStop(risk[s]), outcome)

(* manage_on_quote: TP1, then the forced exit, then the time stop *)

Tp1Due(s) ==
  /\ ~open[s].tp1_done
  /\ IF open[s].side = "long" THEN bid[s] >= open[s].tp1 ELSE bid[s] <= open[s].tp1

Unrealized(s) ==
  IF open[s].side = "long" THEN bid[s] - open[s].entry ELSE open[s].entry - bid[s]

\* Less than half of R, the distance of the stop.
TimeStopDue(s) == now - open[s].since >= TimeStop /\ 2 * Unrealized(s) < Stop

MutExitDue(s) == TimeStopDue(s)
ExitDue(s) == now >= ForcedExit \/ TimeStopDue(s)

\* modify_sl puts the stop of what is left to the entry.
MutBreakeven(p, entry) == p
Breakeven(p, entry) == IF p.lots = 0 THEN p ELSE [p EXCEPT !.sl = entry]

\* TP1 is a partial close, then a new stop for what is left: what both did at the
\* broker, where n lots were closed.
SellTp1(s, n, modified) ==
  LET t == Ticket(s)
      left == PositionLess(SweptBook[t], n)
  IN /\ Tp1Due(s)
     /\ Marks(s) /\ ~HardStopped(s)
     /\ n <= SweptBook[t].lots
     /\ balance' = BalanceLess(t, n)
     /\ book' = SweptBookWith(t, IF modified THEN Breakeven(left, open[s].entry)
                                 ELSE left)
     /\ UNCHANGED <<at_entry, risk>>

\* The stop is moved whatever came of the close, and TP1 counts as done whatever
\* came of both.
PollTp1(s, n, modified) ==
  LET have == SweptBook[Ticket(s)].lots
  IN /\ SellTp1(s, n, modified)
     /\ Unreliable \/ (modified /\ n = IF Tp1Lots < have THEN Tp1Lots ELSE have)
     /\ open' = [open EXCEPT ![s].tp1_done = TRUE, ![s].lots_open = @ - Tp1Lots]

\* One of the two calls raises (adapter.py:208, 236: order_send answered None): the
\* session does not remember TP1, whatever the broker did.
PollTp1Raises(s, n, modified) ==
  /\ Unreliable
  /\ SellTp1(s, n, modified)
  /\ UNCHANGED open

PollExit(s, outcome) ==
  /\ ~Tp1Due(s) /\ ExitDue(s)
  /\ Marks(s) /\ ~HardStopped(s)
  /\ CloseAll(s, risk[s], outcome)

PollKeep(s) ==
  /\ ~Tp1Due(s) /\ ~ExitDue(s)
  /\ Marks(s) /\ ~HardStopped(s)
  /\ book' = SweptBook /\ balance' = SweptBalance
  /\ UNCHANGED <<open, at_entry, risk>>

(* ------------------------------ specification ---------------------------- *)

Init ==
  /\ now = 0 /\ balance = 0 /\ seen = {}
  /\ bid = [s \in Symbols |-> FirstBid]
  /\ book = [t \in Tickets |-> NoPosition]
  /\ open = [s \in Symbols |-> NoTrade]
  /\ at_entry = [s \in Symbols |-> 0]
  /\ risk = [s \in Symbols |-> InitialRisk]
  /\ comp = [s \in Symbols |-> OnDailyReset(InitialCompliance(0), 0)]

Outcomes == {"closed", "failed"}

Poll(s) ==
  \/ PollFlat(s) \/ PollBracket(s)
  \/ \E o \in Outcomes : PollHardStop(s, o)
  \/ /\ Tp1Due(s)
     /\ \E n \in 0..Lots, modified \in BOOLEAN :
          PollTp1(s, n, modified) \/ PollTp1Raises(s, n, modified)
  \/ \E o \in Outcomes : PollExit(s, o)
  \/ PollKeep(s)

Enter(t) ==
  \/ SetupFiltered(t)
  \/ \E ref \in (Bid(t) - Drift)..(Bid(t) + Drift) :
       EntryFilled(t, ref) \/ EntryFailed(t, ref)

Market ==
  \/ \E s \in Symbols, p \in Prices : Quote(s, p)
  \/ Tick

Next == (\E s \in Symbols : Poll(s)) \/ (\E t \in Tickets : Enter(t)) \/ Market

Spec == Init /\ [][Next]_vars

(* ------------------------------- properties ------------------------------ *)

\* Shape of the state.
TypeOK ==
  /\ now \in 0..MaxTime /\ bid \in [Symbols -> Prices] /\ balance \in Int
  /\ book \in [Tickets -> [lots : 0..Lots, entry : Int, sl : Int, tp : Int]]
  /\ open \in [Symbols -> [side : Sides \union {"none"}, entry : Int,
                           since : 0..EntryEnd \union {0}, tp1 : Int,
                           lots_open : {0, Lots - Tp1Lots, Lots},
                           tp1_done : BOOLEAN]]
  /\ at_entry \in [Symbols -> Int]
  /\ seen \subseteq Tickets
  /\ \A s \in Symbols :
       /\ risk[s].trades_opened \in 0..2
       /\ risk[s].losses_today <= risk[s].trades_opened
       /\ comp[s].day_anchor = 0 /\ comp[s].floor >= 0 - TrailAmount

\* For one session on a paper broker: what the risk rules count is what the
\* account made, over TP1 legs, brackets the broker fired and closes of the
\* session (runner.py:202, "the broker balance, the source of truth").
BooksAgree ==
  \A s \in Symbols : open[s] = NoTrade => risk[s].day_realized = balance

\* For one session on a paper broker: session and broker never disagree about
\* the position, its volume after TP1, its entry and its breakeven stop.
SessionMirrorsBroker ==
  /\ Live = {Ticket(s) : s \in {u \in Symbols : open[u] # NoTrade}}
  /\ \A s \in Symbols : open[s] # NoTrade =>
       LET p == book[Ticket(s)]
       IN /\ p.lots = open[s].lots_open /\ p.entry = open[s].entry
          /\ open[s].tp1_done => p.sl = open[s].entry

\* A trade that took its TP1 never ends as a loss: a banked part, stop at the
\* entry, brackets before every other exit.
Tp1Protects ==
  [][\A s \in Symbols :
       open[s].tp1_done /\ open'[s] = NoTrade
         => risk'[s].day_realized >= risk[s].day_realized]_vars

\* Between trades the account is above the firm's daily limit, whatever gaps
\* the feed shows: the soft stop keeps room for the last trade.  The limit of
\* the run is SoftStop and one losing trade away.
DayLossBounded ==
  \A s \in Symbols : open[s] = NoTrade => ~FirmDailyBreached(comp[s], balance)
==============================================================================
