------------------------------- MODULE RiskDays -------------------------------
(***************************************************************************)
(* The risk and compliance rules over many trading days: the part of       *)
(* BacktestEngine.run (backtest/engine.py) that opens, marks, flattens and *)
(* closes the one position of the risk unit and rolls the day.  Prices are *)
(* abstracted to the floating P&L of the position.                         *)
(***************************************************************************)
EXTENDS RiskRules

CONSTANTS
  Slip,       \* what a trade may lose beyond its stake: spread, slippage, gap
  MaxR,       \* a trade gains at most MaxR times its stake (the TP2 cap)
  WeekLen,    \* trading days in a week
  MaxDays     \* bound on the days that are run

ASSUME DaysAssumption ==
  /\ Slip \in Nat /\ MaxR \in Nat \ {0}
  /\ WeekLen \in Nat \ {0} /\ MaxDays \in Nat

\* The margin for slippage that SPEC.md:180 gives the firm's daily limit ...
ASSUME DailyMargin == PerTrade + Slip - SoftStop <= DailyLoss
\* ... and the one the floor buffer gives the trailing floor: the buffer covers
\* a losing trade, the trailing amount one that first wins all it can.
ASSUME TrailMargin ==
  /\ PerTrade + Slip < FloorBuffer
  /\ MaxR * PerTrade + PerTrade + Slip < TrailAmount

VARIABLES
  risk,      \* RiskState
  comp,      \* ComplianceState
  balance,   \* the account
  open,      \* is there a position?
  stake,     \* risk_usd of the position
  leg,       \* P&L the TP1 partial has already banked (ot.net)
  floating,  \* mark-to-market of what is left of it
  weekday,
  days,      \* days run so far
  fired      \* did the hard stop flatten today? (history)

position == <<open, stake, leg, floating>>
calendar == <<weekday, days>>
vars == <<risk, comp, balance, position, calendar, fired>>

equity == balance + floating

WorstLoss == 0 - (stake + Slip)
BestGain == MaxR * stake
Outcomes == WorstLoss..BestGain
Marks == {f \in Outcomes : leg + f \in Outcomes}

\* _try_enter: halts and the floor buffer, on the balance; the size comes from
\* the risk state.
MayEnter == EntryHalts(risk) = {} /\ ~EntryBlocked(comp, balance)

Enter ==
  /\ ~open
  /\ MayEnter
  /\ risk' = OnEntryOpened(risk)
  /\ open' = TRUE /\ stake' = PerTradeRisk(risk)
  /\ leg' = 0 /\ floating' = 0
  /\ UNCHANGED <<comp, balance, calendar, fired>>

\* A bar the position survives: the mark moves, the floor follows, and the day
\* is not over its hard stop.
Bar(f) ==
  /\ open
  /\ ~ShouldFlattenDay(risk, f)
  /\ floating' = f
  /\ comp' = OnEquity(comp, balance + f)
  /\ UNCHANGED <<risk, balance, open, stake, leg, calendar, fired>>

\* A bar that finds no position, or one in the other symbol of the unit: the
\* account is marked at its balance, an open position left out.
MarkBalance ==
  /\ comp' = OnEquity(comp, balance)
  /\ UNCHANGED <<risk, balance, position, calendar, fired>>

\* TP1, reached within a bar: x is banked, a profit unless the costs are larger,
\* and the rest is marked.  The risk state hears of it only when the trade is over.
Partial(x) ==
  /\ open /\ leg = 0
  /\ leg' = x /\ floating' \in {f \in Outcomes : x + f \in Outcomes}
  /\ balance' = balance + x
  /\ UNCHANGED <<risk, comp, open, stake, calendar, fired>>

MutClosed(state, net) ==
  /\ risk' = OnTradeClosed(state, net)
  /\ balance' = balance + net
  /\ open' = FALSE /\ stake' = 0 /\ leg' = 0 /\ floating' = 0
  /\ UNCHANGED calendar
Closed(state, net) ==
  /\ risk' = OnTradeClosed(state, leg + net)
  /\ balance' = balance + net
  /\ open' = FALSE /\ stake' = 0 /\ leg' = 0 /\ floating' = 0
  /\ UNCHANGED calendar

\* SL, TP2, time stop, forced exit or the end of the feed, then the mark of the
\* flat account, unless the same bar opens the next trade: that one is marked.
Exit(net, marked) ==
  /\ open
  /\ Closed(risk, net)
  /\ comp' = IF marked THEN OnEquity(comp, balance + net) ELSE comp
  /\ UNCHANGED fired

\* A bar that takes the day over its hard stop: flattened and latched.
HardStopExit(f) ==
  /\ open
  /\ ShouldFlattenDay(risk, f)
  /\ comp' = OnEquity(comp, balance + f)
  /\ \E net \in Marks : net <= f /\ Closed(LatchHardStop(risk), net)
  /\ fired' = TRUE

\* The next day of the list, whose days may leave out whole weeks.  The floor is
\* anchored again at the balance of the morning.
NextDay(d, new_week) ==
  /\ ~open /\ days < MaxDays
  /\ d <= weekday => new_week
  /\ risk' = RollToDay(risk, new_week)
  /\ comp' = OnDailyReset(InitialCompliance(balance), balance)
  /\ weekday' = d /\ days' = days + 1
  /\ fired' = FALSE
  /\ UNCHANGED <<balance, position>>

Init ==
  /\ risk = InitialRisk
  /\ balance = 0
  /\ comp = OnDailyReset(InitialCompliance(balance), balance)
  /\ open = FALSE /\ stake = 0 /\ leg = 0 /\ floating = 0
  /\ weekday = 0 /\ days = 1
  /\ fired = FALSE

Next ==
  \/ Enter
  \/ \E f \in Marks : Bar(f)
  \/ MarkBalance
  \/ \E x \in Outcomes : Partial(x)
  \/ \E net \in Marks, marked \in BOOLEAN : Exit(net, marked)
  \/ \E f \in Marks : HardStopExit(f)
  \/ \E d \in 0..(WeekLen - 1), new_week \in BOOLEAN : NextDay(d, new_week)

Spec == Init /\ [][Next]_vars

(* ------------------------------- properties ------------------------------ *)

RiskState ==
  [day_realized : Int, week_realized : Int, trades_opened : 0..MaxEntries,
   consec_losses : 0..ConsecHalt, losses_today : 0..MaxEntries,
   cooldown_active : BOOLEAN, hard_latched : BOOLEAN]

\* Shape of the state; among others, never more than max_entries_day entries
\* and never more than consec_loss_halt losses in a row in a day.
TypeOK ==
  /\ risk \in RiskState
  /\ comp \in [hwm : Int, floor : Int, day_anchor : Int]
  /\ balance \in Int /\ leg \in Int /\ floating \in Int
  /\ open \in BOOLEAN /\ fired \in BOOLEAN
  /\ stake \in {0, Cooldown, PerTrade}
  /\ weekday \in 0..(WeekLen - 1) /\ days \in Nat

\* The account never loses more in a day than the firm allows, open position
\* included, although the risk rules never look at the firm's anchor: the soft
\* stop and the size of the last trade keep it inside (risk.py:3-9).
FirmLimitHolds == ~FirmDailyBreached(comp, equity)

\* Equity never touches the trailing floor within a day, even when the trade
\* first won and the floor followed the high-water mark: what the floor buffer
\* is for (compliance.py:9-10).
AboveFloor == equity > comp.floor

\* A week never loses more than the weekly stop and the trade that broke it.
WeekLossBounded == risk.week_realized > WeekStop - (PerTrade + Slip)

\* The books agree: what the rules count as the day's result is what the
\* account made since its morning anchor, once the position is closed.
RealizedMatchesBalance == ~open => risk.day_realized = balance - comp.day_anchor

\* Once the hard stop has flattened the day nothing is opened again, also when
\* the banked TP1 leg lifts the day above the stop (DECISIONS.md:205).
HardStopEndsDay == fired => ~open

\* No martingale: the size of the next trade goes up only over a night that
\* follows a green day (risk.py:7-9).
NoMartingale ==
  [][PerTradeRisk(risk)' > PerTradeRisk(risk)
       => days' # days /\ risk.day_realized > 0]_vars
==============================================================================
