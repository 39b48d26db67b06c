---------------------------- MODULE BacktestEngine ----------------------------
(***************************************************************************)
(* BacktestEngine.run (backtest/engine.py) with prices: bars with high and *)
(* low, manage_on_bar, the fill prices of backtest/fills.py and costs.py,  *)
(* and the size of core/sizing.py.  A bar of the loop is three steps, as   *)
(* in the code: manage the position, let the engine enter, mark.  The      *)
(* module implements RiskDays.  Prices are bids relative to the close of   *)
(* the bar that entered, times are bars, and money is price times volume.  *)
(***************************************************************************)
EXTENDS RiskRules

CONSTANTS
  Slip, MaxR, WeekLen, MaxDays,   \* what RiskDays promises about a trade
  Stops,                \* stop distances between stop_min and stop_max
  Targets,              \* distances of TP2, up to tp2_r_cap times the stop
  Tp1Move,              \* stop distance -> distance of TP1, tp1_r of it
  Tp1Lots,              \* volume -> what TP1 closes of it, tp1_close of it
  LotStep, MaxLot,      \* lot_step (= min_lot), the smaller of both max_lots
  Spreads,              \* of a bar
  SlipIn, SlipOut,      \* slippage_in_pips, slippage_out_pips
  Commission,           \* commission_per_lot_rt
  Gap,                  \* a bar opens at most Gap away from the close before it
  EntryEnd, ForcedExit, TimeStop, \* in bars
  LastBar               \* the feed ends one hour after the forced exit

\* Prices and volumes are in units that make Tp1Move and Tp1Lots whole.  Any tp1_r
\* and any tp1_close up to 1 will do, as in the schema; a setup has TP2 beyond TP1.
\* An entry costs less than the way to TP2.
ASSUME BacktestAssumption ==
  /\ Stops \subseteq Nat \ {0} /\ Spreads \subseteq Nat
  /\ Targets \subseteq Nat /\ Tp1Move \in [Stops -> Nat \ {0}]
  /\ \A stop \in Stops, tp2 \in Targets : Tp1Move[stop] < tp2 /\ tp2 <= MaxR * stop
  /\ \A sp \in Spreads, tp2 \in Targets : sp + SlipIn < tp2
  /\ LotStep \in Nat \ {0} /\ MaxLot \in Nat
  /\ Tp1Lots \in [0..MaxLot -> Nat] /\ \A n \in 0..MaxLot : Tp1Lots[n] <= n
  /\ SlipIn \in Nat /\ SlipOut \in Nat /\ Commission \in Nat
  /\ Gap \in Nat
  /\ EntryEnd \in Nat /\ ForcedExit \in Nat /\ EntryEnd < ForcedExit
  /\ TimeStop \in Nat /\ LastBar \in Nat
  /\ \E w \in Spreads : \A u \in Spreads : u <= w

Widest == CHOOSE s \in Spreads : \A u \in Spreads : u <= s

\* What RiskDays calls slippage pays, on the largest position, for both fills, the
\* spread one of them pays, and one gap over the stop.
ASSUME CostMargin ==
  /\ Slip \in Nat /\ MaxR \in Nat \ {0}
  /\ MaxLot * (Widest + SlipIn + SlipOut + Gap + Commission) <= Slip

\* The rest of what RiskDays assumes.
ASSUME DayMargins ==
  /\ WeekLen \in Nat \ {0} /\ MaxDays \in Nat
  /\ PerTrade + Slip - SoftStop <= DailyLoss
  /\ PerTrade + Slip < FloorBuffer
  /\ MaxR * PerTrade + PerTrade + Slip < TrailAmount

VARIABLES
  phase,     \* what the loop does next: "bar", "core", "mark", or "night"
  now,       \* close time of the last bar of the position's symbol
  close,     \* its close and ...
  spread,    \* ... its median spread
  pos,       \* OpenPosition
  net,       \* ot.net: P&L of the trade's fills so far
  mark,      \* floating P&L at the last mark
  balance, risk, comp,
  weekday, days,
  tp1_at,    \* when TP1 was taken (history)
  fired      \* did the hard stop flatten today? (history)

quote == <<now, close, spread>>
trade == <<pos, net, mark, tp1_at>>
account == <<balance, risk, comp>>
calendar == <<weekday, days>>
vars == <<phase, quote, trade, account, calendar, fired>>

Directions == {"long", "short"}
NoPosition == [dir |-> "none", entry |-> 0, since |-> 0, sl |-> 0, tp1 |-> 0,
               tp2 |-> 0, total |-> 0, lots |-> 0, tp1_done |-> FALSE, r |-> 0]
Flat == pos = NoPosition
Long == pos.dir = "long"

Lower(a, b) == IF a <= b THEN a ELSE b

(* ----------------------------- sizes and prices -------------------------- *)

\* size_lots: the volume whose loss at the stop the risk pays for, in whole lot
\* steps; less than the smallest one is no trade.
MutSizeLots(usd, stop) ==
  Lower(MaxLot, ((usd + stop * LotStep - 1) \div (stop * LotStep)) * LotStep)
SizeLots(usd, stop) == Lower(MaxLot, (usd \div (stop * LotStep)) * LotStep)

\* Buy the ask, sell the bid, and slip.
EntryFillPrice(dir, sp) == IF dir = "long" THEN sp + SlipIn ELSE 0 - SlipIn

\* Every exit slips, a short one buys the ask, and a stop that the open has
\* jumped over is filled at the open.
ExitFillPrice(kind, level, bar) ==
  LET gapped == IF Long THEN Lower(level, bar.o) ELSE Larger(level, bar.o)
      eff == IF kind = "sl" THEN gapped ELSE level
  IN IF Long THEN eff - SlipOut ELSE eff + bar.spread + SlipOut

Move(price) == IF Long THEN price - pos.entry ELSE pos.entry - price

\* P&L of one fill, net of its commission.
FillNet(kind, lots, level, bar) ==
  Move(ExitFillPrice(kind, level, bar)) * lots - lots * Commission

First == Tp1Lots[pos.total]   \* what TP1 closes
Rest == pos.total - First

(* --------------------------- bars and their events ----------------------- *)

\* The bars that may follow the last close.  The open prices a stop and nothing
\* else, the close counts only when the stop holds, and of high and low it matters
\* which levels of the position they reach.
Levels == {pos.sl, pos.tp1, pos.tp2}
Within == Lower(pos.sl, pos.tp2)..Larger(pos.sl, pos.tp2)

BarsFrom(o, c) ==
  LET top == Larger(o, c)
      bottom == Lower(o, c)
  IN [o : {o}, c : {c}, h : {top} \union {x \in Levels : x > top},
      l : {bottom} \union {x \in Levels : x < bottom}, spread : Spreads]

BarsAfter(prev) ==
  (UNION {BarsFrom(o, pos.sl) : o \in (prev - Gap)..(prev + Gap)})
    \union (UNION {BarsFrom(c, c) : c \in Within})

SlHit(bar) == IF Long THEN bar.l <= pos.sl ELSE bar.h >= pos.sl
Tp1Hit(bar) ==
  ~pos.tp1_done /\ (IF Long THEN bar.h >= pos.tp1 ELSE bar.l <= pos.tp1)
Tp2Hit(bar) == IF Long THEN bar.h >= pos.tp2 ELSE bar.l <= pos.tp2
Tp2Due(bar) == Tp2Hit(bar) /\ (pos.tp1_done \/ Tp1Hit(bar))

MutForcedDue(t) == t > ForcedExit
ForcedDue(t) == t >= ForcedExit
\* Less than half of R after the time stop's minutes.
TimeDue(t, bar) == t - pos.since >= TimeStop /\ 2 * Move(bar.c) < pos.r

(* ------------------------- 1. manage the position ------------------------ *)

\* _apply_fills of a closed trade, whose last fills make x.
CloseTrade(x, state) ==
  /\ balance' = balance + x
  /\ risk' = OnTradeClosed(state, net + x)
  /\ pos' = NoPosition /\ net' = 0 /\ mark' = 0 /\ tp1_at' = 0
  /\ close' = 0

OwnBar(t, bar) ==
  /\ phase = "bar" /\ ~Flat
  /\ now < t
  /\ now' = t /\ spread' = bar.spread
  /\ phase' = "core"
  /\ UNCHANGED <<comp, calendar, fired>>

StopLoss(t, bar) ==
  /\ OwnBar(t, bar) /\ SlHit(bar)
  /\ CloseTrade(FillNet("sl", pos.lots, pos.sl, bar), risk)

MutTakeTp1(t, bar) ==
  LET x == FillNet("tp1", First, pos.tp1, bar)
  IN /\ OwnBar(t, bar) /\ ~SlHit(bar)
     /\ Tp1Hit(bar) /\ ~Tp2Due(bar)
     /\ pos' = [pos EXCEPT !.tp1_done = TRUE, !.sl = pos.entry]
     /\ net' = net + x /\ balance' = balance + x
     /\ mark' = Move(bar.c) * pos.lots
     /\ tp1_at' = t /\ close' = bar.c
     /\ UNCHANGED risk
MutTakeTp1Only(t, bar) ==
  LET x == FillNet("tp1", First, pos.tp1, bar)
  IN /\ OwnBar(t, bar) /\ ~SlHit(bar)
     /\ Tp1Hit(bar) /\ ~Tp2Due(bar)
     /\ pos' = [pos EXCEPT !.lots = @ - First, !.tp1_done = TRUE]
     /\ net' = net + x /\ balance' = balance + x
     /\ mark' = Move(bar.c) * (pos.lots - First)
     /\ tp1_at' = t /\ close' = bar.c
     /\ UNCHANGED risk
\* TP1: a part at the level; the stop moves to the entry, for the next bar.
TakeTp1(t, bar) ==
  LET x == FillNet("tp1", First, pos.tp1, bar)
  IN /\ OwnBar(t, bar) /\ ~SlHit(bar)
     /\ Tp1Hit(bar) /\ ~Tp2Due(bar)
     /\ pos' = [pos EXCEPT !.lots = @ - First, !.tp1_done = TRUE, !.sl = pos.entry]
     /\ net' = net + x /\ balance' = balance + x
     /\ mark' = Move(bar.c) * (pos.lots - First)
     /\ tp1_at' = t /\ close' = bar.c
     /\ UNCHANGED risk

\* TP2, with TP1 before it when the same bar reaches both.
TakeTp2(t, bar) ==
  LET first == IF pos.tp1_done THEN 0 ELSE First
  IN /\ OwnBar(t, bar) /\ ~SlHit(bar)
     /\ Tp2Due(bar)
     /\ CloseTrade((IF first = 0 THEN 0 ELSE FillNet("tp1", first, pos.tp1, bar))
                     + FillNet("tp2", pos.lots - first, pos.tp2, bar), risk)

\* The forced exit and the time stop come after TP1, which puts them off.
ExitAtClose(t, bar) ==
  /\ OwnBar(t, bar) /\ ~SlHit(bar) /\ ~Tp1Hit(bar) /\ ~Tp2Due(bar)
  /\ ForcedDue(t) \/ TimeDue(t, bar)
  /\ CloseTrade(FillNet("forced", pos.lots, bar.c, bar), risk)

Keep(t, bar) ==
  /\ OwnBar(t, bar) /\ ~SlHit(bar) /\ ~Tp1Hit(bar) /\ ~Tp2Due(bar)
  /\ ~ForcedDue(t) /\ ~TimeDue(t, bar)
  /\ close' = bar.c
  /\ UNCHANGED <<trade, balance, risk>>

\* A bar of either symbol while there is no position.
FlatBar(t, sp) ==
  /\ phase = "bar" /\ Flat
  /\ now <= t
  /\ now' = t /\ close' = 0 /\ spread' = sp
  /\ phase' = "core"
  /\ UNCHANGED <<trade, account, calendar, fired>>

\* A bar of the unit's other symbol: its setups find the unit busy, and the loop
\* marks the account without the position.
OtherBar ==
  /\ phase = "bar" /\ ~Flat
  /\ comp' = OnEquity(comp, balance)
  /\ UNCHANGED <<phase, quote, trade, balance, risk, calendar, fired>>

(* ------------------------------- 2. _try_enter --------------------------- *)

MayEnter == EntryHalts(risk) = {} /\ ~EntryBlocked(comp, balance)

Entered(dir, stop, tp2) ==
  LET lots == SizeLots(PerTradeRisk(risk), stop)
      away(x) == IF dir = "long" THEN x ELSE 0 - x
  IN [dir |-> dir, entry |-> EntryFillPrice(dir, spread), since |-> now,
      sl |-> away(0 - stop), tp1 |-> away(Tp1Move[stop]), tp2 |-> away(tp2),
      total |-> lots, lots |-> lots, tp1_done |-> FALSE, r |-> stop]

\* A setup that the filters and the margin let pass.
Enter(dir, stop, tp2) ==
  /\ phase = "core" /\ Flat
  /\ now <= EntryEnd
  /\ MayEnter
  /\ SizeLots(PerTradeRisk(risk), stop) > 0
  /\ pos' = Entered(dir, stop, tp2)
  /\ net' = 0 /\ mark' = 0 /\ tp1_at' = 0
  /\ risk' = OnEntryOpened(risk)
  /\ close' = 0
  /\ phase' = "mark"
  /\ UNCHANGED <<now, spread, balance, comp, calendar, fired>>

\* No setup, or one that is refused.
NoEntry ==
  /\ phase = "core"
  /\ phase' = "mark"
  /\ UNCHANGED <<quote, trade, account, calendar, fired>>

(* --------------------------------- 3. mark ------------------------------- *)

Floating == IF Flat THEN 0 ELSE Move(close) * pos.lots
LastFill == [o |-> close, h |-> close, l |-> close, c |-> close, spread |-> spread]

Mark ==
  /\ phase = "mark"
  /\ Flat \/ ~ShouldFlattenDay(risk, Floating)
  /\ mark' = Floating
  /\ comp' = OnEquity(comp, balance + Floating)
  /\ phase' = "bar"
  /\ UNCHANGED <<quote, pos, net, tp1_at, balance, risk, calendar, fired>>

HardStopExit ==
  /\ phase = "mark" /\ ~Flat
  /\ ShouldFlattenDay(risk, Floating)
  /\ comp' = OnEquity(comp, balance + Floating)
  /\ CloseTrade(FillNet("forced", pos.lots, close, LastFill), LatchHardStop(risk))
  /\ fired' = TRUE
  /\ phase' = "bar"
  /\ UNCHANGED <<now, spread, calendar>>

(* ------------------------------ ends of a day ---------------------------- *)

\* The feed ran out of bars with a position open: closed at its last bar.
DayEnds ==
  /\ phase = "bar"
  /\ IF Flat THEN UNCHANGED <<close, balance, risk, trade>>
     ELSE CloseTrade(FillNet("forced", pos.lots, close, LastFill), risk)
  /\ phase' = "night"
  /\ UNCHANGED <<now, spread, comp, calendar, fired>>

NextDay(d, new_week) ==
  /\ phase = "night" /\ days < MaxDays
  /\ d <= weekday => new_week
  /\ risk' = RollToDay(risk, new_week)
  /\ comp' = OnDailyReset(InitialCompliance(balance), balance)
  /\ weekday' = d /\ days' = days + 1
  /\ fired' = FALSE
  /\ now' = 0 /\ close' = 0 /\ spread' = 0
  /\ phase' = "bar"
  /\ UNCHANGED <<balance, trade>>

(* ------------------------------ specification ---------------------------- *)

Init ==
  /\ phase = "bar" /\ now = 0 /\ close = 0 /\ spread = 0
  /\ pos = NoPosition /\ net = 0 /\ mark = 0 /\ tp1_at = 0
  /\ balance = 0 /\ risk = InitialRisk
  /\ comp = OnDailyReset(InitialCompliance(0), 0)
  /\ weekday = 0 /\ days = 1 /\ fired = FALSE

ManageBar(t, bar) ==
  \/ StopLoss(t, bar) \/ TakeTp1(t, bar) \/ TakeTp2(t, bar)
  \/ ExitAtClose(t, bar) \/ Keep(t, bar)

Next ==
  \/ ~Flat /\ \E t \in 1..LastBar, bar \in BarsAfter(close) : ManageBar(t, bar)
  \/ \E t \in 1..LastBar, sp \in Spreads : FlatBar(t, sp)
  \/ OtherBar
  \/ \E dir \in Directions, stop \in Stops, tp2 \in Targets : Enter(dir, stop, tp2)
  \/ NoEntry \/ Mark \/ HardStopExit
  \/ DayEnds
  \/ \E d \in 0..(WeekLen - 1), new_week \in BOOLEAN : NextDay(d, new_week)

Spec == Init /\ [][Next]_vars

(* ------------------------------- properties ------------------------------ *)

\* Shape of the state.
TypeOK ==
  /\ phase \in {"bar", "core", "mark", "night"}
  /\ now \in 0..LastBar /\ close \in Int /\ spread \in Spreads \union {0}
  /\ pos.dir \in Directions \union {"none"}
  /\ pos.lots \in 0..pos.total /\ pos.total <= MaxLot
  /\ pos.tp1_done => pos.lots = Rest
  /\ balance \in Int /\ net \in Int /\ mark \in Int /\ tp1_at \in 0..LastBar

\* The loop with its prices, sizes and costs keeps what RiskDays promises: a
\* trade loses at most its stake and Slip, the account is marked and the day
\* rolled as there, and no position is carried into the next day.  All that is
\* proved about RiskDays therefore holds of the backtest.
Days == INSTANCE RiskDays WITH
          open <- ~Flat, leg <- net, floating <- mark,
          stake <- IF Flat THEN 0 ELSE PerTradeRisk(risk)
DaysSpec == Days!Spec

\* "Unconditional flat at 19:30" (SPEC.md:146) holds but for one bar: a position
\* that is open after a bar at or past the forced exit has just taken TP1.
LateOnlyByTp1 == ~Flat /\ phase = "bar" /\ now >= ForcedExit => tp1_at = now

\* From the bar after TP1 on (strategy_ssr.py:379) the stop at the entry holds:
\* once the rest has survived a bar, no exit of any kind takes more from what TP1
\* banked than the costs of the rest and one gap over the stop.
RestIsProtected ==
  [][pos.tp1_done /\ now > tp1_at /\ pos' = NoPosition
       => risk'.day_realized - risk.day_realized
            >= net - Rest * (Gap + Widest + SlipOut + Commission)]_vars
==============================================================================
