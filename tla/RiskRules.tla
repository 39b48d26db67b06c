------------------------------ MODULE RiskRules ------------------------------
(***************************************************************************)
(* The rules of core/risk.py and core/compliance.py: transition functions  *)
(* on two immutable records, RiskState and ComplianceState.  Money is in   *)
(* whole units.  The modules that run a day (RiskDays, PaperSession)     *)
(* build their actions from these operators, as the shells build theirs    *)
(* from the functions.                                                     *)
(***************************************************************************)
EXTENDS Integers

CONSTANTS
  PerTrade, Cooldown,   \* per_trade_usd, cooldown_usd
  SoftStop, HardStop,   \* day_soft_stop, day_hard_stop (negative)
  WeekStop,             \* week_stop (negative)
  ConsecHalt,           \* consec_loss_halt
  MaxEntries,           \* max_entries_day
  DayCap,               \* consistency_day_cap
  FloorBuffer,          \* floor_buffer
  TrailAmount,          \* firm: trailing_dd.amount
  TrailMode,            \* firm: trailing_dd.mode
  DailyLoss             \* firm: daily_loss.amount

Modes == {"intraday_equity", "eod_balance", "static"}

\* What RiskConfig and validate_startup demand of a configuration.
ConfigValid ==
  /\ PerTrade \in Nat \ {0} /\ Cooldown \in Nat \ {0} /\ Cooldown <= PerTrade
  /\ SoftStop \in Int /\ HardStop \in Int /\ WeekStop \in Int
  /\ WeekStop < HardStop /\ HardStop < SoftStop /\ SoftStop < 0
  /\ ConsecHalt \in Nat \ {0} /\ MaxEntries \in Nat \ {0}
  /\ DayCap \in Nat \ {0} /\ FloorBuffer \in Nat \ {0}
  /\ TrailAmount \in Nat /\ DailyLoss \in Nat /\ TrailMode \in Modes
  /\ 0 - HardStop < DailyLoss /\ FloorBuffer < TrailAmount
  /\ 0 - WeekStop < TrailAmount

ASSUME RulesAssumption == ConfigValid

Larger(a, b) == IF a >= b THEN a ELSE b

(* ------------------------------- RiskState ------------------------------- *)

InitialRisk ==
  [day_realized |-> 0, week_realized |-> 0, trades_opened |-> 0,
   consec_losses |-> 0, losses_today |-> 0,
   cooldown_active |-> FALSE, hard_latched |-> FALSE]

OnEntryOpened(s) == [s EXCEPT !.trades_opened = @ + 1]

Streak(n, pnl) == IF pnl < 0 THEN n + 1 ELSE IF pnl > 0 THEN 0 ELSE n

\* A scratch trade neither adds to the streak of losses nor ends it.
OnTradeClosed(s, pnl) ==
  [day_realized    |-> s.day_realized + pnl,
   week_realized   |-> s.week_realized + pnl,
   trades_opened   |-> s.trades_opened,
   consec_losses   |-> Streak(s.consec_losses, pnl),
   losses_today    |-> IF pnl < 0 THEN s.losses_today + 1 ELSE s.losses_today,
   cooldown_active |-> s.cooldown_active,
   hard_latched    |-> s.hard_latched]

\* Reduced size from the day after two losses until the day after a green day.
MutCoolsDown(s) == s.losses_today >= 2
CoolsDown(s) ==
  s.losses_today >= 2 \/ (s.cooldown_active /\ s.day_realized <= 0)

\* The next trading day; new_week says whether its Monday is another one.
RollToDay(s, new_week) ==
  [day_realized    |-> 0,
   week_realized   |-> IF new_week THEN 0 ELSE s.week_realized,
   trades_opened   |-> 0,
   consec_losses   |-> 0,
   losses_today    |-> 0,
   cooldown_active |-> CoolsDown(s),
   hard_latched    |-> FALSE]

MutLatchHardStop(s) == s
LatchHardStop(s) == [s EXCEPT !.hard_latched = TRUE]

PerTradeRisk(s) == IF s.cooldown_active THEN Cooldown ELSE PerTrade

ShouldFlattenDay(s, floating) == s.day_realized + floating <= HardStop

MutSoftStopped(s) == FALSE
SoftStopped(s) == s.day_realized <= SoftStop
MutWeekStopped(s) == s.day_realized <= WeekStop
WeekStopped(s) == s.week_realized <= WeekStop
MutEntriesUsedUp(s) == s.trades_opened > MaxEntries
EntriesUsedUp(s) == s.trades_opened >= MaxEntries

\* entry_halts, called as both shells call it: with no floating P&L.
Halts(s) ==
  LET hard == s.hard_latched \/ s.day_realized <= HardStop
  IN [DAILY_HARD_STOP  |-> hard,
      DAILY_SOFT_STOP  |-> ~hard /\ SoftStopped(s),
      WEEKLY_STOP      |-> WeekStopped(s),
      CONSEC_LOSS_HALT |-> s.consec_losses >= ConsecHalt,
      MAX_ENTRIES      |-> EntriesUsedUp(s),
      CONSISTENCY_CAP  |-> s.day_realized >= DayCap]

EntryHalts(s) == {code \in DOMAIN Halts(s) : Halts(s)[code]}

(* ---------------------------- ComplianceState ---------------------------- *)

InitialCompliance(equity) ==
  [hwm |-> equity, floor |-> equity - TrailAmount, day_anchor |-> equity]

\* The high-water mark and the floor under it only ever go up.
Ratchet(c, level) ==
  LET hwm == Larger(c.hwm, level)
  IN [hwm |-> hwm, floor |-> Larger(c.floor, hwm - TrailAmount),
      day_anchor |-> c.day_anchor]

OnEquity(c, equity) ==
  IF TrailMode = "intraday_equity" THEN Ratchet(c, equity) ELSE c

OnDayClose(c, balance) ==
  IF TrailMode = "eod_balance" THEN Ratchet(c, balance) ELSE c

OnDailyReset(c, equity) == [c EXCEPT !.day_anchor = equity]

MutEntryBlocked(c, equity) == c.day_anchor - equity >= FloorBuffer
EntryBlocked(c, equity) == equity - c.floor < FloorBuffer

FirmDailyLossUsed(c, equity) == Larger(0, c.day_anchor - equity)
FirmDailyBreached(c, equity) == FirmDailyLossUsed(c, equity) >= DailyLoss
==============================================================================
