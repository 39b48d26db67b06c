# Tradepilot2 in TLA+

Tradepilot2 is an automated trading system for one strategy (session sweep and
reclaim, "SSR") on EUR/USD and GBP/USD, run on accounts of firms that end the
account when a loss limit is touched.  This directory holds TLA+ models of its
decision, risk, order and control code, model-checking runs for them, and
proofs.  `PROJECT.json` maps every definition to the lines it models.

    tlc -workers 2 -config Orders.cfg MCOrderManager.tla     # a run
    tlapm OrderManagerProofs.tla                             # a proof module

## 1. The system

A session feeds closed M5 bars to the strategy engine.  A setup that passes the
no-trade filters, the risk halts and the floor buffer is sized and sent through
the order manager to a broker (paper or MT5).  Between bars the session polls
quotes and manages the trade.  Beside it an HTTP control plane changes
configuration, pauses, kills and flattens; a gate decides whether live orders
may go out at all.  At the end of the day a flattener, a process of its own,
closes what is left.  The backtest engine runs the same rules over a history that
an offline downloader builds.

| Component | State | Operations | Hard behaviour | What makes it correct | Model |
|---|---|---|---|---|---|
| Order path: `services/order_manager.py` | limiter (memory), tables `order_intent`, `fill` | `submit_entry`, `close_position`, `modify_sl`, `reconcile` | crash between request and row, lost answers, codes the adapter does not name, retries, midnight | one order per key; tables account for the broker; limits hold; calls return | `OrderManager`, `OrderLedger`; `reconcile` with a session: `Night` |
| Risk rules: `core/risk.py` | `RiskState` | entry opened, trade closed, day rolled, latch, halts | long sequences that pass every check and still lose too much | firm limit, weekly stop, no martingale, final hard stop | `RiskRules`, `RiskDays` |
| Compliance: `core/compliance.py` | high-water mark, floor, day anchor | equity mark, day close, reset | the floor follows a trade that wins first | equity stays above the floor | `RiskRules`, `RiskDays` |
| Backtest main loop: `backtest/engine.py`, `fills.py`, `costs.py` | account, open trade, both states above | bar, entry, TP1, exits, roll | order of exits, marks and entries within a bar; gaps, costs and flooring against the stake | the books agree; it is the loop that the rules were checked for | `RiskDays` (prices abstracted), `BacktestEngine` (with prices) |
| Sizing: `core/sizing.py` | - | `size_lots`, `margin_ok` | flooring and caps | a stake never exceeds the risk | `BacktestEngine` (`margin_ok` is part of the veto) |
| Session: `services/runner.py` | the live trade, balance at entry, both states | `process_bar`, `poll_quotes` | brackets between polls, failed closes, two sessions on one account | session and broker agree; flat at night | `PaperSession`; restarts: `Night` |
| Paper broker: `adapters/paper/broker.py` | quotes, positions, balance | place, close, modify, `check_brackets` | gaps through levels | (part of the session's) | `PaperSession` |
| Quote management: `core/strategy_ssr.py` | - | TP1, forced exit, time stop | their order | TP1 protects | `PaperSession` |
| Strategy: `core/strategy_ssr.py` | Asian bars, range, two attempts | `on_bar` | missing bars, sweeps over several bars, off-by-one counts | sound setups, once per direction, one side at a time | `SSREngine` |
| Control endpoints: `api/app.py` | `ApiContext`, files, `config_version`, `audit` | pause, resume, flat-all, kill, four config posts | threads of the pool between check and use; handlers that raise; restarts | ratchet, valid pair, kill holds, audit complete | `ControlPlane` |
| Live gate: `services/live_gate.py` | - | `check` | reads three factors one after the other | disarming is prompt | `ControlPlane` |
| Ratchet, startup rule: `core/config_schema.py` | - | `risk_reduction_only`, `validate_startup` | - | as above | `ControlPlane` (two risk fields) |
| MT5 adapter: `adapters/mt5/adapter.py` | terminal connection | place, close, modify | retryable or not, codes without a name, `None` results, queries that fail | - | as the broker of `OrderManager` and `Night`; gate calls in `ControlPlane` |
| Flattener: `services/flattener.py` | round, positions still to try | `flatten_all` | bounded rounds against positions that appear, refused closes, exceptions, queries that fail | flat, or somebody was told | `Night` |
| Downloader: `services/data_downloader.py`, `services/bar_builder.py`, `upsert_candles` | file cache, table `candle` | `_cached_fetch`, `m5_from_m1`, `build_m5_database` | runs that die, days that are not over, retries | stored days are the archive's, rows are final | `DataFeed` |
| Session windows: `core/timebase.py` | - | `session_windows`, `self_check` | two time zones with daylight saving | - | their order and the verdict, in `SSREngine` |
| Filters: `core/filters.py` | - | `evaluate_no_trade` | - | - | a veto, in `PaperSession` |

Not modelled: watchdog and SNTP, state machine, Monte Carlo and reports,
calendar, feed validation and statistics, alerts, auth, ports and stubs, value types.
`PROJECT.json` gives the reason for each.  Two facts matter most for what is composed with what: nothing in `src/`
outside the tests builds a `PaperSession` or an `OrderManager`, or calls
`reconcile` (`Night` uses it as its own comment says, at a restart); and the API process is given no execution port by `main()`.  The
components therefore meet only through tables and files today, and a
composition of, say, `/kill` with a session's entry would be a model of code
that does not exist.

## 2. Modules and how they correspond to the code

**`OrderManager`** (checked by `MCOrderManager`).  `pc` and `call` are the
program counter and locals of the one running call; `row` and `fills` are the
tables; `rate` and `held` are memory, lost by `Restart`.  `submit_entry` is
`Submit` or `SubmitDuplicate` (the insert), `EntryRateLimited`/`EntryAllowed`
(the limiter), `SendEntry` (row to "sent", request out), then one action per
result: `EntryFilled` and `JournalEntry`, `EntryRejected`, `EntryRetry`,
`EntryAbandoned`.  A crash may come between any two.  An entry request travels on
`wire` and may be executed after its sender died.  `AckLoss` says whether the
broker may answer "timeout" to a request that it executes; all statements about
double sends depend on it.  `CodesNamed` says whether the adapter knows every code of an
executed request.  The code's does not: `map_retcode` has no entry for DONE_PARTIAL (10010)
and PLACED (10008), so an order that was executed in part, or will be, is answered as a
failure that is not retryable (`Results`, `Places`), and its row says "rejected".  All runs
take `CodesNamed = FALSE`.  A close is one step together with its answer,
because nobody else reads in between; the broker may close a part of what was asked
(`Takes`), and `CloseRaises` is an `order_send` that answers `None`.  `reconcile` is a scan over the tickets
that were open and the tickets booked today, both read at its start.
`executed`, `removed`, `tries` and `entry_at` are history.

**`OrderLedger`** is the abstract specification: a key is claimed once, at most
one order is placed under it, and never after it was given up.  `OrderManager`
implements it through the mapping at its end, in which a row gives its key up if it denies
an order: "abandoned" and "rate_limited" always, "rejected" only with `CodesNamed`.

**`RiskRules`** translates the functions of `risk.py` and `compliance.py` to
operators over two records.  The actions of the next two modules are built from
them, as the shells are from the functions.

**`RiskDays`** (`MCRiskDays`) is the loop of `BacktestEngine.run` over many days:
one position of the risk unit, whose prices are abstracted to its floating P&L,
at worst `stake + Slip` and at best `MaxR` times the stake.  Each action ends with
the mark of the account that the loop makes on that bar: the equity that
`Bar` and `HardStopExit` mark is the one before the hard stop closes, `Exit` may
be marked or be followed by the entry of the same bar, and `MarkBalance` is a
bar without a position, or of the unit's other symbol, where the loop marks the
bare balance.

**`PaperSession`** (`MCPaperSession`) is a trading day of one or more sessions on
one broker, with prices.  `EntryFilled`, `EntryFailed` and `SetupFiltered` are
`_try_enter`; `PollFlat`, `PollBracket`, `PollHardStop`, `PollTp1`, `PollExit` and
`PollKeep` are the branches of `poll_quotes` in the order of the code, each with
the `check_brackets` call it starts with.  Filters that are not modelled may stop any
setup (`SetupFiltered`), so every subset of the setups may be entered.
`Tp1` and `Tp1Lots` are what `tp1_r` and `tp1_close` make of the stop and the volume.  `PollTp1` is
the partial close, the breakeven stop and the session's own record, whatever came of the two calls;
`PollTp1Raises` is an exception out of one of them, after which the session does not remember TP1.
`Emulated` says whether `check_brackets` closes what the quotes have crossed (a paper
broker), `Unreliable` lets entries, closes and modifications fail, raise, do a part or lose their
answers.

**`Night`** (`MCNight`) extends `PaperSession` with the processes that meet it at
the end of the day.  The flattener is `FlattenStart`, `Look`, one `CloseOne` per
position, `Verify`, and `Escalate` after the last round: a step per broker call,
since the session, its brackets (`NativeBracket`) and the market go on between them.  `Raises` adds
what the MT5 adapter does when a call fails (`FlattenDies`), `Blind` a look or a
verification that fails and shows nothing (`Positions`).  `Restart` builds a session again: `reconcile`
first, which closes what has no ticket in the store, if the close succeeds, then
an engine, risk and compliance states that remember nothing.  `rows` is what the
store knows of each setup.  `blind` is history.

**`BacktestEngine`** (`MCBacktestEngine`) is the loop with prices.  `phase` is the
place in the body of the loop: manage the position (`StopLoss`, `TakeTp1`, `TakeTp2`,
`ExitAtClose`, `Keep`, one per return of `manage_on_bar`), let the engine enter
(`Enter`, `NoEntry`), mark (`Mark`, `HardStopExit`).  `ExitFillPrice`, `FillNet` and `SizeLots`
are the functions of `costs.py`, `fills.py` and `sizing.py` over integers.  `Tp1Move` and `Tp1Lots`
stand for `tp1_r` and `tp1_close`: where TP1 is for each stop, and what it closes of each volume (`First`,
which leaves `Rest`).  Bars
are all that can follow a close within `Gap`, reduced to what the code can tell
apart.  The mapping at the end makes every step one of `RiskDays` or a stutter: BarDays
checks it, `BacktestEngineProofs` proves it, and with it the theorems about `RiskDays` hold
of every backtest whose costs stay within `Slip`.

**`DataFeed`** (`MCDataFeed`) is the downloader for one symbol.  A file is the set of
minutes it has candles for, a stored row the set of minutes it was made of: that is
what the code can get wrong by dying, retrying or coming early.  `Served` is the
server: the whole day once it is over, a part of it or a 404 before.
`DieInWrite` leaves no file, an empty one or a torn one.

**`SSREngine`** (`MCSSREngine`) is one symbol and day.  `_process` and
`_on_reclaim` are pure operators (`Process`, `SetupOf`) over an attempt, a range
and a bar; a short attempt sees range and bar negated, which is what the
mirrored branches of the code compute.  The decimals of `SharedParams`, `tp1_r` and `tp2_r_cap` among
them, are numerators over `Unit`, so that all comparisons are between integers.  `worst` and `setups` are history.

**`ControlPlane`** (`MCControlPlane`).  The handlers are plain `def`s, which FastAPI
runs on a pool of threads: each access to `ctx`, a file or a table is one
step of a worker.  A strategy is the text of a configuration, as the checksum that keys
`config_version` is the text's: what the checks compare (hard stop, size and "the rest") and a
number that tells apart texts which say the same.  `HandlerRaises` is an exception out of the flatten, a
file or the database: what the handler did stays, the rest is not done.  `trader` is the process behind the live gate, with the
configuration it read at its start as `expected_checksum`.  History: `base` and
`sound` (what the process started with), `raced` (have two requests overlapped
since), `stopped` (was it killed), `debt` (changes less audit rows) and `late`
(orders sent since the gate was closed).  `ctx.config_checksum` is only displayed
and is left out, as are the GET endpoints.  The file that
`/config/instruments` writes is read at the next start only and is not shown.

`MC*` modules only define values for the configurations and the statements of
documents that the code does not keep.

## 3. Runs

| Run | Question | Result |
|---|---|---|
| Orders | With a broker whose answers are never lost: double send, accounts, limiter, journal, and the ledger | holds; 1.6 million states |
| OrdersLossy | With answers that get lost: how many duplicates, how much a partial close takes, whose ticket is booked, does every call return | holds; 400,000 states |
| RiskWeeks | Do the rules keep the firm's limit, the floor, the week, the books and the hard stop over days and weeks | holds; 1.6 million states |
| PaperDay | Do session, broker and risk state agree over arbitrary quotes; does TP1 protect | holds; 240,000 states |
| Night | Calls fail, raise or do a part, answers are lost, the session is restarted, the flattener runs beside it: is the account flat in the end, or was somebody told | holds (liveness); 202,000 states |
| EntryDay | Arbitrary bars and gaps: are setups sound and single | holds |
| Governance | Two threads, operator, restart, a handler that raises, gate: ratchet, pair, kill, audit, disarming | holds; 3.6 million states |
| BarDays | Does the loop with prices, costs and sizes implement the days of the rules; is what TP1 leaves protected; who is late for the forced exit | holds; 89,000 states |
| History | Runs that die and days that are not over: is the store what the archive has, are rows final | holds; 24,000 states |
| PartialFills | "the managed position is built from the ACTUAL filled lots" (`DECISIONS.md:317`) | violated |
| TwoSessions | EUR/USD and GBP/USD are one risk unit (`SPEC.md:169`) | violated |
| RatchetReset | during an evaluation only reductions activate (`SPEC.md:216`) | violated |

What the three violations show:

- *PartialFills*.  `map_retcode` (`mt5/adapter.py:95-106`) does not know MetaTrader's code for an order
  filled in part: the result is a failure, not retryable, the row becomes "rejected", and no
  session builds a position from what the broker holds.  No answer is lost in this run.
  `ExecutedIsAccountedFor` is what remains true: the other denials mean what they say.
- *TwoSessions*.  The runner passes `position_open_in_risk_unit=False` and looks at
  its own trade only.
- *RatchetReset*.  The ratchet compares with the configuration in memory, which a
  restart takes from the file and not from the active row.

Where else the code and its documents differ, seen while the models were written and
shown by their actions, not by a run of its own:

- `order_manager.py:6`, `DECISIONS.md:316`: double-send is impossible.  The UNIQUE key guards calls of
  `submit_entry`, not the attempts inside one: a time-out is retryable, so a request that was executed
  although its answer was lost is sent again (`TimesOut`, `EntryRetry`).  `DuplicatesBounded` is what remains
  true; `OneOrderPerKey` holds while no answer is lost.
- `DECISIONS.md:314`, `SPEC.md:392`: a runaway loop ends after six broker sends.
  Only successful sends are recorded as operations (`order_manager.py:140`, `RecordOp` in
  `EntryFilled` and not in `EntryRejected` or `EntryRetry`).
- `DECISIONS.md:177-178`: the execution layer rounds the TP1 quantity to the lot step.  Only `size_lots`
  rounds, at the entry (`sizing.py:38`); `strategy_ssr.py:351`, `runner.py:165` and the brokers pass the
  quantity on (`SellTp1`).
- `SPEC.md:142`: reclaim within `reclaim_bars` of the penetration.  The close is tested
  before the expiry (`strategy_ssr.py:232-235`, `Process`), so one bar more reclaims.
- `SPEC.md:146`: flat at 19:30 without condition.  A bar that takes TP1 returns before
  the forced exit (`strategy_ssr.py:401`, `TakeTp1`); the bar after closes the rest.
  `LateOnlyByTp1` is what remains true.
- `flattener.py:3-4`, `DECISIONS.md:336`: the flattener verifies flat by asking the broker, retries and
  escalates.  A query that fails looks like a flat account (`mt5/adapter.py:244`, `Positions`), and a close
  that answers `None` ends the run with an exception (`mt5/adapter.py:236`, `FlattenDies`): in both cases
  nobody is told.
- `app.py:4-5`, `DECISIONS.md:358-360`, `RUNBOOK.md:97`: an API call alone can never un-kill the system.  A
  `/resume` that looked for the KILL file before `/kill` wrote it clears the pause after the kill was answered
  (`app.py:244`, `:249`; `ResumeAllowed`, `ResumeClears`).  `KilledIsPaused` holds without overlap.
- `app.py:3`: every mutating endpoint writes an audit row.  It is the handler's last step; an exception or a
  crash before it leaves the change without one (`HandlerRaises`).  `AuditKeepsUp` counts them.
- `data_downloader.py:193-194`: resumable, since cache and upsert are idempotent.  A file that
  was cut off, or fetched before its day was over, is never fetched again
  (`data_downloader.py:120`, `Cached`); `StoreIsArchive` is what remains true.

### Bounds, and why they are enough

- **Orders**: two keys (a key interacts with another through the limiter, tickets
  and reconcile, always pairwise), two retries (a first and a last attempt), one
  operation a day (the limiter at its limit), volume two (a partial fill or close
  differs from a full one), a clock that crosses midnight, two tickets, one
  restart.  OrdersLossy has a single key, since duplicates arise under one, and volume three, so that a
  lost partial close can be repeated.  PartialFills needs one key and nothing lost.
- **RiskWeeks**: the default limits in units of $87.50, rounded; three days in
  two-day weeks, so that a week is left and one is entered, and the cooldown sees
  a day after the day after.
- **PaperDay**: eleven bids around stop and target, so that quotes jump over stop,
  TP1 and target in both directions; two setups, as many as the engine emits.
  The limits are scaled so that the hard stop, the soft stop and the streak are
  all reached.
- **TwoSessions**: three bids (below the stop, entry, above the target).
- **Night**: one session, two bids (entered at one, a trade finds at the other its stop or its TP1, and back at the first its breakeven
  stop), one run of the flattener of two rounds (a first and a last), one restart.  Everything else that may
  fail does so in every step.
- **BarDays**: one stop of four units and one target of six, TP1 at one R and for half, volume one step, a gap, a
  spread of one, commission, and a bar after the forced exit, which a late TP1 leaves its rest to: every kind of exit occurs at every price that the code tells
  apart, and the hard stop, the soft stop and the next day are reached.
- **History**: three days of three minutes in two bars, one a Saturday, one that lacks a minute on
  one side, one with padding; three runs, so that a run may repeat what two others left.
- **EntryDay**: all bars with prices of zero to eight pips and two spreads, three
  Asian bars and four entry bars, of which up to three in a row may be missing:
  incomplete ranges, late locks, expiry, sweeps that deepen.  The shipped `tp1_r` of 1 and `tp2_r_cap` of 2.2;
  a quality of a half is the value from which on a bar can satisfy the quality rule for both sides.
- **Governance**: two threads overlap in every way two requests can; a third
  request acts on what they leave; one handler raises.  Four configurations: the first, the same in another
  text, one tighter in the stop, and one that is tighter but changes more
  than risk; two firm profiles, of which one is invalid with the first strategy.

Deadlock is checked, except in RiskWeeks, BarDays, EntryDay and History, where the
list of days, the day's bars or the list of runs ends.

### Fairness

`OrderManager!FairSpec`: weak fairness of the steps of a running call (the thread
has finite sleeps only) and of the broker's answer to a waiting caller (the
MT5 call returns, with a result or without).  Nothing promises submissions, closes
or a market that moves.  `Night!NightSpec`: weak fairness of the clock and of polling (the session's loop), and
strong fairness of a poll whose forced close succeeds or whose TP1 does not raise (`CallSucceeds`): a broker that is asked again and
again closes at last, and not every answer of it is `None`.  Without them, nothing can promise a flat book (TP1
comes before the forced exit, and one that raises comes again at the next poll); the code
retries at each poll and relies on it.  Setups and quotes are promised by nobody.
Weak fairness of the flattener: the scheduler starts the run and a run goes on.  No
close of the flattener is promised to succeed.

## 4. Proofs

All theorems are about every value of the constants that satisfies the
assumptions and of the hypotheses that the theorem itself states; they are listed in `PROJECT.json`.

**Assumptions.**  `OrderAssumption` (shape only), `RulesAssumption` (what
`RiskConfig` and `validate_startup` demand), `DaysAssumption` (shape),
`DailyMargin` and `TrailMargin` (the slippage margins that SPEC.md and the floor
buffer are meant to give: they are assumptions about a configuration and a market,
and the theorems say that under them the rules suffice), `BacktestAssumption` (shape; TP1 anywhere before TP2 and
for any share of the volume; an entry that costs less than the way to TP2), `CostMargin` (the largest volume times the widest spread, both
slippages, a gap and the commission is within `Slip`), `DayMargins` (those of
`RiskDays` again), `SessionAssumption` (shape, and TP1 before TP2), `NightAssumption` (shape), `ParamAssumption`,
`PriceAssumption`, `WindowAssumption` (the bounds that the configuration schema and
`self_check` demand of the engine's parameters, bars with low <= close <= high), `ControlAssumption` and
`FeedAssumption` (shape).

**`OrderManagerProofs`**.  No double send is not inductive: a request may be on its
way when the process dies.  The invariant counts, for each key, requests on the wire
and orders executed against the attempts sent, bounds the attempts by the running
call's number or by `max_retries`, and, if no answer is lost, says that at most one of
the requests of a key is undecided or executed and that a row that denies an order has none.  Codes that
the adapter does not name break neither: a refusal that was an execution is not retried, and ends in a row
that, without `CodesNamed`, denies nothing.
From it: `DuplicatesAreBounded` always; `NoDoubleSend`, `JournalNeverDenies` and
`ImplementsLedger` if no answer is lost; `TicketsAreOurs`, since a booked ticket is
one the broker gave out under the key of the running call.
`LimiterHolds` adds that the entries of this life are as far apart as the limiter's last
entry says (`Spaced`) and, for its day, no more than its count (`Counted`); a day it has
left behind is over.  `JournalIsConserved` adds what each call may still write
(`Journalled`): the volume of an answer that is not yet in the table is
reserved there.  `PartialClosesBounded` needs no truth of answers: `Taken` says that each attempt of a
partial close took at most the volume asked for, and the attempts are at most `max_retries`.

**`RiskDaysProofs`**.  `FirmLimitHolds` does not speak of the risk state at all; the
invariant ties them.  `BooksKept`: the account is the morning's anchor, plus the
realized result, plus the banked leg.  `DayKept`: before an entry the realized result
is above the soft stop, so after it the day cannot lose more than the soft stop, a
stake and its slippage.  `WeekKept` the same for the week.  `FloorKept` and `Marked`:
the high-water mark is at most the best the open trade may still show above its
entry, and the entry was made `FloorBuffer` above the floor.  `LatchKept`: after the
hard stop the latch halts every entry until the roll.  `CountsKept` and `Idle` are the
bookkeeping the others rest on.

**`BacktestEngineProofs`**.  The refinement is the theorem: no way in which a trade can end
loses more than its stake and `Slip`, or gains more than `MaxR` stakes.  That needs, of
the open trade, where its levels stand to each other (`Placed`: the stop one R
away, or at the entry after TP1; TP1 before TP2), that volume times R is within the stake (`Sized`, from the
flooring of `size_lots`), that a bar it survived closed between the stop and TP2
(`Reached`, so that the next bar, a gap away, cannot open far beyond the stop), and that
the banked leg of TP1 is no worse than its costs (`Banked`).  `ImplementsDays` then maps
each action to a step of `RiskDays`, and `LimitsInBacktest` transports the theorems of
`RiskDaysProofs` through an instance of that module: firm limit, floor, week,
books, hard stop and martingale hold of the loop with prices.  `ForcedFlat` and
`RestProtected` follow from the same invariant.

**`PaperSessionProofs`**.  One session on a broker that emulates brackets and loses no answer
(`OnePaperSession`), which is what v1 documents (`runner.py:4-5`), and whose TP1 leaves a rest and is further
away than spread and drift; with two sessions or lost
answers the statements are false (TwoSessions) or not claimed, and a `tp1_close` of 1 is a case of its own
(section 5).  Without a trade
(`FlatKept`) the broker holds nothing and both books show the same; with one
(`HeldKept`) it holds exactly that trade, and the account stands where the trade found
it, or higher once TP1 was taken.  A trade can then end only at its stop, its target, or at
a quote that has not reached the stop, so it loses at most `Lots * Worst` (stop, spread and
drift), or nothing after TP1.  Hence `BooksHold`, `MirrorHolds`, `Tp1Holds`, and, if the
firm's limit has room for one such trade under the soft stop (`DayMargin`), `DayLossHolds`.
`Counted` bounds the trades by the setups of the day.

**`NightProofs`**.  Any number of sessions, restarts and runs of the flattener, and a broker
that may refuse, lose or raise.  Volumes only shrink, but for an entry, whoever
acts; entries are made before the flattener's time.  So the verdict
of a run, once true, stays true (`VerdictIsFinal`, if the flattener is scheduled after the
entry window), which is the safety half of `FlatOrEscalated`.

**`SSREngineProofs`**.  The invariant relates a live attempt to the history: its
extreme is the furthest price since the first penetration, its depth is between
the sweep's least and greatest, its age at most `reclaim_bars`.
`NeverBothSides` follows from the targets: each side must have `Tp1R` times its stop
plus the way to the other end of the range ahead of it, and if that is at least the stop
(`Tp1CoversStop`, a hypothesis of `OneSideAtATime`), the two cannot both fit.  The other theorems hold of
every parameter that the schema admits.

**`ControlPlaneProofs`**.  What a worker has checked must still hold when it
acts.  For the ratchet it does (`Checked`: a strategy past the `reduce` step reduces
`base`, whatever was adopted since), hence `NeverLooser` under every interleaving.
For the pair and the kill switch it does not, hence `Alone` (without overlap at
most one worker is busy) and what the lone worker has seen (`Matched`, `Stopped`).
`Owed` counts the unaudited changes by worker, crash and exception; `Gated` bounds
the orders after disarming by the one check that may have passed.

**`DataFeedProofs`**.  A day is stored again by every later run, so a row is final
only if the run reads the same files again.  `Reading`: what the run has read of its day is
what the cache holds, and a file is written only where there was none.  `Stored`:
the rows of a day that was passed are made from its two files, a day that was not has
none.  Together, with the cache never changing what it holds, they give `StoreIsTheArchive`
and `RowsStay`.

**Only model-checked.**  The liveness properties `CallsReturn`, `KnownFlatByNight` and
`FlatOrEscalated`: temporal reasoning under fairness, and `ENABLED`, are beyond the prover.
Sums over more than one position (the account of several sessions, a restart that closes
several strays) need induction over a set, which it cannot do either: `PaperSessionProofs` has
one position at a time, `NightProofs` speaks of volumes and not of money.
`SweepsAreShallow`, `LimitsInBacktest`, the theorems of `NightProofs` and the type
correctness of the control plane are only proved; TLC was used to find their
invariants, but no run repeats it.

## 5. Limits worth knowing

- `NeverLooser` is about the life of a process; across restarts see RatchetReset.
- `PairStaysValid` assumes that the process started with a valid pair: `main()`
  loads both files and checks neither against the other.
- `KilledIsPaused` and `PairStaysValid` are claimed only while requests do not
  overlap; under overlap they fail, and the handlers take no lock.
- `EntriesRespectLimiter` is per life of the process: the limiter is not persisted.
- A position that others close is never reported to its session; the session
  then holds its trade for the rest of the day.  `KnownFlatByNight` says only
  that nothing it holds is left open at the broker.
- `FlatOrEscalated` has the exceptions of the adapter in it: after an exception out of
  the run, or a query that failed, nobody is told.  A session that was restarted never
  manages the position it had; only its brackets and the flattener do.
- `JournalNeverDenies` and `ImplementsLedger` say nothing of rejected rows with the adapter as it is (see
  PartialFills); they would with `CodesNamed`.
- `OneSideAtATime` needs a `tp1_r` of at least 1.  The schema admits less: with 0.5, and a quality of
  0.5, one bar can give a long and a short, of which the shells enter the first.
- With a `tp1_close` of 1, TP1 closes the whole position and the session keeps a trade without volume, which it
  tries to close at each later poll: `PaperSessionProofs` excludes it, and `PaperDay` closes half.
- An entry that `Night` reports as filled is filled in full; one that is filled in part is one the adapter
  reports as failed.
- A `/kill` whose flatten raises (`app.py:262`) leaves neither the KILL file nor the pause; `KilledIsPaused`
  speaks of kills that were carried out.
- A restarted session numbers its decisions from 1 again and collides with its own
  rows (`runner.py:113`); `Night` allows the entries that this would stop.
- `RiskDays!Partial` banks what TP1 made, at a gain or, after costs, at a loss, and is a step of its
  own: the mark of the bar follows it.
- `DataFeed` has one symbol; `build_m5_database` takes several one after the other,
  with files and rows of their own.
- `OnDayClose` is translated but no shell of the repository calls it.
- The row statuses of `OrderManager` are those it writes itself; the session's
  own update of its `order_intent` row (`runner.py:207`) is not read by any decision.

## 6. Plan

Built, in this order: the order path and its ledger; the rules and their days; the
session with its broker; the engine; the control plane with the gate; their proofs; then the
night with flattener and restart, the backtest with prices as a refinement of the
days, and the downloader with its proofs; then the proofs of the backtest's
refinement, of the session, of the limiter and the journal, and of the night.

Next, proving:

1. `Night` for one session: what its risk state has booked is what its own closes made, brackets
   and flattener apart.
2. `PaperSession` with `Unreliable`: the session never holds less than it believes after a
   failed close, which takes two tickets at the broker.
3. A reader's pass over the longest proofs (`OrderManagerProofs`, `BacktestEngineProofs`): shared
   lemmas, shorter leaves.

What is left to model: the single rules of the no-trade filters and the full ratchet over all
risk fields (pure functions of their inputs, here a veto and two fields), and the
windows, which need the time zone database.  The API has no execution port and no
session reads its pause, so the composition of `/kill` with an entry waits for the code.
