---------------------------- MODULE RiskDaysProofs ----------------------------
(***************************************************************************)
(* Proofs about RiskDays for every configuration that the startup          *)
(* validation admits (RulesAssumption) and every slippage the two margins  *)
(* leave room for.  The limits are not inductive: a limit that looks at    *)
(* realized results only bounds the day because a trade is opened above    *)
(* it and loses a bounded amount (DayKept, WeekKept), and the books must   *)
(* balance over the TP1 leg that only the account knows (BooksKept).       *)
(***************************************************************************)
EXTENDS RiskDays, TLAPS

\* What the validation demands, spelled out for the provers.
LEMMA ValidRules ==
  /\ PerTrade \in Nat \ {0} /\ Cooldown \in Nat \ {0} /\ Cooldown <= PerTrade
  /\ SoftStop \in Int /\ HardStop \in Int /\ WeekStop \in Int
  /\ WeekStop < HardStop /\ HardStop < SoftStop /\ SoftStop < 0
  /\ ConsecHalt \in Nat \ {0} /\ MaxEntries \in Nat \ {0}
  /\ DayCap \in Nat \ {0} /\ FloorBuffer \in Nat \ {0}
  /\ TrailAmount \in Nat /\ DailyLoss \in Nat /\ TrailMode \in Modes
  /\ 0 - HardStop < DailyLoss /\ FloorBuffer < TrailAmount
  /\ 0 - WeekStop < TrailAmount
BY RulesAssumption DEF ConfigValid

Idle == ~open => floating = 0 /\ leg = 0 /\ stake = 0

\* A position may be entered only below every limit, so it is open below it.
Marked ==
  open => /\ stake \in {Cooldown, PerTrade}
          /\ WorstLoss <= floating
          /\ WorstLoss <= leg + floating /\ leg + floating <= BestGain
          /\ leg <= BestGain
          /\ risk.consec_losses < ConsecHalt
          /\ risk.losses_today < risk.trades_opened

CountsKept == risk.losses_today <= risk.trades_opened

BooksKept == balance = comp.day_anchor + risk.day_realized + leg

DayKept ==
  /\ risk.day_realized > SoftStop - (PerTrade + Slip)
  /\ open => risk.day_realized > SoftStop

WeekKept ==
  /\ risk.week_realized > WeekStop - (PerTrade + Slip)
  /\ open => risk.week_realized > WeekStop

\* The floor follows the mark of the account, so an open trade's floor is
\* where it was at the entry or under the best the trade has seen.
FloorKept ==
  /\ comp.hwm - TrailAmount <= comp.floor
  /\ open => \/ comp.floor <= balance - leg - FloorBuffer
             \/ comp.floor <= balance - leg + BestGain - TrailAmount
  /\ ~open => comp.floor < balance

LatchKept == fired => risk.hard_latched /\ ~open

IInv ==
  /\ TypeOK /\ Idle /\ Marked /\ CountsKept /\ BooksKept
  /\ DayKept /\ WeekKept /\ FloorKept /\ LatchKept

(* ------------------------------- the rules ------------------------------- *)

\* A larger stake has the larger best gain.
LEMMA GainMonotone ==
  ASSUME NEW r \in Nat, NEW a \in Nat, NEW b \in Nat, a <= b
  PROVE  r * a <= r * b /\ r * a \in Nat /\ r * b \in Nat
OBVIOUS

\* What an empty set of halts means.
LEMMA NoHalts ==
  ASSUME EntryHalts(risk) = {}
  PROVE  /\ ~risk.hard_latched
         /\ ~SoftStopped(risk) /\ ~WeekStopped(risk) /\ ~EntriesUsedUp(risk)
         /\ ~(risk.consec_losses >= ConsecHalt)
<1> DEFINE h == Halts(risk)
<1>1. \A code \in DOMAIN h : ~h[code]
  BY DEF EntryHalts
<1>2. ~h.DAILY_HARD_STOP /\ ~h.DAILY_SOFT_STOP /\ ~h.WEEKLY_STOP
        /\ ~h.CONSEC_LOSS_HALT /\ ~h.MAX_ENTRIES
  <2>1. {"DAILY_HARD_STOP", "DAILY_SOFT_STOP", "WEEKLY_STOP", "CONSEC_LOSS_HALT",
         "MAX_ENTRIES"} \subseteq DOMAIN h
    BY DEF Halts
  <2> HIDE DEF h
  <2> QED
    BY <1>1, <2>1
<1> QED
  BY <1>2 DEF Halts

\* The ratchet moves the floor up, at most to TrailAmount under the level.
LEMMA RatchetFloor ==
  ASSUME NEW c \in [hwm : Int, floor : Int, day_anchor : Int], NEW e \in Int,
         c.hwm - TrailAmount <= c.floor
  PROVE  /\ OnEquity(c, e) \in [hwm : Int, floor : Int, day_anchor : Int]
         /\ OnEquity(c, e).day_anchor = c.day_anchor
         /\ OnEquity(c, e).hwm - TrailAmount <= OnEquity(c, e).floor
         /\ \/ OnEquity(c, e).floor = c.floor
            \/ OnEquity(c, e).floor = e - TrailAmount
BY ValidRules DEF OnEquity, Ratchet, Larger

(* -------------------------------- the steps ------------------------------ *)

\* The stake of a trade and what it may gain and lose.
LEMMA StakeBounds ==
  ASSUME stake \in {Cooldown, PerTrade}
  PROVE  /\ BestGain \in Nat /\ BestGain <= MaxR * PerTrade
         /\ MaxR * PerTrade \in Nat
         /\ WorstLoss \in Int /\ WorstLoss >= 0 - (PerTrade + Slip)
<1>1. stake \in Nat /\ stake <= PerTrade /\ PerTrade \in Nat /\ MaxR \in Nat
  BY ValidRules, DaysAssumption
<1>2. MaxR * stake <= MaxR * PerTrade /\ MaxR * stake \in Nat
        /\ MaxR * PerTrade \in Nat
  BY <1>1, GainMonotone
<1>3. 0 - (stake + Slip) \in Int /\ 0 - (stake + Slip) >= 0 - (PerTrade + Slip)
  BY <1>1, DaysAssumption
<1> QED
  BY <1>2, <1>3 DEF BestGain, WorstLoss

LEMMA InitKept == Init => IInv
<1> SUFFICES ASSUME Init PROVE IInv
  OBVIOUS
<1>1. risk = InitialRisk /\ InitialRisk \in RiskState
  BY ValidRules DEF Init, InitialRisk, RiskState
<1>2. comp = [hwm |-> 0, floor |-> 0 - TrailAmount, day_anchor |-> 0]
  BY DEF Init, OnDailyReset, InitialCompliance
<1>3. TypeOK
  <2>1. comp \in [hwm : Int, floor : Int, day_anchor : Int]
    BY <1>2, ValidRules
  <2>2. weekday \in 0..(WeekLen - 1)
    BY DaysAssumption DEF Init
  <2>3. balance \in Int /\ leg \in Int /\ floating \in Int /\ days \in Nat
          /\ stake \in {0, Cooldown, PerTrade}
    BY DEF Init
  <2>4. open \in BOOLEAN /\ fired \in BOOLEAN
    BY DEF Init
  <2> QED
    BY <1>1, <2>1, <2>2, <2>3, <2>4 DEF TypeOK
<1>4. Idle /\ Marked /\ CountsKept /\ BooksKept /\ LatchKept
  BY <1>1, <1>2 DEF Init, Idle, Marked, CountsKept, BooksKept, LatchKept, InitialRisk
<1>5. DayKept /\ WeekKept
  BY <1>1, ValidRules, DaysAssumption DEF Init, DayKept, WeekKept, InitialRisk
<1>6. FloorKept
  BY <1>2, ValidRules DEF Init, FloorKept
<1> QED
  BY <1>3, <1>4, <1>5, <1>6 DEF IInv

LEMMA EnterKeeps == ASSUME IInv, Enter PROVE IInv'
<1> USE DEF position, calendar
<1>1. /\ ~open /\ open' = TRUE /\ leg' = 0 /\ floating' = 0 /\ leg = 0
      /\ stake' = PerTradeRisk(risk) /\ risk' = OnEntryOpened(risk)
      /\ UNCHANGED <<comp, balance, weekday, days, fired>>
  BY DEF Enter, IInv, Idle
<1>2. ~SoftStopped(risk) /\ ~WeekStopped(risk) /\ ~EntriesUsedUp(risk)
        /\ ~(risk.consec_losses >= ConsecHalt) /\ ~EntryBlocked(comp, balance)
        /\ ~risk.hard_latched
  BY NoHalts DEF Enter, MayEnter
<1>3. risk \in RiskState /\ risk.trades_opened < MaxEntries
  BY <1>2, ValidRules DEF IInv, TypeOK, RiskState, EntriesUsedUp
<1>4. risk' \in RiskState
  BY <1>1, <1>3, ValidRules DEF OnEntryOpened, RiskState
<1>5. /\ risk'.day_realized = risk.day_realized
      /\ risk'.week_realized = risk.week_realized
      /\ risk'.consec_losses = risk.consec_losses
      /\ risk'.losses_today = risk.losses_today
      /\ risk'.trades_opened = risk.trades_opened + 1
      /\ risk'.hard_latched = risk.hard_latched
  BY <1>1, <1>3 DEF OnEntryOpened, RiskState
<1>6. stake' \in {Cooldown, PerTrade}
  BY <1>1 DEF PerTradeRisk
<1>7. TypeOK'
  BY <1>1, <1>4, <1>6 DEF IInv, TypeOK
<1>8. Marked'
  <2>1. WorstLoss' <= 0 /\ 0 <= BestGain'
    <3>1. \A s \in {Cooldown, PerTrade} : 0 - (s + Slip) <= 0 /\ 0 <= MaxR * s
      BY GainMonotone, ValidRules, DaysAssumption
    <3>2. WorstLoss' = 0 - (stake' + Slip) /\ BestGain' = MaxR * stake'
      BY DEF WorstLoss, BestGain
    <3> QED
      BY <1>6, <3>1, <3>2
  <2>3. (risk.consec_losses < ConsecHalt /\ risk.losses_today < risk.trades_opened)'
    BY <1>2, <1>3, <1>5, ValidRules DEF IInv, CountsKept, RiskState
  <2> QED
    BY <1>1, <1>6, <2>1, <2>3 DEF Marked
<1>9. Idle' /\ CountsKept' /\ BooksKept'
  BY <1>1, <1>3, <1>5 DEF IInv, Idle, CountsKept, BooksKept, RiskState
<1>10. DayKept' /\ WeekKept'
  BY <1>1, <1>2, <1>3, <1>5, ValidRules
  DEF IInv, DayKept, WeekKept, SoftStopped, WeekStopped, RiskState
<1>11. FloorKept'
  BY <1>1, <1>2, ValidRules DEF IInv, TypeOK, FloorKept, EntryBlocked
<1>12. LatchKept'
  BY <1>1, <1>2 DEF IInv, LatchKept
<1> QED
  BY <1>7, <1>8, <1>9, <1>10, <1>11, <1>12 DEF IInv

LEMMA BarKeeps == ASSUME IInv, NEW f \in Marks, Bar(f) PROVE IInv'
<1> USE DEF position, calendar
<1>1. /\ open /\ floating' = f /\ comp' = OnEquity(comp, balance + f)
      /\ UNCHANGED <<risk, balance, open, stake, leg, weekday, days, fired>>
  BY DEF Bar
<1>2. f \in Int /\ WorstLoss <= f /\ WorstLoss <= leg + f /\ leg + f <= BestGain
  BY <1>1, StakeBounds DEF IInv, TypeOK, Marked, Marks, Outcomes
<1>3. comp' \in [hwm : Int, floor : Int, day_anchor : Int]
        /\ comp'.day_anchor = comp.day_anchor
        /\ comp'.hwm - TrailAmount <= comp'.floor
        /\ (comp'.floor = comp.floor \/ comp'.floor = balance + f - TrailAmount)
  <2>1. comp \in [hwm : Int, floor : Int, day_anchor : Int]
          /\ comp.hwm - TrailAmount <= comp.floor
    BY DEF IInv, TypeOK, FloorKept
  <2>2. balance + f \in Int /\ comp' = OnEquity(comp, balance + f)
    BY <1>1, <1>2 DEF IInv, TypeOK
  <2>3. comp'.floor = comp.floor \/ comp'.floor = (balance + f) - TrailAmount
    BY <2>1, <2>2, RatchetFloor
  <2>4. (balance + f) - TrailAmount = balance + f - TrailAmount
    BY <1>1, <1>2, ValidRules DEF IInv, TypeOK
  <2> QED
    BY <2>1, <2>2, <2>3, <2>4, RatchetFloor
<1>4. WorstLoss' = WorstLoss /\ BestGain' = BestGain
  BY <1>1 DEF WorstLoss, BestGain
<1>5. TypeOK'
  BY <1>1, <1>2, <1>3 DEF IInv, TypeOK
<1>6. Marked' /\ Idle' /\ CountsKept' /\ LatchKept'
  BY <1>1, <1>2, <1>4 DEF IInv, Marked, Idle, CountsKept, LatchKept
<1>7. BooksKept' /\ DayKept' /\ WeekKept'
  BY <1>1, <1>3 DEF IInv, BooksKept, DayKept, WeekKept
<1>8. FloorKept'
  <2>1. BestGain \in Int /\ balance \in Int /\ leg \in Int /\ comp.floor \in Int
    BY <1>1, StakeBounds DEF IInv, Marked, TypeOK
  <2>2. balance + f - TrailAmount <= balance - leg + BestGain - TrailAmount
    BY <1>2, <2>1, ValidRules
  <2>3. CASE comp'.floor = comp.floor
    BY <1>1, <1>3, <1>4, <2>3 DEF IInv, FloorKept
  <2>4. CASE comp'.floor = balance + f - TrailAmount
    BY <1>1, <1>3, <1>4, <2>2, <2>4 DEF FloorKept
  <2> QED
    BY <1>3, <2>3, <2>4
<1> QED
  BY <1>5, <1>6, <1>7, <1>8 DEF IInv

LEMMA MarkKeeps == ASSUME IInv, MarkBalance PROVE IInv'
<1> USE DEF position, calendar
<1>1. /\ comp' = OnEquity(comp, balance)
      /\ UNCHANGED <<risk, balance, open, stake, leg, floating, weekday, days, fired>>
  BY DEF MarkBalance
<1>2. /\ comp \in [hwm : Int, floor : Int, day_anchor : Int] /\ balance \in Int
      /\ comp.hwm - TrailAmount <= comp.floor
  BY DEF IInv, TypeOK, FloorKept
<1>3. /\ comp' \in [hwm : Int, floor : Int, day_anchor : Int]
      /\ comp'.day_anchor = comp.day_anchor
      /\ comp'.hwm - TrailAmount <= comp'.floor
      /\ comp'.floor = comp.floor \/ comp'.floor = balance - TrailAmount
  BY <1>1, <1>2, RatchetFloor
<1>4. WorstLoss' = WorstLoss /\ BestGain' = BestGain
  BY <1>1 DEF WorstLoss, BestGain
<1>5. TypeOK'
  BY <1>1, <1>3 DEF IInv, TypeOK
<1>6. Marked' /\ Idle' /\ CountsKept' /\ LatchKept'
  BY <1>1, <1>4 DEF IInv, Marked, Idle, CountsKept, LatchKept
<1>7. BooksKept' /\ DayKept' /\ WeekKept'
  BY <1>1, <1>3 DEF IInv, BooksKept, DayKept, WeekKept
<1>8. FloorKept'
  <2>1. CASE comp'.floor = comp.floor
    BY <1>1, <1>3, <1>4, <2>1 DEF IInv, FloorKept
  <2>2. CASE comp'.floor = balance - TrailAmount /\ open
    <3>1. BestGain \in Nat /\ leg \in Int /\ leg <= BestGain
      BY <2>2, StakeBounds DEF IInv, TypeOK, Marked
    <3>2. balance - TrailAmount <= balance - leg + BestGain - TrailAmount
      BY <1>2, <3>1, ValidRules
    <3> QED
      BY <1>1, <1>3, <1>4, <2>2, <3>2 DEF FloorKept
  <2>3. CASE comp'.floor = balance - TrailAmount /\ ~open
    <3>1. balance - TrailAmount < balance
      BY <1>2, ValidRules
    <3> QED
      BY <1>1, <1>3, <2>3, <3>1 DEF FloorKept
  <2> QED
    BY <1>3, <2>1, <2>2, <2>3 DEF IInv, TypeOK
<1> QED
  BY <1>5, <1>6, <1>7, <1>8 DEF IInv

LEMMA PartialKeeps ==
  ASSUME IInv, NEW x \in Outcomes, Partial(x)
  PROVE  IInv'
<1> USE DEF position, calendar
<1> DEFINE f == floating'
<1>1. /\ open /\ leg = 0 /\ leg' = x /\ f \in Outcomes /\ x + f \in Outcomes
      /\ balance' = balance + x
      /\ UNCHANGED <<risk, comp, open, stake, weekday, days, fired>>
  BY DEF Partial
<1>2. WorstLoss' = WorstLoss /\ BestGain' = BestGain
  BY <1>1 DEF WorstLoss, BestGain
<1>3. WorstLoss \in Int /\ BestGain \in Nat
  BY <1>1, StakeBounds DEF IInv, Marked
<1>4. /\ balance \in Int /\ x \in Int /\ f \in Int /\ WorstLoss <= f
      /\ WorstLoss <= x + f /\ x + f <= BestGain /\ x <= BestGain
  <2> HIDE DEF f
  <2>1. \A e \in Outcomes : e \in Int /\ WorstLoss <= e /\ e <= BestGain
    BY <1>3 DEF Outcomes
  <2> QED
    BY <1>1, <2>1 DEF IInv, TypeOK
<1>5. TypeOK'
  BY <1>1, <1>4 DEF IInv, TypeOK
<1>6. Marked' /\ Idle' /\ CountsKept' /\ LatchKept'
  BY <1>1, <1>2, <1>4 DEF IInv, Marked, Idle, CountsKept, LatchKept
<1>7. BooksKept' /\ DayKept' /\ WeekKept'
  BY <1>1, <1>4 DEF IInv, TypeOK, RiskState, BooksKept, DayKept, WeekKept
<1>8. FloorKept'
  <2>1. balance' - leg' = balance - leg
    BY <1>1, <1>4
  <2> QED
    BY <1>1, <1>2, <2>1 DEF IInv, FloorKept
<1> QED
  BY <1>5, <1>6, <1>7, <1>8 DEF IInv

\* The common part of every way out of a position.
LEMMA CloseKeeps ==
  ASSUME IInv, open, NEW STATE state, state \in {risk, LatchHardStop(risk)},
         NEW net \in Marks, NEW f \in Marks, net <= f,
         Closed(state, net), comp' \in {comp, OnEquity(comp, balance + f)},
         fired' \in {fired, state.hard_latched}
  PROVE  IInv'
<1> USE DEF position, calendar
<1>1. /\ risk' = OnTradeClosed(state, leg + net) /\ balance' = balance + net
      /\ open' = FALSE /\ stake' = 0 /\ leg' = 0 /\ floating' = 0
      /\ UNCHANGED <<weekday, days>>
  BY DEF Closed
<1>2. stake \in {Cooldown, PerTrade} /\ leg \in Int /\ balance \in Int
  BY DEF IInv, TypeOK, Marked
<1>3. BestGain \in Nat /\ BestGain <= MaxR * PerTrade /\ MaxR * PerTrade \in Nat
        /\ WorstLoss \in Int /\ WorstLoss >= 0 - (PerTrade + Slip)
  BY <1>2, StakeBounds
<1>4. net \in Int /\ WorstLoss <= leg + net /\ f \in Int /\ leg + f <= BestGain
  BY <1>2, <1>3 DEF Marks, Outcomes
<1>5. leg + net \in Int /\ leg + net >= 0 - (PerTrade + Slip)
  BY <1>2, <1>3, <1>4, ValidRules, DaysAssumption
<1>6. risk \in RiskState /\ risk.consec_losses < ConsecHalt
        /\ risk.losses_today < risk.trades_opened
  BY DEF IInv, TypeOK, Marked
<1>7. /\ state \in RiskState
      /\ state.day_realized = risk.day_realized
      /\ state.week_realized = risk.week_realized
      /\ state.consec_losses = risk.consec_losses
      /\ state.losses_today = risk.losses_today
      /\ state.trades_opened = risk.trades_opened
      /\ (state.hard_latched <=> risk.hard_latched \/ state # risk)
      /\ (risk.hard_latched => state.hard_latched)
  BY <1>6 DEF LatchHardStop, RiskState
<1>8. /\ risk'.day_realized = risk.day_realized + (leg + net)
      /\ risk'.week_realized = risk.week_realized + (leg + net)
      /\ risk'.trades_opened = risk.trades_opened
      /\ risk'.losses_today \in {risk.losses_today, risk.losses_today + 1}
      /\ risk'.hard_latched = state.hard_latched
  BY <1>1, <1>7 DEF OnTradeClosed
<1>9. risk' \in RiskState
  <2>1. Streak(state.consec_losses, leg + net) \in 0..ConsecHalt
    BY <1>5, <1>6, <1>7, ValidRules DEF RiskState, Streak
  <2>2. (IF leg + net < 0 THEN state.losses_today + 1 ELSE state.losses_today)
          \in 0..MaxEntries
    BY <1>5, <1>6, <1>7, ValidRules DEF RiskState
  <2>3. state.day_realized + (leg + net) \in Int /\ state.week_realized + (leg + net) \in Int
    BY <1>5, <1>7 DEF RiskState
  <2> QED
    BY <1>1, <1>7, <2>1, <2>2, <2>3 DEF OnTradeClosed, RiskState
<1>10. comp' \in [hwm : Int, floor : Int, day_anchor : Int]
         /\ comp'.day_anchor = comp.day_anchor
         /\ comp'.hwm - TrailAmount <= comp'.floor
         /\ (comp'.floor = comp.floor \/ comp'.floor = balance + f - TrailAmount)
  <2>1. comp \in [hwm : Int, floor : Int, day_anchor : Int]
          /\ comp.hwm - TrailAmount <= comp.floor
    BY DEF IInv, TypeOK, FloorKept
  <2>2. balance + f \in Int
    BY <1>2, <1>4 DEF IInv, TypeOK
  <2>3. CASE comp' = comp
    BY <2>1, <2>3
  <2>4. CASE comp' = OnEquity(comp, balance + f)
    <3>1. comp'.floor = comp.floor \/ comp'.floor = (balance + f) - TrailAmount
      BY <2>1, <2>2, <2>4, RatchetFloor
    <3>2. (balance + f) - TrailAmount = balance + f - TrailAmount
      BY <1>2, <1>4, ValidRules DEF IInv, TypeOK
    <3> QED
      BY <2>1, <2>2, <2>4, <3>1, <3>2, RatchetFloor
  <2> QED
    BY <2>3, <2>4
<1>11. TypeOK'
  <2>1. fired' \in BOOLEAN
    BY <1>7 DEF IInv, TypeOK, RiskState
  <2>2. weekday' \in 0..(WeekLen - 1) /\ days' \in Nat
    BY <1>1 DEF IInv, TypeOK
  <2>3. balance' \in Int /\ leg' \in Int /\ floating' \in Int
          /\ stake' \in {0, Cooldown, PerTrade}
    BY <1>1, <1>2, <1>4
  <2>4. open' \in BOOLEAN
    BY <1>1
  <2> QED
    BY <1>9, <1>10, <2>1, <2>2, <2>3, <2>4 DEF TypeOK
<1>12. Idle' /\ Marked'
  BY <1>1 DEF Idle, Marked
<1>13. CountsKept'
  BY <1>6, <1>8 DEF CountsKept, RiskState
<1>14. BooksKept'
  BY <1>1, <1>2, <1>4, <1>6, <1>8, <1>10 DEF IInv, TypeOK, BooksKept, RiskState
<1>15. DayKept' /\ WeekKept'
  BY <1>1, <1>5, <1>6, <1>8, ValidRules, DaysAssumption
  DEF IInv, DayKept, WeekKept, RiskState
<1>16. FloorKept'
  <2>1. comp.floor \in Int /\ FloorBuffer \in Int /\ TrailAmount \in Int
          /\ PerTrade \in Int /\ Slip \in Int
    BY ValidRules, DaysAssumption DEF IInv, TypeOK
  <2>2. balance - leg - FloorBuffer < balance + net
    BY <1>2, <1>4, <1>5, <2>1, TrailMargin
  <2>3. balance - leg + BestGain - TrailAmount < balance + net
    BY <1>2, <1>3, <1>4, <1>5, <2>1, TrailMargin
  <2>4. balance + f - TrailAmount < balance + net
    BY <1>2, <1>3, <1>4, <1>5, <2>1, TrailMargin
  <2>5. comp.floor < balance + net
    BY <1>2, <1>3, <1>4, <2>1, <2>2, <2>3 DEF IInv, FloorKept
  <2>6. comp'.floor < balance + net
    BY <1>10, <2>4, <2>5
  <2> QED
    BY <1>1, <1>10, <2>6 DEF FloorKept
<1>17. LatchKept'
  BY <1>1, <1>7, <1>8 DEF IInv, LatchKept
<1> QED
  BY <1>11, <1>12, <1>13, <1>14, <1>15, <1>16, <1>17 DEF IInv

LEMMA NextDayKeeps ==
  ASSUME IInv, NEW d \in 0..(WeekLen - 1), NEW new_week \in BOOLEAN,
         NextDay(d, new_week)
  PROVE  IInv'
<1> USE DEF position, calendar
<1>1. /\ ~open /\ risk' = RollToDay(risk, new_week)
      /\ weekday' = d /\ days' = days + 1 /\ fired' = FALSE
      /\ UNCHANGED <<balance, open, stake, leg, floating>> /\ leg = 0
  BY DEF NextDay, IInv, Idle
<1>2. comp' = [hwm |-> balance, floor |-> balance - TrailAmount, day_anchor |-> balance]
  BY DEF NextDay, OnDailyReset, InitialCompliance
<1>3. risk \in RiskState /\ balance \in Int
  BY DEF IInv, TypeOK
<1>4. /\ risk' \in RiskState
      /\ risk'.day_realized = 0 /\ risk'.losses_today = 0 /\ risk'.trades_opened = 0
      /\ risk'.week_realized \in {0, risk.week_realized}
  BY <1>1, <1>3, ValidRules DEF RollToDay, RiskState, CoolsDown
<1>5. TypeOK'
  <2>1. comp' \in [hwm : Int, floor : Int, day_anchor : Int]
    BY <1>2, <1>3, ValidRules
  <2>2. weekday' \in 0..(WeekLen - 1) /\ days' \in Nat
    BY <1>1 DEF IInv, TypeOK
  <2>3. balance' \in Int /\ leg' \in Int /\ floating' \in Int /\ open' \in BOOLEAN
          /\ fired' \in BOOLEAN /\ stake' \in {0, Cooldown, PerTrade}
    BY <1>1 DEF IInv, TypeOK
  <2> QED
    BY <1>4, <2>1, <2>2, <2>3 DEF TypeOK
<1>6. Idle' /\ Marked' /\ LatchKept'
  BY <1>1 DEF IInv, Idle, Marked, LatchKept
<1>7. CountsKept' /\ BooksKept'
  BY <1>1, <1>2, <1>3, <1>4 DEF CountsKept, BooksKept
<1>8. DayKept' /\ WeekKept'
  BY <1>1, <1>4, ValidRules, DaysAssumption DEF IInv, DayKept, WeekKept
<1>9. FloorKept'
  BY <1>1, <1>2, <1>3, ValidRules, TrailMargin DEF FloorKept
<1> QED
  BY <1>5, <1>6, <1>7, <1>8, <1>9 DEF IInv

LEMMA StepKept == IInv /\ [Next]_vars => IInv'
<1> SUFFICES ASSUME IInv, [Next]_vars PROVE IInv'
  OBVIOUS
<1>1. ASSUME NEW net \in Marks, NEW marked \in BOOLEAN, Exit(net, marked)
      PROVE  IInv'
  <2>1. net <= net
    <3>1. WorstLoss \in Int /\ BestGain \in Int
      BY <1>1, StakeBounds DEF IInv, Marked, Exit
    <3> QED
      BY <3>1 DEF Marks, Outcomes
  <2> QED
    BY <1>1, <2>1, CloseKeeps DEF Exit
<1>2. ASSUME NEW f \in Marks, HardStopExit(f)
      PROVE  IInv'
  <2>1. LatchHardStop(risk).hard_latched = TRUE
    BY DEF IInv, TypeOK, RiskState, LatchHardStop
  <2> QED
    BY <1>2, <2>1, CloseKeeps DEF HardStopExit
<1>3. CASE UNCHANGED vars
  BY <1>3 DEF vars, position, calendar, IInv, TypeOK, Idle, Marked, CountsKept,
     BooksKept, DayKept, WeekKept, FloorKept, LatchKept, WorstLoss, BestGain
<1> QED
  BY <1>1, <1>2, <1>3, EnterKeeps, BarKeeps, MarkKeeps, PartialKeeps,
     NextDayKeeps DEF Next

(* ------------------------------- theorems -------------------------------- *)

\* The inductive invariant holds in every reachable state.
THEOREM Inductive == Spec => []IInv
<1>1. Init => IInv
  BY InitKept
<1>2. IInv /\ [Next]_vars => IInv'
  BY StepKept
<1> QED
  BY <1>1, <1>2, PTL DEF Spec

\* The state always has its shape: in particular a day never sees more than
\* max_entries_day entries.
THEOREM TypeCorrect == Spec => []TypeOK
<1>1. IInv => TypeOK
  BY DEF IInv
<1> QED
  BY <1>1, Inductive, PTL

\* The books of the rules and of the account agree whenever the unit is flat.
THEOREM BooksAgree == Spec => []RealizedMatchesBalance
<1>1. IInv => RealizedMatchesBalance
  <2> SUFFICES ASSUME IInv, ~open PROVE risk.day_realized = balance - comp.day_anchor
    BY DEF RealizedMatchesBalance
  <2>1. risk.day_realized \in Int /\ comp.day_anchor \in Int /\ leg = 0
    BY DEF IInv, TypeOK, RiskState, Idle
  <2> QED
    BY <2>1 DEF IInv, BooksKept
<1> QED
  BY <1>1, Inductive, PTL

\* The firm's daily limit is never reached, whatever the trades do: DailyMargin
\* leaves room for the last trade above the soft stop.
THEOREM FirmLimit == Spec => []FirmLimitHolds
<1>1. IInv => FirmLimitHolds
  <2> SUFFICES ASSUME IInv PROVE FirmLimitHolds
    OBVIOUS
  <2>1. /\ risk.day_realized \in Int /\ comp.day_anchor \in Int /\ leg \in Int
        /\ balance \in Int /\ floating \in Int
        /\ PerTrade \in Nat \ {0} /\ Slip \in Nat /\ SoftStop \in Int
        /\ DailyLoss \in Nat
    BY ValidRules, DaysAssumption DEF IInv, TypeOK, RiskState
  <2>2. balance = comp.day_anchor + risk.day_realized + leg
    BY DEF IInv, BooksKept
  <2>3. 0 < DailyLoss
    BY <2>1, DailyMargin, ValidRules
  <2>4. comp.day_anchor - (balance + floating) < DailyLoss
    <3>1. CASE open
      <4>1. leg + floating >= 0 - (PerTrade + Slip)
        BY <2>1, <3>1, StakeBounds DEF IInv, Marked
      <4>2. risk.day_realized > SoftStop
        BY <3>1 DEF IInv, DayKept
      <4> QED
        BY <2>1, <2>2, <4>1, <4>2, DailyMargin
    <3>2. CASE ~open
      <4>1. floating = 0 /\ risk.day_realized > SoftStop - (PerTrade + Slip)
        BY <3>2 DEF IInv, Idle, DayKept
      <4>2. leg = 0
        BY <3>2 DEF IInv, Idle
      <4> QED
        BY <2>1, <2>2, <4>1, <4>2, DailyMargin
    <3> QED
      BY <3>1, <3>2
  <2> QED
    BY <2>1, <2>3, <2>4
    DEF FirmLimitHolds, FirmDailyBreached, FirmDailyLossUsed, Larger, equity
<1> QED
  BY <1>1, Inductive, PTL

\* Equity stays above the trailing floor all day: TrailMargin leaves room for a
\* losing trade under the buffer, and for one that first wins all it can.
THEOREM FloorHolds == Spec => []AboveFloor
<1>1. IInv => AboveFloor
  <2> SUFFICES ASSUME IInv PROVE AboveFloor
    OBVIOUS
  <2>1. /\ comp.floor \in Int /\ leg \in Int /\ balance \in Int /\ floating \in Int
        /\ PerTrade \in Nat /\ Slip \in Nat /\ TrailAmount \in Nat
        /\ FloorBuffer \in Nat
    BY ValidRules, DaysAssumption DEF IInv, TypeOK
  <2>2. CASE open
    <3>1. /\ BestGain \in Nat /\ BestGain <= MaxR * PerTrade /\ MaxR * PerTrade \in Nat
          /\ leg + floating >= 0 - (PerTrade + Slip)
      BY <2>1, <2>2, StakeBounds DEF IInv, Marked
    <3>2. balance - leg - FloorBuffer < balance + floating
      BY <2>1, <3>1, TrailMargin
    <3>3. balance - leg + BestGain - TrailAmount < balance + floating
      BY <2>1, <3>1, TrailMargin
    <3>4. \/ comp.floor <= balance - leg - FloorBuffer
          \/ comp.floor <= balance - leg + BestGain - TrailAmount
      BY <2>2 DEF IInv, FloorKept
    <3>5. balance - leg - FloorBuffer \in Int
            /\ balance - leg + BestGain - TrailAmount \in Int
      BY <2>1, <3>1
    <3> QED
      BY <2>1, <3>2, <3>3, <3>4, <3>5 DEF AboveFloor, equity
  <2>3. CASE ~open
    BY <2>1, <2>3 DEF IInv, Idle, FloorKept, AboveFloor, equity
  <2> QED
    BY <2>2, <2>3
<1> QED
  BY <1>1, Inductive, PTL

\* A week's realized loss never passes the weekly stop by more than one trade.
THEOREM WeekBounded == Spec => []WeekLossBounded
<1>1. IInv => WeekLossBounded
  BY DEF IInv, WeekKept, WeekLossBounded
<1> QED
  BY <1>1, Inductive, PTL

\* After the hard stop nothing is opened for the rest of the day.
THEOREM HardStopIsFinal == Spec => []HardStopEndsDay
<1>1. IInv => HardStopEndsDay
  BY DEF IInv, LatchKept, HardStopEndsDay
<1> QED
  BY <1>1, Inductive, PTL

\* The size of the next trade never grows but over the night after a green day.
THEOREM NeverMartingale == Spec => NoMartingale
<1> DEFINE Up == PerTradeRisk(risk)' > PerTradeRisk(risk)
<1>1. ASSUME IInv, [Next]_vars PROVE Up => days' # days /\ risk.day_realized > 0
  <2>1. risk \in RiskState /\ days \in Nat /\ Cooldown <= PerTrade
          /\ Cooldown \in Nat /\ PerTrade \in Nat
    BY <1>1, ValidRules DEF IInv, TypeOK
  <2>2. CASE risk'.cooldown_active = risk.cooldown_active
    BY <2>1, <2>2 DEF PerTradeRisk
  <2>3. ASSUME NEW d \in 0..(WeekLen - 1), NEW new_week \in BOOLEAN,
               NextDay(d, new_week)
        PROVE  Up => days' # days /\ risk.day_realized > 0
    <3>1. days' # days /\ risk'.cooldown_active = CoolsDown(risk)
      BY <2>1, <2>3 DEF NextDay, RollToDay
    <3>2. CASE risk.day_realized > 0
      BY <3>1, <3>2
    <3>3. CASE ~(risk.day_realized > 0)
      <4>1. risk.day_realized <= 0
        BY <2>1, <3>3 DEF RiskState
      <4>2. risk.cooldown_active => risk'.cooldown_active
        BY <3>1, <4>1 DEF CoolsDown
      <4> QED
        BY <2>1, <4>2 DEF PerTradeRisk
    <3> QED
      BY <3>2, <3>3
  <2>4. ASSUME Enter PROVE risk'.cooldown_active = risk.cooldown_active
    BY <2>1, <2>4 DEF Enter, OnEntryOpened, RiskState
  <2>5. ASSUME NEW state, state \in {risk, LatchHardStop(risk)}, NEW net,
               Closed(state, net)
        PROVE  risk'.cooldown_active = risk.cooldown_active
    BY <2>1, <2>5 DEF Closed, OnTradeClosed, LatchHardStop, RiskState
  <2>6. ASSUME NEW f \in Marks, NEW net \in Marks, NEW marked \in BOOLEAN,
               Exit(net, marked) \/ HardStopExit(f)
        PROVE  risk'.cooldown_active = risk.cooldown_active
    BY <2>5, <2>6 DEF Exit, HardStopExit
  <2>7. ASSUME (\E f \in Marks : Bar(f)) \/ MarkBalance
                \/ (\E x \in Outcomes : Partial(x))
                 \/ UNCHANGED vars
        PROVE  risk'.cooldown_active = risk.cooldown_active
    BY <2>7 DEF Bar, MarkBalance, Partial, vars
  <2> QED
    BY <1>1, <2>2, <2>3, <2>4, <2>6, <2>7 DEF Next
<1> QED
  BY <1>1, Inductive, PTL DEF Spec, NoMartingale
===============================================================================
