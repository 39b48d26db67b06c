------------------------------ MODULE SSREngine ------------------------------
(***************************************************************************)
(* SSREngine (core/strategy_ssr.py): one symbol, one trading day of closed *)
(* M5 bars.  It locks the Asian range and makes one attempt per direction: *)
(* a sweep of the range, a reclaim, a setup.  A short attempt is a long    *)
(* one with all prices negated.                                            *)
(***************************************************************************)
EXTENDS Integers

CONSTANTS
  AsianBars,    \* bars in the Asian window: slots 0..AsianBars-1
  EntryStart,   \* first slot of the entry window
  EntryEnd,     \* slot at which the last bar of the window closes
  MaxSlot,      \* bound: the day ends with this slot
  MaxGap,       \* bound: bars in a row that the feed may miss
  Bars,         \* bars that the feed may show, records [h, l, c, spread]
  Adrs,         \* values of adr20_pips, NoAdr for None
  Pip, RangeMin, SweepMin, StopMin, StopMax, StopBuffer,   \* PairParams
  Unit,         \* denominator of the decimals of SharedParams, which are:
  RangeMax, SweepMax, Quality, Tp1R, Tp2R,
  ReclaimBars

NoAdr == -1
MaxMissing == 2   \* of the Asian bars
Directions == {"long", "short"}

\* A day whose windows are in any other order is violated: it has no setups.
WindowsOrdered == 0 < AsianBars /\ AsianBars <= EntryStart /\ EntryStart < EntryEnd

ASSUME WindowAssumption ==
  /\ AsianBars \in Nat /\ EntryStart \in Nat /\ EntryEnd \in Nat /\ WindowsOrdered
  /\ MaxSlot \in Nat /\ MaxGap \in Nat

ASSUME PriceAssumption ==
  /\ Bars \subseteq [h : Int, l : Int, c : Int, spread : Nat]
  /\ \A b \in Bars : b.l <= b.c /\ b.c <= b.h
  /\ Adrs \subseteq Nat \union {NoAdr}

\* What PairParams and SharedParams demand.  RangeMax to Tp2R stand for the
\* decimals RangeMax / Unit and so on; nothing but its sign is asked of tp1_r.
ParamsValid ==
  /\ Pip \in Nat \ {0} /\ RangeMin \in Nat /\ SweepMin \in Nat \ {0}
  /\ StopMin \in Nat \ {0} /\ StopMax \in Nat /\ StopMin < StopMax
  /\ StopBuffer \in Nat \ {0} /\ ReclaimBars \in Nat \ {0}
  /\ Unit \in Nat \ {0}
  /\ RangeMax \in 1..Unit /\ SweepMax \in 1..Unit /\ Quality \in 1..(Unit - 1)
  /\ Tp1R \in Nat \ {0} /\ Tp2R \in Nat /\ Tp1R < Tp2R

ASSUME ParamAssumption == ParamsValid

VARIABLES
  day,       \* DayInputs: adr20_pips, window_violations
  slot,      \* of the latest bar
  asian,     \* _asian_bars: how many, their highest high and lowest low
  phase,     \* "open", "locked" (_locked) or "dead" (_dead)
  range,     \* range_high, range_low
  attempts,  \* direction -> _Attempt
  out,       \* direction -> the setup that the latest bar produced
  worst,     \* direction -> furthest price of the sweep (history)
  setups     \* direction -> setups produced today (history)

history == <<worst, setups>>
vars == <<day, slot, asian, phase, range, attempts, out, history>>

Watching == [state |-> "watching", extreme |-> 0, bars |-> 0]
Done == [state |-> "done", extreme |-> 0, bars |-> 0]
NoSetup == [ref |-> 0, sl |-> 0, tp1 |-> 0, tp2 |-> 0]
NoRange == [high |-> 0, low |-> 0]
NoBars == [n |-> 0, high |-> 0, low |-> 0]

Lower(a, b) == IF a <= b THEN a ELSE b
Higher(a, b) == IF a >= b THEN a ELSE b

\* Range and bar as a direction sees them.
FacedRange(d, r) ==
  IF d = "long" THEN r ELSE [high |-> 0 - r.low, low |-> 0 - r.high]
FacedBar(d, b) ==
  IF d = "long" THEN b
  ELSE [h |-> 0 - b.l, l |-> 0 - b.h, c |-> 0 - b.c, spread |-> b.spread]

(* ------------------ _process, for a long: r and b are faced -------------- *)

Width(r) == r.high - r.low
Pen(r, b) == r.low - b.l
Penetrates(r, p) == p >= SweepMin /\ 10 * p >= Width(r)
TooDeep(r, p) == Unit * p > SweepMax * Width(r)

\* Nothing to do: the attempt is over, or has not begun.
Idle(a, r, b) ==
  a.state = "done" \/ (a.state = "watching" /\ ~Penetrates(r, Pen(r, b)))

MutSwept(a, b) ==
  IF a.state = "watching" THEN [state |-> "swept", extreme |-> b.l, bars |-> 0]
  ELSE [state |-> "swept", extreme |-> a.extreme, bars |-> a.bars + 1]
Swept(a, b) ==
  IF a.state = "watching" THEN [state |-> "swept", extreme |-> b.l, bars |-> 0]
  ELSE [state |-> "swept", extreme |-> Lower(a.extreme, b.l), bars |-> a.bars + 1]

Inside(r, b) == b.c >= r.low + Pip
MutExpired(a) == FALSE
Expired(a) == a.bars > ReclaimBars

\* The first bar that closes inside ends the attempt, whatever its quality.
MutOver(a, r, b) == TooDeep(r, Pen(r, b)) \/ Expired(Swept(a, b))
Over(a, r, b) ==
  TooDeep(r, Pen(r, b)) \/ Inside(r, b) \/ Expired(Swept(a, b))

Process(a, r, b) ==
  IF Idle(a, r, b) THEN a ELSE IF Over(a, r, b) THEN Done ELSE Swept(a, b)

(* ------------------------------ _on_reclaim ------------------------------ *)

QualityOk(b) == Unit * b.c >= Unit * b.h - Quality * (b.h - b.l)

\* The prices of a setup are in 1/Unit.
Candidate(a, r, b) ==
  LET sl == Swept(a, b).extreme - (StopBuffer + b.spread)
      stop == b.c - sl
  IN [ref |-> Unit * b.c, sl |-> Unit * sl, tp1 |-> Unit * b.c + Tp1R * stop,
      tp2 |-> Lower(Unit * b.c + Tp2R * stop, Unit * (r.high - Pip))]

StopOk(c) == Unit * StopMin <= c.ref - c.sl /\ c.ref - c.sl <= Unit * StopMax
MutTargetsOk(c) == c.tp1 > c.ref
TargetsOk(c) == c.tp2 > c.tp1 /\ c.tp1 > c.ref

Reclaims(a, r, b) ==
  /\ ~Idle(a, r, b) /\ ~TooDeep(r, Pen(r, b)) /\ Inside(r, b)
  /\ QualityOk(b)
  /\ StopOk(Candidate(a, r, b)) /\ TargetsOk(Candidate(a, r, b))

SetupOf(a, r, b) == IF Reclaims(a, r, b) THEN Candidate(a, r, b) ELSE NoSetup

(* --------------------------------- on_bar -------------------------------- *)

InEntryWindow(s) == EntryStart <= s /\ s + 1 <= EntryEnd

Arrives(s) ==
  /\ s \in (slot + 1)..(slot + 1 + MaxGap) /\ s <= MaxSlot
  /\ slot' = s
  /\ UNCHANGED day

Silent == out' = [d \in Directions |-> NoSetup]
Untried == UNCHANGED attempts /\ Silent /\ UNCHANGED history

\* Both attempts take the bar, first long, then short; they share nothing.
Attempt(r, b) ==
  LET R(d) == FacedRange(d, r)
      B(d) == FacedBar(d, b)
  IN /\ attempts' = [d \in Directions |-> Process(attempts[d], R(d), B(d))]
     /\ out' = [d \in Directions |-> SetupOf(attempts[d], R(d), B(d))]
     /\ worst' = [d \in Directions |->
          IF Idle(attempts[d], R(d), B(d)) THEN 0
          ELSE IF attempts[d].state = "watching" THEN B(d).l
          ELSE Lower(worst[d], B(d).l)]
     /\ setups' = [d \in Directions |->
          IF out'[d] = NoSetup THEN setups[d] ELSE setups[d] + 1]

BarOfDeadDay(s) ==
  /\ Arrives(s) /\ phase = "dead"
  /\ Untried
  /\ UNCHANGED <<asian, phase, range>>

\* DST_ANOMALY, on the first bar of all.
BarRefusesDay(s) ==
  /\ Arrives(s) /\ phase # "dead" /\ day.violated
  /\ phase' = "dead"
  /\ Untried
  /\ UNCHANGED <<asian, range>>

AsianBar(s, b) ==
  /\ Arrives(s) /\ phase # "dead" /\ ~day.violated
  /\ s < AsianBars
  /\ asian' = [n |-> asian.n + 1,
               high |-> IF asian.n = 0 THEN b.h ELSE Higher(asian.high, b.h),
               low |-> IF asian.n = 0 THEN b.l ELSE Lower(asian.low, b.l)]
  /\ Untried
  /\ UNCHANGED <<phase, range>>

\* _lock_range
AsianRange == [high |-> asian.high, low |-> asian.low]
RangeOk ==
  /\ asian.n > 0 /\ AsianBars - asian.n <= MaxMissing
  /\ day.adr # NoAdr
  /\ Width(AsianRange) >= RangeMin
  /\ Unit * Width(AsianRange) <= RangeMax * day.adr

BarRefusesRange(s) ==
  /\ Arrives(s) /\ phase = "open" /\ ~day.violated
  /\ s >= AsianBars /\ ~RangeOk
  /\ phase' = "dead"
  /\ Untried
  /\ UNCHANGED <<asian, range>>

\* The bar that locks the range may already be swept with it.
BarLocksRange(s, b) ==
  /\ Arrives(s) /\ phase = "open" /\ ~day.violated
  /\ s >= AsianBars /\ RangeOk
  /\ phase' = "locked" /\ range' = AsianRange
  /\ IF InEntryWindow(s) THEN Attempt(AsianRange, b) ELSE Untried
  /\ UNCHANGED asian

EntryBar(s, b) ==
  /\ Arrives(s) /\ phase = "locked"
  /\ InEntryWindow(s)
  /\ Attempt(range, b)
  /\ UNCHANGED <<asian, phase, range>>

BarOutsideWindow(s) ==
  /\ Arrives(s) /\ phase = "locked"
  /\ ~InEntryWindow(s)
  /\ Untried
  /\ UNCHANGED <<asian, phase, range>>

(* ------------------------------ specification ---------------------------- *)

Init ==
  /\ day \in [adr : Adrs, violated : BOOLEAN]
  /\ slot = -1 /\ asian = NoBars /\ phase = "open" /\ range = NoRange
  /\ attempts = [d \in Directions |-> Watching]
  /\ out = [d \in Directions |-> NoSetup]
  /\ worst = [d \in Directions |-> 0]
  /\ setups = [d \in Directions |-> 0]

Next ==
  \E s \in 0..MaxSlot :
    \/ BarOfDeadDay(s) \/ BarRefusesDay(s)
    \/ BarRefusesRange(s) \/ BarOutsideWindow(s)
    \/ \E b \in Bars : AsianBar(s, b) \/ BarLocksRange(s, b) \/ EntryBar(s, b)

Spec == Init /\ [][Next]_vars

(* ------------------------------- properties ------------------------------ *)

Setup == [ref : Int, sl : Int, tp1 : Int, tp2 : Int]

\* Shape of the state; among others, an attempt that is still alive has seen at
\* most reclaim_bars bars since its sweep.
TypeOK ==
  /\ day \in [adr : Adrs, violated : BOOLEAN]
  /\ slot \in Int /\ asian \in [n : Nat, high : Int, low : Int]
  /\ phase \in {"open", "locked", "dead"}
  /\ range \in [high : Int, low : Int]
  /\ attempts \in [Directions -> [state : {"watching", "swept", "done"},
                                  extreme : Int, bars : 0..ReclaimBars]]
  /\ out \in [Directions -> Setup]
  /\ worst \in [Directions -> Int]
  /\ setups \in [Directions -> Nat]

\* The stop of a setup is beyond every price of the sweep by at least the
\* buffer, and both targets are ahead of it and inside the range that was
\* locked hours earlier (SPEC.md:145-146).
SetupIsSound ==
  \A d \in Directions : out[d] # NoSetup =>
    LET c == out[d]  r == FacedRange(d, range)
    IN /\ c.sl + Unit * StopBuffer <= Unit * worst[d]
       /\ c.ref < c.tp1 /\ c.tp1 < c.tp2 /\ c.tp2 < Unit * r.high
       /\ Unit * r.low < c.ref

\* With a tp1_r of at least 1 (SPEC.md:146 has 1) a bar never calls for a long
\* and a short at once.  No check in the code says so, and from
\* reclaim_quality_pct 0.5 up the quality rule allows both: it is the targets that
\* give each of them the other half of the range to cross.  The schema allows a
\* tp1_r below 1, and with it one bar can produce both setups; the shells enter
\* the first and would drop the other.
Tp1CoversStop == Tp1R >= Unit
NeverBothSides == \E d \in Directions : out[d] = NoSetup

\* One attempt per direction and day: a setup is produced at most once, and only
\* on a day whose range was complete and of a tradeable width.
OncePerDirection ==
  \A d \in Directions :
    /\ setups[d] <= 1
    /\ setups[d] = 1 =>
         /\ attempts[d].state = "done"
         /\ asian.n + MaxMissing >= AsianBars
         /\ Unit * Width(range) <= RangeMax * day.adr
==============================================================================
