------------------------- MODULE BacktestEngineProofs -------------------------
(***************************************************************************)
(* Proofs about BacktestEngine for every configuration of the rules, every *)
(* set of stops, targets and spreads, and every price path.  The centre is *)
(* the refinement: a trade never loses more than its stake and the margin  *)
(* for its costs, nor gains more than the cap, whichever way it ends, so   *)
(* every step of the loop is a step of RiskDays or none.  That takes where *)
(* the levels of a position stand to each other (Placed), how large it is  *)
(* (Sized), where a bar it survived has closed (Reached) and what TP1 has  *)
(* banked (Banked).                                                        *)
(***************************************************************************)
EXTENDS BacktestEngine, TLAPS

Position ==
  [dir : Directions \union {"none"}, entry : Int, since : Int, sl : Int,
   tp1 : Int, tp2 : Int, total : Int, lots : Int, tp1_done : BOOLEAN, r : Int]

Results ==
  [day_realized : Int, week_realized : Int, trades_opened : Int,
   consec_losses : Int, losses_today : Int,
   cooldown_active : BOOLEAN, hard_latched : BOOLEAN]

\* A price seen from the position: the higher the better.
Away(p, x) == IF p.dir = "long" THEN x ELSE 0 - x

\* The most that both fills and a gap can take from a unit of volume.
Cost == Widest + SlipIn + SlipOut + Gap + Commission

\* The levels: TP1 before TP2, and the stop one R away, or at the entry once TP1
\* is done.
Placed(p) ==
  /\ p.dir \in Directions /\ p.r \in Stops
  /\ 0 < Away(p, p.tp1) /\ Away(p, p.tp1) < Away(p, p.tp2)
  /\ Away(p, p.tp2) <= MaxR * p.r
  /\ SlipIn <= Away(p, p.entry)
  /\ Away(p, p.entry) <= IF p.dir = "long" THEN Widest + SlipIn ELSE SlipIn
  /\ Away(p, p.sl) = IF p.tp1_done THEN Away(p, p.entry) ELSE 0 - p.r

\* The volume: at most the stake is lost between reference price and stop.
Sized(p, usd) ==
  /\ p.total \in Nat \ {0} /\ p.total <= MaxLot
  /\ p.total * p.r <= usd
  /\ p.lots = IF p.tp1_done THEN p.total - Tp1Lots[p.total] ELSE p.total

\* A bar the position survived has closed short of the first stop and of TP2.
Reached(p, c) == 0 - p.r < Away(p, c) /\ Away(p, c) <= Away(p, p.tp2)

Shaped ==
  /\ phase \in {"bar", "core", "mark", "night"}
  /\ now \in 0..LastBar /\ close \in Int /\ spread \in Spreads \union {0}
  /\ pos \in Position /\ risk \in Results
  /\ balance \in Int /\ net \in Int /\ mark \in Int /\ tp1_at \in 0..LastBar

Carried ==
  ~Flat => /\ Placed(pos) /\ Sized(pos, PerTradeRisk(risk)) /\ Reached(pos, close)
           /\ pos.tp1_done /\ now > tp1_at => Away(pos, pos.entry) < Away(pos, close)

Banked ==
  /\ Flat => net = 0 /\ mark = 0
  /\ ~Flat /\ ~pos.tp1_done => net = 0
  /\ ~Flat /\ pos.tp1_done =>
       \E u \in (0 - Cost)..Away(pos, pos.tp2) : net = First * u

LateByTp1 == ~Flat /\ now >= ForcedExit => tp1_at = now

IInv ==
  /\ Shaped /\ Carried /\ Banked /\ LateByTp1
  /\ phase = "night" => Flat

(* ------------------------------ the constants ---------------------------- *)

LEMMA RulesAre ==
  /\ PerTrade \in Nat \ {0} /\ Cooldown \in Nat \ {0} /\ HardStop \in Int
BY RulesAssumption DEF ConfigValid

LEMMA WidestIs == Widest \in Spreads /\ \A u \in Spreads : u <= Widest
BY BacktestAssumption DEF Widest

LEMMA CostsAre ==
  /\ SlipIn \in Nat /\ SlipOut \in Nat /\ Commission \in Nat /\ Gap \in Nat
  /\ Widest \in Nat /\ Cost \in Nat /\ MaxLot \in Nat /\ Slip \in Nat
  /\ MaxR \in Nat \ {0} /\ MaxLot * Cost <= Slip
  /\ Spreads \subseteq Nat /\ Stops \subseteq Nat \ {0}
BY BacktestAssumption, CostMargin, WidestIs DEF Cost

LEMMA StakeIs == PerTradeRisk(risk) \in Nat \ {0}
BY RulesAre DEF PerTradeRisk

(* ------------------------------- arithmetic ------------------------------ *)

\* Multiplying by a volume keeps the order.
LEMMA Scaled ==
  ASSUME NEW n \in Nat, NEW a \in Int, NEW b \in Int, a <= b
  PROVE  n * a <= n * b /\ n * a \in Int /\ n * b \in Int
OBVIOUS

LEMMA ScaledNat == ASSUME NEW n \in Nat, NEW a \in Nat PROVE n * a \in Nat
OBVIOUS

LEMMA Multiple ==
  ASSUME NEW a \in Nat, NEW d \in Nat \ {0}
  PROVE  a \div d \in Nat /\ (a \div d) * d <= a
OBVIOUS

\* size_lots gives a volume whose loss at the stop the stake pays for.
LEMMA SizeFits ==
  ASSUME NEW usd \in Nat, NEW stop \in Nat \ {0}
  PROVE  /\ SizeLots(usd, stop) \in Nat /\ SizeLots(usd, stop) <= MaxLot
         /\ SizeLots(usd, stop) * stop <= usd
<1> DEFINE d == stop * LotStep
           q == usd \div d
           n == SizeLots(usd, stop)
<1>1. LotStep \in Nat \ {0} /\ MaxLot \in Nat
  BY BacktestAssumption
<1>2. d \in Nat \ {0}
  BY <1>1
<1>3. q \in Nat /\ q * d <= usd
  BY <1>2, Multiple
<1>4. n = Lower(MaxLot, q * LotStep)
  BY DEF SizeLots
<1> HIDE DEF q, n
<1>5. q * LotStep \in Nat
  BY <1>1, <1>3, ScaledNat
<1>6. n \in Nat /\ n <= MaxLot /\ n <= q * LotStep
  BY <1>1, <1>4, <1>5 DEF Lower
<1>7. n * stop <= usd
  <2>1. stop * n <= stop * (q * LotStep)
    BY <1>5, <1>6, Scaled
  <2>2. stop * (q * LotStep) = q * d
    BY <1>1, <1>3
  <2>3. stop * n = n * stop
    BY <1>6
  <2>4. stop * n \in Int /\ q * d \in Int
    BY <1>2, <1>3, <1>6
  <2> QED
    BY <1>3, <2>1, <2>2, <2>3, <2>4
<1> QED
  BY <1>6, <1>7 DEF n

\* What a trade of this size makes, before TP1 and after it, when no unit that TP1
\* closes makes less than its costs, no other unit less than the stop and its
\* costs, and none more than TP2.
LEMMA TradeBounds ==
  ASSUME NEW r \in Nat, NEW g \in Nat, NEW usd \in Nat, NEW first \in Nat,
         NEW rest \in Nat, NEW total \in Nat, total = first + rest, total <= MaxLot,
         total * r <= usd, g <= MaxR * r,
         NEW v \in Int, 0 - r - Cost <= v, v <= g,
         NEW u \in Int, 0 - Cost <= u, u <= g
  PROVE  /\ total * v \in (0 - (usd + Slip))..(MaxR * usd)
         /\ rest * v \in (0 - (usd + Slip))..(MaxR * usd)
         /\ first * u \in (0 - (usd + Slip))..(MaxR * usd)
         /\ first * u + rest * v \in (0 - (usd + Slip))..(MaxR * usd)
<1> DEFINE c == Cost
<1>1. /\ c \in Nat /\ MaxR \in Nat /\ Slip \in Nat /\ MaxLot \in Nat
      /\ MaxLot * c <= Slip
  BY CostsAre
<1> HIDE DEF c
<1>2. total * c <= Slip /\ total * c \in Nat
  <2>1. c * total <= c * MaxLot
    BY <1>1, Scaled
  <2> QED
    BY <1>1, <2>1
<1>3. total * g <= MaxR * usd /\ total * g \in Nat /\ MaxR * usd \in Nat
  <2>1. total * g <= total * (MaxR * r)
    BY <1>1, Scaled
  <2>2. total * (MaxR * r) = MaxR * (total * r)
    BY <1>1
  <2>3. MaxR * (total * r) <= MaxR * usd
    BY <1>1, Scaled
  <2> QED
    BY <1>1, <2>1, <2>2, <2>3
<1>4. /\ total * r = first * r + rest * r /\ total * c = first * c + rest * c
      /\ total * g = first * g + rest * g /\ total * v = first * v + rest * v
      /\ first * r \in Nat /\ first * c \in Nat /\ first * g \in Nat
      /\ rest * r \in Nat /\ rest * c \in Nat /\ rest * g \in Nat
      /\ first * u \in Int /\ first * v \in Int /\ rest * v \in Int
  BY <1>1
<1>5. ASSUME NEW n \in Nat
      PROVE  /\ 0 - n * r - n * c <= n * v /\ n * v <= n * g
             /\ 0 - n * c <= n * u /\ n * u <= n * g
  <2>1. n * (0 - r - c) <= n * v /\ n * (0 - c) <= n * u
    BY <1>1, Scaled DEF c
  <2>2. n * (0 - r - c) = 0 - n * r - n * c /\ n * (0 - c) = 0 - n * c
    BY <1>1
  <2>3. n * v <= n * g /\ n * u <= n * g
    BY Scaled
  <2> QED
    BY <2>1, <2>2, <2>3
<1>6. /\ 0 - first * r - first * c <= first * v /\ first * v <= first * g
      /\ 0 - first * c <= first * u /\ first * u <= first * g
      /\ 0 - rest * r - rest * c <= rest * v /\ rest * v <= rest * g
  BY <1>5
<1> QED
  BY <1>1, <1>2, <1>3, <1>4, <1>6

(* ---------------------------- fills and bars ----------------------------- *)

LEMMA MoveIs ==
  ASSUME pos \in Position, pos.dir \in Directions, NEW p \in Int
  PROVE  /\ Move(p) = Away(pos, p) - Away(pos, pos.entry) /\ Move(p) \in Int
         /\ Away(pos, p) \in Int /\ Away(pos, pos.entry) \in Int
BY DEF Move, Away, Long, Position

\* What a fill makes per unit of volume.
UnitNet(kind, level, bar) == Move(ExitFillPrice(kind, level, bar)) - Commission

\* The price of a fill before it slips, seen from the position.
Struck(kind, level, bar) ==
  IF kind = "sl" THEN Lower(Away(pos, level), Away(pos, bar.o)) ELSE Away(pos, level)

\* A fill loses the costs against the price it was struck at, and no more.
LEMMA UnitBounds ==
  ASSUME pos \in Position, Placed(pos), NEW kind, NEW level \in Int, NEW bar,
         bar.o \in Int, bar.spread \in Nat, bar.spread <= Widest
  PROVE  LET e == Struck(kind, level, bar)
             v == UnitNet(kind, level, bar)
         IN /\ e \in Int /\ v \in Int /\ v <= e /\ e - v <= Cost - Gap
            /\ v <= e - Away(pos, pos.entry)
            /\ e - Away(pos, pos.entry) - v <= Widest + SlipOut + Commission
<1> DEFINE e == Struck(kind, level, bar)
           p == ExitFillPrice(kind, level, bar)
<1>1. /\ SlipIn \in Nat /\ SlipOut \in Nat /\ Commission \in Nat /\ Gap \in Nat
      /\ Widest \in Nat
  BY CostsAre
<1>2. pos.dir \in Directions
  BY DEF Placed
<1>3. e \in Int /\ p \in Int
        /\ Away(pos, p) = e - SlipOut - (IF Long THEN 0 ELSE bar.spread)
  <2>1. CASE Long
    BY <1>1, <2>1 DEF Struck, ExitFillPrice, Away, Long, Lower, Larger
  <2>2. CASE ~Long
    BY <1>1, <2>2 DEF Struck, ExitFillPrice, Away, Long, Lower, Larger
  <2> QED
    BY <2>1, <2>2
<1> HIDE DEF e, p
<1>4. UnitNet(kind, level, bar) = Away(pos, p) - Away(pos, pos.entry) - Commission
  BY <1>2, <1>3, MoveIs DEF UnitNet, p
<1>5. /\ Away(pos, pos.entry) \in Int /\ SlipIn <= Away(pos, pos.entry)
      /\ Away(pos, pos.entry) <= IF Long THEN Widest + SlipIn ELSE SlipIn
  BY <1>2, <1>3, MoveIs DEF Placed, Long
<1>6. Cost - Gap = Widest + SlipIn + SlipOut + Commission
  BY <1>1 DEF Cost
<1> QED
  <2>1. CASE Long
    BY <1>1, <1>3, <1>4, <1>5, <1>6, <2>1 DEF e
  <2>2. CASE ~Long
    BY <1>1, <1>3, <1>4, <1>5, <1>6, <2>2 DEF e
  <2> QED
    BY <2>1, <2>2

LEMMA FillNetIs ==
  ASSUME pos \in Position, Placed(pos), NEW kind, NEW level \in Int, NEW bar,
         bar.o \in Int, bar.spread \in Nat, bar.spread <= Widest, NEW lots \in Nat
  PROVE  FillNet(kind, lots, level, bar) = lots * UnitNet(kind, level, bar)
<1> DEFINE m == Move(ExitFillPrice(kind, level, bar))
<1>1. Commission \in Nat /\ UnitNet(kind, level, bar) \in Int
  BY CostsAre, UnitBounds
<1>2. ExitFillPrice(kind, level, bar) \in Int
  BY CostsAre DEF ExitFillPrice, Lower, Larger
<1>3. m \in Int
  BY <1>2, MoveIs DEF Placed
<1>4. FillNet(kind, lots, level, bar) = m * lots - lots * Commission
        /\ UnitNet(kind, level, bar) = m - Commission
  BY DEF FillNet, UnitNet
<1> HIDE DEF m
<1>5. lots * (m - Commission) = m * lots - lots * Commission
  BY <1>1, <1>3
<1> QED
  BY <1>4, <1>5

\* The prices a position may meet next: after a bar that does not reach the stop
\* they lie between stop and TP2, and no open jumps further than Gap over the stop.
LEMMA BarsAre ==
  ASSUME pos \in Position, Placed(pos), close \in Int, Reached(pos, close),
         NEW bar \in BarsAfter(close)
  PROVE  /\ bar.o \in Int /\ bar.c \in Int /\ bar.spread \in Spreads
         /\ bar.spread \in Nat /\ bar.spread <= Widest
         /\ ~SlHit(bar) => /\ Away(pos, pos.sl) < Away(pos, bar.c)
                           /\ Away(pos, bar.c) <= Away(pos, pos.tp2)
         /\ 0 - pos.r - Gap <= Away(pos, bar.o)
         /\ pos.tp1_done /\ Away(pos, pos.entry) < Away(pos, close) =>
              Away(pos, pos.entry) - Gap <= Away(pos, bar.o)
<1>1. /\ pos.sl \in Int /\ pos.tp2 \in Int /\ pos.entry \in Int /\ pos.r \in Nat
      /\ pos.dir \in {"long", "short"} /\ Gap \in Nat /\ SlipIn \in Nat
  BY CostsAre DEF Position, Placed, Directions
<1>2. PICK o \in Int, c \in Int :
        /\ bar \in BarsFrom(o, c)
        /\ \/ c = pos.sl /\ o \in (close - Gap)..(close + Gap)
           \/ o = c /\ c \in Within
  <2>1. CASE \E o \in (close - Gap)..(close + Gap) : bar \in BarsFrom(o, pos.sl)
    BY <1>1, <2>1
  <2>2. CASE \E c \in Within : bar \in BarsFrom(c, c)
    <3>1. Within \subseteq Int
      BY DEF Within
    <3> QED
      BY <2>2, <3>1
  <2>3. \/ \E o \in (close - Gap)..(close + Gap) : bar \in BarsFrom(o, pos.sl)
        \/ \E c \in Within : bar \in BarsFrom(c, c)
    BY DEF BarsAfter
  <2> QED
    BY <2>1, <2>2, <2>3
<1>3. /\ bar.o = o /\ bar.c = c /\ bar.spread \in Spreads
      /\ bar.l = Lower(o, c) \/ (bar.l \in Levels /\ bar.l < Lower(o, c))
      /\ bar.h = Larger(o, c) \/ (bar.h \in Levels /\ bar.h > Larger(o, c))
  BY <1>2 DEF BarsFrom
<1>4. \A x \in Levels : x \in Int
  BY <1>1 DEF Levels, Position
<1>5. /\ bar.l \in Int /\ bar.l <= o /\ bar.l <= c
      /\ bar.h \in Int /\ bar.h >= o /\ bar.h >= c
  <2>1. Lower(o, c) \in Int /\ Lower(o, c) <= o /\ Lower(o, c) <= c
    BY DEF Lower
  <2>2. Larger(o, c) \in Int /\ Larger(o, c) >= o /\ Larger(o, c) >= c
    BY DEF Larger
  <2>3. bar.l \in Int /\ bar.l <= Lower(o, c)
    BY <1>3, <1>4, <2>1
  <2>4. bar.h \in Int /\ bar.h >= Larger(o, c)
    BY <1>3, <1>4, <2>2
  <2> QED
    BY <2>1, <2>2, <2>3, <2>4
<1>6. bar.spread \in Nat /\ bar.spread <= Widest
  BY <1>3, WidestIs, CostsAre
<1>7. ASSUME ~SlHit(bar)
      PROVE  Away(pos, pos.sl) < Away(pos, bar.c) /\ Away(pos, bar.c) <= Away(pos, pos.tp2)
  <2>1. CASE pos.dir = "long"
    BY <1>1, <1>2, <1>3, <1>5, <1>7, <2>1 DEF SlHit, Long, Away, Within, Lower, Larger
  <2>2. CASE pos.dir = "short"
    BY <1>1, <1>2, <1>3, <1>5, <1>7, <2>2 DEF SlHit, Long, Away, Within, Lower, Larger
  <2> QED
    BY <1>1, <2>1, <2>2
<1>8. /\ 0 < Away(pos, pos.tp2) /\ SlipIn <= Away(pos, pos.entry)
      /\ Away(pos, pos.sl) = IF pos.tp1_done THEN Away(pos, pos.entry) ELSE 0 - pos.r
      /\ 0 - pos.r < Away(pos, close) /\ Away(pos, close) <= Away(pos, pos.tp2)
  BY DEF Placed, Reached, Position, Away
<1>9. \/ Away(pos, close) - Gap <= Away(pos, o)
      \/ /\ o \in Within
         /\ Lower(Away(pos, pos.sl), Away(pos, pos.tp2)) <= Away(pos, o)
  <2>1. CASE pos.dir = "long"
    BY <1>1, <1>2, <2>1 DEF Away, Within, Lower, Larger
  <2>2. CASE pos.dir = "short"
    BY <1>1, <1>2, <2>2 DEF Away, Within, Lower, Larger
  <2> QED
    BY <1>1, <2>1, <2>2
<1>10. /\ Away(pos, o) \in Int /\ Away(pos, close) \in Int /\ Away(pos, pos.sl) \in Int
       /\ Away(pos, pos.tp2) \in Int /\ Away(pos, pos.entry) \in Int
  BY <1>1, <1>2 DEF Away
<1>11. 0 - pos.r - Gap <= Away(pos, o)
  BY <1>1, <1>8, <1>9, <1>10 DEF Lower
<1>12. pos.tp1_done /\ Away(pos, pos.entry) < Away(pos, close) =>
         Away(pos, pos.entry) - Gap <= Away(pos, o)
  BY <1>1, <1>8, <1>9, <1>10 DEF Lower
<1> QED
  BY <1>2, <1>3, <1>6, <1>7, <1>11, <1>12

(* -------------------------------- the steps ------------------------------ *)

LEMMA InitKept == Init => IInv
<1> SUFFICES ASSUME Init PROVE IInv
  OBVIOUS
<1>1. /\ phase = "bar" /\ now = 0 /\ close = 0 /\ spread = 0 /\ pos = NoPosition
      /\ net = 0 /\ mark = 0 /\ tp1_at = 0 /\ balance = 0 /\ risk = InitialRisk
  BY DEF Init
<1>2. risk \in Results
  BY <1>1 DEF InitialRisk, Results
<1>3. pos \in Position /\ Flat
  BY <1>1 DEF NoPosition, Position, Flat
<1>4. 0 \in 0..LastBar
  BY BacktestAssumption
<1>5. Shaped
  BY <1>1, <1>2, <1>3, <1>4 DEF Shaped
<1> QED
  BY <1>1, <1>3, <1>5 DEF IInv, Carried, Banked, LateByTp1

\* What the invariant says of an open position.
LEMMA Open ==
  ASSUME IInv, ~Flat
  PROVE  /\ pos \in Position /\ Placed(pos) /\ Sized(pos, PerTradeRisk(risk))
         /\ Reached(pos, close) /\ close \in Int /\ net \in Int /\ balance \in Int
         /\ pos.r \in Nat \ {0} /\ First \in Nat /\ Rest \in Nat /\ pos.lots \in Nat
         /\ pos.total \in Nat \ {0} /\ pos.total = First + Rest
         /\ pos.lots = IF pos.tp1_done THEN Rest ELSE pos.total
         /\ Away(pos, pos.tp2) \in Nat /\ Away(pos, pos.tp1) \in Nat
         /\ Away(pos, pos.tp1) <= Away(pos, pos.tp2)
         /\ Away(pos, pos.entry) \in Nat /\ Away(pos, pos.entry) <= Widest + SlipIn
<1>1. /\ pos \in Position /\ Placed(pos) /\ Sized(pos, PerTradeRisk(risk))
      /\ Reached(pos, close) /\ close \in Int /\ net \in Int /\ balance \in Int
  BY DEF IInv, Shaped, Carried
<1>2. pos.r \in Nat \ {0} /\ pos.total \in Nat \ {0}
  BY <1>1, CostsAre DEF Placed, Sized
<1>3. pos.total = First + Rest /\ First \in Nat /\ Rest \in Nat
  <2>1. pos.total \in 0..MaxLot
    BY <1>1, <1>2, CostsAre DEF Sized
  <2>2. First \in Nat /\ First <= pos.total
    BY <2>1, BacktestAssumption DEF First
  <2> QED
    BY <1>2, <2>2 DEF Rest
<1>4. pos.lots \in Nat /\ pos.lots = IF pos.tp1_done THEN Rest ELSE pos.total
  BY <1>1, <1>2, <1>3 DEF Sized, Rest, First
<1>5. /\ Away(pos, pos.tp2) \in Int /\ Away(pos, pos.tp1) \in Int
      /\ Away(pos, pos.entry) \in Int
  BY <1>1 DEF Away, Position
<1>6. /\ Away(pos, pos.tp2) \in Nat /\ Away(pos, pos.tp1) \in Nat
      /\ Away(pos, pos.tp1) <= Away(pos, pos.tp2)
        /\ Away(pos, pos.entry) \in Nat /\ Away(pos, pos.entry) <= Widest + SlipIn
  BY <1>1, <1>2, <1>5, CostsAre DEF Placed
<1> QED
  BY <1>1, <1>2, <1>3, <1>4, <1>6

\* TradeBounds for the open position: what it may still make, with what TP1 banked.
LEMMA TradeIs ==
  ASSUME IInv, ~Flat, NEW v \in Int,
         0 - pos.r - Cost <= v, v <= Away(pos, pos.tp2)
  PROVE  LET lowest == 0 - (PerTradeRisk(risk) + Slip)
             highest == MaxR * PerTradeRisk(risk)
         IN /\ pos.lots * v \in lowest..highest
            /\ net + pos.lots * v \in lowest..highest
            /\ \A u \in (0 - Cost)..Away(pos, pos.tp2) :
                 /\ First * u \in lowest..highest /\ Rest * v \in lowest..highest
                 /\ First * u + Rest * v \in lowest..highest
<1> DEFINE r == pos.r
           g == Away(pos, pos.tp2)
           usd == PerTradeRisk(risk)
           first == First
           rest == Rest
           total == pos.total
           lowest == 0 - (usd + Slip)
           highest == MaxR * usd
<1>1. /\ r \in Nat /\ g \in Nat /\ usd \in Nat /\ first \in Nat /\ rest \in Nat
      /\ total \in Nat /\ total = first + rest /\ total <= MaxLot /\ total * r <= usd
      /\ g <= MaxR * r
  BY Open, StakeIs DEF Placed, Sized
<1>2. pos.lots = IF pos.tp1_done THEN rest ELSE total
  BY Open
<1>3. /\ ~pos.tp1_done => net = 0
      /\ pos.tp1_done => \E u \in (0 - Cost)..g : net = first * u
  BY DEF IInv, Banked
<1>4. Cost \in Nat
  BY CostsAre
<1>5. v \in Int /\ 0 - r - Cost <= v /\ v <= g
  OBVIOUS
<1> HIDE DEF r, g, usd, first, rest, total
<1>6. ASSUME NEW u \in (0 - Cost)..g
      PROVE  /\ total * v \in lowest..highest /\ rest * v \in lowest..highest
             /\ first * u \in lowest..highest
             /\ first * u + rest * v \in lowest..highest
  <2>1. u \in Int /\ 0 - Cost <= u /\ u <= g
    BY <1>1, <1>4
  <2> QED
    BY <1>1, <1>5, <2>1, TradeBounds
<1>7. 0 \in (0 - Cost)..g
  BY <1>1, <1>4
<1>8. pos.lots * v \in lowest..highest
  BY <1>2, <1>6, <1>7
<1>9. net + pos.lots * v \in lowest..highest
  <2>1. CASE pos.tp1_done
    BY <1>2, <1>3, <1>6, <2>1
  <2>2. CASE ~pos.tp1_done
    <3>1. total * v \in Int
      BY <1>1, <1>5
    <3> QED
      BY <1>2, <1>3, <1>6, <1>7, <2>2, <3>1
  <2> QED
    BY <2>1, <2>2
<1> QED
  BY <1>6, <1>8, <1>9 DEF r, g, usd, first, rest

\* After a closed trade there is no position and the account is whole.
LEMMA CloseKeeps ==
  ASSUME IInv, NEW x \in Int, NEW STATE state, state \in {risk, LatchHardStop(risk)},
         CloseTrade(x, state), phase' \in {"bar", "core", "night"},
         now' \in 0..LastBar, spread' \in Spreads \union {0}
  PROVE  IInv'
<1>1. /\ balance' = balance + x /\ risk' = OnTradeClosed(state, net + x)
      /\ pos' = NoPosition /\ net' = 0 /\ mark' = 0 /\ tp1_at' = 0 /\ close' = 0
  BY DEF CloseTrade
<1>2. risk \in Results /\ balance \in Int /\ net \in Int
  BY DEF IInv, Shaped
<1>3. state \in Results
  BY <1>2 DEF LatchHardStop, Results
<1>4. risk' \in Results
  <2>1. Streak(state.consec_losses, net + x) \in Int
    BY <1>2, <1>3 DEF Streak, Results
  <2> QED
    BY <1>1, <1>2, <1>3, <2>1 DEF OnTradeClosed, Results
<1>5. pos' \in Position /\ Flat'
  BY <1>1 DEF NoPosition, Position, Flat
<1>6. 0 \in 0..LastBar
  BY BacktestAssumption
<1>7. Shaped'
  BY <1>1, <1>2, <1>4, <1>5, <1>6 DEF Shaped
<1> QED
  BY <1>1, <1>5, <1>7 DEF IInv, Carried, Banked, LateByTp1

(* ------------------------------- outcomes -------------------------------- *)

\* What RiskDays lets a trade make at once, or in all.
Bounds == (0 - (PerTradeRisk(risk) + Slip))..(MaxR * PerTradeRisk(risk))

\* What the rest may lose against the entry: a gap and its costs.
Toll == Gap + Widest + SlipOut + Commission

LEMMA BoundsAreInts == Bounds \subseteq Int
BY StakeIs, CostsAre DEF Bounds

\* A fill makes at least the stop and its costs, at most TP2, and after TP1 at
\* least the toll, when it was struck inside a gap of the level that matters.
LEMMA UnitIn ==
  ASSUME IInv, ~Flat, NEW kind, NEW level \in Int, NEW bar,
         bar.o \in Int, bar.spread \in Nat, bar.spread <= Widest,
         0 - pos.r - Gap <= Struck(kind, level, bar),
         \/ Struck(kind, level, bar) <= Away(pos, pos.tp2)
         \/ Struck(kind, level, bar) <= Away(pos, pos.entry)
  PROVE  LET v == UnitNet(kind, level, bar)
         IN /\ v \in Int /\ 0 - pos.r - Cost <= v /\ v <= Away(pos, pos.tp2)
            /\ Away(pos, pos.entry) - Gap <= Struck(kind, level, bar) => 0 - Toll <= v
<1> DEFINE e == Struck(kind, level, bar)
           v == UnitNet(kind, level, bar)
<1>1. pos \in Position /\ Placed(pos) /\ pos.r \in Nat
        /\ Away(pos, pos.tp2) \in Nat /\ Away(pos, pos.entry) \in Nat
  BY Open
<1>2. /\ e \in Int /\ v \in Int /\ v <= e /\ e - v <= Cost - Gap
      /\ v <= e - Away(pos, pos.entry)
      /\ e - Away(pos, pos.entry) - v <= Widest + SlipOut + Commission
  BY <1>1, UnitBounds
<1>3. Cost \in Nat /\ Gap \in Nat /\ Widest \in Nat /\ SlipOut \in Nat /\ Commission \in Nat
  BY CostsAre
<1>4. 0 - pos.r - Gap <= e /\ (e <= Away(pos, pos.tp2) \/ e <= Away(pos, pos.entry))
  OBVIOUS
<1> HIDE DEF e, v
<1>5. 0 - pos.r - Cost <= v /\ v <= Away(pos, pos.tp2)
  BY <1>1, <1>2, <1>3, <1>4
<1>6. Away(pos, pos.entry) - Gap <= e => 0 - Toll <= v
  BY <1>1, <1>2, <1>3 DEF Toll
<1> QED
  BY <1>2, <1>5, <1>6 DEF e, v

\* So does the whole of what is left, alone and with what TP1 banked.
LEMMA FillIn ==
  ASSUME IInv, ~Flat, NEW kind, NEW level \in Int, NEW bar,
         bar.o \in Int, bar.spread \in Nat, bar.spread <= Widest,
         0 - pos.r - Gap <= Struck(kind, level, bar),
         \/ Struck(kind, level, bar) <= Away(pos, pos.tp2)
         \/ Struck(kind, level, bar) <= Away(pos, pos.entry)
  PROVE  LET x == FillNet(kind, pos.lots, level, bar)
         IN /\ x \in Bounds /\ net + x \in Bounds
            /\ pos.tp1_done /\ Away(pos, pos.entry) - Gap <= Struck(kind, level, bar)
                 => 0 - Rest * Toll <= x
<1> DEFINE v == UnitNet(kind, level, bar)
           e == Struck(kind, level, bar)
           x == FillNet(kind, pos.lots, level, bar)
<1>1. /\ v \in Int /\ 0 - pos.r - Cost <= v /\ v <= Away(pos, pos.tp2)
      /\ Away(pos, pos.entry) - Gap <= e => 0 - Toll <= v
  BY UnitIn
<1>2. x = pos.lots * v
  BY Open, FillNetIs
<1> HIDE DEF v, e, x
<1>3. x \in Bounds /\ net + x \in Bounds
  BY <1>1, <1>2, TradeIs DEF Bounds
<1>4. ASSUME pos.tp1_done, Away(pos, pos.entry) - Gap <= e
      PROVE  0 - Rest * Toll <= x
  <2>1. pos.lots = Rest /\ Rest \in Nat /\ Toll \in Nat
    BY <1>4, Open, CostsAre DEF Toll
  <2>2. Rest * (0 - Toll) <= Rest * v
    BY <1>1, <1>4, <2>1, Scaled
  <2>3. Rest * (0 - Toll) = 0 - Rest * Toll
    BY <2>1
  <2> QED
    BY <1>2, <2>1, <2>2, <2>3
<1> QED
  BY <1>3, <1>4 DEF x, e

\* Every way a bar has of closing a trade.
LEMMA BarCloses ==
  ASSUME IInv, ~Flat, NEW t \in 1..LastBar, NEW bar \in BarsAfter(close),
         StopLoss(t, bar) \/ TakeTp2(t, bar) \/ ExitAtClose(t, bar)
  PROVE  \E x \in Bounds :
           /\ net + x \in Bounds /\ CloseTrade(x, risk)
           /\ pos.tp1_done /\ now > tp1_at => 0 - Rest * Toll <= x
<1>1. /\ pos \in Position /\ Placed(pos) /\ Reached(pos, close) /\ close \in Int
      /\ pos.r \in Nat \ {0} /\ pos.sl \in Int /\ pos.tp1 \in Int /\ pos.tp2 \in Int
      /\ First \in Nat /\ Rest \in Nat /\ pos.total = First + Rest
      /\ pos.lots = IF pos.tp1_done THEN Rest ELSE pos.total
      /\ Away(pos, pos.tp2) \in Nat /\ Away(pos, pos.entry) \in Nat
      /\ Away(pos, pos.tp1) \in Nat /\ Away(pos, pos.tp1) <= Away(pos, pos.tp2)
  BY Open DEF Position
<1>2. /\ bar.o \in Int /\ bar.c \in Int /\ bar.spread \in Nat /\ bar.spread <= Widest
      /\ ~SlHit(bar) => /\ Away(pos, pos.sl) < Away(pos, bar.c)
                        /\ Away(pos, bar.c) <= Away(pos, pos.tp2)
      /\ 0 - pos.r - Gap <= Away(pos, bar.o)
      /\ pos.tp1_done /\ Away(pos, pos.entry) < Away(pos, close) =>
           Away(pos, pos.entry) - Gap <= Away(pos, bar.o)
  BY <1>1, BarsAre
<1>3. /\ Away(pos, pos.sl) = IF pos.tp1_done THEN Away(pos, pos.entry) ELSE 0 - pos.r
      /\ Away(pos, close) <= Away(pos, pos.tp2)
  BY <1>1 DEF Placed, Reached
<1>4. Gap \in Nat /\ Cost \in Nat
  BY CostsAre
<1>5. pos.tp1_done /\ now > tp1_at => Away(pos, pos.entry) < Away(pos, close)
  BY DEF IInv, Carried
<1>6. /\ Away(pos, bar.o) \in Int /\ Away(pos, bar.c) \in Int
      /\ Away(pos, pos.sl) \in Int /\ Away(pos, close) \in Int
  BY <1>1, <1>2 DEF Away
<1>7. CASE StopLoss(t, bar)
  <2> DEFINE e == Struck("sl", pos.sl, bar)
  <2>1. e = Lower(Away(pos, pos.sl), Away(pos, bar.o))
    BY DEF Struck
  <2> HIDE DEF e
  <2>2. 0 - pos.r - Gap <= e /\ (e <= Away(pos, pos.tp2) \/ e <= Away(pos, pos.entry))
    BY <1>1, <1>2, <1>3, <1>4, <1>6, <2>1 DEF Lower
  <2>3. pos.tp1_done /\ now > tp1_at => Away(pos, pos.entry) - Gap <= e
    BY <1>1, <1>2, <1>3, <1>4, <1>5, <1>6, <2>1 DEF Lower
  <2>4. CloseTrade(FillNet("sl", pos.lots, pos.sl, bar), risk)
    BY <1>7 DEF StopLoss
  <2> QED
    BY <1>1, <1>2, <2>2, <2>3, <2>4, FillIn DEF e
<1>8. CASE TakeTp2(t, bar) /\ pos.tp1_done
  <2>1. Struck("tp2", pos.tp2, bar) = Away(pos, pos.tp2)
    BY DEF Struck
  <2>2. pos.lots - 0 = pos.lots
    BY <1>1
  <2>3. CloseTrade(0 + FillNet("tp2", pos.lots, pos.tp2, bar), risk)
    BY <1>8, <2>2 DEF TakeTp2
  <2>4. LET x == FillNet("tp2", pos.lots, pos.tp2, bar)
        IN /\ x \in Bounds /\ net + x \in Bounds
           /\ pos.tp1_done /\ now > tp1_at => 0 - Rest * Toll <= x
    BY <1>1, <1>2, <1>3, <1>4, <1>5, <1>6, <2>1, FillIn
  <2>5. FillNet("tp2", pos.lots, pos.tp2, bar) \in Int
    BY <2>4, BoundsAreInts
  <2>6. 0 + FillNet("tp2", pos.lots, pos.tp2, bar) = FillNet("tp2", pos.lots, pos.tp2, bar)
    BY <2>5
  <2> QED
    BY <2>3, <2>4, <2>6
<1>9. CASE TakeTp2(t, bar) /\ ~pos.tp1_done
  <2> DEFINE u == UnitNet("tp1", pos.tp1, bar)
             v == UnitNet("tp2", pos.tp2, bar)
             x == First * u + Rest * v
  <2>1. Struck("tp1", pos.tp1, bar) = Away(pos, pos.tp1) /\ Struck("tp2", pos.tp2, bar) = Away(pos, pos.tp2)
    BY <1>3 DEF Struck
  <2>2. u \in Int /\ Away(pos, pos.tp1) - u <= Cost - Gap /\ u <= Away(pos, pos.tp1)
    BY <1>1, <1>2, <1>4, <2>1, UnitBounds
  <2>3. v \in Int /\ 0 - pos.r - Cost <= v /\ v <= Away(pos, pos.tp2)
    BY <1>1, <1>2, <1>4, <2>1, UnitIn
  <2>4. FillNet("tp1", First, pos.tp1, bar) = First * u /\ FillNet("tp2", Rest, pos.tp2, bar) = Rest * v
    BY <1>1, <1>2, FillNetIs
  <2>5. pos.lots - First = Rest /\ (First = 0 => First * u = 0)
    BY <1>1, <1>9, <2>2
  <2>6. CloseTrade(x, risk)
    BY <1>1, <1>9, <2>4, <2>5 DEF TakeTp2
  <2> HIDE DEF u, v
  <2>7. u \in (0 - Cost)..Away(pos, pos.tp2)
    BY <1>1, <1>4, <2>2
  <2>8. x \in Bounds
    BY <2>3, <2>7, TradeIs DEF Bounds
  <2> HIDE DEF x
  <2>9. net + x = x
    BY <1>9, <2>8, BoundsAreInts DEF IInv, Banked
  <2> QED
    BY <1>9, <2>6, <2>8, <2>9
<1>10. CASE ExitAtClose(t, bar)
  <2>1. Struck("forced", bar.c, bar) = Away(pos, bar.c) /\ ~SlHit(bar)
          /\ CloseTrade(FillNet("forced", pos.lots, bar.c, bar), risk)
    BY <1>10 DEF Struck, ExitAtClose
  <2>2. 0 - pos.r - Gap <= Away(pos, bar.c) /\ Away(pos, bar.c) <= Away(pos, pos.tp2)
    BY <1>1, <1>2, <1>3, <1>4, <1>6, <2>1
  <2>3. pos.tp1_done => Away(pos, pos.entry) - Gap <= Away(pos, bar.c)
    BY <1>1, <1>2, <1>3, <1>4, <1>6, <2>1
  <2> QED
    BY <1>1, <1>2, <2>1, <2>2, <2>3, FillIn
<1> QED
  BY <1>7, <1>8, <1>9, <1>10

\* The forced closes at the last price: the hard stop, and the end of the feed.
LEMMA LastFillIs ==
  ASSUME IInv, ~Flat
  PROVE  LET x == FillNet("forced", pos.lots, close, LastFill)
         IN /\ x \in Bounds /\ net + x \in Bounds /\ x <= Floating
            /\ pos.tp1_done /\ now > tp1_at => 0 - Rest * Toll <= x
<1> DEFINE x == FillNet("forced", pos.lots, close, LastFill)
           e == Struck("forced", close, LastFill)
           v == UnitNet("forced", close, LastFill)
<1>1. /\ pos \in Position /\ Placed(pos) /\ close \in Int /\ pos.r \in Nat
      /\ pos.lots \in Nat /\ Away(pos, pos.tp2) \in Nat /\ Away(pos, pos.entry) \in Nat
      /\ 0 - pos.r < Away(pos, close) /\ Away(pos, close) <= Away(pos, pos.tp2)
  BY Open DEF Reached
<1>2. LastFill.o \in Int /\ LastFill.spread \in Nat /\ LastFill.spread <= Widest
  <2>1. spread \in Nat /\ spread <= Widest
    BY WidestIs, CostsAre DEF IInv, Shaped
  <2> QED
    BY <1>1, <2>1 DEF LastFill
<1>3. e = Away(pos, close) /\ Gap \in Nat
  BY CostsAre DEF Struck
<1>4. Away(pos, close) \in Int /\ Move(close) = Away(pos, close) - Away(pos, pos.entry)
        /\ Move(close) \in Int
  BY <1>1, MoveIs DEF Placed
<1>5. 0 - pos.r - Gap <= e /\ e <= Away(pos, pos.tp2)
  BY <1>1, <1>3, <1>4
<1>6. pos.tp1_done /\ now > tp1_at => Away(pos, pos.entry) - Gap <= e
  BY <1>1, <1>3, <1>4 DEF IInv, Carried
<1>7. /\ x \in Bounds /\ net + x \in Bounds
      /\ pos.tp1_done /\ now > tp1_at => 0 - Rest * Toll <= x
  BY <1>1, <1>2, <1>5, <1>6, FillIn
<1>8. x <= Floating
  <2>1. v \in Int /\ v <= Move(close)
    BY <1>1, <1>2, <1>3, <1>4, UnitBounds
  <2>2. x = pos.lots * v
    BY <1>1, <1>2, FillNetIs
  <2>3. pos.lots * v <= pos.lots * Move(close)
    BY <1>1, <1>4, <2>1, Scaled
  <2>4. Floating = Move(close) * pos.lots
    BY DEF Floating
  <2>5. Move(close) * pos.lots = pos.lots * Move(close)
    BY <1>1, <1>4
  <2> QED
    BY <2>2, <2>3, <2>4, <2>5
<1> QED
  BY <1>7, <1>8

\* The mark of an open position is an outcome too.
LEMMA FloatingIn ==
  ASSUME IInv, ~Flat PROVE Floating \in Bounds /\ net + Floating \in Bounds
<1>1. /\ pos \in Position /\ Placed(pos) /\ close \in Int /\ pos.r \in Nat
      /\ pos.lots \in Nat /\ Away(pos, pos.tp2) \in Nat /\ Away(pos, pos.entry) \in Nat
      /\ Away(pos, pos.entry) <= Widest + SlipIn
      /\ 0 - pos.r < Away(pos, close) /\ Away(pos, close) <= Away(pos, pos.tp2)
  BY Open DEF Reached
<1>2. Move(close) = Away(pos, close) - Away(pos, pos.entry) /\ Move(close) \in Int
        /\ Away(pos, close) \in Int
  BY <1>1, MoveIs DEF Placed
<1>3. 0 - pos.r - Cost <= Move(close) /\ Move(close) <= Away(pos, pos.tp2)
  BY <1>1, <1>2, CostsAre DEF Cost
<1>4. Floating = pos.lots * Move(close)
  BY <1>1, <1>2 DEF Floating
<1> QED
  BY <1>2, <1>3, <1>4, TradeIs DEF Bounds

\* What TP1 banks, and the mark of the rest.
LEMMA Tp1Is ==
  ASSUME IInv, ~Flat, NEW t \in 1..LastBar, NEW bar \in BarsAfter(close), TakeTp1(t, bar)
  PROVE  /\ net = 0 /\ ~pos.tp1_done
         /\ \E u \in (0 - Cost)..Away(pos, pos.tp2) : net' = First * u
         /\ net' \in Bounds /\ mark' \in Bounds /\ net' + mark' \in Bounds
         /\ balance' = balance + net'
         /\ pos' = [pos EXCEPT !.lots = Rest, !.tp1_done = TRUE, !.sl = pos.entry]
         /\ tp1_at' = t /\ close' = bar.c /\ close' \in Int
         /\ Away(pos, pos.sl) < Away(pos, bar.c) /\ Away(pos, bar.c) <= Away(pos, pos.tp2)
<1> DEFINE u == UnitNet("tp1", pos.tp1, bar)
           v == Move(bar.c)
<1>1. /\ pos \in Position /\ Placed(pos) /\ Reached(pos, close) /\ close \in Int
      /\ pos.r \in Nat \ {0} /\ pos.tp1 \in Int /\ First \in Nat /\ Rest \in Nat
      /\ pos.total = First + Rest /\ pos.lots = IF pos.tp1_done THEN Rest ELSE pos.total
      /\ Away(pos, pos.tp2) \in Nat /\ Away(pos, pos.entry) \in Nat
      /\ Away(pos, pos.entry) <= Widest + SlipIn
      /\ Away(pos, pos.tp1) \in Nat /\ Away(pos, pos.tp1) <= Away(pos, pos.tp2)
  BY Open DEF Position
<1>2. ~SlHit(bar) /\ ~pos.tp1_done
  BY DEF TakeTp1, Tp1Hit
<1>3. /\ bar.o \in Int /\ bar.c \in Int /\ bar.spread \in Nat /\ bar.spread <= Widest
      /\ Away(pos, pos.sl) < Away(pos, bar.c) /\ Away(pos, bar.c) <= Away(pos, pos.tp2)
  BY <1>1, <1>2, BarsAre
<1>4. net = 0 /\ Away(pos, pos.sl) = 0 - pos.r
  BY <1>1, <1>2 DEF IInv, Banked, Placed
<1>5. Struck("tp1", pos.tp1, bar) = Away(pos, pos.tp1)
  BY <1>1 DEF Struck
<1>6. Gap \in Nat /\ Cost \in Nat /\ Widest + SlipIn \in Nat /\ Widest + SlipIn <= Cost
  BY CostsAre DEF Cost
<1>7. u \in Int /\ 0 - Cost <= u /\ u <= Away(pos, pos.tp2)
  <2>1. u \in Int /\ u <= Struck("tp1", pos.tp1, bar)
          /\ Struck("tp1", pos.tp1, bar) - u <= Cost - Gap
    BY <1>1, <1>3, UnitBounds
  <2> HIDE DEF u
  <2> QED
    BY <1>1, <1>5, <1>6, <2>1
<1>8. FillNet("tp1", First, pos.tp1, bar) = First * u
  BY <1>1, <1>3, FillNetIs
<1>9. v = Away(pos, bar.c) - Away(pos, pos.entry) /\ v \in Int /\ Away(pos, bar.c) \in Int
  BY <1>1, <1>3, MoveIs DEF Placed
<1> HIDE DEF u, v
<1>10. u \in (0 - Cost)..Away(pos, pos.tp2)
  BY <1>1, <1>6, <1>7
<1>11. 0 - pos.r - Cost <= v /\ v <= Away(pos, pos.tp2)
  BY <1>1, <1>3, <1>4, <1>6, <1>9
<1>12. First * u \in Bounds /\ Rest * v \in Bounds /\ First * u + Rest * v \in Bounds
  BY <1>9, <1>10, <1>11, TradeIs DEF Bounds
<1>13. pos.lots - First = Rest
  BY <1>1, <1>2
<1>14. /\ net' = 0 + First * u /\ mark' = v * Rest /\ balance' = balance + First * u
       /\ pos' = [pos EXCEPT !.lots = @ - First, !.tp1_done = TRUE, !.sl = pos.entry]
       /\ tp1_at' = t /\ close' = bar.c
  BY <1>4, <1>8, <1>13 DEF TakeTp1, v
<1>15. net' = First * u /\ mark' = Rest * v
  <2>1. First * u \in Int /\ Rest \in Int /\ v \in Int
    BY <1>1, <1>7, <1>9
  <2>2. \A y \in Int : 0 + y = y
    OBVIOUS
  <2>3. v * Rest = Rest * v
    BY <2>1
  <2> QED
    BY <1>14, <2>1, <2>2, <2>3
<1> QED
  BY <1>2, <1>3, <1>4, <1>10, <1>12, <1>13, <1>14, <1>15

(* ---------------------------- the steps keep it -------------------------- *)

LEMMA Tp1Keeps ==
  ASSUME IInv, ~Flat, NEW t \in 1..LastBar, NEW bar \in BarsAfter(close), TakeTp1(t, bar)
  PROVE  IInv'
<1>1. /\ net' \in Bounds /\ mark' \in Bounds /\ balance' = balance + net'
      /\ pos' = [pos EXCEPT !.lots = Rest, !.tp1_done = TRUE, !.sl = pos.entry]
      /\ tp1_at' = t /\ close' = bar.c /\ close' \in Int /\ ~pos.tp1_done
      /\ Away(pos, pos.sl) < Away(pos, bar.c) /\ Away(pos, bar.c) <= Away(pos, pos.tp2)
  BY Tp1Is
<1>2. PICK u \in (0 - Cost)..Away(pos, pos.tp2) : net' = First * u
  BY Tp1Is
<1>3. /\ now' = t /\ phase' = "core" /\ spread' = bar.spread /\ UNCHANGED risk
  BY DEF TakeTp1, OwnBar
<1>4. /\ pos \in Position /\ Placed(pos) /\ Sized(pos, PerTradeRisk(risk)) /\ Rest \in Nat
      /\ close \in Int /\ Reached(pos, close)
  BY Open
<1>5. bar.spread \in Spreads
  BY <1>4, BarsAre
<1>6. /\ pos' \in Position /\ pos'.dir = pos.dir /\ pos'.entry = pos.entry
      /\ pos'.sl = pos.entry /\ pos'.tp1 = pos.tp1 /\ pos'.tp2 = pos.tp2
      /\ pos'.total = pos.total /\ pos'.r = pos.r /\ pos'.lots = Rest
      /\ pos'.tp1_done = TRUE
  <2>1. pos' = [dir |-> pos.dir, entry |-> pos.entry, since |-> pos.since,
                sl |-> pos.entry, tp1 |-> pos.tp1, tp2 |-> pos.tp2,
                total |-> pos.total, lots |-> Rest, tp1_done |-> TRUE, r |-> pos.r]
    BY <1>1, <1>4 DEF Position
  <2>2. Rest \in Int
    BY <1>4
  <2> QED
    BY <1>4, <2>1, <2>2 DEF Position
<1>7. \A y : Away(pos', y) = Away(pos, y)
  BY <1>6 DEF Away
<1>8. Placed(pos')
  BY <1>4, <1>6, <1>7 DEF Placed
<1>9. Sized(pos', PerTradeRisk(risk'))
  BY <1>3, <1>4, <1>6 DEF Sized, Rest, First
<1>10. Reached(pos', close')
  BY <1>1, <1>4, <1>6, <1>7 DEF Placed, Reached
<1>11. First' = First
  BY <1>6 DEF First
<1>12. ~Flat' /\ ~(now' > tp1_at')
  <2>1. pos'.dir # NoPosition.dir
    BY <1>4, <1>6 DEF Placed, NoPosition, Directions
  <2>2. t \in Nat
    BY BacktestAssumption
  <2>3. ~(t > t)
    BY <2>2
  <2> QED
    BY <1>1, <1>3, <2>1, <2>3 DEF Flat
<1>13. Shaped'
  <2>1. balance' \in Int /\ net' \in Int /\ mark' \in Int
    BY <1>1, BoundsAreInts DEF IInv, Shaped
  <2>2. risk' \in Results
    BY <1>3 DEF IInv, Shaped
  <2>3. t \in 0..LastBar
    BY BacktestAssumption
  <2> QED
    BY <1>1, <1>3, <1>5, <1>6, <2>1, <2>2, <2>3 DEF Shaped
<1>14. Carried'
  <2>1. PerTradeRisk(risk)' = PerTradeRisk(risk')
    BY DEF PerTradeRisk
  <2> QED
    BY <1>8, <1>9, <1>10, <1>12, <2>1 DEF Carried
<1>15. Banked'
  BY <1>2, <1>6, <1>7, <1>11, <1>12 DEF Banked
<1>16. LateByTp1' /\ phase' # "night"
  BY <1>1, <1>3 DEF LateByTp1
<1> QED
  BY <1>13, <1>14, <1>15, <1>16 DEF IInv

LEMMA KeepKeeps ==
  ASSUME IInv, ~Flat, NEW t \in 1..LastBar, NEW bar \in BarsAfter(close), Keep(t, bar)
  PROVE  IInv'
<1>1. /\ now' = t /\ phase' = "core" /\ spread' = bar.spread /\ close' = bar.c
      /\ UNCHANGED <<pos, net, mark, tp1_at, balance, risk>>
      /\ ~SlHit(bar) /\ ~ForcedDue(t)
  BY DEF Keep, OwnBar, trade
<1>2. /\ pos \in Position /\ Placed(pos) /\ close \in Int /\ Reached(pos, close)
      /\ pos.r \in Nat /\ Away(pos, pos.entry) \in Nat
  BY Open
<1>3. /\ bar.c \in Int /\ bar.spread \in Spreads
      /\ Away(pos, pos.sl) < Away(pos, bar.c) /\ Away(pos, bar.c) <= Away(pos, pos.tp2)
  BY <1>1, <1>2, BarsAre
<1>4. Away(pos, pos.sl) = IF pos.tp1_done THEN Away(pos, pos.entry) ELSE 0 - pos.r
  BY <1>2 DEF Placed
<1>5. Reached(pos, bar.c) /\ (pos.tp1_done => Away(pos, pos.entry) < Away(pos, bar.c))
  <2>1. Away(pos, bar.c) \in Int
    BY <1>3 DEF Away
  <2> QED
    BY <1>2, <1>3, <1>4, <2>1 DEF Reached
<1>6. Shaped'
  <2>1. t \in 0..LastBar
    BY BacktestAssumption
  <2> QED
    BY <1>1, <1>3, <2>1 DEF IInv, Shaped
<1>7. Carried'
  BY <1>1, <1>5 DEF IInv, Carried, Flat
<1>8. Banked'
  BY <1>1 DEF IInv, Banked, Flat, First
<1>9. LateByTp1'
  BY <1>1 DEF LateByTp1, ForcedDue
<1> QED
  BY <1>1, <1>6, <1>7, <1>8, <1>9 DEF IInv

\* The trade that an entry opens.
LEMMA EnteredIs ==
  ASSUME Shaped, NEW dir \in Directions, NEW stop \in Stops, NEW tp2 \in Targets,
         SizeLots(PerTradeRisk(risk), stop) > 0
  PROVE  LET p == Entered(dir, stop, tp2)
         IN /\ p \in Position /\ Placed(p) /\ Sized(p, PerTradeRisk(risk))
            /\ Reached(p, 0) /\ ~p.tp1_done /\ p # NoPosition
<1> DEFINE n == SizeLots(PerTradeRisk(risk), stop)
           p == Entered(dir, stop, tp2)
<1>1. /\ stop \in Nat \ {0} /\ tp2 \in Nat /\ tp2 <= MaxR * stop
      /\ Tp1Move[stop] \in Nat \ {0} /\ Tp1Move[stop] < tp2
  BY BacktestAssumption
<1>2. /\ SlipIn \in Nat /\ Widest \in Nat /\ spread \in Nat /\ spread <= Widest
  BY CostsAre, WidestIs DEF Shaped
<1>3. n \in Nat /\ n > 0 /\ n <= MaxLot /\ n * stop <= PerTradeRisk(risk)
  BY <1>1, StakeIs, SizeFits
<1>4. now \in Int
  BY DEF Shaped
<1>5. /\ p.dir = dir /\ p.entry = EntryFillPrice(dir, spread) /\ p.since = now
      /\ p.sl = IF dir = "long" THEN 0 - stop ELSE 0 - (0 - stop)
      /\ p.tp1 = IF dir = "long" THEN Tp1Move[stop] ELSE 0 - Tp1Move[stop]
      /\ p.tp2 = IF dir = "long" THEN tp2 ELSE 0 - tp2
      /\ p.total = n /\ p.lots = n /\ p.tp1_done = FALSE /\ p.r = stop
      /\ p = [dir |-> dir, entry |-> p.entry, since |-> now, sl |-> p.sl,
              tp1 |-> p.tp1, tp2 |-> p.tp2, total |-> n, lots |-> n,
              tp1_done |-> FALSE, r |-> stop]
  BY DEF Entered
<1> HIDE DEF n, p
<1>6. p.entry \in Int /\ p.sl \in Int /\ p.tp1 \in Int /\ p.tp2 \in Int
  BY <1>1, <1>2, <1>5 DEF EntryFillPrice
<1>7. p \in Position
  <2>1. dir \in Directions \union {"none"} /\ n \in Int /\ stop \in Int
    BY <1>1, <1>3
  <2> QED
    BY <1>4, <1>5, <1>6, <2>1 DEF Position
<1>8. Placed(p)
  <2>1. CASE dir = "long"
    BY <1>1, <1>2, <1>5, <2>1 DEF Placed, Away, EntryFillPrice
  <2>2. CASE dir # "long"
    BY <1>1, <1>2, <1>5, <2>2 DEF Placed, Away, EntryFillPrice
  <2> QED
    BY <2>1, <2>2
<1>9. Sized(p, PerTradeRisk(risk))
  BY <1>3, <1>5 DEF Sized
<1>10. Reached(p, 0)
  BY <1>1, <1>5 DEF Reached, Away
<1>11. ~p.tp1_done /\ p # NoPosition
  BY <1>5 DEF NoPosition, Directions
<1> QED
  BY <1>7, <1>8, <1>9, <1>10, <1>11 DEF p

LEMMA EnterKeeps ==
  ASSUME IInv, NEW dir \in Directions, NEW stop \in Stops, NEW tp2 \in Targets,
         Enter(dir, stop, tp2)
  PROVE  IInv' /\ ~Flat' /\ PerTradeRisk(risk') = PerTradeRisk(risk)
<1>1. /\ pos' = Entered(dir, stop, tp2) /\ net' = 0 /\ mark' = 0 /\ tp1_at' = 0
      /\ risk' = OnEntryOpened(risk) /\ close' = 0 /\ phase' = "mark"
      /\ UNCHANGED <<now, spread, balance>> /\ now <= EntryEnd
      /\ SizeLots(PerTradeRisk(risk), stop) > 0
  BY DEF Enter
<1>2. Shaped
  BY DEF IInv
<1>3. /\ pos' \in Position /\ Placed(pos') /\ Sized(pos', PerTradeRisk(risk))
      /\ Reached(pos', 0) /\ ~pos'.tp1_done /\ ~Flat'
  BY <1>1, <1>2, EnteredIs DEF Flat
<1>4. risk' \in Results /\ risk'.cooldown_active = risk.cooldown_active
  BY <1>1, <1>2 DEF Shaped, Results, OnEntryOpened
<1>5. PerTradeRisk(risk') = PerTradeRisk(risk) /\ PerTradeRisk(risk)' = PerTradeRisk(risk')
  BY <1>4 DEF PerTradeRisk
<1>6. now' < ForcedExit
  BY <1>1, <1>2, BacktestAssumption DEF Shaped
<1>7. Shaped'
  BY <1>1, <1>2, <1>3, <1>4, BacktestAssumption DEF Shaped
<1>8. Carried'
  BY <1>1, <1>3, <1>5 DEF Carried
<1>9. Banked' /\ LateByTp1' /\ phase' # "night"
  <2>1. ~(now' >= ForcedExit)
    BY <1>2, <1>1, <1>6, BacktestAssumption DEF Shaped
  <2> QED
    BY <1>1, <1>3, <2>1 DEF Banked, LateByTp1
<1> QED
  BY <1>3, <1>5, <1>7, <1>8, <1>9 DEF IInv

LEMMA StepKept == IInv /\ [Next]_vars => IInv'
<1> SUFFICES ASSUME IInv, [Next]_vars PROVE IInv'
  OBVIOUS
<1>0. 0 \in 0..LastBar /\ \A t \in 1..LastBar : t \in 0..LastBar
  BY BacktestAssumption
<1>1. ASSUME ~Flat, NEW t \in 1..LastBar, NEW bar \in BarsAfter(close), ManageBar(t, bar)
      PROVE  IInv'
  <2>1. CASE StopLoss(t, bar) \/ TakeTp2(t, bar) \/ ExitAtClose(t, bar)
    <3>1. PICK x \in Bounds : CloseTrade(x, risk)
      BY <1>1, <2>1, BarCloses
    <3>2. phase' = "core" /\ now' = t /\ spread' = bar.spread
      BY <2>1 DEF StopLoss, TakeTp2, ExitAtClose, OwnBar
    <3>3. bar.spread \in Spreads
      BY <1>1, Open, BarsAre
    <3> QED
      BY <1>0, <3>1, <3>2, <3>3, CloseKeeps, BoundsAreInts
  <2> QED
    BY <1>1, <2>1, Tp1Keeps, KeepKeeps DEF ManageBar
<1>2. ASSUME NEW t \in 1..LastBar, NEW sp \in Spreads, FlatBar(t, sp)
      PROVE  IInv'
  <2>1. /\ Flat /\ now' = t /\ close' = 0 /\ spread' = sp /\ phase' = "core"
        /\ UNCHANGED <<pos, net, mark, tp1_at, balance, risk>>
    BY <1>2 DEF FlatBar, trade, account
  <2>2. Flat'
    BY <2>1 DEF Flat
  <2> QED
    BY <1>0, <2>1, <2>2 DEF IInv, Shaped, Carried, Banked, LateByTp1
<1>3. CASE OtherBar \/ NoEntry \/ UNCHANGED vars
  <2>1. /\ UNCHANGED <<now, close, spread, pos, net, mark, tp1_at, balance, risk>>
        /\ phase' \in {phase, "mark"}
    BY <1>3 DEF OtherBar, NoEntry, vars, quote, trade, account
  <2> QED
    BY <2>1 DEF IInv, Shaped, Carried, Banked, LateByTp1, Flat, First
<1>4. CASE Mark
  <2>1. /\ UNCHANGED <<now, close, spread, pos, net, tp1_at, balance, risk>>
        /\ phase' = "bar" /\ mark' = Floating
    BY <1>4 DEF Mark, quote
  <2>2. mark' \in Int /\ (Flat => mark' = 0)
    <3>1. CASE Flat
      BY <2>1, <3>1 DEF Floating
    <3>2. CASE ~Flat
      BY <2>1, <3>2, FloatingIn, BoundsAreInts
    <3> QED
      BY <3>1, <3>2
  <2> QED
    BY <2>1, <2>2 DEF IInv, Shaped, Carried, Banked, LateByTp1, Flat, First
<1>5. CASE HardStopExit
  <2>1. /\ ~Flat /\ phase' = "bar" /\ UNCHANGED <<now, spread>>
        /\ CloseTrade(FillNet("forced", pos.lots, close, LastFill), LatchHardStop(risk))
    BY <1>5 DEF HardStopExit
  <2>2. FillNet("forced", pos.lots, close, LastFill) \in Int
    BY <2>1, LastFillIs, BoundsAreInts
  <2>3. now' \in 0..LastBar /\ spread' \in Spreads \union {0}
    BY <2>1 DEF IInv, Shaped
  <2> QED
    BY <2>1, <2>2, <2>3, CloseKeeps
<1>6. CASE DayEnds /\ ~Flat
  <2>1. /\ phase' = "night" /\ UNCHANGED <<now, spread>>
        /\ CloseTrade(FillNet("forced", pos.lots, close, LastFill), risk)
    BY <1>6 DEF DayEnds
  <2>2. FillNet("forced", pos.lots, close, LastFill) \in Int
    BY <1>6, LastFillIs, BoundsAreInts
  <2>3. now' \in 0..LastBar /\ spread' \in Spreads \union {0}
    BY <2>1 DEF IInv, Shaped
  <2> QED
    BY <2>1, <2>2, <2>3, CloseKeeps
<1>7. CASE DayEnds /\ Flat
  <2>1. /\ phase' = "night"
        /\ UNCHANGED <<now, close, spread, pos, net, mark, tp1_at, balance, risk>>
    BY <1>7 DEF DayEnds, trade
  <2> QED
    BY <1>7, <2>1 DEF IInv, Shaped, Carried, Banked, LateByTp1, Flat
<1>8. ASSUME NEW d, NEW new_week \in BOOLEAN, NextDay(d, new_week) PROVE IInv'
  <2>1. /\ phase = "night" /\ phase' = "bar" /\ now' = 0 /\ close' = 0 /\ spread' = 0
        /\ UNCHANGED <<pos, net, mark, tp1_at, balance>> /\ risk' = RollToDay(risk, new_week)
    BY <1>8 DEF NextDay, trade
  <2>2. risk' \in Results
    BY <2>1 DEF IInv, Shaped, RollToDay, Results, CoolsDown
  <2>3. Flat /\ Flat'
    BY <2>1 DEF IInv, Flat
  <2> QED
    BY <1>0, <2>1, <2>2, <2>3 DEF IInv, Shaped, Carried, Banked, LateByTp1
<1> QED
  BY <1>1, <1>2, <1>3, <1>4, <1>5, <1>6, <1>7, <1>8, EnterKeeps DEF Next

(* ------------------------------- theorems -------------------------------- *)

\* The inductive invariant holds in every reachable state.
THEOREM Inductive == Spec => []IInv
<1>1. Init => IInv
  BY InitKept
<1>2. IInv /\ [Next]_vars => IInv'
  BY StepKept
<1> QED
  BY <1>1, <1>2, PTL DEF Spec

\* The state keeps its shape; in particular the rest of a trade after TP1 is
\* exactly what TP1 did not close.
THEOREM TypeCorrect == Spec => []TypeOK
<1>1. IInv => TypeOK
  <2> SUFFICES ASSUME IInv PROVE TypeOK
    OBVIOUS
  <2>1. CASE Flat
    <3>1. pos.dir = "none" /\ pos.lots = 0 /\ pos.total = 0 /\ pos.tp1_done = FALSE
      BY <2>1 DEF Flat, NoPosition
    <3>2. pos.lots \in 0..pos.total /\ pos.total <= MaxLot
      BY <3>1, CostsAre
    <3> QED
      BY <3>1, <3>2 DEF IInv, Shaped, TypeOK
  <2>2. CASE ~Flat
    <3>1. /\ pos.dir \in Directions /\ pos.lots \in 0..pos.total
          /\ pos.total <= MaxLot /\ (pos.tp1_done => pos.lots = Rest)
      BY <2>2, Open DEF Placed, Sized
    <3> QED
      BY <3>1 DEF IInv, Shaped, TypeOK
  <2> QED
    BY <2>1, <2>2
<1> QED
  BY <1>1, Inductive, PTL

\* A position that is open at or past the forced exit has just taken TP1: no
\* path of prices, and no other exit, keeps one open.
THEOREM ForcedFlat == Spec => []LateOnlyByTp1
<1>1. IInv => LateOnlyByTp1
  BY DEF IInv, LateByTp1, LateOnlyByTp1
<1> QED
  BY <1>1, Inductive, PTL

\* Whichever way a trade ends whose rest has survived a bar, it keeps what TP1
\* banked but for the costs of the rest and one gap over the stop.
THEOREM RestProtected == Spec => RestIsProtected
<1> DEFINE Kept == pos.tp1_done /\ now > tp1_at /\ pos' = NoPosition
                     => risk'.day_realized - risk.day_realized
                          >= net - Rest * (Gap + Widest + SlipOut + Commission)
<1>1. ASSUME IInv, [Next]_vars PROVE Kept
  <2> SUFFICES ASSUME pos.tp1_done, now > tp1_at, pos' = NoPosition
               PROVE  risk'.day_realized - risk.day_realized >= net - Rest * Toll
    BY DEF Toll
  <2>1. ~Flat /\ pos' # pos
    BY DEF Flat, NoPosition
  <2>2. ASSUME NEW x \in Bounds, NEW state, state \in {risk, LatchHardStop(risk)},
               CloseTrade(x, state), 0 - Rest * Toll <= x
        PROVE  risk'.day_realized - risk.day_realized >= net - Rest * Toll
    <3>1. risk \in Results /\ net \in Int
      BY <1>1 DEF IInv, Shaped
    <3>2. state.day_realized = risk.day_realized
      BY <2>2, <3>1 DEF LatchHardStop, Results
    <3>3. risk'.day_realized = risk.day_realized + (net + x)
      BY <2>2, <3>2 DEF CloseTrade, OnTradeClosed
    <3>4. risk.day_realized \in Int /\ x \in Int
      BY <2>2, <3>1, BoundsAreInts DEF Results
    <3>5. Rest * Toll \in Int
      <4>1. Rest \in Nat /\ Toll \in Nat
        BY <1>1, <2>1, Open, CostsAre DEF Toll
      <4> QED
        BY <4>1, ScaledNat
    <3> QED
      BY <2>2, <3>1, <3>3, <3>4, <3>5
  <2>3. ASSUME NEW t \in 1..LastBar, NEW bar \in BarsAfter(close), ManageBar(t, bar)
        PROVE  risk'.day_realized - risk.day_realized >= net - Rest * Toll
    <3>1. ~TakeTp1(t, bar) /\ ~Keep(t, bar)
      <4>1. Keep(t, bar) => pos' = pos
        BY DEF Keep, trade
      <4>2. TakeTp1(t, bar) => ~pos.tp1_done
        BY DEF TakeTp1, Tp1Hit
      <4> QED
        BY <2>1, <4>1, <4>2
    <3>2. PICK x \in Bounds : CloseTrade(x, risk) /\ 0 - Rest * Toll <= x
      BY <1>1, <2>1, <2>3, <3>1, BarCloses DEF ManageBar
    <3> QED
      BY <2>2, <3>2
  <2>4. CASE HardStopExit \/ DayEnds
    <3> DEFINE x == FillNet("forced", pos.lots, close, LastFill)
    <3>1. x \in Bounds /\ 0 - Rest * Toll <= x
      BY <1>1, <2>1, LastFillIs
    <3>2. CloseTrade(x, risk) \/ CloseTrade(x, LatchHardStop(risk))
      BY <2>1, <2>4 DEF HardStopExit, DayEnds
    <3> HIDE DEF x
    <3> QED
      BY <2>2, <3>1, <3>2
  <2>5. ASSUME \/ \E t \in 1..LastBar, sp \in Spreads : FlatBar(t, sp)
               \/ \E dir \in Directions, stop \in Stops, tp2 \in Targets :
                    Enter(dir, stop, tp2)
        PROVE  FALSE
    BY <2>1, <2>5 DEF FlatBar, Enter
  <2>6. ASSUME \/ OtherBar \/ NoEntry \/ Mark \/ UNCHANGED vars
               \/ \E d \in 0..(WeekLen - 1), new_week \in BOOLEAN : NextDay(d, new_week)
        PROVE  FALSE
    BY <2>1, <2>6 DEF OtherBar, NoEntry, Mark, NextDay, vars, trade
  <2> QED
    BY <1>1, <2>3, <2>4, <2>5, <2>6 DEF Next
<1> QED
  BY <1>1, Inductive, PTL DEF Spec, RestIsProtected

(* ------------------------------ the refinement --------------------------- *)

\* RiskDays brings its own copies of the rules.
LEMMA SameRules ==
  /\ Days!InitialRisk = InitialRisk
  /\ \A s : /\ Days!OnEntryOpened(s) = OnEntryOpened(s)
            /\ Days!LatchHardStop(s) = LatchHardStop(s)
            /\ Days!PerTradeRisk(s) = PerTradeRisk(s)
            /\ Days!EntryHalts(s) = EntryHalts(s)
  /\ \A s, y : /\ Days!OnTradeClosed(s, y) = OnTradeClosed(s, y)
               /\ Days!ShouldFlattenDay(s, y) = ShouldFlattenDay(s, y)
               /\ Days!RollToDay(s, y) = RollToDay(s, y)
  /\ \A e : Days!InitialCompliance(e) = InitialCompliance(e)
  /\ \A c, e : /\ Days!OnEquity(c, e) = OnEquity(c, e)
               /\ Days!OnDailyReset(c, e) = OnDailyReset(c, e)
               /\ Days!EntryBlocked(c, e) = EntryBlocked(c, e)
<1>1. Days!InitialRisk = InitialRisk
  BY DEF InitialRisk, Days!InitialRisk
<1>2. ASSUME NEW s
      PROVE  /\ Days!OnEntryOpened(s) = OnEntryOpened(s)
             /\ Days!LatchHardStop(s) = LatchHardStop(s)
             /\ Days!PerTradeRisk(s) = PerTradeRisk(s)
  BY DEF OnEntryOpened, LatchHardStop, PerTradeRisk, Days!OnEntryOpened,
         Days!LatchHardStop, Days!PerTradeRisk
<1>3. ASSUME NEW s PROVE Days!EntryHalts(s) = EntryHalts(s)
  <2>1. Days!Halts(s) = Halts(s)
    BY DEF Halts, SoftStopped, WeekStopped, EntriesUsedUp, Days!Halts,
           Days!SoftStopped, Days!WeekStopped, Days!EntriesUsedUp
  <2> QED
    BY <2>1 DEF EntryHalts, Days!EntryHalts
<1>4. ASSUME NEW s, NEW y
      PROVE  /\ Days!OnTradeClosed(s, y) = OnTradeClosed(s, y)
             /\ Days!ShouldFlattenDay(s, y) = ShouldFlattenDay(s, y)
             /\ Days!RollToDay(s, y) = RollToDay(s, y)
  BY DEF OnTradeClosed, Streak, ShouldFlattenDay, RollToDay, CoolsDown,
         Days!OnTradeClosed, Days!Streak, Days!ShouldFlattenDay, Days!RollToDay,
         Days!CoolsDown
<1>5. ASSUME NEW e PROVE Days!InitialCompliance(e) = InitialCompliance(e)
  BY DEF InitialCompliance, Days!InitialCompliance
<1>6. ASSUME NEW c, NEW e
      PROVE  /\ Days!OnEquity(c, e) = OnEquity(c, e)
             /\ Days!OnDailyReset(c, e) = OnDailyReset(c, e)
             /\ Days!EntryBlocked(c, e) = EntryBlocked(c, e)
  BY DEF OnEquity, Ratchet, Larger, OnDailyReset, EntryBlocked, Days!OnEquity,
         Days!Ratchet, Days!Larger, Days!OnDailyReset, Days!EntryBlocked
<1> QED
  BY <1>1, <1>2, <1>3, <1>4, <1>5, <1>6

LEMMA InitMaps == Init => Days!Init
BY SameRules DEF Init, Days!Init, Flat, NoPosition

LEMMA BoundsAreOutcomes == ASSUME ~Flat PROVE Bounds = Days!Outcomes
BY DEF Bounds, Days!Outcomes, Days!WorstLoss, Days!BestGain

\* A closed trade is one that RiskDays closes.
LEMMA CloseMaps ==
  ASSUME ~Flat, NEW x, NEW STATE state, CloseTrade(x, state), UNCHANGED calendar
  PROVE  Days!Closed(state, x)
<1>1. Flat'
  BY DEF CloseTrade, Flat
<1> QED
  BY <1>1, SameRules DEF CloseTrade, Days!Closed, Days!calendar, calendar

LEMMA StepMaps == IInv /\ [Next]_vars => [Days!Next]_(Days!vars)
<1> SUFFICES ASSUME IInv, [Next]_vars PROVE Days!Next \/ UNCHANGED Days!vars
  OBVIOUS
<1> USE DEF Days!position, Days!calendar, calendar
<1>1. ASSUME ~Flat, NEW t \in 1..LastBar, NEW bar \in BarsAfter(close), ManageBar(t, bar)
      PROVE  Days!Next \/ UNCHANGED Days!vars
  <2>1. CASE StopLoss(t, bar) \/ TakeTp2(t, bar) \/ ExitAtClose(t, bar)
    <3>1. PICK x \in Bounds : net + x \in Bounds /\ CloseTrade(x, risk)
      BY <1>1, <2>1, BarCloses
    <3>2. UNCHANGED <<comp, calendar, fired>>
      BY <2>1 DEF StopLoss, TakeTp2, ExitAtClose, OwnBar
    <3>3. Days!Exit(x, FALSE)
      BY <1>1, <3>1, <3>2, CloseMaps DEF Days!Exit
    <3>4. x \in Days!Marks
      BY <1>1, <3>1, BoundsAreOutcomes DEF Days!Marks
    <3> QED
      BY <3>3, <3>4 DEF Days!Next
  <2>2. CASE TakeTp1(t, bar)
    <3>1. /\ net = 0 /\ net' \in Bounds /\ mark' \in Bounds /\ net' + mark' \in Bounds
          /\ balance' = balance + net' /\ ~Flat'
      <4>1. /\ net = 0 /\ net' \in Bounds /\ mark' \in Bounds /\ net' + mark' \in Bounds
            /\ balance' = balance + net'
            /\ pos' = [pos EXCEPT !.lots = Rest, !.tp1_done = TRUE, !.sl = pos.entry]
        BY <1>1, <2>2, Tp1Is
      <4>2. pos \in Position /\ pos.dir \in Directions
        BY <1>1, Open DEF Placed
      <4>3. pos'.dir = pos.dir
        BY <4>1, <4>2 DEF Position
      <4>4. pos'.dir # NoPosition.dir
        BY <4>2, <4>3 DEF NoPosition, Directions
      <4> QED
        BY <4>1, <4>4 DEF Flat
    <3>2. UNCHANGED <<risk, comp, calendar, fired>>
      BY <2>2 DEF TakeTp1, OwnBar
    <3>3. PerTradeRisk(risk)' = PerTradeRisk(risk)
      BY <3>2 DEF PerTradeRisk
    <3>4. Days!Partial(net')
      BY <1>1, <3>1, <3>2, <3>3, BoundsAreOutcomes DEF Days!Partial
    <3> QED
      BY <1>1, <3>1, <3>4, BoundsAreOutcomes DEF Days!Next
  <2>3. CASE Keep(t, bar)
    BY <2>3 DEF Keep, OwnBar, trade, Days!vars, Flat, PerTradeRisk
  <2> QED
    BY <1>1, <2>1, <2>2, <2>3 DEF ManageBar
<1>2. CASE \/ \E t \in 1..LastBar, sp \in Spreads : FlatBar(t, sp)
           \/ NoEntry \/ UNCHANGED vars
  BY <1>2 DEF FlatBar, NoEntry, vars, trade, account, Days!vars, Flat, PerTradeRisk
<1>3. CASE OtherBar
  <2>1. Days!MarkBalance
    BY <1>3, SameRules DEF OtherBar, trade, Days!MarkBalance, Flat, PerTradeRisk
  <2> QED
    BY <2>1 DEF Days!Next
<1>4. ASSUME NEW dir \in Directions, NEW stop \in Stops, NEW tp2 \in Targets,
             Enter(dir, stop, tp2)
      PROVE  Days!Next
  <2>1. ~Flat' /\ PerTradeRisk(risk)' = PerTradeRisk(risk)
    <3>1. ~Flat' /\ PerTradeRisk(risk') = PerTradeRisk(risk)
      BY <1>4, EnterKeeps
    <3> QED
      BY <3>1 DEF PerTradeRisk
  <2>2. Days!Enter
    BY <1>4, <2>1, SameRules DEF Enter, MayEnter, Days!Enter, Days!MayEnter
  <2> QED
    BY <2>2 DEF Days!Next
<1>5. CASE Mark /\ Flat
  <2>1. Floating = 0 /\ mark = 0 /\ balance \in Int
    BY <1>5 DEF Floating, IInv, Banked, Shaped
  <2>2. balance + Floating = balance
    BY <2>1
  <2>3. Days!MarkBalance
    BY <1>5, <2>1, <2>2, SameRules DEF Mark, Days!MarkBalance, Flat, PerTradeRisk
  <2> QED
    BY <2>3 DEF Days!Next
<1>6. CASE Mark /\ ~Flat
  <2>1. Floating \in Days!Marks
    BY <1>6, FloatingIn, BoundsAreOutcomes DEF Days!Marks
  <2>2. Days!Bar(Floating)
    BY <1>6, SameRules DEF Mark, Days!Bar, Flat, PerTradeRisk
  <2> QED
    BY <2>1, <2>2 DEF Days!Next
<1>7. CASE HardStopExit
  <2> DEFINE x == FillNet("forced", pos.lots, close, LastFill)
  <2>1. ~Flat /\ UNCHANGED calendar /\ CloseTrade(x, LatchHardStop(risk))
    BY <1>7 DEF HardStopExit
  <2>2. x \in Bounds /\ net + x \in Bounds /\ x <= Floating
    BY <2>1, LastFillIs
  <2> HIDE DEF x
  <2>3. x \in Days!Marks /\ Floating \in Days!Marks
    BY <2>1, <2>2, FloatingIn, BoundsAreOutcomes DEF Days!Marks
  <2>4. Days!Closed(LatchHardStop(risk), x)
    BY <2>1, CloseMaps
  <2>5. Days!HardStopExit(Floating)
    BY <1>7, <2>2, <2>3, <2>4, SameRules DEF HardStopExit, Days!HardStopExit
  <2> QED
    BY <2>3, <2>5 DEF Days!Next
<1>8. CASE DayEnds /\ ~Flat
  <2> DEFINE x == FillNet("forced", pos.lots, close, LastFill)
  <2>1. UNCHANGED <<comp, calendar, fired>> /\ CloseTrade(x, risk)
    BY <1>8 DEF DayEnds
  <2>2. x \in Bounds /\ net + x \in Bounds
    BY <1>8, LastFillIs
  <2> HIDE DEF x
  <2>3. x \in Days!Marks
    BY <1>8, <2>2, BoundsAreOutcomes DEF Days!Marks
  <2>4. Days!Exit(x, FALSE)
    BY <1>8, <2>1, CloseMaps DEF Days!Exit
  <2> QED
    BY <2>3, <2>4 DEF Days!Next
<1>9. CASE DayEnds /\ Flat
  BY <1>9 DEF DayEnds, trade, Days!vars, Flat, PerTradeRisk
<1>10. ASSUME NEW d \in 0..(WeekLen - 1), NEW new_week \in BOOLEAN, NextDay(d, new_week)
       PROVE  Days!Next
  <2>1. Flat /\ Flat'
    BY <1>10 DEF NextDay, IInv, trade, Flat
  <2>2. Days!NextDay(d, new_week)
    BY <1>10, <2>1, SameRules DEF NextDay, trade, Days!NextDay
  <2> QED
    BY <2>2 DEF Days!Next
<1> QED
  BY <1>1, <1>2, <1>3, <1>4, <1>5, <1>6, <1>7, <1>8, <1>9, <1>10 DEF Next

\* The backtest loop implements the account's many days: with its prices, its
\* sizes and its costs no trade does more than RiskDays allows, and the rules are
\* told of it as there.
THEOREM ImplementsDays == Spec => DaysSpec
<1>1. Init => Days!Init
  BY InitMaps
<1>2. IInv /\ [Next]_vars => [Days!Next]_(Days!vars)
  BY StepMaps
<1> QED
  BY <1>1, <1>2, Inductive, PTL DEF Spec, DaysSpec, Days!Spec

(* ---------------------- what the backtest owes to it --------------------- *)

\* The proofs about RiskDays, read for the variables of the backtest.
Proved == INSTANCE RiskDaysProofs WITH
            open <- ~Flat, leg <- net, floating <- mark,
            stake <- IF Flat THEN 0 ELSE PerTradeRisk(risk)

\* Their assumptions are among those of BacktestEngine ...
LEMMA AssumptionsHold ==
  /\ Proved!ConfigValid
  /\ Slip \in Nat /\ MaxR \in Nat \ {0}
  /\ WeekLen \in Nat \ {0} /\ MaxDays \in Nat
  /\ PerTrade + Slip - SoftStop <= DailyLoss
  /\ PerTrade + Slip < FloorBuffer
  /\ MaxR * PerTrade + PerTrade + Slip < TrailAmount
<1>1. Proved!ConfigValid
  BY RulesAssumption DEF ConfigValid, Modes, Proved!ConfigValid, Proved!Modes
<1> QED
  BY <1>1, CostMargin, DayMargins

\* ... and their specification is the one that is implemented.
LEMMA SameDays == DaysSpec => Proved!Spec
<1>1. Days!Init => Proved!Init
  BY DEF Days!Init, Proved!Init, Days!InitialRisk, Proved!InitialRisk,
         Days!InitialCompliance, Proved!InitialCompliance, Days!OnDailyReset,
         Proved!OnDailyReset
<1>2. UNCHANGED Days!vars => UNCHANGED Proved!vars
  BY DEF Days!vars, Proved!vars, Days!position, Proved!position, Days!calendar,
         Proved!calendar
<1>3. Days!Next <=> Proved!Next
  BY DEF Days!Next, Proved!Next, Days!Enter, Proved!Enter, Days!MayEnter,
         Proved!MayEnter, Days!Bar, Proved!Bar, Days!MarkBalance,
         Proved!MarkBalance, Days!Partial, Proved!Partial, Days!Closed,
         Proved!Closed, Days!Exit, Proved!Exit, Days!HardStopExit,
         Proved!HardStopExit, Days!NextDay, Proved!NextDay, Days!Marks,
         Proved!Marks, Days!Outcomes, Proved!Outcomes, Days!WorstLoss,
         Proved!WorstLoss, Days!BestGain, Proved!BestGain, Days!position,
         Proved!position, Days!calendar, Proved!calendar, Days!OnEntryOpened,
         Proved!OnEntryOpened, Days!LatchHardStop, Proved!LatchHardStop,
         Days!PerTradeRisk, Proved!PerTradeRisk, Days!EntryHalts,
         Proved!EntryHalts, Days!Halts, Proved!Halts, Days!SoftStopped,
         Proved!SoftStopped, Days!WeekStopped, Proved!WeekStopped,
         Days!EntriesUsedUp, Proved!EntriesUsedUp, Days!OnTradeClosed,
         Proved!OnTradeClosed, Days!Streak, Proved!Streak,
         Days!ShouldFlattenDay, Proved!ShouldFlattenDay, Days!RollToDay,
         Proved!RollToDay, Days!CoolsDown, Proved!CoolsDown,
         Days!InitialCompliance, Proved!InitialCompliance, Days!OnEquity,
         Proved!OnEquity, Days!Ratchet, Proved!Ratchet, Days!Larger,
         Proved!Larger, Days!OnDailyReset, Proved!OnDailyReset,
         Days!EntryBlocked, Proved!EntryBlocked
<1>4. [Days!Next]_(Days!vars) => [Proved!Next]_(Proved!vars)
  BY <1>2, <1>3
<1> QED
  BY <1>1, <1>4, PTL DEF DaysSpec, Days!Spec, Proved!Spec

\* Through the refinement the backtest keeps the limits that no rule of it looks at
\* (the firm's daily limit, the trailing floor all day, the week), its books agree
\* with the account, the hard stop ends the day, and the size of the next trade
\* only grows over the night after a green day.
THEOREM LimitsInBacktest ==
  Spec => /\ []Days!FirmLimitHolds /\ []Days!AboveFloor /\ []Days!WeekLossBounded
          /\ []Days!RealizedMatchesBalance /\ []Days!HardStopEndsDay
          /\ Days!NoMartingale
<1>1. Proved!Spec => /\ []Proved!FirmLimitHolds /\ []Proved!AboveFloor
                     /\ []Proved!WeekLossBounded /\ []Proved!RealizedMatchesBalance
                     /\ []Proved!HardStopEndsDay /\ Proved!NoMartingale
  BY AssumptionsHold, Proved!FirmLimit, Proved!FloorHolds, Proved!WeekBounded,
     Proved!BooksAgree, Proved!HardStopIsFinal, Proved!NeverMartingale, PTL
<1>2. /\ Proved!FirmLimitHolds => Days!FirmLimitHolds
      /\ Proved!AboveFloor => Days!AboveFloor
      /\ Proved!WeekLossBounded => Days!WeekLossBounded
      /\ Proved!RealizedMatchesBalance => Days!RealizedMatchesBalance
      /\ Proved!HardStopEndsDay => Days!HardStopEndsDay
  BY DEF Days!FirmLimitHolds, Proved!FirmLimitHolds, Days!FirmDailyBreached,
         Proved!FirmDailyBreached, Days!FirmDailyLossUsed,
         Proved!FirmDailyLossUsed, Days!Larger, Proved!Larger, Days!equity,
         Proved!equity, Days!AboveFloor, Proved!AboveFloor,
         Days!WeekLossBounded, Proved!WeekLossBounded,
         Days!RealizedMatchesBalance, Proved!RealizedMatchesBalance,
         Days!HardStopEndsDay, Proved!HardStopEndsDay
<1>3. Proved!NoMartingale => Days!NoMartingale
  <2>1. UNCHANGED Proved!vars => UNCHANGED Days!vars
    BY DEF Days!vars, Proved!vars, Days!position, Proved!position, Days!calendar,
           Proved!calendar
  <2>2. Days!PerTradeRisk(risk)' > Days!PerTradeRisk(risk)
          => Proved!PerTradeRisk(risk)' > Proved!PerTradeRisk(risk)
    BY DEF Proved!PerTradeRisk, Days!PerTradeRisk
  <2>3. [Proved!PerTradeRisk(risk)' > Proved!PerTradeRisk(risk)
           => days' # days /\ risk.day_realized > 0]_(Proved!vars)
        => [Days!PerTradeRisk(risk)' > Days!PerTradeRisk(risk)
              => days' # days /\ risk.day_realized > 0]_(Days!vars)
    BY <2>1, <2>2
  <2> QED
    BY <2>3, PTL DEF Proved!NoMartingale, Days!NoMartingale
<1> QED
  BY <1>1, <1>2, <1>3, ImplementsDays, SameDays, PTL
===============================================================================
