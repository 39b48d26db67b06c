-------------------------- MODULE PaperSessionProofs --------------------------
(***************************************************************************)
(* Proofs about PaperSession as v1 documents it (runner.py:4-5): one       *)
(* session, on a paper broker that emulates the brackets and answers every *)
(* call.  Whatever the quotes do, session and broker hold the same         *)
(* position and the same books; the rest are the prices at which a trade   *)
(* can end, which the stop, TP1 and the breakeven stop bound.              *)
(***************************************************************************)
EXTENDS PaperSession, TLAPS

\* One session on a broker that emulates brackets and loses no answer.  TP1 leaves
\* a part of the position and is not nearer than what an entry costs: the schema
\* also takes a tp1_close of 1, with which a session keeps a trade whose position
\* is gone.
OnePaperSession ==
  /\ \E s : Symbols = {s}
  /\ Emulated /\ ~Unreliable
  /\ Tp1Lots < Lots /\ Spread + Drift <= Tp1
Only == CHOOSE s \in Symbols : TRUE

Rest == Lots - Tp1Lots   \* of a position after TP1
Worst == Stop + Spread + Drift   \* between the entry and the first stop

Position == [lots : 0..Lots, entry : Int, sl : Int, tp : Int]
Trade == [side : Sides \union {"none"}, entry : Int, since : 0..EntryEnd \union {0},
          tp1 : Int, lots_open : {0, Rest, Lots}, tp1_done : BOOLEAN]
Results ==
  [day_realized : Int, week_realized : Int, trades_opened : Int,
   consec_losses : Int, losses_today : Int,
   cooldown_active : BOOLEAN, hard_latched : BOOLEAN]
Limits == [hwm : Int, floor : Int, day_anchor : {0}]

Shaped ==
  /\ now \in 0..MaxTime /\ bid \in [Symbols -> Prices] /\ balance \in Int
  /\ book \in [Tickets -> Position] /\ open \in [Symbols -> Trade]
  /\ at_entry \in [Symbols -> Int] /\ seen \subseteq Tickets
  /\ risk \in [Symbols -> Results]
  /\ comp \in [Symbols -> Limits] /\ comp[Only].floor >= 0 - TrailAmount

Idle == open[Only] = NoTrade
Held == Ticket(Only)

Used == (IF <<Only, "long">> \in seen THEN 1 ELSE 0)
          + (IF <<Only, "short">> \in seen THEN 1 ELSE 0)

\* Every entry has used up one of the two setups of the day, and every loss is
\* one of the trades entered.
Counted ==
  /\ 0 <= risk[Only].trades_opened /\ risk[Only].trades_opened <= Used
  /\ risk[Only].losses_today <= risk[Only].trades_opened
  /\ ~Idle => risk[Only].losses_today < risk[Only].trades_opened

\* No trade: no position, and the books agree.
FlatKept ==
  Idle => /\ \A t \in Tickets : book[t].lots = 0
          /\ risk[Only].day_realized = balance
          /\ balance > SoftStop - Lots * Worst

\* What one unit of the position makes at a price on the side where it exits.
Gain(price) ==
  IF open[Only].side = "long" THEN price - open[Only].entry
  ELSE open[Only].entry - price

\* A trade: the broker holds exactly it, the account still stands where the trade
\* found it, or higher once TP1 was taken, and its levels are in their places.
HeldKept ==
  ~Idle =>
    /\ open[Only].side \in Sides
    /\ \A t \in Tickets : t # Held => book[t].lots = 0
    /\ book[Held].lots = open[Only].lots_open
    /\ book[Held].entry = open[Only].entry
    /\ open[Only].lots_open = IF open[Only].tp1_done THEN Rest ELSE Lots
    /\ at_entry[Only] = risk[Only].day_realized
    /\ SoftStop < risk[Only].day_realized
    /\ IF open[Only].tp1_done
       THEN balance >= at_entry[Only] /\ book[Held].sl = open[Only].entry
       ELSE balance = at_entry[Only] /\ 0 - Worst <= Gain(book[Held].sl)
    /\ Gain(book[Held].tp) >= 0
    /\ IF open[Only].side = "long" THEN open[Only].tp1 >= open[Only].entry
       ELSE open[Only].tp1 + Spread <= open[Only].entry

IInv == Shaped /\ Counted /\ FlatKept /\ HeldKept

(* ----------------------------- the parameters ---------------------------- *)

LEMMA OneSymbol ==
  ASSUME OnePaperSession
  PROVE  /\ Symbols = {Only} /\ Tickets = {<<Only, "long">>, <<Only, "short">>}
         /\ Emulated /\ ~Unreliable /\ 0 < Rest /\ Spread + Drift <= Tp1
<1>1. Only \in Symbols
  BY DEF OnePaperSession, Only
<1>2. Symbols = {Only}
  BY <1>1 DEF OnePaperSession
<1> HIDE DEF Only
<1>3. Tickets = {<<Only, "long">>, <<Only, "short">>}
  BY <1>2 DEF Tickets, Sides
<1>4. 0 < Rest
  BY SessionAssumption DEF OnePaperSession, Rest
<1> QED
  BY <1>2, <1>3, <1>4 DEF OnePaperSession

LEMMA ValidDay ==
  /\ SoftStop \in Int /\ SoftStop < 0 /\ TrailAmount \in Nat /\ DailyLoss \in Nat
  /\ Rest \in Nat /\ Lots \in Nat \ {0} /\ Rest < Lots /\ Tp1Lots \in Nat
  /\ Lots = Rest + Tp1Lots
  /\ Worst \in Nat /\ Lots * Worst \in Nat
<1>1. Lots \in Nat \ {0} /\ Tp1Lots \in 1..Lots
  BY SessionAssumption
<1>2. Rest \in Nat /\ Lots = Rest + Tp1Lots /\ Rest < Lots /\ Tp1Lots \in Nat
  BY <1>1 DEF Rest
<1>3. Worst \in Nat
  BY SessionAssumption DEF Worst
<1>4. \A m, n \in Nat : m * n \in Nat
  OBVIOUS
<1>5. Lots * Worst \in Nat
  BY <1>1, <1>3, <1>4
<1>6. SoftStop \in Int /\ SoftStop < 0 /\ TrailAmount \in Nat /\ DailyLoss \in Nat
  BY RulesAssumption DEF ConfigValid
<1> QED
  BY <1>1, <1>2, <1>3, <1>5, <1>6

\* What n units make is bounded by what each of them makes.
LEMMA Scaled ==
  ASSUME NEW n \in Nat, NEW m \in Nat, n <= m, NEW g \in Int, NEW w \in Nat, 0 - w <= g
  PROVE  n * g \in Int /\ 0 - m * w <= n * g /\ (0 <= g => 0 <= n * g)
<1>1. n * g \in Int /\ n * w \in Int /\ m * w \in Int
  OBVIOUS
<1>2. n * w <= m * w
  OBVIOUS
<1>3. 0 - n * w <= n * g
  <2>1. n * (g + w) >= 0
    OBVIOUS
  <2>2. n * (g + w) = n * g + n * w
    OBVIOUS
  <2> QED
    BY <1>1, <2>1, <2>2
<1>4. 0 <= g => 0 <= n * g
  OBVIOUS
<1> QED
  BY <1>1, <1>2, <1>3, <1>4

(* --------------------------- sums over one ticket ------------------------ *)

LEMMA SweptNone ==
  ASSUME Brackets = {}, balance \in Int
  PROVE  SweptBalance = balance
<1> DEFINE Rec(it) == [s \in SUBSET Brackets |->
                         IF s = {} THEN 0
                         ELSE LET z == CHOOSE e \in s : TRUE
                              IN Profit(z, Level(z), book[z].lots) + it[s \ {z}]]
           sum == CHOOSE it : it = Rec(it)
<1>1. SweptBalance = balance + sum[Brackets]
  BY DEF SweptBalance, MapThenSumSet, MapThenFoldSet
<1>2. [s \in SUBSET Brackets |-> 0] = Rec([s \in SUBSET Brackets |-> 0])
  BY \A s \in SUBSET Brackets : s = {}
<1>3. sum = Rec(sum)
  BY <1>2
<1> HIDE DEF sum
<1>4. sum[Brackets] = 0
  BY <1>3
<1> QED
  BY <1>1, <1>4

LEMMA FloatingNone ==
  ASSUME NEW b, {t \in Tickets : b[t].lots > 0} = {}
  PROVE  Floating(b) = 0
<1> DEFINE live == {t \in Tickets : b[t].lots > 0}
           Rec(it) == [s \in SUBSET live |->
                         IF s = {} THEN 0
                         ELSE LET z == CHOOSE e \in s : TRUE
                              IN Profit(z, ExitPrice(z), b[z].lots) + it[s \ {z}]]
           sum == CHOOSE it : it = Rec(it)
<1>1. Floating(b) = sum[live]
  BY DEF Floating, MapThenSumSet, MapThenFoldSet
<1>2. \A s \in SUBSET live : s = {}
  OBVIOUS
<1> HIDE DEF live
<1>3. [s \in SUBSET live |-> 0] = Rec([s \in SUBSET live |-> 0])
  BY <1>2
<1>4. sum = Rec(sum)
  BY <1>3
<1> HIDE DEF sum
<1>5. sum[live] = 0
  BY <1>2, <1>4
<1> QED
  BY <1>1, <1>5

LEMMA SweptOne ==
  ASSUME NEW x, Brackets = {x}, Profit(x, Level(x), book[x].lots) \in Int
  PROVE  SweptBalance = balance + Profit(x, Level(x), book[x].lots)
<1> DEFINE g(t) == Profit(t, Level(t), book[t].lots)
           Rec(it) == [s \in SUBSET {x} |->
                         IF s = {} THEN 0
                         ELSE LET z == CHOOSE e \in s : TRUE IN g(z) + it[s \ {z}]]
           h == [s \in SUBSET {x} |-> IF s = {} THEN 0 ELSE g(x)]
           sum == CHOOSE it : it = Rec(it)
<1>1. g(x) \in Int
  OBVIOUS
<1>2. SweptBalance = balance + sum[{x}]
  BY DEF SweptBalance, MapThenSumSet, MapThenFoldSet
<1> HIDE DEF g
<1>3. h = Rec(h)
  <2>1. ASSUME NEW s \in SUBSET {x} PROVE h[s] = Rec(h)[s]
    <3>1. CASE s = {x}
      <4>1. (CHOOSE e \in s : TRUE) = x
        BY <3>1
      <4>2. s \ {x} = {} /\ {} \in SUBSET {x} /\ h[{}] = 0
        BY <3>1
      <4> QED
        BY <1>1, <3>1, <4>1, <4>2
    <3> QED
      BY <3>1
  <2> QED
    BY <2>1
<1>4. sum = Rec(sum)
  BY <1>3
<1> HIDE DEF sum
<1>5. sum[{}] = 0
  BY <1>4
<1>6. (CHOOSE e \in {x} : TRUE) = x /\ {x} \ {x} = {}
  OBVIOUS
<1>7. sum[{x}] = g(x) + sum[{x} \ {x}]
  BY <1>4, <1>6
<1>8. sum[{x}] = g(x) + 0
  BY <1>5, <1>6, <1>7
<1> QED
  BY <1>1, <1>2, <1>8 DEF g

LEMMA FloatingOne ==
  ASSUME NEW b, NEW x, {t \in Tickets : b[t].lots > 0} = {x},
         Profit(x, ExitPrice(x), b[x].lots) \in Int
  PROVE  Floating(b) = Profit(x, ExitPrice(x), b[x].lots)
<1> DEFINE g(t) == Profit(t, ExitPrice(t), b[t].lots)
           Rec(it) == [s \in SUBSET {x} |->
                         IF s = {} THEN 0
                         ELSE LET z == CHOOSE e \in s : TRUE IN g(z) + it[s \ {z}]]
           h == [s \in SUBSET {x} |-> IF s = {} THEN 0 ELSE g(x)]
           sum == CHOOSE it : it = Rec(it)
<1>1. g(x) \in Int
  OBVIOUS
<1>2. Floating(b) = sum[{x}]
  BY DEF Floating, MapThenSumSet, MapThenFoldSet
<1> HIDE DEF g
<1>3. h = Rec(h)
  <2>1. ASSUME NEW s \in SUBSET {x} PROVE h[s] = Rec(h)[s]
    <3>1. CASE s = {x}
      <4>1. (CHOOSE e \in s : TRUE) = x
        BY <3>1
      <4>2. s \ {x} = {} /\ {} \in SUBSET {x} /\ h[{}] = 0
        BY <3>1
      <4> QED
        BY <1>1, <3>1, <4>1, <4>2
    <3> QED
      BY <3>1
  <2> QED
    BY <2>1
<1>4. sum = Rec(sum)
  BY <1>3
<1> HIDE DEF sum
<1>5. sum[{}] = 0
  BY <1>4
<1>6. (CHOOSE e \in {x} : TRUE) = x /\ {x} \ {x} = {}
  OBVIOUS
<1>7. sum[{x}] = g(x) + sum[{x} \ {x}]
  BY <1>4, <1>6
<1>8. sum[{x}] = g(x) + 0
  BY <1>5, <1>6, <1>7
<1> QED
  BY <1>1, <1>2, <1>8 DEF g

(* ------------------------ what check_brackets leaves --------------------- *)

LEMMA NothingHeld ==
  ASSUME OnePaperSession, IInv, Idle
  PROVE  /\ Live = {} /\ Brackets = {} /\ SweptBook = book /\ SweptBalance = balance
         /\ SweptFloating = 0
<1>1. Live = {} /\ Brackets = {}
  BY DEF IInv, FlatKept, Live, Brackets, Crossed
<1>2. book = [t \in Tickets |-> book[t]]
  BY DEF IInv, Shaped
<1>3. SweptBook = book
  BY <1>1, <1>2 DEF SweptBook, Without
<1>4. SweptBalance = balance
  BY <1>1, SweptNone DEF IInv, Shaped
<1>5. SweptFloating = 0
  BY <1>1, <1>3, FloatingNone DEF SweptFloating, Live
<1> QED
  BY <1>1, <1>3, <1>4, <1>5

LEMMA OneHeld ==
  ASSUME OnePaperSession, IInv, ~Idle
  PROVE  /\ Held \in Tickets /\ Held[1] = Only /\ Held[2] = open[Only].side
         /\ Live = {Held}
         /\ book[Held] \in Position /\ bid[Only] \in Int
         /\ book[Held].lots = (IF open[Only].tp1_done THEN Rest ELSE Lots)
         /\ open[Only] \in Trade /\ open[Only].side \in Sides
<1>1. Held = <<Only, open[Only].side>> /\ open[Only].side \in Sides /\ Only \in Symbols
  BY OneSymbol DEF Held, Ticket, IInv, HeldKept
<1>2. Held \in Tickets /\ Held[1] = Only /\ Held[2] = open[Only].side
  BY <1>1 DEF Tickets
<1>3. book[Held] \in Position /\ bid[Only] \in Int /\ open[Only] \in Trade
  BY <1>1, <1>2, SessionAssumption DEF IInv, Shaped
<1>4. book[Held].lots = IF open[Only].tp1_done THEN Rest ELSE Lots
  BY DEF IInv, HeldKept
<1>5. Live = {Held}
  <2>1. book[Held].lots > 0
    BY <1>4, ValidDay, OneSymbol
  <2>2. \A t \in Tickets : t # Held => ~(book[t].lots > 0)
    BY DEF IInv, HeldKept
  <2> QED
    BY <1>2, <2>1, <2>2 DEF Live
<1> QED
  BY <1>1, <1>2, <1>3, <1>4, <1>5

LEMMA GainsOfHeld ==
  ASSUME OnePaperSession, IInv, ~Idle, NEW p \in Int, NEW n \in Int
  PROVE  /\ Gain(p) \in Int /\ Profit(Held, p, n) = n * Gain(p)
<1>1. Long(Held) <=> open[Only].side = "long"
  BY OneHeld DEF Long
<1>2. book[Held].entry = open[Only].entry /\ open[Only].entry \in Int
  BY OneHeld DEF IInv, HeldKept, Trade
<1> QED
  BY <1>1, <1>2 DEF Profit, Gain

\* A price that did not reach the stop leaves no more than the stop would; before
\* TP1 that is the worst of a trade, afterwards the entry.
LEMMA AboveStop ==
  ASSUME OnePaperSession, IInv, ~Idle, Held \notin Brackets
  PROVE  /\ ExitPrice(Held) \in Int
         /\ 0 - Worst <= Gain(ExitPrice(Held))
         /\ open[Only].tp1_done => 0 <= Gain(ExitPrice(Held))
<1>1. ~SlHit(Held)
  BY OneHeld, OneSymbol DEF Brackets, Crossed
<1>2. ExitPrice(Held) = (IF open[Only].side = "long" THEN bid[Only] ELSE bid[Only] + Spread)
  BY OneHeld DEF ExitPrice, Long, Bid, Ask
<1>3. ExitPrice(Held) \in Int
  BY <1>2, OneHeld, SessionAssumption
<1>4. IF open[Only].side = "long" THEN book[Held].sl < ExitPrice(Held)
      ELSE ExitPrice(Held) < book[Held].sl
  BY <1>1, <1>2, OneHeld, SessionAssumption DEF SlHit, Long, Bid, Ask, Position
<1>5. Gain(book[Held].sl) <= Gain(ExitPrice(Held))
  BY <1>3, <1>4, OneHeld DEF Gain, Trade, Position
<1>8. Worst \in Nat /\ Gain(ExitPrice(Held)) \in Int
  BY <1>3, GainsOfHeld, ValidDay
<1>6. CASE open[Only].tp1_done
  <2>1. Gain(book[Held].sl) = 0
    BY <1>6, OneHeld DEF IInv, HeldKept, Gain, Trade
  <2> QED
    BY <1>3, <1>5, <1>8, <2>1
<1>7. CASE ~open[Only].tp1_done
  <2>1. 0 - Worst <= Gain(book[Held].sl)
    BY <1>7 DEF IInv, HeldKept
  <2>2. Gain(book[Held].sl) \in Int
    BY OneHeld, GainsOfHeld DEF Position
  <2> QED
    BY <1>3, <1>5, <1>7, <1>8, <2>1, <2>2
<1> QED
  BY <1>3, <1>6, <1>7

LEMMA NotSwept ==
  ASSUME OnePaperSession, IInv, ~Idle, Held \notin Brackets
  PROVE  /\ SweptBook = book /\ SweptBalance = balance /\ SweptFloating \in Int
<1>1. Brackets = {}
  BY OneHeld DEF Brackets, Crossed
<1>2. book = [t \in Tickets |-> book[t]]
  BY DEF IInv, Shaped
<1>3. SweptBook = book
  BY <1>1, <1>2 DEF SweptBook, Without
<1>4. SweptBalance = balance
  BY <1>1, SweptNone DEF IInv, Shaped
<1>5. Profit(Held, ExitPrice(Held), book[Held].lots) \in Int
  <2>1. book[Held].lots \in Int /\ Gain(ExitPrice(Held)) \in Int
    <3>1. book[Held].lots \in Int
      BY OneHeld, ValidDay
    <3> QED
      BY <3>1, AboveStop, GainsOfHeld
  <2>2. \A i, j \in Int : i * j \in Int
    OBVIOUS
  <2> QED
    BY <2>1, <2>2, AboveStop, GainsOfHeld
<1>6. SweptFloating \in Int
  BY <1>3, <1>5, OneHeld, FloatingOne DEF SweptFloating, Live
<1> QED
  BY <1>3, <1>4, <1>6

\* What the broker closes at a bracket is all there is, at worst at the stop.
LEMMA Swept ==
  ASSUME OnePaperSession, IInv, ~Idle, Held \in Brackets
  PROVE  /\ SweptBook \in [Tickets -> Position]
         /\ \A t \in Tickets : SweptBook[t].lots = 0
         /\ SweptBalance \in Int /\ balance - Lots * Worst <= SweptBalance
         /\ open[Only].tp1_done => balance <= SweptBalance
<1>1. Brackets = {Held} /\ Held \in Live
  BY OneHeld DEF Brackets, Crossed
<1>2. NoPosition \in Position /\ NoPosition.lots = 0
  BY ValidDay DEF NoPosition, Position
<1>3. SweptBook \in [Tickets -> Position] /\ \A t \in Tickets : SweptBook[t].lots = 0
  <2>1. \A t \in Tickets : SweptBook[t] = IF t = Held THEN NoPosition ELSE book[t]
    BY <1>1 DEF SweptBook, Without
  <2>2. SweptBook = [t \in Tickets |-> SweptBook[t]]
    BY DEF SweptBook, Without
  <2> QED
    BY <1>2, <2>1, <2>2 DEF IInv, Shaped, HeldKept
<1> DEFINE level == Level(Held)
           n == book[Held].lots
<1>4. level \in {book[Held].sl, book[Held].tp} /\ level \in Int
  BY OneHeld DEF Level, Position
<1>5. n \in Nat /\ n <= Lots
  BY OneHeld, ValidDay
<1>6. /\ Gain(level) \in Int /\ 0 - Worst <= Gain(level)
      /\ open[Only].tp1_done => 0 <= Gain(level)
  <2>1. Gain(book[Held].tp) >= 0
    BY DEF IInv, HeldKept
  <2>2. IF open[Only].tp1_done THEN Gain(book[Held].sl) = 0
        ELSE 0 - Worst <= Gain(book[Held].sl)
    BY OneHeld DEF IInv, HeldKept, Gain, Trade
  <2>3. Gain(level) \in Int
    BY <1>4, GainsOfHeld
  <2> HIDE DEF level
  <2> QED
    BY <1>4, <2>1, <2>2, <2>3, ValidDay
<1>7. Profit(Held, level, n) = n * Gain(level)
  BY <1>4, <1>5, GainsOfHeld
<1> HIDE DEF level, n
<1>8. /\ n * Gain(level) \in Int /\ 0 - Lots * Worst <= n * Gain(level)
      /\ open[Only].tp1_done => 0 <= n * Gain(level)
  BY <1>5, <1>6, ValidDay, Scaled
<1>9. SweptBalance = balance + n * Gain(level)
  BY <1>1, <1>7, <1>8, SweptOne DEF level, n
<1> QED
  BY <1>3, <1>8, <1>9, ValidDay DEF IInv, Shaped

(* -------------------------------- the steps ------------------------------ *)

\* What the session's limits are after any mark of the account.
LEMMA RatchetKeeps ==
  ASSUME NEW c \in Limits, NEW equity \in Int, c.floor >= 0 - TrailAmount
  PROVE  OnEquity(c, equity) \in Limits /\ OnEquity(c, equity).floor >= 0 - TrailAmount
BY ValidDay DEF OnEquity, Ratchet, Larger, Limits

LEMMA MarkKeeps ==
  ASSUME OnePaperSession, IInv, Marks(Only)
  PROVE  /\ ~Idle /\ Held \notin Brackets
         /\ comp' \in [Symbols -> Limits] /\ comp'[Only].floor >= 0 - TrailAmount
         /\ now' = now /\ bid' = bid /\ seen' = seen
<1>1. ~Idle /\ Held \notin Brackets
  BY DEF Marks, Idle, Held
<1>2. SweptBalance + SweptFloating \in Int
  BY <1>1, NotSwept DEF IInv, Shaped
<1>3. comp[Only] \in Limits /\ comp[Only].floor >= 0 - TrailAmount
  BY OneSymbol DEF IInv, Shaped
<1>4. comp' = [comp EXCEPT ![Only] = OnEquity(comp[Only], SweptBalance + SweptFloating)]
  BY DEF Marks
<1>5. comp' \in [Symbols -> Limits] /\ comp'[Only].floor >= 0 - TrailAmount
  BY <1>2, <1>3, <1>4, RatchetKeeps, OneSymbol DEF IInv, Shaped
<1> QED
  BY <1>1, <1>5 DEF Marks

\* The results after a trade.
LEMMA ResultsAfter ==
  ASSUME NEW r \in Results, NEW pnl \in Int
  PROVE  /\ OnTradeClosed(r, pnl) \in Results
         /\ OnTradeClosed(r, pnl).day_realized = r.day_realized + pnl
         /\ OnTradeClosed(r, pnl).trades_opened = r.trades_opened
         /\ OnTradeClosed(r, pnl).losses_today <= r.losses_today + 1
         /\ LatchHardStop(r) \in Results
         /\ LatchHardStop(r).day_realized = r.day_realized
         /\ LatchHardStop(r).trades_opened = r.trades_opened
         /\ LatchHardStop(r).losses_today = r.losses_today
<1> DEFINE closed == OnTradeClosed(r, pnl)
<1>1. Streak(r.consec_losses, pnl) \in Int
  BY DEF Streak, Results
<1>2. /\ closed.day_realized = r.day_realized + pnl
      /\ closed.trades_opened = r.trades_opened
      /\ closed.losses_today = (IF pnl < 0 THEN r.losses_today + 1 ELSE r.losses_today)
  BY DEF OnTradeClosed
<1>3. closed \in Results
  BY <1>1 DEF OnTradeClosed, Results
<1>4. closed.losses_today <= r.losses_today + 1
  BY <1>2 DEF Results
<1> HIDE DEF closed
<1>5. LatchHardStop(r) \in Results
  BY DEF LatchHardStop, Results
<1>6. /\ LatchHardStop(r).day_realized = r.day_realized
      /\ LatchHardStop(r).trades_opened = r.trades_opened
      /\ LatchHardStop(r).losses_today = r.losses_today
  BY DEF LatchHardStop, Results
<1> QED
  BY <1>2, <1>3, <1>4, <1>5, <1>6 DEF closed

\* A trade ends: nothing is left at the broker and the account made what made
\* is, no less than the worst of a trade, nor than nothing once TP1 was taken.
Ends(state, made) ==
  /\ balance' = balance + made /\ 0 - Lots * Worst <= made
  /\ open[Only].tp1_done => 0 <= made
  /\ book' \in [Tickets -> Position] /\ \A t \in Tickets : book'[t].lots = 0
  /\ Finalize(Only, state, balance')
  /\ comp' \in [Symbols -> Limits] /\ comp'[Only].floor >= 0 - TrailAmount
  /\ now' = now /\ bid' = bid /\ seen' = seen

LEMMA EndKeeps ==
  ASSUME OnePaperSession, IInv, ~Idle, NEW made \in Int,
         NEW state \in {risk[Only], LatchHardStop(risk[Only])}, Ends(state, made)
  PROVE  /\ IInv'
         /\ open[Only].tp1_done => risk'[Only].day_realized >= risk[Only].day_realized
<1> DEFINE pnl == balance' - at_entry[Only]
<1>1. /\ risk[Only] \in Results /\ balance \in Int /\ at_entry[Only] \in Int
      /\ Only \in Symbols
  BY OneSymbol DEF IInv, Shaped
<1>2. balance' \in Int /\ pnl \in Int
  BY <1>1 DEF Ends
<1>3. /\ open' = [open EXCEPT ![Only] = NoTrade] /\ at_entry' = at_entry
      /\ risk' = [risk EXCEPT ![Only] = OnTradeClosed(state, pnl)]
  BY DEF Ends, Finalize
<1>4. open'[Only] = NoTrade /\ risk'[Only] = OnTradeClosed(state, pnl)
  BY <1>1, <1>3 DEF IInv, Shaped
<1>5. /\ state \in Results /\ state.day_realized = risk[Only].day_realized
      /\ state.trades_opened = risk[Only].trades_opened
      /\ state.losses_today = risk[Only].losses_today
  BY <1>1, ResultsAfter
<1> HIDE DEF pnl
<1>6. /\ risk'[Only] \in Results
      /\ risk'[Only].day_realized = risk[Only].day_realized + pnl
      /\ risk'[Only].trades_opened = risk[Only].trades_opened
      /\ risk'[Only].losses_today <= risk[Only].losses_today + 1
  BY <1>2, <1>4, <1>5, ResultsAfter
<1>7. Shaped'
  <2>1. NoTrade \in Trade
    BY SessionAssumption DEF NoTrade, Trade
  <2>2. open' \in [Symbols -> Trade]
    BY <1>3, <2>1 DEF IInv, Shaped
  <2>3. risk' \in [Symbols -> Results]
    BY <1>3, <1>4, <1>6 DEF IInv, Shaped
  <2> QED
    BY <1>2, <1>3, <2>2, <2>3 DEF IInv, Shaped, Ends
<1>8. Counted'
  <2>1. Used' = Used
    BY DEF Used, Ends
  <2>2. /\ risk[Only].losses_today < risk[Only].trades_opened
        /\ 0 <= risk[Only].trades_opened /\ risk[Only].trades_opened <= Used
    BY DEF IInv, Counted
  <2>3. Idle'
    BY <1>4 DEF Idle
  <2>4. /\ risk[Only].losses_today \in Int /\ risk[Only].trades_opened \in Int
        /\ risk'[Only].losses_today \in Int
    BY <1>1, <1>6 DEF Results
  <2>5. risk'[Only].losses_today <= risk'[Only].trades_opened
    BY <1>6, <2>2, <2>4
  <2> QED
    BY <1>6, <2>1, <2>2, <2>3, <2>5 DEF Counted
<1>9. /\ balance >= at_entry[Only] /\ at_entry[Only] = risk[Only].day_realized
      /\ SoftStop < risk[Only].day_realized
  <2>1. open[Only].tp1_done => balance >= at_entry[Only]
    BY DEF IInv, HeldKept
  <2>2. ~open[Only].tp1_done => balance = at_entry[Only]
    BY DEF IInv, HeldKept
  <2> QED
    BY <1>1, <2>1, <2>2 DEF IInv, HeldKept
<1>10. risk'[Only].day_realized = balance'
  BY <1>1, <1>2, <1>6, <1>9 DEF pnl
<1>11. balance' > SoftStop - Lots * Worst
  BY <1>1, <1>9, ValidDay DEF Ends
<1>12. FlatKept'
  BY <1>10, <1>11 DEF FlatKept, Ends
<1>13. HeldKept'
  BY <1>4 DEF HeldKept, Idle
<1>14. open[Only].tp1_done => risk'[Only].day_realized >= risk[Only].day_realized
  BY <1>1, <1>9, <1>10 DEF Ends
<1> QED
  BY <1>7, <1>8, <1>12, <1>13, <1>14 DEF IInv

LEMMA BracketKeeps ==
  ASSUME OnePaperSession, IInv, PollBracket(Only)
  PROVE  /\ IInv'
         /\ open[Only].tp1_done => risk'[Only].day_realized >= risk[Only].day_realized
<1> DEFINE made == SweptBalance - balance
<1>1. ~Idle /\ Held \in Brackets
  BY DEF PollBracket, Idle, Held
<1>2. /\ made \in Int /\ SweptBalance = balance + made /\ 0 - Lots * Worst <= made
      /\ open[Only].tp1_done => 0 <= made
  BY <1>1, Swept, ValidDay DEF IInv, Shaped
<1> HIDE DEF made
<1>3. Ends(risk[Only], made)
  BY <1>1, <1>2, Swept DEF PollBracket, Ends, IInv, Shaped
<1> QED
  BY <1>1, <1>2, <1>3, EndKeeps

\* A close of the session: the brackets found nothing, so the price is above the stop.
LEMMA CloseKeeps ==
  ASSUME OnePaperSession, IInv, Marks(Only), NEW outcome \in Outcomes,
         NEW state \in {risk[Only], LatchHardStop(risk[Only])},
         CloseAll(Only, state, outcome)
  PROVE  /\ IInv'
         /\ open[Only].tp1_done => risk'[Only].day_realized >= risk[Only].day_realized
<1> DEFINE n == book[Held].lots
           gain == Gain(ExitPrice(Held))
<1>1. /\ ~Idle /\ Held \notin Brackets /\ Ticket(Only) = Held
      /\ SweptBook = book /\ SweptBalance = balance
  BY MarkKeeps, NotSwept DEF Held
<1>2. n \in Nat /\ n <= Lots /\ n > 0
  BY <1>1, OneHeld, OneSymbol, ValidDay
<1>3. outcome = "closed"
  <2>1. CASE outcome = "failed"
    <3>1. SweptBook[Ticket(Only)].lots = n
      BY <1>1
    <3>2. Unreliable \/ n = 0
      BY <2>1, <3>1 DEF CloseAll
    <3> QED
      BY <1>2, <3>2, OneSymbol
  <2> QED
    BY <2>1 DEF Outcomes
<1>4. /\ ExitPrice(Held) \in Int /\ gain \in Int /\ 0 - Worst <= gain
      /\ open[Only].tp1_done => 0 <= gain
      /\ Profit(Held, ExitPrice(Held), n) = n * gain
  <2>1. n \in Int
    BY <1>2
  <2> HIDE DEF n
  <2>2. /\ ExitPrice(Held) \in Int /\ 0 - Worst <= gain
        /\ open[Only].tp1_done => 0 <= gain
    BY <1>1, AboveStop
  <2>3. gain \in Int /\ Profit(Held, ExitPrice(Held), n) = n * gain
    BY <1>1, <2>1, <2>2, GainsOfHeld
  <2> QED
    BY <2>2, <2>3
<1>5. /\ balance' = BalanceLess(Held, n) /\ book' = SweptBookWith(Held, PositionLess(SweptBook[Held], n))
      /\ Finalize(Only, state, BalanceLess(Held, n))
  BY <1>1, <1>3 DEF CloseAll
<1> HIDE DEF gain
<1>6. /\ n * gain \in Int /\ 0 - Lots * Worst <= n * gain
      /\ open[Only].tp1_done => 0 <= n * gain
  BY <1>2, <1>4, ValidDay, Scaled
<1>7. BalanceLess(Held, n) = balance + n * gain
  BY <1>1, <1>4 DEF BalanceLess
<1>8. book' \in [Tickets -> Position] /\ \A t \in Tickets : book'[t].lots = 0
  <2>1. NoPosition \in Position /\ NoPosition.lots = 0
    BY ValidDay DEF NoPosition, Position
  <2>2. book' = [u \in Tickets |-> IF u = Held THEN NoPosition ELSE book[u]]
    BY <1>1, <1>5 DEF SweptBookWith, PositionLess
  <2> QED
    BY <1>1, <2>1, <2>2 DEF IInv, Shaped, HeldKept
<1>9. Ends(state, n * gain)
  BY <1>5, <1>6, <1>7, <1>8, MarkKeeps DEF Ends
<1> QED
  BY <1>1, <1>6, <1>9, EndKeeps

\* TP1 is at the entry or better, costs included.
LEMMA TargetGains ==
  ASSUME OnePaperSession, IInv, ~Idle, Tp1Due(Only)
  PROVE  ~open[Only].tp1_done /\ 0 <= Gain(ExitPrice(Held))
<1>1. ExitPrice(Held) = (IF open[Only].side = "long" THEN bid[Only] ELSE bid[Only] + Spread)
  BY OneHeld DEF ExitPrice, Long, Bid, Ask
<1>2. IF open[Only].side = "long" THEN open[Only].tp1 >= open[Only].entry
      ELSE open[Only].tp1 + Spread <= open[Only].entry
  BY DEF IInv, HeldKept
<1> QED
  BY <1>1, <1>2, OneHeld, SessionAssumption DEF Tp1Due, Gain, Trade

\* TP1 banks its part and leaves the rest of the position with its stop at the entry.
LEMMA Tp1Keeps ==
  ASSUME OnePaperSession, IInv, NEW n \in 0..Lots, NEW modified \in BOOLEAN,
         PollTp1(Only, n, modified)
  PROVE  IInv' /\ ~open[Only].tp1_done /\ open'[Only] # NoTrade
<1> DEFINE gain == Gain(ExitPrice(Held))
           left == [lots |-> Rest, entry |-> book[Held].entry,
                    sl |-> open[Only].entry, tp |-> book[Held].tp]
           after == [side |-> open[Only].side, entry |-> open[Only].entry,
                     since |-> open[Only].since, tp1 |-> open[Only].tp1,
                     lots_open |-> Rest, tp1_done |-> TRUE]
<1>1. /\ ~Idle /\ Held \notin Brackets /\ Ticket(Only) = Held
      /\ SweptBook = book /\ SweptBalance = balance
      /\ comp' \in [Symbols -> Limits] /\ comp'[Only].floor >= 0 - TrailAmount
      /\ now' = now /\ bid' = bid /\ seen' = seen
  BY MarkKeeps, NotSwept DEF PollTp1, SellTp1, Held
<1>2. ~open[Only].tp1_done /\ 0 <= gain
  BY <1>1, TargetGains DEF PollTp1, SellTp1
<1>3. /\ book[Held].lots = Lots /\ open[Only].lots_open = Lots
      /\ book[Held].entry = open[Only].entry
  BY <1>1, <1>2 DEF IInv, HeldKept
<1>4. /\ modified /\ n = Tp1Lots
      /\ balance' = BalanceLess(Held, n)
      /\ book' = SweptBookWith(Held, Breakeven(PositionLess(SweptBook[Held], n), open[Only].entry))
      /\ open' = [open EXCEPT ![Only].tp1_done = TRUE, ![Only].lots_open = @ - Tp1Lots]
      /\ UNCHANGED <<at_entry, risk>>
  <2>1. SweptBook[Held].lots = Lots
    BY <1>1, <1>3
  <2>2. n = Tp1Lots /\ modified
    BY <1>1, <2>1, OneSymbol, ValidDay DEF PollTp1, Rest
  <2> QED
    BY <1>1, <2>2 DEF PollTp1, SellTp1
<1>5. Gain(ExitPrice(Held)) \in Int /\ BalanceLess(Held, n) = balance + Tp1Lots * gain
  <2>1. ExitPrice(Held) \in Int /\ Tp1Lots \in Int
    BY <1>1, AboveStop, ValidDay
  <2> QED
    BY <1>1, <1>4, <2>1, GainsOfHeld DEF BalanceLess
<1> HIDE DEF gain
<1>6. balance' \in Int /\ balance <= balance'
  <2>1. gain \in Int
    BY <1>5 DEF gain
  <2>2. Tp1Lots * gain \in Int /\ 0 <= Tp1Lots * gain
    <3>1. \A i \in Nat, j \in Int : i * j \in Int /\ (0 <= j => 0 <= i * j)
      OBVIOUS
    <3> QED
      BY <1>2, <2>1, <3>1, ValidDay
  <2> QED
    BY <1>4, <1>5, <2>2 DEF IInv, Shaped
<1>7. Breakeven(PositionLess(SweptBook[Held], n), open[Only].entry) = left /\ left \in Position
  <2>1. book[Held] \in Position /\ open[Only] \in Trade
    BY <1>1, OneHeld
  <2>2. n # SweptBook[Held].lots /\ SweptBook[Held].lots - n = Rest
    BY <1>1, <1>3, <1>4, OneSymbol, ValidDay
  <2>3. PositionLess(SweptBook[Held], n) = [SweptBook[Held] EXCEPT !.lots = Rest]
    BY <2>2 DEF PositionLess
  <2> DEFINE p == [lots |-> Rest, entry |-> book[Held].entry,
                   sl |-> book[Held].sl, tp |-> book[Held].tp]
  <2>4. PositionLess(SweptBook[Held], n) = p
    BY <1>1, <2>1, <2>3 DEF Position
  <2>5. p.lots # 0 /\ [p EXCEPT !.sl = open[Only].entry] = left
    BY ValidDay, OneSymbol
  <2> HIDE DEF p, left
  <2>6. Breakeven(PositionLess(SweptBook[Held], n), open[Only].entry) = left
    BY <2>4, <2>5 DEF Breakeven
  <2>7. left \in Position
    BY <2>1, ValidDay DEF Position, Trade, left
  <2> QED
    BY <2>6, <2>7
<1>8. book' = [u \in Tickets |-> IF u = Held THEN left ELSE book[u]]
  BY <1>1, <1>4, <1>7 DEF SweptBookWith
<1>9. open'[Only] = after /\ open' \in [Symbols -> Trade] /\ open'[Only] # NoTrade
  <2>1. open[Only] \in Trade /\ Only \in Symbols /\ open \in [Symbols -> Trade]
    BY <1>1, OneHeld, OneSymbol DEF IInv, Shaped
  <2>2. open'[Only] = [open[Only] EXCEPT !.tp1_done = TRUE, !.lots_open = @ - Tp1Lots]
    BY <1>4, <2>1
  <2>3. open[Only].lots_open - Tp1Lots = Rest
    BY <1>3, ValidDay
  <2>4. open'[Only] = after
    BY <2>1, <2>2, <2>3 DEF Trade
  <2>5. after \in Trade /\ after.tp1_done # NoTrade.tp1_done
    BY <2>1 DEF Trade, NoTrade
  <2> HIDE DEF after
  <2>6. open' = [open EXCEPT ![Only] = open'[Only]]
    BY <1>4, <2>1
  <2> QED
    BY <2>1, <2>4, <2>5, <2>6
<1>10. Shaped'
  <2>1. book' \in [Tickets -> Position]
    BY <1>7, <1>8 DEF IInv, Shaped
  <2> QED
    BY <1>1, <1>4, <1>6, <1>9, <2>1 DEF IInv, Shaped
<1>11. Counted'
  <2>1. ~Idle'
    BY <1>9 DEF Idle
  <2> QED
    BY <1>1, <1>4, <2>1 DEF IInv, Counted, Used
<1>12. FlatKept'
  BY <1>9 DEF FlatKept, Idle
<1>13. HeldKept'
  <2>1. Held' = Held
    BY <1>9 DEF Held, Ticket
  <2>2. Held \in Tickets
    BY <1>1, OneHeld
  <2>3. book'[Held] = left /\ \A t \in Tickets : t # Held => book'[t] = book[t]
    BY <1>8, <2>2
  <2>4. \A price : Gain(price)' = Gain(price)
    BY <1>9 DEF Gain
  <2>5. /\ book'[Held].lots = Rest /\ book'[Held].entry = open[Only].entry
        /\ book'[Held].sl = open[Only].entry /\ book'[Held].tp = book[Held].tp
    BY <1>3, <2>3
  <2>6. Gain(book[Held].tp)' >= 0
    BY <1>1, <2>1, <2>3, <1>9 DEF IInv, HeldKept, Gain
  <2>7. balance' >= at_entry[Only] /\ at_entry[Only] = risk[Only].day_realized
    <3>1. balance = at_entry[Only] /\ balance \in Int
      BY <1>1, <1>2 DEF IInv, Shaped, HeldKept
    <3> QED
      BY <1>1, <1>6, <3>1 DEF IInv, HeldKept
  <2>8. /\ open'[Only].side = open[Only].side /\ open'[Only].entry = open[Only].entry
        /\ open'[Only].tp1 = open[Only].tp1 /\ open'[Only].lots_open = Rest
        /\ open'[Only].tp1_done
    BY <1>9
  <2>9. \A t \in Tickets : t # Held => book'[t].lots = 0
    BY <1>1, <2>3 DEF IInv, HeldKept
  <2> QED
    BY <1>1, <1>4, <2>1, <2>5, <2>6, <2>7, <2>8, <2>9 DEF IInv, HeldKept
<1> QED
  BY <1>2, <1>9, <1>10, <1>11, <1>12, <1>13 DEF IInv

\* The engine emits a setup once: what is used up grows with it.
LEMMA EmitUses ==
  ASSUME OnePaperSession, IInv, NEW t \in Tickets, Emits(t)
  PROVE  Used' = Used + 1 /\ seen' \subseteq Tickets /\ now \in 0..EntryEnd
<1>1. Used' = Used + 1
  BY OneSymbol DEF Emits, Used
<1> QED
  BY <1>1, SessionAssumption DEF Emits, IInv, Shaped

\* What an entry needs: no trade, and the day above its soft stop.
LEMMA EntryAllowed ==
  ASSUME MayEnter(Only)
  PROVE  Idle /\ ~SoftStopped(risk[Only])
<1> DEFINE h == Halts(risk[Only])
<1>1. \A code \in DOMAIN h : ~h[code]
  BY DEF MayEnter, EntryHalts
<1>2. ~h.DAILY_HARD_STOP /\ ~h.DAILY_SOFT_STOP
  <2>1. {"DAILY_HARD_STOP", "DAILY_SOFT_STOP"} \subseteq DOMAIN h
    BY DEF Halts
  <2> HIDE DEF h
  <2> QED
    BY <1>1, <2>1
<1> QED
  BY <1>2 DEF Halts, MayEnter, Idle

LEMMA EntryKeeps ==
  ASSUME OnePaperSession, IInv, NEW t \in Tickets, NEW ref \in (Bid(t) - Drift)..(Bid(t) + Drift),
         EntryFilled(t, ref)
  PROVE  IInv' /\ open[Only] = NoTrade /\ open'[Only] # NoTrade
<1> DEFINE price == EntryPrice(t)
           position == [lots |-> Lots, entry |-> price,
                        sl |-> ref - Away(t, Stop), tp |-> ref + Away(t, Target)]
           trade == [side |-> t[2], entry |-> price, since |-> now,
                     tp1 |-> ref + Away(t, Tp1), lots_open |-> Lots,
                     tp1_done |-> FALSE]
<1>1. /\ t[1] = Only /\ t[2] \in Sides /\ t = <<Only, t[2]>> /\ Only \in Symbols
      /\ bid[Only] \in Int
  <2>1. Only \in Symbols
    BY OneSymbol
  <2>2. bid[Only] \in Int
    BY <2>1, SessionAssumption DEF IInv, Shaped
  <2>3. t[1] = Only /\ t[2] \in Sides /\ t = <<Only, t[2]>>
    BY OneSymbol DEF Sides
  <2> QED
    BY <2>1, <2>2, <2>3
<1>2. Idle /\ ~SoftStopped(risk[Only])
  BY <1>1, EntryAllowed DEF EntryFilled
<1>3. /\ balance \in Int /\ risk[Only] \in Results /\ risk[Only].day_realized = balance
      /\ \A u \in Tickets : book[u].lots = 0
  BY <1>1, <1>2 DEF IInv, Shaped, FlatKept
<1>4. /\ book' = [book EXCEPT ![t] = position] /\ open' = [open EXCEPT ![Only] = trade]
      /\ at_entry' = [at_entry EXCEPT ![Only] = balance]
      /\ risk' = [risk EXCEPT ![Only] = OnEntryOpened(risk[Only])]
      /\ UNCHANGED <<now, bid, balance, comp>> /\ Emits(t)
  BY <1>1 DEF EntryFilled, Bracketed
<1>5. Used' = Used + 1 /\ seen' \subseteq Tickets /\ now \in 0..EntryEnd
  BY <1>4, EmitUses
<1>6. /\ Bid(t) = bid[Only]
      /\ price = IF t[2] = "long" THEN bid[Only] + Spread ELSE bid[Only]
      /\ Away(t, Stop) = IF t[2] = "long" THEN Stop ELSE 0 - Stop
      /\ Away(t, Tp1) = IF t[2] = "long" THEN Tp1 ELSE 0 - Tp1
      /\ Away(t, Target) = IF t[2] = "long" THEN Target ELSE 0 - Target
  BY <1>1 DEF Bid, Ask, EntryPrice, Long, Away
<1>7. /\ ref \in Int /\ bid[Only] - Drift <= ref /\ ref <= bid[Only] + Drift
  BY <1>1, <1>6, SessionAssumption
<1> HIDE DEF price
<1>8. /\ price \in Int /\ position.sl \in Int /\ position.tp \in Int /\ trade.tp1 \in Int
  BY <1>1, <1>6, <1>7, SessionAssumption
<1>9. IF t[2] = "long"
      THEN 0 - Worst <= position.sl - price /\ 0 <= position.tp - price
             /\ price <= trade.tp1
      ELSE 0 - Worst <= price - position.sl /\ 0 <= price - position.tp
             /\ trade.tp1 + Spread <= price
  BY <1>1, <1>6, <1>7, OneSymbol, SessionAssumption DEF Worst
<1>10. position \in Position /\ trade \in Trade /\ trade.side # "none"
  BY <1>1, <1>5, <1>8, ValidDay, SessionAssumption DEF Position, Trade, Sides
<1>11. /\ position.lots = Lots /\ position.entry = price
       /\ trade.side = t[2] /\ trade.entry = price /\ trade.lots_open = Lots
       /\ ~trade.tp1_done
  OBVIOUS
<1> HIDE DEF position, trade
<1>12. open'[Only] = trade /\ open'[Only] # NoTrade
  BY <1>1, <1>4, <1>10 DEF IInv, Shaped, NoTrade
<1>13. OnEntryOpened(risk[Only]) \in Results
       /\ OnEntryOpened(risk[Only]).trades_opened = risk[Only].trades_opened + 1
       /\ OnEntryOpened(risk[Only]).losses_today = risk[Only].losses_today
       /\ OnEntryOpened(risk[Only]).day_realized = risk[Only].day_realized
  BY <1>3 DEF OnEntryOpened, Results
<1>14. risk'[Only] = OnEntryOpened(risk[Only])
  BY <1>1, <1>4 DEF IInv, Shaped
<1>15. Shaped'
  <2>1. risk' \in [Symbols -> Results]
    BY <1>4, <1>13 DEF IInv, Shaped
  <2>2. book' \in [Tickets -> Position] /\ open' \in [Symbols -> Trade]
    BY <1>4, <1>10 DEF IInv, Shaped
  <2>3. at_entry' \in [Symbols -> Int]
    BY <1>3, <1>4 DEF IInv, Shaped
  <2> QED
    BY <1>4, <1>5, <2>1, <2>2, <2>3 DEF IInv, Shaped
<1>16. Counted'
  <2>1. /\ 0 <= risk[Only].trades_opened /\ risk[Only].trades_opened <= Used
        /\ risk[Only].losses_today <= risk[Only].trades_opened
    BY DEF IInv, Counted
  <2>2. /\ risk[Only].trades_opened \in Int /\ risk[Only].losses_today \in Int /\ Used \in Int
    BY <1>3 DEF Results, Used
  <2>3. /\ risk'[Only].trades_opened = risk[Only].trades_opened + 1
        /\ risk'[Only].losses_today = risk[Only].losses_today
    BY <1>13, <1>14
  <2> QED
    BY <1>5, <2>1, <2>2, <2>3 DEF Counted
<1>17. FlatKept'
  BY <1>12 DEF FlatKept, Idle
<1>18. HeldKept'
  <2>1. Held' = t
    BY <1>1, <1>11, <1>12 DEF Held, Ticket
  <2>2. book'[t] = position /\ \A u \in Tickets : u # t => book'[u].lots = 0
    BY <1>3, <1>4 DEF IInv, Shaped
  <2>3. at_entry'[Only] = balance /\ risk'[Only].day_realized = balance
    BY <1>1, <1>3, <1>4, <1>13, <1>14 DEF IInv, Shaped
  <2>4. SoftStop < balance
    BY <1>2, <1>3, ValidDay DEF SoftStopped
  <2>5. 0 - Worst <= Gain(book[t].sl)' /\ Gain(book[t].tp)' >= 0
    <3>1. /\ Gain(book[t].sl)' = (IF t[2] = "long" THEN position.sl - price
                                 ELSE price - position.sl)
          /\ Gain(book[t].tp)' = (IF t[2] = "long" THEN position.tp - price
                                 ELSE price - position.tp)
      BY <1>11, <1>12, <2>2 DEF Gain
    <3> QED
      BY <1>8, <1>9, <3>1
  <2> QED
    BY <1>1, <1>4, <1>9, <1>11, <1>12, <2>1, <2>2, <2>3, <2>4, <2>5 DEF HeldKept, Gain
<1> QED
  BY <1>2, <1>12, <1>15, <1>16, <1>17, <1>18 DEF IInv, Idle

\* A setup that is filtered, or ordered in vain: only the account at entry moves.
LEMMA NoEntryKeeps ==
  ASSUME OnePaperSession, IInv, NEW t \in Tickets,
         \/ SetupFiltered(t)
         \/ \E ref \in (Bid(t) - Drift)..(Bid(t) + Drift) : EntryFailed(t, ref)
  PROVE  IInv' /\ open' = open
<1>1. /\ Emits(t) /\ UNCHANGED <<now, bid, balance, book, open, risk, comp>>
      /\ \/ at_entry' = at_entry
         \/ Idle /\ at_entry' = [at_entry EXCEPT ![Only] = balance]
  <2>1. t[1] = Only
    BY OneSymbol
  <2> QED
    BY <2>1, OneSymbol DEF SetupFiltered, EntryFailed, MayEnter, Idle, account, session
<1>2. Used' = Used + 1 /\ seen' \subseteq Tickets
  BY <1>1, EmitUses
<1>3. Shaped'
  BY <1>1, <1>2 DEF IInv, Shaped
<1>4. Counted'
  BY <1>1, <1>2, OneSymbol DEF IInv, Counted, Idle, Shaped, Results, Used
<1>5. FlatKept'
  BY <1>1 DEF IInv, FlatKept, Idle
<1>6. HeldKept'
  BY <1>1 DEF IInv, HeldKept, Idle, Held, Ticket, Gain
<1> QED
  BY <1>1, <1>3, <1>4, <1>5, <1>6 DEF IInv

\* The feed, the clock, and a poll that finds nothing to do.
LEMMA OtherKeeps ==
  ASSUME OnePaperSession, IInv,
         Market \/ PollFlat(Only) \/ PollKeep(Only) \/ UNCHANGED vars
  PROVE  IInv' /\ open' = open
<1>1. /\ UNCHANGED <<balance, book, session, seen>>
      \/ /\ UNCHANGED <<now, bid, balance, book, open, at_entry, risk, seen>>
         /\ comp' \in [Symbols -> Limits] /\ comp'[Only].floor >= 0 - TrailAmount
  <2>1. CASE Market \/ UNCHANGED vars
    BY <2>1 DEF Market, Quote, Tick, vars, account
  <2>2. CASE PollFlat(Only)
    BY <2>2, NothingHeld DEF PollFlat, Idle
  <2>3. CASE PollKeep(Only)
    BY <2>3, MarkKeeps, NotSwept DEF PollKeep
  <2> QED
    BY <2>1, <2>2, <2>3
<1>2. now' \in 0..MaxTime /\ bid' \in [Symbols -> Prices]
  <2>1. now' \in 0..MaxTime
    BY <1>1, OneSymbol, SessionAssumption
       DEF IInv, Shaped, Market, Quote, Tick, vars, PollFlat, PollKeep, Marks
  <2>2. bid' \in [Symbols -> Prices]
    BY DEF IInv, Shaped, Market, Quote, Tick, vars, PollFlat, PollKeep, Marks
  <2> QED
    BY <2>1, <2>2
<1>3. Shaped'
  BY <1>1, <1>2 DEF IInv, Shaped, session
<1>4. Counted' /\ FlatKept'
  BY <1>1 DEF IInv, Counted, FlatKept, Idle, Used, session
<1>5. HeldKept'
  BY <1>1 DEF IInv, HeldKept, Idle, Held, Ticket, Gain, session
<1> QED
  BY <1>1, <1>3, <1>4, <1>5 DEF IInv, session

LEMMA InitKept == ASSUME OnePaperSession, Init PROVE IInv
<1>1. open[Only] = NoTrade /\ risk[Only] = InitialRisk /\ seen = {}
  BY OneSymbol DEF Init
<1>2. \A s \in Symbols : comp[s] = [hwm |-> 0, floor |-> 0 - TrailAmount, day_anchor |-> 0]
  BY ValidDay DEF Init, OnDailyReset, InitialCompliance
<1>3. Shaped
  <2>1. NoPosition \in Position
    BY ValidDay DEF NoPosition, Position
  <2>2. NoTrade \in Trade
    BY SessionAssumption DEF NoTrade, Trade
  <2>3. InitialRisk \in Results
    BY DEF InitialRisk, Results
  <2>4. comp \in [Symbols -> Limits]
    BY <1>2, ValidDay DEF Init, Limits, OnDailyReset, InitialCompliance
  <2>5. comp[Only].floor >= 0 - TrailAmount
    BY <1>2, OneSymbol, ValidDay
  <2>6. now \in 0..MaxTime /\ bid \in [Symbols -> Prices]
    BY SessionAssumption DEF Init
  <2> QED
    BY <2>1, <2>2, <2>3, <2>4, <2>5, <2>6 DEF Init, Shaped
<1>4. Counted
  BY <1>1 DEF Counted, Idle, InitialRisk, Used
<1>5. FlatKept
  <2>1. 0 > SoftStop - Lots * Worst
    BY ValidDay
  <2> QED
    BY <1>1, <2>1 DEF Init, FlatKept, InitialRisk, NoPosition
<1>6. HeldKept
  BY <1>1 DEF HeldKept, Idle
<1> QED
  BY <1>3, <1>4, <1>5, <1>6 DEF IInv

\* Every step keeps the invariant, and ends a trade that took TP1 without a loss.
LEMMA StepKept ==
  ASSUME OnePaperSession, IInv, [Next]_vars
  PROVE  /\ IInv'
         /\ open[Only].tp1_done /\ open'[Only] = NoTrade
              => risk'[Only].day_realized >= risk[Only].day_realized
<1>1. open[Only] = NoTrade => ~open[Only].tp1_done
  BY DEF NoTrade
<1>2. CASE Poll(Only)
  <2>1. CASE PollFlat(Only) \/ PollKeep(Only)
    BY <1>1, <2>1, OtherKeeps DEF PollKeep, Marks
  <2>2. CASE PollBracket(Only)
    BY <2>2, BracketKeeps
  <2>3. ASSUME NEW o \in Outcomes, PollHardStop(Only, o) \/ PollExit(Only, o)
        PROVE  /\ IInv'
               /\ open[Only].tp1_done => risk'[Only].day_realized >= risk[Only].day_realized
    BY <2>3, CloseKeeps DEF PollHardStop, PollExit
  <2>4. ASSUME NEW n \in 0..Lots, NEW modified \in BOOLEAN,
               PollTp1(Only, n, modified) \/ PollTp1Raises(Only, n, modified)
        PROVE  IInv' /\ ~open[Only].tp1_done
    BY <2>4, Tp1Keeps, OneSymbol DEF PollTp1Raises
  <2> QED
    BY <1>2, <2>1, <2>2, <2>3, <2>4 DEF Poll
<1>3. ASSUME NEW t \in Tickets, Enter(t)
      PROVE  IInv' /\ (open' = open \/ open[Only] = NoTrade)
  BY <1>3, EntryKeeps, NoEntryKeeps DEF Enter
<1>4. CASE Market \/ UNCHANGED vars
  BY <1>1, <1>4, OtherKeeps
<1> QED
  BY <1>1, <1>2, <1>3, <1>4, OneSymbol DEF Next

(* -------------------------------- theorems ------------------------------- *)

\* The invariant holds in every state of a session on a paper broker
\* (_LiveTrade, _balance_at_entry and the positions of PaperBroker).
THEOREM Inductive ==
  ASSUME OnePaperSession
  PROVE  Spec => []IInv
<1>1. Init => IInv
  BY InitKept
<1>2. IInv /\ [Next]_vars => IInv'
  BY StepKept
<1> QED
  BY <1>1, <1>2, PTL DEF Spec

\* The state keeps its shape: two trades a day at most, no more losses than
\* trades, the anchor of the day and a floor that only goes up (runner.py,
\* risk.py on_entry_opened, compliance.py on_equity).
THEOREM TypeCorrect ==
  ASSUME OnePaperSession
  PROVE  Spec => []TypeOK
<1>1. IInv => TypeOK
  <2> SUFFICES ASSUME IInv PROVE TypeOK
    OBVIOUS
  <2>1. ASSUME NEW s \in Symbols
        PROVE  /\ risk[s].trades_opened \in 0..2
               /\ risk[s].losses_today <= risk[s].trades_opened
               /\ comp[s].day_anchor = 0 /\ comp[s].floor >= 0 - TrailAmount
    <3>1. s = Only /\ comp[s] \in Limits /\ risk[s] \in Results
      BY OneSymbol DEF IInv, Shaped
    <3>2. Used \in 0..2
      BY DEF Used
    <3>3. /\ risk[s].trades_opened \in 0..2
          /\ risk[s].losses_today <= risk[s].trades_opened
      <4>1. risk[s].trades_opened \in Int
        BY <3>1 DEF Results
      <4> QED
        BY <3>1, <3>2, <4>1 DEF IInv, Counted
    <3>4. comp[s].day_anchor = 0 /\ comp[s].floor >= 0 - TrailAmount
      BY <3>1 DEF IInv, Shaped, Limits
    <3> QED
      BY <3>3, <3>4
  <2> QED
    BY <2>1 DEF IInv, Shaped, TypeOK, Position, Trade, Rest
<1> QED
  BY <1>1, Inductive, PTL

\* Without an open trade the risk rules have booked what the account made: TP1
\* legs, brackets the broker fired and closes of the session (_finalize_close).
THEOREM BooksHold ==
  ASSUME OnePaperSession
  PROVE  Spec => []BooksAgree
<1>1. IInv => BooksAgree
  BY OneSymbol DEF IInv, FlatKept, Idle, BooksAgree
<1> QED
  BY <1>1, Inductive, PTL

\* Session and broker hold the same position, with the volume, the entry and,
\* after TP1, the breakeven stop that the session remembers.
THEOREM MirrorHolds ==
  ASSUME OnePaperSession
  PROVE  Spec => []SessionMirrorsBroker
<1>1. IInv => SessionMirrorsBroker
  <2> SUFFICES ASSUME IInv PROVE SessionMirrorsBroker
    OBVIOUS
  <2>1. CASE Idle
    BY <2>1, OneSymbol, NothingHeld DEF Idle, SessionMirrorsBroker
  <2>2. CASE ~Idle
    <3>1. Live = {Held}
      BY <2>2, OneHeld
    <3>2. {Ticket(s) : s \in {u \in Symbols : open[u] # NoTrade}} = {Held}
      BY <2>2, OneSymbol DEF Idle, Held
    <3> QED
      BY <2>2, <3>1, <3>2, OneSymbol DEF SessionMirrorsBroker, IInv, HeldKept, Held
  <2> QED
    BY <2>1, <2>2
<1> QED
  BY <1>1, Inductive, PTL

\* A trade that took its TP1 never ends as a loss, whichever way it ends
\* (manage_on_quote, the breakeven stop and check_brackets).
THEOREM Tp1Holds ==
  ASSUME OnePaperSession
  PROVE  Spec => Tp1Protects
<1>1. IInv /\ [Next]_vars
        => \A s \in Symbols : open[s].tp1_done /\ open'[s] = NoTrade
                                => risk'[s].day_realized >= risk[s].day_realized
  BY StepKept, OneSymbol
<1> QED
  BY <1>1, Inductive, PTL DEF Spec, Tp1Protects

\* The firm's daily limit has room for one worst trade under the soft stop.
DayMargin == Lots * Worst - SoftStop <= DailyLoss

\* With that room no gap of the feed takes the account to the firm's daily
\* limit between trades: entries stop at the soft stop (entry_halts), and a
\* trade loses at most the distance from its entry to its stop.
THEOREM DayLossHolds ==
  ASSUME OnePaperSession, DayMargin
  PROVE  Spec => []DayLossBounded
<1>1. IInv => DayLossBounded
  <2> SUFFICES ASSUME IInv, NEW s \in Symbols, open[s] = NoTrade
               PROVE  ~FirmDailyBreached(comp[s], balance)
    BY DEF DayLossBounded
  <2>1. s = Only /\ Idle /\ comp[s] \in Limits /\ balance \in Int
    BY OneSymbol DEF Idle, IInv, Shaped
  <2>2. balance > SoftStop - Lots * Worst
    BY <2>1 DEF IInv, FlatKept
  <2>3. 0 - balance < DailyLoss /\ 0 < DailyLoss
    BY <2>1, <2>2, ValidDay DEF DayMargin
  <2> QED
    BY <2>1, <2>3, ValidDay DEF FirmDailyBreached, FirmDailyLossUsed, Larger, Limits
<1> QED
  BY <1>1, Inductive, PTL

===============================================================================
