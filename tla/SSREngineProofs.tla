--------------------------- MODULE SSREngineProofs ---------------------------
(***************************************************************************)
(* Proofs about SSREngine, for every feed and every configuration.  The    *)
(* two directions are one attempt seen from two sides, so what a bar does  *)
(* is proved once, for an attempt whose range and bar are already faced.   *)
(***************************************************************************)
EXTENDS SSREngine, TLAPS

\* What the configuration demands, spelled out for the provers.
LEMMA ValidParams ==
  /\ Pip \in Nat \ {0} /\ RangeMin \in Nat /\ SweepMin \in Nat \ {0}
  /\ StopMin \in Nat \ {0} /\ StopMax \in Nat /\ StopMin < StopMax
  /\ StopBuffer \in Nat \ {0} /\ ReclaimBars \in Nat \ {0}
  /\ Unit \in Nat \ {0} /\ RangeMax \in Nat /\ SweepMax \in Nat /\ Quality \in Nat
  /\ Tp1R \in Nat \ {0} /\ Tp2R \in Nat /\ Tp1R < Tp2R
BY ParamAssumption DEF ParamsValid

Prices == [high : Int, low : Int]
Bar == [h : Int, l : Int, c : Int, spread : Nat]
AttemptType == [state : {"watching", "swept", "done"}, extreme : Int,
                bars : 0..ReclaimBars]

Shallow(r, w) == Penetrates(r, r.low - w) /\ ~TooDeep(r, r.low - w)

\* An attempt that waits for its reclaim knows the furthest price of the sweep.
Alive(a, r, w) == a.state = "swept" => a.extreme = w /\ Shallow(r, w)

Sound(c, r, w) ==
  /\ c.sl + Unit * StopBuffer <= Unit * w
  /\ c.ref < c.tp1 /\ c.tp1 < c.tp2 /\ c.tp2 < Unit * r.high
  /\ Unit * r.low < c.ref
  /\ Tp1CoversStop => c.tp1 - c.ref >= c.ref - c.sl
  /\ w < r.low
  /\ Shallow(r, w)

Furthest(a, r, b, w) ==
  IF Idle(a, r, b) THEN 0
  ELSE IF a.state = "watching" THEN b.l ELSE Lower(w, b.l)

\* What is known of one direction: its attempt, its range, the latest setup, the
\* furthest price, the number of setups.
OneSide(a, r, c, w, n) ==
  /\ Alive(a, r, w)
  /\ c # NoSetup => Sound(c, r, w) /\ a.state = "done"
  /\ n <= 1 /\ (n = 1 => a.state = "done")

Side(d) ==
  OneSide(attempts[d], FacedRange(d, range), out[d], worst[d], setups[d])

Untouched ==
  phase # "locked" =>
    /\ attempts = [d \in Directions |-> Watching]
    /\ out = [d \in Directions |-> NoSetup]
    /\ setups = [d \in Directions |-> 0]

LockKept ==
  phase = "locked" =>
    /\ slot >= AsianBars /\ ~day.violated
    /\ asian.n + MaxMissing >= AsianBars
    /\ Unit * Width(range) <= RangeMax * day.adr

\* Both setups of a bar are measured from its close.
SameClose ==
  \A d \in Directions : out[d] # NoSetup =>
    \A e \in Directions : out[e] # NoSetup =>
      (d = e \/ out[d].ref = 0 - out[e].ref)

IInv ==
  /\ TypeOK /\ Untouched /\ LockKept /\ SameClose
  /\ \A d \in Directions : Side(d)

(* ------------------------------ one attempt ------------------------------ *)

\* Facing keeps the types.
LEMMA Facing ==
  ASSUME NEW d \in Directions
  PROVE  /\ \A r \in Prices : FacedRange(d, r) \in Prices
         /\ \A b \in Bar : FacedBar(d, b) \in Bar
BY DEF Directions, FacedRange, FacedBar, Prices, Bar

\* Products with Unit keep the order, and those with a larger factor are larger.
LEMMA Scaling ==
  /\ \A x, y \in Int : x < y => Unit * x < Unit * y
  /\ \A x, y \in Int : x <= y => Unit * x <= Unit * y
  /\ \A x, y \in Int : Unit * x \in Int /\ Unit * (x + y) = Unit * x + Unit * y
  /\ \A x, y \in Int : Unit * (x - y) = Unit * x - Unit * y
  /\ \A x \in Nat : Tp1CoversStop => Tp1R * x >= Unit * x
<1> USE ValidParams
<1>1. \A x, y \in Int : /\ Unit * x \in Int /\ Unit * (x + y) = Unit * x + Unit * y
                        /\ Unit * (x - y) = Unit * x - Unit * y
  OBVIOUS
<1>2. \A z \in Nat \ {0} : Unit * z \in Nat /\ Unit * z > 0
  OBVIOUS
<1>3. ASSUME NEW x \in Int, NEW y \in Int, x < y PROVE Unit * x < Unit * y
  <2>1. y - x \in Nat \ {0} /\ y = x + (y - x)
    BY <1>3
  <2>2. Unit * y = Unit * x + Unit * (y - x)
    BY <1>1, <2>1
  <2> QED
    BY <1>1, <1>2, <2>1, <2>2
<1>4. ASSUME NEW x \in Int, NEW y \in Int, x <= y PROVE Unit * x <= Unit * y
  <2>1. x = y \/ x < y
    BY <1>4
  <2> QED
    BY <1>1, <1>3, <2>1
<1>5. ASSUME NEW x \in Nat, Tp1CoversStop PROVE Tp1R * x >= Unit * x
  <2>1. Tp1R - Unit \in Nat
    BY <1>5 DEF Tp1CoversStop
  <2>2. Tp1R * x = Unit * x + (Tp1R - Unit) * x /\ (Tp1R - Unit) * x \in Nat
    BY <2>1
  <2> QED
    BY <1>1, <2>2
<1> QED
  BY <1>1, <1>3, <1>4, <1>5

\* What an attempt is after a bar.
LEMMA ProcessKeeps ==
  ASSUME NEW r \in Prices, NEW b \in Bar, NEW a \in AttemptType, NEW w \in Int,
         Alive(a, r, w)
  PROVE  /\ Process(a, r, b) \in AttemptType
         /\ Furthest(a, r, b, w) \in Int
         /\ Alive(Process(a, r, b), r, Furthest(a, r, b, w))
         /\ a.state = "done" => Process(a, r, b).state = "done"
<1> USE ValidParams
<1> DEFINE p == Process(a, r, b)  f == Furthest(a, r, b, w)
<1>1. CASE Idle(a, r, b)
  <2>1. p = a /\ f = 0
    BY <1>1 DEF Process, Furthest
  <2>2. a.state \in {"done", "watching"}
    BY <1>1 DEF Idle
  <2> QED
    BY <2>1, <2>2 DEF Alive
<1>2. CASE ~Idle(a, r, b) /\ Over(a, r, b)
  <2>1. p = Done /\ f \in Int
    BY <1>2 DEF Process, Furthest, Lower, Bar
  <2> QED
    BY <2>1 DEF Done, Alive, AttemptType
<1>3. CASE ~Idle(a, r, b) /\ ~Over(a, r, b)
  <2>1. p = Swept(a, b) /\ ~TooDeep(r, Pen(r, b)) /\ ~Expired(Swept(a, b))
    BY <1>3 DEF Process, Over
  <2>2. CASE a.state = "watching"
    <3>1. p = [state |-> "swept", extreme |-> b.l, bars |-> 0] /\ f = b.l
      BY <1>3, <2>1, <2>2 DEF Swept, Furthest
    <3>2. Penetrates(r, Pen(r, b))
      BY <1>3, <2>2 DEF Idle
    <3> QED
      BY <2>1, <2>2, <3>1, <3>2 DEF Alive, AttemptType, Shallow, Pen, Bar
  <2>3. CASE a.state # "watching"
    <3>1. a.state = "swept"
      BY <1>3, <2>3 DEF Idle, AttemptType
    <3>2. p = [state |-> "swept", extreme |-> Lower(w, b.l), bars |-> a.bars + 1]
          /\ f = Lower(w, b.l)
      BY <1>3, <2>1, <3>1 DEF Swept, Furthest, Alive
    <3>3. p.bars \in 0..ReclaimBars
      BY <2>1, <3>2 DEF Expired, AttemptType
    <3>4. Shallow(r, Lower(w, b.l))
      <4>1. CASE Lower(w, b.l) = w
        BY <3>1, <4>1 DEF Alive
      <4>2. CASE Lower(w, b.l) = b.l /\ b.l <= w
        <5>1. Penetrates(r, r.low - w)
          BY <3>1 DEF Alive, Shallow
        <5>2. Penetrates(r, Pen(r, b))
          BY <4>2, <5>1 DEF Penetrates, Pen, Width, Prices, Bar
        <5> QED
          BY <2>1, <4>2, <5>2 DEF Shallow, Pen
      <4> QED
        BY <4>1, <4>2 DEF Lower, Bar
    <3>5. Lower(w, b.l) \in Int
      BY DEF Lower, Bar
    <3> QED
      BY <3>1, <3>2, <3>3, <3>4, <3>5 DEF Alive, AttemptType
  <2> QED
    BY <2>2, <2>3
<1> QED
  BY <1>1, <1>2, <1>3

\* What a setup is.
LEMMA ReclaimIsSound ==
  ASSUME NEW r \in Prices, NEW b \in Bar, NEW a \in AttemptType, NEW w \in Int,
         Alive(a, r, w), Reclaims(a, r, b)
  PROVE  /\ Sound(Candidate(a, r, b), r, Furthest(a, r, b, w))
         /\ Candidate(a, r, b) \in Setup
         /\ Process(a, r, b).state = "done"
         /\ a.state # "done"
<1> USE ValidParams
<1> DEFINE f == Furthest(a, r, b, w)  c == Candidate(a, r, b)
           e == Swept(a, b).extreme  sl == e - (StopBuffer + b.spread)
           stop == b.c - sl
<1>1. ~Idle(a, r, b) /\ ~TooDeep(r, Pen(r, b)) /\ Inside(r, b)
      /\ StopOk(c) /\ TargetsOk(c)
  BY DEF Reclaims
<1>2. Process(a, r, b) = Done /\ a.state # "done"
  BY <1>1 DEF Process, Over, Idle
<1>3. e = f /\ e \in Int /\ Shallow(r, f)
  <2>1. CASE a.state = "watching"
    <3>1. e = b.l /\ f = b.l
      BY <1>1, <2>1 DEF Swept, Furthest
    <3>2. Penetrates(r, Pen(r, b))
      BY <1>1, <2>1 DEF Idle
    <3> QED
      BY <1>1, <3>1, <3>2 DEF Shallow, Pen, Bar
  <2>2. CASE a.state = "swept"
    <3>1. a.extreme = w /\ Shallow(r, w)
      BY <2>2 DEF Alive
    <3>2. e = Lower(w, b.l) /\ f = Lower(w, b.l)
      BY <1>1, <2>2, <3>1 DEF Swept, Furthest
    <3>3. CASE Lower(w, b.l) = w
      BY <3>1, <3>2, <3>3
    <3>4. CASE Lower(w, b.l) = b.l /\ b.l <= w
      <4>1. Penetrates(r, r.low - w)
        BY <3>1 DEF Shallow
      <4>2. Penetrates(r, Pen(r, b))
        BY <3>4, <4>1 DEF Penetrates, Pen, Width, Prices, Bar
      <4> QED
        BY <1>1, <3>2, <3>4, <4>2 DEF Shallow, Pen, Bar
    <3> QED
      BY <3>3, <3>4 DEF Lower, Bar
  <2> QED
    BY <1>2, <2>1, <2>2 DEF AttemptType
<1>4. f < r.low
  BY <1>3 DEF Shallow, Penetrates, Prices
<1>5. c = [ref |-> Unit * b.c, sl |-> Unit * sl, tp1 |-> Unit * b.c + Tp1R * stop,
           tp2 |-> Lower(Unit * b.c + Tp2R * stop, Unit * (r.high - Pip))]
  BY DEF Candidate
<1>6. /\ sl \in Int /\ stop \in Int /\ b.c \in Int /\ stop = b.c - sl
      /\ r.high \in Int /\ r.low \in Int /\ r.high - Pip \in Int /\ f \in Int
  BY <1>3 DEF Bar, Prices
<1>7. c.ref - c.sl = Unit * stop /\ Unit * stop \in Int
  BY <1>5, <1>6, Scaling
<1>8. stop \in Nat
  <2>1. Unit * stop > 0
    <3>1. Unit * StopMin > 0 /\ Unit * StopMin \in Int
      OBVIOUS
    <3>2. Unit * StopMin <= Unit * stop
      BY <1>1, <1>7 DEF StopOk
    <3> QED
      BY <1>7, <3>1, <3>2
  <2>2. stop <= 0 => Unit * stop <= Unit * 0
    BY <1>6, Scaling
  <2> QED
    BY <1>6, <1>7, <2>1, <2>2
<1>9. Tp1R * stop \in Int /\ Tp2R * stop \in Int /\ Unit * b.c \in Int /\ Unit * sl \in Int
        /\ Unit * (r.high - Pip) \in Int
  BY <1>6, Scaling
<1>10. c \in Setup /\ c.tp2 <= Unit * (r.high - Pip)
  <2> DEFINE far == Unit * b.c + Tp2R * stop
             cap == Unit * (r.high - Pip)
  <2>1. Lower(far, cap) \in Int /\ Lower(far, cap) <= cap
    <3>1. far \in Int /\ cap \in Int
      BY <1>9
    <3> HIDE DEF far, cap
    <3> QED
      BY <3>1 DEF Lower
  <2>2. Unit * b.c + Tp1R * stop \in Int
    BY <1>9
  <2> QED
    BY <1>5, <1>9, <2>1, <2>2 DEF Setup
<1>11. c.sl + Unit * StopBuffer <= Unit * f
  <2>1. sl + StopBuffer \in Int /\ sl + StopBuffer <= f
    BY <1>3, <1>6 DEF Bar
  <2>2. Unit * (sl + StopBuffer) = Unit * sl + Unit * StopBuffer
    BY <1>6, Scaling
  <2> QED
    BY <1>5, <1>6, <2>1, <2>2, Scaling
<1>12. c.ref < c.tp1 /\ c.tp1 < c.tp2 /\ c.tp2 < Unit * r.high
  <2>1. Unit * (r.high - Pip) < Unit * r.high /\ Unit * r.high \in Int
    BY <1>6, Scaling
  <2> QED
    BY <1>1, <1>9, <1>10, <2>1 DEF TargetsOk, Setup
<1>13. Unit * r.low < c.ref
  <2>1. r.low < b.c
    BY <1>1, <1>6 DEF Inside
  <2> QED
    BY <1>5, <1>6, <2>1, Scaling
<1>14. Tp1CoversStop => c.tp1 - c.ref >= c.ref - c.sl
  <2>1. c.tp1 - c.ref = Tp1R * stop
    BY <1>5, <1>9
  <2>2. Tp1CoversStop => Tp1R * stop >= Unit * stop
    BY <1>8, Scaling
  <2> QED
    BY <1>7, <2>1, <2>2
<1>15. Sound(c, r, f)
  <2> HIDE DEF f, c
  <2> QED
    BY <1>3, <1>4, <1>11, <1>12, <1>13, <1>14 DEF Sound
<1> QED
  BY <1>2, <1>10, <1>15 DEF Done

(* ------------------------------ both attempts ---------------------------- *)

\* What a bar does to one side.
LEMMA SideKept ==
  ASSUME NEW r \in Prices, NEW b \in Bar, NEW a \in AttemptType, NEW w \in Int,
         NEW c, NEW n \in Nat, OneSide(a, r, c, w, n)
  PROVE  OneSide(Process(a, r, b), r, SetupOf(a, r, b), Furthest(a, r, b, w),
                 IF SetupOf(a, r, b) = NoSetup THEN n ELSE n + 1)
<1>1. Alive(Process(a, r, b), r, Furthest(a, r, b, w))
      /\ (a.state = "done" => Process(a, r, b).state = "done")
  BY ProcessKeeps DEF OneSide
<1>2. CASE Reclaims(a, r, b)
  <2>1. SetupOf(a, r, b) = Candidate(a, r, b)
    BY <1>2 DEF SetupOf
  <2>2. /\ Sound(SetupOf(a, r, b), r, Furthest(a, r, b, w))
        /\ Process(a, r, b).state = "done" /\ a.state # "done"
    BY <1>2, <2>1, ReclaimIsSound DEF OneSide
  <2>3. n = 0
    BY <2>2 DEF OneSide
  <2> QED
    BY <1>1, <2>2, <2>3 DEF OneSide
<1>3. CASE ~Reclaims(a, r, b)
  <2>1. SetupOf(a, r, b) = NoSetup
    BY <1>3 DEF SetupOf
  <2> QED
    BY <1>1, <2>1 DEF OneSide
<1> QED
  BY <1>2, <1>3

\* A setup is a record of prices.
LEMMA SetupType ==
  ASSUME NEW r \in Prices, NEW b \in Bar, NEW a \in AttemptType, NEW w \in Int,
         Alive(a, r, w)
  PROVE  /\ SetupOf(a, r, b) \in Setup
         /\ SetupOf(a, r, b) # NoSetup => SetupOf(a, r, b).ref = Unit * b.c
<1>1. CASE Reclaims(a, r, b)
  BY <1>1, ReclaimIsSound DEF SetupOf, Candidate
<1>2. CASE ~Reclaims(a, r, b)
  BY <1>2 DEF SetupOf, NoSetup, Setup
<1> QED
  BY <1>1, <1>2

LEMMA BarsTyped == \A b \in Bars : b \in Bar
BY PriceAssumption DEF Bar

\* A bar that both attempts take keeps both sides.
LEMMA AttemptKeeps ==
  ASSUME TypeOK, \A d \in Directions : Alive(attempts[d], FacedRange(d, range'), worst[d]),
         \A d \in Directions :
           OneSide(attempts[d], FacedRange(d, range'), out[d], worst[d], setups[d]),
         NEW b \in Bars, range' \in Prices,
         Attempt(range', b)
  PROVE  /\ attempts' \in [Directions -> AttemptType]
         /\ out' \in [Directions -> Setup]
         /\ worst' \in [Directions -> Int]
         /\ setups' \in [Directions -> Nat]
         /\ (\A d \in Directions : Side(d))'
         /\ SameClose'
<1> DEFINE R(d) == FacedRange(d, range')
           B(d) == FacedBar(d, b)
<1>1. \A d \in Directions : R(d) \in Prices /\ B(d) \in Bar
  BY Facing, BarsTyped
<1>2. \A d \in Directions :
        attempts[d] \in AttemptType /\ worst[d] \in Int /\ setups[d] \in Nat
  BY DEF TypeOK, AttemptType
<1>3. /\ attempts' = [d \in Directions |-> Process(attempts[d], R(d), B(d))]
      /\ out' = [d \in Directions |-> SetupOf(attempts[d], R(d), B(d))]
      /\ worst' = [d \in Directions |-> Furthest(attempts[d], R(d), B(d), worst[d])]
  <2>1. \A d \in Directions : ~Idle(attempts[d], R(d), B(d)) =>
          attempts[d].state \in {"watching", "swept"}
    BY <1>2 DEF Idle, AttemptType
  <2> QED
    BY <2>1 DEF Attempt, Furthest
<1>4. setups' = [d \in Directions |->
                   IF out'[d] = NoSetup THEN setups[d] ELSE setups[d] + 1]
  BY DEF Attempt
<1>5. \A d \in Directions :
        /\ Process(attempts[d], R(d), B(d)) \in AttemptType
        /\ Furthest(attempts[d], R(d), B(d), worst[d]) \in Int
        /\ SetupOf(attempts[d], R(d), B(d)) \in Setup
        /\ SetupOf(attempts[d], R(d), B(d)) # NoSetup
             => SetupOf(attempts[d], R(d), B(d)).ref = Unit * B(d).c
  <2> TAKE d \in Directions
  <2>1. Alive(attempts[d], R(d), worst[d])
    OBVIOUS
  <2> HIDE DEF R, B
  <2> QED
    BY <1>1, <1>2, <2>1, ProcessKeeps, SetupType
<1>7. ASSUME NEW d \in Directions
      PROVE  Side(d)'
  <2>1. OneSide(attempts[d], R(d), out[d], worst[d], setups[d])
    OBVIOUS
  <2>2. OneSide(Process(attempts[d], R(d), B(d)), R(d),
                SetupOf(attempts[d], R(d), B(d)),
                Furthest(attempts[d], R(d), B(d), worst[d]),
                IF SetupOf(attempts[d], R(d), B(d)) = NoSetup THEN setups[d]
                ELSE setups[d] + 1)
    <3> HIDE DEF R, B
    <3> QED
      BY <1>1, <1>2, <2>1, SideKept
  <2> QED
    BY <1>3, <1>4, <2>2 DEF Side
<1>8. SameClose'
  <2>1. \A d, e \in Directions : d # e => B(d).c \in Int /\ B(e).c \in Int /\ B(d).c = 0 - B(e).c
    BY BarsTyped DEF Directions, FacedBar, Bar
  <2>2. \A d, e \in Directions : d # e => Unit * B(d).c = 0 - Unit * B(e).c
    <3>1. \A x \in Int : Unit * (0 - x) = 0 - Unit * x
      BY ValidParams
    <3> HIDE DEF B
    <3> QED
      BY <2>1, <3>1
  <2> HIDE DEF R, B
  <2> QED
    BY <1>3, <1>5, <2>2 DEF SameClose
<1> HIDE DEF R, B
<1> QED
  BY <1>2, <1>3, <1>4, <1>5, <1>7, <1>8

(* -------------------------------- the day -------------------------------- *)

\* Nothing is tried: no setup, and the sides are as they were.
LEMMA UntriedKeeps ==
  ASSUME IInv, Untried, range' = range
  PROVE  /\ attempts' = attempts /\ setups' = setups /\ worst' = worst
         /\ out' \in [Directions -> Setup]
         /\ (\A d \in Directions : Side(d))'
         /\ SameClose'
<1>1. /\ UNCHANGED <<attempts, worst, setups>>
      /\ out' = [d \in Directions |-> NoSetup]
  BY DEF Untried, Silent, history
<1>2. \A d \in Directions : OneSide(attempts[d], FacedRange(d, range), NoSetup,
                                    worst[d], setups[d])
  BY DEF IInv, Side, OneSide
<1>3. (\A d \in Directions : Side(d))'
  BY <1>1, <1>2 DEF Side
<1>4. SameClose'
  BY <1>1 DEF SameClose
<1> QED
  BY <1>1, <1>3, <1>4 DEF NoSetup, Setup

\* IInv holds always.
THEOREM Inductive == Spec => []IInv
<1> USE WindowAssumption DEF WindowsOrdered
<1>1. Init => IInv
  <2> SUFFICES ASSUME Init PROVE IInv
    OBVIOUS
  <2>1. TypeOK
    BY ValidParams DEF Init, TypeOK, NoBars, NoRange, Watching, NoSetup, Setup
  <2>2. Untouched /\ LockKept /\ SameClose
    BY DEF Init, Untouched, LockKept, SameClose
  <2>3. \A d \in Directions : Side(d)
    BY DEF Init, Side, OneSide, Alive, Watching
  <2> QED
    BY <2>1, <2>2, <2>3 DEF IInv
<1>2. IInv /\ [Next]_vars => IInv'
  <2> SUFFICES ASSUME IInv, [Next]_vars PROVE IInv'
    OBVIOUS
  <2> USE DEF IInv
  <2>1. ASSUME NEW s \in 0..MaxSlot, BarOfDeadDay(s)
        PROVE  IInv'
    <3>1. slot' \in Int /\ phase = "dead" /\ Untried
          /\ UNCHANGED <<day, asian, phase, range>>
      BY <2>1 DEF BarOfDeadDay, Arrives
    <3>2. TypeOK'
      BY <3>1, UntriedKeeps DEF TypeOK
    <3>3. Untouched'
      BY <3>1 DEF Untouched, Untried, Silent, history
    <3>4. LockKept'
      BY <3>1 DEF LockKept
    <3> QED
      BY <3>1, <3>2, <3>3, <3>4, UntriedKeeps
  <2>2. ASSUME NEW s \in 0..MaxSlot,
               BarRefusesDay(s) \/ BarRefusesRange(s)
        PROVE  IInv'
    <3>1. slot' \in Int /\ phase = "open" /\ phase' = "dead" /\ Untried
          /\ UNCHANGED <<day, asian, range>>
      BY <2>2 DEF BarRefusesDay, BarRefusesRange, Arrives, TypeOK, LockKept
    <3>2. TypeOK'
      BY <3>1, UntriedKeeps DEF TypeOK
    <3>3. Untouched'
      BY <3>1 DEF Untouched, Untried, Silent, history
    <3>4. LockKept'
      BY <3>1 DEF LockKept
    <3> QED
      BY <3>1, <3>2, <3>3, <3>4, UntriedKeeps
  <2>3. ASSUME NEW s \in 0..MaxSlot, BarOutsideWindow(s)
        PROVE  IInv'
    <3>1. slot' \in Int /\ slot' >= slot /\ phase = "locked" /\ Untried
          /\ UNCHANGED <<day, asian, phase, range>>
      BY <2>3 DEF BarOutsideWindow, Arrives, TypeOK
    <3>2. TypeOK'
      BY <3>1, UntriedKeeps DEF TypeOK
    <3>3. Untouched'
      BY <3>1 DEF Untouched
    <3>4. LockKept'
      BY <3>1 DEF LockKept, TypeOK
    <3> QED
      BY <3>1, <3>2, <3>3, <3>4, UntriedKeeps
  <2>4. ASSUME NEW s \in 0..MaxSlot, NEW b \in Bars, AsianBar(s, b)
        PROVE  IInv'
    <3>1. /\ slot' \in Int /\ slot' = s /\ slot < s
          /\ s < AsianBars /\ phase # "dead" /\ Untried
          /\ UNCHANGED <<day, phase, range>>
      BY <2>4 DEF AsianBar, Arrives, TypeOK
    <3>2. phase = "open"
      BY <3>1 DEF TypeOK, LockKept
    <3>3. asian' \in [n : Nat, high : Int, low : Int]
      BY <2>4, BarsTyped DEF AsianBar, TypeOK, Bar, Higher, Lower
    <3>4. TypeOK'
      BY <3>1, <3>3, UntriedKeeps DEF TypeOK
    <3>5. Untouched'
      BY <3>1, <3>2 DEF Untouched, Untried, Silent, history
    <3>6. LockKept'
      BY <3>1, <3>2 DEF LockKept
    <3> QED
      BY <3>1, <3>4, <3>5, <3>6, UntriedKeeps
  <2>5. ASSUME NEW s \in 0..MaxSlot, NEW b \in Bars, EntryBar(s, b)
        PROVE  IInv'
    <3>1. /\ slot' \in Int /\ slot' >= slot /\ phase = "locked"
          /\ Attempt(range', b)
          /\ UNCHANGED <<day, asian, phase, range>>
      BY <2>5 DEF EntryBar, Arrives, TypeOK
    <3>2. \A d \in Directions :
            /\ OneSide(attempts[d], FacedRange(d, range'), out[d], worst[d], setups[d])
            /\ Alive(attempts[d], FacedRange(d, range'), worst[d])
      BY <3>1 DEF Side, OneSide
    <3>3. range' \in Prices
      BY <3>1 DEF TypeOK, Prices
    <3>4. /\ attempts' \in [Directions -> AttemptType]
          /\ out' \in [Directions -> Setup]
          /\ worst' \in [Directions -> Int]
          /\ setups' \in [Directions -> Nat]
          /\ (\A d \in Directions : Side(d))'
          /\ SameClose'
      BY <3>1, <3>2, <3>3, AttemptKeeps
    <3>5. TypeOK'
      BY <3>1, <3>4 DEF TypeOK, AttemptType
    <3>6. Untouched'
      BY <3>1 DEF Untouched
    <3>7. LockKept'
      BY <3>1 DEF LockKept, TypeOK
    <3> QED
      BY <3>4, <3>5, <3>6, <3>7
  <2>6. ASSUME NEW s \in 0..MaxSlot, NEW b \in Bars, BarLocksRange(s, b)
        PROVE  IInv'
    <3>1. /\ slot' \in Int /\ slot' >= AsianBars /\ phase = "open"
          /\ phase' = "locked" /\ range' = AsianRange /\ RangeOk
          /\ ~day.violated
          /\ Attempt(range', b) \/ Untried
          /\ UNCHANGED <<day, asian>>
      BY <2>6 DEF BarLocksRange, Arrives, TypeOK
    <3>2. /\ attempts = [d \in Directions |-> Watching]
          /\ out = [d \in Directions |-> NoSetup]
          /\ setups = [d \in Directions |-> 0]
      BY <3>1 DEF Untouched
    <3>3. \A d \in Directions :
            /\ OneSide(attempts[d], FacedRange(d, range'), out[d], worst[d], setups[d])
            /\ Alive(attempts[d], FacedRange(d, range'), worst[d])
      BY <3>2 DEF OneSide, Alive, Watching
    <3>4. range' \in Prices
      BY <3>1 DEF TypeOK, Prices, AsianRange
    <3>5. /\ attempts' \in [Directions -> AttemptType]
          /\ out' \in [Directions -> Setup]
          /\ worst' \in [Directions -> Int]
          /\ setups' \in [Directions -> Nat]
          /\ (\A d \in Directions : Side(d))'
          /\ SameClose'
      <4>1. CASE Attempt(range', b)
        BY <3>3, <3>4, <4>1, AttemptKeeps
      <4>2. CASE Untried
        <5>1. /\ UNCHANGED <<attempts, worst, setups>>
              /\ out' = [d \in Directions |-> NoSetup]
          BY <4>2 DEF Untried, Silent, history
        <5>2. (\A d \in Directions : Side(d))'
          BY <3>2, <3>3, <5>1 DEF Side
        <5>3. SameClose'
          BY <5>1 DEF SameClose
        <5> QED
          BY <5>1, <5>2, <5>3 DEF TypeOK, AttemptType, NoSetup, Setup
      <4> QED
        BY <3>1, <4>1, <4>2
    <3>6. TypeOK'
      BY <3>1, <3>4, <3>5 DEF TypeOK, AttemptType, Prices
    <3>7. Untouched'
      BY <3>1 DEF Untouched
    <3>8. LockKept'
      BY <3>1 DEF LockKept, RangeOk, AsianRange, MaxMissing, TypeOK
    <3> QED
      BY <3>5, <3>6, <3>7, <3>8
  <2>7. CASE UNCHANGED vars
    BY <2>7 DEF vars, history, TypeOK, Untouched, LockKept, SameClose, Side
  <2> QED
    BY <2>1, <2>2, <2>3, <2>4, <2>5, <2>6, <2>7 DEF Next
<1> QED
  BY <1>1, <1>2, PTL DEF Spec

(* -------------------------------- theorems ------------------------------- *)

\* The state keeps its shape, and no live attempt outlives reclaim_bars.
THEOREM TypeCorrect == Spec => []TypeOK
<1>1. IInv => TypeOK
  BY DEF IInv
<1> QED
  BY <1>1, Inductive, PTL

\* Every setup has its stop beyond the whole sweep and its targets in order and
\* inside the range (_on_reclaim).
THEOREM SetupsAreSound == Spec => []SetupIsSound
<1>1. IInv => SetupIsSound
  <2> SUFFICES ASSUME IInv, NEW d \in Directions, out[d] # NoSetup
               PROVE  Sound(out[d], FacedRange(d, range), worst[d])
    BY DEF SetupIsSound, Sound
  <2> QED
    BY DEF IInv, Side, OneSide
<1> QED
  BY <1>1, Inductive, PTL

\* An attempt lives, and produces its setup, only on a sweep that over all its
\* bars never went deeper than a real breakout would (DECISIONS.md:160-161).
ShallowSweep ==
  \A d \in Directions :
    attempts[d].state = "swept" \/ out[d] # NoSetup =>
      LET r == FacedRange(d, range)  p == r.low - worst[d]
      IN Penetrates(r, p) /\ Unit * p <= SweepMax * Width(r)

\* No attempt survives, and no setup comes from, a sweep deeper than
\* sweep_max_range_mult of the range (_process).
THEOREM SweepsAreShallow == Spec => []ShallowSweep
<1>1. IInv => ShallowSweep
  <2> SUFFICES ASSUME IInv, NEW d \in Directions,
                      attempts[d].state = "swept" \/ out[d] # NoSetup
               PROVE  Shallow(FacedRange(d, range), worst[d])
               /\ FacedRange(d, range) \in Prices /\ worst[d] \in Int
    BY ValidParams DEF ShallowSweep, Shallow, TooDeep, Width, Prices
  <2>1. range \in Prices /\ worst[d] \in Int
    BY DEF IInv, TypeOK, Prices
  <2>2. Shallow(FacedRange(d, range), worst[d])
    BY DEF IInv, Side, OneSide, Alive, Sound
  <2> QED
    BY <2>1, <2>2, Facing
<1> QED
  BY <1>1, Inductive, PTL

\* If tp1_r is at least 1, the targets of a long and of a short cannot both fit
\* into the range, so one bar never produces both setups.
THEOREM OneSideAtATime == ASSUME Tp1CoversStop PROVE Spec => []NeverBothSides
<1>1. IInv => NeverBothSides
  <2> SUFFICES ASSUME IInv, \A d \in Directions : out[d] # NoSetup
               PROVE  FALSE
    BY DEF NeverBothSides
  <2> DEFINE L == out["long"]  S == out["short"]
             high == Unit * range.high  low == Unit * range.low
  <2>1. /\ L \in Setup /\ S \in Setup
        /\ range.high \in Int /\ range.low \in Int
        /\ worst["long"] \in Int /\ worst["short"] \in Int
    BY DEF IInv, TypeOK, Directions
  <2>2. /\ Sound(L, range, worst["long"])
        /\ Sound(S, FacedRange("short", range), worst["short"])
    BY DEF IInv, Side, OneSide, Directions, FacedRange
  <2>3. S.ref = 0 - L.ref
    BY DEF IInv, SameClose, Directions
  <2>4. ASSUME NEW c \in Setup, NEW r \in Prices, NEW w \in Int, Sound(c, r, w)
        PROVE  c.sl < Unit * r.low /\ c.tp1 < Unit * r.high /\ c.tp1 - c.ref >= c.ref - c.sl
    <3>1. /\ c.sl + Unit * StopBuffer <= Unit * w /\ w < r.low
          /\ c.tp1 < c.tp2 /\ c.tp2 < Unit * r.high
          /\ c.tp1 - c.ref >= c.ref - c.sl
      BY <2>4 DEF Sound
    <3>2. Unit * w < Unit * r.low
      BY <3>1, Scaling DEF Prices
    <3>3. /\ Unit * StopBuffer \in Nat /\ Unit * w \in Int /\ Unit * r.low \in Int
          /\ Unit * r.high \in Int
      BY ValidParams, Scaling DEF Prices
    <3> QED
      BY <3>1, <3>2, <3>3 DEF Setup
  <2>5. L.sl < low /\ L.tp1 < high /\ L.tp1 - L.ref >= L.ref - L.sl
    <3>1. range \in Prices
      BY DEF IInv, TypeOK, Prices
    <3>2. \A c \in Setup : \A r \in Prices : \A w \in Int : Sound(c, r, w) =>
            /\ c.sl < Unit * r.low /\ c.tp1 < Unit * r.high
            /\ c.tp1 - c.ref >= c.ref - c.sl
      BY <2>4
    <3> HIDE DEF L
    <3> QED
      BY <2>1, <2>2, <3>1, <3>2
  <2>6. /\ S.sl < Unit * (0 - range.high) /\ S.tp1 < Unit * (0 - range.low)
        /\ S.tp1 - S.ref >= S.ref - S.sl
    <3>1. /\ FacedRange("short", range) \in Prices
          /\ FacedRange("short", range).low = 0 - range.high
          /\ FacedRange("short", range).high = 0 - range.low
      BY <2>1 DEF FacedRange, Prices
    <3> QED
      BY <2>1, <2>2, <2>4, <3>1
  <2>7. /\ Unit * (0 - range.high) = 0 - high /\ Unit * (0 - range.low) = 0 - low
        /\ high \in Int /\ low \in Int
    <3>1. \A x \in Int : Unit * (0 - x) = 0 - Unit * x /\ Unit * x \in Int
      BY ValidParams
    <3> QED
      BY <2>1, <3>1
  <2> HIDE DEF high, low
  <2> QED
    BY <2>1, <2>3, <2>5, <2>6, <2>7 DEF Setup
<1> QED
  BY <1>1, Inductive, PTL

\* A direction produces at most one setup a day, on a complete and tradeable
\* range.
THEOREM OnceEach == Spec => []OncePerDirection
<1>1. IInv => OncePerDirection
  <2> SUFFICES ASSUME IInv, NEW d \in Directions
               PROVE  /\ setups[d] <= 1
                      /\ setups[d] = 1 =>
                           attempts[d].state = "done" /\ phase = "locked"
    BY DEF OncePerDirection, IInv, LockKept
  <2>1. phase # "locked" => setups[d] = 0
    BY DEF IInv, Untouched
  <2> QED
    BY <2>1 DEF IInv, Side, OneSide
<1> QED
  BY <1>1, Inductive, PTL
==============================================================================
