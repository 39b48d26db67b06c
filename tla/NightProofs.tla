----------------------------- MODULE NightProofs -----------------------------
(***************************************************************************)
(* What is safe about the end of a day, for any number of sessions,        *)
(* restarts and runs of the flattener, and a broker that may refuse, lose  *)
(* or raise: the verdict of the flattener stays true.  The proofs follow   *)
(* the volumes only: whoever acts, they shrink, but for an entry.  How     *)
(* much a close makes is a sum over positions, and not needed.             *)
(***************************************************************************)
EXTENDS Night, TLAPS

Position == [lots : 0..Lots, entry : Int, sl : Int, tp : Int]
Trade == [side : Sides \union {"none"}, entry : Int, since : Int, tp1 : Int,
          lots_open : Int, tp1_done : BOOLEAN]

Shaped ==
  /\ now \in Nat /\ bid \in [Symbols -> Int]
  /\ book \in [Tickets -> Position] /\ open \in [Symbols -> Trade]
  /\ rows \in [Tickets -> {"none", "sent", "filled"}]

\* The flattener is not started before its time.
Scheduled == step # "idle" \/ report = "ok" => now >= FlattenFrom

\* A run that reported a flat account, and asked a broker that answered, is right:
\* nothing is opened any more when the flattener starts.
VerdictHolds == report = "ok" /\ ~blind => Live = {}

Final == EntryEnd < FlattenFrom => VerdictHolds

IInv == Shaped /\ Scheduled /\ Final

\* No position gets larger, nor does one appear.
Shrinks == book' \in [Tickets -> Position] /\ \A t \in Tickets : book'[t].lots <= book[t].lots

(* --------------------------------- volumes ------------------------------- *)

LEMMA Numbers ==
  /\ Lots \in Nat /\ Tp1Lots \in 0..Lots /\ Prices \subseteq Int
  /\ Spread \in Int /\ Drift \in Int /\ Stop \in Int
  /\ Tp1 \in Int /\ Target \in Int
  /\ NoPosition \in Position /\ NoPosition.lots = 0
  /\ NoTrade \in Trade
<1>1. /\ Lots \in Nat /\ Tp1Lots \in 0..Lots /\ Prices \subseteq Int
      /\ Spread \in Int /\ Drift \in Int /\ Stop \in Int
      /\ Tp1 \in Int /\ Target \in Int
  BY SessionAssumption
<1>2. NoPosition \in Position /\ NoPosition.lots = 0
  BY <1>1 DEF NoPosition, Position
<1>3. NoTrade \in Trade
  BY DEF NoTrade, Trade
<1> QED
  BY <1>1, <1>2, <1>3

LEMMA WithoutShrinks ==
  ASSUME Shaped, NEW T
  PROVE  /\ Without(book, T) \in [Tickets -> Position]
         /\ \A t \in Tickets : Without(book, T)[t].lots <= book[t].lots
<1>1. \A t \in Tickets : /\ Without(book, T)[t] \in Position
                         /\ Without(book, T)[t].lots <= book[t].lots
  BY Numbers DEF Without, Shaped, Position
<1> QED
  BY <1>1 DEF Without

\* What is left of a position after n lots of it were closed.
LEMMA LessIsLess ==
  ASSUME NEW p \in Position, NEW n \in 0..p.lots
  PROVE  PositionLess(p, n) \in Position /\ PositionLess(p, n).lots <= p.lots
<1>1. CASE n = p.lots
  BY <1>1, Numbers DEF PositionLess, Position
<1>2. CASE n # p.lots
  <2>1. p.lots - n \in 0..Lots /\ p.lots - n <= p.lots
    BY Numbers DEF Position
  <2>2. PositionLess(p, n) = [p EXCEPT !.lots = p.lots - n]
    BY <1>2 DEF PositionLess
  <2> QED
    BY <2>1, <2>2 DEF Position
<1> QED
  BY <1>1, <1>2

\* The same of a position of the session, with the stop wherever modify_sl put it.
LEMMA LeftShrinks ==
  ASSUME Shaped, NEW t, NEW n, t \in Tickets => n \in 0..SweptBook[t].lots,
         NEW entry \in Int,
         NEW p \in {PositionLess(SweptBook[t], n),
                   Breakeven(PositionLess(SweptBook[t], n), entry)}
  PROVE  /\ SweptBookWith(t, p) \in [Tickets -> Position]
         /\ \A u \in Tickets : SweptBookWith(t, p)[u].lots <= book[u].lots
<1>1. /\ SweptBook \in [Tickets -> Position]
      /\ \A u \in Tickets : SweptBook[u].lots <= book[u].lots
  BY WithoutShrinks DEF SweptBook
<1>2. ASSUME t \in Tickets
      PROVE  p \in Position /\ p.lots <= book[t].lots
  <2> DEFINE q == PositionLess(SweptBook[t], n)
  <2>1. SweptBook[t] \in Position /\ book[t] \in Position /\ n \in 0..SweptBook[t].lots
        /\ SweptBook[t].lots <= book[t].lots
    BY <1>1, <1>2 DEF Shaped
  <2>2. q \in Position /\ q.lots <= SweptBook[t].lots
    BY <2>1, LessIsLess
  <2> HIDE DEF q
  <2>3. Breakeven(q, entry) \in Position /\ Breakeven(q, entry).lots = q.lots
    BY <2>2 DEF Breakeven, Position
  <2>4. p \in Position /\ p.lots = q.lots
    BY <2>2, <2>3 DEF q
  <2> QED
    BY <2>1, <2>2, <2>4 DEF Position
<1> HIDE DEF Position
<1>3. \A u \in Tickets : /\ SweptBookWith(t, p)[u] \in Position
                         /\ SweptBookWith(t, p)[u].lots <= book[u].lots
  BY <1>1, <1>2 DEF SweptBookWith
<1> QED
  BY <1>3 DEF SweptBookWith

\* Without an entry no position appears: Live only loses members.
LEMMA FewerLive ==
  ASSUME Shaped, Shrinks
  PROVE  Live' \subseteq Live
BY DEF Shaped, Shrinks, Live, Position

(* -------------------------------- the steps ------------------------------ *)

LEMMA CloseAllShrinks ==
  ASSUME Shaped, NEW s \in Symbols, NEW state, NEW outcome \in Outcomes,
         CloseAll(s, state, outcome)
  PROVE  Shrinks /\ open' \in [Symbols -> Trade]
<1> DEFINE t == Ticket(s)
<1>1. PICK sold \in 0..SweptBook[t].lots :
        book' = SweptBookWith(t, PositionLess(SweptBook[t], sold))
  BY DEF CloseAll
<1>3. open' = open \/ open' = [open EXCEPT ![s] = NoTrade]
  BY DEF CloseAll, Finalize
<1> HIDE DEF t
<1>4. Shrinks
  <2>1. 0 \in Int
    OBVIOUS
  <2> QED
    BY <1>1, <2>1, LeftShrinks DEF Shrinks
<1> QED
  BY <1>3, <1>4, Numbers DEF Shaped

LEMMA PollShrinks ==
  ASSUME Shaped, NEW s \in Symbols, Poll(s)
  PROVE  Shrinks /\ open' \in [Symbols -> Trade] /\ now' = now /\ bid' = bid
<1>1. ASSUME book' = SweptBook PROVE Shrinks
  BY <1>1, WithoutShrinks DEF SweptBook, Shrinks
<1>2. CASE PollFlat(s) \/ PollKeep(s)
  BY <1>1, <1>2 DEF PollFlat, PollKeep, Marks, session, Shaped
<1>3. CASE PollBracket(s)
  BY <1>1, <1>3, Numbers DEF PollBracket, Finalize, Shaped
<1>4. ASSUME NEW o \in Outcomes, PollHardStop(s, o) \/ PollExit(s, o)
      PROVE  Shrinks /\ open' \in [Symbols -> Trade] /\ now' = now /\ bid' = bid
  BY <1>4, CloseAllShrinks DEF PollHardStop, PollExit, Marks
<1>5. ASSUME NEW n \in 0..Lots, NEW modified \in BOOLEAN,
             PollTp1(s, n, modified) \/ PollTp1Raises(s, n, modified)
      PROVE  Shrinks /\ open' \in [Symbols -> Trade] /\ now' = now /\ bid' = bid
  <2> DEFINE t == Ticket(s)
  <2>0. SellTp1(s, n, modified)
    BY <1>5 DEF PollTp1, PollTp1Raises
  <2>1. open[s] \in Trade /\ open[s].entry \in Int /\ open[s].lots_open \in Int
    BY DEF Shaped, Trade
  <2>2. ASSUME t \in Tickets PROVE n \in 0..SweptBook[t].lots
    <3>1. SweptBook[t].lots \in 0..Lots
      BY <2>2, WithoutShrinks DEF SweptBook, Position
    <3> QED
      BY <2>0, <3>1, Numbers DEF SellTp1
  <2>3. \E p \in {PositionLess(SweptBook[t], n),
                  Breakeven(PositionLess(SweptBook[t], n), open[s].entry)} :
          book' = SweptBookWith(t, p)
    BY <2>0 DEF SellTp1
  <2> HIDE DEF t
  <2>4. Shrinks
    <3>1. PICK p \in {PositionLess(SweptBook[t], n),
                     Breakeven(PositionLess(SweptBook[t], n), open[s].entry)} :
            book' = SweptBookWith(t, p)
      BY <2>3
    <3>2. /\ SweptBookWith(t, p) \in [Tickets -> Position]
          /\ \A u \in Tickets : SweptBookWith(t, p)[u].lots <= book[u].lots
      BY <2>1, <2>2, LeftShrinks
    <3> QED
      BY <3>1, <3>2 DEF Shrinks
  <2>5. open' \in [Symbols -> Trade]
    <3>1. [open[s] EXCEPT !.tp1_done = TRUE, !.lots_open = @ - Tp1Lots] \in Trade
      <4>1. open[s].lots_open - Tp1Lots \in Int
        BY <2>1, Numbers
      <4> QED
        BY <2>1, <4>1 DEF Trade
    <3>2. open' \in {open, [open EXCEPT ![s] =
                     [open[s] EXCEPT !.tp1_done = TRUE, !.lots_open = @ - Tp1Lots]]}
      BY <1>5 DEF PollTp1, PollTp1Raises
    <3> QED
      BY <3>1, <3>2 DEF Shaped
  <2> QED
    BY <2>0, <2>4, <2>5 DEF SellTp1, Marks
<1>6. PollFlat(s) \/ PollKeep(s) \/ PollBracket(s) => now' = now /\ bid' = bid
  BY DEF PollFlat, PollKeep, PollBracket, Marks
<1>7. PollBracket(s) \/ PollFlat(s) \/ PollKeep(s) => open' \in [Symbols -> Trade]
  BY Numbers DEF PollBracket, PollFlat, PollKeep, Finalize, Shaped, session
<1> QED
  BY <1>2, <1>3, <1>4, <1>5, <1>6, <1>7 DEF Poll

\* A step that lets volumes shrink, the clock run, and neither run of the
\* flattener nor store change.
LEMMA ShrinkKeeps ==
  ASSUME IInv, Shrinks, open' \in [Symbols -> Trade], bid' \in [Symbols -> Int],
         now' \in {now, now + 1}, UNCHANGED <<step, report, blind, rows>>
  PROVE  IInv'
<1>1. Live' \subseteq Live
  BY FewerLive DEF IInv
<1>2. Shaped'
  BY DEF IInv, Shaped, Shrinks
<1>3. Scheduled'
  BY NightAssumption DEF IInv, Scheduled, Shaped
<1>4. Final'
  BY <1>1 DEF IInv, Final, VerdictHolds
<1> QED
  BY <1>2, <1>3, <1>4 DEF IInv

\* A step of the flattener that closes nothing: the sessions do not notice.
LEMMA RunKeeps ==
  ASSUME IInv,
         \/ FlattenStart \/ Escalate \/ FlattenDies
         \/ \E P \in Positions : Look(P) \/ Verify(P)
  PROVE  IInv' /\ book' = book
<1>1. /\ UNCHANGED <<vars, rows>>
      /\ step' # "idle" \/ report' = "ok" => step # "idle" \/ report = "ok" \/ now >= FlattenFrom
      /\ report' = "ok" /\ ~blind' => (report = "ok" /\ ~blind) \/ Live = {}
  <2>1. CASE FlattenStart
    BY <2>1 DEF FlattenStart
  <2>2. CASE Escalate \/ FlattenDies
    BY <2>2 DEF Escalate, FlattenDies, RunEnds
  <2>3. ASSUME NEW P, Look(P) \/ Verify(P)
        PROVE  /\ UNCHANGED <<vars, rows>> /\ step # "idle"
               /\ report' = "ok" /\ ~blind' => (report = "ok" /\ ~blind) \/ Live = {}
    <3>1. LooksFlat(P) => blind' \/ Live = {}
      BY Zenon DEF LooksFlat
    <3>2. LooksFlat(P) \/ UNCHANGED <<report, blind>>
      BY <2>3 DEF Look, Verify
    <3>3. UNCHANGED <<vars, rows>> /\ step # "idle"
      BY <2>3 DEF Look, Verify
    <3> QED
      BY <3>1, <3>2, <3>3
  <2> QED
    BY <2>1, <2>2, <2>3
<1>2. book' = book /\ Live' = Live /\ Shaped'
  BY <1>1 DEF vars, account, session, Live, IInv, Shaped
<1>3. Scheduled'
  BY <1>1 DEF vars, IInv, Scheduled
<1>4. Final'
  BY <1>1, <1>2 DEF IInv, Final, VerdictHolds
<1> QED
  BY <1>2, <1>3, <1>4 DEF IInv

\* An entry is made before the flattener's time.
LEMMA EnterKeeps ==
  ASSUME IInv, NEW t \in Tickets, EnterOnce(t),
         UNCHANGED <<flattener, restarts>>
  PROVE  IInv'
<1>1. CASE SetupFiltered(t) /\ UNCHANGED rows
  <2>1. UNCHANGED <<now, bid, book, open, rows, step, report, blind>>
    BY <1>1 DEF SetupFiltered, account, session, flattener
  <2>2. Shrinks
    BY <2>1 DEF Shrinks, IInv, Shaped, Position
  <2> QED
    BY <2>1, <2>2, ShrinkKeeps DEF IInv, Shaped, Position
<1>2. ASSUME NEW ref \in (Bid(t) - Drift)..(Bid(t) + Drift),
             \/ EntryFilled(t, ref) /\ rows' = [rows EXCEPT ![t] = "filled"]
             \/ EntryFailed(t, ref) /\ rows' = [rows EXCEPT ![t] = "sent"]
      PROVE  IInv'
  <2> DEFINE p(n) == [lots |-> n, entry |-> EntryPrice(t),
                      sl |-> ref - Away(t, Stop), tp |-> ref + Away(t, Target)]
             trade == [side |-> t[2], entry |-> EntryPrice(t), since |-> now,
                       tp1 |-> ref + Away(t, Tp1), lots_open |-> Lots,
                       tp1_done |-> FALSE]
  <2>1. t[1] \in Symbols /\ t[2] \in Sides
    BY DEF Tickets
  <2>2. /\ EntryPrice(t) \in Int /\ ref \in Int
        /\ ref - Away(t, Stop) \in Int /\ ref + Away(t, Tp1) \in Int
        /\ ref + Away(t, Target) \in Int /\ now \in Int
    <3>1. bid[t[1]] \in Int /\ now \in Int
      BY <2>1 DEF IInv, Shaped
    <3> QED
      BY <3>1, Numbers DEF EntryPrice, Bid, Ask, Away
  <2>3. trade \in Trade /\ \A n \in 1..Lots : p(n) \in Position
    BY <2>1, <2>2, Numbers DEF Position, Trade
  <2>4. /\ now' = now /\ bid' = bid /\ now <= EntryEnd
        /\ UNCHANGED <<step, report, blind>>
        /\ book' = book \/ \E n \in 1..Lots : book' = [book EXCEPT ![t] = p(n)]
        /\ open' \in {open, [open EXCEPT ![t[1]] = trade]}
        /\ rows' \in [Tickets -> {"none", "sent", "filled"}]
    <3>1. rows \in [Tickets -> {"none", "sent", "filled"}] /\ Lots \in 1..Lots
      BY SessionAssumption DEF IInv, Shaped
    <3>2. CASE EntryFilled(t, ref) /\ rows' = [rows EXCEPT ![t] = "filled"]
      BY <3>1, <3>2 DEF EntryFilled, Bracketed, Emits, flattener
    <3>3. CASE EntryFailed(t, ref) /\ rows' = [rows EXCEPT ![t] = "sent"]
      BY <3>1, <3>3 DEF EntryFailed, Bracketed, Emits, flattener
    <3> QED
      BY <1>2, <3>2, <3>3
  <2> HIDE DEF p, trade
  <2>5. Shaped'
    BY <2>1, <2>3, <2>4 DEF IInv, Shaped
  <2>6. EntryEnd < FlattenFrom => report # "ok"
    BY <2>4, SessionAssumption, NightAssumption DEF IInv, Shaped, Scheduled
  <2>7. Scheduled' /\ Final'
    BY <2>4, <2>6 DEF IInv, Scheduled, Final, VerdictHolds
  <2> QED
    BY <2>5, <2>7 DEF IInv
<1> QED
  BY <1>1, <1>2 DEF EnterOnce

\* Every step keeps the invariant.
LEMMA StepKept ==
  ASSUME IInv, [NightNext]_nightvars
  PROVE  IInv'
<1>2. ASSUME book' = book PROVE Shrinks
  BY <1>2 DEF Shrinks, IInv, Shaped, Position
<1>3. CASE ((\E s \in Symbols : Poll(s)) \/ Market) /\ UNCHANGED <<flattener, rows, restarts>>
  <2>1. UNCHANGED <<step, report, blind, rows>>
    BY <1>3 DEF flattener
  <2>2. ASSUME NEW s \in Symbols, Poll(s) PROVE IInv'
    BY <2>1, <2>2, PollShrinks, ShrinkKeeps DEF IInv, Shaped
  <2>3. CASE Market
    <3>1. UNCHANGED <<book, open>> /\ now' \in {now, now + 1}
      BY <2>3 DEF Market, Quote, Tick, account, session
    <3>2. bid' \in [Symbols -> Int]
      BY <2>3, Numbers DEF Market, Quote, Tick, IInv, Shaped
    <3> QED
      BY <1>2, <2>1, <3>1, <3>2, ShrinkKeeps DEF IInv, Shaped
  <2> QED
    BY <1>3, <2>2, <2>3
<1>4. ASSUME NEW t \in Tickets, NEW price, NativeBracket(t, price)
      PROVE  IInv'
  <2>1. book' = Without(book, {t}) /\ UNCHANGED <<now, bid, open, step, report, blind, rows>>
    BY <1>4 DEF NativeBracket, session, flattener
  <2>2. Shrinks
    BY <2>1, WithoutShrinks DEF Shrinks, IInv
  <2> QED
    BY <2>1, <2>2, ShrinkKeeps DEF IInv, Shaped
<1>5. ASSUME NEW t \in Tickets, EnterOnce(t), UNCHANGED <<flattener, restarts>>
      PROVE  IInv'
  BY <1>5, EnterKeeps
<1>6. ASSUME NEW t \in Tickets, NEW n \in 0..Lots, CloseOne(t, n) PROVE IInv'
  <2>1. /\ UNCHANGED <<now, bid, open, report, blind, rows>>
        /\ n \in 0..book[t].lots
        /\ book' = [book EXCEPT ![t] = PositionLess(book[t], n)]
        /\ step = "close" /\ step' \in {"verify", "close"}
    BY <1>6 DEF CloseOne, Tried, session
  <2>2. Shrinks
    <3>1. PositionLess(book[t], n) \in Position /\ PositionLess(book[t], n).lots <= book[t].lots
      BY <2>1, LessIsLess DEF IInv, Shaped
    <3> QED
      BY <2>1, <3>1 DEF IInv, Shaped, Shrinks, Position
  <2>3. Live' \subseteq Live
    BY <2>2, FewerLive DEF IInv
  <2>4. Shaped' /\ Scheduled'
    BY <2>1, <2>2 DEF IInv, Shaped, Scheduled, Shrinks
  <2>5. Final'
    BY <2>1, <2>3 DEF IInv, Final, VerdictHolds
  <2> QED
    BY <2>4, <2>5 DEF IInv
<1>7. CASE \/ FlattenStart \/ Escalate \/ FlattenDies
           \/ \E P \in Positions : Look(P) \/ Verify(P)
  BY <1>2, <1>7, RunKeeps
<1>8. ASSUME NEW s \in Symbols, NEW T \in SUBSET Tickets, Restart(s, T)
      PROVE  IInv'
  <2>1. /\ book' = Without(book, T) /\ open' = [open EXCEPT ![s] = NoTrade]
        /\ UNCHANGED <<now, bid, step, report, blind, rows>>
    BY <1>8 DEF Restart, flattener
  <2>2. Shrinks
    BY <2>1, WithoutShrinks DEF Shrinks, IInv
  <2>3. open' \in [Symbols -> Trade]
    BY <2>1, Numbers DEF IInv, Shaped
  <2> QED
    BY <2>1, <2>2, <2>3, ShrinkKeeps DEF IInv, Shaped
<1>9. CASE UNCHANGED nightvars
  <2>1. UNCHANGED <<now, bid, book, open, step, report, blind, rows>>
    BY <1>9 DEF nightvars, vars, account, session, flattener
  <2> QED
    BY <1>2, <2>1, ShrinkKeeps DEF IInv, Shaped
<1> QED
  BY <1>3, <1>4, <1>5, <1>6, <1>7, <1>8, <1>9 DEF NightNext, Flatten

LEMMA InitKept == ASSUME NightInit PROVE IInv
<1>1. Shaped
  BY Numbers, SessionAssumption DEF NightInit, Init, Shaped
<1>2. Live = {}
  BY Numbers DEF NightInit, Init, Live
<1>3. Scheduled /\ Final
  BY <1>2 DEF NightInit, Scheduled, Final, VerdictHolds
<1> QED
  BY <1>1, <1>3 DEF IInv

(* -------------------------------- theorems ------------------------------- *)

\* The invariant holds in every state of a night.
THEOREM Inductive == NightSpec => []IInv
<1>1. NightInit => IInv
  BY InitKept
<1>2. IInv /\ [NightNext]_nightvars => IInv'
  BY StepKept
<1> QED
  BY <1>1, <1>2, PTL DEF NightSpec

\* "VERIFIES flat by re-querying the broker" (flattener.py:3): a run that reported
\* a flat account, and whose query did not fail, is right for the rest of the day,
\* whatever sessions, brackets and restarts do after the query.  The flattener has
\* to be scheduled after the entry window.
THEOREM VerdictIsFinal ==
  ASSUME EntryEnd < FlattenFrom
  PROVE  NightSpec => []VerdictHolds
<1>1. IInv => VerdictHolds
  BY DEF IInv, Final
<1> QED
  BY <1>1, Inductive, PTL
==============================================================================
