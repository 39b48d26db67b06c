-------------------------- MODULE OrderManagerProofs --------------------------
(***************************************************************************)
(* Proofs about OrderManager for every number of keys, retries, tickets,   *)
(* restarts, lots and every length of the clock.                           *)
(*                                                                         *)
(* "At most one order per key" is not inductive.  What is: a key's row is  *)
(* written before its first request (WriteAhead), the requests sent under  *)
(* a key are counted by the one call that owns the key (TriesCounted), the *)
(* broker can execute only requests that were sent (RequestsBounded), and, *)
(* while no answer is lost, a request that was answered with a retryable   *)
(* refusal is gone from the wire, and one answered with a final failure is *)
(* the last of its key (Truthful).                                         *)
(* The limiter (Spaced, Counted), the journal (Journalled) and the partial *)
(* closes (Taken) have invariants of their own, next to their theorems.    *)
(***************************************************************************)
EXTENDS OrderManager, FiniteSetTheorems, TLAPS

OnKey == {"check", "send", "placing", "journal", "close", "closing"}

\* The call's answer slot is empty unless the broker was just asked.
AnswerSlot ==
  /\ pc \notin {"placing", "closing"} => answer = NoAnswer
  /\ answer.kind = "none" => answer = NoAnswer
  /\ pc \in OnKey => call.intent \in Intents

\* Nothing is sent under a key before its row says so.
WriteAhead ==
  /\ \A i \in Intents : row[i].status \in {"none", "pending"} => tries[i] = 0
  /\ pc = "check" => row[call.intent].status = "pending" /\ call.attempt = 0
  /\ pc = "send" => row[call.intent].status \in {"pending", "sent"}
  /\ pc = "placing" => row[call.intent].status = "sent"

\* The retry loop counts the requests of its key.
TriesCounted ==
  /\ pc = "send" => tries[call.intent] = call.attempt
  /\ pc = "placing" => tries[call.intent] = call.attempt + 1
  /\ \A i \in Intents : tries[i] <= MaxRetries

\* Orders executed and orders still on their way were all sent.
RequestsBounded == \A i \in Intents : executed[i] + wire[i] <= tries[i]

\* What a caller knows about its request, if no answer is lost.
Truthful ==
  ~AckLoss =>
    /\ \A i \in Intents : executed[i] + wire[i] <= 1
    /\ \A i \in Intents : row[i].status \in Denials => executed[i] + wire[i] = 0
    /\ pc \in {"check", "send"} => executed[call.intent] + wire[call.intent] = 0
    /\ pc = "placing" /\ answer = NoAnswer => executed[call.intent] = 0
    /\ pc = "placing" /\ (answer.kind = "retry" \/ (answer.kind = "hard" /\ CodesNamed))
         => executed[call.intent] + wire[call.intent] = 0

\* A ticket handed to the caller, or booked, names a position of that key.
TicketsBooked ==
  /\ BookedTicketIsOurs
  /\ pc = "placing" /\ answer.kind = "ok"
       => /\ answer.ticket \in 1..(next_ticket - 1)
          /\ pos[answer.ticket].owner = call.intent

IInv ==
  /\ TypeOK /\ AnswerSlot /\ WriteAhead /\ TriesCounted
  /\ RequestsBounded /\ Truthful /\ TicketsBooked


(* ------------------------------- the types ------------------------------- *)

RateSet == [last : Nat \union {NoTime}, ops : 0..MaxOps, day : Nat \union {NoDay}]

\* The UTC day of a clock reading is a natural number.
LEMMA DayNat == ASSUME NEW t \in Nat PROVE Day(t) \in Nat
BY OrderAssumption DEF Day

\* The limiter's record stays a record, whatever it is told.
LEMMA RateType ==
  ASSUME TypeOK
  PROVE  /\ FreshRate \in RateSet /\ Rolled(rate) \in RateSet
         /\ RecordOp(rate) \in RateSet /\ RecordEntry(rate) \in RateSet
<1>0. now \in Nat /\ Day(now) \in Nat /\ rate \in RateSet
  BY DayNat DEF TypeOK, RateSet
<1>1. FreshRate \in RateSet
  BY OrderAssumption DEF FreshRate, RateSet
<1>2. Rolled(rate) \in RateSet
  BY <1>0, OrderAssumption DEF Rolled, RateSet
<1>3. RecordOp(rate) \in RateSet
  BY <1>2, OrderAssumption DEF RecordOp, RateSet
<1>4. RecordEntry(rate) \in RateSet
  BY <1>0, <1>3 DEF RecordEntry, RateSet
<1> QED
  BY <1>1, <1>2, <1>3, <1>4

\* The values a call's locals take.
LEMMA CallOnType ==
  ASSUME NEW i \in Intents \union {Nobody}, NEW n \in 0..Lots
  PROVE  CallOn(i, n) \in Call
BY OrderAssumption DEF CallOn, Call

LEMMA NoCallType == NoCall \in Call /\ NoScan \in Scan /\ NoAnswer \in Answer
<1>1. NoCall \in Call
  BY CallOnType, OrderAssumption DEF NoCall, Everything
<1>2. NoScan \in Scan
  BY DEF NoScan, Scan
<1>3. NoAnswer \in Answer
  BY OrderAssumption DEF NoAnswer, Answer
<1> QED
  BY <1>1, <1>2, <1>3

LEMMA ReturnType == Return => pc' \in Steps /\ call' \in Call
BY NoCallType DEF Return, Steps

LEMMA GivenAnswers == Retry \in Answer /\ Hard \in Answer
BY OrderAssumption DEF Retry, Hard, Answer

LEMMA OkType ==
  ASSUME NEW t \in Tickets, NEW n \in 0..Lots PROVE Ok(t, n) \in Answer
BY DEF Ok, Answer

LEMMA StatusType ==
  ASSUME TypeOK, NEW i \in Intents, NEW s \in Status, SetStatus(i, s)
  PROVE  row' \in [Intents -> Row]
BY DEF TypeOK, SetStatus, Row

LEMMA AnsweredType == ASSUME NEW k, Answered(k) PROVE answer' \in Answer
BY NoCallType DEF Answered

\* Init has the types.
LEMMA InitType == Init => TypeOK
<1> SUFFICES ASSUME Init PROVE TypeOK
  OBVIOUS
<1>1. row \in [Intents -> Row]
  BY DEF Init, Row, Status, NoTicket, NoDay
<1>2. pos \in [Tickets -> [owner : Intents \union {Nobody}, lots : 0..Lots]]
  BY OrderAssumption DEF Init
<1>3. rate \in RateSet
  BY OrderAssumption DEF Init, FreshRate, RateSet
<1>4. fills \in [Intents -> [entered : Nat, closed : Nat]]
  BY DEF Init
<1> QED
  BY <1>1, <1>2, <1>3, <1>4, NoCallType, OrderAssumption
  DEF Init, TypeOK, Steps, RateSet

LEMMA EntryType == ASSUME TypeOK, AnswerSlot, Entry PROVE TypeOK'
<1> USE DEF db, memory, broker, history, Goto
<1>0. pc \in OnKey => call.intent \in Intents
  BY DEF AnswerSlot
<1>1. ASSUME NEW i \in Intents, Submit(i) PROVE TypeOK'
  <2>1. row' \in [Intents -> Row]
    BY <1>1, DayNat DEF Submit, TypeOK, Row, Status
  <2>2. call' \in Call /\ pc' \in Steps
    BY <1>1, CallOnType, OrderAssumption DEF Submit, Everything, Steps
  <2> QED
    BY <1>1, <2>1, <2>2 DEF Submit, TypeOK
<1>2. ASSUME NEW i \in Intents, SubmitDuplicate(i) PROVE TypeOK'
  BY <1>2 DEF SubmitDuplicate, TypeOK, vars
<1>3. CASE EntryRateLimited
  <2>1. row' \in [Intents -> Row]
    BY <1>0, <1>3, StatusType DEF EntryRateLimited, Status, OnKey
  <2> QED
    BY <1>3, <2>1, ReturnType, RateType DEF EntryRateLimited, TypeOK, RateSet
<1>4. CASE EntryAllowed
  BY <1>4, RateType DEF EntryAllowed, TypeOK, RateSet, Steps
<1>5. CASE SendEntry
  <2>1. row' \in [Intents -> Row]
    BY <1>0, <1>5, StatusType DEF SendEntry, Status, OnKey
  <2>2. wire' \in [Intents -> Nat] /\ tries' \in [Intents -> Nat]
    BY <1>0, <1>5 DEF SendEntry, TypeOK, OnKey
  <2> QED
    BY <1>5, <2>1, <2>2 DEF SendEntry, TypeOK, Steps
<1>6. CASE EntryFilled
  <2>1. call.intent \in Intents /\ answer.ticket \in {NoTicket} \union Tickets
          /\ answer.lots \in Nat /\ now \in Nat
    BY <1>0, <1>6, OrderAssumption DEF EntryFilled, OnKey, TypeOK, Answer
  <2>2. row' \in [Intents -> Row]
    BY <1>6, <2>1 DEF EntryFilled, TypeOK, Row, Status
  <2>3. call' \in Call
    BY <1>6, <2>1 DEF EntryFilled, TypeOK, Call
  <2>4. entry_at' \in [Intents -> Nat \union {NoTime}]
    BY <1>6, <2>1 DEF EntryFilled, TypeOK
  <2> QED
    BY <1>6, <2>2, <2>3, <2>4, RateType, AnsweredType
    DEF EntryFilled, TypeOK, RateSet, Steps
<1>7. CASE JournalEntry
  <2>1. fills' \in [Intents -> [entered : Nat, closed : Nat]]
    BY <1>0, <1>7 DEF JournalEntry, OnKey, TypeOK, Call
  <2>2. held' \subseteq Intents
    BY <1>0, <1>7 DEF JournalEntry, OnKey, TypeOK
  <2> QED
    BY <1>7, <2>1, <2>2, ReturnType DEF JournalEntry, TypeOK
<1>8. CASE EntryRejected
  <2>1. row' \in [Intents -> Row]
    BY <1>0, <1>8, StatusType DEF EntryRejected, Status, OnKey
  <2> QED
    BY <1>8, <2>1, ReturnType, AnsweredType DEF EntryRejected, TypeOK
<1>9. CASE EntryRetry
  <2>1. call' \in Call
    BY <1>9, OrderAssumption DEF EntryRetry, LastAttempt, TypeOK, Call
  <2> QED
    BY <1>9, <2>1, AnsweredType DEF EntryRetry, TypeOK, Steps
<1>10. CASE EntryAbandoned
  <2>1. row' \in [Intents -> Row]
    BY <1>0, <1>10, StatusType DEF EntryAbandoned, Status, OnKey
  <2> QED
    BY <1>10, <2>1, ReturnType, AnsweredType DEF EntryAbandoned, TypeOK
<1> QED
  BY <1>1, <1>2, <1>3, <1>4, <1>5, <1>6, <1>7, <1>8, <1>9, <1>10 DEF Entry

\* A close takes at most what is there, and at most what was asked for.
LEMMA VolumeBounds ==
  ASSUME NEW have \in Nat, NEW want \in Nat
  PROVE  /\ CloseVolume(have, want) \in 0..have
         /\ want # Everything => CloseVolume(have, want) <= want
BY DEF CloseVolume

\* What the broker takes off a position.
LEMMA TakesOff ==
  ASSUME TypeOK, AnswerSlot, NEW m \in 0..Lots, Takes(m)
  PROVE  LET k == call.intent
             t == row[k].ticket
         IN /\ k \in Intents /\ t \in Tickets /\ pc = "close"
            /\ pos[t].lots \in 0..Lots /\ m \in 0..pos[t].lots
            /\ call.want # Everything => m <= call.want
            /\ pos' = [pos EXCEPT ![t].lots = pos[t].lots - m]
            /\ pos' \in [Tickets -> [owner : Intents \union {Nobody}, lots : 0..Lots]]
            /\ removed' \in [Intents -> Nat]
<1> DEFINE k == call.intent
           t == row[k].ticket
<1>1. k \in Intents /\ t \in Tickets /\ OpenLots(t) = pos[t].lots /\ pc = "close"
  BY DEF Takes, OpenLots, TypeOK, AnswerSlot, OnKey
<1>2. pos[t].lots \in 0..Lots /\ pos[t].lots \in Nat /\ call.want \in Nat
  BY <1>1, OrderAssumption DEF TypeOK, Call
<1>3. m \in Nat /\ m <= CloseVolume(pos[t].lots, call.want)
  BY <1>1, OrderAssumption DEF Takes
<1>4. m \in 0..pos[t].lots /\ (call.want # Everything => m <= call.want)
  BY <1>2, <1>3, VolumeBounds
<1>5. pos' = [pos EXCEPT ![t].lots = pos[t].lots - m]
  BY DEF Takes
<1>6. removed' \in [Intents -> Nat]
  BY <1>1, <1>3 DEF Takes, TypeOK
<1> HIDE DEF t, k
<1>7. pos[t].lots - m \in 0..Lots
  BY <1>2, <1>4, OrderAssumption
<1>8. pos' \in [Tickets -> [owner : Intents \union {Nobody}, lots : 0..Lots]]
  BY <1>1, <1>5, <1>7 DEF TypeOK
<1> QED
  BY <1>1, <1>2, <1>4, <1>5, <1>6, <1>8 DEF t, k

\* A close that was executed: the answer it gets, and what the call remembers.
LEMMA CloseTakes ==
  ASSUME TypeOK, AnswerSlot, NEW m \in 0..Lots, CloseExecuted(m)
  PROVE  /\ pc' = "closing" /\ m \in Nat \ {0}
         /\ call' = [call EXCEPT !.done = call.done + m]
         /\ answer' \in {Ok(row[call.intent].ticket, m), Retry, Hard}
         /\ UNCHANGED <<row, fills, held>>
BY OrderAssumption DEF CloseExecuted, Results, Goto, db

LEMMA ClosingType == ASSUME TypeOK, AnswerSlot, Closing PROVE TypeOK'
<1> USE DEF db, memory, broker, history, Goto
<1>1. ASSUME NEW i \in Intents, NEW want \in 0..Lots, StartClose(i, want) PROVE TypeOK'
  BY <1>1, CallOnType DEF StartClose, TypeOK, Steps
<1>2. ASSUME NEW m \in 0..Lots, CloseExecuted(m) PROVE TypeOK'
  <2> DEFINE t == row[call.intent].ticket
  <2>1. Takes(m) /\ t \in Tickets
          /\ pos' \in [Tickets -> [owner : Intents \union {Nobody}, lots : 0..Lots]]
          /\ removed' \in [Intents -> Nat]
    BY <1>2, TakesOff DEF CloseExecuted
  <2>2. answer' \in Answer
    BY <1>2, <2>1, CloseTakes, OkType, GivenAnswers
  <2>3. call' \in Call
    <3>1. m \in Nat /\ call' = [call EXCEPT !.done = call.done + m]
      BY <1>2, CloseTakes
    <3>2. call.done + m \in Nat
      BY <3>1 DEF TypeOK, Call
    <3> QED
      BY <3>1, <3>2 DEF TypeOK, Call
  <2> HIDE DEF t
  <2> QED
    BY <1>2, <2>1, <2>2, <2>3, RateType DEF CloseExecuted, TypeOK, RateSet, Steps
<1>8. ASSUME NEW m \in 0..Lots, CloseRaises(m) PROVE TypeOK'
  <2>1. Takes(m)
          /\ pos' \in [Tickets -> [owner : Intents \union {Nobody}, lots : 0..Lots]]
          /\ removed' \in [Intents -> Nat]
    BY <1>8, TakesOff DEF CloseRaises
  <2> QED
    BY <1>8, <2>1, ReturnType DEF CloseRaises, TypeOK
<1>3. ASSUME NEW a \in {Retry, Hard}, CloseRefused(a) PROVE TypeOK'
  BY <1>3, RateType, GivenAnswers DEF CloseRefused, TypeOK, RateSet, Steps
<1>4. CASE CloseFilled
  <2>1. answer.lots \in Nat /\ call.intent \in Intents
    BY <1>4, OrderAssumption DEF CloseFilled, TypeOK, Answer, AnswerSlot, OnKey
  <2>2. fills' \in [Intents -> [entered : Nat, closed : Nat]]
    BY <1>4, <2>1 DEF CloseFilled, TypeOK
  <2> QED
    BY <1>4, <2>2, ReturnType, AnsweredType DEF CloseFilled, TypeOK
<1>5. CASE CloseRetry
  <2>1. call' \in Call
    BY <1>5, OrderAssumption DEF CloseRetry, LastAttempt, TypeOK, Call
  <2> QED
    BY <1>5, <2>1, AnsweredType DEF CloseRetry, TypeOK, Steps
<1>6. CASE CloseFailed
  BY <1>6, ReturnType, AnsweredType DEF CloseFailed, TypeOK
<1>7. ASSUME NEW i \in Intents, ModifySl(i) PROVE TypeOK'
  BY <1>7, RateType DEF ModifySl, TypeOK, RateSet
<1> QED
  BY <1>1, <1>2, <1>3, <1>4, <1>5, <1>6, <1>7, <1>8 DEF Closing

LEMMA ReconcileType == ASSUME TypeOK, Reconcile PROVE TypeOK'
<1> USE DEF db, memory, broker, history, Goto
<1>1. ASSUME NEW adopt \in BOOLEAN, StartReconcile(adopt) PROVE TypeOK'
  <2>1. OpenTickets \subseteq Tickets
    BY DEF OpenTickets
  <2>2. BookedToday \subseteq Tickets
    BY DEF BookedToday, TypeOK, Row
  <2>3. scan' \in Scan
    BY <1>1, <2>1, <2>2 DEF StartReconcile, Scan
  <2> QED
    BY <1>1, <2>3, CallOnType DEF StartReconcile, TypeOK, Steps
<1>2. ASSUME NEW t \in Tickets, ReconcileKeep(t) PROVE TypeOK'
  <2>1. scan' \in Scan
    BY <1>2 DEF ReconcileKeep, Scan, TypeOK
  <2> QED
    BY <1>2, <2>1 DEF ReconcileKeep, TypeOK
<1>3. ASSUME NEW t \in Tickets, NEW ok \in BOOLEAN, ReconcileFlatten(t, ok) PROVE TypeOK'
  <2>1. scan' \in Scan
    BY <1>3 DEF ReconcileFlatten, Scan, TypeOK
  <2>2. pos' \in [Tickets -> [owner : Intents \union {Nobody}, lots : 0..Lots]]
    BY <1>3, OrderAssumption DEF ReconcileFlatten, TypeOK
  <2> QED
    BY <1>3, <2>1, <2>2 DEF ReconcileFlatten, TypeOK
<1>4. CASE ReconcileDone
  BY <1>4, ReturnType, NoCallType DEF ReconcileDone, TypeOK
<1> QED
  BY <1>1, <1>2, <1>3, <1>4 DEF Reconcile

LEMMA BrokerType == ASSUME TypeOK, Broker PROVE TypeOK'
<1> USE DEF db, memory, broker, history
<1>1. ASSUME NEW i \in Intents, NEW n \in 1..Lots, Executes(i, n) PROVE TypeOK'
  <2>1. n \in 0..Lots /\ next_ticket \in Tickets
    BY <1>1, OrderAssumption DEF Executes
  <2>2. answer' \in Answer
    BY <1>1, <2>1, OkType, GivenAnswers DEF Executes, Results, Answers, TypeOK
  <2>3. pos' \in [Tickets -> [owner : Intents \union {Nobody}, lots : 0..Lots]]
    BY <1>1, <2>1 DEF Executes, TypeOK
  <2>4. next_ticket' \in 1..(MaxTickets + 1)
    BY <1>1, <2>1, OrderAssumption DEF Executes, Tickets
  <2> QED
    BY <1>1, <2>2, <2>3, <2>4 DEF Executes, TypeOK
<1>2. ASSUME NEW i \in Intents, NEW a \in {Retry, Hard}, Refuses(i, a) PROVE TypeOK'
  BY <1>2, GivenAnswers DEF Refuses, Answers, TypeOK
<1>3. ASSUME NEW i \in Intents, TimesOut(i) PROVE TypeOK'
  BY <1>3, GivenAnswers DEF TimesOut, TypeOK
<1>4. ASSUME NEW t \in Tickets, ClosesItself(t) PROVE TypeOK'
  BY <1>4, OrderAssumption DEF ClosesItself, TypeOK
<1>5. CASE ForeignOpens
  BY <1>5, OrderAssumption DEF ForeignOpens, TypeOK, Tickets
<1>6. ASSUME NEW i \in Intents, Places(i) PROVE TypeOK'
  BY <1>6, GivenAnswers DEF Places, TypeOK
<1> QED
  BY <1>1, <1>2, <1>3, <1>4, <1>5, <1>6 DEF Broker

LEMMA ClockType == ASSUME TypeOK, Tick \/ Restart \/ UNCHANGED vars PROVE TypeOK'
<1> USE DEF db, memory, broker, history
<1>1. CASE Tick
  BY <1>1 DEF Tick, TypeOK
<1>2. CASE Restart
  BY <1>2, RateType, ReturnType, NoCallType DEF Restart, TypeOK, RateSet
<1>3. CASE UNCHANGED vars
  BY <1>3 DEF TypeOK, vars
<1> QED
  BY <1>1, <1>2, <1>3

LEMMA TypeStep == ASSUME TypeOK, AnswerSlot, [Next]_vars PROVE TypeOK'
<1>1. CASE Tick \/ Restart \/ UNCHANGED vars
  BY <1>1, ClockType
<1> QED
  BY <1>1, EntryType, ClosingType, ReconcileType, BrokerType DEF Next

(* ------------------------------ the protocol ----------------------------- *)

Protocol == WriteAhead /\ TriesCounted /\ RequestsBounded /\ Truthful

\* A step that touches neither the rows' status nor the requests keeps the
\* protocol if the thread is not in the retry loop afterwards ...
LEMMA FrameElsewhere ==
  ASSUME Protocol, pc' \notin {"check", "send", "placing"},
         UNCHANGED <<row, tries, executed, wire>>
  PROVE  Protocol'
BY DEF Protocol, WriteAhead, TriesCounted, RequestsBounded, Truthful

\* ... or stays where it was.
LEMMA FrameStays ==
  ASSUME Protocol, UNCHANGED <<row, tries, executed, wire, pc, call, answer>>
  PROVE  Protocol'
BY DEF Protocol, WriteAhead, TriesCounted, RequestsBounded, Truthful


LEMMA AnswerSlotStep == ASSUME TypeOK, AnswerSlot, [Next]_vars PROVE AnswerSlot'
<1> USE DEF AnswerSlot, OnKey, Goto
<1>1. ASSUME Entry PROVE AnswerSlot'
  <2>1. ASSUME NEW i \in Intents, Submit(i) PROVE AnswerSlot'
    BY <2>1 DEF Submit, CallOn
  <2>2. ASSUME NEW i \in Intents, SubmitDuplicate(i) PROVE AnswerSlot'
    BY <2>2 DEF SubmitDuplicate, vars
  <2>3. CASE EntryRateLimited \/ EntryAllowed \/ SendEntry \/ JournalEntry
    BY <2>3 DEF EntryRateLimited, EntryAllowed, SendEntry, JournalEntry, Return
  <2>4. CASE EntryFilled \/ EntryRetry
    BY <2>4 DEF EntryFilled, EntryRetry, Answered, TypeOK, Call
  <2>5. CASE EntryRejected \/ EntryAbandoned
    BY <2>5 DEF EntryRejected, EntryAbandoned, Answered, Return
  <2> QED
    BY <1>1, <2>1, <2>2, <2>3, <2>4, <2>5 DEF Entry
<1>2. ASSUME Closing PROVE AnswerSlot'
  <2>1. ASSUME NEW i \in Intents, NEW want \in 0..Lots, StartClose(i, want)
        PROVE  AnswerSlot'
    BY <2>1 DEF StartClose, CallOn
  <2>2. ASSUME NEW m \in 0..Lots, CloseExecuted(m) PROVE AnswerSlot'
    <3>1. call'.intent = call.intent /\ call.intent \in Intents
      BY <2>2, CloseTakes, TakesOff DEF CloseExecuted, TypeOK, Call
    <3>2. answer'.kind # "none" /\ pc' = "closing"
      BY <2>2, CloseTakes DEF Ok, Retry, Hard
    <3> QED
      BY <3>1, <3>2
  <2>3. ASSUME NEW a \in {Retry, Hard}, CloseRefused(a) PROVE AnswerSlot'
    BY <2>3 DEF CloseRefused, Retry, Hard
  <2>4. CASE CloseFilled \/ CloseFailed
    BY <2>4 DEF CloseFilled, CloseFailed, Answered, Return
  <2>5. CASE CloseRetry
    BY <2>5 DEF CloseRetry, Answered, TypeOK, Call
  <2>6. ASSUME NEW i \in Intents, ModifySl(i) PROVE AnswerSlot'
    BY <2>6 DEF ModifySl
  <2>7. ASSUME NEW m \in 0..Lots, CloseRaises(m) PROVE AnswerSlot'
    BY <2>7 DEF CloseRaises, Takes, Return
  <2> QED
    BY <1>2, <2>1, <2>2, <2>3, <2>4, <2>5, <2>6, <2>7 DEF Closing
<1>3. ASSUME Reconcile PROVE AnswerSlot'
  BY <1>3 DEF Reconcile, StartReconcile, ReconcileKeep, ReconcileFlatten,
     ReconcileDone, Return
<1>4. ASSUME Broker PROVE AnswerSlot'
  <2>1. ASSUME NEW i \in Intents, NEW n \in 1..Lots, Executes(i, n) PROVE AnswerSlot'
    BY <2>1 DEF Executes, Results, Answers, Waiting, Ok, Hard
  <2>2. ASSUME NEW i \in Intents, NEW a \in {Retry, Hard}, Refuses(i, a)
        PROVE  AnswerSlot'
    BY <2>2 DEF Refuses, Answers, Waiting, Retry, Hard
  <2>3. ASSUME NEW i \in Intents, TimesOut(i) PROVE AnswerSlot'
    BY <2>3 DEF TimesOut, Waiting, Retry
  <2>4. ASSUME NEW t \in Tickets, ClosesItself(t) PROVE AnswerSlot'
    BY <2>4 DEF ClosesItself
  <2>5. CASE ForeignOpens
    BY <2>5 DEF ForeignOpens
  <2>6. ASSUME NEW i \in Intents, Places(i) PROVE AnswerSlot'
    BY <2>6 DEF Places, Waiting, Hard
  <2> QED
    BY <1>4, <2>1, <2>2, <2>3, <2>4, <2>5, <2>6 DEF Broker
<1>5. CASE Tick \/ Restart \/ UNCHANGED vars
  BY <1>5 DEF Tick, Restart, vars, Return
<1> QED
  BY <1>1, <1>2, <1>3, <1>4, <1>5 DEF Next

\* What an UPDATE of the status column does.
LEMMA StatusOf ==
  ASSUME TypeOK, NEW i \in Intents, NEW s \in Status, SetStatus(i, s)
  PROVE  \A j \in Intents : row'[j].status = IF j = i THEN s ELSE row[j].status
BY DEF TypeOK, SetStatus, Row

\* A denial is one of the final statuses.
LEMMA DenialsGiveUp ==
  Denials \subseteq GivenUp /\ GivenUp \subseteq Status \ {"none", "pending", "sent", "filled"}
BY DEF Denials, GivenUp, Status

\* A call that gives up leaves a row that denies the order only if there is none.
LEMMA GiveUpProtocol ==
  ASSUME TypeOK, Protocol, call.intent \in Intents,
         NEW s \in GivenUp, SetStatus(call.intent, s), Return,
         UNCHANGED <<tries, executed, wire>>,
         ~AckLoss /\ s \in Denials => executed[call.intent] + wire[call.intent] = 0
  PROVE  Protocol'
<1>1. \A j \in Intents :
        row'[j].status = IF j = call.intent THEN s ELSE row[j].status
  BY StatusOf DEF GivenUp, Status
<1>2. s \notin {"none", "pending"}
  BY DEF GivenUp
<1>3. WriteAhead'
  BY <1>1, <1>2 DEF Protocol, WriteAhead, Return
<1>4. TriesCounted' /\ RequestsBounded'
  BY DEF Protocol, TriesCounted, RequestsBounded, Return
<1>5. Truthful'
  BY <1>1 DEF Protocol, Truthful, Return, Denials
<1> QED
  BY <1>3, <1>4, <1>5 DEF Protocol

LEMMA EntryProtocol ==
  ASSUME TypeOK, AnswerSlot, Protocol, Entry PROVE Protocol'
<1> USE DEF Goto, db, memory, history, broker
<1>0. pc \in OnKey => call.intent \in Intents
  BY DEF AnswerSlot
<1>1. ASSUME NEW i \in Intents, Submit(i) PROVE Protocol'
  <2>1. \A j \in Intents :
          row'[j].status = IF j = i THEN "pending" ELSE row[j].status
    BY <1>1 DEF Submit, TypeOK, Row
  <2>2. tries[i] = 0 /\ row[i].status = "none"
    BY <1>1 DEF Submit, KeyFree, Protocol, WriteAhead
  <2>3. executed[i] + wire[i] = 0
    <3>1. executed[i] \in Nat /\ wire[i] \in Nat
      BY DEF TypeOK
    <3>2. executed[i] + wire[i] <= tries[i]
      BY DEF Protocol, RequestsBounded
    <3> QED
      BY <2>2, <3>1, <3>2
  <2>4. pc' = "check" /\ call'.intent = i /\ call'.attempt = 0
    BY <1>1 DEF Submit, CallOn
  <2>5. UNCHANGED <<tries, executed, wire>>
    BY <1>1 DEF Submit
  <2>6. WriteAhead'
    BY <2>1, <2>2, <2>4, <2>5 DEF Protocol, WriteAhead
  <2>7. TriesCounted' /\ RequestsBounded'
    BY <2>4, <2>5 DEF Protocol, TriesCounted, RequestsBounded
  <2>8. Truthful'
    BY <2>1, <2>3, <2>4, <2>5 DEF Protocol, Truthful, Denials, GivenUp
  <2> QED
    BY <2>6, <2>7, <2>8 DEF Protocol
<1>2. ASSUME NEW i \in Intents, SubmitDuplicate(i) PROVE Protocol'
  BY <1>2, FrameStays DEF SubmitDuplicate, vars
<1>3. CASE EntryRateLimited
  BY <1>0, <1>3, GiveUpProtocol
  DEF EntryRateLimited, OnKey, GivenUp, Protocol, Truthful
<1>4. CASE EntryAllowed
  <2>1. pc = "check" /\ pc' = "send" /\ call.intent \in Intents
          /\ UNCHANGED <<row, tries, executed, wire, call>>
    BY <1>0, <1>4 DEF EntryAllowed, OnKey
  <2>2. WriteAhead' /\ TriesCounted' /\ RequestsBounded'
    BY <2>1 DEF Protocol, WriteAhead, TriesCounted, RequestsBounded
  <2>3. Truthful'
    BY <2>1 DEF Protocol, Truthful
  <2> QED
    BY <2>2, <2>3 DEF Protocol
<1>5. CASE SendEntry
  <2> DEFINE k == call.intent
  <2>1. pc = "send" /\ pc' = "placing" /\ k \in Intents /\ answer = NoAnswer
          /\ UNCHANGED <<executed, call, answer>>
    BY <1>0, <1>5 DEF SendEntry, OnKey, AnswerSlot
  <2>2. \A j \in Intents : row'[j].status = IF j = k THEN "sent" ELSE row[j].status
    BY <1>5, <2>1, StatusOf DEF SendEntry, Status
  <2>3. \A j \in Intents : /\ tries'[j] = IF j = k THEN tries[j] + 1 ELSE tries[j]
                           /\ wire'[j] = IF j = k THEN wire[j] + 1 ELSE wire[j]
    BY <1>5, <2>1 DEF SendEntry, TypeOK
  <2>4. tries[k] = call.attempt /\ call.attempt \in 0..(MaxRetries - 1)
    BY <2>1 DEF Protocol, TriesCounted, TypeOK, Call
  <2>5. executed \in [Intents -> Nat] /\ wire \in [Intents -> Nat] /\ tries \in [Intents -> Nat]
    BY DEF TypeOK
  <2>6. WriteAhead'
    BY <2>1, <2>2, <2>3 DEF Protocol, WriteAhead
  <2>7. TriesCounted'
    BY <2>1, <2>3, <2>4, <2>5, OrderAssumption DEF Protocol, TriesCounted
  <2>8. RequestsBounded'
    BY <2>1, <2>3, <2>5 DEF Protocol, RequestsBounded
  <2>9. Truthful'
    <3> SUFFICES ASSUME ~AckLoss PROVE Truthful'
      BY DEF Truthful
    <3>1. executed[k] + wire[k] = 0
      BY <2>1 DEF Protocol, Truthful
    <3>2. executed[k] = 0 /\ wire[k] = 0
      BY <2>1, <2>5, <3>1
    <3>3. answer' = NoAnswer /\ answer'.kind = "none"
      BY <2>1 DEF NoAnswer
    <3> QED
      BY <2>1, <2>2, <2>3, <2>5, <3>2, <3>3 DEF Protocol, Truthful, Denials, GivenUp
  <2> QED
    BY <2>6, <2>7, <2>8, <2>9 DEF Protocol
<1>6. CASE EntryFilled
  <2>1. pc = "placing" /\ pc' = "journal" /\ call.intent \in Intents
          /\ UNCHANGED <<tries, executed, wire>>
    BY <1>0, <1>6 DEF EntryFilled, OnKey
  <2>2. \A j \in Intents :
          row'[j].status = IF j = call.intent THEN "filled" ELSE row[j].status
    BY <1>6, <2>1 DEF EntryFilled, TypeOK, Row
  <2>3. WriteAhead' /\ TriesCounted' /\ RequestsBounded'
    BY <2>1, <2>2 DEF Protocol, WriteAhead, TriesCounted, RequestsBounded
  <2>4. Truthful'
    BY <2>1, <2>2 DEF Protocol, Truthful, Denials, GivenUp
  <2> QED
    BY <2>3, <2>4 DEF Protocol
<1>7. CASE JournalEntry
  BY <1>7, FrameElsewhere DEF JournalEntry, Return
<1>8. CASE EntryRejected
  BY <1>0, <1>8, GiveUpProtocol
  DEF EntryRejected, Answered, OnKey, GivenUp, Denials, Protocol, Truthful
<1>9. CASE EntryRetry
  <2> DEFINE k == call.intent
  <2>1. pc = "placing" /\ pc' = "send" /\ k \in Intents /\ answer.kind = "retry"
          /\ UNCHANGED <<row, tries, executed, wire>>
    BY <1>0, <1>9 DEF EntryRetry, OnKey, Answered
  <2>2. call'.intent = k /\ call'.attempt = call.attempt + 1
    BY <1>9 DEF EntryRetry, TypeOK, Call
  <2>3. WriteAhead' /\ TriesCounted' /\ RequestsBounded'
    BY <2>1, <2>2 DEF Protocol, WriteAhead, TriesCounted, RequestsBounded
  <2>4. Truthful'
    BY <2>1, <2>2 DEF Protocol, Truthful
  <2> QED
    BY <2>3, <2>4 DEF Protocol
<1>10. CASE EntryAbandoned
  BY <1>0, <1>10, GiveUpProtocol
  DEF EntryAbandoned, Answered, OnKey, GivenUp, Protocol, Truthful
<1> QED
  BY <1>1, <1>2, <1>3, <1>4, <1>5, <1>6, <1>7, <1>8, <1>9, <1>10 DEF Entry

LEMMA BrokerProtocol ==
  ASSUME TypeOK, AnswerSlot, Protocol, Broker PROVE Protocol'
<1> USE DEF db, memory, history, broker
<1>0. executed \in [Intents -> Nat] /\ wire \in [Intents -> Nat] /\ tries \in [Intents -> Nat]
  BY DEF TypeOK
<1>1. ASSUME NEW i \in Intents, NEW n \in 1..Lots, Executes(i, n) PROVE Protocol'
  <2>1. \A j \in Intents : executed'[j] + wire'[j] = executed[j] + wire[j]
    BY <1>0, <1>1 DEF Executes
  <2>2. executed[i] + wire[i] > 0
    BY <1>0, <1>1 DEF Executes
  <2>3. \A j \in Intents : j # i => executed'[j] = executed[j]
    BY <1>0, <1>1 DEF Executes
  <2>4. UNCHANGED <<row, tries, pc, call>>
    BY <1>1 DEF Executes
  <2>5. WriteAhead' /\ TriesCounted' /\ RequestsBounded'
    BY <2>1, <2>4 DEF Protocol, WriteAhead, TriesCounted, RequestsBounded, OnKey, AnswerSlot
  <2>6. Truthful'
    <3> SUFFICES ASSUME ~AckLoss PROVE Truthful'
      BY DEF Truthful
    <3>1. CASE Waiting(i)
      <4>1. /\ answer' # NoAnswer
            /\ answer'.kind = "ok" \/ (answer'.kind = "hard" /\ ~CodesNamed)
        BY <1>1, <3>1 DEF Executes, Results, Answers, Ok, Hard, NoAnswer
      <4> QED
        BY <2>1, <2>2, <2>4, <3>1, <4>1 DEF Protocol, Truthful, Waiting
    <3>2. CASE ~Waiting(i)
      <4>1. answer' = answer
        BY <1>1, <3>2 DEF Executes, Answers
      <4> QED
        BY <2>1, <2>2, <2>3, <2>4, <3>2, <4>1
        DEF Protocol, Truthful, Waiting, OnKey, AnswerSlot
    <3> QED
      BY <3>1, <3>2
  <2> QED
    BY <2>5, <2>6 DEF Protocol
<1>2. ASSUME NEW i \in Intents, NEW a \in {Retry, Hard}, Refuses(i, a) PROVE Protocol'
  <2>1. \A j \in Intents : /\ executed'[j] = executed[j]
                           /\ wire'[j] = IF j = i THEN wire[j] - 1 ELSE wire[j]
    BY <1>0, <1>2 DEF Refuses
  <2>2. wire[i] > 0
    BY <1>2 DEF Refuses
  <2>3. UNCHANGED <<row, tries, pc, call>>
    BY <1>2 DEF Refuses
  <2>4. WriteAhead' /\ TriesCounted'
    BY <2>3 DEF Protocol, WriteAhead, TriesCounted
  <2>5. RequestsBounded'
    BY <1>0, <2>1, <2>3 DEF Protocol, RequestsBounded
  <2>6. Truthful'
    <3> SUFFICES ASSUME ~AckLoss PROVE Truthful'
      BY DEF Truthful
    <3>0. \A j \in Intents : executed'[j] + wire'[j] <= executed[j] + wire[j]
      BY <1>0, <2>1
    <3>1. CASE Waiting(i)
      <4>1. answer' # NoAnswer
        BY <1>2, <3>1 DEF Refuses, Answers, Retry, Hard, NoAnswer
      <4>2. executed'[i] + wire'[i] = 0
        BY <1>0, <2>1, <2>2, <3>1 DEF Protocol, Truthful, Waiting
      <4>3. \A j \in Intents : executed[j] + wire[j] <= 1
                /\ (row[j].status \in Denials => executed[j] + wire[j] = 0)
        BY DEF Protocol, Truthful
      <4>4. \A j \in Intents : executed'[j] + wire'[j] <= 1
                /\ (row[j].status \in Denials => executed'[j] + wire'[j] = 0)
        BY <1>0, <2>1, <2>2, <4>3
      <4> QED
        BY <2>3, <3>1, <4>1, <4>2, <4>4 DEF Truthful, Waiting
    <3>2. CASE ~Waiting(i)
      <4>1. answer' = answer
        BY <1>2, <3>2 DEF Refuses, Answers
      <4>2. executed[i] + wire[i] > 0
        BY <1>0, <2>2
      <4> QED
        BY <1>0, <2>1, <2>3, <3>0, <3>2, <4>1, <4>2
        DEF Protocol, Truthful, Waiting, OnKey, AnswerSlot
    <3> QED
      BY <3>1, <3>2
  <2> QED
    BY <2>4, <2>5, <2>6 DEF Protocol
<1>3. ASSUME NEW i \in Intents, TimesOut(i) PROVE Protocol'
  BY <1>3 DEF TimesOut, Protocol, WriteAhead, TriesCounted, RequestsBounded, Truthful
<1>4. ASSUME NEW t \in Tickets, ClosesItself(t) PROVE Protocol'
  BY <1>4, FrameStays DEF ClosesItself
<1>5. CASE ForeignOpens
  BY <1>5, FrameStays DEF ForeignOpens
<1>6. ASSUME NEW i \in Intents, Places(i) PROVE Protocol'
  <2>1. /\ UNCHANGED <<row, tries, executed, wire, pc, call>>
        /\ ~CodesNamed /\ answer'.kind = "hard" /\ answer' # NoAnswer
    BY <1>6 DEF Places, Hard, NoAnswer
  <2>2. WriteAhead' /\ TriesCounted' /\ RequestsBounded'
    BY <2>1 DEF Protocol, WriteAhead, TriesCounted, RequestsBounded
  <2>3. Truthful'
    BY <2>1 DEF Protocol, Truthful
  <2> QED
    BY <2>2, <2>3 DEF Protocol
<1> QED
  BY <1>1, <1>2, <1>3, <1>4, <1>5, <1>6 DEF Broker

LEMMA ProtocolStep ==
  ASSUME TypeOK, AnswerSlot, Protocol, [Next]_vars PROVE Protocol'
<1> USE DEF db, memory, history, broker, Goto
<1>1. CASE Closing
  <2>1. pc' \in {"close", "closing", "idle"}
    BY <1>1 DEF Closing, StartClose, CloseExecuted, CloseRaises, Takes, CloseRefused, CloseFilled,
       CloseRetry, CloseFailed, ModifySl, Return
  <2>2. UNCHANGED <<row, tries, wire>>
    BY <1>1 DEF Closing, StartClose, CloseExecuted, CloseRaises, Takes, CloseRefused, CloseFilled,
       CloseRetry, CloseFailed, ModifySl
  <2>3. UNCHANGED executed
    BY <1>1 DEF Closing, StartClose, CloseExecuted, CloseRaises, Takes, CloseRefused, CloseFilled,
       CloseRetry, CloseFailed, ModifySl
  <2> QED
    BY <2>1, <2>2, <2>3, FrameElsewhere
<1>2. CASE Reconcile
  <2>1. pc' \in {"reconcile", "idle"} /\ UNCHANGED <<row, tries, wire, executed>>
    BY <1>2 DEF Reconcile, StartReconcile, ReconcileKeep, ReconcileFlatten,
       ReconcileDone, Return
  <2> QED
    BY <2>1, FrameElsewhere
<1>3. CASE Tick
  BY <1>3, FrameStays DEF Tick
<1>4. CASE Restart
  BY <1>4, FrameElsewhere DEF Restart, Return
<1>5. CASE UNCHANGED vars
  BY <1>5, FrameStays DEF vars
<1> QED
  BY <1>1, <1>2, <1>3, <1>4, <1>5, EntryProtocol, BrokerProtocol DEF Next

(* ------------------------------- the tickets ----------------------------- *)

\* Tickets are handed out once: no step gives a ticket that was handed out to
\* another owner.
LEMMA OwnersStay ==
  ASSUME TypeOK, AnswerSlot, [Next]_vars
  PROVE  /\ next_ticket' >= next_ticket
         /\ \A t \in 1..(next_ticket - 1) : pos'[t].owner = pos[t].owner
<1> USE DEF db, memory, history, broker
<1>0. next_ticket \in 1..(MaxTickets + 1) /\ MaxTickets \in Nat
  BY OrderAssumption DEF TypeOK
<1>a. 1..(next_ticket - 1) \subseteq Tickets
  BY <1>0 DEF Tickets
<1>b. SUFFICES /\ next_ticket' >= next_ticket
               /\ \A t \in Tickets : t # next_ticket => pos'[t].owner = pos[t].owner
  <2> SUFFICES ASSUME NEW t \in 1..(next_ticket - 1) PROVE t # next_ticket
    BY <1>a
  <2> QED
    BY <1>0
<1>1. CASE UNCHANGED <<pos, next_ticket>>
  BY <1>0, <1>1
<1>2. ASSUME NEW m \in 0..Lots, CloseExecuted(m) \/ CloseRaises(m)
      PROVE  /\ next_ticket' = next_ticket
             /\ \A t \in Tickets : pos'[t].owner = pos[t].owner
  <2> DEFINE t == row[call.intent].ticket
  <2>1. pos' = [pos EXCEPT ![t].lots = pos[t].lots - m] /\ next_ticket' = next_ticket
    BY <1>2 DEF CloseExecuted, CloseRaises, Takes
  <2> HIDE DEF t
  <2> QED
    BY <2>1 DEF TypeOK
<1>3. ASSUME NEW t \in Tickets, NEW ok \in BOOLEAN, ReconcileFlatten(t, ok)
      PROVE  /\ next_ticket' = next_ticket
             /\ \A u \in Tickets : pos'[u].owner = pos[u].owner
  BY <1>3 DEF ReconcileFlatten, TypeOK
<1>4. ASSUME NEW t \in Tickets, ClosesItself(t)
      PROVE  /\ next_ticket' = next_ticket
             /\ \A u \in Tickets : pos'[u].owner = pos[u].owner
  BY <1>4 DEF ClosesItself, TypeOK
<1>5. ASSUME NEW i \in Intents, NEW n \in 1..Lots, Executes(i, n)
      PROVE  /\ next_ticket' = next_ticket + 1
             /\ \A u \in Tickets : u # next_ticket => pos'[u].owner = pos[u].owner
  BY <1>5 DEF Executes, TypeOK
<1>6. ASSUME ForeignOpens
      PROVE  /\ next_ticket' = next_ticket + 1
             /\ \A u \in Tickets : u # next_ticket => pos'[u].owner = pos[u].owner
  BY <1>6 DEF ForeignOpens, TypeOK
<1>7. CASE Entry
  <2>1. UNCHANGED <<pos, next_ticket>>
    BY <1>7 DEF Entry, Submit, SubmitDuplicate, EntryRateLimited, EntryAllowed,
       SendEntry, EntryFilled, JournalEntry, EntryRejected, EntryRetry,
       EntryAbandoned, vars
  <2> QED
    BY <1>1, <2>1
<1>8. CASE Closing
  <2>1. \/ UNCHANGED <<pos, next_ticket>>
        \/ \E m \in 0..Lots : CloseExecuted(m) \/ CloseRaises(m)
    BY <1>8 DEF Closing, StartClose, CloseRefused, CloseFilled, CloseRetry,
       CloseFailed, ModifySl
  <2> QED
    BY <1>0, <1>1, <1>2, <2>1
<1>9. CASE Reconcile
  <2>1. \/ UNCHANGED <<pos, next_ticket>>
        \/ \E t \in Tickets, ok \in BOOLEAN : ReconcileFlatten(t, ok)
    BY <1>9 DEF Reconcile, StartReconcile, ReconcileKeep, ReconcileDone
  <2> QED
    BY <1>0, <1>1, <1>3, <2>1
<1>10. CASE Broker
  <2>1. \/ UNCHANGED <<pos, next_ticket>>
        \/ \E t \in Tickets : ClosesItself(t)
        \/ \E i \in Intents, n \in 1..Lots : Executes(i, n)
        \/ ForeignOpens
    BY <1>10 DEF Broker, Refuses, Places, TimesOut
  <2> QED
    BY <1>0, <1>1, <1>4, <1>5, <1>6, <2>1
<1>11. CASE Tick \/ Restart \/ UNCHANGED vars
  <2>1. UNCHANGED <<pos, next_ticket>>
    BY <1>11 DEF Tick, Restart, vars
  <2> QED
    BY <1>1, <2>1
<1> QED
  BY <1>7, <1>8, <1>9, <1>10, <1>11 DEF Next

\* The only step that fills a row, and the only one that hands out an answer
\* "ok" to an entry.
LEMMA FilledBy ==
  ASSUME TypeOK, AnswerSlot, [Next]_vars, ~EntryFilled,
         NEW i \in Intents, row'[i].status = "filled"
  PROVE  row'[i] = row[i]
<1> USE DEF db, memory, history, broker
<1>0. pc \in OnKey => call.intent \in Intents
  BY DEF AnswerSlot
<1>1. ASSUME NEW k \in Intents, NEW s \in Status \ {"filled"}, SetStatus(k, s)
      PROVE  row'[i] = row[i]
  <2>1. \A j \in Intents : j # k => row'[j] = row[j]
    BY <1>1 DEF SetStatus, TypeOK
  <2>2. row'[k].status # "filled"
    BY <1>1, StatusOf
  <2> QED
    BY <2>1, <2>2
<1>2. CASE row' = row
  BY <1>2
<1>3. CASE Entry
  <2>1. ASSUME NEW k \in Intents, Submit(k) PROVE row'[i] = row[i]
    BY <2>1 DEF Submit, TypeOK
  <2>2. ASSUME EntryRateLimited \/ SendEntry \/ EntryRejected \/ EntryAbandoned
        PROVE  row'[i] = row[i]
    BY <1>0, <1>1, <2>2 DEF EntryRateLimited, SendEntry, EntryRejected,
       EntryAbandoned, OnKey, Status
  <2>3. ASSUME EntryAllowed \/ JournalEntry \/ EntryRetry
               \/ \E k \in Intents : SubmitDuplicate(k)
        PROVE  row' = row
    BY <2>3 DEF EntryAllowed, JournalEntry, EntryRetry, SubmitDuplicate, vars
  <2> QED
    BY <1>3, <2>1, <2>2, <2>3 DEF Entry
<1>4. CASE Closing
  BY <1>2, <1>4 DEF Closing, StartClose, CloseExecuted, CloseRaises, Takes, CloseRefused, CloseFilled,
     CloseRetry, CloseFailed, ModifySl
<1>5. CASE Reconcile
  BY <1>2, <1>5 DEF Reconcile, StartReconcile, ReconcileKeep, ReconcileFlatten,
     ReconcileDone
<1>6. CASE Broker
  BY <1>2, <1>6 DEF Broker, Executes, Refuses, Places, TimesOut, ClosesItself, ForeignOpens
<1>7. CASE Tick \/ Restart \/ UNCHANGED vars
  BY <1>2, <1>7 DEF Tick, Restart, vars
<1> QED
  BY <1>3, <1>4, <1>5, <1>6, <1>7 DEF Next

\* While an entry waits for its answer only the broker's execution of that very
\* request puts an "ok" there, with the ticket it has just handed out.
LEMMA OkComesFrom ==
  ASSUME TypeOK, AnswerSlot, [Next]_vars, pc' = "placing", answer'.kind = "ok"
  PROVE  /\ pc = "placing" /\ call' = call
         /\ \/ answer' = answer
            \/ \E n \in 1..Lots : /\ Executes(call.intent, n)
                                  /\ answer' = Ok(next_ticket, n)
<1> USE DEF db, memory, history, broker, Goto
<1>1. CASE Entry
  <2>1. ~SendEntry
    <3> SUFFICES ASSUME SendEntry PROVE FALSE
      OBVIOUS
    <3>1. answer' = answer /\ pc = "send"
      BY DEF SendEntry
    <3> QED
      BY <3>1 DEF AnswerSlot, NoAnswer
  <2>2. CASE \E i \in Intents : SubmitDuplicate(i)
    BY <2>2 DEF SubmitDuplicate, vars
  <2> QED
    BY <1>1, <2>1, <2>2 DEF Entry, Submit, EntryRateLimited, EntryAllowed,
       EntryFilled, JournalEntry, EntryRejected, EntryRetry, EntryAbandoned, Return
<1>2. CASE Closing
  BY <1>2 DEF Closing, StartClose, CloseExecuted, CloseRaises, Takes, CloseRefused, CloseFilled,
     CloseRetry, CloseFailed, ModifySl, Return
<1>3. CASE Reconcile
  BY <1>3 DEF Reconcile, StartReconcile, ReconcileKeep, ReconcileFlatten,
     ReconcileDone, Return
<1>4. CASE Broker
  <2>1. ASSUME NEW i \in Intents, NEW n \in 1..Lots, Executes(i, n)
        PROVE  /\ pc' = pc /\ call' = call
               /\ answer' = answer \/ (i = call.intent /\ answer' = Ok(next_ticket, n))
    BY <2>1 DEF Executes, Results, Answers, Waiting, Hard
  <2>2. ASSUME NEW i \in Intents, NEW a \in {Retry, Hard}, Refuses(i, a)
        PROVE  pc' = pc /\ call' = call /\ answer' = answer
    BY <2>2 DEF Refuses, Answers, Retry, Hard
  <2>3. ASSUME NEW i \in Intents, TimesOut(i) PROVE FALSE
    BY <2>3 DEF TimesOut, Retry
  <2>4. ASSUME ForeignOpens \/ \E t \in Tickets : ClosesItself(t)
        PROVE  pc' = pc /\ call' = call /\ answer' = answer
    BY <2>4 DEF ForeignOpens, ClosesItself
  <2>5. ASSUME NEW i \in Intents, Places(i) PROVE FALSE
    BY <2>5 DEF Places, Hard
  <2> QED
    BY <1>4, <2>1, <2>2, <2>3, <2>4, <2>5 DEF Broker
<1>5. CASE Tick \/ Restart \/ UNCHANGED vars
  BY <1>5 DEF Tick, Restart, vars, Return
<1> QED
  BY <1>1, <1>2, <1>3, <1>4, <1>5 DEF Next

LEMMA TicketsStep ==
  ASSUME TypeOK, AnswerSlot, TicketsBooked, [Next]_vars PROVE TicketsBooked'
<1>0. next_ticket \in Nat \ {0} /\ next_ticket' \in Nat
  <2>1. \A n \in 1..(MaxTickets + 1) : n \in Nat \ {0}
    BY OrderAssumption
  <2>2. TypeOK'
    BY TypeStep
  <2>3. next_ticket \in 1..(MaxTickets + 1) /\ next_ticket' \in 1..(MaxTickets + 1)
    BY <2>2 DEF TypeOK
  <2> QED
    BY <2>1, <2>3
<1>1. ASSUME NEW t \in 1..(next_ticket - 1)
      PROVE  t \in 1..(next_ticket' - 1) /\ pos'[t].owner = pos[t].owner
  <2>1. next_ticket' >= next_ticket /\ pos'[t].owner = pos[t].owner
    BY OwnersStay
  <2>2. \A m, n \in Nat \ {0} : n >= m => 1..(m - 1) \subseteq 1..(n - 1)
    OBVIOUS
  <2>3. next_ticket' \in Nat \ {0}
    BY <1>0, <2>1
  <2>4. t \in 1..(next_ticket' - 1)
    BY <1>0, <2>1, <2>2, <2>3
  <2> QED
    BY <2>1, <2>4
<1>2. BookedTicketIsOurs'
  <2> SUFFICES ASSUME NEW i \in Intents, row'[i].status = "filled"
               PROVE  /\ row'[i].ticket \in 1..(next_ticket' - 1)
                      /\ pos'[row'[i].ticket].owner = i
    BY DEF BookedTicketIsOurs
  <2>1. CASE row'[i] = row[i]
    BY <1>1, <2>1 DEF TicketsBooked, BookedTicketIsOurs
  <2>2. CASE row'[i] # row[i]
    <3>1. EntryFilled
      BY <2>2, FilledBy
    <3>2. i = call.intent /\ row'[i].ticket = answer.ticket
      BY <2>2, <3>1 DEF EntryFilled, TypeOK, Row
    <3>3. /\ answer.ticket \in 1..(next_ticket - 1)
          /\ pos[answer.ticket].owner = call.intent
      BY <3>1 DEF EntryFilled, Answered, TicketsBooked
    <3> QED
      BY <1>1, <3>2, <3>3
  <2> QED
    BY <2>1, <2>2
<1>3. ASSUME (pc = "placing")', (answer.kind = "ok")'
      PROVE  /\ answer'.ticket \in 1..(next_ticket' - 1)
             /\ pos'[answer'.ticket].owner = call'.intent
  <2>1. /\ pc = "placing" /\ call' = call
        /\ \/ answer' = answer
           \/ \E n \in 1..Lots : /\ Executes(call.intent, n)
                                 /\ answer' = Ok(next_ticket, n)
    BY <1>3, OkComesFrom
  <2>2. CASE answer' = answer
    BY <1>1, <1>3, <2>1, <2>2 DEF TicketsBooked
  <2>3. ASSUME NEW n \in 1..Lots, Executes(call.intent, n), answer' = Ok(next_ticket, n)
        PROVE  /\ answer'.ticket \in 1..(next_ticket' - 1)
               /\ pos'[answer'.ticket].owner = call'.intent
    <3>1. answer'.ticket = next_ticket /\ next_ticket' = next_ticket + 1
      BY <2>3 DEF Executes, Ok
    <3>2. pos'[next_ticket].owner = call.intent
      BY <2>3 DEF Executes, TypeOK
    <3> QED
      BY <1>0, <2>1, <3>1, <3>2
  <2> QED
    BY <2>1, <2>2, <2>3
<1> QED
  BY <1>2, <1>3 DEF TicketsBooked

(* ------------------------------ the theorems ----------------------------- *)

LEMMA IInvInit == Init => IInv
<1> SUFFICES ASSUME Init PROVE IInv
  OBVIOUS
<1>1. TypeOK
  BY InitType
<1>2. AnswerSlot /\ WriteAhead /\ TriesCounted
  BY OrderAssumption DEF Init, AnswerSlot, OnKey, WriteAhead, TriesCounted
<1>3. RequestsBounded /\ Truthful
  BY DEF Init, RequestsBounded, Truthful, Denials, GivenUp
<1>4. TicketsBooked
  BY DEF Init, TicketsBooked, BookedTicketIsOurs
<1> QED
  BY <1>1, <1>2, <1>3, <1>4 DEF IInv

LEMMA IInvStep == IInv /\ [Next]_vars => IInv'
<1> SUFFICES ASSUME IInv, [Next]_vars PROVE IInv'
  OBVIOUS
<1>1. TypeOK' /\ AnswerSlot'
  BY TypeStep, AnswerSlotStep DEF IInv
<1>2. WriteAhead' /\ TriesCounted' /\ RequestsBounded' /\ Truthful'
  BY ProtocolStep DEF IInv, Protocol
<1>3. TicketsBooked'
  BY TicketsStep DEF IInv
<1> QED
  BY <1>1, <1>2, <1>3 DEF IInv

\* The inductive invariant holds in every behaviour.
THEOREM Inductive == Spec => []IInv
BY IInvInit, IInvStep, PTL DEF Spec

\* Every state has the types TypeOK says: the retry loop never runs past
\* max_retries, and only broker tickets get into the tables.
THEOREM TypeCorrect == Spec => []TypeOK
<1>1. IInv => TypeOK
  BY DEF IInv
<1> QED
  BY <1>1, Inductive, PTL

\* Even when the broker may time out on requests it executes, no key ever gets
\* more than max_retries orders, over all restarts and resubmissions.
THEOREM DuplicatesAreBounded == Spec => []DuplicatesBounded
<1>1. IInv => DuplicatesBounded
  <2> SUFFICES ASSUME IInv, NEW i \in Intents PROVE executed[i] <= MaxRetries
    BY DEF DuplicatesBounded
  <2>1. executed[i] \in Nat /\ wire[i] \in Nat /\ tries[i] \in Nat
    BY DEF IInv, TypeOK
  <2>2. executed[i] + wire[i] <= tries[i] /\ tries[i] <= MaxRetries
    BY DEF IInv, RequestsBounded, TriesCounted
  <2> QED
    BY <2>1, <2>2, OrderAssumption
<1> QED
  BY <1>1, Inductive, PTL

\* The claim of order_manager.py lines 4-6, with the assumption it needs: if no
\* answer is lost, a key never gets a second order, whatever the codes are.
THEOREM NoDoubleSend == ASSUME ~AckLoss PROVE Spec => []OneOrderPerKey
<1>1. IInv => OneOrderPerKey
  <2> SUFFICES ASSUME IInv, NEW i \in Intents PROVE executed[i] <= 1
    BY DEF OneOrderPerKey
  <2>1. executed[i] \in Nat /\ wire[i] \in Nat
    BY DEF IInv, TypeOK
  <2>2. executed[i] + wire[i] <= 1
    BY DEF IInv, Truthful
  <2> QED
    BY <2>1, <2>2
<1> QED
  BY <1>1, Inductive, PTL

\* If no answer is lost, a row that denies an order is right: abandoned and rate
\* limited behind every adapter, rejected behind one that names its codes.
THEOREM JournalNeverDenies == ASSUME ~AckLoss PROVE Spec => []ExecutedIsAccountedFor
<1>1. IInv => ExecutedIsAccountedFor
  <2> SUFFICES ASSUME IInv, NEW i \in Intents, executed[i] > 0
               PROVE  row[i].status \notin Denials \union {"none", "pending"}
    BY DEF ExecutedIsAccountedFor
  <2>1. executed[i] \in Nat /\ wire[i] \in Nat /\ tries[i] \in Nat
    BY DEF IInv, TypeOK
  <2>2. tries[i] # 0
    BY <2>1 DEF IInv, RequestsBounded
  <2>3. row[i].status \notin {"none", "pending"}
    BY <2>2 DEF IInv, WriteAhead
  <2>4. executed[i] + wire[i] # 0
    BY <2>1
  <2>5. row[i].status \notin Denials
    BY <2>4 DEF IInv, Truthful
  <2> QED
    BY <2>3, <2>5
<1> QED
  BY <1>1, Inductive, PTL

\* Closes and reconciliation act on the position of their own key, whatever
\* the broker's answers are worth.
THEOREM TicketsAreOurs == Spec => []BookedTicketIsOurs
<1>1. IInv => BookedTicketIsOurs
  BY DEF IInv, TicketsBooked
<1> QED
  BY <1>1, Inductive, PTL

(* ------------------------------- the limiter ----------------------------- *)

EntriesOn(d) == {j \in Intents : entry_at[j] # NoTime /\ Day(entry_at[j]) = d}

FarApart(a, b) == a - b >= EntryInterval \/ b - a >= EntryInterval

\* The limiter is asked at one time and told at another.  In between nobody else
\* tells it, and time only widens the distance.
Spaced ==
  /\ rate.last <= now
  /\ \A i \in Intents :
       entry_at[i] # NoTime => /\ row[i].status = "filled"
                               /\ rate.last # NoTime /\ entry_at[i] <= rate.last
  /\ \A i, j \in Intents :
       i # j /\ entry_at[i] # NoTime /\ entry_at[j] # NoTime
         => FarApart(entry_at[i], entry_at[j])
  /\ pc \in {"send", "placing"} =>
       rate.last = NoTime \/ now - rate.last >= EntryInterval

\* No day has more entries than the limiter allows, the limiter's day has no
\* more than it counted, and there are none after that day.
Counted ==
  /\ rate.day <= Day(now)
  /\ \A i \in Intents : entry_at[i] # NoTime => Day(entry_at[i]) <= rate.day
  /\ \A d \in Int : IsFiniteSet(EntriesOn(d)) /\ Cardinality(EntriesOn(d)) <= MaxOps
  /\ Cardinality(EntriesOn(rate.day)) <= rate.ops
  /\ pc \in {"send", "placing"} => Rolled(rate).ops < MaxOps

\* Days do not run backwards.
LEMMA DayMonotone ==
  ASSUME NEW a \in Nat, NEW b \in Nat, a <= b PROVE Day(a) <= Day(b)
BY OrderAssumption DEF Day

\* A filled row stays filled.
LEMMA FilledStays ==
  ASSUME IInv, [Next]_vars, NEW i \in Intents, row[i].status = "filled"
  PROVE  row'[i] = row[i]
<1> USE DEF db, memory, history, broker, Goto
<1>0. TypeOK /\ WriteAhead /\ (pc \in OnKey => call.intent \in Intents)
  BY DEF IInv, AnswerSlot
<1>1. CASE Entry
  <2>1. ASSUME NEW k \in Intents, NEW s, row' = [row EXCEPT ![k] = s],
               row[k].status # "filled"
        PROVE  row'[i] = row[i]
    BY <1>0, <2>1 DEF TypeOK
  <2>2. ASSUME NEW k \in Intents, NEW s, SetStatus(k, s), row[k].status # "filled"
        PROVE  row'[i] = row[i]
    BY <1>0, <2>2 DEF TypeOK, SetStatus
  <2>3. ASSUME NEW k \in Intents, Submit(k) PROVE row'[i] = row[i]
    BY <2>1, <2>3 DEF Submit, KeyFree
  <2>4. CASE EntryRateLimited
    BY <1>0, <2>2, <2>4 DEF EntryRateLimited, WriteAhead, OnKey
  <2>5. CASE SendEntry
    BY <1>0, <2>2, <2>5 DEF SendEntry, WriteAhead, OnKey
  <2>6. CASE EntryFilled
    BY <1>0, <2>1, <2>6 DEF EntryFilled, WriteAhead, OnKey
  <2>7. CASE EntryRejected \/ EntryAbandoned
    BY <1>0, <2>2, <2>7 DEF EntryRejected, EntryAbandoned, WriteAhead, OnKey
  <2>8. CASE EntryAllowed \/ JournalEntry \/ EntryRetry
             \/ \E k \in Intents : SubmitDuplicate(k)
    BY <2>8 DEF EntryAllowed, JournalEntry, EntryRetry, SubmitDuplicate, vars
  <2> QED
    BY <1>1, <2>3, <2>4, <2>5, <2>6, <2>7, <2>8 DEF Entry
<1>2. CASE Closing
  BY <1>2 DEF Closing, StartClose, CloseExecuted, CloseRaises, Takes, CloseRefused, CloseFilled,
     CloseRetry, CloseFailed, ModifySl
<1>3. CASE Reconcile
  BY <1>3 DEF Reconcile, StartReconcile, ReconcileKeep, ReconcileFlatten, ReconcileDone
<1>4. CASE Broker
  BY <1>4 DEF Broker, Executes, Refuses, Places, TimesOut, ClosesItself, ForeignOpens
<1>5. CASE Tick \/ Restart \/ UNCHANGED vars
  BY <1>5 DEF Tick, Restart, vars
<1> QED
  BY <1>1, <1>2, <1>3, <1>4, <1>5 DEF Next

\* A step that records no entry moves the limiter at most to today, and the
\* retry loop is entered past the limiter only.
LEMMA LimiterMoves ==
  ASSUME IInv, [Next]_vars, ~EntryFilled, ~Tick, ~Restart
  PROVE  /\ now' = now /\ entry_at' = entry_at
         /\ rate' \in {rate, Rolled(rate), RecordOp(rate)}
         /\ pc' \in {"send", "placing"} =>
              \/ pc = "check" /\ AllowEntry(rate) /\ rate' = Rolled(rate)
              \/ pc \in {"send", "placing"} /\ rate' = rate
<1> USE DEF db, memory, history, broker, Goto
<1>1. CASE Entry
  <2>1. ASSUME NEW i \in Intents, Submit(i) \/ SubmitDuplicate(i)
        PROVE  now' = now /\ entry_at' = entry_at /\ rate' = rate
               /\ (pc' \in {"send", "placing"} => pc \in {"send", "placing"})
    BY <2>1 DEF Submit, SubmitDuplicate, vars
  <2> QED
    BY <1>1, <2>1 DEF Entry, EntryRateLimited, EntryAllowed, SendEntry, JournalEntry,
       EntryRejected, EntryRetry, EntryAbandoned, Return
<1>2. CASE Closing
  BY <1>2 DEF Closing, StartClose, CloseExecuted, CloseRaises, Takes, CloseRefused, CloseFilled,
     CloseRetry, CloseFailed, ModifySl, Return
<1>3. CASE Reconcile
  BY <1>3 DEF Reconcile, StartReconcile, ReconcileKeep, ReconcileFlatten,
     ReconcileDone, Return
<1>4. CASE Broker
  BY <1>4 DEF Broker, Executes, Refuses, Places, TimesOut, ClosesItself, ForeignOpens
<1>5. CASE UNCHANGED vars
  BY <1>5 DEF vars
<1> QED
  BY <1>1, <1>2, <1>3, <1>4, <1>5 DEF Next

LEMMA SpacedStep == ASSUME IInv, Spaced, [Next]_vars PROVE Spaced'
<1>0. /\ now \in Nat /\ rate \in RateSet /\ entry_at \in [Intents -> Nat \union {NoTime}]
      /\ EntryInterval \in Nat
  BY OrderAssumption DEF IInv, TypeOK, RateSet
<1>1. CASE EntryFilled
  <2> DEFINE k == call.intent
  <2>1. /\ k \in Intents /\ row[k].status = "sent" /\ pc = "placing"
        /\ entry_at' = [entry_at EXCEPT ![k] = now] /\ now' = now
        /\ rate' = RecordEntry(rate) /\ pc' = "journal"
    BY <1>1 DEF EntryFilled, IInv, AnswerSlot, WriteAhead, OnKey, Goto
  <2>2. row'[k].status = "filled"
    BY <1>1, <2>1 DEF EntryFilled, IInv, TypeOK
  <2>3. rate'.last = now
    BY <1>0, <2>1 DEF RecordEntry, RecordOp, Rolled, RateSet
  <2>4. entry_at[k] = NoTime
    BY <2>1 DEF Spaced
  <2>5. ASSUME NEW i \in Intents, entry_at[i] # NoTime
        PROVE  i # k /\ now - entry_at[i] >= EntryInterval /\ entry_at[i] <= now
    BY <1>0, <2>1, <2>4, <2>5 DEF Spaced, RateSet
  <2> HIDE DEF k
  <2>6. ASSUME NEW i \in Intents, entry_at'[i] # NoTime
        PROVE  row'[i].status = "filled" /\ rate'.last # NoTime /\ entry_at'[i] <= rate'.last
    <3>1. CASE i = k
      BY <1>0, <2>1, <2>2, <2>3, <3>1 DEF NoTime
    <3>2. CASE i # k
      BY <1>0, <1>1, <2>1, <2>3, <2>5, <2>6, <3>2, FilledStays DEF Spaced, NoTime, Next, Entry
    <3> QED
      BY <3>1, <3>2
  <2>7. ASSUME NEW i \in Intents, NEW j \in Intents, i # j,
               entry_at'[i] # NoTime, entry_at'[j] # NoTime
        PROVE  FarApart(entry_at'[i], entry_at'[j])
    <3>1. CASE i = k
      BY <1>0, <2>1, <2>5, <2>7, <3>1 DEF FarApart
    <3>2. CASE j = k
      BY <1>0, <2>1, <2>5, <2>7, <3>2 DEF FarApart
    <3>3. CASE i # k /\ j # k
      BY <1>0, <2>1, <2>7, <3>3 DEF Spaced
    <3> QED
      BY <3>1, <3>2, <3>3
  <2> QED
    BY <1>0, <2>1, <2>3, <2>6, <2>7 DEF Spaced
<1>2. CASE Tick
  <2>1. /\ now' = now + 1 /\ UNCHANGED <<rate, row, entry_at, pc>>
    BY <1>2 DEF Tick, db, memory, history
  <2> QED
    BY <1>0, <2>1 DEF Spaced, RateSet, NoTime
<1>3. CASE Restart
  BY <1>0, <1>3 DEF Restart, Return, Spaced, FreshRate, NoTime
<1>4. CASE ~EntryFilled /\ ~Tick /\ ~Restart
  <2>1. /\ now' = now /\ entry_at' = entry_at
        /\ rate'.last = rate.last
        /\ pc' \in {"send", "placing"} =>
              AllowEntry(rate) \/ pc \in {"send", "placing"}
    BY <1>0, <1>4, LimiterMoves DEF Rolled, RecordOp, RateSet
  <2>2. \A i \in Intents : row[i].status = "filled" => row'[i] = row[i]
    BY FilledStays
  <2> QED
    BY <2>1, <2>2 DEF Spaced, AllowEntry
<1> QED
  BY <1>1, <1>2, <1>3, <1>4

\* No entry lies after today, and today has no more than the limiter would count.
LEMMA TodayCounted ==
  ASSUME IInv, Counted
  PROVE  /\ Rolled(rate) \in RateSet /\ Rolled(rate).day = Day(now)
         /\ Cardinality(EntriesOn(Day(now))) <= Rolled(rate).ops
         /\ \A i \in Intents : entry_at[i] # NoTime => Day(entry_at[i]) <= Day(now)
<1>0. /\ now \in Nat /\ Day(now) \in Nat /\ rate \in RateSet
      /\ \A i \in Intents : entry_at[i] # NoTime => entry_at[i] \in Nat
  BY DayNat DEF IInv, TypeOK, RateSet
<1>1. Rolled(rate) \in RateSet /\ Rolled(rate).day = Day(now)
  BY <1>0, RateType DEF IInv, Rolled
<1>2. ASSUME NEW i \in Intents, entry_at[i] # NoTime PROVE Day(entry_at[i]) <= Day(now)
  BY <1>0, <1>2, DayNat DEF Counted, RateSet, NoDay
<1>3. Cardinality(EntriesOn(Day(now))) <= Rolled(rate).ops
  <2>1. CASE rate.day = Day(now)
    BY <2>1 DEF Counted, Rolled
  <2>2. CASE rate.day # Day(now)
    <3>1. EntriesOn(Day(now)) = {}
      BY <1>0, <2>2, DayNat DEF Counted, EntriesOn, RateSet, NoDay
    <3> QED
      BY <2>2, <3>1, FS_EmptySet DEF Rolled
  <2> QED
    BY <2>1, <2>2
<1> QED
  BY <1>1, <1>2, <1>3

LEMMA CountedStep == ASSUME IInv, Spaced, Counted, [Next]_vars PROVE Counted'
<1>0. /\ now \in Nat /\ Day(now) \in Nat /\ rate \in RateSet /\ MaxOps \in Nat
      /\ entry_at \in [Intents -> Nat \union {NoTime}]
  BY DayNat, OrderAssumption DEF IInv, TypeOK, RateSet
<1>1. CASE EntryFilled
  <2> DEFINE k == call.intent
  <2>1. /\ k \in Intents /\ entry_at[k] = NoTime
        /\ entry_at' = [entry_at EXCEPT ![k] = now] /\ now' = now
        /\ rate' = RecordEntry(rate) /\ pc = "placing" /\ pc' = "journal"
    BY <1>1 DEF EntryFilled, IInv, AnswerSlot, WriteAhead, OnKey, Goto, Spaced
  <2>2. /\ rate' \in RateSet /\ rate'.day = Day(now)
        /\ rate'.ops = Rolled(rate).ops + 1 /\ rate'.ops <= MaxOps
    <3> DEFINE r == Rolled(rate)
    <3>1. r \in RateSet /\ r.day = Day(now) /\ r.ops < MaxOps
      BY <2>1, TodayCounted DEF Counted
    <3>2. rate' = [[r EXCEPT !.ops = r.ops + 1] EXCEPT !.last = now]
      BY <2>1, <3>1 DEF RecordEntry, RecordOp
    <3> HIDE DEF r
    <3>3. rate' = [last |-> now, ops |-> r.ops + 1, day |-> r.day]
      BY <3>1, <3>2 DEF RateSet
    <3>4. rate'.day = r.day /\ rate'.ops = r.ops + 1 /\ rate' \in RateSet
      BY <1>0, <3>1, <3>3 DEF RateSet
    <3> QED
      BY <1>0, <3>1, <3>4 DEF r, RateSet
  <2> HIDE DEF k
  <2>3. ASSUME NEW d \in Int, d # Day(now) PROVE EntriesOn(d)' = EntriesOn(d)
    BY <1>0, <2>1, <2>3 DEF EntriesOn
  <2>4. EntriesOn(Day(now))' = EntriesOn(Day(now)) \union {k} /\ k \notin EntriesOn(Day(now))
    BY <1>0, <2>1 DEF EntriesOn, NoTime
  <2>5. /\ IsFiniteSet(EntriesOn(Day(now))')
        /\ Cardinality(EntriesOn(Day(now))') = Cardinality(EntriesOn(Day(now))) + 1
    BY <1>0, <2>4, FS_AddElement DEF Counted
  <2>6. Cardinality(EntriesOn(Day(now))') <= rate'.ops
    <3>1. Cardinality(EntriesOn(Day(now))) \in Nat /\ Rolled(rate).ops \in Nat
      BY <1>0, TodayCounted, FS_CardinalityType DEF Counted, RateSet
    <3> QED
      BY <2>2, <2>5, <3>1, TodayCounted
  <2>7. \A d \in Int : IsFiniteSet(EntriesOn(d)') /\ Cardinality(EntriesOn(d)') <= MaxOps
    <3> SUFFICES ASSUME NEW d \in Int
                 PROVE  IsFiniteSet(EntriesOn(d)') /\ Cardinality(EntriesOn(d)') <= MaxOps
      OBVIOUS
    <3>1. CASE d = Day(now)
      <4>1. Cardinality(EntriesOn(Day(now))') \in Nat
        BY <2>5, FS_CardinalityType
      <4>2. EntriesOn(d)' = EntriesOn(Day(now))'
        BY <2>1, <3>1 DEF EntriesOn
      <4> QED
        BY <1>0, <2>2, <2>5, <2>6, <4>1, <4>2 DEF RateSet
    <3>2. CASE d # Day(now)
      BY <2>3, <3>2 DEF Counted
    <3> QED
      BY <3>1, <3>2
  <2>8. \A i \in Intents : entry_at'[i] # NoTime => Day(entry_at'[i]) <= rate'.day
    BY <1>0, <2>1, <2>2, TodayCounted
  <2> QED
    BY <1>0, <2>1, <2>2, <2>6, <2>7, <2>8 DEF Counted, EntriesOn
<1>2. CASE Tick
  <2>1. /\ now' = now + 1 /\ UNCHANGED <<rate, entry_at, pc>>
    BY <1>2 DEF Tick, memory, history
  <2>2. Day(now) <= Day(now') /\ Day(now') \in Nat
    BY <1>0, <2>1, DayMonotone, DayNat
  <2>3. Rolled(rate).ops < MaxOps => Rolled(rate)'.ops < MaxOps
    BY <1>0, <2>1, <2>2, OrderAssumption DEF Rolled, RateSet, Counted, NoDay
  <2>4. \A d \in Int : EntriesOn(d)' = EntriesOn(d)
    BY <2>1 DEF EntriesOn
  <2>5. EntriesOn(rate.day)' = EntriesOn(rate.day)
    BY <2>1 DEF EntriesOn
  <2>6. rate'.day <= Day(now')
    BY <1>0, <2>1, <2>2 DEF Counted, RateSet, NoDay
  <2> QED
    BY <2>1, <2>3, <2>4, <2>5, <2>6 DEF Counted, Day
<1>3. CASE Restart
  <2>1. /\ rate' = FreshRate /\ now' = now /\ pc' = "idle"
        /\ entry_at' = [i \in Intents |-> NoTime]
    BY <1>3 DEF Restart, Return
  <2>2. (\A d \in Int : EntriesOn(d)' = {}) /\ EntriesOn(rate.day)' = {}
    BY <2>1 DEF EntriesOn
  <2>3. rate'.day = NoDay /\ rate'.ops = 0 /\ NoDay <= Day(now')
    BY <1>0, <2>1 DEF FreshRate, NoDay
  <2>4. \A d \in Int : IsFiniteSet(EntriesOn(d)') /\ Cardinality(EntriesOn(d)') <= MaxOps
    BY <1>0, <2>2, FS_EmptySet
  <2>5. Cardinality(EntriesOn(rate.day)') <= rate'.ops
    BY <2>2, <2>3, FS_EmptySet
  <2>6. \A i \in Intents : entry_at'[i] = NoTime
    BY <2>1
  <2> QED
    BY <2>1, <2>3, <2>4, <2>5, <2>6 DEF Counted
<1>4. CASE ~EntryFilled /\ ~Tick /\ ~Restart
  <2>1. /\ now' = now /\ entry_at' = entry_at /\ rate' \in {rate, Rolled(rate), RecordOp(rate)}
        /\ pc' \in {"send", "placing"} =>
              \/ AllowEntry(rate) /\ rate' = Rolled(rate)
              \/ pc \in {"send", "placing"} /\ rate' = rate
    BY <1>4, LimiterMoves
  <2>2. \A d : EntriesOn(d)' = EntriesOn(d)
    BY <2>1 DEF EntriesOn
  <2>3. \/ rate' = rate
        \/ /\ rate'.day = Day(now) /\ rate'.ops \in Nat
           /\ Rolled(rate).ops <= rate'.ops
    BY <1>0, <2>1, TodayCounted DEF RecordOp, RateSet
  <2>4. rate'.day <= Day(now)
    BY <1>0, <2>3 DEF Counted
  <2>5. \A i \in Intents : entry_at[i] # NoTime => Day(entry_at[i]) <= rate'.day
    BY <2>3, TodayCounted DEF Counted
  <2>6. Cardinality(EntriesOn(rate'.day)) <= rate'.ops
    <3>1. CASE rate' = rate
      BY <3>1 DEF Counted
    <3>2. CASE rate' # rate
      <4>1. Cardinality(EntriesOn(Day(now))) \in Nat /\ Rolled(rate).ops \in Nat
        BY <1>0, TodayCounted, FS_CardinalityType DEF Counted, RateSet
      <4> QED
        BY <2>3, <3>2, <4>1, TodayCounted
    <3> QED
      BY <3>1, <3>2
  <2>7. pc' \in {"send", "placing"} => Rolled(rate)'.ops < MaxOps
    BY <2>1, TodayCounted DEF Counted, AllowEntry, Rolled
  <2> QED
    BY <2>1, <2>2, <2>4, <2>5, <2>6, <2>7 DEF Counted
<1> QED
  BY <1>1, <1>2, <1>3, <1>4

\* Within a life of the process entries keep their distance, and no UTC day has
\* more of them than max_ops_per_day (RateLimiter), for any number of keys.
THEOREM LimiterHolds == Spec => []EntriesRespectLimiter
<1>1. Init => Spaced /\ Counted
  <2> SUFFICES ASSUME Init PROVE Spaced /\ Counted
    OBVIOUS
  <2>1. (\A d \in Int : EntriesOn(d) = {}) /\ EntriesOn(rate.day) = {}
    BY DEF Init, EntriesOn
  <2>2. 0 \in Nat /\ Day(0) \in Nat
    BY DayNat
  <2>3. Spaced
    BY DEF Init, Spaced, FreshRate, NoTime
  <2>4. Counted
    <3>1. rate.day = NoDay /\ rate.ops = 0 /\ NoDay <= Day(now)
      BY <2>2 DEF Init, FreshRate, NoDay
    <3>2. \A d \in Int : IsFiniteSet(EntriesOn(d)) /\ Cardinality(EntriesOn(d)) <= MaxOps
      BY <2>1, FS_EmptySet, OrderAssumption
    <3>3. Cardinality(EntriesOn(rate.day)) <= rate.ops
      BY <2>1, <3>1, FS_EmptySet
    <3> QED
      BY <3>1, <3>2, <3>3 DEF Init, Counted
  <2> QED
    BY <2>3, <2>4
<1>2. IInv /\ Spaced /\ Counted /\ [Next]_vars => Spaced' /\ Counted'
  BY SpacedStep, CountedStep
<1>3. IInv /\ Spaced /\ Counted => EntriesRespectLimiter
  <2> SUFFICES ASSUME IInv, Spaced, Counted PROVE EntriesRespectLimiter
    OBVIOUS
  <2>1. ASSUME NEW i \in Intents, entry_at[i] # NoTime
        PROVE  Cardinality(EntriesOn(Day(entry_at[i]))) <= MaxOps
    <3>1. Day(entry_at[i]) \in Nat
      BY <2>1, DayNat DEF IInv, TypeOK
    <3> QED
      BY <3>1 DEF Counted
  <2> QED
    BY <2>1 DEF EntriesRespectLimiter, EntriesOn, Spaced, FarApart
<1> QED
  BY <1>1, <1>2, <1>3, Inductive, PTL DEF Spec

(* ------------------------------- the journal ----------------------------- *)

\* Volume that was closed and not yet written to the fill table.
Unlogged(i) ==
  IF pc = "closing" /\ call.intent = i /\ answer.kind = "ok" THEN answer.lots ELSE 0

\* For a key this process holds, what was journalled as closed, what is about to
\* be, and what is still open make at most what was entered.
Journalled ==
  /\ JournalConserves
  /\ \A i \in Intents : row[i].status # "filled" => fills[i].closed = 0
  /\ \A i \in held :
       /\ row[i].status = "filled"
       /\ fills[i].closed + pos[row[i].ticket].lots + Unlogged(i) <= fills[i].entered
  /\ pc \in {"close", "closing"} => call.intent \in held
  /\ pc = "placing" /\ answer.kind = "ok" => pos[answer.ticket].lots <= answer.lots
  /\ pc = "journal" =>
       /\ row[call.intent].status = "filled" /\ call.intent \notin held
       /\ fills[call.intent].closed = 0
       /\ pos[row[call.intent].ticket].lots <= call.done

\* A position that was opened never grows.
LEMMA LotsShrink ==
  ASSUME IInv, [Next]_vars, NEW t \in 1..(next_ticket - 1)
  PROVE  t \in Tickets /\ pos'[t].lots <= pos[t].lots
<1> USE DEF db, memory, history, broker
<1>0. /\ t \in Tickets /\ t # next_ticket /\ pos[t].lots \in Nat
      /\ pos \in [Tickets -> [owner : Intents \union {Nobody}, lots : 0..Lots]]
  <2>1. next_ticket \in 1..(MaxTickets + 1) /\ MaxTickets \in Nat
    BY OrderAssumption DEF IInv, TypeOK
  <2>2. t \in Tickets /\ t # next_ticket
    BY <2>1 DEF Tickets
  <2> QED
    BY <2>2, OrderAssumption DEF IInv, TypeOK
<1>1. CASE pos' = pos
  BY <1>0, <1>1
<1>2. ASSUME NEW u \in Tickets, pos' = [pos EXCEPT ![u].lots = 0]
      PROVE  pos'[t].lots <= pos[t].lots
  BY <1>0, <1>2
<1>3. ASSUME NEW p, next_ticket \in Tickets, pos' = [pos EXCEPT ![next_ticket] = p]
      PROVE  pos'[t].lots <= pos[t].lots
  BY <1>0, <1>3
<1>4. CASE Entry
  <2>1. pos' = pos
    BY <1>4 DEF Entry, Submit, SubmitDuplicate, EntryRateLimited, EntryAllowed,
       SendEntry, EntryFilled, JournalEntry, EntryRejected, EntryRetry,
       EntryAbandoned, vars
  <2> QED
    BY <1>0, <1>1, <2>1
<1>5. CASE Closing
  <2>1. ASSUME NEW m \in 0..Lots, CloseExecuted(m) \/ CloseRaises(m)
        PROVE  pos'[t].lots <= pos[t].lots
    <3> DEFINE u == row[call.intent].ticket
    <3>1. u \in Tickets /\ pos[u].lots \in Nat /\ m \in 0..pos[u].lots
            /\ pos' = [pos EXCEPT ![u].lots = pos[u].lots - m]
      BY <2>1, TakesOff, OrderAssumption DEF CloseExecuted, CloseRaises, IInv
    <3> HIDE DEF u
    <3> QED
      BY <1>0, <3>1
  <2>2. \/ pos' = pos
        \/ \E m \in 0..Lots : CloseExecuted(m) \/ CloseRaises(m)
    BY <1>5 DEF Closing, StartClose, CloseRefused, CloseFilled, CloseRetry,
       CloseFailed, ModifySl
  <2> QED
    BY <1>0, <1>1, <2>1, <2>2
<1>6. CASE Reconcile
  <2>1. \/ pos' = pos
        \/ \E u \in Tickets : pos' = [pos EXCEPT ![u].lots = 0]
    BY <1>6 DEF Reconcile, StartReconcile, ReconcileKeep, ReconcileDone, ReconcileFlatten
  <2> QED
    BY <1>0, <1>1, <1>2, <2>1
<1>7. CASE Broker
  <2>1. \/ pos' = pos
        \/ \E u \in Tickets : pos' = [pos EXCEPT ![u].lots = 0]
        \/ next_ticket \in Tickets /\ \E p : pos' = [pos EXCEPT ![next_ticket] = p]
    BY <1>7 DEF Broker, Executes, Refuses, Places, TimesOut, ClosesItself, ForeignOpens
  <2> QED
    BY <1>0, <1>1, <1>2, <1>3, <2>1
<1>8. CASE Tick \/ Restart \/ UNCHANGED vars
  <2>1. pos' = pos
    BY <1>8 DEF Tick, Restart, vars
  <2> QED
    BY <1>0, <1>1, <2>1
<1> QED
  BY <1>0, <1>4, <1>5, <1>6, <1>7, <1>8 DEF Next

\* The tickets of filled rows are handed-out tickets, so their positions only shrink.
LEMMA BookedShrinks ==
  ASSUME IInv, [Next]_vars, NEW i \in Intents, row[i].status = "filled"
  PROVE  /\ row'[i] = row[i]
         /\ pos[row[i].ticket].lots \in Nat /\ pos'[row[i].ticket].lots \in Nat
         /\ pos'[row[i].ticket].lots <= pos[row[i].ticket].lots
<1>1. row[i].ticket \in 1..(next_ticket - 1)
  BY DEF IInv, TicketsBooked, BookedTicketIsOurs
<1>2. row[i].ticket \in Tickets /\ pos'[row[i].ticket].lots <= pos[row[i].ticket].lots
  BY <1>1, LotsShrink
<1>3. TypeOK /\ TypeOK'
  BY TypeStep DEF IInv
<1>4. pos[row[i].ticket].lots \in Nat /\ pos'[row[i].ticket].lots \in Nat
  BY <1>2, <1>3, OrderAssumption DEF TypeOK
<1> QED
  BY <1>2, <1>4, FilledStays

\* Steps that book nothing.
LEMMA JournalQuiet ==
  ASSUME IInv, Journalled, [Next]_vars, ~EntryFilled, ~JournalEntry, ~CloseFilled,
         ~\E m \in 0..Lots : CloseExecuted(m)
  PROVE  /\ fills' = fills /\ held' \subseteq held
         /\ pc' = "journal" => pc = "journal" /\ call' = call
         /\ pc' \in {"close", "closing"} => call'.intent \in held'
         /\ pc' = "closing" => answer'.kind # "ok" \/ (pc = "closing" /\ call' = call /\ answer' = answer)
<1> USE DEF db, memory, history, broker, Goto
<1>1. CASE Entry
  <2>1. ASSUME NEW i \in Intents, Submit(i) \/ SubmitDuplicate(i)
        PROVE  /\ fills' = fills /\ held' = held
               /\ pc' = "check" \/ UNCHANGED <<pc, call, answer>>
    BY <2>1 DEF Submit, SubmitDuplicate, vars
  <2>2. \/ \E i \in Intents : Submit(i) \/ SubmitDuplicate(i)
        \/ /\ fills' = fills /\ held' = held
           /\ pc' \in {"send", "placing", "idle"}
    BY <1>1 DEF Entry, EntryRateLimited, EntryAllowed, SendEntry,
       EntryRejected, EntryRetry, EntryAbandoned, Return
  <2> QED
    BY <2>1, <2>2 DEF Journalled
<1>2. CASE Closing
  <2>1. ASSUME NEW i \in Intents, NEW want \in 0..Lots, StartClose(i, want)
        PROVE  fills' = fills /\ held' = held /\ pc' = "close" /\ call'.intent \in held'
    BY <2>1 DEF StartClose, CallOn
  <2>2. ASSUME NEW a \in {Retry, Hard}, CloseRefused(a)
        PROVE  /\ fills' = fills /\ held' = held /\ pc' = "closing" /\ call' = call
               /\ answer'.kind # "ok" /\ pc = "close"
    BY <2>2 DEF CloseRefused, Retry, Hard
  <2>3. CASE CloseRetry
    BY <2>3 DEF CloseRetry, IInv, TypeOK, Call, Journalled
  <2>4. CASE CloseFailed
    BY <2>4 DEF CloseFailed, Return
  <2>5. ASSUME NEW i \in Intents, ModifySl(i)
        PROVE  fills' = fills /\ held' = held /\ UNCHANGED <<pc, call, answer>>
    BY <2>5 DEF ModifySl
  <2>6. ASSUME NEW m \in 0..Lots, CloseRaises(m)
        PROVE  fills' = fills /\ held' = held /\ pc' = "idle"
    BY <2>6 DEF CloseRaises, Return
  <2> QED
    BY <1>2, <2>1, <2>2, <2>3, <2>4, <2>5, <2>6 DEF Closing, Journalled
<1>3. CASE Reconcile
  <2>1. /\ fills' = fills /\ held' = held
        /\ pc' \in {"reconcile", "idle"}
    BY <1>3 DEF Reconcile, StartReconcile, ReconcileKeep, ReconcileFlatten,
       ReconcileDone, Return
  <2> QED
    BY <2>1
<1>4. CASE Broker
  <2>1. /\ fills' = fills /\ held' = held /\ pc' = pc /\ call' = call
        /\ answer' = answer \/ pc = "placing"
    BY <1>4 DEF Broker, Executes, Refuses, Places, TimesOut, ClosesItself, ForeignOpens,
       Answers, Waiting
  <2> QED
    BY <2>1 DEF Journalled
<1>5. CASE Tick \/ UNCHANGED vars
  BY <1>5 DEF Tick, vars, Journalled
<1>6. CASE Restart
  BY <1>6 DEF Restart, Return
<1> QED
  BY <1>1, <1>2, <1>3, <1>4, <1>5, <1>6 DEF Next

\* The position behind an entry's answer is as large as the answer says, or less.
LEMMA AnswerIsFresh ==
  ASSUME IInv, Journalled, [Next]_vars, pc' = "placing", answer'.kind = "ok"
  PROVE  pos'[answer'.ticket].lots <= answer'.lots
<1>1. /\ pc = "placing" /\ call' = call
      /\ \/ answer' = answer
         \/ \E n \in 1..Lots : Executes(call.intent, n) /\ answer' = Ok(next_ticket, n)
  BY OkComesFrom DEF IInv
<1>2. CASE answer' = answer
  <2>1. answer.ticket \in 1..(next_ticket - 1) /\ pos[answer.ticket].lots <= answer.lots
    BY <1>1, <1>2 DEF IInv, TicketsBooked, Journalled
  <2>2. pos'[answer.ticket].lots <= pos[answer.ticket].lots /\ answer.ticket \in Tickets
    BY <2>1, LotsShrink
  <2>3. TypeOK /\ TypeOK'
    BY TypeStep DEF IInv
  <2>4. pos'[answer.ticket].lots \in Nat /\ pos[answer.ticket].lots \in Nat /\ answer.lots \in Nat
    BY <2>2, <2>3, OrderAssumption DEF TypeOK, Answer
  <2> QED
    BY <1>2, <2>1, <2>2, <2>4
<1>3. ASSUME NEW n \in 1..Lots, Executes(call.intent, n), answer' = Ok(next_ticket, n)
      PROVE  pos'[answer'.ticket].lots <= answer'.lots
  <2>1. pos'[next_ticket].lots = n /\ n \in Nat
    BY <1>3, OrderAssumption DEF Executes, IInv, TypeOK
  <2> QED
    BY <1>3, <2>1 DEF Ok
<1> QED
  BY <1>1, <1>2, <1>3

LEMMA JournalledStep == ASSUME IInv, Journalled, [Next]_vars PROVE Journalled'
<1> USE DEF db, memory, history, broker, Goto
<1>0. /\ fills \in [Intents -> [entered : Nat, closed : Nat]] /\ held \subseteq Intents
      /\ pc \in OnKey => call.intent \in Intents
      /\ call.done \in Nat /\ answer.lots \in Nat
  BY OrderAssumption DEF IInv, TypeOK, AnswerSlot, Call, Answer
<1>1. ASSUME NEW i \in Intents, row[i].status = "filled"
      PROVE  /\ row'[i] = row[i]
             /\ pos[row[i].ticket].lots \in Nat /\ pos'[row[i].ticket].lots \in Nat
             /\ pos'[row[i].ticket].lots <= pos[row[i].ticket].lots
  BY <1>1, BookedShrinks
<1>2. pc' = "placing" /\ answer'.kind = "ok" => pos'[answer'.ticket].lots <= answer'.lots
  BY AnswerIsFresh
<1>3. \A i \in Intents : row'[i].status # "filled" => fills[i].closed = 0
  BY <1>1 DEF Journalled
<1>4. \A i \in Intents : Unlogged(i) \in Nat
  BY <1>0 DEF Unlogged
<1>5. CASE EntryFilled
  <2> DEFINE k == call.intent
  <2>1. /\ k \in Intents /\ row[k].status = "sent" /\ pc = "placing" /\ pc' = "journal"
        /\ answer.kind = "ok" /\ call' = [call EXCEPT !.done = answer.lots]
        /\ fills' = fills /\ held' = held
    BY <1>0, <1>5 DEF EntryFilled, IInv, WriteAhead, OnKey, Answered
  <2>2. /\ row'[k].status = "filled" /\ row'[k].ticket = answer.ticket /\ pos' = pos
        /\ call'.intent = k /\ call'.done = answer.lots
    BY <1>5, <2>1 DEF EntryFilled, IInv, TypeOK, Call
  <2>3. k \notin held /\ fills[k].closed = 0 /\ pos[answer.ticket].lots <= answer.lots
    BY <2>1 DEF Journalled
  <2> HIDE DEF k
  <2>4. \A i \in held : Unlogged(i) = 0 /\ Unlogged(i)' = 0
    BY <2>1 DEF Unlogged
  <2> QED
    BY <1>0, <1>1, <1>3, <2>1, <2>2, <2>3, <2>4 DEF Journalled, JournalConserves
<1>6. CASE JournalEntry
  <2> DEFINE k == call.intent
  <2>1. /\ k \in Intents /\ row[k].status = "filled" /\ pc = "journal" /\ pc' = "idle"
        /\ fills' = [fills EXCEPT ![k].entered = call.done]
        /\ held' = held \union {k} /\ row' = row /\ pos' = pos
    BY <1>0, <1>6 DEF JournalEntry, OnKey, Journalled, Return
  <2>2. fills[k].closed = 0 /\ pos[row[k].ticket].lots <= call.done /\ k \notin held
    BY <2>1 DEF Journalled
  <2> HIDE DEF k
  <2>3. \A i \in Intents : Unlogged(i) = 0 /\ Unlogged(i)' = 0
    BY <2>1 DEF Unlogged
  <2>4. \A i \in Intents : fills'[i].closed = fills[i].closed
          /\ fills'[i].entered = IF i = k THEN call.done ELSE fills[i].entered
    BY <1>0, <2>1
  <2>5. \A i \in held : pos[row[i].ticket].lots \in Nat /\ i # k
    BY <1>0, <1>1, <2>2 DEF Journalled
  <2>6. pos[row[k].ticket].lots \in Nat
    BY <1>1, <2>1
  <2> QED
    BY <1>0, <1>3, <2>1, <2>2, <2>3, <2>4, <2>5, <2>6 DEF Journalled, JournalConserves
<1>7. ASSUME NEW m \in 0..Lots, CloseExecuted(m) PROVE Journalled'
  <2> DEFINE k == call.intent
             t == row[k].ticket
  <2>1. /\ k \in Intents /\ t \in Tickets /\ pos[t].lots \in Nat /\ m \in 0..pos[t].lots
        /\ pos' = [pos EXCEPT ![t].lots = pos[t].lots - m]
        /\ answer' \in {Ok(t, m), Retry, Hard}
        /\ pc = "close" /\ pc' = "closing"
        /\ call' = [call EXCEPT !.done = call.done + m]
        /\ UNCHANGED <<row, fills, held>>
    BY <1>7, CloseTakes, TakesOff, OrderAssumption DEF CloseExecuted, IInv
  <2>2. k \in held /\ call'.intent = k /\ row[k].status = "filled"
    BY <2>1 DEF Journalled, IInv, TypeOK, Call
  <2>3. Unlogged(k)' \in {0, m} /\ \A i \in Intents : Unlogged(i) = 0
    <3>1. \A i \in Intents : Unlogged(i) = 0
      BY <2>1 DEF Unlogged
    <3>2. Unlogged(k)' = IF answer'.kind = "ok" THEN answer'.lots ELSE 0
      BY <2>1, <2>2 DEF Unlogged
    <3>3. answer'.kind = "ok" => answer'.lots = m
      BY <2>1 DEF Ok, Retry, Hard
    <3> QED
      BY <3>1, <3>2, <3>3
  <2>4. \A i \in held : i # k => Unlogged(i)' = 0
    BY <2>2 DEF Unlogged
  <2>5. pos'[t].lots = pos[t].lots - m
    BY <2>1 DEF IInv, TypeOK
  <2>6. fills[k].closed + pos'[t].lots + Unlogged(k)' <= fills[k].entered
    BY <1>0, <2>1, <2>2, <2>3, <2>5 DEF Journalled
  <2>7. ASSUME NEW i \in held, i # k
        PROVE  fills[i].closed + pos'[row[i].ticket].lots + Unlogged(i)' <= fills[i].entered
    BY <1>0, <1>1, <2>3, <2>4, <2>7 DEF Journalled
  <2> QED
    BY <1>0, <1>3, <2>1, <2>2, <2>6, <2>7 DEF Journalled, JournalConserves
<1>8. CASE CloseFilled
  <2> DEFINE k == call.intent
  <2>1. /\ k \in held /\ k \in Intents /\ pc = "closing" /\ pc' = "idle" /\ answer.kind = "ok"
        /\ fills' = [fills EXCEPT ![k].closed = fills[k].closed + answer.lots]
        /\ held' = held /\ row' = row /\ pos' = pos
    BY <1>0, <1>8 DEF CloseFilled, Answered, Journalled, OnKey, Return
  <2> HIDE DEF k
  <2>2. \A i \in Intents : Unlogged(i)' = 0
    BY <2>1 DEF Unlogged
  <2>3. Unlogged(k) = answer.lots
    BY <2>1 DEF Unlogged, k
  <2>4. \A i \in Intents : fills'[i].entered = fills[i].entered
          /\ fills'[i].closed = IF i = k THEN fills[i].closed + answer.lots ELSE fills[i].closed
    BY <1>0, <2>1
  <2>5. \A i \in held : pos[row[i].ticket].lots \in Nat
    BY <1>0, <1>1 DEF Journalled
  <2>6. row[k].status = "filled" /\ fills[k].closed + answer.lots <= fills[k].entered
    BY <1>0, <2>1, <2>3, <2>5 DEF Journalled
  <2> QED
    BY <1>0, <1>3, <1>4, <2>1, <2>2, <2>3, <2>4, <2>5, <2>6 DEF Journalled, JournalConserves
<1>9. CASE ~EntryFilled /\ ~JournalEntry /\ ~CloseFilled
           /\ ~\E m \in 0..Lots : CloseExecuted(m)
  <2>1. /\ fills' = fills /\ held' \subseteq held
        /\ pc' = "journal" => pc = "journal" /\ call' = call
        /\ pc' \in {"close", "closing"} => call'.intent \in held'
        /\ pc' = "closing" =>
             answer'.kind # "ok" \/ (pc = "closing" /\ call' = call /\ answer' = answer)
    BY <1>9, JournalQuiet
  <2>2. \A i \in held' : Unlogged(i)' = 0 \/ Unlogged(i)' = Unlogged(i)
    BY <2>1 DEF Unlogged
  <2>3. ASSUME NEW i \in held'
        PROVE  /\ row'[i].status = "filled"
               /\ fills[i].closed + pos'[row'[i].ticket].lots + Unlogged(i)' <= fills[i].entered
    BY <1>0, <1>1, <1>4, <2>1, <2>2, <2>3 DEF Journalled
  <2>4. pc' = "journal" =>
          /\ row'[call'.intent].status = "filled" /\ call'.intent \notin held'
          /\ fills[call'.intent].closed = 0
          /\ pos'[row'[call'.intent].ticket].lots <= call'.done
    BY <1>0, <1>1, <2>1 DEF Journalled, OnKey
  <2> QED
    BY <1>2, <1>3, <2>1, <2>3, <2>4 DEF Journalled, JournalConserves
<1> QED
  BY <1>5, <1>6, <1>7, <1>8, <1>9

\* The fill table never shows more closed than entered (JournalEntry and the
\* fill rows of close_position), whatever the answers are worth.
THEOREM JournalIsConserved == Spec => []JournalConserves
<1>1. Init => Journalled
  BY DEF Init, Journalled, JournalConserves
<1>2. IInv /\ Journalled /\ [Next]_vars => Journalled'
  BY JournalledStep
<1>3. Journalled => JournalConserves
  BY DEF Journalled
<1> QED
  BY <1>1, <1>2, <1>3, Inductive, PTL DEF Spec

(* ----------------------------- partial closes ---------------------------- *)

\* Each attempt of a partial close took at most the volume asked for.
Taken ==
  call.want # Everything =>
    /\ pc = "close" => call.done <= call.attempt * call.want
    /\ pc = "closing" => call.done <= (call.attempt + 1) * call.want

LEMMA Multiples ==
  ASSUME NEW a \in Nat, NEW b \in Nat, NEW w \in Nat
  PROVE  /\ a * w \in Nat /\ (a + 1) * w = a * w + w
         /\ a <= b => a * w <= b * w
<1>1. a * w \in Nat /\ (a + 1) * w = a * w + w
  OBVIOUS
<1>2. ASSUME a <= b PROVE a * w <= b * w
  <2>1. PICK c \in Nat : b = a + c
    <3>1. b - a \in Nat /\ b = a + (b - a)
      BY <1>2
    <3> QED
      BY <3>1
  <2>2. b * w = a * w + c * w /\ c * w \in Nat
    BY <2>1
  <2> QED
    BY <1>1, <2>2
<1> QED
  BY <1>1, <1>2

LEMMA TakenStep == ASSUME IInv, Taken, [Next]_vars PROVE Taken'
<1> USE DEF db, memory, history, broker, Goto
<1>0. call \in Call /\ call.want \in Nat /\ call.attempt \in Nat /\ call.done \in Nat
  BY OrderAssumption DEF IInv, TypeOK, Call
<1>m. (call.attempt + 1) * call.want = call.attempt * call.want + call.want
        /\ call.attempt * call.want \in Nat
  BY <1>0, Multiples
<1>1. CASE Closing
  <2>1. ASSUME NEW i \in Intents, NEW want \in 0..Lots, StartClose(i, want) PROVE Taken'
    <3>1. pc' = "close" /\ call'.done = 0 /\ call'.attempt = 0 /\ call'.want = want
            /\ want \in Nat
      BY <2>1, OrderAssumption DEF StartClose, CallOn
    <3>2. 0 * want = 0
      BY <3>1
    <3> QED
      BY <3>1, <3>2 DEF Taken
  <2>2. ASSUME NEW m \in 0..Lots, CloseExecuted(m) PROVE Taken'
    <3>1. /\ call.want # Everything => m <= call.want
          /\ pc = "close" /\ pc' = "closing" /\ m \in Nat
          /\ call' = [call EXCEPT !.done = call.done + m]
      BY <2>2, CloseTakes, TakesOff DEF CloseExecuted, IInv
    <3>2. call'.done = call.done + m /\ call'.want = call.want /\ call'.attempt = call.attempt
      BY <1>0, <3>1 DEF Call
    <3> DEFINE before == call.attempt * call.want
               after == (call.attempt + 1) * call.want
    <3>3. call.want # Everything => call.done <= before
      BY <3>1 DEF Taken
    <3>4. after = before + call.want /\ before \in Nat
      BY <1>m
    <3> HIDE DEF before, after
    <3>5. call.want # Everything => call.done + m <= after
      BY <1>0, <3>1, <3>3, <3>4
    <3> QED
      BY <3>1, <3>2, <3>5 DEF Taken, after
  <2>3. ASSUME NEW a \in {Retry, Hard}, CloseRefused(a) PROVE Taken'
    <3>1. pc = "close" /\ pc' = "closing" /\ call' = call
      BY <2>3 DEF CloseRefused
    <3> DEFINE before == call.attempt * call.want
               after == (call.attempt + 1) * call.want
    <3>2. call.want # Everything => call.done <= before
      BY <3>1 DEF Taken
    <3>3. after = before + call.want /\ before \in Nat
      BY <1>m
    <3> HIDE DEF before, after
    <3>4. call.want # Everything => call.done <= after
      BY <1>0, <3>2, <3>3
    <3> QED
      BY <3>1, <3>4 DEF Taken, after
  <2>4. CASE CloseRetry
    <3>1. pc = "closing" /\ pc' = "close" /\ call' = [call EXCEPT !.attempt = call.attempt + 1]
      BY <2>4 DEF CloseRetry
    <3>2. call'.done = call.done /\ call'.want = call.want /\ call'.attempt = call.attempt + 1
      BY <1>0, <3>1 DEF Call
    <3> QED
      BY <3>1, <3>2 DEF Taken
  <2>5. CASE CloseFilled \/ CloseFailed \/ \E m \in 0..Lots : CloseRaises(m)
    BY <2>5 DEF CloseFilled, CloseFailed, CloseRaises, Return, Taken
  <2>6. ASSUME NEW i \in Intents, ModifySl(i) PROVE Taken'
    BY <2>6 DEF ModifySl, Taken
  <2> QED
    BY <1>1, <2>1, <2>2, <2>3, <2>4, <2>5, <2>6 DEF Closing
<1>2. CASE Entry
  <2>1. pc' \notin {"close", "closing"} \/ UNCHANGED <<pc, call>>
    BY <1>2 DEF Entry, Submit, SubmitDuplicate, EntryRateLimited, EntryAllowed, SendEntry,
       EntryFilled, JournalEntry, EntryRejected, EntryRetry, EntryAbandoned, Return, vars
  <2> QED
    BY <2>1 DEF Taken
<1>3. CASE Reconcile
  <2>1. pc' \notin {"close", "closing"}
    BY <1>3 DEF Reconcile, StartReconcile, ReconcileKeep, ReconcileFlatten,
       ReconcileDone, Return
  <2> QED
    BY <2>1 DEF Taken
<1>4. CASE Broker
  <2>1. pc' = pc /\ call' = call
    BY <1>4 DEF Broker, Executes, Refuses, Places, TimesOut, ClosesItself, ForeignOpens
  <2> QED
    BY <2>1 DEF Taken
<1>5. CASE Tick \/ Restart \/ UNCHANGED vars
  BY <1>5 DEF Tick, Restart, Return, vars, Taken
<1> QED
  BY <1>1, <1>2, <1>3, <1>4, <1>5 DEF Next

\* Whatever is lost, the retries of a partial close together take at most
\* max_retries times the volume asked for (close_position), in steps of any size.
THEOREM PartialClosesBounded == Spec => []PartialCloseBounded
<1>1. Init => Taken
  BY DEF Init, Taken
<1>2. IInv /\ Taken /\ [Next]_vars => Taken'
  BY TakenStep
<1>3. IInv /\ Taken => PartialCloseBounded
  <2> SUFFICES ASSUME IInv, Taken, pc \in {"close", "closing"}, call.want # Everything
               PROVE  call.done <= MaxRetries * call.want
    BY DEF PartialCloseBounded
  <2>1. /\ call.want \in Nat /\ call.attempt \in Nat /\ call.done \in Nat
        /\ MaxRetries \in Nat /\ call.attempt + 1 <= MaxRetries
    BY OrderAssumption DEF IInv, TypeOK, Call
  <2>2. /\ call.attempt * call.want <= MaxRetries * call.want
        /\ (call.attempt + 1) * call.want <= MaxRetries * call.want
    <3>1. call.attempt + 1 \in Nat /\ call.attempt <= MaxRetries
      BY <2>1
    <3>2. call.attempt * call.want <= MaxRetries * call.want
      BY <2>1, <3>1, Multiples
    <3>3. (call.attempt + 1) * call.want <= MaxRetries * call.want
      <4>1. \A a \in Nat : a <= MaxRetries => a * call.want <= MaxRetries * call.want
        BY <2>1, Multiples
      <4> QED
        BY <2>1, <3>1, <4>1
    <3> QED
      BY <3>2, <3>3
  <2> DEFINE most == MaxRetries * call.want
             before == call.attempt * call.want
             after == (call.attempt + 1) * call.want
  <2>3. call.done <= before \/ call.done <= after
    BY DEF Taken
  <2>4. most \in Nat /\ before \in Nat /\ after \in Nat /\ before <= most /\ after <= most
    BY <2>1, <2>2
  <2> HIDE DEF most, before, after
  <2>5. call.done <= most
    BY <2>1, <2>3, <2>4
  <2> QED
    BY <2>5 DEF most
<1> QED
  BY <1>1, <1>2, <1>3, Inductive, PTL DEF Spec

(* ----------------------------- the refinement ---------------------------- *)

Claimed == {i \in Intents : row[i].status # "none"}
Surrendered == {i \in Intents : row[i].status \in Denials}

\* A step that changes no status and executes nothing is a stutter.
LEMMA LedgerStutters ==
  ASSUME \A i \in Intents : row'[i].status = row[i].status, executed' = executed
  PROVE  UNCHANGED <<Claimed, Surrendered, executed>>
BY DEF Claimed, Surrendered

\* A status that leaves a claimed, not given-up key so is a stutter, too.
LEMMA LedgerStays ==
  ASSUME TypeOK, NEW k \in Intents, NEW s \in {"sent", "filled"},
         row[k].status \in {"pending", "sent"},
         \A j \in Intents : row'[j].status = IF j = k THEN s ELSE row[j].status,
         executed' = executed
  PROVE  UNCHANGED <<Claimed, Surrendered, executed>>
BY DEF Claimed, Surrendered, Denials, GivenUp

LEMMA LedgerGivesUp ==
  ASSUME IInv, ~AckLoss, NEW s \in GivenUp, NEW k \in Intents,
         k = call.intent, SetStatus(k, s), row[k].status # "none",
         s \in Denials => executed[k] + wire[k] = 0, row[k].status \notin GivenUp,
         executed' = executed
  PROVE  Ledger!Next \/ UNCHANGED <<Claimed, Surrendered, executed>>
<1>1. \A j \in Intents : row'[j].status = IF j = k THEN s ELSE row[j].status
  BY StatusOf DEF GivenUp, Status, IInv
<1>2. Claimed' = Claimed /\ k \in Claimed
  BY <1>1 DEF Claimed, GivenUp
<1>3. CASE s \in Denials
  <2>1. executed[k] = 0
    <3>1. executed[k] \in Nat /\ wire[k] \in Nat
      BY DEF IInv, TypeOK
    <3> QED
      BY <1>3, <3>1
  <2>2. Surrendered' = Surrendered \union {k}
    BY <1>1, <1>3 DEF Surrendered
  <2>3. Ledger!GiveUp(k)
    BY <1>2, <2>1, <2>2 DEF Ledger!GiveUp, Claimed, Surrendered
  <2> QED
    BY <2>3 DEF Ledger!Next
<1>4. CASE s \notin Denials
  <2>1. row[k].status \notin Denials
    BY DenialsGiveUp
  <2>2. Surrendered' = Surrendered
    BY <1>1, <1>4, <2>1 DEF Surrendered, Denials
  <2> QED
    BY <1>2, <2>2
<1> QED
  BY <1>3, <1>4

LEMMA EntryRefines ==
  ASSUME IInv, ~AckLoss, Entry
  PROVE  Ledger!Next \/ UNCHANGED <<Claimed, Surrendered, executed>>
<1> USE DEF db, memory, history, broker, Goto
<1>0. TypeOK /\ (pc \in OnKey => call.intent \in Intents)
  BY DEF IInv, AnswerSlot
<1>1. ASSUME NEW i \in Intents, Submit(i) PROVE Ledger!Next
  <2>1. \A j \in Intents :
          row'[j].status = IF j = i THEN "pending" ELSE row[j].status
    BY <1>0, <1>1 DEF Submit, TypeOK, Row
  <2>2. i \notin Claimed /\ Claimed' = Claimed \union {i}
    BY <1>1, <2>1 DEF Submit, KeyFree, Claimed
  <2>3. Surrendered' = Surrendered
    BY <1>1, <2>1 DEF Submit, KeyFree, Surrendered, Denials, GivenUp
  <2>4. executed' = executed
    BY <1>1 DEF Submit
  <2>5. Ledger!Claim(i)
    BY <2>2, <2>3, <2>4 DEF Ledger!Claim, Claimed, Surrendered
  <2> QED
    BY <2>5 DEF Ledger!Next
<1>2. CASE EntryRateLimited
  BY <1>0, <1>2, LedgerGivesUp
  DEF EntryRateLimited, OnKey, GivenUp, IInv, Truthful, WriteAhead
<1>3. CASE EntryRejected
  BY <1>0, <1>3, LedgerGivesUp
  DEF EntryRejected, Answered, OnKey, GivenUp, Denials, IInv, Truthful, WriteAhead
<1>4. CASE EntryAbandoned
  BY <1>0, <1>4, LedgerGivesUp
  DEF EntryAbandoned, Answered, OnKey, GivenUp, IInv, Truthful, WriteAhead
<1>5. CASE SendEntry
  <2>1. call.intent \in Intents /\ row[call.intent].status \in {"pending", "sent"}
          /\ executed' = executed
    BY <1>0, <1>5 DEF SendEntry, OnKey, IInv, WriteAhead
  <2>2. \A j \in Intents :
          row'[j].status = IF j = call.intent THEN "sent" ELSE row[j].status
    BY <1>0, <1>5, <2>1, StatusOf DEF SendEntry, Status
  <2> QED
    BY <1>0, <2>1, <2>2, LedgerStays
<1>6. CASE EntryFilled
  <2>1. call.intent \in Intents /\ row[call.intent].status = "sent"
          /\ executed' = executed
    BY <1>0, <1>6 DEF EntryFilled, OnKey, IInv, WriteAhead
  <2>2. \A j \in Intents :
          row'[j].status = IF j = call.intent THEN "filled" ELSE row[j].status
    BY <1>0, <1>6, <2>1 DEF EntryFilled, TypeOK, Row
  <2> QED
    BY <1>0, <2>1, <2>2, LedgerStays
<1>7. ASSUME EntryAllowed \/ JournalEntry \/ EntryRetry
             \/ \E i \in Intents : SubmitDuplicate(i)
      PROVE  UNCHANGED <<Claimed, Surrendered, executed>>
  <2>1. row' = row /\ executed' = executed
    BY <1>7 DEF EntryAllowed, JournalEntry, EntryRetry, SubmitDuplicate, vars
  <2> QED
    BY <2>1, LedgerStutters
<1> QED
  BY <1>1, <1>2, <1>3, <1>4, <1>5, <1>6, <1>7 DEF Entry

\* The broker's execution of a request is the ledger's Place.
LEMMA ExecutionRefines ==
  ASSUME IInv, ~AckLoss, NEW i \in Intents, NEW n \in 1..Lots, Executes(i, n)
  PROVE  Ledger!Next
<1> USE DEF db, memory, history, broker
<1>1. executed[i] \in Nat /\ wire[i] \in Nat /\ tries[i] \in Nat
        /\ executed \in [Intents -> Nat]
  BY DEF IInv, TypeOK
<1>2. wire[i] > 0 /\ row' = row /\ executed' = [executed EXCEPT ![i] = @ + 1]
  BY DEF Executes
<1>3. executed[i] + wire[i] <= 1 /\ executed[i] + wire[i] <= tries[i]
  BY DEF IInv, Truthful, RequestsBounded
<1>4. executed[i] = 0 /\ tries[i] # 0
  BY <1>1, <1>2, <1>3
<1>5. i \in Claimed
  BY <1>4 DEF IInv, WriteAhead, Claimed
<1>6. i \notin Surrendered
  <2>1. executed[i] + wire[i] # 0
    BY <1>1, <1>2
  <2> QED
    BY <2>1 DEF IInv, Truthful, Surrendered
<1>7. executed' = [executed EXCEPT ![i] = 1]
  BY <1>1, <1>2, <1>4
<1>8. Claimed' = Claimed /\ Surrendered' = Surrendered
  BY <1>2 DEF Claimed, Surrendered
<1>9. Ledger!Place(i)
  BY <1>4, <1>5, <1>6, <1>7, <1>8 DEF Ledger!Place, Claimed, Surrendered
<1> QED
  BY <1>9 DEF Ledger!Next

LEMMA StepRefines ==
  ASSUME IInv, ~AckLoss, [Next]_vars
  PROVE  [Ledger!Next]_<<Claimed, Surrendered, executed>>
<1> USE DEF db, memory, history, broker
<1>1. CASE Closing
  <2>1. row' = row /\ executed' = executed
    BY <1>1 DEF Closing, StartClose, CloseExecuted, CloseRaises, Takes, CloseRefused, CloseFilled,
       CloseRetry, CloseFailed, ModifySl
  <2> QED
    BY <2>1, LedgerStutters
<1>2. CASE Reconcile
  <2>1. row' = row /\ executed' = executed
    BY <1>2 DEF Reconcile, StartReconcile, ReconcileKeep, ReconcileFlatten,
       ReconcileDone
  <2> QED
    BY <2>1, LedgerStutters
<1>3. CASE Broker
  <2>1. \/ row' = row /\ executed' = executed
        \/ \E i \in Intents, n \in 1..Lots : Executes(i, n)
    BY <1>3 DEF Broker, Refuses, Places, TimesOut, ClosesItself, ForeignOpens
  <2> QED
    BY <2>1, LedgerStutters, ExecutionRefines
<1>4. CASE Tick \/ Restart \/ UNCHANGED vars
  <2>1. row' = row /\ executed' = executed
    BY <1>4 DEF Tick, Restart, vars
  <2> QED
    BY <2>1, LedgerStutters
<1> QED
  BY <1>1, <1>2, <1>3, <1>4, EntryRefines DEF Next

\* The order path is an order ledger, if no answer is lost: a key is claimed
\* once, ordered at most once, and never once its row denies an order.
THEOREM ImplementsLedger == ASSUME ~AckLoss PROVE Spec => LedgerSpec
<1>1. Init => Ledger!Init
  BY DEF Init, Ledger!Init, Denials, GivenUp
<1>2. IInv /\ [Next]_vars => [Ledger!Next]_Ledger!ledgerVars
  BY StepRefines DEF Ledger!ledgerVars, Claimed, Surrendered
<1> QED
  BY <1>1, <1>2, Inductive, PTL DEF Spec, LedgerSpec, Ledger!Spec
==============================================================================
