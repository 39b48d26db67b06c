---------------------------- MODULE OrderManager ----------------------------
(***************************************************************************)
(* The order path: OrderManager and RateLimiter (services/order_manager),  *)
(* the order_intent and fill tables they write, and the broker behind the  *)
(* ExecutionPort.  One thread runs one call at a time; the broker acts on  *)
(* its own, the process can die between any two steps, and a request that  *)
(* was on its way when the process died may still be executed.             *)
(***************************************************************************)
EXTENDS Integers, FiniteSets

CONSTANTS
  Intents,        \* idempotency keys, date|symbol|direction
  Nobody,         \* not a key: owner of positions with another magic number
  MaxRetries,     \* OrderManager.max_retries
  MaxOps,         \* RateLimiter.max_ops_per_day
  EntryInterval,  \* RateLimiter.entry_interval_s, in clock ticks
  DayLen,         \* clock ticks in a UTC day
  Lots,           \* volume of an order, in lot steps
  AckLoss,        \* may the broker answer "timeout" for a request it executes?
  CodesNamed,     \* does the adapter know every code of an executed request?
  MaxTime,        \* bound on the clock
  MaxTickets,     \* bound on the positions ever opened
  MaxBoots        \* bound on process restarts

ASSUME OrderAssumption ==
  /\ Nobody \notin Intents
  /\ MaxRetries \in Nat \ {0} /\ MaxOps \in Nat /\ EntryInterval \in Nat
  /\ DayLen \in Nat \ {0} /\ Lots \in Nat \ {0} /\ AckLoss \in BOOLEAN
  /\ CodesNamed \in BOOLEAN
  /\ MaxTime \in Nat /\ MaxTickets \in Nat /\ MaxBoots \in Nat

NoTime == -1
NoDay == -1
NoTicket == 0
Everything == 0   \* close_position(lots=None)
NoAnswer == [kind |-> "none", ticket |-> NoTicket, lots |-> 0]
Retry == [kind |-> "retry", ticket |-> NoTicket, lots |-> 0]
Hard == [kind |-> "hard", ticket |-> NoTicket, lots |-> 0]
Ok(t, n) == [kind |-> "ok", ticket |-> t, lots |-> n]

\* The answers to a request that was executed.  map_retcode has no entry for
\* DONE_PARTIAL and PLACED: its default calls them a failure, not retryable.
MutResults(ok) == {ok, Retry}
Results(ok) == {ok} \union IF CodesNamed THEN {} ELSE {Hard}

VARIABLES
  now,        \* the UTC clock
  boot,       \* how often the process was started
  row,        \* order_intent: key -> status, broker_ticket, day of ts_utc
  fills,      \* fill: key -> volume journalled as entered and as closed
  rate,       \* RateLimiter: last entry, operations, their day (memory)
  held,       \* keys whose "filled" result this process got (memory)
  pc,         \* where the thread is in its OrderManager call
  call,       \* locals of the running call: key, attempt, lots, volume done
  scan,       \* locals of a running reconcile: policy, positions, known tickets
  answer,     \* OrderResult of the broker call just made
  wire,       \* entry requests on their way: key -> number
  pos,        \* broker: ticket -> owner (magic + comment) and open volume
  next_ticket,
  executed,   \* broker's deal history: orders executed per key
  removed,    \* broker's deal history: volume closed by our calls, per key
  tries,      \* entry requests ever sent, per key
  entry_at    \* when this process recorded the key's entry

db == <<row, fills>>
memory == <<rate, held>>
broker == <<pos, next_ticket, executed, removed>>
history == <<tries, entry_at>>
vars == <<now, boot, db, memory, pc, call, scan, answer, wire, broker, history>>

Day(t) == t \div DayLen
Status == {"none", "pending", "sent", "filled", "rejected", "abandoned",
           "rate_limited"}
GivenUp == {"rejected", "abandoned", "rate_limited"}
Steps == {"idle", "check", "send", "placing", "journal", "close", "closing",
          "modifying", "reconcile"}
Tickets == 1..MaxTickets

CallOn(i, n) == [intent |-> i, attempt |-> 0, want |-> n, done |-> 0]
NoCall == CallOn(Nobody, Everything)
NoScan == [adopt |-> FALSE, todo |-> {}, known |-> {}]

Goto(p) == pc' = p
Return == pc' = "idle" /\ call' = NoCall

(* ------------------------------ RateLimiter ------------------------------ *)

FreshRate == [last |-> NoTime, ops |-> 0, day |-> NoDay]

Rolled(r) ==
  IF r.day = Day(now) THEN r ELSE [last |-> r.last, ops |-> 0, day |-> Day(now)]

MutAllowAnyGap(r) == Rolled(r).ops < MaxOps
AllowEntry(r) ==
  /\ Rolled(r).ops < MaxOps
  /\ r.last = NoTime \/ now - r.last >= EntryInterval

\* Only ops < MaxOps is ever asked: counting stops at MaxOps.
RecordOp(r) ==
  [Rolled(r) EXCEPT !.ops = IF @ < MaxOps THEN @ + 1 ELSE @]

RecordEntry(r) == [RecordOp(r) EXCEPT !.last = now]

(* ------------------------------ submit_entry ----------------------------- *)

\* insert_order_intent: the UNIQUE key admits the row or the call returns
\* "duplicate".
MutKeyFree(i) == row[i].status # "filled"
MutKeyFreeAgain(i) == row[i].status \in GivenUp \union {"none"}
KeyFree(i) == row[i].status = "none"

Submit(i) ==
  /\ pc = "idle"
  /\ KeyFree(i)
  /\ row' = [row EXCEPT ![i] = [status |-> "pending", ticket |-> NoTicket,
                                day |-> Day(now)]]
  /\ Goto("check") /\ call' = CallOn(i, Everything)
  /\ UNCHANGED <<now, boot, fills, memory, scan, answer, wire, broker, history>>

SubmitDuplicate(i) ==
  /\ pc = "idle"
  /\ ~KeyFree(i)
  /\ UNCHANGED vars

SetStatus(i, s) == row' = [row EXCEPT ![i].status = s]

EntryRateLimited ==
  /\ pc = "check"
  /\ ~AllowEntry(rate)
  /\ rate' = Rolled(rate)
  /\ SetStatus(call.intent, "rate_limited")
  /\ Return
  /\ UNCHANGED <<now, boot, fills, held, scan, answer, wire, broker, history>>

EntryAllowed ==
  /\ pc = "check"
  /\ AllowEntry(rate)
  /\ rate' = Rolled(rate)
  /\ Goto("send")
  /\ UNCHANGED <<now, boot, db, held, call, scan, answer, wire, broker,
                 history>>

MutSendEntry ==
  /\ pc = "send"
  /\ wire' = [wire EXCEPT ![call.intent] = @ + 1]
  /\ tries' = [tries EXCEPT ![call.intent] = @ + 1]
  /\ Goto("placing")
  /\ UNCHANGED <<now, boot, db, memory, call, scan, answer, broker, entry_at>>
SendEntry ==
  /\ pc = "send"
  /\ SetStatus(call.intent, "sent")
  /\ wire' = [wire EXCEPT ![call.intent] = @ + 1]
  /\ tries' = [tries EXCEPT ![call.intent] = @ + 1]
  /\ Goto("placing")
  /\ UNCHANGED <<now, boot, fills, memory, call, scan, answer, broker,
                 entry_at>>

Answered(kind) == answer.kind = kind /\ answer' = NoAnswer

MutEntryFilled ==
  /\ pc = "placing"
  /\ Answered("ok")
  /\ rate' = RecordEntry(rate)
  /\ row' = [row EXCEPT ![call.intent].status = "filled"]
  /\ entry_at' = [entry_at EXCEPT ![call.intent] = now]
  /\ Goto("journal") /\ call' = [call EXCEPT !.done = answer.lots]
  /\ UNCHANGED <<now, boot, fills, held, scan, wire, broker, tries>>
EntryFilled ==
  /\ pc = "placing"
  /\ Answered("ok")
  /\ rate' = RecordEntry(rate)
  /\ row' = [row EXCEPT ![call.intent] =
               [status |-> "filled", ticket |-> answer.ticket, day |-> @.day]]
  /\ entry_at' = [entry_at EXCEPT ![call.intent] = now]
  /\ Goto("journal") /\ call' = [call EXCEPT !.done = answer.lots]
  /\ UNCHANGED <<now, boot, fills, held, scan, wire, broker, tries>>

JournalEntry ==
  /\ pc = "journal"
  /\ fills' = [fills EXCEPT ![call.intent].entered = call.done]
  /\ held' = held \union {call.intent}
  /\ Return
  /\ UNCHANGED <<now, boot, row, rate, scan, answer, wire, broker, history>>

EntryRejected ==
  /\ pc = "placing"
  /\ Answered("hard")
  /\ SetStatus(call.intent, "rejected")
  /\ Return
  /\ UNCHANGED <<now, boot, fills, memory, scan, wire, broker, history>>

\* The loop ends when every attempt of range(max_retries) was used.
MutLastAttempt == call.attempt >= MaxRetries
LastAttempt == call.attempt + 1 >= MaxRetries

EntryRetry ==
  /\ pc = "placing"
  /\ Answered("retry")
  /\ ~LastAttempt
  /\ Goto("send") /\ call' = [call EXCEPT !.attempt = @ + 1]
  /\ UNCHANGED <<now, boot, db, memory, scan, wire, broker, history>>

EntryAbandoned ==
  /\ pc = "placing"
  /\ Answered("retry")
  /\ LastAttempt
  /\ SetStatus(call.intent, "abandoned")
  /\ Return
  /\ UNCHANGED <<now, boot, fills, memory, scan, wire, broker, history>>

(* --------------------- close_position and modify_sl ---------------------- *)

OpenLots(t) == IF t \in Tickets THEN pos[t].lots ELSE 0

\* A caller closes all of a position it holds, or a part (the TP1 partial).
StartClose(i, want) ==
  /\ pc = "idle"
  /\ i \in held
  /\ Goto("close") /\ call' = CallOn(i, want)
  /\ UNCHANGED <<now, boot, db, memory, scan, answer, wire, broker, history>>

MutMayClose == Rolled(rate).ops < MaxOps
MayClose == TRUE   \* closes never ask the limiter

MutCloseVolume(have, want) == have
CloseVolume(have, want) ==
  IF want = Everything \/ want >= have THEN have ELSE want

\* What the broker takes off the running call's position, up to the volume
\* asked for.
Takes(m) ==
  LET i == call.intent  t == row[i].ticket
  IN /\ pc = "close" /\ MayClose
     /\ OpenLots(t) > 0
     /\ m <= CloseVolume(OpenLots(t), call.want)
     /\ pos' = [pos EXCEPT ![t].lots = @ - m]
     /\ removed' = [removed EXCEPT ![i] = @ + m]

\* The broker closes, all or a part, and answers; with AckLoss it may answer
\* that it timed out.
CloseExecuted(m) ==
  LET ok == Ok(row[call.intent].ticket, m)
  IN /\ m > 0 /\ Takes(m)
     /\ rate' = RecordOp(rate)
     /\ answer' \in Results(ok) \union IF AckLoss THEN {Retry} ELSE {}
     /\ Goto("closing") /\ call' = [call EXCEPT !.done = @ + m]
     /\ UNCHANGED <<now, boot, db, held, scan, wire, next_ticket, executed,
                    history>>

\* No quote or a requote is retryable; another retcode, or a position that is
\* no longer there, is not.
CloseRefused(ans) ==
  /\ pc = "close" /\ MayClose
  /\ OpenLots(row[call.intent].ticket) = 0 => ans = Hard
  /\ rate' = RecordOp(rate)
  /\ answer' = ans
  /\ Goto("closing")
  /\ UNCHANGED <<now, boot, db, held, call, scan, wire, broker, history>>

\* order_send returns None: the adapter reads its retcode and raises, and the
\* call is over without an operation counted, a row or a result.  Whether the
\* broker closed something is as uncertain as after a time-out.
CloseRaises(m) ==
  /\ m > 0 => AckLoss
  /\ Takes(m)
  /\ Return
  /\ UNCHANGED <<now, boot, db, memory, scan, answer, wire, next_ticket, executed,
                 history>>

MutCloseFilled ==
  /\ pc = "closing"
  /\ Answered("ok")
  /\ fills' = [fills EXCEPT ![call.intent].closed = @ + call.want]
  /\ Return
  /\ UNCHANGED <<now, boot, row, memory, scan, wire, broker, history>>
CloseFilled ==
  /\ pc = "closing"
  /\ Answered("ok")
  /\ fills' = [fills EXCEPT ![call.intent].closed = @ + answer.lots]
  /\ Return
  /\ UNCHANGED <<now, boot, row, memory, scan, wire, broker, history>>

CloseRetry ==
  /\ pc = "closing"
  /\ Answered("retry")
  /\ ~LastAttempt
  /\ Goto("close") /\ call' = [call EXCEPT !.attempt = @ + 1]
  /\ UNCHANGED <<now, boot, db, memory, scan, wire, broker, history>>

\* Hard refusal or the last retry: critical alert, "failed".
CloseFailed ==
  /\ pc = "closing"
  /\ Answered("hard") \/ (Answered("retry") /\ LastAttempt)
  /\ Return
  /\ UNCHANGED <<now, boot, db, memory, scan, wire, broker, history>>

\* One modify_position call, counted as an operation, never retried.  (When
\* order_send returns None it raises before it is counted: nothing changes.)
ModifySl(i) ==
  /\ pc = "idle"
  /\ i \in held
  /\ rate' = RecordOp(rate)
  /\ UNCHANGED <<now, boot, db, held, pc, call, scan, answer, wire, broker,
                 history>>

(* ------------------------------- reconcile ------------------------------- *)

OpenTickets == {t \in Tickets : pos[t].lots > 0}
BookedToday ==
  {row[i].ticket : i \in {j \in Intents : row[j].day = Day(now)}} \ {NoTicket}

StartReconcile(adopt) ==
  /\ pc = "idle"
  /\ Goto("reconcile")
  /\ scan' = [adopt |-> adopt, todo |-> OpenTickets, known |-> BookedToday]
  /\ UNCHANGED <<now, boot, db, memory, call, answer, wire, broker, history>>

Keeps(t) == t \in scan.known \/ (scan.adopt /\ pos[t].owner # Nobody)

ReconcileKeep(t) ==
  /\ pc = "reconcile" /\ t \in scan.todo
  /\ Keeps(t)
  /\ scan' = [scan EXCEPT !.todo = @ \ {t}]
  /\ UNCHANGED <<now, boot, db, memory, pc, call, answer, wire, broker,
                 history>>

\* The result of the close is not looked at.
ReconcileFlatten(t, ok) ==
  /\ pc = "reconcile" /\ t \in scan.todo
  /\ ~Keeps(t)
  /\ pos' = IF ok THEN [pos EXCEPT ![t].lots = 0] ELSE pos
  /\ scan' = [scan EXCEPT !.todo = @ \ {t}]
  /\ UNCHANGED <<now, boot, db, memory, pc, call, answer, wire, next_ticket,
                 executed, removed, history>>

ReconcileDone ==
  /\ pc = "reconcile" /\ scan.todo = {}
  /\ Return /\ scan' = NoScan
  /\ UNCHANGED <<now, boot, db, memory, answer, wire, broker, history>>

(* --------------------------------- broker -------------------------------- *)

Waiting(i) == pc = "placing" /\ call.intent = i /\ answer = NoAnswer

\* The caller that still waits gets the answer; one that died does not, and
\* with AckLoss the answer may be lost.
Answers(i, a) ==
  \/ Waiting(i) /\ answer' = a
  \/ (AckLoss \/ ~Waiting(i)) /\ UNCHANGED answer

Executes(i, n) ==
  /\ wire[i] > 0 /\ next_ticket \in Tickets
  /\ wire' = [wire EXCEPT ![i] = @ - 1]
  /\ pos' = [pos EXCEPT ![next_ticket] = [owner |-> i, lots |-> n]]
  /\ next_ticket' = next_ticket + 1
  /\ executed' = [executed EXCEPT ![i] = @ + 1]
  /\ \E a \in Results(Ok(next_ticket, n)) : Answers(i, a)
  /\ UNCHANGED <<now, boot, db, memory, removed, history, pc, call, scan>>

Refuses(i, a) ==
  /\ wire[i] > 0
  /\ wire' = [wire EXCEPT ![i] = @ - 1]
  /\ Answers(i, a)
  /\ UNCHANGED <<now, boot, db, memory, broker, history, pc, call, scan>>

\* PLACED: the order is accepted, will be executed, and is answered as a failure.
Places(i) ==
  /\ ~CodesNamed
  /\ wire[i] > 0 /\ Waiting(i)
  /\ answer' = Hard
  /\ UNCHANGED <<now, boot, db, memory, pc, call, scan, wire, broker, history>>

\* order_send returned None, or a timeout or connection retcode.
TimesOut(i) ==
  /\ AckLoss /\ Waiting(i)
  /\ answer' = Retry
  /\ UNCHANGED <<now, boot, db, memory, pc, call, scan, wire, broker, history>>

\* SL or TP hit, the flattener process, or the operator in the terminal.
ClosesItself(t) ==
  /\ OpenLots(t) > 0
  /\ pos' = [pos EXCEPT ![t].lots = 0]
  /\ UNCHANGED <<now, boot, db, memory, pc, call, scan, answer, wire,
                 next_ticket, executed, removed, history>>

ForeignOpens ==
  /\ next_ticket \in Tickets
  /\ pos' = [pos EXCEPT ![next_ticket] = [owner |-> Nobody, lots |-> Lots]]
  /\ next_ticket' = next_ticket + 1
  /\ UNCHANGED <<now, boot, db, memory, pc, call, scan, answer, wire, executed,
                 removed, history>>

Tick ==
  /\ now < MaxTime
  /\ now' = now + 1
  /\ UNCHANGED <<boot, db, memory, pc, call, scan, answer, wire, broker,
                 history>>

\* The process dies anywhere and is started again: the tables stay, the
\* limiter and everything else in memory starts afresh.
Restart ==
  /\ boot < MaxBoots
  /\ boot' = boot + 1
  /\ rate' = FreshRate /\ held' = {}
  /\ Return /\ scan' = NoScan /\ answer' = NoAnswer
  /\ entry_at' = [i \in Intents |-> NoTime]
  /\ UNCHANGED <<now, db, wire, broker, tries>>

(* ------------------------------ specification ---------------------------- *)

Init ==
  /\ now = 0 /\ boot = 0
  /\ row = [i \in Intents |->
              [status |-> "none", ticket |-> NoTicket, day |-> NoDay]]
  /\ fills = [i \in Intents |-> [entered |-> 0, closed |-> 0]]
  /\ rate = FreshRate /\ held = {}
  /\ pc = "idle" /\ call = NoCall /\ scan = NoScan /\ answer = NoAnswer
  /\ wire = [i \in Intents |-> 0]
  /\ pos = [t \in Tickets |-> [owner |-> Nobody, lots |-> 0]]
  /\ next_ticket = 1
  /\ executed = [i \in Intents |-> 0] /\ removed = [i \in Intents |-> 0]
  /\ tries = [i \in Intents |-> 0]
  /\ entry_at = [i \in Intents |-> NoTime]

Entry ==
  \/ \E i \in Intents : Submit(i) \/ SubmitDuplicate(i)
  \/ EntryRateLimited \/ EntryAllowed \/ SendEntry
  \/ EntryFilled \/ JournalEntry
  \/ EntryRejected \/ EntryRetry \/ EntryAbandoned

Closing ==
  \/ \E i \in Intents, want \in 0..Lots : StartClose(i, want)
  \/ \E m \in 0..Lots : CloseExecuted(m) \/ CloseRaises(m)
  \/ \E a \in {Retry, Hard} : CloseRefused(a)
  \/ CloseFilled \/ CloseRetry \/ CloseFailed
  \/ \E i \in Intents : ModifySl(i)

Reconcile ==
  \/ \E adopt \in BOOLEAN : StartReconcile(adopt)
  \/ \E t \in Tickets : ReconcileKeep(t)
  \/ \E t \in Tickets, ok \in BOOLEAN : ReconcileFlatten(t, ok)
  \/ ReconcileDone

Broker ==
  \/ \E i \in Intents, n \in 1..Lots : Executes(i, n)
  \/ \E i \in Intents, a \in {Retry, Hard} : Refuses(i, a)
  \/ \E i \in Intents : Places(i) \/ TimesOut(i)
  \/ \E t \in Tickets : ClosesItself(t)
  \/ ForeignOpens

Next == Entry \/ Closing \/ Reconcile \/ Broker \/ Tick \/ Restart

Spec == Init /\ [][Next]_vars

\* The thread runs its call to the end (its sleeps are finite) and the broker
\* API returns; nothing says that anybody submits, closes or reconciles, that
\* the market moves, or that the process dies.
CallSteps ==
  \/ EntryRateLimited \/ EntryAllowed \/ SendEntry \/ EntryFilled
  \/ JournalEntry \/ EntryRejected \/ EntryRetry \/ EntryAbandoned
  \/ CloseFilled \/ CloseRetry \/ CloseFailed \/ ReconcileDone
  \/ \E m \in 0..Lots : CloseExecuted(m) \/ CloseRaises(m)
  \/ \E a \in {Retry, Hard} : CloseRefused(a)
  \/ \E t \in Tickets :
       ReconcileKeep(t) \/ \E ok \in BOOLEAN : ReconcileFlatten(t, ok)

BrokerAnswers ==
  \E i \in Intents :
    /\ Waiting(i)
    /\ \/ \E n \in 1..Lots : Executes(i, n)
       \/ \E a \in {Retry, Hard} : Refuses(i, a)
       \/ Places(i) \/ TimesOut(i)

FairSpec == Spec /\ WF_vars(CallSteps) /\ WF_vars(BrokerAnswers)

(* -------------------------------- properties ----------------------------- *)

Row == [status : Status, ticket : {NoTicket} \union Tickets,
        day : Nat \union {NoDay}]
Answer == [kind : {"none", "ok", "retry", "hard"},
           ticket : {NoTicket} \union Tickets, lots : 0..Lots]
Call == [intent : Intents \union {Nobody}, attempt : 0..(MaxRetries - 1),
         want : 0..Lots, done : Nat]
Scan == [adopt : BOOLEAN, todo : SUBSET Tickets, known : SUBSET Tickets]

\* Shape of the state; among others, an attempt number never reaches
\* max_retries and a row's ticket is a broker ticket.
TypeOK ==
  /\ now \in Nat /\ boot \in Nat
  /\ row \in [Intents -> Row]
  /\ fills \in [Intents -> [entered : Nat, closed : Nat]]
  /\ rate \in [last : Nat \union {NoTime}, ops : 0..MaxOps,
              day : Nat \union {NoDay}]
  /\ held \subseteq Intents
  /\ pc \in Steps /\ call \in Call /\ scan \in Scan /\ answer \in Answer
  /\ wire \in [Intents -> Nat]
  /\ pos \in [Tickets -> [owner : Intents \union {Nobody}, lots : 0..Lots]]
  /\ next_ticket \in 1..(MaxTickets + 1)
  /\ executed \in [Intents -> Nat] /\ removed \in [Intents -> Nat]
  /\ tries \in [Intents -> Nat]
  /\ entry_at \in [Intents -> Nat \union {NoTime}]

\* Double send: however the process dies and restarts and whoever submits the
\* setup again, the broker executes at most one order under a key (order_manager
\* lines 5-6), as long as the broker's answers are true (AckLoss = FALSE).
OneOrderPerKey == \A i \in Intents : executed[i] <= 1

\* With answers that may be lost the UNIQUE key no longer bounds the orders,
\* the retry loop does: never more than max_retries orders under one key, in
\* all the lives of the process together.
DuplicatesBounded == \A i \in Intents : executed[i] <= MaxRetries

\* The statuses from which a reader may conclude that nothing was bought.  Not
\* "rejected", while the adapter reports some executed orders as failures.
Denials == IF CodesNamed THEN GivenUp ELSE GivenUp \ {"rejected"}

\* A key whose row denies an order (abandoned, rate limited, not even sent, and
\* rejected if the adapter names its codes) has no order behind it at the
\* broker, over retries, a crash between send and row, and a restart, if
\* answers are not lost.
ExecutedIsAccountedFor ==
  \A i \in Intents :
    executed[i] > 0 => row[i].status \notin Denials \union {"none", "pending"}

\* The ticket of a filled row is the ticket of the position opened under that
\* very key: closes and reconciliation never act on another key's position.
BookedTicketIsOurs ==
  \A i \in Intents :
    row[i].status = "filled" =>
      /\ row[i].ticket \in 1..(next_ticket - 1)
      /\ pos[row[i].ticket].owner = i

\* Entries recorded in one life of the process keep the five-minute distance,
\* and no UTC day has more of them than max_ops_per_day, although the limiter
\* is asked before the order is sent and told after it was filled.
EntriesRespectLimiter ==
  /\ \A i, j \in Intents :
       i # j /\ entry_at[i] # NoTime /\ entry_at[j] # NoTime
         => \/ entry_at[i] - entry_at[j] >= EntryInterval
            \/ entry_at[j] - entry_at[i] >= EntryInterval
  /\ \A i \in Intents :
       entry_at[i] # NoTime
         => Cardinality({j \in Intents : /\ entry_at[j] # NoTime
                                         /\ Day(entry_at[j]) = Day(entry_at[i])})
              <= MaxOps

\* The fill table never shows more volume closed than entered under a key, over
\* partial fills, partial closes, retries and brackets that fire in between.
JournalConserves == \A i \in Intents : fills[i].closed <= fills[i].entered

\* A close carries no key: after a lost answer the retry takes its volume once
\* more.  A partial close (TP1) never takes more than max_retries times what it
\* was asked to take, whatever is lost and whoever else closes in between.
PartialCloseBounded ==
  pc \in {"close", "closing"} /\ call.want # Everything
    => call.done <= MaxRetries * call.want

\* Every call comes back: retries end, and the limiter never holds up a close
\* (order_manager lines 7-9).
CallsReturn == pc # "idle" ~> pc = "idle"

\* The order path is an order ledger: a key is claimed once, at most one order
\* is placed under it, and never under one whose row denies it.
Ledger == INSTANCE OrderLedger WITH
  claimed <- {i \in Intents : row[i].status # "none"},
  given_up <- {i \in Intents : row[i].status \in Denials},
  placed <- executed
LedgerSpec == Ledger!Spec
==============================================================================
