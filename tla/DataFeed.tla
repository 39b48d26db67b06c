------------------------------- MODULE DataFeed -------------------------------
(***************************************************************************)
(* The history that backtests read: build_m5_database and the cached,      *)
(* retrying fetch (services/data_downloader.py), m5_from_m1                *)
(* (services/bar_builder.py), and upsert_candles (adapters/sqlite_store.py)*)
(* for one symbol.  A run may die at any step and be started again, and a  *)
(* day may be fetched before it is over.  A file is the set of minutes it  *)
(* has a candle for, a bar the set of minutes it is made of.               *)
(***************************************************************************)
EXTENDS Integers

CONSTANTS
  LastDay,      \* the runs go from day 1 to LastDay
  Saturdays,    \* days that the loop leaves out
  Minutes,      \* of a day, 0..n
  BarLen,       \* minutes in a bar
  Archive,      \* what the server has of a day and side when the day is over
  Padding,      \* minutes of a day whose candles are flat and without volume
  MaxRetries,
  MaxRuns       \* bound on the runs

Days == 1..LastDay
Sides == {"bid", "ask"}
Files == Days \X Sides

ASSUME FeedAssumption ==
  /\ LastDay \in Nat \ {0} /\ Saturdays \subseteq Days
  /\ Minutes \subseteq Nat /\ BarLen \in Nat \ {0}
  /\ Archive \in [Files -> SUBSET Minutes]
  /\ Padding \in [Days -> SUBSET Minutes]
  /\ MaxRetries \in Nat \ {0} /\ MaxRuns \in Nat

VARIABLES
  today,     \* of the server
  cache,     \* file -> what is on disk
  store,     \* day, bar -> the minutes of the stored row, none if there is no row
  step,      \* of the run: "idle", "fetch", "write", "store"
  day, side, \* of the file it works on
  tries,     \* failed requests for it
  payload,   \* the answer that is being written
  got,       \* side -> what the run has read of the day
  runs,
  passed     \* days that some run has stored (history)

disk == <<cache, store>>
run == <<step, day, side, tries, payload, got>>
vars == <<today, disk, run, runs, passed>>

Bars == {m \div BarLen : m \in Minutes}
Absent == [kind |-> "absent", minutes |-> {}]
Torn == [kind |-> "torn", minutes |-> {}]
File(m) == [kind |-> "file", minutes |-> m]

(* -------------------------------- bar builder ---------------------------- *)

\* Minutes that one side lacks are dropped, and padding makes no bar.
MutPaired(bid, ask) == bid
Paired(bid, ask) == bid \intersect ask

BarOf(d, b, bid, ask) ==
  LET chunk == {m \in Paired(bid, ask) : m \div BarLen = b}
  IN IF chunk \subseteq Padding[d] THEN {} ELSE chunk

(* ----------------------------------- fetch ------------------------------- *)

\* The server: a day that is not over shows what it has so far, or a 404, which
\* is kept as an empty file.
Served(f) ==
  CASE f[1] < today -> {Archive[f]}
    [] f[1] = today -> {{m \in Archive[f] : m <= last} : last \in Minutes} \union {{}}
    [] f[1] > today -> {{}}

Here == <<day, side>>
MutCached(f) == cache[f].kind = "torn"
Cached(f) == cache[f].kind # "absent"

\* The next file of the day, or the day has both.
Have(m) ==
  /\ got' = [got EXCEPT ![side] = m]
  /\ step' = IF side = "bid" THEN "fetch" ELSE "store"
  /\ side' = "ask" /\ tries' = 0 /\ payload' = {}
  /\ UNCHANGED day

FetchDay(d) ==
  /\ step' = "fetch" /\ day' = d /\ side' = "bid"
  /\ tries' = 0 /\ payload' = {} /\ got' = [s \in Sides |-> {}]

RunEnds ==
  /\ step' = "idle" /\ day' = 0 /\ side' = "bid"
  /\ tries' = 0 /\ payload' = {} /\ got' = [s \in Sides |-> {}]

MutGoOn == IF day <= LastDay THEN FetchDay(day + 1) ELSE RunEnds
GoOn == IF day < LastDay THEN FetchDay(day + 1) ELSE RunEnds

StartRun ==
  /\ step = "idle" /\ runs < MaxRuns
  /\ runs' = runs + 1
  /\ FetchDay(1)
  /\ UNCHANGED <<today, disk, passed>>

SkipSaturday ==
  /\ step = "fetch" /\ day \in Saturdays
  /\ GoOn
  /\ UNCHANGED <<today, disk, runs, passed>>

\* A file that is there is never fetched again; one that was cut off within its
\* data does not decompress, which ends the run.
UseCache ==
  /\ step = "fetch" /\ day \notin Saturdays
  /\ Cached(Here)
  /\ IF cache[Here].kind = "torn" THEN RunEnds ELSE Have(cache[Here].minutes)
  /\ UNCHANGED <<today, disk, runs, passed>>

RequestAnswered(m) ==
  /\ step = "fetch" /\ day \notin Saturdays
  /\ ~Cached(Here)
  /\ m \in Served(Here)
  /\ step' = "write" /\ payload' = m
  /\ UNCHANGED <<today, disk, day, side, tries, got, runs, passed>>

\* A transport error or a status of 400 or more, and after the last of them the
\* end of the run.
RequestFails ==
  /\ step = "fetch" /\ day \notin Saturdays
  /\ ~Cached(Here)
  /\ IF tries + 1 < MaxRetries
     THEN tries' = tries + 1 /\ UNCHANGED <<step, day, side, payload, got>>
     ELSE RunEnds
  /\ UNCHANGED <<today, disk, runs, passed>>

WriteFile ==
  /\ step = "write"
  /\ cache' = [cache EXCEPT ![Here] = File(payload)]
  /\ Have(payload)
  /\ UNCHANGED <<today, store, runs, passed>>

\* write_bytes opens the file, which is empty then, and writes: a process that
\* dies in it, or a full disk, leaves no file, an empty one or a part of it.
DieInWrite(left) ==
  /\ step = "write"
  /\ left \in {Absent, File({}), Torn}
  /\ cache' = [cache EXCEPT ![Here] = left]
  /\ RunEnds
  /\ UNCHANGED <<today, store, runs, passed>>

(* ----------------------------------- store ------------------------------- *)

\* One transaction: the rows of the bars are inserted or replaced, others stay.
StoreDay ==
  /\ step = "store"
  /\ store' = [k \in Days \X Bars |->
                 LET bar == BarOf(day, k[2], got["bid"], got["ask"])
                 IN IF k[1] = day /\ bar # {} THEN bar ELSE store[k]]
  /\ passed' = passed \union {day}
  /\ GoOn
  /\ UNCHANGED <<today, cache, runs>>

Die ==
  /\ step \in {"fetch", "store"}
  /\ RunEnds
  /\ UNCHANGED <<today, disk, runs, passed>>

DayPasses ==
  /\ today <= LastDay
  /\ today' = today + 1
  /\ UNCHANGED <<disk, run, runs, passed>>

(* ------------------------------ specification ---------------------------- *)

Init ==
  /\ today \in 1..(LastDay + 1)
  /\ cache = [f \in Files |-> Absent]
  /\ store = [k \in Days \X Bars |-> {}]
  /\ step = "idle" /\ day = 0 /\ side = "bid" /\ tries = 0 /\ payload = {}
  /\ got = [s \in Sides |-> {}]
  /\ runs = 0 /\ passed = {}

Next ==
  \/ StartRun \/ SkipSaturday \/ UseCache
  \/ \E m \in SUBSET Minutes : RequestAnswered(m)
  \/ RequestFails \/ WriteFile
  \/ \E left \in {Absent, File({}), Torn} : DieInWrite(left)
  \/ StoreDay \/ Die
  \/ DayPasses

Spec == Init /\ [][Next]_vars

(* ------------------------------- properties ------------------------------ *)

\* Shape of the state.
TypeOK ==
  /\ today \in 1..(LastDay + 1)
  /\ cache \in [Files -> [kind : {"absent", "torn", "file"}, minutes : SUBSET Minutes]]
  /\ store \in [Days \X Bars -> SUBSET Minutes]
  /\ step \in {"idle", "fetch", "write", "store"}
  /\ day \in Days \union {0} /\ side \in Sides /\ tries \in 0..(MaxRetries - 1)
  /\ payload \in SUBSET Minutes /\ got \in [Sides -> SUBSET Minutes]
  /\ runs \in 0..MaxRuns /\ passed \subseteq Days \ Saturdays

\* The minutes of a bar that the archive has on both sides.
Complete(d, b) == {m \in Minutes : m \div BarLen = b /\ \A s \in Sides : m \in Archive[d, s]}

\* The rows of a day are those of the archive, no more and no less.
AsArchived(d) ==
  \A b \in Bars :
    store[d, b] = IF Complete(d, b) \subseteq Padding[d] THEN {} ELSE Complete(d, b)

\* Wherever runs died and however often they were started again, the store has a
\* day that was passed exactly as the archive has it (build_m5_database), but for
\* one case: one of its files was cut off before its first byte, or fetched before
\* the day was over, and is read like that for ever.
StoreIsArchive ==
  \A d \in passed :
    \/ \E s \in Sides : cache[d, s].kind = "file" /\ cache[d, s].minutes # Archive[d, s]
    \/ AsArchived(d)

\* A row is final: no later run changes what a backtest has read.
RowsAreFinal ==
  [][\A k \in Days \X Bars : store[k] # {} => store'[k] = store[k]]_vars
==============================================================================
