---------------------------- MODULE DataFeedProofs ----------------------------
(***************************************************************************)
(* Proofs about DataFeed, for every archive, calendar and number of runs.  *)
(* A run reads each file once and the cache never changes what it holds,   *)
(* so that what is stored of a day is what its two files say, for ever.    *)
(***************************************************************************)
EXTENDS DataFeed, TLAPS

\* What a run has read of its day is what the cache holds.
Reading ==
  /\ step # "idle" => day \in Days
  /\ step \in {"write", "store"} => day \notin Saturdays
  /\ step = "write" => cache[Here].kind = "absent"
  /\ step \in {"fetch", "write"} /\ side = "ask" =>
       day \notin Saturdays /\ cache[<<day, "bid">>] = File(got["bid"])
  /\ step = "store" => \A s \in Sides : cache[<<day, s>>] = File(got[s])

\* The rows of a day are those of its files, or there are none.
Stored(d) ==
  IF d \in passed
  THEN /\ \A s \in Sides : cache[<<d, s>>].kind = "file"
       /\ \A b \in Bars :
            store[<<d, b>>] =
              BarOf(d, b, cache[<<d, "bid">>].minutes, cache[<<d, "ask">>].minutes)
  ELSE \A b \in Bars : store[<<d, b>>] = {}

IInv == TypeOK /\ Reading /\ \A d \in Days : Stored(d)

\* A run that is over, or at the start of a day, has read nothing.
Fresh ==
  /\ step \in {"idle", "fetch"} /\ side = "bid" /\ tries = 0 /\ payload = {}
  /\ got = [s \in Sides |-> {}]
  /\ day \in Days \union {0} /\ (step # "idle" => day \in Days)

CacheType == [Files -> [kind : {"absent", "torn", "file"}, minutes : SUBSET Minutes]]
StoreType == [Days \X Bars -> SUBSET Minutes]

(* --------------------------------- helpers ------------------------------- *)

\* A bar is made of minutes of the bids.
LEMMA BarIsPart ==
  ASSUME NEW d, NEW b, NEW bid, NEW ask
  PROVE  BarOf(d, b, bid, ask) \subseteq bid
BY DEF BarOf, Paired

LEMMA EndsFresh == ASSUME RunEnds PROVE Fresh'
BY DEF RunEnds, Fresh

LEMMA DayStartsFresh == ASSUME NEW d \in Days, FetchDay(d) PROVE Fresh'
BY DEF FetchDay, Fresh

LEMMA GoesOnFresh == ASSUME GoOn, day \in Days PROVE Fresh'
<1>1. CASE day < LastDay
  <2>1. day + 1 \in Days /\ FetchDay(day + 1)
    BY <1>1, FeedAssumption DEF GoOn, Days
  <2> QED
    BY <2>1, DayStartsFresh
<1>2. CASE ~(day < LastDay)
  BY <1>2, EndsFresh DEF GoOn
<1> QED
  BY <1>1, <1>2

\* A fresh run has nothing to keep.
LEMMA FreshReads == ASSUME Fresh' PROVE Reading'
BY DEF Fresh, Reading

LEMMA FreshTypes ==
  ASSUME Fresh', today' \in 1..(LastDay + 1), cache' \in CacheType,
         store' \in StoreType, runs' \in 0..MaxRuns, passed' \subseteq Days \ Saturdays
  PROVE  TypeOK'
BY FeedAssumption DEF Fresh, TypeOK, CacheType, StoreType, Sides

\* What a run reads or forgets does not touch what is stored.
LEMMA StoredStays ==
  ASSUME IInv, UNCHANGED <<disk, passed>>
  PROVE  \A d \in Days : Stored(d)'
BY DEF IInv, Stored, disk

\* Nor does a file that is written: it was absent, so its day was not passed.
LEMMA StoredOutlivesWrite ==
  ASSUME IInv, step = "write", NEW v, cache' = [cache EXCEPT ![Here] = v],
         UNCHANGED <<store, passed>>
  PROVE  \A d \in Days : Stored(d)'
<1> SUFFICES ASSUME NEW d \in Days PROVE Stored(d)'
  OBVIOUS
<1>1. cache[Here].kind = "absent" /\ cache \in [Files -> [kind : {"absent", "torn", "file"}, minutes : SUBSET Minutes]]
  BY DEF IInv, TypeOK, Reading
<1>2. CASE d \in passed
  <2>1. \A s \in Sides : <<d, s>> # Here /\ <<d, s>> \in Files
    BY <1>1, <1>2 DEF IInv, Stored, Files
  <2>2. \A s \in Sides : cache'[<<d, s>>] = cache[<<d, s>>]
    BY <1>1, <2>1
  <2> QED
    BY <1>2, <2>2 DEF IInv, Stored, Sides
<1>3. CASE d \notin passed
  BY <1>3 DEF IInv, Stored
<1> QED
  BY <1>2, <1>3

\* A file that has been read is remembered until the day is stored.
LEMMA HaveReads ==
  ASSUME IInv, step \in {"fetch", "write"}, day \notin Saturdays,
         NEW m \in SUBSET Minutes, Have(m),
         cache'[Here] = File(m), side = "ask" => cache'[<<day, "bid">>] = cache[<<day, "bid">>]
  PROVE  Reading'
<1>1. day \in Days /\ side \in Sides /\ got \in [Sides -> SUBSET Minutes]
  BY DEF IInv, TypeOK, Reading
<1>2. day' = day /\ got' = [got EXCEPT ![side] = m] /\ side' = "ask"
  BY DEF Have
<1>3. CASE side = "bid"
  <2>1. step' = "fetch" /\ got'["bid"] = m
    BY <1>1, <1>2, <1>3 DEF Have
  <2> QED
    BY <1>1, <1>2, <1>3, <2>1 DEF Reading, Here
<1>4. CASE side = "ask"
  <2>1. step' = "store" /\ got'["ask"] = m /\ got'["bid"] = got["bid"]
    BY <1>1, <1>2, <1>4 DEF Have, Sides
  <2>2. cache'[<<day, "bid">>] = File(got["bid"])
    BY <1>4 DEF IInv, Reading
  <2> QED
    BY <1>1, <1>2, <1>4, <2>1, <2>2 DEF Reading, Here, Sides
<1> QED
  BY <1>1, <1>3, <1>4 DEF Sides

LEMMA HaveTypes ==
  ASSUME IInv, step \in {"fetch", "write"}, NEW m \in SUBSET Minutes, Have(m),
         cache' \in CacheType, UNCHANGED <<today, store, runs, passed>>
  PROVE  TypeOK'
<1>1. got' \in [Sides -> SUBSET Minutes] /\ step' \in {"fetch", "store"}
      /\ side' \in Sides /\ tries' = 0 /\ payload' = {} /\ day' = day
  BY DEF Have, IInv, TypeOK, Sides
<1> QED
  BY <1>1, FeedAssumption DEF IInv, TypeOK, CacheType

(* ------------------------------- the invariant --------------------------- *)

LEMMA Starts == Init => IInv
<1> SUFFICES ASSUME Init PROVE IInv
  OBVIOUS
<1>1. TypeOK
  BY FeedAssumption DEF Init, TypeOK, Absent, Days, Sides
<1>2. Reading
  BY DEF Init, Reading
<1>3. \A d \in Days : Stored(d)
  BY DEF Init, Stored
<1> QED
  BY <1>1, <1>2, <1>3 DEF IInv

LEMMA StorePasses == ASSUME IInv, StoreDay PROVE IInv'
<1>1. day \in Days /\ day \notin Saturdays /\ Fresh' /\ cache' = cache
  BY GoesOnFresh DEF IInv, Reading, StoreDay
<1>2. \A s \in Sides : cache[<<day, s>>] = File(got[s])
  BY DEF IInv, Reading, StoreDay
<1>3. \A b \in Bars : BarOf(day, b, got["bid"], got["ask"]) \in SUBSET Minutes
  BY BarIsPart DEF IInv, TypeOK, Sides
<1>4. store' \in StoreType
  BY <1>3 DEF IInv, TypeOK, StoreDay, StoreType
<1>5. TypeOK'
  <2>1. cache' \in CacheType /\ today' = today /\ runs' = runs
        /\ passed' \subseteq Days \ Saturdays
    BY <1>1 DEF IInv, TypeOK, StoreDay, CacheType
  <2> QED
    BY <1>1, <1>4, <2>1, FreshTypes DEF IInv, TypeOK
<1>6. ASSUME NEW d \in Days PROVE Stored(d)'
  <2>1. CASE d = day
    <3>1. \A b \in Bars : store'[<<d, b>>] = BarOf(d, b, got["bid"], got["ask"])
      <4> SUFFICES ASSUME NEW b \in Bars
                   PROVE  store'[<<d, b>>] = BarOf(d, b, got["bid"], got["ask"])
        OBVIOUS
      <4>1. store'[<<d, b>>] = IF BarOf(d, b, got["bid"], got["ask"]) # {}
                               THEN BarOf(d, b, got["bid"], got["ask"]) ELSE store[<<d, b>>]
        BY <2>1 DEF StoreDay
      <4>2. store[<<d, b>>] = {} \/ store[<<d, b>>] = BarOf(d, b, got["bid"], got["ask"])
        BY <1>2, <2>1 DEF IInv, Stored, File, Sides
      <4> QED
        BY <4>1, <4>2
    <3>2. ASSUME NEW s \in Sides
          PROVE  cache'[<<d, s>>].kind = "file" /\ cache'[<<d, s>>].minutes = got[s]
      <4>1. cache'[<<d, s>>] = File(got[s])
        BY <1>1, <1>2, <2>1
      <4> QED
        BY <4>1 DEF File
    <3>3. d \in passed'
      BY <2>1 DEF StoreDay
    <3> QED
      BY <3>1, <3>2, <3>3 DEF Stored, Sides
  <2>2. CASE d # day
    <3>1. \A b \in Bars : store'[<<d, b>>] = store[<<d, b>>]
      BY <2>2 DEF StoreDay
    <3> QED
      BY <1>1, <2>2, <3>1 DEF IInv, Stored, StoreDay
  <2> QED
    BY <2>1, <2>2
<1> QED
  BY <1>1, <1>5, <1>6, FreshReads DEF IInv

LEMMA Steps == IInv /\ [Next]_vars => IInv'
<1> SUFFICES ASSUME IInv, [Next]_vars PROVE IInv'
  OBVIOUS
<1> USE DEF IInv
<1>1. CASE StartRun
  <2>1. Fresh'
    BY <1>1, FeedAssumption, DayStartsFresh DEF StartRun, Days
  <2>2. runs' \in 0..MaxRuns
    BY <1>1, FeedAssumption DEF StartRun, TypeOK
  <2> QED
    BY <1>1, <2>1, <2>2, FreshReads, FreshTypes, StoredStays DEF StartRun, TypeOK, CacheType, StoreType, disk
<1>2. CASE SkipSaturday
  <2>1. Fresh'
    BY <1>2, GoesOnFresh DEF SkipSaturday, Reading
  <2> QED
    BY <1>2, <2>1, FreshReads, FreshTypes, StoredStays DEF SkipSaturday, TypeOK, CacheType, StoreType, disk
<1>3. CASE UseCache
  <2>1. CASE cache[Here].kind = "torn"
    <3>1. Fresh'
      BY <1>3, <2>1, EndsFresh DEF UseCache
    <3> QED
      BY <1>3, <3>1, FreshReads, FreshTypes, StoredStays DEF UseCache, TypeOK, CacheType, StoreType, disk
  <2>2. CASE cache[Here].kind # "torn"
    <3> DEFINE m == cache[Here].minutes
    <3>1. Here \in Files
      BY <1>3 DEF UseCache, Reading, TypeOK, Here, Files
    <3>2. m \in SUBSET Minutes /\ cache[Here] = File(m)
      BY <1>3, <2>2, <3>1 DEF UseCache, Cached, TypeOK, File
    <3>3. Have(m) /\ cache' = cache /\ step = "fetch" /\ day \notin Saturdays
      BY <1>3, <2>2 DEF UseCache, disk
    <3>4. Reading'
      BY <3>2, <3>3, HaveReads
    <3>5. TypeOK'
      BY <1>3, <3>2, <3>3, HaveTypes DEF UseCache, TypeOK, CacheType, disk
    <3> QED
      BY <1>3, <3>4, <3>5, StoredStays DEF UseCache
  <2> QED
    BY <2>1, <2>2
<1>4. ASSUME NEW m \in SUBSET Minutes, RequestAnswered(m) PROVE IInv'
  <2>2. cache[Here].kind = "absent"
    BY <1>4 DEF RequestAnswered, Cached
  <2>3. TypeOK'
    BY <1>4 DEF RequestAnswered, TypeOK, disk
  <2>4. Reading'
    BY <1>4, <2>2 DEF RequestAnswered, Reading, Here, disk
  <2> QED
    BY <1>4, <2>3, <2>4, StoredStays DEF RequestAnswered
<1>5. CASE RequestFails
  <2>1. CASE tries + 1 < MaxRetries
    <3>1. tries' \in 0..(MaxRetries - 1)
      BY <1>5, <2>1, FeedAssumption DEF RequestFails, TypeOK
    <3>2. TypeOK'
      BY <1>5, <2>1, <3>1 DEF RequestFails, TypeOK, disk
    <3>3. Reading'
      BY <1>5, <2>1 DEF RequestFails, Reading, Here, disk
    <3> QED
      BY <1>5, <3>2, <3>3, StoredStays DEF RequestFails
  <2>2. CASE ~(tries + 1 < MaxRetries)
    <3>1. Fresh'
      BY <1>5, <2>2, EndsFresh DEF RequestFails
    <3> QED
      BY <1>5, <3>1, FreshReads, FreshTypes, StoredStays DEF RequestFails, TypeOK, CacheType, StoreType, disk
  <2> QED
    BY <2>1, <2>2
<1>6. CASE WriteFile
  <2>1. Here \in Files /\ day \in Days /\ day \notin Saturdays /\ step = "write"
    BY <1>6 DEF WriteFile, Reading, TypeOK, Here, Files
  <2>2. payload \in SUBSET Minutes /\ File(payload) \in [kind : {"absent", "torn", "file"}, minutes : SUBSET Minutes]
    BY DEF TypeOK, File
  <2>3. cache' \in CacheType /\ cache'[Here] = File(payload)
    BY <1>6, <2>1, <2>2 DEF WriteFile, TypeOK, CacheType
  <2>4. side = "ask" => cache'[<<day, "bid">>] = cache[<<day, "bid">>]
    BY <1>6, <2>1 DEF WriteFile, Here, TypeOK, Files, Sides
  <2>5. TypeOK'
    BY <1>6, <2>1, <2>2, <2>3, HaveTypes DEF WriteFile
  <2>6. Reading'
    BY <1>6, <2>1, <2>2, <2>3, <2>4, HaveReads DEF WriteFile
  <2> QED
    BY <1>6, <2>5, <2>6, StoredOutlivesWrite DEF WriteFile
<1>7. ASSUME NEW left \in {Absent, File({}), Torn}, DieInWrite(left) PROVE IInv'
  <2>1. Here \in Files
    BY <1>7 DEF DieInWrite, Reading, TypeOK, Here, Files
  <2>2. left \in [kind : {"absent", "torn", "file"}, minutes : SUBSET Minutes]
    BY DEF Absent, File, Torn
  <2>3. cache' \in CacheType /\ Fresh'
    BY <1>7, <2>1, <2>2, EndsFresh DEF DieInWrite, TypeOK, CacheType
  <2>4. \A d \in Days : Stored(d)'
    BY <1>7, StoredOutlivesWrite DEF DieInWrite
  <2> QED
    BY <1>7, <2>3, <2>4, FreshReads, FreshTypes DEF DieInWrite, TypeOK, StoreType
<1>8. CASE StoreDay
  BY <1>8, StorePasses
<1>9. CASE Die
  BY <1>9, EndsFresh, FreshReads, FreshTypes, StoredStays DEF Die, TypeOK, CacheType, StoreType, disk
<1>10. CASE DayPasses
  <2>1. TypeOK' /\ Reading'
    BY <1>10, FeedAssumption DEF DayPasses, TypeOK, Reading, Here, disk, run
  <2> QED
    BY <1>10, <2>1, StoredStays DEF DayPasses
<1>11. CASE UNCHANGED vars
  <2>1. TypeOK' /\ Reading'
    BY <1>11 DEF vars, TypeOK, Reading, Here, disk, run
  <2> QED
    BY <1>11, <2>1, StoredStays DEF vars
<1> QED
  BY <1>1, <1>2, <1>3, <1>4, <1>5, <1>6, <1>7, <1>8, <1>9, <1>10, <1>11 DEF Next

\* What a run has read is what the cache holds, and what is stored of a day is
\* what its two files say.
THEOREM Inductive == Spec => []IInv
<1> QED
  BY Starts, Steps, PTL DEF Spec

(* --------------------------------- results ------------------------------- *)

\* The state keeps its shape, and no Saturday is ever stored (build_m5_database).
THEOREM TypeCorrect == Spec => []TypeOK
<1>1. IInv => TypeOK
  BY DEF IInv
<1> QED
  BY <1>1, Inductive, PTL

\* A day that was passed is stored as the archive has it, unless one of its files
\* was cut off or fetched too early (_cached_fetch, upsert_candles).
THEOREM StoreIsTheArchive == Spec => []StoreIsArchive
<1>1. IInv => StoreIsArchive
  <2> SUFFICES ASSUME IInv, NEW d \in passed,
                      \A s \in Sides : ~(cache[<<d, s>>].kind = "file"
                                           /\ cache[<<d, s>>].minutes # Archive[<<d, s>>]),
                      NEW b \in Bars
               PROVE  store[<<d, b>>] = IF Complete(d, b) \subseteq Padding[d] THEN {}
                                        ELSE Complete(d, b)
    BY DEF StoreIsArchive, AsArchived
  <2>1. d \in Days /\ Stored(d)
    BY DEF IInv, TypeOK
  <2>2. \A s \in Sides : cache[<<d, s>>].minutes = Archive[<<d, s>>]
    BY <2>1 DEF Stored
  <2>3. store[<<d, b>>] = BarOf(d, b, Archive[<<d, "bid">>], Archive[<<d, "ask">>])
    BY <2>1, <2>2 DEF Stored, Sides
  <2>4. \A s \in Sides : Archive[<<d, s>>] \subseteq Minutes
    BY <2>1, FeedAssumption DEF Files
  <2>5. Complete(d, b) = {m \in Paired(Archive[<<d, "bid">>], Archive[<<d, "ask">>]) :
                            m \div BarLen = b}
    BY <2>4 DEF Complete, Paired, Sides
  <2> QED
    BY <2>3, <2>5 DEF BarOf
<1> QED
  BY <1>1, Inductive, PTL

\* A row that was written never changes (on_conflict_do_update writes the same).
THEOREM RowsStay == Spec => RowsAreFinal
<1>1. IInv /\ [Next]_vars =>
        [\A k \in Days \X Bars : store[k] # {} => store'[k] = store[k]]_vars
  <2> SUFFICES ASSUME IInv, Next, NEW k \in Days \X Bars, store[k] # {}
               PROVE  store'[k] = store[k]
    OBVIOUS
  <2>1. CASE StoreDay
    <3>1. PICK d \in Days, b \in Bars : k = <<d, b>>
      OBVIOUS
    <3>2. Stored(d) /\ d \in passed
      BY <3>1 DEF IInv, Stored
    <3>3. d = day => store[k] = BarOf(d, b, got["bid"], got["ask"])
      BY <2>1, <3>1, <3>2 DEF IInv, Stored, Reading, StoreDay, File, Sides
    <3> QED
      BY <2>1, <3>1, <3>3 DEF StoreDay
  <2>2. CASE ~StoreDay
    BY <2>2 DEF Next, StartRun, SkipSaturday, UseCache, RequestAnswered, RequestFails,
                WriteFile, DieInWrite, Die, DayPasses, disk
  <2> QED
    BY <2>1, <2>2
<1> QED
  BY <1>1, Inductive, PTL DEF Spec, RowsAreFinal
==============================================================================
