-------------------------- MODULE ControlPlaneProofs --------------------------
(***************************************************************************)
(* Proofs about ControlPlane for every number of threads, requests and     *)
(* restarts and every set of configurations and firm profiles.             *)
(*                                                                         *)
(* Each property needs to say what a request under way carries: one that   *)
(* passed the check against the strategy in force (Checked), one that      *)
(* passed the check against the firm (Matched), a /resume that saw no KILL *)
(* file (Stopped), one that owes an audit row (Owed); and what an order    *)
(* under way has seen of a gate that is closed (Gated).  The conditions    *)
(* "one after the other" come from Alone.                                  *)
(***************************************************************************)
EXTENDS ControlPlane, FiniteSetTheorems, TLAPS

\* What a request holds that is past risk_reduction_only is no looser either.
Checked ==
  InEvaluation =>
    /\ Reduces(base, ctx.strategy)
    /\ \A w \in Workers : request[w].at \in {"insert", "activate", "adopt"}
         => Reduces(base, request[w].strategy)

\* Until two requests overlap at most one is under way.
Alone ==
  ~raced => \A v, w \in Workers :
    request[v].at # "idle" /\ request[w].at # "idle" => v = w

\* A lone request that is past validate_startup still matches the other half.
Matched ==
  sound /\ ~raced =>
    /\ Valid(ctx.strategy, ctx.firm)
    /\ \A w \in Workers :
         /\ request[w].at \in {"reduce", "insert", "activate", "adopt"}
              => Valid(request[w].strategy, ctx.firm)
         /\ request[w].at \in {"save_firm", "adopt_firm"}
              => Valid(ctx.strategy, request[w].firm)

\* A killed system keeps its file, and no lone /resume is past it.
Stopped ==
  stopped =>
    /\ files.kill
    /\ ~raced => ctx.paused /\ \A w \in Workers : request[w].at # "clear"

\* Requests that have had an effect and will write their audit row.
Owing == {w \in Workers :
  request[w].at \in {"audit", "halt", "activate", "adopt", "adopt_firm"}}
Owed == debt <= Cardinality(Owing) + Cardinality(Workers) * boot + fails

\* Once an order went out through a closed gate, no check under way passes.
Gated ==
  /\ late \in {0, 1}
  /\ late = 1 =>
       /\ ~Armed
       /\ trader.at = "row" /\ trader.allowed => active # trader.strategy
       /\ trader.at = "send" => ~trader.allowed

IInv == TypeOK /\ Checked /\ Alone /\ Matched /\ Stopped /\ Owed /\ Gated

Handled(w) ==
  \/ Pause(w) \/ ResumeRefused(w) \/ ResumeAllowed(w) \/ ResumeClears(w)
  \/ FlatAll(w) \/ SpecsValidated(w) \/ SpecsSaved(w)
    \/ KillWrites(w) \/ KillPauses(w)
  \/ ConfigValidated(w) \/ ConfigReduces(w) \/ ConfigStored(w)
  \/ ConfigInserted(w) \/ ConfigActivated(w) \/ ConfigAdopted(w)
  \/ FirmValidated(w) \/ FirmSaved(w) \/ FirmAdopted(w)
  \/ EnvSaved(w) \/ Audited(w)

Request ==
  [at : Steps \union {"idle"}, strategy : SomeStrategies, firm : SomeFirms,
   live : BOOLEAN]

(* -------------------------------- requests ------------------------------- *)

LEMMA IdleType == Idle \in Request
BY DEF Idle, At, Request, SomeStrategies, SomeFirms

\* What a step of a worker does to its request, and that it does nothing to
\* the others.
LEMMA StepEffect ==
  ASSUME TypeOK, NEW w \in Workers, NEW p, NEW q \in Steps \union {"idle"},
         Step(w, p, q)
  PROVE  /\ request \in [Workers -> Request] /\ request' \in [Workers -> Request]
         /\ request[w].at = p /\ request'[w].at = q
         /\ q # "idle" => /\ request'[w].strategy = request[w].strategy
                          /\ request'[w].firm = request[w].firm
         /\ \A v \in Workers \ {w} : request'[v] = request[v]
<1>1. request \in [Workers -> Request]
  BY DEF TypeOK, Request
<1>2. CASE q = "idle"
  BY <1>1, <1>2, IdleType DEF Step, Idle, At
<1>3. CASE q # "idle"
  BY <1>1, <1>3 DEF Step, Request
<1> QED
  BY <1>2, <1>3

\* A new request is a request that says where it starts.
LEMMA StartEffect ==
  ASSUME TypeOK, NEW w \in Workers, Arrives(w)
  PROVE  /\ request' \in [Workers -> Request] /\ made' \in 0..MaxRequests
         /\ request[w].at = "idle"
         /\ request'[w].at \in {"pause", "resume", "flat_all", "kill", "validate",
                                "validate_firm", "validate_specs", "save_env"}
         /\ \A v \in Workers \ {w} : request'[v] = request[v]
         /\ raced' = (raced \/ Busy # {})
         /\ UNCHANGED <<files, tables, ctx, trader, boot, fails, base, sound,
                        stopped, debt, late>>
<1>0. request \in [Workers -> Request] /\ made \in 0..MaxRequests
  BY DEF TypeOK, Request
<1>1. ASSUME NEW p \in {"pause", "resume", "flat_all", "kill", "validate_specs"},
             Start(w, At(p))
      PROVE  At(p) \in Request /\ At(p).at = p
  BY DEF At, Request, Steps, SomeStrategies, SomeFirms
<1>2. ASSUME NEW c \in Strategies,
             Start(w, [At("validate") EXCEPT !.strategy = c])
      PROVE  /\ [At("validate") EXCEPT !.strategy = c] \in Request
             /\ [At("validate") EXCEPT !.strategy = c].at = "validate"
  BY DEF At, Request, Steps, SomeStrategies, SomeFirms
<1>3. ASSUME NEW f \in Firms, Start(w, [At("validate_firm") EXCEPT !.firm = f])
      PROVE  /\ [At("validate_firm") EXCEPT !.firm = f] \in Request
             /\ [At("validate_firm") EXCEPT !.firm = f].at = "validate_firm"
  BY DEF At, Request, Steps, SomeStrategies, SomeFirms
<1>4. ASSUME NEW b \in BOOLEAN, Start(w, [At("save_env") EXCEPT !.live = b])
      PROVE  /\ [At("save_env") EXCEPT !.live = b] \in Request
             /\ [At("save_env") EXCEPT !.live = b].at = "save_env"
  BY DEF At, Request, Steps, SomeStrategies, SomeFirms
<1>5. PICK r \in Request :
        /\ Start(w, r)
        /\ r.at \in {"pause", "resume", "flat_all", "kill", "validate",
                     "validate_firm", "validate_specs", "save_env"}
  BY <1>1, <1>2, <1>3, <1>4 DEF Arrives
<1>6. made' \in 0..MaxRequests
  BY <1>0, <1>5, ControlAssumption DEF Start
<1> QED
  BY <1>0, <1>5, <1>6 DEF Start

\* A handler that raises leaves everything to the others as it is.
LEMMA RaiseEffect ==
  ASSUME TypeOK, NEW w \in Workers, HandlerRaises(w)
  PROVE  /\ request' \in [Workers -> Request] /\ request'[w].at = "idle"
         /\ \A v \in Workers \ {w} : request'[v] = request[v]
         /\ fails' = fails + 1 /\ fails' \in 0..MaxFails
         /\ UNCHANGED <<files, versions, active, ctx, trader, made, boot, base,
                        sound, raced, stopped, debt, late>>
<1>1. request \in [Workers -> Request] /\ fails \in 0..MaxFails
  BY DEF TypeOK, Request
<1>2. request' \in [Workers -> Request] /\ request'[w] = Idle
  BY <1>1, IdleType DEF HandlerRaises
<1>3. \A v \in Workers \ {w} : request'[v] = request[v]
  BY <1>1 DEF HandlerRaises
<1>4. fails' \in 0..MaxFails
  BY <1>1, ControlAssumption DEF HandlerRaises
<1> QED
  BY <1>2, <1>3, <1>4 DEF HandlerRaises, Kept, life, tables, Idle, At

(* ------------------------------- the types ------------------------------- *)

LEMMA InitType == Init => TypeOK
<1> SUFFICES ASSUME Init PROVE TypeOK
  OBVIOUS
<1>1. request \in [Workers -> Request]
  BY IdleType DEF Init
<1>2. sound \in BOOLEAN
  BY DEF Init, Valid
<1>3. /\ files \in [strategy : Strategies, firm : Firms, kill : BOOLEAN,
                   armed : BOOLEAN, live : BOOLEAN]
      /\ ctx \in [strategy : Strategies, firm : Firms, paused : BOOLEAN]
      /\ trader \in [at : {"idle", "row", "send"}, live : BOOLEAN,
                    strategy : Strategies, allowed : BOOLEAN]
  BY ControlAssumption DEF Init
<1>4. /\ made \in 0..MaxRequests /\ boot \in 0..MaxBoots
      /\ fails \in 0..MaxFails
      /\ debt \in Int /\ late \in Nat
  BY ControlAssumption DEF Init
<1>5. /\ versions \subseteq Strategies /\ active \in versions \union {NoStrategy}
      /\ base \in Strategies /\ raced \in BOOLEAN /\ stopped \in BOOLEAN
  BY ControlAssumption DEF Init
<1> QED
  BY <1>1, <1>2, <1>3, <1>4, <1>5 DEF TypeOK, Request

\* Which strategies and firms a request carries where it uses them.
Carries ==
  \A w \in Workers :
    /\ request[w].at \in {"validate", "reduce", "insert", "activate", "adopt"}
         => request[w].strategy \in Strategies
    /\ request[w].at \in {"validate_firm", "save_firm", "adopt_firm"}
         => request[w].firm \in Firms
    /\ request[w].at = "activate" => request[w].strategy \in versions

LEMMA StartCarries ==
  ASSUME TypeOK, NEW w \in Workers, Arrives(w)
  PROVE  /\ request'[w].at \in {"validate", "reduce", "insert", "activate", "adopt"}
              => request'[w].strategy \in Strategies
         /\ request'[w].at \in {"validate_firm", "save_firm", "adopt_firm"}
              => request'[w].firm \in Firms
<1>0. request \in [Workers -> Request]
  BY DEF TypeOK, Request
<1>1. ASSUME NEW p \in {"pause", "resume", "flat_all", "kill", "validate_specs"},
             Start(w, At(p))
      PROVE  request'[w].at = p
  BY <1>0, <1>1 DEF Start, At
<1>2. ASSUME NEW c \in Strategies,
             Start(w, [At("validate") EXCEPT !.strategy = c])
      PROVE  request'[w].at = "validate" /\ request'[w].strategy = c
  BY <1>0, <1>2 DEF Start, At
<1>3. ASSUME NEW f \in Firms, Start(w, [At("validate_firm") EXCEPT !.firm = f])
      PROVE  request'[w].at = "validate_firm" /\ request'[w].firm = f
  BY <1>0, <1>3 DEF Start, At
<1>4. ASSUME NEW b \in BOOLEAN, Start(w, [At("save_env") EXCEPT !.live = b])
      PROVE  request'[w].at = "save_env"
  BY <1>0, <1>4 DEF Start, At
<1> QED
  BY <1>1, <1>2, <1>3, <1>4 DEF Arrives

\* The worker of a handled step, where it was and where it goes.
LEMMA HandledStep ==
  ASSUME NEW w \in Workers, Handled(w)
  PROVE  \E p \in Steps, q \in Steps \union {"idle"} :
           /\ Step(w, p, q)
           /\ <<p, q>> \in {<<"pause", "audit">>, <<"resume", "idle">>,
                <<"resume", "clear">>, <<"clear", "audit">>,
                <<"flat_all", "audit">>, <<"kill", "halt">>, <<"halt", "audit">>,
                <<"validate", "idle">>, <<"validate", "reduce">>,
                <<"validate", "insert">>, <<"reduce", "insert">>,
                <<"reduce", "idle">>, <<"insert", "idle">>,
                <<"insert", "activate">>, <<"activate", "adopt">>,
                <<"adopt", "audit">>, <<"validate_firm", "idle">>,
                <<"validate_firm", "save_firm">>, <<"save_firm", "adopt_firm">>,
                <<"adopt_firm", "audit">>, <<"save_env", "audit">>,
                <<"validate_specs", "idle">>, <<"validate_specs", "save_specs">>,
                <<"save_specs", "audit">>, <<"audit", "idle">>}
<1> USE DEF Steps
<1>1. CASE Pause(w) \/ FlatAll(w) \/ SpecsValidated(w) \/ SpecsSaved(w)
           \/ KillWrites(w) \/ KillPauses(w)
  BY <1>1 DEF Pause, FlatAll, SpecsValidated, SpecsSaved, KillWrites, KillPauses
<1>2. CASE ResumeRefused(w) \/ ResumeAllowed(w) \/ ResumeClears(w)
  BY <1>2 DEF ResumeRefused, ResumeAllowed, ResumeClears
<1>3. CASE ConfigValidated(w)
  BY <1>3 DEF ConfigValidated
<1>4. CASE ConfigReduces(w)
  BY <1>4 DEF ConfigReduces
<1>5. CASE ConfigStored(w) \/ ConfigInserted(w) \/ ConfigActivated(w) \/ ConfigAdopted(w)
  BY <1>5 DEF ConfigStored, ConfigInserted, ConfigActivated, ConfigAdopted
<1>6. CASE FirmValidated(w)
  BY <1>6 DEF FirmValidated
<1>7. CASE FirmSaved(w) \/ FirmAdopted(w) \/ EnvSaved(w) \/ Audited(w)
  BY <1>7 DEF FirmSaved, FirmAdopted, EnvSaved, Audited
<1> QED
  BY <1>1, <1>2, <1>3, <1>4, <1>5, <1>6, <1>7 DEF Handled

LEMMA HandledType ==
  ASSUME TypeOK, Carries, NEW w \in Workers, Handled(w)
  PROVE  TypeOK' /\ Carries'
<1>1. PICK p \in Steps, q \in Steps \union {"idle"} :
        /\ Step(w, p, q)
        /\ q \in {"reduce", "insert", "activate", "adopt"}
             => p \in {"validate", "reduce", "insert", "activate"}
        /\ q \in {"validate", "validate_firm"} => FALSE
        /\ q \in {"save_firm", "adopt_firm"} => p \in {"validate_firm", "save_firm"}
  BY HandledStep
<1>2. /\ request' \in [Workers -> Request]
      /\ request[w].at = p /\ request'[w].at = q
      /\ q # "idle" => /\ request'[w].strategy = request[w].strategy
                       /\ request'[w].firm = request[w].firm
      /\ \A v \in Workers \ {w} : request'[v] = request[v]
  BY <1>1, StepEffect
<1>3. UNCHANGED <<trader, counters, life>>
  BY <1>1 DEF Step
<1>4. debt' \in Int /\ late' \in Nat
  <2> USE DEF TypeOK, Kept, Owes
  <2>1. CASE Pause(w) \/ FlatAll(w) \/ SpecsValidated(w) \/ SpecsSaved(w)
             \/ KillWrites(w) \/ KillPauses(w)
    BY <2>1 DEF Pause, FlatAll, SpecsValidated, SpecsSaved, KillWrites, KillPauses
  <2>2. CASE ResumeRefused(w) \/ ResumeAllowed(w) \/ ResumeClears(w)
    BY <2>2 DEF ResumeRefused, ResumeAllowed, ResumeClears
  <2>3. CASE ConfigValidated(w) \/ ConfigReduces(w) \/ ConfigStored(w)
    BY <2>3 DEF ConfigValidated, ConfigReduces, ConfigStored
  <2>4. CASE ConfigInserted(w) \/ ConfigActivated(w) \/ ConfigAdopted(w)
    BY <2>4 DEF ConfigInserted, ConfigActivated, ConfigAdopted
  <2>5. CASE FirmValidated(w) \/ FirmSaved(w) \/ FirmAdopted(w) \/ EnvSaved(w) \/ Audited(w)
    BY <2>5 DEF FirmValidated, FirmSaved, FirmAdopted, EnvSaved, Audited
  <2> QED
    BY <2>1, <2>2, <2>3, <2>4, <2>5 DEF Handled
<1>5. files' \in [strategy : Strategies, firm : Firms, kill : BOOLEAN,
                  armed : BOOLEAN, live : BOOLEAN]
  <2> USE DEF TypeOK
  <2>1. CASE KillWrites(w)
    BY <2>1 DEF KillWrites
  <2>2. CASE FirmSaved(w)
    <3>1. request[w].firm \in Firms
      BY <2>2 DEF FirmSaved, Step, Carries
    <3> QED
      BY <2>2, <3>1 DEF FirmSaved
  <2>3. CASE EnvSaved(w)
    <3>1. request[w].live \in BOOLEAN
      OBVIOUS
    <3> QED
      BY <2>3, <3>1 DEF EnvSaved
  <2>4. CASE UNCHANGED files
    BY <2>4
  <2> QED
    BY <2>1, <2>2, <2>3, <2>4
    DEF Handled, Kept, Pause, FlatAll, SpecsValidated, SpecsSaved,
        KillPauses, ResumeRefused, ResumeAllowed,
        ResumeClears, ConfigValidated, ConfigReduces, ConfigStored,
        ConfigInserted, ConfigActivated, ConfigAdopted, FirmValidated,
        FirmAdopted, Audited
<1>6. ctx' \in [strategy : Strategies, firm : Firms, paused : BOOLEAN]
  <2> USE DEF TypeOK
  <2>1. CASE Pause(w) \/ KillPauses(w)
    BY <2>1 DEF Pause, KillPauses
  <2>2. CASE ResumeClears(w)
    BY <2>2 DEF ResumeClears
  <2>3. CASE ConfigAdopted(w)
    <3>1. request[w].strategy \in Strategies
      BY <2>3 DEF ConfigAdopted, Step, Carries
    <3> QED
      BY <2>3, <3>1 DEF ConfigAdopted
  <2>4. CASE FirmAdopted(w)
    <3>1. request[w].firm \in Firms
      BY <2>4 DEF FirmAdopted, Step, Carries
    <3> QED
      BY <2>4, <3>1 DEF FirmAdopted
  <2>5. CASE UNCHANGED ctx
    BY <2>5
  <2> QED
    BY <2>1, <2>2, <2>3, <2>4, <2>5
    DEF Handled, Kept, FlatAll, SpecsValidated, SpecsSaved,
        KillWrites, ResumeRefused, ResumeAllowed,
        ConfigValidated, ConfigReduces, ConfigStored, ConfigInserted,
        ConfigActivated, FirmValidated, FirmSaved, EnvSaved, Audited
<1>7. /\ versions \subseteq versions'
      /\ versions' \subseteq Strategies
      /\ active' \in versions' \union {NoStrategy}
      /\ request'[w].at = "activate" => request'[w].strategy \in versions'
  <2> USE DEF TypeOK
  <2>1. CASE ConfigInserted(w)
    <3>1. request[w].strategy \in Strategies
      BY <2>1 DEF ConfigInserted, Step, Carries
    <3> QED
      BY <1>2, <2>1, <3>1 DEF ConfigInserted, Inserted, Step, Idle, At
  <2>2. CASE ConfigActivated(w)
    <3>1. request[w].strategy \in versions /\ q = "adopt"
      BY <1>2, <2>2 DEF ConfigActivated, Step, Carries
    <3> QED
      BY <1>2, <2>2, <3>1 DEF ConfigActivated
  <2>3. CASE UNCHANGED tables /\ request'[w].at # "activate"
    BY <2>3 DEF tables
  <2>4. request'[w].at = "activate" => ConfigInserted(w)
    BY <1>2
    DEF Handled, Step, Pause, FlatAll, SpecsValidated, SpecsSaved,
        KillWrites, KillPauses, ResumeRefused,
        ResumeAllowed, ResumeClears, ConfigValidated, ConfigReduces, ConfigStored,
        ConfigActivated, ConfigAdopted, FirmValidated, FirmSaved, FirmAdopted,
        EnvSaved, Audited, Idle, At
  <2> QED
    BY <2>1, <2>2, <2>3, <2>4
    DEF Handled, Kept, Pause, FlatAll, SpecsValidated, SpecsSaved,
        KillWrites, KillPauses, ResumeRefused,
        ResumeAllowed, ResumeClears, ConfigValidated, ConfigReduces, ConfigStored,
        ConfigAdopted, FirmValidated, FirmSaved, FirmAdopted, EnvSaved, Audited,
        tables
<1>8. stopped' \in BOOLEAN
  BY DEF TypeOK, Handled, Kept, Pause, FlatAll, SpecsValidated, SpecsSaved,
         KillWrites, KillPauses,
     ResumeRefused, ResumeAllowed, ResumeClears, ConfigValidated, ConfigReduces,
     ConfigStored, ConfigInserted, ConfigActivated, ConfigAdopted, FirmValidated,
     FirmSaved, FirmAdopted, EnvSaved, Audited
<1>9. Carries'
  BY <1>1, <1>2, <1>7 DEF Carries
<1> QED
  BY <1>2, <1>3, <1>4, <1>5, <1>6, <1>7, <1>8, <1>9
  DEF TypeOK, Request, counters, life

LEMMA OtherType ==
  ASSUME TypeOK, Carries, Restart \/ Operator \/ Order
  PROVE  TypeOK' /\ Carries'
<1> USE DEF TypeOK
<1>1. CASE Restart
  <2>1. request' \in [Workers -> Request] /\ \A w \in Workers : request'[w] = Idle
    BY <1>1, IdleType DEF Restart
  <2>2. sound' \in BOOLEAN
    BY <1>1 DEF Restart, Valid
  <2>3. ctx' \in [strategy : Strategies, firm : Firms, paused : BOOLEAN]
    BY <1>1 DEF Restart
  <2>4. boot' \in 0..MaxBoots
    BY <1>1, ControlAssumption DEF Restart
  <2>5. Carries'
    BY <2>1 DEF Carries, Idle, At
  <2> QED
    BY <1>1, <2>1, <2>2, <2>3, <2>4, <2>5 DEF Restart, tables, Request
<1>2. CASE Operator
  <2>1. files' \in [strategy : Strategies, firm : Firms, kill : BOOLEAN,
                    armed : BOOLEAN, live : BOOLEAN]
    BY <1>2, ControlAssumption DEF Operator, EditStrategy, SetKill, SetArm
  <2>2. late' \in Nat /\ debt' \in Int
    BY <1>2 DEF Operator, EditStrategy, SetKill, SetArm, history
  <2>3. /\ UNCHANGED <<tables, ctx, request, trader, counters, life>>
        /\ stopped' \in BOOLEAN
    BY <1>2 DEF Operator, EditStrategy, SetKill, SetArm, history
  <2> QED
    BY <2>1, <2>2, <2>3 DEF tables, counters, life, Carries
<1>3. CASE Order
  <2>1. trader' \in [at : {"idle", "row", "send"}, live : BOOLEAN,
                     strategy : Strategies, allowed : BOOLEAN]
    <3>1. CASE TraderBoots
      BY <3>1 DEF TraderBoots
    <3>2. ASSUME NEW p, NEW q \in {"idle", "row", "send"}, NEW b \in BOOLEAN,
                 Looks(p, q, b)
          PROVE  trader' \in [at : {"idle", "row", "send"}, live : BOOLEAN,
                              strategy : Strategies, allowed : BOOLEAN]
      BY <3>2 DEF Looks
    <3>3. /\ (trader.live /\ ArmSeen) \in BOOLEAN
          /\ (trader.allowed /\ active = trader.strategy) \in BOOLEAN
      BY DEF ArmSeen
    <3>4. CASE CheckArm \/ CheckRow \/ Refused
      BY <3>2, <3>3, <3>4 DEF CheckArm, CheckRow, Refused
    <3>5. CASE Send
      BY <3>5 DEF Send
    <3> QED
      BY <1>3, <3>1, <3>4, <3>5 DEF Order
  <2>2. late' \in Nat /\ debt' \in Int
    BY <1>3 DEF Order, TraderBoots, CheckArm, CheckRow, Refused, Looks, Send, history
  <2>3. UNCHANGED <<files, tables, ctx, request, counters, life, stopped>>
    BY <1>3 DEF Order, TraderBoots, CheckArm, CheckRow, Refused, Looks, Send, history
  <2> QED
    BY <2>1, <2>2, <2>3 DEF tables, counters, life, Carries
<1> QED
  BY <1>1, <1>2, <1>3

LEMMA ArrivesType ==
  ASSUME TypeOK, Carries, NEW w \in Workers, Arrives(w)
  PROVE  TypeOK' /\ Carries'
<1>1. raced' \in BOOLEAN
  BY StartEffect DEF TypeOK
<1>2. Carries'
  BY StartEffect, StartCarries DEF Carries, tables
<1> QED
  BY <1>1, <1>2, StartEffect DEF TypeOK, Request, tables

LEMMA RaisesType ==
  ASSUME TypeOK, Carries, NEW w \in Workers, HandlerRaises(w)
  PROVE  TypeOK' /\ Carries'
<1>1. Carries'
  BY RaiseEffect DEF Carries
<1> QED
  BY <1>1, RaiseEffect DEF TypeOK, Request

\* Next, with the workers' steps told apart from the arrivals.
LEMMA NextCases ==
  ASSUME Next
  PROVE  \/ \E w \in Workers : Arrives(w)
         \/ \E w \in Workers : HandlerRaises(w)
         \/ \E w \in Workers : Handled(w)
         \/ Restart \/ Operator \/ Order
BY DEF Next, Serve, Handled

LEMMA NextType == ASSUME TypeOK, Carries, Next PROVE TypeOK' /\ Carries'
BY NextCases, ArrivesType, RaisesType, HandledType, OtherType

(* --------------------------- what requests carry ------------------------- *)

\* Reductions of reductions are reductions.
LEMMA ReducesTransitive ==
  ASSUME NEW a \in Strategies, NEW b \in Strategies, NEW c \in Strategies,
         Reduces(a, b), Reduces(b, c)
  PROVE  Reduces(a, c)
BY ControlAssumption DEF Reduces

LEMMA ReducesReflexive == ASSUME NEW a \in Strategies PROVE Reduces(a, a)
BY ControlAssumption DEF Reduces

\* Where each handled step is, and where it leaves its request.
LEMMA HandledAt ==
  ASSUME TypeOK, NEW w \in Workers
  PROVE
    /\ Pause(w) => request[w].at = "pause" /\ request'[w].at = "audit"
    /\ ResumeRefused(w) => request[w].at = "resume" /\ request'[w].at = "idle"
    /\ ResumeAllowed(w) => request[w].at = "resume" /\ request'[w].at = "clear"
    /\ ResumeClears(w) => request[w].at = "clear" /\ request'[w].at = "audit"
    /\ FlatAll(w) => request[w].at = "flat_all" /\ request'[w].at = "audit"
    /\ SpecsValidated(w) => /\ request[w].at = "validate_specs"
                            /\ request'[w].at \in {"idle", "save_specs"}
    /\ SpecsSaved(w) => request[w].at = "save_specs" /\ request'[w].at = "audit"
    /\ KillWrites(w) => request[w].at = "kill" /\ request'[w].at = "halt"
    /\ KillPauses(w) => request[w].at = "halt" /\ request'[w].at = "audit"
    /\ ConfigStored(w) => request[w].at = "insert" /\ request'[w].at = "idle"
    /\ ConfigInserted(w) => request[w].at = "insert" /\ request'[w].at = "activate"
    /\ ConfigActivated(w) => request[w].at = "activate" /\ request'[w].at = "adopt"
    /\ ConfigAdopted(w) => request[w].at = "adopt" /\ request'[w].at = "audit"
    /\ FirmSaved(w) => request[w].at = "save_firm" /\ request'[w].at = "adopt_firm"
    /\ FirmAdopted(w) => request[w].at = "adopt_firm" /\ request'[w].at = "audit"
    /\ EnvSaved(w) => request[w].at = "save_env" /\ request'[w].at = "audit"
    /\ Audited(w) => request[w].at = "audit" /\ request'[w].at = "idle"
    /\ ConfigValidated(w) => /\ request[w].at = "validate"
                             /\ \/ request'[w].at = "idle"
                                \/ /\ Valid(request[w].strategy, ctx.firm)
                                   /\ request'[w].at =
                                        (IF InEvaluation THEN "reduce" ELSE "insert")
    /\ ConfigReduces(w) => /\ request[w].at = "reduce"
                           /\ \/ request'[w].at = "idle"
                              \/ /\ Reduces(ctx.strategy, request[w].strategy)
                                 /\ request'[w].at = "insert"
    /\ FirmValidated(w) => /\ request[w].at = "validate_firm"
                           /\ \/ request'[w].at = "idle"
                              \/ /\ Valid(ctx.strategy, request[w].firm)
                                 /\ request'[w].at = "save_firm"
<1> USE DEF Steps
<1>0. ASSUME NEW p, NEW q \in Steps \union {"idle"}, Step(w, p, q)
      PROVE  request[w].at = p /\ request'[w].at = q
  BY <1>0, StepEffect
<1>1. /\ Pause(w) => request[w].at = "pause" /\ request'[w].at = "audit"
      /\ ResumeRefused(w) => request[w].at = "resume" /\ request'[w].at = "idle"
      /\ ResumeAllowed(w) => request[w].at = "resume" /\ request'[w].at = "clear"
      /\ ResumeClears(w) => request[w].at = "clear" /\ request'[w].at = "audit"
  BY <1>0 DEF Pause, ResumeRefused, ResumeAllowed, ResumeClears
<1>2. /\ FlatAll(w) => request[w].at = "flat_all" /\ request'[w].at = "audit"
      /\ SpecsValidated(w) => /\ request[w].at = "validate_specs"
                              /\ request'[w].at \in {"idle", "save_specs"}
      /\ SpecsSaved(w) => request[w].at = "save_specs" /\ request'[w].at = "audit"
      /\ KillWrites(w) => request[w].at = "kill" /\ request'[w].at = "halt"
      /\ KillPauses(w) => request[w].at = "halt" /\ request'[w].at = "audit"
  BY <1>0 DEF FlatAll, SpecsValidated, SpecsSaved, KillWrites, KillPauses
<1>3. /\ ConfigStored(w) => request[w].at = "insert" /\ request'[w].at = "idle"
      /\ ConfigInserted(w) => request[w].at = "insert" /\ request'[w].at = "activate"
      /\ ConfigActivated(w) => request[w].at = "activate" /\ request'[w].at = "adopt"
      /\ ConfigAdopted(w) => request[w].at = "adopt" /\ request'[w].at = "audit"
  BY <1>0 DEF ConfigStored, ConfigInserted, ConfigActivated, ConfigAdopted
<1>4. /\ FirmSaved(w) => request[w].at = "save_firm" /\ request'[w].at = "adopt_firm"
      /\ FirmAdopted(w) => request[w].at = "adopt_firm" /\ request'[w].at = "audit"
      /\ EnvSaved(w) => request[w].at = "save_env" /\ request'[w].at = "audit"
      /\ Audited(w) => request[w].at = "audit" /\ request'[w].at = "idle"
  BY <1>0 DEF FirmSaved, FirmAdopted, EnvSaved, Audited
<1>5. ASSUME ConfigValidated(w)
      PROVE  /\ request[w].at = "validate"
             /\ \/ request'[w].at = "idle"
                \/ /\ Valid(request[w].strategy, ctx.firm)
                   /\ request'[w].at = (IF InEvaluation THEN "reduce" ELSE "insert")
  <2>1. CASE Valid(request[w].strategy, ctx.firm)
    BY <1>0, <1>5, <2>1 DEF ConfigValidated
  <2>2. CASE ~Valid(request[w].strategy, ctx.firm)
    BY <1>0, <1>5, <2>2 DEF ConfigValidated
  <2> QED
    BY <2>1, <2>2
<1>6. ASSUME ConfigReduces(w)
      PROVE  /\ request[w].at = "reduce"
             /\ \/ request'[w].at = "idle"
                \/ /\ Reduces(ctx.strategy, request[w].strategy)
                   /\ request'[w].at = "insert"
  <2>1. CASE Reduces(ctx.strategy, request[w].strategy)
    BY <1>0, <1>6, <2>1 DEF ConfigReduces
  <2>2. CASE ~Reduces(ctx.strategy, request[w].strategy)
    BY <1>0, <1>6, <2>2 DEF ConfigReduces
  <2> QED
    BY <2>1, <2>2
<1>7. ASSUME FirmValidated(w)
      PROVE  /\ request[w].at = "validate_firm"
             /\ \/ request'[w].at = "idle"
                \/ /\ Valid(ctx.strategy, request[w].firm)
                   /\ request'[w].at = "save_firm"
  <2>1. CASE FirmAccepted(request[w].firm)
    BY <1>0, <1>7, <2>1 DEF FirmValidated, FirmAccepted
  <2>2. CASE ~FirmAccepted(request[w].firm)
    BY <1>0, <1>7, <2>2 DEF FirmValidated
  <2> QED
    BY <2>1, <2>2
<1> QED
  BY <1>1, <1>2, <1>3, <1>4, <1>5, <1>6, <1>7

\* What a handled step changes of the context and the KILL file, and what it
\* keeps of the requests.
LEMMA HandledEffect ==
  ASSUME TypeOK, NEW w \in Workers, Handled(w)
  PROVE  /\ \A v \in Workers \ {w} : request'[v] = request[v]
         /\ request'[w].at # "idle" => /\ request'[w].strategy = request[w].strategy
                                       /\ request'[w].firm = request[w].firm
         /\ UNCHANGED <<trader, counters, life>>
         /\ ConfigAdopted(w) \/ ctx'.strategy = ctx.strategy
         /\ ConfigAdopted(w) => ctx'.strategy = request[w].strategy
         /\ FirmAdopted(w) \/ ctx'.firm = ctx.firm
         /\ FirmAdopted(w) => ctx'.firm = request[w].firm
<1>1. PICK p \in Steps, q \in Steps \union {"idle"} : Step(w, p, q)
  BY HandledStep
<1>2. /\ \A v \in Workers \ {w} : request'[v] = request[v]
      /\ request'[w].at # "idle" => /\ request'[w].strategy = request[w].strategy
                                    /\ request'[w].firm = request[w].firm
      /\ UNCHANGED <<trader, counters, life>>
  BY <1>1, StepEffect DEF Step
<1>3. ctx \in [strategy : Strategies, firm : Firms, paused : BOOLEAN]
  BY DEF TypeOK
<1>4. CASE ConfigAdopted(w)
  <2>1. ~FirmAdopted(w)
    BY <1>4, HandledAt
  <2> QED
    BY <1>2, <1>3, <1>4, <2>1 DEF ConfigAdopted
<1>5. CASE FirmAdopted(w)
  <2>1. ~ConfigAdopted(w)
    BY <1>5, HandledAt
  <2> QED
    BY <1>2, <1>3, <1>5, <2>1 DEF FirmAdopted
<1>6. CASE Pause(w) \/ KillPauses(w) \/ ResumeClears(w)
  <2>1. ~ConfigAdopted(w) /\ ~FirmAdopted(w)
    BY <1>6, HandledAt
  <2>2. ctx'.strategy = ctx.strategy /\ ctx'.firm = ctx.firm
    BY <1>3, <1>6 DEF Pause, KillPauses, ResumeClears
  <2> QED
    BY <1>2, <2>1, <2>2
<1>7. CASE ~ConfigAdopted(w) /\ ~FirmAdopted(w) /\ ctx' = ctx
  BY <1>2, <1>7
<1> QED
  BY <1>4, <1>5, <1>6, <1>7
  DEF Handled, Kept, FlatAll, SpecsValidated, SpecsSaved,
      KillWrites, ResumeRefused, ResumeAllowed,
      ConfigValidated, ConfigReduces, ConfigStored, ConfigInserted,
      ConfigActivated, FirmValidated, FirmSaved, EnvSaved, Audited

\* The steps after which a request holds a checked strategy come from the
\* comparison with the strategy in force, or keep what they hold.
LEMMA CheckedNext ==
  ASSUME TypeOK, Carries, Checked, Next PROVE Checked'
<1> SUFFICES ASSUME InEvaluation PROVE Checked'
  BY DEF Checked
<1>0. /\ Reduces(base, ctx.strategy)
      /\ \A w \in Workers : request[w].at \in {"insert", "activate", "adopt"}
           => Reduces(base, request[w].strategy)
  BY DEF Checked
<1>1. ASSUME NEW w \in Workers, Arrives(w) PROVE Checked'
  BY <1>0, <1>1, StartEffect DEF Checked
<1>2. ASSUME NEW w \in Workers, Handled(w) PROVE Checked'
  <2>1. /\ \A v \in Workers \ {w} : request'[v] = request[v]
        /\ request'[w].at # "idle" => request'[w].strategy = request[w].strategy
        /\ base' = base
    BY <1>2, HandledEffect DEF life
  <2>2. Reduces(base, ctx'.strategy)
    BY <1>0, <1>2, HandledEffect, HandledAt
  <2>3. request'[w].at \in {"insert", "activate", "adopt"}
          => Reduces(base, request[w].strategy)
    <3>1. CASE ConfigReduces(w)
      <4>1. request[w].at = "reduce"
        BY <3>1, HandledAt
      <4>2. request[w].strategy \in Strategies
        BY <4>1 DEF Carries
      <4>3. request'[w].at = "idle" \/ Reduces(ctx.strategy, request[w].strategy)
        BY <3>1, HandledAt
      <4> QED
        BY <1>0, <4>2, <4>3, ReducesTransitive DEF TypeOK
    <3>2. CASE ConfigInserted(w) \/ ConfigActivated(w)
      BY <1>0, <3>2, HandledAt
    <3> QED
      BY <1>2, <3>1, <3>2, HandledAt DEF Handled
  <2> QED
    BY <1>0, <2>1, <2>2, <2>3 DEF Checked
<1>3. CASE Restart
  <2>1. ctx'.strategy = base' /\ base' \in Strategies
    BY <1>3 DEF Restart, TypeOK
  <2>2. \A w \in Workers : request'[w].at = "idle"
    BY <1>3 DEF Restart, Idle, At
  <2> QED
    BY <2>1, <2>2, ReducesReflexive DEF Checked
<1>4. CASE Operator \/ Order
  <2>1. UNCHANGED <<ctx, request, base>>
    BY <1>4
    DEF Operator, EditStrategy, SetKill, SetArm, Order, TraderBoots, CheckArm,
        CheckRow, Refused, Looks, Send, history, life
  <2> QED
    BY <1>0, <2>1 DEF Checked
<1>10. ASSUME NEW w \in Workers, HandlerRaises(w) PROVE Checked'
  BY <1>10, RaiseEffect DEF Checked
<1> QED
  BY <1>10, <1>1, <1>2, <1>3, <1>4, NextCases

\* Requests start only when idle, and a second one marks the life as raced.
LEMMA AloneNext == ASSUME TypeOK, Alone, Next PROVE Alone'
<1>1. ASSUME NEW w \in Workers, Arrives(w) PROVE Alone'
  <2>1. ~raced' => ~raced /\ Busy = {}
    BY <1>1, StartEffect DEF TypeOK
  <2>2. ~raced' => \A v \in Workers \ {w} : request'[v].at = "idle"
    BY <1>1, <2>1, StartEffect DEF Busy
  <2> QED
    BY <2>2 DEF Alone
<1>2. ASSUME NEW w \in Workers, Handled(w) PROVE Alone'
  <2>1. PICK p \in Steps, q \in Steps \union {"idle"} : Step(w, p, q)
    BY <1>2, HandledStep
  <2>2. /\ request[w].at = p /\ raced' = raced
        /\ \A v \in Workers \ {w} : request'[v] = request[v]
    BY <2>1, StepEffect DEF Step, life
  <2>3. p # "idle"
    BY DEF Steps
  <2> QED
    BY <2>2, <2>3 DEF Alone
<1>3. CASE Restart
  BY <1>3 DEF Restart, Alone, Idle, At
<1>4. CASE Operator \/ Order
  BY <1>4
  DEF Operator, EditStrategy, SetKill, SetArm, Order, TraderBoots, CheckArm,
      CheckRow, Refused, Looks, Send, history, life, Alone
<1>10. ASSUME NEW w \in Workers, HandlerRaises(w) PROVE Alone'
  BY <1>10, RaiseEffect DEF Alone
<1> QED
  BY <1>10, <1>1, <1>2, <1>3, <1>4, NextCases

\* A handled request is not idle, so while no requests overlap the others are.
LEMMA OthersIdle ==
  ASSUME TypeOK, Alone, ~raced, NEW w \in Workers, Handled(w)
  PROVE  \A v \in Workers \ {w} : request[v].at = "idle" /\ request'[v].at = "idle"
<1>1. request[w].at # "idle"
  BY HandledAt DEF Handled
<1> QED
  BY <1>1, HandledEffect DEF Alone

\* Alone, a request is checked against the half that is in force, and that half
\* does not change before the request is done.
LEMMA MatchedNext ==
  ASSUME TypeOK, Alone, Matched, Next PROVE Matched'
<1>1. ASSUME NEW w \in Workers, Arrives(w) PROVE Matched'
  <2>1. raced' = FALSE => raced = FALSE
    BY <1>1, StartEffect DEF TypeOK
  <2> QED
    BY <1>1, <2>1, StartEffect DEF Matched, TypeOK
<1>2. ASSUME NEW w \in Workers, Handled(w) PROVE Matched'
  <2> SUFFICES ASSUME sound, ~raced
               PROVE  /\ Valid(ctx'.strategy, ctx'.firm)
                      /\ request'[w].at \in {"reduce", "insert", "activate", "adopt"}
                           => Valid(request'[w].strategy, ctx'.firm)
                      /\ request'[w].at \in {"save_firm", "adopt_firm"}
                           => Valid(ctx'.strategy, request'[w].firm)
    BY <1>2, HandledEffect, OthersIdle DEF Matched, life
  <2>1. /\ Valid(ctx.strategy, ctx.firm)
        /\ request[w].at \in {"reduce", "insert", "activate", "adopt"}
             => Valid(request[w].strategy, ctx.firm)
        /\ request[w].at \in {"save_firm", "adopt_firm"}
             => Valid(ctx.strategy, request[w].firm)
    BY DEF Matched
  <2>2. /\ request'[w].at # "idle" => /\ request'[w].strategy = request[w].strategy
                                      /\ request'[w].firm = request[w].firm
        /\ ConfigAdopted(w) \/ ctx'.strategy = ctx.strategy
        /\ ConfigAdopted(w) => ctx'.strategy = request[w].strategy
        /\ FirmAdopted(w) \/ ctx'.firm = ctx.firm
        /\ FirmAdopted(w) => ctx'.firm = request[w].firm
    BY <1>2, HandledEffect
  <2>3. CASE ConfigAdopted(w) \/ FirmAdopted(w)
    <3>1. ~(ConfigAdopted(w) /\ FirmAdopted(w))
      BY HandledAt
    <3> QED
      BY <2>1, <2>2, <2>3, <3>1, HandledAt
  <2>4. CASE ConfigValidated(w)
    BY <2>1, <2>2, <2>4, HandledAt
  <2>5. CASE ConfigReduces(w) \/ ConfigInserted(w) \/ ConfigActivated(w)
    BY <2>1, <2>2, <2>5, HandledAt
  <2>6. CASE FirmValidated(w) \/ FirmSaved(w)
    BY <2>1, <2>2, <2>6, HandledAt
  <2> QED
    BY <1>2, <2>1, <2>2, <2>3, <2>4, <2>5, <2>6, HandledAt DEF Handled
<1>3. CASE Restart
  <2>1. sound' => Valid(ctx'.strategy, ctx'.firm)
    BY <1>3 DEF Restart
  <2>2. \A w \in Workers : request'[w].at = "idle"
    BY <1>3 DEF Restart, Idle, At
  <2> QED
    BY <2>1, <2>2 DEF Matched
<1>4. CASE Operator \/ Order
  <2>1. UNCHANGED <<ctx, request, sound, raced>>
    BY <1>4
    DEF Operator, EditStrategy, SetKill, SetArm, Order, TraderBoots, CheckArm,
        CheckRow, Refused, Looks, Send, history, life
  <2> QED
    BY <2>1 DEF Matched
<1>10. ASSUME NEW w \in Workers, HandlerRaises(w) PROVE Matched'
  BY <1>10, RaiseEffect DEF Matched
<1> QED
  BY <1>10, <1>1, <1>2, <1>3, <1>4, NextCases

\* Alone, a /resume that is past its check saw no KILL file, and none was
\* completed since.
LEMMA StoppedNext ==
  ASSUME TypeOK, Alone, Stopped, Next PROVE Stopped'
<1>1. ASSUME NEW w \in Workers, Arrives(w) PROVE Stopped'
  <2>1. ~raced' => ~raced
    BY <1>1, StartEffect DEF TypeOK
  <2> QED
    BY <1>1, <2>1, StartEffect DEF Stopped
<1>2. ASSUME NEW w \in Workers, Handled(w) PROVE Stopped'
  <2>0. raced' = raced
    BY <1>2, HandledEffect DEF life
  <2>1. CASE KillPauses(w)
    <3>1. stopped' = files.kill /\ files' = files /\ ctx'.paused = TRUE
      BY <2>1 DEF KillPauses, TypeOK
    <3> QED
      BY <1>2, <2>0, <2>1, <3>1, HandledAt, OthersIdle DEF Stopped
  <2>2. CASE ~KillPauses(w)
    <3>1. stopped' = stopped
      BY <1>2, <2>2
      DEF Handled, Kept, Pause, FlatAll, SpecsValidated, SpecsSaved,
          KillWrites, ResumeRefused,
          ResumeAllowed, ResumeClears, ConfigValidated, ConfigReduces,
          ConfigStored, ConfigInserted, ConfigActivated, ConfigAdopted,
          FirmValidated, FirmSaved, FirmAdopted, EnvSaved, Audited
    <3>2. files.kill => files'.kill
      <4>1. CASE KillWrites(w) \/ FirmSaved(w) \/ EnvSaved(w)
        BY <4>1 DEF KillWrites, FirmSaved, EnvSaved, TypeOK
      <4>2. CASE files' = files
        BY <4>2
      <4> QED
        BY <1>2, <4>1, <4>2
        DEF Handled, Kept, Pause, FlatAll, SpecsValidated, SpecsSaved,
            KillPauses, ResumeRefused,
            ResumeAllowed, ResumeClears, ConfigValidated, ConfigReduces,
            ConfigStored, ConfigInserted, ConfigActivated, ConfigAdopted,
            FirmValidated, FirmAdopted, Audited
    <3>3. ctx.paused => ctx'.paused \/ ResumeClears(w)
      <4>1. CASE Pause(w) \/ ConfigAdopted(w) \/ FirmAdopted(w)
        BY <4>1 DEF Pause, ConfigAdopted, FirmAdopted, TypeOK
      <4>2. CASE ctx' = ctx
        BY <4>2
      <4> QED
        BY <1>2, <2>2, <4>1, <4>2
        DEF Handled, Kept, FlatAll, SpecsValidated, SpecsSaved,
            KillWrites, ResumeRefused, ResumeAllowed,
            ConfigValidated, ConfigReduces, ConfigStored, ConfigInserted,
            ConfigActivated, FirmValidated, FirmSaved, EnvSaved, Audited
    <3>4. request'[w].at = "clear" => ~files.kill
      <4>1. CASE ResumeAllowed(w)
        BY <4>1 DEF ResumeAllowed, Killed
      <4> QED
        BY <1>2, <4>1, HandledAt DEF Handled
    <3>5. ResumeClears(w) => request[w].at = "clear"
      BY HandledAt
    <3> QED
      BY <1>2, <2>0, <3>1, <3>2, <3>3, <3>4, <3>5, OthersIdle DEF Stopped
  <2> QED
    BY <2>1, <2>2
<1>3. CASE Restart
  BY <1>3 DEF Restart, Stopped
<1>4. CASE Operator
  <2>1. UNCHANGED <<ctx, request, raced>>
    BY <1>4 DEF Operator, EditStrategy, SetKill, SetArm, history, life
  <2>2. stopped' => stopped /\ (files.kill => files'.kill)
    BY <1>4 DEF Operator, EditStrategy, SetKill, SetArm, history, TypeOK
  <2> QED
    BY <2>1, <2>2 DEF Stopped
<1>5. CASE Order
  <2>1. UNCHANGED <<ctx, request, raced, stopped, files>>
    BY <1>5
    DEF Order, TraderBoots, CheckArm, CheckRow, Refused, Looks, Send, history, life
  <2> QED
    BY <2>1 DEF Stopped
<1>10. ASSUME NEW w \in Workers, HandlerRaises(w) PROVE Stopped'
  BY <1>10, RaiseEffect DEF Stopped
<1> QED
  BY <1>10, <1>1, <1>2, <1>3, <1>4, <1>5, NextCases

(* ---------------------------- what is audited ---------------------------- *)

LEMMA OwingFinite ==
  /\ IsFiniteSet(Owing) /\ Cardinality(Owing) \in Nat
  /\ IsFiniteSet(Busy) /\ Cardinality(Owing) <= Cardinality(Busy)
  /\ Cardinality(Workers) \in Nat /\ Cardinality(Owing) <= Cardinality(Workers)
<1>1. IsFiniteSet(Workers) /\ Owing \subseteq Busy /\ Busy \subseteq Workers
  BY ControlAssumption DEF Owing, Busy
<1>2. IsFiniteSet(Busy)
  BY <1>1, FS_Subset
<1> QED
  BY <1>1, <1>2, FS_Subset, FS_CardinalityType

\* Every step pays with a row, or moves the worker that owes it.
LEMMA OwedNext == ASSUME TypeOK, Owed, Next PROVE Owed'
<1> DEFINE Owes1(r) ==
      r.at \in {"audit", "halt", "activate", "adopt", "adopt_firm"}
<1>0. /\ debt \in Int /\ boot \in Nat /\ fails \in Nat
      /\ IsFiniteSet(Owing) /\ Cardinality(Owing) \in Nat
      /\ Cardinality(Workers) \in Nat
  BY OwingFinite DEF TypeOK
<1>1. ASSUME NEW w \in Workers, Arrives(w) PROVE Owed'
  <2>1. Owing' = Owing /\ debt' = debt /\ boot' = boot /\ fails' = fails
    BY <1>1, StartEffect DEF Owing
  <2> QED
    BY <2>1 DEF Owed
<1>2. ASSUME NEW w \in Workers, Handled(w) PROVE Owed'
  <2>1. /\ boot' = boot /\ fails' = fails
        /\ \A v \in Workers \ {w} : request'[v] = request[v]
    BY <1>2, HandledEffect DEF counters
  <2>2. CASE ~Owes1(request[w]) /\ Owes1(request'[w]) /\ debt' = debt + 1
    <3>1. w \notin Owing /\ Owing' = Owing \union {w}
      BY <2>1, <2>2 DEF Owing
    <3>2. Cardinality(Owing') = Cardinality(Owing) + 1
      BY <1>0, <3>1, FS_AddElement
    <3> QED
      BY <1>0, <2>1, <2>2, <3>2 DEF Owed
  <2>3. CASE Owes1(request[w]) /\ ~Owes1(request'[w]) /\ debt' = debt - 1
    <3>1. w \in Owing /\ Owing' = Owing \ {w}
      BY <2>1, <2>3 DEF Owing
    <3>2. Cardinality(Owing') = Cardinality(Owing) - 1
      BY <1>0, <3>1, FS_RemoveElement
    <3> QED
      BY <1>0, <2>1, <2>3, <3>2 DEF Owed
  <2>4. CASE (Owes1(request[w]) <=> Owes1(request'[w])) /\ debt' = debt
    <3>1. Owing' = Owing
      BY <2>1, <2>4 DEF Owing
    <3> QED
      BY <2>1, <2>4, <3>1 DEF Owed
  <2>5. \/ Pause(w) \/ ResumeClears(w) \/ FlatAll(w) \/ SpecsSaved(w)
    \/ KillWrites(w)
        \/ ConfigInserted(w) \/ FirmSaved(w) \/ EnvSaved(w)
        => debt' = debt + 1
    BY DEF Owes, Pause, ResumeClears, FlatAll, SpecsSaved, KillWrites,
           ConfigInserted, FirmSaved, EnvSaved
  <2>6. Audited(w) => debt' = debt - 1
    BY DEF Audited
  <2>7. \/ ResumeRefused(w) \/ ResumeAllowed(w) \/ KillPauses(w)
        \/ ConfigValidated(w) \/ ConfigReduces(w) \/ ConfigStored(w)
        \/ ConfigActivated(w) \/ ConfigAdopted(w)
        \/ FirmValidated(w) \/ FirmAdopted(w) \/ SpecsValidated(w)
        => debt' = debt
    BY DEF Kept, ResumeRefused, ResumeAllowed, KillPauses, ConfigValidated,
           ConfigReduces, ConfigStored, ConfigActivated, ConfigAdopted,
           FirmValidated, FirmAdopted, SpecsValidated
  <2> QED
    BY <1>2, <2>2, <2>3, <2>4, <2>5, <2>6, <2>7, HandledAt DEF Handled
<1>3. CASE Restart
  <2>1. Owing' = {} /\ debt' = debt /\ boot' = boot + 1 /\ fails' = fails
    BY <1>3 DEF Restart, Owing, Idle, At
  <2>2. Cardinality(Owing') = 0
    BY <2>1, FS_EmptySet
  <2>3. Cardinality(Workers) * (boot + 1) = Cardinality(Workers) * boot + Cardinality(Workers)
    BY <1>0
  <2>4. Cardinality(Workers) * boot \in Int
    BY <1>0
  <2>5. debt <= Cardinality(Workers) * boot + Cardinality(Workers) + fails
    BY <1>0, <2>4, OwingFinite DEF Owed
  <2> QED
    BY <1>0, <2>1, <2>2, <2>3, <2>5 DEF Owed
<1>4. CASE Operator \/ Order
  <2>1. UNCHANGED <<request, debt, boot, fails>>
    BY <1>4
    DEF Operator, EditStrategy, SetKill, SetArm, Order, TraderBoots, CheckArm,
        CheckRow, Refused, Looks, Send, history, counters
  <2> QED
    BY <2>1 DEF Owed, Owing
<1>5. ASSUME NEW w \in Workers, HandlerRaises(w) PROVE Owed'
  <2>1. Owing' = Owing \ {w}
    BY <1>5, RaiseEffect DEF Owing
  <2>2. Cardinality(Owing) <= Cardinality(Owing') + 1
    <3>1. CASE w \in Owing
      BY <1>0, <2>1, <3>1, FS_RemoveElement
    <3>2. CASE w \notin Owing
      <4>1. Owing' = Owing
        BY <2>1, <3>2
      <4> QED
        BY <1>0, <4>1
    <3> QED
      BY <3>1, <3>2
  <2>3. Cardinality(Owing') \in Nat /\ Cardinality(Workers) * boot \in Int
    BY <1>0, <2>1, FS_RemoveElement, FS_CardinalityType
  <2>4. fails' = fails + 1 /\ debt' = debt /\ boot' = boot
    BY <1>5, RaiseEffect
  <2> QED
    BY <1>0, <2>2, <2>3, <2>4 DEF Owed
<1> QED
  BY <1>1, <1>2, <1>3, <1>4, <1>5, NextCases

(* --------------------------------- the gate ------------------------------ *)

\* The gate opens again only by what resets the count.
LEMMA GatedNext == ASSUME TypeOK, Gated, Next PROVE Gated'
<1> USE DEF Armed
<1>1. ASSUME NEW w \in Workers, Arrives(w) PROVE Gated'
  BY <1>1, StartEffect DEF Gated, tables
<1>2. ASSUME NEW w \in Workers, Handled(w) PROVE Gated'
  <2>1. trader' = trader
    BY <1>2, HandledEffect
  <2>2. CASE ConfigActivated(w)
    BY <2>2 DEF ConfigActivated, Gated
  <2>3. CASE ~ConfigActivated(w)
    <3>1. late' = late /\ active' = active
      BY <1>2, <2>3
      DEF Handled, Kept, Pause, FlatAll, SpecsValidated, SpecsSaved,
          KillWrites, KillPauses, ResumeRefused,
          ResumeAllowed, ResumeClears, ConfigValidated, ConfigReduces,
          ConfigStored, ConfigInserted, ConfigAdopted, FirmValidated, FirmSaved,
          FirmAdopted, EnvSaved, Audited, tables
    <3>2. files'.armed = files.armed
      <4>1. CASE KillWrites(w) \/ FirmSaved(w) \/ EnvSaved(w)
        BY <4>1 DEF KillWrites, FirmSaved, EnvSaved, TypeOK
      <4>2. CASE files' = files
        BY <4>2
      <4> QED
        BY <1>2, <2>3, <4>1, <4>2
        DEF Handled, Kept, Pause, FlatAll, SpecsValidated, SpecsSaved,
            KillPauses, ResumeRefused,
            ResumeAllowed, ResumeClears, ConfigValidated, ConfigReduces,
            ConfigStored, ConfigInserted, ConfigAdopted, FirmValidated,
            FirmAdopted, Audited
    <3> QED
      BY <2>1, <3>1, <3>2 DEF Gated
  <2> QED
    BY <2>2, <2>3
<1>3. CASE Restart
  BY <1>3 DEF Restart, Gated, tables
<1>4. CASE Operator
  <2>1. UNCHANGED <<active, trader>>
    BY <1>4 DEF Operator, EditStrategy, SetKill, SetArm, tables
  <2>2. late' = 0 \/ (late' = late /\ (files'.armed => files.armed))
    BY <1>4 DEF Operator, EditStrategy, SetKill, SetArm, history, TypeOK
  <2> QED
    BY <2>1, <2>2 DEF Gated
<1>5. CASE TraderBoots
  BY <1>5 DEF TraderBoots, Gated
<1>6. CASE CheckArm
  <2>1. /\ trader'.at = "row" /\ trader'.live = trader.live
        /\ trader'.strategy = trader.strategy
        /\ trader'.allowed = (trader.live /\ files.armed)
        /\ UNCHANGED <<files, active, late>>
    BY <1>6 DEF CheckArm, ArmSeen, Looks, history, tables
  <2> QED
    BY <2>1 DEF Gated
<1>7. CASE CheckRow
  <2>1. /\ trader.at = "row" /\ trader'.at = "send" /\ trader'.live = trader.live
        /\ trader'.strategy = trader.strategy
        /\ trader'.allowed = (trader.allowed /\ active = trader.strategy)
        /\ UNCHANGED <<files, active, late>>
    BY <1>7 DEF CheckRow, Looks, history, tables
  <2> QED
    BY <2>1 DEF Gated
<1>8. CASE Refused
  <2>1. /\ trader'.at = "idle" /\ trader'.live = trader.live
        /\ trader'.strategy = trader.strategy
        /\ UNCHANGED <<files, active, late>>
    BY <1>8 DEF Refused, Looks, history, tables
  <2> QED
    BY <2>1 DEF Gated
<1>9. CASE Send
  <2>1. /\ trader.at = "send" /\ trader.allowed
        /\ trader'.at = "idle" /\ trader'.live = trader.live
        /\ trader'.strategy = trader.strategy
        /\ UNCHANGED <<files, active>>
        /\ late' = IF Armed THEN late ELSE late + 1
    BY <1>9 DEF Send, tables, TypeOK
  <2> QED
    BY <2>1 DEF Gated
<1>10. ASSUME NEW w \in Workers, HandlerRaises(w) PROVE Gated'
  BY <1>10, RaiseEffect DEF Gated, Armed
<1> QED
  BY <1>10, <1>1, <1>2, <1>3, <1>4, <1>5, <1>6, <1>7, <1>8, <1>9, NextCases DEF Order

(* -------------------------------- theorems ------------------------------- *)

LEMMA InitInv == Init => IInv /\ Carries
<1> SUFFICES ASSUME Init PROVE IInv /\ Carries
  OBVIOUS
<1>1. \A w \in Workers : request[w].at = "idle"
  BY DEF Init, Idle, At
<1>2. Checked
  BY <1>1, ControlAssumption, ReducesReflexive DEF Init, Checked
<1>3. Alone /\ Stopped /\ Gated /\ Carries
  BY <1>1 DEF Init, Alone, Stopped, Gated, Carries
<1>4. Matched
  BY <1>1 DEF Init, Matched
<1>5. Owed
  <2>1. Owing = {} /\ debt = 0 /\ boot = 0 /\ fails = 0
    BY <1>1 DEF Init, Owing
  <2> QED
    BY <2>1, FS_EmptySet, OwingFinite DEF Owed
<1> QED
  BY <1>2, <1>3, <1>4, <1>5, InitType DEF IInv

LEMMA NextInv == IInv /\ Carries /\ [Next]_vars => IInv' /\ Carries'
<1> SUFFICES ASSUME IInv, Carries, [Next]_vars PROVE IInv' /\ Carries'
  OBVIOUS
<1>1. CASE Next
  BY <1>1, NextType, CheckedNext, AloneNext, MatchedNext, StoppedNext, OwedNext,
     GatedNext DEF IInv
<1>2. CASE UNCHANGED vars
  BY <1>2
  DEF vars, tables, counters, life, history, IInv, TypeOK, Checked, Alone,
      Matched, Stopped, Owed, Owing, Gated, Armed, Carries
<1> QED
  BY <1>1, <1>2

\* The strengthened invariant holds of every reachable state.
THEOREM Inductive == Spec => [](IInv /\ Carries)
BY InitInv, NextInv, PTL DEF Spec

\* The shape of the state; the active config_version always has a row.
THEOREM TypeCorrect == Spec => []TypeOK
<1>1. IInv /\ Carries => TypeOK
  BY DEF IInv
<1> QED
  BY <1>1, Inductive, PTL

\* In an evaluation POST /config never brings into force a strategy looser than
\* the one the process started with, however many requests race.
THEOREM NeverLooserThanBoot == Spec => []NeverLooser
<1>1. IInv /\ Carries => NeverLooser
  BY DEF IInv, Checked, NeverLooser
<1> QED
  BY <1>1, Inductive, PTL

\* POST /config and POST /config/firm, one after the other in any order, keep
\* the strategy's stops inside the firm's limits.
THEOREM PairsStayValid == Spec => []PairStaysValid
<1>1. IInv /\ Carries => PairStaysValid
  BY DEF IInv, Matched, PairStaysValid
<1> QED
  BY <1>1, Inductive, PTL

\* /resume, one request after the other, does not get a killed system going.
THEOREM KillHolds == Spec => []KilledIsPaused
<1>1. IInv /\ Carries => KilledIsPaused
  BY DEF IInv, Stopped, KilledIsPaused
<1> QED
  BY <1>1, Inductive, PTL

\* Changes that no audit row tells of are under way or were cut off by a crash or
\* by an exception.
THEOREM AuditIsComplete == Spec => []AuditKeepsUp
<1>1. IInv /\ Carries => AuditKeepsUp
  <2> SUFFICES ASSUME IInv PROVE AuditKeepsUp
    OBVIOUS
  <2>1. /\ debt \in Int /\ boot \in Nat /\ fails \in Nat
        /\ debt <= Cardinality(Owing) + Cardinality(Workers) * boot + fails
    BY ControlAssumption DEF IInv, TypeOK, Owed
  <2>2. Cardinality(Busy) \in Nat
    BY OwingFinite, FS_CardinalityType
  <2>3. Cardinality(Workers) * boot \in Int
    BY <2>1, OwingFinite
  <2> QED
    BY <2>1, <2>2, <2>3, OwingFinite DEF AuditKeepsUp
<1> QED
  BY <1>1, Inductive, PTL

\* At most one live order goes out after the gate was closed.
THEOREM DisarmStopsOrders == Spec => []DisarmIsPrompt
<1>1. IInv /\ Carries => DisarmIsPrompt
  BY DEF IInv, Gated, DisarmIsPrompt
<1> QED
  BY <1>1, Inductive, PTL
==============================================================================
