----------------------------- MODULE ControlPlane -----------------------------
(***************************************************************************)
(* The control endpoints of api/app.py over what they share: ApiContext,   *)
(* the files and the config_version table, with the LiveGate that reads    *)
(* file and table for each order.  The handlers are plain functions, which *)
(* FastAPI runs on a pool of threads: every access to what is shared is a  *)
(* step of its own, and a call to broker, file or database may raise.  A   *)
(* strategy is the text of a configuration: what the checks compare, its   *)
(* day_hard_stop, its per_trade_usd and all that is not risk, and a number *)
(* that tells texts apart which say the same.                              *)
(***************************************************************************)
EXTENDS Integers, FiniteSets

CONSTANTS
  Workers,       \* threads of the pool
  Strategies,    \* configurations anyone may post
  Edits,         \* those that the operator may put into strategy.yaml
  Firms,         \* daily limits of the firm profiles anyone may post
  FirstStrategy, FirstFirm,   \* in configs/ when the system is installed
  InEvaluation,  \* ApiContext.in_evaluation
  MaxRequests,   \* bound on the requests made
  MaxBoots,      \* bound on restarts of the API process
  MaxFails       \* bound on the handlers that raise

NoStrategy == [stop |-> 0, size |-> 0, rest |-> 0, text |-> 0]

ASSUME ControlAssumption ==
  /\ Strategies \subseteq [stop : Nat \ {0}, size : Nat \ {0}, rest : Nat, text : Nat]
  /\ Edits \subseteq Strategies /\ FirstStrategy \in Strategies
  /\ Firms \subseteq Nat /\ FirstFirm \in Firms
  /\ IsFiniteSet(Workers) /\ InEvaluation \in BOOLEAN
  /\ MaxRequests \in Nat /\ MaxBoots \in Nat /\ MaxFails \in Nat

VARIABLES
  files,     \* strategy.yaml, firm_profile.yaml, KILL, ARM_LIVE, .env
  versions,  \* config_version: the texts that have a row
  active,    \* config_version: the text whose row is active
  ctx,       \* ApiContext: strategy with config_checksum, firm, paused (memory)
  request,   \* worker -> where its request is, and what it carries
  trader,    \* process behind the LiveGate: LIVE_TRADING, expected config,
             \* where its order is, what the check has found so far
  made, boot, fails,
  base,      \* ctx.strategy when the process started (history)
  sound,     \* was the pair it started with valid? (history)
  raced,     \* have two requests overlapped since then? (history)
  stopped,   \* has /kill completed since then, its file untouched? (history)
  debt,      \* accepted changes less audit rows (history)
  late       \* orders sent since the gate was last closed (history)

tables == <<versions, active>>
counters == <<made, boot, fails>>
life == <<base, sound, raced>>
history == <<life, stopped, debt, late>>
vars == <<files, tables, ctx, request, trader, counters, history>>

Steps == {"pause", "resume", "clear", "flat_all", "kill", "halt",
          "validate", "reduce", "insert", "activate", "adopt",
          "validate_firm", "save_firm", "adopt_firm", "save_env",
          "validate_specs", "save_specs", "audit"}
At(p) == [at |-> p, strategy |-> NoStrategy, firm |-> 0, live |-> FALSE]
Idle == At("idle")

(* ------------------------------ config_schema ---------------------------- *)

\* risk_reduction_only
Reduces(old, new) ==
  new.rest = old.rest /\ new.stop <= old.stop /\ new.size <= old.size

\* validate_startup: the hard stop is strictly inside the firm's limit.
Valid(strategy, firm) == strategy.stop < firm

(* -------------------------------- requests ------------------------------- *)

Busy == {w \in Workers : request[w].at # "idle"}

Start(w, r) ==
  /\ request[w].at = "idle" /\ made < MaxRequests
  /\ request' = [request EXCEPT ![w] = r]
  /\ made' = made + 1
  /\ raced' = (raced \/ Busy # {})
  /\ UNCHANGED <<files, tables, ctx, trader, boot, fails, base, sound, stopped,
                 debt, late>>

Arrives(w) ==
  \/ \E p \in {"pause", "resume", "flat_all", "kill", "validate_specs"} :
       Start(w, At(p))
  \/ \E c \in Strategies : Start(w, [At("validate") EXCEPT !.strategy = c])
  \/ \E f \in Firms : Start(w, [At("validate_firm") EXCEPT !.firm = f])
  \/ \E b \in BOOLEAN : Start(w, [At("save_env") EXCEPT !.live = b])

\* Worker w, at step p, goes on to q; the request is answered at "idle".
Step(w, p, q) ==
  /\ request[w].at = p
  /\ request' = [request EXCEPT ![w] = IF q = "idle" THEN Idle ELSE [@ EXCEPT !.at = q]]
  /\ UNCHANGED <<trader, counters, life>>

Owes == debt' = debt + 1   \* the first effect of a request that will be audited
Kept == UNCHANGED <<files, tables, ctx, stopped, debt, late>>

\* Where a handler calls the broker (_flatten), writes a file or the database,
\* it may raise: what it did stays, the rest is not done, the client gets a 500.
Fallible == {"flat_all", "kill", "insert", "activate", "save_firm", "save_env",
             "save_specs", "audit"}

HandlerRaises(w) ==
  /\ request[w].at \in Fallible /\ fails < MaxFails
  /\ request' = [request EXCEPT ![w] = Idle]
  /\ fails' = fails + 1
  /\ UNCHANGED <<trader, made, boot, life>> /\ Kept

Pause(w) ==
  /\ Step(w, "pause", "audit")
  /\ ctx' = [ctx EXCEPT !.paused = TRUE]
  /\ Owes
  /\ UNCHANGED <<files, tables, stopped, late>>

MutKilled == FALSE
Killed == files.kill

ResumeRefused(w) ==
  /\ Killed
  /\ Step(w, "resume", "idle") /\ Kept

ResumeAllowed(w) ==
  /\ ~Killed
  /\ Step(w, "resume", "clear") /\ Kept

ResumeClears(w) ==
  /\ Step(w, "clear", "audit")
  /\ ctx' = [ctx EXCEPT !.paused = FALSE]
  /\ Owes
  /\ UNCHANGED <<files, tables, stopped, late>>

\* What the flattening of /flat-all and /kill does to positions is not shown.
\* In both it comes first: if it raises, there is no KILL file and no pause.
FlatAll(w) ==
  /\ Step(w, "flat_all", "audit")
  /\ Owes
  /\ UNCHANGED <<files, tables, ctx, stopped, late>>

KillWrites(w) ==
  /\ Step(w, "kill", "halt")
  /\ files' = [files EXCEPT !.kill = TRUE]
  /\ Owes
  /\ UNCHANGED <<tables, ctx, stopped, late>>

KillPauses(w) ==
  /\ Step(w, "halt", "audit")
  /\ ctx' = [ctx EXCEPT !.paused = TRUE]
  /\ stopped' = files.kill
  /\ UNCHANGED <<files, tables, debt, late>>

(* POST /config *)

MutConfigValidated(w) ==
  /\ Step(w, "validate",
          IF Valid(request[w].strategy, ctx.firm) THEN "insert" ELSE "idle")
  /\ Kept
ConfigValidated(w) ==
  /\ Step(w, "validate",
          IF ~Valid(request[w].strategy, ctx.firm) THEN "idle"
          ELSE IF InEvaluation THEN "reduce" ELSE "insert")
  /\ Kept

ConfigReduces(w) ==
  /\ Step(w, "reduce",
          IF Reduces(ctx.strategy, request[w].strategy) THEN "insert" ELSE "idle")
  /\ Kept

\* The id is the checksum: a text that has a row cannot be inserted again, be it
\* active or not.
ConfigStored(w) ==
  /\ request[w].strategy \in versions
  /\ Step(w, "insert", "idle") /\ Kept

Inserted(c) == versions \union {c}

ConfigInserted(w) ==
  /\ request[w].strategy \notin versions
  /\ Step(w, "insert", "activate")
  /\ versions' = Inserted(request[w].strategy)
  /\ Owes
  /\ UNCHANGED <<files, active, ctx, stopped, late>>

ConfigActivated(w) ==
  /\ Step(w, "activate", "adopt")
  /\ active' = request[w].strategy
  /\ late' = 0
  /\ UNCHANGED <<files, versions, ctx, stopped, debt>>

ConfigAdopted(w) ==
  /\ Step(w, "adopt", "audit")
  /\ ctx' = [ctx EXCEPT !.strategy = request[w].strategy]
  /\ UNCHANGED <<files, tables, stopped, debt, late>>

(* POST /config/firm, /config/env and /config/instruments *)

MutFirmAccepted(f) == Valid(files.strategy, f)
FirmAccepted(f) == Valid(ctx.strategy, f)

FirmValidated(w) ==
  /\ Step(w, "validate_firm",
          IF FirmAccepted(request[w].firm) THEN "save_firm" ELSE "idle")
  /\ Kept

FirmSaved(w) ==
  /\ Step(w, "save_firm", "adopt_firm")
  /\ files' = [files EXCEPT !.firm = request[w].firm]
  /\ Owes
  /\ UNCHANGED <<tables, ctx, stopped, late>>

MutFirmAdopted(w) ==
  /\ Step(w, "adopt_firm", "idle")
  /\ ctx' = [ctx EXCEPT !.firm = request[w].firm]
  /\ UNCHANGED <<files, tables, stopped, debt, late>>
FirmAdopted(w) ==
  /\ Step(w, "adopt_firm", "audit")
  /\ ctx' = [ctx EXCEPT !.firm = request[w].firm]
  /\ UNCHANGED <<files, tables, stopped, debt, late>>

EnvSaved(w) ==
  /\ Step(w, "save_env", "audit")
  /\ files' = [files EXCEPT !.live = request[w].live]
  /\ Owes
  /\ UNCHANGED <<tables, ctx, stopped, late>>

\* Instruments are valid or not together with the pair in force; the file they
\* go to is read at the next start only, and not shown.
SpecsValidated(w) ==
  /\ Step(w, "validate_specs",
          IF Valid(ctx.strategy, ctx.firm) THEN "save_specs" ELSE "idle")
  /\ Kept

SpecsSaved(w) ==
  /\ Step(w, "save_specs", "audit")
  /\ Owes
  /\ UNCHANGED <<files, tables, ctx, stopped, late>>

Audited(w) ==
  /\ Step(w, "audit", "idle")
  /\ debt' = debt - 1
  /\ UNCHANGED <<files, tables, ctx, stopped, late>>

(* ------------------------- restart and the operator ---------------------- *)

\* main() loads both files and checks neither against the other; requests that
\* were under way are gone, and so is the pause.
Restart ==
  /\ boot < MaxBoots
  /\ boot' = boot + 1
  /\ ctx' = [strategy |-> files.strategy, firm |-> files.firm, paused |-> FALSE]
  /\ request' = [w \in Workers |-> Idle]
  /\ base' = files.strategy /\ sound' = Valid(files.strategy, files.firm)
  /\ raced' = FALSE /\ stopped' = FALSE
  /\ UNCHANGED <<files, tables, trader, made, fails, debt, late>>

EditStrategy(c) ==
  /\ c \in Edits
  /\ files' = [files EXCEPT !.strategy = c]
  /\ UNCHANGED <<tables, ctx, request, trader, counters, history>>

SetKill(b) ==
  /\ files.kill # b
  /\ files' = [files EXCEPT !.kill = b]
  /\ stopped' = FALSE
  /\ UNCHANGED <<tables, ctx, request, trader, counters, life, debt, late>>

SetArm(b) ==
  /\ files.armed # b
  /\ files' = [files EXCEPT !.armed = b]
  /\ late' = IF b THEN 0 ELSE late
  /\ UNCHANGED <<tables, ctx, request, trader, counters, life, stopped, debt>>

(* -------------------------------- LiveGate ------------------------------- *)

Armed == trader.live /\ files.armed /\ active = trader.strategy

\* LIVE_TRADING and the configuration are read when the process starts.
TraderBoots ==
  /\ trader' = [at |-> "idle", live |-> files.live,
                strategy |-> files.strategy, allowed |-> FALSE]
  /\ late' = 0
  /\ UNCHANGED <<files, tables, ctx, request, counters, life, stopped, debt>>

Looks(p, q, allowed) ==
  /\ trader.at = p
  /\ trader' = [at |-> q, live |-> trader.live, strategy |-> trader.strategy,
                allowed |-> allowed]
  /\ UNCHANGED <<files, tables, ctx, request, counters, history>>

\* check() looks at the environment, then the file, then the row.
MutArmSeen == trader.allowed \/ files.armed
ArmSeen == files.armed
CheckArm == Looks("idle", "row", trader.live /\ ArmSeen)
CheckRow == Looks("row", "send", trader.allowed /\ active = trader.strategy)

Refused == ~trader.allowed /\ Looks("send", "idle", FALSE)

Send ==
  /\ trader.at = "send" /\ trader.allowed
  /\ trader' = [trader EXCEPT !.at = "idle"]
  /\ late' = IF Armed THEN late ELSE late + 1
  /\ UNCHANGED <<files, tables, ctx, request, counters, life, stopped, debt>>

(* ------------------------------ specification ---------------------------- *)

Init ==
  /\ files = [strategy |-> FirstStrategy, firm |-> FirstFirm, kill |-> FALSE,
              armed |-> FALSE, live |-> FALSE]
  /\ versions = {} /\ active = NoStrategy
  /\ ctx = [strategy |-> FirstStrategy, firm |-> FirstFirm, paused |-> FALSE]
  /\ request = [w \in Workers |-> Idle]
  /\ trader = [at |-> "idle", live |-> FALSE, strategy |-> FirstStrategy,
               allowed |-> FALSE]
  /\ made = 0 /\ boot = 0 /\ fails = 0
  /\ base = FirstStrategy /\ sound = Valid(FirstStrategy, FirstFirm)
  /\ raced = FALSE /\ stopped = FALSE /\ debt = 0 /\ late = 0

Serve(w) ==
  \/ Arrives(w) \/ HandlerRaises(w)
  \/ Pause(w) \/ ResumeRefused(w) \/ ResumeAllowed(w) \/ ResumeClears(w)
  \/ FlatAll(w) \/ KillWrites(w) \/ KillPauses(w)
  \/ ConfigValidated(w) \/ ConfigReduces(w) \/ ConfigStored(w)
  \/ ConfigInserted(w) \/ ConfigActivated(w) \/ ConfigAdopted(w)
  \/ FirmValidated(w) \/ FirmSaved(w) \/ FirmAdopted(w)
  \/ EnvSaved(w) \/ SpecsValidated(w) \/ SpecsSaved(w) \/ Audited(w)

Operator ==
  \/ \E c \in Edits : EditStrategy(c)
  \/ \E b \in BOOLEAN : SetKill(b) \/ SetArm(b)

Order == TraderBoots \/ CheckArm \/ CheckRow \/ Refused \/ Send

Next == (\E w \in Workers : Serve(w)) \/ Restart \/ Operator \/ Order

Spec == Init /\ [][Next]_vars

(* ------------------------------- properties ------------------------------ *)

SomeStrategies == Strategies \union {NoStrategy}
SomeFirms == Firms \union {0}

\* Shape of the state; among others, an active config_version is one that has a
\* row.
TypeOK ==
  /\ files \in [strategy : Strategies, firm : Firms, kill : BOOLEAN,
                armed : BOOLEAN, live : BOOLEAN]
  /\ versions \subseteq Strategies /\ active \in versions \union {NoStrategy}
  /\ ctx \in [strategy : Strategies, firm : Firms, paused : BOOLEAN]
  /\ request \in [Workers -> [at : Steps \union {"idle"}, strategy : SomeStrategies,
                             firm : SomeFirms, live : BOOLEAN]]
  /\ trader \in [at : {"idle", "row", "send"}, live : BOOLEAN,
                 strategy : Strategies, allowed : BOOLEAN]
  /\ made \in 0..MaxRequests /\ boot \in 0..MaxBoots /\ fails \in 0..MaxFails
  /\ base \in Strategies
  /\ sound \in BOOLEAN /\ raced \in BOOLEAN /\ stopped \in BOOLEAN
  /\ debt \in Int /\ late \in Nat

\* In an evaluation the strategy in force is never looser than the one the
\* process started with, however requests overlap: two that race may undo each
\* other's reduction, but never go beyond it (DECISIONS.md:362-365).
NeverLooser == InEvaluation => Reduces(base, ctx.strategy)

\* As long as requests come one after the other, strategy and firm profile in
\* force stay valid for each other, whichever of them is posted in which order;
\* each handler checks its own against the other one in memory.
PairStaysValid == sound /\ ~raced => Valid(ctx.strategy, ctx.firm)

\* As long as requests come one after the other, a system that was killed is
\* paused until its KILL file is deleted or the process restarted
\* (RUNBOOK.md:95-97).
KilledIsPaused == stopped /\ ~raced => ctx.paused

\* Every accepted change is in the audit table, except those under way and those
\* that a crash or an exception cut off before their row was written: one for
\* each request that it ended (SPEC.md:370).
AuditKeepsUp == debt <= Cardinality(Busy) + Cardinality(Workers) * boot + fails

\* Taking away one of the three factors stops all live orders but the one whose
\* check has already passed it: the gate is asked for each order and reads the
\* file and the row afresh (RUNBOOK.md:86-93).
DisarmIsPrompt == late <= 1
==============================================================================
