----------------------------- MODULE Controller -----------------------------
(***************************************************************************)
(* One proposal from the agent to the interpreter: an agent proposes a     *)
(* manifest (agent/manifest_agent.py), the pipeline validates and compiles *)
(* it (manifest_pipeline.py), or a caller without a validator compiles it  *)
(* as it is (experiments/arms.py, demo/safe_demo.py), and the program is   *)
(* stepped (compiler/runtime.py), one device tick at a time.               *)
(*                                                                         *)
(* What the verifier, the ledger, the package and the device do with the   *)
(* program is in Pipeline, VirtualDevice and Supervisor.                   *)
(***************************************************************************)
EXTENDS Manifest

CONSTANTS
  Board,          \* hardware schemas
  Proposal,       \* manifests a model may write
  Threshold,      \* thresholds a task may report
  RECOVERY,       \* REVERSION_RECOVERY_THRESHOLD_C
  OVERLAP,        \* the recovery threshold of the overlapping stub variant
  USELESS,        \* the activation threshold of the useless one
  Reading,        \* what the sensors may report together
  MAX_RETRIES,
  TICK,           \* SIM_TICK_SECONDS
  NoManifest

\* Every value a condition may compare with.
Level == Threshold \cup {RECOVERY, OVERLAP, USELESS}
           \cup {c.value : c \in UNION {m.activation.terms \cup m.recovery.terms : m \in Proposal}}

ASSUME ControllerAssumption ==
  /\ MAX_RETRIES \in Nat \ {0} /\ TICK \in Nat \ {0}
  /\ "gpio_write_raw" \in Unknown
  /\ Proposal \subseteq BehaviorManifest /\ NoManifest \notin BehaviorManifest
  /\ Level \subseteq Float

VARIABLES
  asked,      \* the task, who proposes (a model, or a variant of the stub), for which board
  attempt,    \* calls of the model made
  manifest,
  stage,
  program,
  ctl         \* the interpreter, and what its last call returned

vars == <<asked, attempt, manifest, stage, program, ctl>>

Stage == {"asking", "none", "proposed", "valid", "refused", "compiled", "unbuildable",
          "running", "faulted", "ended"}

Variant == {"sound", "unknown_capability", "overlong_lease", "overlapping_conditions",
            "undeclared_actuator", "unsupported_combination", "threshold_too_high",
            "no_cooling"}

-----------------------------------------------------------------------------
(* The deterministic proposer. *)

COOLING == {"read_temperature", "fan_on", "fan_off", "emit_heartbeat",
            "emit_context_event", "emit_critical_event", "enter_safe_idle"}
MONITOR == {"read_temperature", "emit_heartbeat", "emit_context_event"}

Temperature(op, x) ==
  [all |-> TRUE,
   terms |-> {[metric |-> "temperature_c", operator |-> op, value |-> x]}]

\* Twice the cost and a millisecond.
Headroom(capabilities) == 2 * CostOf(capabilities) + 10

Sound(threshold) ==
  [ours |-> TRUE, registry |-> TRUE, requested |-> COOLING,
   inputs |-> {"temperature_c"}, outputs |-> {"fan"},
   activation |-> Temperature(">=", threshold), recovery |-> Temperature("<", RECOVERY),
   lease |-> MAX_LEASE, period |-> TICK, rate |-> CEILING, cpu |-> Headroom(COOLING),
   fallback |-> "enter_safe_idle"]

Monitoring(m) ==
  [m EXCEPT !.requested = MONITOR, !.outputs = {}, !.cpu = Headroom(MONITOR),
            !.fallback = "restore_previous_firmware"]

\* The flaw of a variant, put into the manifest of the task.
Flawed(m, variant) ==
  CASE variant = "sound" -> m
    [] variant = "unknown_capability" ->
         [m EXCEPT !.requested = (@ \ {"emit_critical_event", "enter_safe_idle"})
                                   \cup {"gpio_write_raw"}]
    [] variant = "overlong_lease" -> [m EXCEPT !.lease = 4 * MAX_LEASE]
    [] variant = "overlapping_conditions" ->
         [m EXCEPT !.recovery = Temperature(">", OVERLAP)]
    [] variant = "undeclared_actuator" -> [m EXCEPT !.outputs = {}]
    [] variant = "unsupported_combination" ->
         [m EXCEPT !.requested = {"read_temperature", "read_distance", "fan_on", "fan_off",
                                  "emit_heartbeat"},
                   !.inputs = Metric, !.fallback = "restore_previous_firmware"]
    [] variant = "threshold_too_high" -> [m EXCEPT !.activation = Temperature(">=", USELESS)]
    [] variant = "no_cooling" -> Monitoring(m)

\* A crash report is answered with monitoring.
Stub(task) ==
  Flawed(IF task.heat THEN Sound(task.threshold) ELSE Monitoring(Sound(task.threshold)),
         task.by)

-----------------------------------------------------------------------------

Idle == [commanded |-> "off", moved |-> FALSE, since |-> 0, age |-> 0,
         yielded |-> FALSE, out |-> <<>>]

Init ==
  /\ asked \in [by : {"llm"}, board : Board, heat : {TRUE}, threshold : {RECOVERY}]
              \cup [by : Variant, board : Board, heat : BOOLEAN, threshold : Threshold]
  /\ attempt = 0
  /\ manifest = NoManifest
  /\ stage = "asking"
  /\ program = NoController
  /\ ctl = Idle

Propose(m) ==
  /\ manifest' = m
  /\ stage' = "proposed"
  /\ UNCHANGED <<asked, program, ctl>>

\* A proposal the agent does not return; the last attempt returns none at all.
Spend ==
  /\ stage' = IF attempt + 1 = MAX_RETRIES THEN "none" ELSE "asking"
  /\ UNCHANGED <<asked, manifest, program, ctl>>

StubProposes ==
  /\ stage = "asking" /\ asked.by \in Variant
  /\ Propose(Stub(asked))
  /\ UNCHANGED attempt

\* The proposal keeps the last manifest although the validator refused it.
KeepsTheRefused ==
  /\ stage = "asking" /\ asked.by = "llm"
  /\ attempt' = attempt + 1
  /\ \/ Spend
     \/ \E m \in Proposal :
          IF Valid(m, asked.board) THEN Propose(m)
          ELSE /\ manifest' = m
               /\ stage' = IF attempt + 1 = MAX_RETRIES THEN "none" ELSE "asking"
               /\ UNCHANGED <<asked, program, ctl>>

\* One call of the model: prose, or a manifest, which the validator judges.
Reply ==
  /\ stage = "asking" /\ asked.by = "llm"
  /\ attempt' = attempt + 1
  /\ \/ Spend
     \/ \E m \in Proposal : IF Valid(m, asked.board) THEN Propose(m) ELSE Spend

Validate ==
  /\ stage = "proposed"
  /\ stage' = IF Valid(manifest, asked.board) THEN "valid" ELSE "refused"
  /\ UNCHANGED <<asked, attempt, manifest, program, ctl>>

CompileIt ==
  /\ program' = Compile(manifest, asked.board)
  /\ stage' = IF program' = NoController THEN "unbuildable" ELSE "compiled"
  /\ UNCHANGED <<asked, attempt, manifest, ctl>>

CompileManifest == stage = "valid" /\ CompileIt

\* A caller that has written its own manifest and skips the validator.
CompileDirectly ==
  /\ stage = "asking" /\ asked.by = "llm"
  /\ \E m \in Proposal :
       /\ manifest' = m
       /\ program' = Compile(m, asked.board)
       /\ stage' = IF program' = NoController THEN "unbuildable" ELSE "compiled"
  /\ asked' = [asked EXCEPT !.by = "caller"]
  /\ UNCHANGED <<attempt, ctl>>

\* The device starts the program, or starts it again after a restart.
Initialize ==
  /\ stage \in {"compiled", "running"}
  /\ \E fan \in {"on", "off"} : ctl' = [Idle EXCEPT !.commanded = fan]
  /\ stage' = "running"
  /\ UNCHANGED <<asked, attempt, manifest, program>>

\* Neither the last change nor its age outlives what any hold looks at.
Older(c) == [c EXCEPT !.age = IF @ * TICK < program.lease THEN @ + 1 ELSE @,
                      !.since = IF @ < Max({program.hold, CeilDiv(50, TICK)}) THEN @ + 1 ELSE @,
                      !.out = <<>>]

MaybeEmit(c, capability) ==
  IF capability \notin Actuators THEN [c EXCEPT !.out = Append(@, capability)]
  ELSE IF \/ c.commanded = Commands[capability]
          \/ c.moved /\ c.since < program.hold
    THEN c
    ELSE [c EXCEPT !.commanded = Commands[capability], !.moved = TRUE, !.since = 0,
                   !.out = Append(@, capability)]

Try(c, rule, reading) == IF Holds(rule.when, reading) THEN MaybeEmit(c, rule.emit) ELSE c

\* The rules of a tick, in order, each on what the last one left.
RunRules(c, reading) ==
  FoldLeft(LAMBDA s, rule : Try(s, rule, reading), c, program.rules)

Yield(c) == [c EXCEPT !.yielded = TRUE, !.out = SetToSeq(program.fallback)]

Step(reading) ==
  /\ stage = "running"
  /\ IF program.cost > program.budget
       THEN stage' = "faulted" /\ ctl' = [ctl EXCEPT !.out = <<>>]
       ELSE /\ stage' = stage
            /\ LET c == Older(ctl)
               IN  ctl' = IF c.age * TICK < program.lease
                            THEN RunRules(c, reading)
                            ELSE IF c.yielded THEN c ELSE Yield(c)
  /\ UNCHANGED <<asked, attempt, manifest, program>>

\* The device takes the program out: expiry, reversion, or a failure of it.
Shutdown ==
  /\ stage = "running"
  /\ ctl' = Yield(ctl)
  /\ stage' = "ended"
  /\ UNCHANGED <<asked, attempt, manifest, program>>

Next ==
  \/ StubProposes \/ Reply \/ Validate \/ CompileManifest \/ CompileDirectly
  \/ Initialize \/ Shutdown
  \/ \E reading \in Reading : Step(reading)

Spec == Init /\ [][Next]_vars

-----------------------------------------------------------------------------
(* Properties. *)

\* Every variable has its type.
TypeOK ==
  /\ asked \in [by : Variant \cup {"llm", "caller"}, board : Board, heat : BOOLEAN,
               threshold : Threshold \cup {RECOVERY}]
  /\ attempt \in 0 .. MAX_RETRIES
  /\ stage \in Stage
  /\ ctl.commanded \in {"on", "off"} /\ ctl.moved \in BOOLEAN /\ ctl.yielded \in BOOLEAN
  /\ ctl.age * TICK < program.lease + TICK
  /\ program.hold \in Nat /\ program.cost \in Nat
  /\ manifest \in BehaviorManifest \cup {NoManifest}
  /\ (manifest = NoManifest) <=> (stage \in {"asking", "none"})

Readings == [Metric -> Float]
Fires(i, reading) == Holds(program.rules[i].when, reading)
Validated == asked.by # "caller" /\ stage = "compiled"

\* A number so large that one more, or one less, is the number itself.
Absorbs(x) == x \in {Add(x, ONE), Add(x, -ONE)}

Thresholds(m) == {c.value : c \in m.activation.terms \cup m.recovery.terms}

NeverOnAndOff ==
  \A reading \in Readings :
    \A i, j \in {k \in DOMAIN program.rules : Fires(k, reading)} :
      {program.rules[i].emit, program.rules[j].emit} # {"fan_on", "fan_off"}

\* What the safety supervisor relies on in any program (SupervisorAssumption)
\* is what the validator and the compiler together deliver: no reading asks for
\* the fan on and off at once, unless a threshold absorbs one; a program that
\* hands over to the safe state drives no fan, and a cooling fallback drives
\* one.  It takes the patterns too: the validator alone compares only
\* conditions on the same metric.
ServesTheSupervisor ==
  Validated =>
    LET emitted == {program.rules[i].emit : i \in DOMAIN program.rules}
    IN  /\ (\A x \in Thresholds(manifest) : ~Absorbs(x)) => NeverOnAndOff
        /\ "enter_safe_idle" \in emitted => emitted \cap Actuators = {}
        /\ "fan_on" \in program.fallback => Actuators \subseteq emitted

SharesReading(l, r) ==
  \E x \in Float : LET reading == [metric \in {l.metric} |-> x]
                    IN  Evaluate(l, reading) /\ Evaluate(r, reading)

\* The nine probes, rounded, call two comparisons of a metric satisfiable
\* together only when some number satisfies both, and whenever one does unless a
\* threshold absorbs one (validator.py _satisfiable_together).
ConsistencyIsExact ==
  stage \in {"proposed", "compiled", "unbuildable"}
    => \A l \in manifest.activation.terms, r \in manifest.recovery.terms :
         l.metric = r.metric =>
           /\ SatisfiableTogether(l, r) => SharesReading(l, r)
           /\ SharesReading(l, r) =>
                SatisfiableTogether(l, r) \/ \E x \in {l.value, r.value} : Absorbs(x)

\* Probing a small set of values around both thresholds is exact for this
\* operator set (validator.py _satisfiable_together), however large they are.
ProbingIsExact ==
  stage \in {"proposed", "compiled", "unbuildable"}
    => \A l \in manifest.activation.terms, r \in manifest.recovery.terms :
         l.metric = r.metric => (SatisfiableTogether(l, r) <=> SharesReading(l, r))

\* Activation and recovery must be disjoint (validator.py
\* _check_condition_consistency), whatever the thresholds of the manifest.
ValidatedIsDisjoint == Validated => NeverOnAndOff

\* The later gates have nothing left to find in what the validator passed: the
\* compiler refuses it only for want of a pattern, and no program built from it
\* runs over its own budget; that backstop is for programs no validator has seen.
ValidatedIsRunnable ==
  asked.by # "caller" =>
    /\ stage = "unbuildable" =>
         \A i \in DOMAIN Patterns : ~Covers(Patterns[i], manifest.requested)
    /\ stage # "faulted"

Emitted(c) == {c.out[i] : i \in DOMAIN c.out}

\* The fan is driven to another state than the last it was commanded to, after
\* an earlier change of this run.
ChangesAgain ==
  ctl.moved /\ \E e \in Emitted(ctl') \cap Actuators : Commands[e] # ctl.commanded

Rested == (ctl.since + 1) * TICK >= HoldTime["fan_on"]

HandsOver == ctl'.yielded /\ Emitted(ctl') \subseteq {"fan_on"}

\* Between one initialize and the next, while the device is stepped no more
\* slowly than the manifest's period, the fan is not changed within the
\* registry's hold of the last change the rules made; only handing over may,
\* and only to on.  A new initialize forgets the last change (runtime.py
\* initialize, shutdown, _maybe_emit; compiler.py _min_hold_ticks).
RelayRests ==
  [][ChangesAgain /\ manifest.period <= TICK => Rested \/ HandsOver]_vars

\* The hold is the registry's property, not the proposal's (compiler.py
\* _min_hold_ticks): whatever period a manifest declares, the rules rest the fan
\* for the registry's hold.
HoldIsTheRegistrys == [][ChangesAgain => Rested \/ HandsOver]_vars

\* An actuator may not change state again within min_hold_ticks (runtime.py
\* _maybe_emit), whoever changes it.
FanRests == [][ChangesAgain /\ manifest.period <= TICK => Rested]_vars
=============================================================================
