------------------------------ MODULE Manifest ------------------------------
(***************************************************************************)
(* The contract between a model and a device: what a Behavior Manifest may *)
(* say (server/manifest/models.py), the checks it must pass                *)
(* (manifest/validator.py), and the program it compiles to                 *)
(* (compiler/compiler.py), over the capability registry of the repository. *)
(* Pure operators; Controller runs them.                                   *)
(*                                                                         *)
(* Durations are in tenths of a second and costs in tenths of a            *)
(* millisecond, exactly.  A threshold or a reading is a Float: the finite  *)
(* numbers of the machine, every one a multiple of the smallest and so an  *)
(* integer of that unit, unevenly spread.  What the code adds to one is    *)
(* rounded to the nearest there is, and may be lost.  Memory is budgeted   *)
(* as processor time is and is left out.                                   *)
(***************************************************************************)
EXTENDS Integers, SequencesExt

CONSTANTS
  MIN_PERIOD, MAX_PERIOD,   \* what control_period_seconds may be
  MAX_LEASE,                \* MAX_LEASE_SECONDS
  CEILING,                  \* VERIFY_MAX_ACTUATOR_TRANSITIONS_PER_MIN
  Float,                    \* the finite floating-point numbers
  EPSILON, ONE,             \* 1e-9 and 1.0
  EMERGENCY,                \* EMERGENCY_TEMP_C
  Unknown                   \* names a model may make up

ASSUME ManifestAssumption ==
  /\ MIN_PERIOD \in Nat \ {0} /\ MAX_PERIOD \in Nat /\ MIN_PERIOD <= MAX_PERIOD
  /\ MAX_LEASE \in Nat \ {0} /\ CEILING \in Nat \ {0}
  /\ Float \subseteq Int /\ EMERGENCY \in Float
  /\ EPSILON \in Nat \ {0} /\ ONE \in Nat \ {0}

-----------------------------------------------------------------------------
(* registry/capability_registry_v1.json. *)

Produces == [read_temperature |-> "temperature_c", read_distance |-> "distance_cm"]
Commands == [fan_on |-> "on", fan_off |-> "off"]
Pin == [read_temperature |-> 17, read_distance |-> 22, fan_on |-> 27, fan_off |-> 27]
Hardware == [read_temperature |-> "DHT11", read_distance |-> "Lidar_X2",
             fan_on |-> "Relay_Fan", fan_off |-> "Relay_Fan"]
HoldTime == [fan_on |-> 50, fan_off |-> 50]
MaxRate == [fan_on |-> 12, fan_off |-> 12]
FallbackSafe == {"fan_on", "enter_safe_idle"}
Cost == [read_temperature |-> 5, read_distance |-> 20, fan_on |-> 2, fan_off |-> 2,
         emit_heartbeat |-> 1, emit_context_event |-> 1, emit_critical_event |-> 1,
         enter_safe_idle |-> 1]

Sensors == DOMAIN Produces
Actuators == DOMAIN Commands
Wires == DOMAIN Pin
Capability == DOMAIN Cost
Metric == {Produces[c] : c \in Sensors}

CostOf(capabilities) == MapThenSumSet(LAMBDA c : Cost[c], capabilities \cap Capability)

-----------------------------------------------------------------------------
(* Conditions.  A reading is a function on the metrics that could be read. *)

Operator == {">=", "<=", ">", "<", "==", "/="}

Compares(x, op, y) ==
  CASE op = ">=" -> x >= y [] op = "<=" -> x <= y [] op = ">" -> x > y
    [] op = "<" -> x < y [] op = "==" -> x = y [] op = "/=" -> x /= y

\* A metric that could not be read satisfies nothing.
Evaluate(c, reading) ==
  c.metric \in DOMAIN reading /\ Compares(reading[c.metric], c.operator, c.value)

\* A condition is a group of one; the empty conjunction is a rule without one.
Holds(trigger, reading) ==
  IF trigger.all THEN \A c \in trigger.terms : Evaluate(c, reading)
                 ELSE \E c \in trigger.terms : Evaluate(c, reading)

Always == [all |-> TRUE, terms |-> {}]

FallbackNeeds == [enter_safe_idle |-> {"enter_safe_idle"}, hold_cooling |-> {"fan_on"},
                  restore_previous_firmware |-> {}]

\* What survives parsing: names may be any, a condition has a term, a request
\* has a capability, and what must be positive is.  The upper limits of the
\* parser (numbers of terms and names, a budget's size) are left out.
Identifier == Capability \cup Metric \cup {"fan"} \cup Unknown

Condition == [metric : Identifier, operator : Operator, value : Float]

Trigger == [all : BOOLEAN, terms : (SUBSET Condition) \ {{}}]

BehaviorManifest ==
  [ours : BOOLEAN, registry : BOOLEAN,
   requested : (SUBSET Identifier) \ {{}},
   inputs : SUBSET Identifier, outputs : SUBSET Identifier,
   activation : Trigger, recovery : Trigger,
   lease : Nat \ {0}, period : Nat \ {0}, rate : Nat \ {0}, cpu : Nat \ {0},
   fallback : DOMAIN FallbackNeeds]

MetricsUsed(m) == {c.metric : c \in m.activation.terms \cup m.recovery.terms}

-----------------------------------------------------------------------------
(* The checks of the validator. *)

Identity(m) == m.ours /\ m.registry

KnownCapabilities(m) == m.requested \subseteq Capability

SensorBinding(m) ==
  /\ m.inputs \subseteq {Produces[c] : c \in m.requested \cap Sensors}
  /\ MetricsUsed(m) \subseteq m.inputs

ActuatorBinding(m) ==
  m.outputs = IF m.requested \cap Actuators = {} THEN {} ELSE {"fan"}

Permitted(pin, board) == pin \in DOMAIN board.wired /\ pin \notin board.forbidden

Preconditions(m, board) ==
  /\ \A c \in m.requested \cap Wires :
       Permitted(Pin[c], board) /\ board.wired[Pin[c]] = Hardware[c]
  /\ m.requested \cap Actuators # {} =>
       "fan" \in m.outputs /\ "temperature_c" \in m.inputs

PinPermissions(m, board) ==
  \A c \in m.requested \cap Wires : Permitted(Pin[c], board)

LeaseBounds(m) == m.lease <= MAX_LEASE

ControlPeriod(m) == m.period \in MIN_PERIOD .. MAX_PERIOD /\ m.period <= m.lease

Distance(a, b) == IF a <= b THEN b - a ELSE a - b

\* The nearest to half of n; of two as near, one.
NearestToHalf(n) ==
  CHOOSE y \in Float : \A z \in Float : Distance(2 * y, n) <= Distance(2 * z, n)

Add(x, d) == NearestToHalf(2 * (x + d))

\* Halving a sum after it was rounded rounds no further.
Midpoint(a, b) == NearestToHalf(a + b)

\* Probing the thresholds themselves and nothing around them.
ThresholdsOnly(a, b) == {a, b}

Probes(a, b) ==
  {a, b, Add(a, EPSILON), Add(a, -EPSILON), Add(b, EPSILON), Add(b, -EPSILON),
   Add(Min({a, b}), -ONE), Add(Max({a, b}), ONE), Midpoint(a, b)}

SatisfiableTogether(l, r) ==
  \E x \in Probes(l.value, r.value) :
    Compares(x, l.operator, l.value) /\ Compares(x, r.operator, r.value)

\* Looking at the first term of each condition only.
FirstTermsConsistent(m) ==
  LET First(t) == CHOOSE c \in t.terms : TRUE
  IN  First(m.activation).metric = First(m.recovery).metric
        => ~SatisfiableTogether(First(m.activation), First(m.recovery))

ConditionConsistency(m) ==
  \A l \in m.activation.terms, r \in m.recovery.terms :
    l.metric = r.metric => ~SatisfiableTogether(l, r)

\* Asking only whether the registry calls the fallback safe.
FallbackIsSafe(m) == FallbackNeeds[m.fallback] \subseteq FallbackSafe

FallbackReachable(m) == FallbackNeeds[m.fallback] \subseteq m.requested \cap FallbackSafe

ResourceBudget(m) ==
  /\ CostOf(m.requested) <= m.cpu
  /\ m.rate <= CEILING
  /\ \A c \in m.requested \cap Actuators : m.rate <= MaxRate[c]

Valid(m, board) ==
  /\ Identity(m) /\ KnownCapabilities(m) /\ SensorBinding(m) /\ ActuatorBinding(m)
  /\ Preconditions(m, board) /\ PinPermissions(m, board) /\ LeaseBounds(m)
  /\ ControlPeriod(m) /\ ConditionConsistency(m) /\ FallbackReachable(m)
  /\ ResourceBudget(m)

-----------------------------------------------------------------------------
(* The compiler. *)

Rule(trigger, capability) == [when |-> trigger, emit |-> capability]

Asked(m, capability, rule) == IF capability \in m.requested THEN <<rule>> ELSE <<>>

HeartbeatRule(m) == Asked(m, "emit_heartbeat", Rule(Always, "emit_heartbeat"))

ContextRule(m) == Asked(m, "emit_context_event", Rule(m.activation, "emit_context_event"))

CriticalRule(m) ==
  IF "temperature_c" \notin m.inputs THEN <<>>
  ELSE Asked(m, "emit_critical_event",
             Rule([all |-> TRUE, terms |-> {[metric |-> "temperature_c", operator |-> ">=",
                                             value |-> EMERGENCY]}], "emit_critical_event"))

\* First match wins.
Patterns ==
  << [id |-> "thermal_cooling_v1",
      required |-> {"read_temperature", "fan_on", "fan_off"},
      optional |-> {"emit_heartbeat", "emit_context_event", "emit_critical_event",
                    "enter_safe_idle"}],
     [id |-> "monitor_only_v1",
      required |-> {"read_temperature", "emit_heartbeat"},
      optional |-> {"emit_context_event", "emit_critical_event", "read_distance",
                    "enter_safe_idle"}],
     [id |-> "safe_idle_v1",
      required |-> {"enter_safe_idle"},
      optional |-> {"emit_heartbeat", "emit_critical_event", "read_temperature"}] >>

Covers(pattern, requested) ==
  /\ pattern.required \subseteq requested
  /\ requested \subseteq pattern.required \cup pattern.optional

SelectPattern(requested) ==
  SelectInSeq(Patterns, LAMBDA pattern : Covers(pattern, requested))

Build(id, m) ==
  CASE id = "thermal_cooling_v1" ->
         <<Rule(m.activation, "fan_on"), Rule(m.recovery, "fan_off")>>
           \o CriticalRule(m) \o ContextRule(m) \o HeartbeatRule(m)
    [] id = "monitor_only_v1" -> ContextRule(m) \o CriticalRule(m) \o HeartbeatRule(m)
    [] id = "safe_idle_v1" -> <<Rule(Always, "enter_safe_idle")>> \o HeartbeatRule(m)

CeilDiv(a, b) == (a + b - 1) \div b

\* The period's share of the hold, not the hold's of the period.
InvertedHold(m) ==
  LET holds == {HoldTime[c] : c \in m.requested \cap Actuators}
  IN  IF holds = {} THEN 0 ELSE Max({1, CeilDiv(m.period, Max(holds))})

MinHoldTicks(m) ==
  LET holds == {HoldTime[c] : c \in m.requested \cap Actuators}
  IN  IF holds = {} THEN 0 ELSE Max({1, CeilDiv(Max(holds), m.period)})

NoController == [rules |-> <<>>, sensors |-> {}, fallback |-> {}, lease |-> 0, hold |-> 0,
                 cost |-> 0, budget |-> 0]

Uses(p) == p.sensors \cup p.fallback \cup {p.rules[i].emit : i \in DOMAIN p.rules}

PinsUsed(p) == {Pin[c] : c \in Uses(p) \cap Wires}

\* A manifest the compiler cannot build anything coherent from.
Incoherent(m) ==
  \/ ~m.registry
  \/ ~KnownCapabilities(m)
  \/ SelectPattern(m.requested) = 0
  \/ ~(FallbackNeeds[m.fallback] \subseteq m.requested)

ControllerOf(m) ==
  [rules |-> Build(Patterns[SelectPattern(m.requested)].id, m),
   sensors |-> m.requested \cap Sensors,
   fallback |-> FallbackNeeds[m.fallback],
   lease |-> m.lease,
   hold |-> MinHoldTicks(m),
   cost |-> CostOf(m.requested),
   budget |-> m.cpu]

Compile(m, board) ==
  IF Incoherent(m) THEN NoController
  ELSE LET p == ControllerOf(m)
       IN  IF p.rules # <<>> /\ \A pin \in PinsUsed(p) : Permitted(pin, board)
             THEN p ELSE NoController
=============================================================================
