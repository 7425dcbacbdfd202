----------------------------- MODULE Supervisor -----------------------------
(***************************************************************************)
(* Who moves the fan (edge_node/supervisor.py), for one device tick as     *)
(* virtual_device.py runs it: the local policy, a lease that may expire,   *)
(* the control step of the interpreter (compiler/runtime.py), a fault, a   *)
(* probation that may fail.  The lifecycle itself is VirtualDevice; here   *)
(* it is whatever hands the device to another program.                     *)
(*                                                                         *)
(* A program is known by what it does to the fan: the readings that        *)
(* activate and that recover it, its minimum hold, its fallback, and       *)
(* whether it beats.  Time is counted in ticks.  Of the transition log     *)
(* only what the budget looks at is kept: how many changes of the fan are  *)
(* 0, 1, .. WINDOW ticks old.                                              *)
(***************************************************************************)
EXTENDS Naturals, Functions

CONSTANTS
  Program,
  Drives,          \* programs with a fan capability
  Beats,           \* programs with emit_heartbeat
  Idles,           \* programs whose rules request enter_safe_idle
  Activation,      \* readings at which a program asks for cooling
  Recovery,        \* readings at which it asks for no cooling
  MinHold,         \* min_hold_ticks of a program
  Fallback,        \* what shutdown() emits: "on", "idle" or "none"
  Reading,         \* what the sensor may report
  NoReading,       \* no reading at all
  EMERGENCY,       \* emergency_temp_c
  ENGAGE,          \* safe_state_cooling_temp_c
  RELEASE,         \* ENGAGE less the hysteresis
  MISS_LIMIT,      \* heartbeat_miss_limit
  CEILING,         \* max_transitions_per_minute
  WINDOW           \* transition_window_seconds, in ticks

ASSUME SupervisorAssumption ==
  /\ Drives \subseteq Program /\ Beats \subseteq Program /\ Idles \subseteq Program
  /\ Drives \cap Idles = {}
  /\ Activation \in [Program -> SUBSET Reading]
  /\ Recovery \in [Program -> SUBSET Reading]
  /\ \A p \in Program : Activation[p] \cap Recovery[p] = {}   \* the validator's check
  /\ MinHold \in [Program -> Nat]
  /\ Fallback \in [Program -> {"on", "idle", "none"}]
  /\ \A p \in Program : Fallback[p] = "on" => p \in Drives
  /\ Reading \subseteq Nat /\ NoReading \notin Nat
  /\ RELEASE \in Nat /\ ENGAGE \in Nat /\ EMERGENCY \in Nat
  /\ RELEASE < ENGAGE /\ ENGAGE < EMERGENCY
  /\ MISS_LIMIT \in Nat /\ CEILING \in Nat /\ WINDOW \in Nat

VARIABLES
  reading,   \* this tick's reading
  sv,        \* the supervisor and the actuator port
  ctl,       \* the interpreter
  pc         \* where in the tick the device is; "idle" between ticks

vars == <<reading, sv, ctl, pc>>

Fan == {"on", "off"}

SupervisorState ==
  [fan : Fan, state : {"normal", "safe_state"}, emergency : BOOLEAN,
   quiet : 0 .. MISS_LIMIT + 1, moves : [0 .. WINDOW -> Nat]]

ControllerState ==
  [program : Program, believed : Fan, held : Nat, yielded : BOOLEAN]

TypeOK ==
  /\ reading \in Reading \cup {NoReading}
  /\ sv \in SupervisorState
  /\ ctl \in ControllerState
  /\ pc \in {"idle", "lease", "control", "score", "faulted"}

-----------------------------------------------------------------------------
(* The supervisor's own writes. *)

AtLeast(r, t) == r # NoReading /\ r >= t
AtMost(r, t) == r # NoReading /\ r <= t

Set(s, to) ==
  IF s.fan = to THEN s ELSE [s EXCEPT !.fan = to, !.moves[0] = @ + 1]

NoMoves == [age \in 0 .. WINDOW |-> 0]

\* The window is inclusive: a change exactly WINDOW ticks old still counts.
\* The log shifted without making room for the changes of this tick.
OlderUncleared(moves) ==
  [age \in 0 .. WINDOW + 1 |-> IF age = 0 THEN 0 ELSE moves[age - 1]]

Older(moves) == [age \in 0 .. WINDOW |-> IF age = 0 THEN 0 ELSE moves[age - 1]]

Recent(moves) == SumFunction(moves)

EnterSafeState(s) == [s EXCEPT !.state = "safe_state"]

\* A threshold without hysteresis.
PlainThreshold(s, r) ==
  IF r = NoReading \/ AtLeast(r, ENGAGE) THEN "on" ELSE "off"

\* One threshold rule, with hysteresis; without a reading, cool.
ThermalTarget(s, r) ==
  IF r = NoReading \/ AtLeast(r, ENGAGE) THEN "on"
  ELSE IF AtMost(r, RELEASE) THEN "off"
  ELSE s.fan

\* Release only, never engage, and never on a hot device.
ManageUnowned(s, p, r) ==
  IF /\ ~s.emergency
     /\ s.state = "normal"
     /\ r # NoReading
     /\ r < ENGAGE
     /\ p \notin Drives
    THEN Set(s, "off")
    ELSE s

EmergencyPolicy(s, r) ==
  IF AtLeast(r, EMERGENCY) THEN Set([s EXCEPT !.emergency = TRUE], "on")
  ELSE [s EXCEPT !.emergency = @ /\ r = NoReading]

CheckHeartbeat(s, p) ==
  IF p \notin Beats THEN s
  ELSE [s EXCEPT !.quiet = IF @ > MISS_LIMIT THEN @ ELSE @ + 1,
                 !.state = IF s.quiet >= MISS_LIMIT THEN "safe_state" ELSE @]

EnforceLocalPolicy(s, p, r) ==
  LET e == EmergencyPolicy(s, r) IN
  CheckHeartbeat(IF e.state = "safe_state"
                   THEN Set(e, ThermalTarget(e, r))
                   ELSE ManageUnowned(e, p, r), p)

-----------------------------------------------------------------------------
(* Intents.  A step asks for one fan state at most: activation and         *)
(* recovery are disjoint.  In the safe state every intent is refused.      *)

BudgetAllows(s, to) == s.fan = to \/ Recent(s.moves) < CEILING

\* The budget checked, the emergency forgotten.
ConsiderFanAlways(s, to) ==
  IF to = "none" \/ s.state = "safe_state" \/ ~BudgetAllows(s, to)
    THEN s
    ELSE Set(s, to)

ConsiderFan(s, to) ==
  IF \/ to = "none"
     \/ s.state = "safe_state"
     \/ s.emergency /\ to # "on"
     \/ ~BudgetAllows(s, to)
    THEN s
    ELSE Set(s, to)

ConsiderIdle(s, asked) == IF asked THEN EnterSafeState(s) ELSE s

\* Any step counted as a beat.
AcceptStep(s, beat) == IF s.state = "normal" THEN [s EXCEPT !.quiet = 0] ELSE s

AcceptBeat(s, beat) ==
  IF beat /\ s.state = "normal" THEN [s EXCEPT !.quiet = 0] ELSE s

Apply(s, out) == AcceptBeat(ConsiderIdle(ConsiderFan(s, out.fan), out.idle), out.beat)

-----------------------------------------------------------------------------
(* The interpreter. *)

Intents == [fan : Fan \cup {"none"}, idle : BOOLEAN, beat : BOOLEAN]

Silence == [fan |-> "none", idle |-> FALSE, beat |-> FALSE]

Shutdown(p) == [fan  |-> IF Fallback[p] = "on" THEN "on" ELSE "none",
                idle |-> Fallback[p] = "idle",
                beat |-> FALSE]

Asked(p, r) == IF r \in Activation[p] /\ p \in Drives THEN "on"
               ELSE IF r \in Recovery[p] /\ p \in Drives THEN "off"
               ELSE "none"

\* No-op suppression, against what it believes, and the minimum hold.
Emitted(c, r) ==
  IF Asked(c.program, r) # c.believed /\ c.held >= MinHold[c.program]
    THEN Asked(c.program, r)
    ELSE "none"

StepIntents(c, r) == [fan  |-> Emitted(c, r),
                      idle |-> c.program \in Idles,
                      beat |-> c.program \in Beats]

AfterStep(c, r) ==
  IF Emitted(c, r) = "none" THEN c
  ELSE [c EXCEPT !.believed = Emitted(c, r), !.held = 0]

\* initialize() seeds the belief from the actuators as they are.
NewController(q, fan) ==
  [program |-> q, believed |-> fan, held |-> MinHold[q], yielded |-> FALSE]

-----------------------------------------------------------------------------
(* Handing the device to another program. *)

Started(s) == [s EXCEPT !.state = "normal", !.quiet = 0]

\* The release left to the next tick.
HandedOverOnly(s, p, q, r) == Started(Apply(s, Shutdown(p)))

\* The outgoing fallback is considered, the target is started, and what
\* nobody owns any more is released, in this order.
HandedOver(s, p, q, r) == ManageUnowned(Started(Apply(s, Shutdown(p))), q, r)

Handover(q) ==
  /\ sv' = HandedOver(sv, ctl.program, q, reading)
  /\ ctl' = NewController(q, Apply(sv, Shutdown(ctl.program)).fan)

RevertUnavailable == sv' = EnterSafeState(sv) /\ UNCHANGED ctl

-----------------------------------------------------------------------------
(* The tick. *)

Init ==
  /\ reading \in Reading
  /\ ~AtLeast(reading, ENGAGE)
  /\ sv = [fan |-> "off", state |-> "normal", emergency |-> FALSE, quiet |-> 0,
           moves |-> NoMoves]
  /\ \E q \in Program : ctl = NewController(q, "off")
  /\ pc = "idle"

Sense(r) ==
  /\ pc = "idle"
  /\ reading' = r
  /\ sv' = EnforceLocalPolicy([sv EXCEPT !.moves = Older(@)], ctl.program, r)
  /\ ctl' = [ctl EXCEPT !.held = IF @ < MinHold[ctl.program] THEN @ + 1 ELSE @]
  /\ pc' = "lease"

LeaseExpires ==
  /\ pc = "lease"
  /\ pc' = "control"
  /\ (\E q \in Program : Handover(q)) \/ RevertUnavailable
  /\ UNCHANGED reading

AboutToStep == pc \in {"lease", "control"}

Control ==
  /\ AboutToStep
  /\ pc' = "score"
  /\ \/ /\ sv.state = "normal"
        /\ ~ctl.yielded
        /\ sv' = Apply(sv, StepIntents(ctl, reading))
        /\ ctl' = AfterStep(ctl, reading)
     \/ /\ sv.state = "normal"       \* the contract is over: yield, then silence
        /\ sv' = Apply(sv, IF ctl.yielded THEN Silence ELSE Shutdown(ctl.program))
        /\ ctl' = [ctl EXCEPT !.yielded = TRUE]
     \/ /\ sv.state = "safe_state"
        /\ UNCHANGED <<sv, ctl>>
  /\ UNCHANGED reading

\* The safe state entered, its policy left to the next tick.
OnFaultEnterOnly(s, p, r) == EnterSafeState(s)

\* The safe state takes effect in the tick of the fault, not in the next one.
OnFault(s, p, r) == EnforceLocalPolicy(EnterSafeState(s), p, r)

Fault ==
  /\ AboutToStep
  /\ sv.state = "normal"
  /\ sv' = OnFault(sv, ctl.program, reading)
  /\ pc' = "faulted"
  /\ UNCHANGED <<reading, ctl>>

\* A candidate in the safe state, or a fault, may end in a revert.
Score ==
  /\ pc \in {"score", "faulted"}
  /\ pc' = "idle"
  /\ \/ UNCHANGED <<sv, ctl>>
     \/ /\ sv.state = "safe_state"
        /\ (\E q \in Program : Handover(q)) \/ RevertUnavailable
  /\ UNCHANGED reading

Tick == (\E r \in Reading \cup {NoReading} : Sense(r))
          \/ LeaseExpires \/ Control \/ Fault \/ Score

-----------------------------------------------------------------------------
(* Between ticks, and the crash at any point. *)

Install(q) ==
  /\ pc = "idle"
  /\ sv' = Started(sv)
  /\ ctl' = NewController(q, sv.fan)
  /\ UNCHANGED <<reading, pc>>

\* The relay keeps its position; the supervisor's memory is gone.
Restart(q) ==
  /\ sv' = [fan |-> sv.fan, state |-> "normal", emergency |-> FALSE, quiet |-> 0,
            moves |-> NoMoves]
  /\ ctl' = NewController(q, sv.fan)
  /\ pc' = "idle"
  /\ UNCHANGED reading

Next == Tick \/ \E q \in Program : Install(q) \/ Restart(q)

Spec == Init /\ [][Next]_vars

FairSpec == Spec /\ WF_vars(Tick)

\* Ticks only: nothing is installed and the process does not restart.
Undisturbed == Init /\ [][Tick]_vars /\ WF_vars(Tick)

-----------------------------------------------------------------------------
(* Properties. *)

\* While the emergency policy is engaged the fan runs, and it runs on every
\* critical reading, through any intent, fallback, handover, fault, restart or
\* lost reading in between (supervisor.py:13-15).
EmergencyMeansCooling ==
  sv.emergency \/ AtLeast(reading, EMERGENCY) => sv.fan = "on"

\* A fault on a hot device does not cost a tick of cooling
\* (harness.py: "must not cost a tick of cooling").
FaultCostsNoCooling ==
  pc = "faulted" /\ ~(reading # NoReading /\ reading < ENGAGE) => sv.fan = "on"

\* In the safe state cooling that runs is released on a cool reading only,
\* never by an intent, a fallback or a reading between the two thresholds.
SafeStateHysteresis ==
  [][sv.state = "safe_state" /\ sv'.state = "safe_state" /\ sv.fan = "on"
       => sv'.fan = "on" \/ AtMost(reading', RELEASE)]_vars

\* Firmware comes and goes; the fan does not: once a tick's policy has run, a
\* program that owns no actuator never runs beside a relay left energised on a
\* device that is not hot (manage_unowned_actuators).
Unowned ==
  /\ pc \in {"lease", "control", "score"}
  /\ sv.state = "normal"
  /\ ctl.program \notin Drives
  /\ reading # NoReading /\ reading < ENGAGE

NoStuckRelay == Unowned => sv.fan = "off"

\* A controller that has stopped beating has stopped controlling: it loses
\* control as long as the device ticks (_check_heartbeat).
SilenceIsNoticed ==
  ctl.yielded /\ ctl.program \in Beats
    ~> sv.state = "safe_state" \/ ~ctl.yielded

\* compiler.py:142,148: a program cools "while the activation condition holds"
\* and stops "once the recovery condition holds": a controller that keeps
\* control while its condition lasts gets the fan where its rule wants it.
InChargeOf(wanted) ==
  /\ sv.state = "normal"
  /\ ~ctl.yielded
  /\ Asked(ctl.program, reading) = wanted

FanFollowsRules ==
  \A wanted \in Fan : <>[]InChargeOf(wanted) => []<>(sv.fan = wanted)
=============================================================================
