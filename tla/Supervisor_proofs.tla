--------------------------- MODULE Supervisor_proofs ---------------------------
(***************************************************************************)
(* Theorems about Supervisor for every set of programs, every thresholds,  *)
(* holds, ceilings and windows: type correctness, and the three invariants *)
(* about cooling.  The inductive invariant ties the emergency flag, which  *)
(* the supervisor keeps, to the reading of the tick, which it does not.    *)
(***************************************************************************)
EXTENDS Supervisor, TLAPS

\* Inside a tick the flag is up on a critical reading, and is down on a reading
\* that is not.  Between ticks a restart may have dropped it: the fan is kept.
FlagMatches ==
  pc # "idle" =>
    /\ AtLeast(reading, EMERGENCY) => sv.emergency
    /\ reading # NoReading /\ reading < EMERGENCY => ~sv.emergency

CoolingInv ==
  /\ TypeOK
  /\ FlagMatches
  /\ EmergencyMeansCooling
  /\ FaultCostsNoCooling
  /\ NoStuckRelay

-----------------------------------------------------------------------------
(* What the supervisor's operators do to its state. *)

\* A write of the fan changes the fan and the log, and nothing else.
LEMMA SetType ==
  ASSUME NEW s \in SupervisorState, NEW to \in Fan
  PROVE  /\ Set(s, to) \in SupervisorState
         /\ Set(s, to).fan = to
         /\ Set(s, to).state = s.state
         /\ Set(s, to).emergency = s.emergency
         /\ Set(s, to).quiet = s.quiet
<1>1. WINDOW \in Nat /\ 0 \in 0 .. WINDOW
  BY SupervisorAssumption
<1>2. s.moves \in [0 .. WINDOW -> Nat]
  BY DEF SupervisorState
<1>3. [s.moves EXCEPT ![0] = @ + 1] \in [0 .. WINDOW -> Nat]
  BY <1>1, <1>2
<1>4. CASE s.fan = to
  BY <1>4 DEF Set
<1>5. CASE s.fan # to
  BY <1>3, <1>5 DEF Set, SupervisorState, Fan
<1>6. QED
  BY <1>4, <1>5

\* The release of unowned actuators only ever switches the fan off, and it does
\* nothing during an emergency, in the safe state or on a hot device.
LEMMA ManageUnownedType ==
  ASSUME NEW s \in SupervisorState, NEW p, NEW r
  PROVE  /\ ManageUnowned(s, p, r) \in SupervisorState
         /\ ManageUnowned(s, p, r).state = s.state
         /\ ManageUnowned(s, p, r).emergency = s.emergency
         /\ ManageUnowned(s, p, r).quiet = s.quiet
         /\ s.emergency => ManageUnowned(s, p, r) = s
         /\ /\ ~s.emergency /\ s.state = "normal" /\ p \notin Drives
            /\ r # NoReading /\ r < ENGAGE
            => ManageUnowned(s, p, r).fan = "off"
<1>1. "off" \in Fan
  BY DEF Fan
<1>2. QED
  BY <1>1, SetType DEF ManageUnowned

LEMMA ThermalTargetType ==
  ASSUME NEW s \in SupervisorState, NEW r
  PROVE  ThermalTarget(s, r) \in Fan
BY DEF ThermalTarget, SupervisorState, Fan

\* The emergency policy settles the flag, and the flag brings the fan on.
LEMMA EmergencyPolicyType ==
  ASSUME NEW s \in SupervisorState, NEW r \in Reading \cup {NoReading},
         s.emergency => s.fan = "on"
  PROVE  /\ EmergencyPolicy(s, r) \in SupervisorState
         /\ EmergencyPolicy(s, r).state = s.state
         /\ EmergencyPolicy(s, r).emergency => EmergencyPolicy(s, r).fan = "on"
         /\ AtLeast(r, EMERGENCY) => EmergencyPolicy(s, r).emergency
         /\ r # NoReading /\ r < EMERGENCY => ~EmergencyPolicy(s, r).emergency
         /\ EmergencyPolicy(s, r).emergency => AtLeast(r, EMERGENCY) \/ r = NoReading
<1>1. "on" \in Fan
  BY DEF Fan
<1>2. CASE AtLeast(r, EMERGENCY)
  <2> DEFINE flagged == [s EXCEPT !.emergency = TRUE]
  <2>1. flagged \in SupervisorState /\ flagged.state = s.state /\ flagged.emergency = TRUE
    BY DEF SupervisorState
  <2>2. EmergencyPolicy(s, r) = Set(flagged, "on")
    BY <1>2 DEF EmergencyPolicy
  <2>3. r # NoReading /\ ~(r < EMERGENCY)
    BY <1>2, SupervisorAssumption DEF AtLeast
  <2> HIDE DEF flagged
  <2>4. /\ EmergencyPolicy(s, r) \in SupervisorState
        /\ EmergencyPolicy(s, r).state = s.state
        /\ EmergencyPolicy(s, r).emergency = TRUE
        /\ EmergencyPolicy(s, r).fan = "on"
    BY <1>1, <2>1, <2>2, SetType
  <2>5. QED
    BY <1>2, <2>3, <2>4
<1>3. CASE ~AtLeast(r, EMERGENCY)
  <2>1. EmergencyPolicy(s, r) = [s EXCEPT !.emergency = @ /\ r = NoReading]
    BY <1>3 DEF EmergencyPolicy
  <2>2. (s.emergency /\ r = NoReading) \in BOOLEAN
    OBVIOUS
  <2>3. EmergencyPolicy(s, r) \in SupervisorState
    BY <2>1, <2>2 DEF SupervisorState
  <2>4. /\ EmergencyPolicy(s, r).emergency = (s.emergency /\ r = NoReading)
        /\ EmergencyPolicy(s, r).state = s.state
        /\ EmergencyPolicy(s, r).fan = s.fan
    BY <2>1 DEF SupervisorState
  <2>5. QED
    BY <1>3, <2>3, <2>4
<1>4. QED
  BY <1>2, <1>3

\* The heartbeat count may end in the safe state; it moves nothing.
LEMMA CheckHeartbeatType ==
  ASSUME NEW s \in SupervisorState, NEW p
  PROVE  /\ CheckHeartbeat(s, p) \in SupervisorState
         /\ CheckHeartbeat(s, p).fan = s.fan
         /\ CheckHeartbeat(s, p).emergency = s.emergency
         /\ s.state = "safe_state" => CheckHeartbeat(s, p).state = "safe_state"
<1>1. MISS_LIMIT \in Nat
  BY SupervisorAssumption
<1>2. s.quiet \in 0 .. MISS_LIMIT + 1
  BY DEF SupervisorState
<1>3. (IF s.quiet > MISS_LIMIT THEN s.quiet ELSE s.quiet + 1) \in 0 .. MISS_LIMIT + 1
  BY <1>1, <1>2
<1>4. CASE p \in Beats
  BY <1>3, <1>4 DEF CheckHeartbeat, SupervisorState
<1>5. CASE p \notin Beats
  BY <1>5 DEF CheckHeartbeat
<1>6. QED
  BY <1>4, <1>5

\* What one run of the local policy leaves behind: the guarantee the intents of
\* the tick are examined under.
LEMMA PolicyGuarantee ==
  ASSUME NEW s \in SupervisorState, NEW p \in Program,
         NEW r \in Reading \cup {NoReading},
         s.emergency => s.fan = "on"
  PROVE  LET t == EnforceLocalPolicy(s, p, r)
         IN  /\ t \in SupervisorState
             /\ t.emergency => t.fan = "on"
             /\ AtLeast(r, EMERGENCY) => t.emergency
             /\ r # NoReading /\ r < EMERGENCY => ~t.emergency
             /\ s.state = "safe_state" =>
                  /\ t.state = "safe_state"
                  /\ ~(r # NoReading /\ r < ENGAGE) => t.fan = "on"
             /\ /\ t.state = "normal" /\ p \notin Drives
                /\ r # NoReading /\ r < ENGAGE
                => t.fan = "off"
<1> DEFINE e == EmergencyPolicy(s, r)
           m == IF e.state = "safe_state" THEN Set(e, ThermalTarget(e, r))
                ELSE ManageUnowned(e, p, r)
           t == EnforceLocalPolicy(s, p, r)
<1>1. /\ e \in SupervisorState /\ e.state = s.state
      /\ e.emergency => e.fan = "on"
      /\ AtLeast(r, EMERGENCY) => e.emergency
      /\ r # NoReading /\ r < EMERGENCY => ~e.emergency
      /\ e.emergency => AtLeast(r, EMERGENCY) \/ r = NoReading
  BY EmergencyPolicyType
<1>2. ThermalTarget(e, r) \in Fan
  BY <1>1, ThermalTargetType
<1>3. ENGAGE \in Nat /\ EMERGENCY \in Nat /\ ENGAGE < EMERGENCY /\ Reading \subseteq Nat
  BY SupervisorAssumption
<1>4. r # NoReading => r \in Nat
  BY <1>3
<1>5. ~(r # NoReading /\ r < ENGAGE) => ThermalTarget(e, r) = "on"
  BY <1>3, <1>4 DEF ThermalTarget, AtLeast
<1>6. /\ m \in SupervisorState /\ m.state = s.state /\ m.emergency = e.emergency
      /\ m.emergency => m.fan = "on"
      /\ s.state = "safe_state" /\ ~(r # NoReading /\ r < ENGAGE) => m.fan = "on"
      /\ /\ s.state = "normal" /\ p \notin Drives /\ r # NoReading /\ r < ENGAGE
         => m.fan = "off"
  <2>1. CASE e.state = "safe_state"
    <3>1. m = Set(e, ThermalTarget(e, r))
      BY <2>1
    <3>2. /\ m \in SupervisorState /\ m.state = e.state /\ m.emergency = e.emergency
          /\ m.fan = ThermalTarget(e, r)
      BY <1>1, <1>2, <3>1, SetType
    <3>3. e.emergency => ~(r # NoReading /\ r < ENGAGE)
      BY <1>1, <1>3, <1>4 DEF AtLeast
    <3>4. QED
      BY <1>1, <1>5, <2>1, <3>2, <3>3
  <2>2. CASE e.state # "safe_state"
    <3>1. m = ManageUnowned(e, p, r) /\ s.state = "normal" /\ e.state = "normal"
      BY <1>1, <2>2 DEF SupervisorState
    <3>2. r # NoReading /\ r < ENGAGE => ~e.emergency
      BY <1>1, <1>3, <1>4
    <3>3. QED
      BY <1>1, <3>1, <3>2, ManageUnownedType
  <2>3. QED
    BY <2>1, <2>2
<1>7. t = CheckHeartbeat(m, p)
  BY DEF EnforceLocalPolicy
<1>8. /\ t \in SupervisorState /\ t.fan = m.fan /\ t.emergency = m.emergency
      /\ m.state = "safe_state" => t.state = "safe_state"
  BY <1>6, <1>7, CheckHeartbeatType
<1>9. t.state = "normal" => s.state = "normal"
  BY <1>6, <1>8 DEF SupervisorState
<1>10. QED
  BY <1>1, <1>6, <1>8, <1>9

\* A run of intents moves the fan only where its fan intent says so, and never
\* off during an emergency.
LEMMA ApplyType ==
  ASSUME NEW s \in SupervisorState, NEW out \in Intents,
         s.emergency => s.fan = "on"
  PROVE  LET t == Apply(s, out)
         IN  /\ t \in SupervisorState
             /\ t.emergency = s.emergency
             /\ t.emergency => t.fan = "on"
             /\ s.state = "safe_state" => t.state = "safe_state"
             /\ out.fan = "none" => t.fan = s.fan
<1> DEFINE f == ConsiderFan(s, out.fan)
           i == ConsiderIdle(f, out.idle)
<1>1. /\ f \in SupervisorState /\ f.emergency = s.emergency /\ f.state = s.state
      /\ f.emergency => f.fan = "on"
      /\ out.fan = "none" => f.fan = s.fan
  <2>1. CASE f = s
    BY <2>1
  <2>2. CASE f # s
    <3>1. /\ out.fan # "none" /\ (s.emergency => out.fan = "on")
          /\ f = Set(s, out.fan)
      BY <2>2 DEF ConsiderFan
    <3>2. out.fan \in Fan
      BY <3>1 DEF Intents
    <3>3. QED
      BY <3>1, <3>2, SetType
  <2>3. QED
    BY <2>1, <2>2
<1>2. /\ i \in SupervisorState /\ i.emergency = f.emergency /\ i.fan = f.fan
      /\ f.state = "safe_state" => i.state = "safe_state"
  BY <1>1 DEF ConsiderIdle, EnterSafeState, SupervisorState
<1>3. 0 \in 0 .. MISS_LIMIT + 1
  BY SupervisorAssumption
<1>4. LET t == AcceptBeat(i, out.beat)
      IN  /\ t \in SupervisorState /\ t.emergency = i.emergency /\ t.fan = i.fan
          /\ t.state = i.state
  BY <1>2, <1>3 DEF AcceptBeat, SupervisorState
<1>5. Apply(s, out) = AcceptBeat(i, out.beat)
  BY DEF Apply
<1>6. QED
  BY <1>1, <1>2, <1>4, <1>5

LEMMA ShutdownType ==
  ASSUME NEW p \in Program
  PROVE  /\ Shutdown(p) \in Intents
         /\ p \notin Drives => Shutdown(p).fan = "none"
BY SupervisorAssumption DEF Shutdown, Intents, Fan

LEMMA NewControllerType ==
  ASSUME NEW q \in Program, NEW fan \in Fan
  PROVE  NewController(q, fan) \in ControllerState
BY SupervisorAssumption DEF NewController, ControllerState

LEMMA StartedType ==
  ASSUME NEW s \in SupervisorState
  PROVE  /\ Started(s) \in SupervisorState
         /\ Started(s).emergency = s.emergency
         /\ Started(s).fan = s.fan
         /\ Started(s).state = "normal"
<1>1. 0 \in 0 .. MISS_LIMIT + 1
  BY SupervisorAssumption
<1>2. QED
  BY <1>1 DEF Started, SupervisorState

\* A handover, like every other write, cannot take the fan from an emergency.
LEMMA HandedOverType ==
  ASSUME NEW s \in SupervisorState, NEW p \in Program, NEW q \in Program, NEW r,
         s.emergency => s.fan = "on"
  PROVE  LET t == HandedOver(s, p, q, r)
         IN  /\ t \in SupervisorState
             /\ t.emergency = s.emergency
             /\ t.emergency => t.fan = "on"
             /\ /\ ~s.emergency /\ q \notin Drives /\ r # NoReading /\ r < ENGAGE
                => t.fan = "off"
<1> DEFINE a == Apply(s, Shutdown(p))
           b == Started(a)
<1>1. a \in SupervisorState /\ a.emergency = s.emergency /\ (a.emergency => a.fan = "on")
  BY ApplyType, ShutdownType
<1>2. /\ b \in SupervisorState /\ b.emergency = a.emergency /\ b.fan = a.fan
      /\ b.state = "normal"
  BY <1>1, StartedType
<1>3. HandedOver(s, p, q, r) = ManageUnowned(b, q, r)
  BY DEF HandedOver
<1>4. QED
  BY <1>1, <1>2, <1>3, ManageUnownedType
-----------------------------------------------------------------------------
(* The inductive step, one lemma per part of the tick. *)

\* A new reading, the local policy over it.
LEMMA SenseKeeps ==
  ASSUME CoolingInv, NEW r \in Reading \cup {NoReading}, Sense(r)
  PROVE  CoolingInv'
<1> DEFINE s == [sv EXCEPT !.moves = Older(@)]
<1>1. sv \in SupervisorState /\ ctl \in ControllerState
  BY DEF CoolingInv, TypeOK
<1>2. /\ reading' = r /\ pc' = "lease" /\ sv' = EnforceLocalPolicy(s, ctl.program, r)
      /\ ctl' = [ctl EXCEPT !.held = IF @ < MinHold[ctl.program] THEN @ + 1 ELSE @]
  BY DEF Sense
<1>3. /\ s \in SupervisorState /\ s.emergency = sv.emergency /\ s.fan = sv.fan
  <2>1. sv.moves \in [0 .. WINDOW -> Nat] /\ WINDOW \in Nat
    BY <1>1, SupervisorAssumption DEF SupervisorState
  <2>2. Older(sv.moves) \in [0 .. WINDOW -> Nat]
    BY <2>1 DEF Older
  <2>3. QED
    BY <1>1, <2>2 DEF SupervisorState
<1>4. s.emergency => s.fan = "on"
  BY <1>3 DEF CoolingInv, EmergencyMeansCooling
<1>5. ctl.program \in Program
  BY <1>1 DEF ControllerState
<1>6. /\ sv' \in SupervisorState
      /\ sv'.emergency => sv'.fan = "on"
      /\ AtLeast(r, EMERGENCY) => sv'.emergency
      /\ r # NoReading /\ r < EMERGENCY => ~sv'.emergency
      /\ /\ sv'.state = "normal" /\ ctl.program \notin Drives
         /\ r # NoReading /\ r < ENGAGE
         => sv'.fan = "off"
  BY <1>2, <1>3, <1>4, <1>5, PolicyGuarantee
<1>7. ctl' \in ControllerState /\ ctl'.program = ctl.program
  BY <1>1, <1>2 DEF ControllerState
<1>8. TypeOK'
  BY <1>2, <1>6, <1>7 DEF TypeOK
<1>9. FlagMatches' /\ EmergencyMeansCooling'
  BY <1>2, <1>6 DEF FlagMatches, EmergencyMeansCooling, AtLeast
<1>10. FaultCostsNoCooling'
  BY <1>2 DEF FaultCostsNoCooling
<1>11. NoStuckRelay'
  BY <1>2, <1>6, <1>7 DEF NoStuckRelay, Unowned
<1>12. QED
  BY <1>8, <1>9, <1>10, <1>11 DEF CoolingInv

\* A handover in the middle of a tick, or the refusal to make one.
LEMMA HandoverKeeps ==
  ASSUME CoolingInv, pc # "idle", pc' \in {"control", "idle"}, reading' = reading,
         (\E q \in Program : Handover(q)) \/ RevertUnavailable
  PROVE  CoolingInv'
<1>1. /\ sv \in SupervisorState /\ ctl \in ControllerState
      /\ reading \in Reading \cup {NoReading}
      /\ sv.emergency => sv.fan = "on"
      /\ AtLeast(reading, EMERGENCY) => sv.emergency
      /\ reading # NoReading /\ reading < EMERGENCY => ~sv.emergency
  BY DEF CoolingInv, TypeOK, FlagMatches, EmergencyMeansCooling
<1>2. ctl.program \in Program
  BY <1>1 DEF ControllerState
<1>3. ENGAGE \in Nat /\ EMERGENCY \in Nat /\ ENGAGE < EMERGENCY /\ Reading \subseteq Nat
  BY SupervisorAssumption
<1>4. CASE RevertUnavailable
  <2>1. /\ sv' \in SupervisorState /\ ctl' = ctl /\ sv'.state = "safe_state"
        /\ sv'.emergency = sv.emergency /\ sv'.fan = sv.fan
    BY <1>1, <1>4 DEF RevertUnavailable, EnterSafeState, SupervisorState
  <2>2. TypeOK'
    BY <1>1, <2>1 DEF TypeOK
  <2>3. FlagMatches' /\ EmergencyMeansCooling'
    BY <1>1, <2>1 DEF FlagMatches, EmergencyMeansCooling, AtLeast
  <2>4. FaultCostsNoCooling' /\ NoStuckRelay'
    BY <2>1 DEF FaultCostsNoCooling, NoStuckRelay, Unowned
  <2>5. QED
    BY <2>2, <2>3, <2>4 DEF CoolingInv
<1>5. ASSUME NEW q \in Program, Handover(q)
      PROVE  CoolingInv'
  <2>1. sv' = HandedOver(sv, ctl.program, q, reading)
    BY <1>5 DEF Handover
  <2>2. /\ sv' \in SupervisorState
        /\ sv'.emergency = sv.emergency
        /\ sv'.emergency => sv'.fan = "on"
        /\ /\ ~sv.emergency /\ q \notin Drives /\ reading # NoReading /\ reading < ENGAGE
           => sv'.fan = "off"
    BY <1>1, <1>2, <2>1, HandedOverType
  <2>3. Apply(sv, Shutdown(ctl.program)).fan \in Fan
    <3>1. Apply(sv, Shutdown(ctl.program)) \in SupervisorState
      BY <1>1, <1>2, ApplyType, ShutdownType
    <3>2. QED
      BY <3>1 DEF SupervisorState
  <2>4. ctl' \in ControllerState /\ ctl'.program = q
    BY <1>5, <2>3, NewControllerType DEF Handover, NewController
  <2>5. TypeOK'
    BY <1>1, <2>2, <2>4 DEF TypeOK
  <2>6. FlagMatches' /\ EmergencyMeansCooling'
    BY <1>1, <2>2 DEF FlagMatches, EmergencyMeansCooling, AtLeast
  <2>7. FaultCostsNoCooling'
    BY DEF FaultCostsNoCooling
  <2>8. reading # NoReading /\ reading < ENGAGE => ~sv.emergency
    BY <1>1, <1>3
  <2>9. NoStuckRelay'
    BY <2>2, <2>4, <2>8 DEF NoStuckRelay, Unowned
  <2>10. QED
    BY <2>5, <2>6, <2>7, <2>9 DEF CoolingInv
<1>6. QED
  BY <1>4, <1>5

\* The control step: whatever the program asks, the emergency comes first.
LEMMA ControlKeeps ==
  ASSUME CoolingInv, Control
  PROVE  CoolingInv'
<1>1. /\ sv \in SupervisorState /\ ctl \in ControllerState
      /\ reading \in Reading \cup {NoReading}
      /\ sv.emergency => sv.fan = "on"
      /\ pc # "idle" /\ pc' = "score" /\ reading' = reading
  BY DEF CoolingInv, TypeOK, EmergencyMeansCooling, Control, AboutToStep
<1>2. /\ AtLeast(reading, EMERGENCY) => sv.emergency
      /\ reading # NoReading /\ reading < EMERGENCY => ~sv.emergency
  BY <1>1 DEF CoolingInv, FlagMatches
<1>3. ctl.program \in Program
  BY <1>1 DEF ControllerState
<1>4. Emitted(ctl, reading) \in Fan \cup {"none"}
      /\ (ctl.program \notin Drives => Emitted(ctl, reading) = "none")
  BY DEF Emitted, Asked, Fan
<1>5. StepIntents(ctl, reading) \in Intents
  BY <1>4 DEF StepIntents, Intents
<1>6. Silence \in Intents
  BY DEF Silence, Intents
<1>7. AfterStep(ctl, reading) \in ControllerState
      /\ AfterStep(ctl, reading).program = ctl.program
  BY <1>1, <1>4 DEF AfterStep, ControllerState
<1>8. /\ sv' \in SupervisorState /\ ctl' \in ControllerState
      /\ ctl'.program = ctl.program
      /\ sv'.emergency = sv.emergency
      /\ sv'.emergency => sv'.fan = "on"
      /\ sv.state = "safe_state" => sv'.state = "safe_state"
      /\ ctl.program \notin Drives => sv'.fan = sv.fan
  <2>1. CASE sv' = Apply(sv, StepIntents(ctl, reading)) /\ ctl' = AfterStep(ctl, reading)
    <3>1. StepIntents(ctl, reading).fan = Emitted(ctl, reading)
      BY DEF StepIntents
    <3>2. QED
      BY <1>1, <1>4, <1>5, <1>7, <2>1, <3>1, ApplyType
  <2>2. CASE /\ sv' = Apply(sv, IF ctl.yielded THEN Silence ELSE Shutdown(ctl.program))
             /\ ctl' = [ctl EXCEPT !.yielded = TRUE]
    <3> DEFINE out == IF ctl.yielded THEN Silence ELSE Shutdown(ctl.program)
    <3>1. out \in Intents /\ (ctl.program \notin Drives => out.fan = "none")
      BY <1>3, <1>6, ShutdownType DEF Silence
    <3>2. ctl' \in ControllerState /\ ctl'.program = ctl.program
      BY <1>1, <2>2 DEF ControllerState
    <3> HIDE DEF out
    <3>3. sv' = Apply(sv, out)
      BY <2>2 DEF out
    <3>4. QED
      BY <1>1, <3>1, <3>2, <3>3, ApplyType
  <2>3. CASE sv' = sv /\ ctl' = ctl
    BY <1>1, <2>3
  <2>4. QED
    BY <2>1, <2>2, <2>3 DEF Control
<1>9. TypeOK'
  BY <1>1, <1>8 DEF TypeOK
<1>10. FlagMatches' /\ EmergencyMeansCooling'
  BY <1>1, <1>2, <1>8 DEF FlagMatches, EmergencyMeansCooling, AtLeast
<1>11. FaultCostsNoCooling'
  BY <1>1 DEF FaultCostsNoCooling
<1>12. NoStuckRelay'
  <2>1. sv'.state = "normal" => sv.state = "normal"
    BY <1>1, <1>8 DEF SupervisorState
  <2>2. Unowned' => Unowned
    BY <1>1, <1>8, <2>1 DEF Unowned, Control, AboutToStep
  <2>3. Unowned' => sv'.fan = sv.fan
    BY <1>8 DEF Unowned
  <2>4. QED
    BY <2>2, <2>3 DEF CoolingInv, NoStuckRelay
<1>13. QED
  BY <1>9, <1>10, <1>11, <1>12 DEF CoolingInv

\* A fault: the safe state and its policy, in the tick of the fault.
LEMMA FaultKeeps ==
  ASSUME CoolingInv, Fault
  PROVE  CoolingInv'
<1> DEFINE s == EnterSafeState(sv)
<1>1. /\ sv \in SupervisorState /\ ctl \in ControllerState
      /\ reading \in Reading \cup {NoReading}
      /\ sv.emergency => sv.fan = "on"
      /\ ctl' = ctl /\ reading' = reading /\ pc' = "faulted"
      /\ sv' = EnforceLocalPolicy(s, ctl.program, reading)
  BY DEF CoolingInv, TypeOK, EmergencyMeansCooling, Fault, OnFault
<1>2. /\ s \in SupervisorState /\ s.state = "safe_state"
      /\ s.emergency = sv.emergency /\ s.fan = sv.fan
  BY <1>1 DEF EnterSafeState, SupervisorState
<1>3. ctl.program \in Program
  BY <1>1 DEF ControllerState
<1> HIDE DEF s
<1>4. /\ sv' \in SupervisorState
      /\ sv'.emergency => sv'.fan = "on"
      /\ AtLeast(reading, EMERGENCY) => sv'.emergency
      /\ reading # NoReading /\ reading < EMERGENCY => ~sv'.emergency
      /\ sv'.state = "safe_state"
      /\ ~(reading # NoReading /\ reading < ENGAGE) => sv'.fan = "on"
  BY <1>1, <1>2, <1>3, PolicyGuarantee
<1>5. TypeOK'
  BY <1>1, <1>4 DEF TypeOK
<1>6. FlagMatches' /\ EmergencyMeansCooling'
  BY <1>1, <1>4 DEF FlagMatches, EmergencyMeansCooling, AtLeast
<1>7. FaultCostsNoCooling' /\ NoStuckRelay'
  BY <1>1, <1>4 DEF FaultCostsNoCooling, NoStuckRelay, Unowned
<1>8. QED
  BY <1>5, <1>6, <1>7 DEF CoolingInv

\* Between ticks: an install, and a restart that keeps the relay where it is.
LEMMA InstallKeeps ==
  ASSUME CoolingInv, NEW q \in Program, Install(q)
  PROVE  CoolingInv'
<1>1. /\ sv \in SupervisorState /\ sv.fan \in Fan /\ pc' = "idle" /\ reading' = reading
      /\ sv' = Started(sv) /\ ctl' = NewController(q, sv.fan)
  BY DEF CoolingInv, TypeOK, Install, SupervisorState
<1>2. /\ sv' \in SupervisorState /\ sv'.emergency = sv.emergency /\ sv'.fan = sv.fan
  BY <1>1, StartedType
<1>3. ctl' \in ControllerState
  BY <1>1, NewControllerType
<1>4. TypeOK'
  BY <1>1, <1>2, <1>3 DEF CoolingInv, TypeOK
<1>5. FlagMatches' /\ EmergencyMeansCooling' /\ FaultCostsNoCooling' /\ NoStuckRelay'
  BY <1>1, <1>2 DEF CoolingInv, FlagMatches, EmergencyMeansCooling, FaultCostsNoCooling,
                    NoStuckRelay, Unowned, AtLeast
<1>6. QED
  BY <1>4, <1>5 DEF CoolingInv

LEMMA RestartKeeps ==
  ASSUME CoolingInv, NEW q \in Program, Restart(q)
  PROVE  CoolingInv'
<1>1. /\ sv \in SupervisorState /\ sv.fan \in Fan /\ pc' = "idle" /\ reading' = reading
      /\ ctl' = NewController(q, sv.fan)
      /\ sv' = [fan |-> sv.fan, state |-> "normal", emergency |-> FALSE, quiet |-> 0,
                moves |-> NoMoves]
  BY DEF CoolingInv, TypeOK, Restart, SupervisorState
<1>2. NoMoves \in [0 .. WINDOW -> Nat] /\ 0 \in 0 .. MISS_LIMIT + 1
  BY SupervisorAssumption DEF NoMoves
<1>3. /\ sv' \in SupervisorState /\ sv'.emergency = FALSE /\ sv'.fan = sv.fan
  BY <1>1, <1>2 DEF SupervisorState
<1>4. ctl' \in ControllerState
  BY <1>1, NewControllerType
<1>5. TypeOK'
  BY <1>1, <1>3, <1>4 DEF CoolingInv, TypeOK
<1>6. FlagMatches' /\ EmergencyMeansCooling' /\ FaultCostsNoCooling' /\ NoStuckRelay'
  BY <1>1, <1>3 DEF CoolingInv, FlagMatches, EmergencyMeansCooling, FaultCostsNoCooling,
                    NoStuckRelay, Unowned, AtLeast
<1>7. QED
  BY <1>5, <1>6 DEF CoolingInv

LEMMA InitCools == Init => CoolingInv
<1> SUFFICES ASSUME Init PROVE CoolingInv
  OBVIOUS
<1>1. NoMoves \in [0 .. WINDOW -> Nat] /\ 0 \in 0 .. MISS_LIMIT + 1
  BY SupervisorAssumption DEF NoMoves
<1>2. /\ sv \in SupervisorState /\ sv.emergency = FALSE /\ sv.fan = "off"
  BY <1>1 DEF Init, SupervisorState, Fan
<1>3. ctl \in ControllerState
  BY NewControllerType DEF Init, Fan
<1>4. reading \in Reading /\ pc = "idle" /\ ~AtLeast(reading, EMERGENCY)
  BY SupervisorAssumption DEF Init, AtLeast
<1>5. QED
  BY <1>2, <1>3, <1>4 DEF CoolingInv, TypeOK, FlagMatches, EmergencyMeansCooling,
                          FaultCostsNoCooling, NoStuckRelay, Unowned

LEMMA NextCools == CoolingInv /\ [Next]_vars => CoolingInv'
<1> SUFFICES ASSUME CoolingInv, [Next]_vars PROVE CoolingInv'
  OBVIOUS
<1>1. CASE UNCHANGED vars
  BY <1>1 DEF vars, CoolingInv, TypeOK, FlagMatches, EmergencyMeansCooling,
              FaultCostsNoCooling, NoStuckRelay, Unowned
<1>2. ASSUME NEW r \in Reading \cup {NoReading}, Sense(r) PROVE CoolingInv'
  BY <1>2, SenseKeeps
<1>3. CASE LeaseExpires
  BY <1>3, HandoverKeeps DEF LeaseExpires
<1>4. CASE Control
  BY <1>4, ControlKeeps
<1>5. CASE Fault
  BY <1>5, FaultKeeps
<1>6. CASE Score
  <2>1. CASE UNCHANGED <<sv, ctl>>
    BY <1>6, <2>1 DEF Score, CoolingInv, TypeOK, FlagMatches, EmergencyMeansCooling,
                      FaultCostsNoCooling, NoStuckRelay, Unowned, AtLeast
  <2>2. CASE (\E q \in Program : Handover(q)) \/ RevertUnavailable
    BY <1>6, <2>2, HandoverKeeps DEF Score
  <2>3. QED
    BY <1>6, <2>1, <2>2 DEF Score
<1>7. ASSUME NEW q \in Program, Install(q) PROVE CoolingInv'
  BY <1>7, InstallKeeps
<1>8. ASSUME NEW q \in Program, Restart(q) PROVE CoolingInv'
  BY <1>8, RestartKeeps
<1>9. QED
  BY <1>1, <1>2, <1>3, <1>4, <1>5, <1>6, <1>7, <1>8 DEF Next, Tick

-----------------------------------------------------------------------------
(* The safe state's hysteresis is a property of steps. *)

\* The policy releases a fan that runs in the safe state on a cool reading only.
LEMMA PolicyHysteresis ==
  ASSUME NEW s \in SupervisorState, NEW p, NEW r \in Reading \cup {NoReading},
         s.emergency => s.fan = "on",
         s.state = "safe_state", s.fan = "on"
  PROVE  EnforceLocalPolicy(s, p, r).fan = "on" \/ AtMost(r, RELEASE)
<1> DEFINE e == EmergencyPolicy(s, r)
           m == Set(e, ThermalTarget(e, r))
<1>1. e \in SupervisorState /\ e.state = "safe_state"
  BY EmergencyPolicyType
<1>2. e.fan = "on"
  <2>1. CASE AtLeast(r, EMERGENCY)
    BY <1>1, <2>1, EmergencyPolicyType
  <2>2. CASE ~AtLeast(r, EMERGENCY)
    BY <2>2 DEF EmergencyPolicy, SupervisorState
  <2>3. QED
    BY <2>1, <2>2
<1>3. ThermalTarget(e, r) = "on" \/ AtMost(r, RELEASE)
  BY <1>2 DEF ThermalTarget
<1>4. m \in SupervisorState /\ m.fan = ThermalTarget(e, r)
  BY <1>1, SetType, ThermalTargetType
<1>5. EnforceLocalPolicy(s, p, r) = CheckHeartbeat(m, p)
  BY <1>1 DEF EnforceLocalPolicy
<1> HIDE DEF m
<1>6. QED
  BY <1>3, <1>4, <1>5, CheckHeartbeatType

Holding ==
  sv.state = "safe_state" /\ sv'.state = "safe_state" /\ sv.fan = "on"
    => sv'.fan = "on" \/ AtMost(reading', RELEASE)

LEMMA NextHolds == CoolingInv /\ [Next]_vars => [Holding]_vars
<1> SUFFICES ASSUME CoolingInv, Next, sv.state = "safe_state",
                    sv'.state = "safe_state", sv.fan = "on"
             PROVE  sv'.fan = "on" \/ AtMost(reading', RELEASE)
  BY DEF Holding
<1>1. /\ sv \in SupervisorState /\ ctl.program \in Program
      /\ sv.emergency => sv.fan = "on"
  BY DEF CoolingInv, TypeOK, ControllerState, EmergencyMeansCooling
<1>2. ASSUME NEW q \in Program, Handover(q) PROVE FALSE
  <2> DEFINE a == Apply(sv, Shutdown(ctl.program))
  <2>1. a \in SupervisorState
    BY <1>1, ApplyType, ShutdownType
  <2>2. Started(a) \in SupervisorState /\ Started(a).state = "normal"
    BY <2>1, StartedType
  <2>3. sv' = ManageUnowned(Started(a), q, reading)
    BY <1>2 DEF Handover, HandedOver
  <2> HIDE DEF a
  <2>4. QED
    BY <2>2, <2>3, ManageUnownedType
<1>3. CASE RevertUnavailable
  BY <1>1, <1>3 DEF RevertUnavailable, EnterSafeState, SupervisorState
<1>4. ASSUME NEW r \in Reading \cup {NoReading}, Sense(r)
      PROVE  sv'.fan = "on" \/ AtMost(reading', RELEASE)
  <2> DEFINE s == [sv EXCEPT !.moves = Older(@)]
  <2>1. WINDOW \in Nat /\ sv.moves \in [0 .. WINDOW -> Nat]
    BY <1>1, SupervisorAssumption DEF SupervisorState
  <2>2. Older(sv.moves) \in [0 .. WINDOW -> Nat]
    BY <2>1 DEF Older
  <2>3. /\ s \in SupervisorState /\ s.state = "safe_state" /\ s.fan = "on"
    BY <1>1, <2>2 DEF SupervisorState
  <2>4. sv' = EnforceLocalPolicy(s, ctl.program, r) /\ reading' = r
    BY <1>4 DEF Sense
  <2> HIDE DEF s
  <2>5. QED
    BY <2>3, <2>4, PolicyHysteresis
<1>5. CASE Control
  BY <1>5 DEF Control
<1>6. ASSUME NEW q \in Program, Install(q) PROVE FALSE
  BY <1>1, <1>6, StartedType DEF Install
<1>7. ASSUME NEW q \in Program, Restart(q) PROVE FALSE
  BY <1>7 DEF Restart
<1>8. QED
  BY <1>2, <1>3, <1>4, <1>5, <1>6, <1>7 DEF Next, Tick, LeaseExpires, Fault, Score

LEMMA CoolingHolds == Spec => []CoolingInv
BY InitCools, NextCools, PTL DEF Spec

-----------------------------------------------------------------------------
(* The theorems. *)

\* Type correctness: the supervisor's memory and the interpreter's stay within
\* their types through every tick, handover, fault and restart.
THEOREM SupervisorTypeCorrect == Spec => []TypeOK
<1>1. CoolingInv => TypeOK
  BY DEF CoolingInv
<1>2. QED
  BY <1>1, CoolingHolds, PTL

\* The emergency policy outranks everything: no intent, fallback, handover,
\* fault, restart or lost reading takes the fan from an emergency.
THEOREM EmergencyOutranksAll == Spec => []EmergencyMeansCooling
<1>1. CoolingInv => EmergencyMeansCooling
  BY DEF CoolingInv
<1>2. QED
  BY <1>1, CoolingHolds, PTL

\* A fault on a device that is hot, or cannot be read, finds the fan on before
\* its tick ends.
THEOREM FaultIsCooled == Spec => []FaultCostsNoCooling
<1>1. CoolingInv => FaultCostsNoCooling
  BY DEF CoolingInv
<1>2. QED
  BY <1>1, CoolingHolds, PTL

\* No program that drives nothing runs beside an energised fan on a device that
\* is not hot.
THEOREM RelayIsReleased == Spec => []NoStuckRelay
<1>1. CoolingInv => NoStuckRelay
  BY DEF CoolingInv
<1>2. QED
  BY <1>1, CoolingHolds, PTL

\* In the safe state the fan is released on a cool reading only.
THEOREM SafeStateHolds == Spec => SafeStateHysteresis
<1>1. Spec => []CoolingInv
  BY CoolingHolds
<1>2. CoolingInv /\ [Next]_vars => [Holding]_vars
  BY NextHolds
<1>3. [Holding]_vars =>
        [sv.state = "safe_state" /\ sv'.state = "safe_state" /\ sv.fan = "on"
           => sv'.fan = "on" \/ AtMost(reading', RELEASE)]_vars
  BY DEF Holding
<1>4. QED
  BY <1>1, <1>2, <1>3, PTL DEF Spec, SafeStateHysteresis
=============================================================================
