--------------------------- MODULE VirtualDevice ---------------------------
(***************************************************************************)
(* The device's firmware lifecycle (edge_node/virtual_device.py): A/B      *)
(* slots, probation, leases, the crash budget and local rollback, over a   *)
(* state file that survives a restart at any point of a tick.              *)
(*                                                                         *)
(* One tick of the code is three steps here, cut where the code saves its  *)
(* state: the local policy and the lease (BeginTick), the control step     *)
(* (StepController, ControllerFaults), the scoring of probation            *)
(* (ScoreProbation), and, when one of them failed a candidate, the revert  *)
(* that follows its own save (RevertAfterFailure).  Restart is enabled     *)
(* between any two of them.                                                *)
(*                                                                         *)
(* What a program does to the world is abstracted to what the lifecycle    *)
(* can tell apart: whether it beats, whether it asks for the safe state,   *)
(* how long its contract lasts, and whether a step raises.                 *)
(***************************************************************************)
EXTENDS Package

CONSTANTS
  Contract,        \* maximum_duration_seconds of a program
  Beating,         \* programs that use emit_heartbeat
  Idling,          \* programs whose rules request enter_safe_idle
  IdleFallback,    \* programs whose fallback requests enter_safe_idle
  LOCAL_HEARTBEAT_MISS_LIMIT

ASSUME DeviceAssumption ==
  /\ Contract \in [Program -> Nat]
  /\ Beating \subseteq Program
  /\ Idling \subseteq Program
  /\ IdleFallback \subseteq Program
  /\ LOCAL_HEARTBEAT_MISS_LIMIT \in Nat

VARIABLES
  mem,      \* the DeviceState the process works on
  disk,     \* the DeviceState in the state file
  sup,      \* the supervisor: "normal", or why it is in its safe state
  quiet,    \* ticks since the last heartbeat
  ctl,      \* the controller being interpreted, and the record it came from
  wall,     \* the wall clock
  pc,       \* where in the tick the device is; "idle" between ticks
  tenure    \* history: what each accepted sequence number was granted and used

vars == <<mem, disk, sup, quiet, ctl, wall, pc, tenure>>

SafeReasons == {"missed_heartbeat", "fault", "requested", "no_known_good"}

Controller == [program : Program \cup {NoProgram}, seq : Nat, age : Nat]

NoController == [program |-> NoProgram, seq |-> 0, age |-> 0]

Tenure == [accepted : Nat, term : Nat, used : Nat]

TypeOK ==
  /\ mem \in DeviceState
  /\ disk \in DeviceState
  /\ sup \in SafeReasons \cup {"normal"}
  /\ quiet \in Nat
  /\ ctl \in Controller
  /\ wall \in Time
  /\ pc \in {"idle", "control", "score", "revert"}
  /\ tenure \in [Seqs -> Tenure]

-----------------------------------------------------------------------------
(* The supervisor, as far as the lifecycle can see it. *)

\* enter_safe_state is idempotent: the first cause is the one kept.
EnterSafe(state, reason) == IF state = "normal" THEN reason ELSE state

QuietAfterTick == IF ctl.program \in Beating
                    THEN Capped(quiet + 1, LOCAL_HEARTBEAT_MISS_LIMIT + 1)
                    ELSE quiet

SupAfterPolicy == IF /\ ctl.program \in Beating
                     /\ QuietAfterTick > LOCAL_HEARTBEAT_MISS_LIMIT
                    THEN EnterSafe(sup, "missed_heartbeat")
                    ELSE sup

-----------------------------------------------------------------------------
\* Mutant of Save: a charge alone is not worth a write.
SaveDecisions(d) ==
  /\ mem' = d
  /\ disk' = IF d # mem /\ [d EXCEPT !.slots = mem.slots] = mem THEN disk ELSE d

\* Mutant of Save: a probation count alone is not worth a write.
SaveExceptCounts(d) ==
  /\ mem' = d
  /\ disk' = IF d # mem /\ [d EXCEPT !.ticks = mem.ticks] = mem THEN disk ELSE d

Save(d) == mem' = d /\ disk' = d

\* Bind the supervisor to the program, leave the safe state, new controller.
Start(record) ==
  /\ ctl' = [program |-> record.artifact, seq |-> record.seq, age |-> 0]
  /\ sup' = "normal"
  /\ quiet' = 0

\* The process comes up on what the state file says.
Boot(d) == IF Running(d).artifact = NoProgram
             THEN ctl' = NoController /\ sup' = "normal" /\ quiet' = 0
             ELSE Start(Running(d))

Aged == [ctl EXCEPT !.age = IF ctl.program = NoProgram
                              THEN 0
                              ELSE Capped(@ + TickSeconds, Contract[ctl.program])]

Init ==
  /\ mem = BlankState
  /\ disk = BlankState
  /\ sup = "normal"
  /\ quiet = 0
  /\ ctl = NoController
  /\ wall = 0
  /\ pc = "idle"
  /\ tenure = [n \in Seqs |-> [accepted |-> 0, term |-> 0, used |-> 0]]

-----------------------------------------------------------------------------
(* Provisioning and installation, between ticks. *)

Provision ==
  /\ pc = "idle"
  /\ Save(Provisioned(mem))
  /\ Start(FactoryRecord)
  /\ UNCHANGED <<wall, pc, tenure>>

\* A package that does not verify is refused before anything is touched.
Install(pkg) ==
  /\ pc = "idle"
  /\ Verified(pkg, mem)
  /\ Save(Staged(mem, pkg, wall))
  /\ Start(RecordOf(pkg, wall))
  /\ tenure' = [tenure EXCEPT ![pkg.seq] =
                  [accepted |-> @.accepted + 1, term |-> pkg.lease, used |-> @.used]]
  /\ UNCHANGED <<wall, pc>>

-----------------------------------------------------------------------------
(* Local recovery. *)

\* Mutant of RevertTo: the revert is not saved.
RevertToUnsaved(d) ==
  /\ HasKnownGood(d)
  /\ mem' = Reverted(d)
  /\ Start(Reverted(d).slots[d.lkg])
  /\ UNCHANGED disk

\* Mutant of RevertTo: the slots change, the interpreter does not.
RevertToUnstarted(d) ==
  /\ HasKnownGood(d)
  /\ Save(Reverted(d))
  /\ sup' = "normal"
  /\ quiet' = 0
  /\ UNCHANGED ctl

\* Last-known-good takes over; the outgoing fallback has no say after this,
\* because starting the target leaves whatever safe state it asked for.
RevertTo(d) ==
  /\ HasKnownGood(d)
  /\ Save(Reverted(d))
  /\ Start(Reverted(d).slots[d.lkg])

\* Nothing to fall back to: the safe state is all that is left, and it is
\* entered without a save.
RevertUnavailable(d, state) ==
  /\ ~HasKnownGood(d)
  /\ mem' = d
  /\ sup' = EnterSafe(state, "no_known_good")
  /\ UNCHANGED disk

-----------------------------------------------------------------------------
(* The tick. *)

Charged(d) == [d EXCEPT !.slots[RunningSlot(d)].lease = Advance(@)]

BeginTick ==
  /\ pc = "idle"
  /\ pc' = "control"
  /\ \/ /\ ~Leased(Running(mem).lease)
        /\ sup' = SupAfterPolicy
        /\ quiet' = QuietAfterTick
        /\ ctl' = Aged
        /\ UNCHANGED <<mem, disk>>
     \/ /\ Leased(Running(mem).lease)
        /\ ~Expired(Running(Charged(mem)).lease, wall)
        /\ Save(Charged(mem))
        /\ sup' = SupAfterPolicy
        /\ quiet' = QuietAfterTick
        /\ ctl' = Aged
     \/ /\ Leased(Running(mem).lease)
        /\ Expired(Running(Charged(mem)).lease, wall)
        /\ \/ RevertTo(Charged(mem))
           \/ /\ RevertUnavailable(Charged(mem), SupAfterPolicy)
              /\ quiet' = QuietAfterTick
              /\ ctl' = Aged
  /\ UNCHANGED <<wall, tenure>>

InControl == ctl.program # NoProgram /\ sup = "normal"

ContractOver == ctl.age >= Contract[ctl.program]

\* The supervisor considers what the program asked for in this step.
SupAfterIntents ==
  IF ctl.program \in (IF ContractOver THEN IdleFallback ELSE Idling)
    THEN "requested"
    ELSE "normal"

Used(n) == [tenure EXCEPT ![n].used = Capped(@ + TickSeconds, MAX_LEASE_SECONDS)]

\* A controller whose contract is over yields: its fallback, then silence.
StepController ==
  /\ pc = "control"
  /\ pc' = "score"
  /\ \/ /\ InControl
        /\ sup' = SupAfterIntents
        /\ quiet' = IF ctl.program \in Beating \ Idling /\ ~ContractOver
                      THEN 0
                      ELSE quiet
        /\ tenure' = IF ctl.seq \in Seqs THEN Used(ctl.seq) ELSE tenure
     \/ /\ ~InControl
        /\ UNCHANGED <<sup, quiet, tenure>>
  /\ UNCHANGED <<mem, disk, ctl, wall>>

\* The step raises.  A candidate fails at once, an established artifact once
\* its crash budget is spent; either way the revert follows a save.
ControllerFaults ==
  /\ pc = "control"
  /\ InControl
  /\ sup' = "fault"
  /\ quiet' = QuietAfterTick      \* the local policy runs a second time
  /\ Save(Faulted(mem))
  /\ pc' = IF \/ mem.status = "probation"
              \/ Faulted(mem).failures >= LOCAL_FAILURE_LIMIT
             THEN "revert"
             ELSE "idle"
  /\ UNCHANGED <<ctl, wall, tenure>>

ScoreProbation ==
  /\ pc = "score"
  /\ \/ /\ mem.status # "probation"
        /\ pc' = "idle"
        /\ UNCHANGED <<mem, disk>>
     \/ /\ mem.status = "probation"
        /\ sup # "normal"
        /\ Save([mem EXCEPT !.status = "failed"])
        /\ pc' = "revert"
     \/ /\ mem.status = "probation"
        /\ sup = "normal"
        /\ mem.ticks > 1
        /\ Save([mem EXCEPT !.ticks = @ - 1])
        /\ pc' = "idle"
     \/ /\ mem.status = "probation"
        /\ sup = "normal"
        /\ mem.ticks <= 1
        /\ Save(Promoted(mem))
        /\ pc' = "idle"
  /\ UNCHANGED <<sup, quiet, ctl, wall, tenure>>

RevertAfterFailure ==
  /\ pc = "revert"
  /\ pc' = "idle"
  /\ \/ RevertTo(mem)
     \/ RevertUnavailable(mem, sup) /\ UNCHANGED <<quiet, ctl>>
  /\ UNCHANGED <<wall, tenure>>

Tick == BeginTick \/ StepController \/ ControllerFaults \/ ScoreProbation
          \/ RevertAfterFailure

-----------------------------------------------------------------------------
(* The environment. *)

\* The process dies and comes back, at any point of a tick: only the state
\* file survives.
Restart ==
  /\ mem' = disk
  /\ Boot(disk)
  /\ pc' = "idle"
  /\ UNCHANGED <<disk, wall, tenure>>

\* The wall clock moves, powered or not; it may be set back.
SetClock ==
  /\ wall' \in Time \ {wall}
  /\ UNCHANGED <<mem, disk, sup, quiet, ctl, pc, tenure>>

InstallAny == \E pkg \in FirmwarePackage : Install(pkg)

\* A package offered while no promoted morph is running.
InstallOnFloor == mem.active = mem.lkg /\ InstallAny

Environment == Provision \/ Restart \/ SetClock

Next == Tick \/ Environment \/ InstallAny

NextOneMorph == Tick \/ Environment \/ InstallOnFloor

Spec == Init /\ [][Next]_vars

SpecOneMorph == Init /\ [][NextOneMorph]_vars

\* tick() is called in a loop for as long as the process is up.
FairSpec == Spec /\ WF_vars(Tick)

FairSpecOneMorph == SpecOneMorph /\ WF_vars(Tick)

-----------------------------------------------------------------------------
(* Properties. *)

\* No sequence number is ever accepted twice, across failed probations and
\* restarts at any point (test_the_replay_watermark_survives_a_restart,
\* test_a_failed_candidate_still_moves_the_watermark).
NeverAcceptedTwice == \A n \in Seqs : tenure[n].accepted <= 1

\* A candidate is tried in the slot the device would not fall back to, so the
\* active artifact is intact for as long as the trial lasts, whatever was
\* installed before it (DeviceState.running_slot).
TrialLeavesActiveIntact ==
  [][mem'.status = "probation" =>
       /\ mem'.candidate # mem'.active
       /\ mem'.active = mem.active
       /\ mem'.slots[mem'.active].artifact = mem.slots[mem.active].artifact]_vars

\* Whatever has control of the device is what its state says is running: the
\* freshness check of the next package, the lease that is charged and the
\* slot that a fault condemns are those of the program being stepped.
ControllerIsRunningArtifact ==
  sup = "normal" => /\ ctl.program = Running(mem).artifact
                    /\ ctl.seq = Running(mem).seq

\* What two device states agree on when a restart may turn one into the
\* other: everything but seconds charged to a lease.
SameButCharge(d, e) ==
  /\ \A s \in Slot : /\ d.slots[s].artifact = e.slots[s].artifact
                     /\ d.slots[s].seq = e.slots[s].seq
                     /\ d.slots[s].lease.duration = e.slots[s].lease.duration
  /\ d.active = e.active
  /\ d.lkg = e.lkg
  /\ d.candidate = e.candidate
  /\ d.status = e.status
  /\ d.ticks = e.ticks
  /\ d.failures = e.failures
  /\ d.watermark = e.watermark

\* A restart, wherever in a tick it strikes, forgets nothing the device had
\* decided: the file is behind by at most seconds charged to a lease, and
\* only while nothing is left to fall back to.
NothingForgotten ==
  /\ SameButCharge(mem, disk)
  /\ HasKnownGood(mem) => mem = disk

\* A device that has an artifact to fall back to never loses it again: no
\* promotion, reversion or restart leaves it with none ("there is always a real
\* artifact to fall back to", virtual_device.py:354).
FallbackNeverLost ==
  [][HasKnownGood(mem) => HasKnownGood(mem')]_vars

\* With packages offered only between morphs, the floor every rollback lands
\* on is the factory image, with no lease, in memory and on disk
\* (VirtualDevice.provision).
FloorSurvives ==
  \A d \in {mem, disk} :
    HasKnownGood(d) => LastKnownGood(d) = FactoryRecord

\* With packages offered only between morphs, a leased artifact gets less
\* than its lease of control, however many restarts, faults and clock changes
\* fall into it (test_a_restart_cannot_be_used_to_renew_a_lease).
LeaseBoundsControl ==
  \A n \in Seqs : tenure[n].term > 0 => tenure[n].used < tenure[n].term

\* The device as a landlord: who has control is what the controller was
\* started from, and the highest number taken up is the replay watermark.
Landlord == INSTANCE Tenancy WITH
  Tenants <- Seqs,
  Terms   <- LeaseOffers,
  Unit    <- TickSeconds,
  Ceiling <- MAX_LEASE_SECONDS,
  holder  <- ctl.seq,
  highest <- mem.watermark,
  term    <- [n \in Seqs |-> tenure[n].term],
  used    <- [n \in Seqs |-> tenure[n].used]

\* With packages offered only between morphs, the device implements Tenancy:
\* in particular a morph that was reverted never comes back, not even through
\* a restart between two saves of the tick that reverted it.
ImplementsTenancy == Landlord!Spec

\* With packages offered only between morphs, a leased morph does not keep a
\* provisioned device: as long as the device ticks, it loses control for good,
\* whatever faults, restarts and clock changes happen meanwhile
\* (README: "Temporary behavior expires locally").
LeasedMorphLeaves ==
  \A n \in Seqs :
    (ctl.seq = n /\ tenure[n].term > 0 /\ HasKnownGood(mem)) ~> ctl.seq # n

-----------------------------------------------------------------------------
(* What the code's comments and documents say, and the code does not do.   *)

\* virtual_device.py:353-355: the outgoing slot becomes last-known-good "and
\* is not overwritten, so there is always a real artifact to fall back to".
KnownGoodNotOverwritten ==
  [][HasKnownGood(mem) /\ mem'.lkg = mem.lkg
       => LastKnownGood(mem').artifact = LastKnownGood(mem).artifact]_vars

\* config.py:235-236: LOCAL_FAILURE_LIMIT is the "Local crash budget before
\* the device reverts to last-known-good on its own": a promoted morph that
\* crashes either gets control again or is rolled back.
CrashedMorphIsResolved ==
  (sup = "fault" /\ mem.active # mem.lkg /\ HasKnownGood(mem)) ~> sup = "normal"
=============================================================================
