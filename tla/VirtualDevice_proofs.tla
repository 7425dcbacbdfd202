------------------------ MODULE VirtualDevice_proofs ------------------------
(***************************************************************************)
(* What holds of the device for every set of programs, every lease, every  *)
(* probation and every crash budget.                                       *)
(***************************************************************************)
EXTENDS VirtualDevice, TLAPS

(***************************************************************************)
(* Every operator that turns one device state into another returns a       *)
(* device state.                                                           *)
(***************************************************************************)
LEMMA CappedType ==
  ASSUME NEW n \in Nat, NEW cap \in Nat
  PROVE  /\ Capped(n, cap) \in 0 .. cap
         /\ Capped(n, cap) <= n
  BY DEF Capped

LEMMA RunningType ==
  ASSUME NEW d \in DeviceState
  PROVE  /\ RunningSlot(d) \in Slot
         /\ InactiveSlot(d) \in Slot
         /\ InactiveSlot(d) # d.active
         /\ Running(d) \in SlotRecord
         /\ LastKnownGood(d) \in SlotRecord
  BY DEF DeviceState, RunningSlot, InactiveSlot, Running, LastKnownGood, Slot

LEMMA NoLeaseType == NoLease \in Lease
  BY SlotsAssumption DEF NoLease, Lease, Time

LEMMA FactoryType == FactoryRecord \in SlotRecord
  BY SlotsAssumption, NoLeaseType DEF FactoryRecord, SlotRecord

LEMMA BlankType == BlankState \in DeviceState
  BY SlotsAssumption, NoLeaseType
     DEF BlankState, DeviceState, EmptySlot, SlotRecord, Slot

LEMMA Bounds ==
  /\ "A" \in Slot /\ "none" \in Slot \cup {"none"}
  /\ 0 \in 0 .. PROBATION_HEALTHY_TICKS
  /\ PROBATION_HEALTHY_TICKS \in 0 .. PROBATION_HEALTHY_TICKS
  /\ 0 \in 0 .. LOCAL_FAILURE_LIMIT
  BY SlotsAssumption DEF Slot

LEMMA ProvisionedType ==
  ASSUME NEW d \in DeviceState
  PROVE  Provisioned(d) \in DeviceState
<1>1. [d.slots EXCEPT !["A"] = FactoryRecord] \in [Slot -> SlotRecord]
  BY FactoryType DEF DeviceState
<1> QED
  BY <1>1, Bounds DEF Provisioned, DeviceState

LEMMA RecordType ==
  ASSUME NEW pkg \in FirmwarePackage, NEW now \in Time
  PROVE  RecordOf(pkg, now) \in SlotRecord
<1>1. pkg.artifact \in Program /\ pkg.seq \in Nat
  BY SlotsAssumption DEF FirmwarePackage, Seqs
<1>2. pkg.lease \in Nat
  BY LeaseOffersAssumption DEF FirmwarePackage
<1>3. NewLease(pkg.lease, now) \in Lease
  BY <1>2 DEF NewLease, Lease
<1> QED
  BY <1>1, <1>3, NoLeaseType DEF RecordOf, SlotRecord

LEMMA StagedType ==
  ASSUME NEW d \in DeviceState, NEW pkg \in FirmwarePackage, NEW now \in Time
  PROVE  Staged(d, pkg, now) \in DeviceState
<1>1. RecordOf(pkg, now) \in SlotRecord /\ InactiveSlot(d) \in Slot
  BY RecordType, RunningType
<1>2. pkg.seq \in 0 .. MaxSeq
  BY SlotsAssumption DEF FirmwarePackage, Seqs
<1>3. [d.slots EXCEPT ![InactiveSlot(d)] = RecordOf(pkg, now)] \in [Slot -> SlotRecord]
  BY <1>1 DEF DeviceState
<1> QED
  BY <1>1, <1>2, <1>3, Bounds DEF Staged, DeviceState

LEMMA ChargedType ==
  ASSUME NEW d \in DeviceState
  PROVE  Charged(d) \in DeviceState
<1>1. ASSUME NEW l \in Lease
      PROVE  Advance(l) \in Lease
  BY CappedType, SlotsAssumption DEF Advance, Lease
<1>2. Advance(d.slots[RunningSlot(d)].lease) \in Lease
  BY <1>1, RunningType DEF Running, SlotRecord
<1> QED
  BY <1>2, RunningType DEF Charged, DeviceState, SlotRecord

LEMMA RevertedType ==
  ASSUME NEW d \in DeviceState
  PROVE  Reverted(d) \in DeviceState
<1>1. [d.slots EXCEPT ![RunningSlot(d)].lease = NoLease] \in [Slot -> SlotRecord]
  BY RunningType, NoLeaseType DEF DeviceState, SlotRecord
<1> QED
  BY <1>1 DEF Reverted, DeviceState

LEMMA FaultedType ==
  ASSUME NEW d \in DeviceState
  PROVE  Faulted(d) \in DeviceState
<1>1. d.failures + 1 \in Nat
  BY SlotsAssumption DEF DeviceState
<1>2. Capped(d.failures + 1, LOCAL_FAILURE_LIMIT) \in 0 .. LOCAL_FAILURE_LIMIT
  BY <1>1, CappedType, SlotsAssumption
<1> QED
  BY <1>2 DEF Faulted, DeviceState

LEMMA PromotedType ==
  ASSUME NEW d \in DeviceState
  PROVE  Promoted(d) \in DeviceState
<1>1. (IF d.candidate = "none" THEN d.active ELSE d.candidate) \in Slot
  BY DEF DeviceState
<1> QED
  BY <1>1, Bounds DEF Promoted, DeviceState

(***************************************************************************)
(* The controller, the supervisor and the history stay within their types. *)
(***************************************************************************)
LEMMA StartType ==
  ASSUME NEW record \in SlotRecord, Start(record)
  PROVE  /\ ctl' \in Controller
         /\ sup' \in SafeReasons \cup {"normal"}
         /\ quiet' \in Nat
  BY DEF Start, SlotRecord, Controller

LEMMA SupervisorType ==
  ASSUME TypeOK
  PROVE  /\ QuietAfterTick \in Nat
         /\ SupAfterPolicy \in SafeReasons \cup {"normal"}
         /\ Aged \in Controller
<1>1. QuietAfterTick \in Nat
  <2>1. Capped(quiet + 1, LOCAL_HEARTBEAT_MISS_LIMIT + 1) \in Nat
    BY DeviceAssumption DEF Capped, TypeOK
  <2> QED
    BY <2>1 DEF QuietAfterTick, TypeOK
<1>2. SupAfterPolicy \in SafeReasons \cup {"normal"}
  BY DEF SupAfterPolicy, EnterSafe, SafeReasons, TypeOK
<1>3. Aged \in Controller
  <2>1. CASE ctl.program = NoProgram
    BY <2>1 DEF Aged, TypeOK, Controller
  <2>2. CASE ctl.program # NoProgram
    <3>1. Contract[ctl.program] \in Nat /\ ctl.age + TickSeconds \in Nat
      BY <2>2, DeviceAssumption, SlotsAssumption DEF TypeOK, Controller
    <3>2. Capped(ctl.age + TickSeconds, Contract[ctl.program]) \in Nat
      BY <3>1 DEF Capped
    <3> QED
      BY <2>2, <3>2 DEF Aged, TypeOK, Controller
  <2> QED
    BY <2>1, <2>2
<1> QED
  BY <1>1, <1>2, <1>3

LEMMA RevertType ==
  ASSUME NEW d \in DeviceState, RevertTo(d)
  PROVE  /\ mem' \in DeviceState
         /\ disk' \in DeviceState
         /\ ctl' \in Controller
         /\ sup' \in SafeReasons \cup {"normal"}
         /\ quiet' \in Nat
<1>1. Reverted(d) \in DeviceState
  BY RevertedType
<1>2. Reverted(d).slots[d.lkg] \in SlotRecord
  BY <1>1 DEF DeviceState
<1> QED
  BY <1>1, <1>2, StartType DEF RevertTo, Save

LEMMA UsedType ==
  ASSUME TypeOK, NEW n \in Seqs
  PROVE  Used(n) \in [Seqs -> Tenure]
<1>1. tenure[n].used + TickSeconds \in Nat
  BY SlotsAssumption DEF TypeOK, Tenure
<1>2. Capped(tenure[n].used + TickSeconds, MAX_LEASE_SECONDS) \in Nat
  BY <1>1, SlotsAssumption DEF Capped
<1> QED
  BY <1>2 DEF Used, TypeOK, Tenure

LEMMA TypeInit == Init => TypeOK
  BY BlankType, SlotsAssumption
     DEF Init, TypeOK, NoController, Controller, Time, Tenure

LEMMA TypeStep == TypeOK /\ [Next]_vars => TypeOK'
<1> SUFFICES ASSUME TypeOK, [Next]_vars
             PROVE  TypeOK'
  OBVIOUS
<1>1. CASE Provision
  <2>1. ctl' \in Controller /\ sup' \in SafeReasons \cup {"normal"} /\ quiet' \in Nat
    BY <1>1, FactoryType, StartType DEF Provision
  <2> QED
    BY <1>1, <2>1, ProvisionedType DEF Provision, Save, TypeOK
<1>2. ASSUME NEW pkg \in FirmwarePackage, Install(pkg)
      PROVE  TypeOK'
  <2>1. ctl' \in Controller /\ sup' \in SafeReasons \cup {"normal"} /\ quiet' \in Nat
    BY <1>2, RecordType, StartType DEF Install, TypeOK
  <2>2. mem' \in DeviceState /\ disk' \in DeviceState
    BY <1>2, StagedType DEF Install, Save, TypeOK
  <2>3. tenure' \in [Seqs -> Tenure]
    <3>1. pkg.seq \in Seqs /\ pkg.lease \in Nat
      BY LeaseOffersAssumption DEF FirmwarePackage
    <3> QED
      BY <1>2, <3>1 DEF Install, TypeOK, Tenure
  <2> QED
    BY <1>2, <2>1, <2>2, <2>3 DEF Install, TypeOK
<1>3. CASE BeginTick
  <2>1. Charged(mem) \in DeviceState
    BY ChargedType DEF TypeOK
  <2>2. /\ mem' \in DeviceState
        /\ disk' \in DeviceState
        /\ ctl' \in Controller
        /\ sup' \in SafeReasons \cup {"normal"}
        /\ quiet' \in Nat
    <3>1. CASE /\ UNCHANGED <<mem, disk>>
               /\ sup' = SupAfterPolicy
               /\ quiet' = QuietAfterTick
               /\ ctl' = Aged
      BY <3>1, SupervisorType DEF TypeOK
    <3>2. CASE /\ Save(Charged(mem))
               /\ sup' = SupAfterPolicy
               /\ quiet' = QuietAfterTick
               /\ ctl' = Aged
      BY <3>2, <2>1, SupervisorType DEF Save
    <3>3. CASE RevertTo(Charged(mem))
      BY <3>3, <2>1, RevertType
    <3>4. CASE /\ RevertUnavailable(Charged(mem), SupAfterPolicy)
               /\ quiet' = QuietAfterTick
               /\ ctl' = Aged
      BY <3>4, <2>1, SupervisorType
         DEF RevertUnavailable, EnterSafe, SafeReasons, TypeOK
    <3> QED
      BY <1>3, <3>1, <3>2, <3>3, <3>4 DEF BeginTick
  <2> QED
    BY <1>3, <2>2 DEF BeginTick, TypeOK
<1>4. CASE StepController
  <2>1. sup' \in SafeReasons \cup {"normal"} /\ quiet' \in Nat
    BY <1>4 DEF StepController, SupAfterIntents, SafeReasons, TypeOK
  <2>2. tenure' \in [Seqs -> Tenure]
    BY <1>4, UsedType DEF StepController, TypeOK
  <2> QED
    BY <1>4, <2>1, <2>2 DEF StepController, TypeOK
<1>5. CASE ControllerFaults
  BY <1>5, FaultedType, SupervisorType
     DEF ControllerFaults, Save, SafeReasons, TypeOK
<1>6. CASE ScoreProbation
  <2>1. mem' \in DeviceState /\ disk' \in DeviceState
    <3>1. [mem EXCEPT !.status = "failed"] \in DeviceState
      BY DEF TypeOK, DeviceState
    <3>2. ASSUME mem.ticks > 1
          PROVE  [mem EXCEPT !.ticks = @ - 1] \in DeviceState
      <4>1. mem.ticks - 1 \in 0 .. PROBATION_HEALTHY_TICKS
        BY <3>2, SlotsAssumption DEF TypeOK, DeviceState
      <4> QED
        BY <4>1 DEF TypeOK, DeviceState
    <3> QED
      BY <1>6, <3>1, <3>2, PromotedType DEF ScoreProbation, Save, TypeOK
  <2> QED
    BY <1>6, <2>1 DEF ScoreProbation, TypeOK
<1>7. CASE RevertAfterFailure
  <2>1. CASE RevertTo(mem)
    BY <1>7, <2>1, RevertType DEF RevertAfterFailure, TypeOK
  <2>2. CASE RevertUnavailable(mem, sup) /\ UNCHANGED <<quiet, ctl>>
    BY <1>7, <2>2
       DEF RevertAfterFailure, RevertUnavailable, EnterSafe, SafeReasons, TypeOK
  <2> QED
    BY <1>7, <2>1, <2>2 DEF RevertAfterFailure
<1>8. CASE Restart
  <2>1. Running(disk) \in SlotRecord
    BY RunningType DEF TypeOK
  <2>2. ctl' \in Controller /\ sup' \in SafeReasons \cup {"normal"} /\ quiet' \in Nat
    BY <1>8, <2>1, StartType DEF Restart, Boot, NoController, Controller
  <2> QED
    BY <1>8, <2>2 DEF Restart, TypeOK
<1>9. CASE SetClock
  BY <1>9 DEF SetClock, TypeOK
<1>10. CASE UNCHANGED vars
  BY <1>10 DEF vars, TypeOK
<1> QED
  BY <1>1, <1>2, <1>3, <1>4, <1>5, <1>6, <1>7, <1>8, <1>9, <1>10
     DEF Next, Tick, Environment, InstallAny

\* The device's document, its controller and its supervisor keep their types,
\* crash or no crash: what a restart reads back is always a device state.
THEOREM TypeCorrect == Spec => []TypeOK
<1> QED
  BY TypeInit, TypeStep, PTL DEF Spec

-----------------------------------------------------------------------------
(***************************************************************************)
(* No sequence number is accepted twice.  The watermark moves in the same  *)
(* save as the slot, so memory and file never disagree on it, and every    *)
(* number accepted so far is at or below it.                               *)
(***************************************************************************)
WatermarkInv ==
  /\ mem.watermark = disk.watermark
  /\ \A n \in Seqs : /\ tenure[n].accepted <= 1
                     /\ n > mem.watermark => tenure[n].accepted = 0

\* Only an installation moves the watermark.
LEMMA WatermarkKept ==
  ASSUME TypeOK
  PROVE  /\ Provisioned(mem).watermark = mem.watermark
         /\ Charged(mem).watermark = mem.watermark
         /\ Reverted(mem).watermark = mem.watermark
         /\ Reverted(Charged(mem)).watermark = mem.watermark
         /\ Faulted(mem).watermark = mem.watermark
         /\ Promoted(mem).watermark = mem.watermark
  BY DEF TypeOK, DeviceState, Provisioned, Charged, Reverted, Faulted, Promoted

LEMMA WatermarkStep == TypeOK /\ WatermarkInv /\ [Next]_vars => WatermarkInv'
<1> SUFFICES ASSUME TypeOK, WatermarkInv, [Next]_vars
             PROVE  WatermarkInv'
  OBVIOUS
<1>1. ASSUME mem'.watermark = mem.watermark,
             disk'.watermark = disk.watermark \/ disk' = mem',
             \A n \in Seqs : tenure'[n].accepted = tenure[n].accepted
      PROVE  WatermarkInv'
  BY <1>1 DEF WatermarkInv
<1>2. ASSUME NEW pkg \in FirmwarePackage, Install(pkg)
      PROVE  WatermarkInv'
  <2>1. pkg.seq \in Seqs /\ pkg.seq > mem.watermark
    BY <1>2 DEF Install, Verified, FirmwarePackage
  <2>2. mem'.watermark = pkg.seq /\ disk'.watermark = pkg.seq
    <3>1. Staged(mem, pkg, wall).watermark = pkg.seq
      BY DEF Staged, TypeOK, DeviceState
    <3> QED
      BY <1>2, <3>1 DEF Install, Save
  <2>3. tenure'[pkg.seq].accepted = 1
    BY <1>2, <2>1 DEF Install, WatermarkInv, TypeOK, Tenure
  <2>4. \A n \in Seqs : n # pkg.seq => tenure'[n].accepted = tenure[n].accepted
    BY <1>2 DEF Install, TypeOK
  <2>5. mem.watermark \in Nat /\ \A n \in Seqs : n \in Nat
    BY SlotsAssumption DEF TypeOK, DeviceState, Seqs
  <2> QED
    BY <2>1, <2>2, <2>3, <2>4, <2>5 DEF WatermarkInv
<1>3. CASE Provision
  BY <1>1, <1>3, WatermarkKept DEF Provision, Save
<1>4. CASE BeginTick
  BY <1>1, <1>4, WatermarkKept DEF BeginTick, Save, RevertTo, RevertUnavailable
<1>5. CASE StepController
  <2>1. \A n \in Seqs : Used(ctl.seq)[n].accepted = tenure[n].accepted
    BY DEF Used, TypeOK, Tenure
  <2> QED
    BY <1>1, <1>5, <2>1 DEF StepController
<1>6. CASE ControllerFaults
  BY <1>1, <1>6, WatermarkKept DEF ControllerFaults, Save
<1>7. CASE ScoreProbation
  BY <1>1, <1>7, WatermarkKept DEF ScoreProbation, Save, TypeOK, DeviceState
<1>8. CASE RevertAfterFailure
  BY <1>1, <1>8, WatermarkKept
     DEF RevertAfterFailure, RevertTo, RevertUnavailable, Save
<1>9. CASE Restart
  BY <1>9 DEF Restart, WatermarkInv
<1>10. CASE SetClock
  BY <1>1, <1>10 DEF SetClock
<1>11. CASE UNCHANGED vars
  BY <1>1, <1>11 DEF vars
<1> QED
  BY <1>2, <1>3, <1>4, <1>5, <1>6, <1>7, <1>8, <1>9, <1>10, <1>11
     DEF Next, Tick, Environment, InstallAny

\* A sequence number is accepted at most once in the life of the device,
\* whatever fails probation, crashes or restarts in between.
THEOREM ReplayRefused == Spec => []NeverAcceptedTwice
<1>1. Init => WatermarkInv
  BY DEF Init, BlankState, WatermarkInv
<1>2. WatermarkInv => NeverAcceptedTwice
  BY DEF WatermarkInv, NeverAcceptedTwice
<1> QED
  BY <1>1, <1>2, TypeCorrect, WatermarkStep, PTL DEF Spec

-----------------------------------------------------------------------------
(***************************************************************************)
(* What is stepped is what the state says is running.  The invariant is    *)
(* inductive once it says that an empty slot carries no number: a restart  *)
(* onto an empty slot starts no controller.                                *)
(***************************************************************************)
Matches(d) == /\ ctl.program = Running(d).artifact
              /\ ctl.seq = Running(d).seq

EmptyMeansBlank(d) ==
  \A s \in Slot : d.slots[s].artifact = NoProgram => d.slots[s].seq = 0

ControlInv ==
  /\ sup = "normal" => Matches(mem)
  /\ EmptyMeansBlank(mem)
  /\ EmptyMeansBlank(disk)

LEMMA ChargedKeepsProgram ==
  ASSUME NEW d \in DeviceState
  PROVE  /\ RunningSlot(Charged(d)) = RunningSlot(d)
         /\ Running(Charged(d)).artifact = Running(d).artifact
         /\ Running(Charged(d)).seq = Running(d).seq
         /\ EmptyMeansBlank(d) => EmptyMeansBlank(Charged(d))
  BY RunningType
     DEF Charged, Running, RunningSlot, EmptyMeansBlank, DeviceState, SlotRecord

LEMMA RevertedRunsKnownGood ==
  ASSUME NEW d \in DeviceState
  PROVE  /\ Running(Reverted(d)) = Reverted(d).slots[d.lkg]
         /\ EmptyMeansBlank(d) => EmptyMeansBlank(Reverted(d))
  BY RunningType
     DEF Reverted, Running, RunningSlot, EmptyMeansBlank, DeviceState, SlotRecord

LEMMA RevertMatches ==
  ASSUME NEW d \in DeviceState, EmptyMeansBlank(d), RevertTo(d)
  PROVE  ControlInv'
  BY RevertedRunsKnownGood
     DEF RevertTo, Save, Start, ControlInv, Matches, EmptyMeansBlank, Running, RunningSlot

LEMMA PromotedKeepsRunning ==
  ASSUME NEW d \in DeviceState, d.status = "probation"
  PROVE  Running(Promoted(d)) = Running(d) /\ Promoted(d).slots = d.slots
  BY DEF Promoted, Running, RunningSlot, DeviceState

LEMMA ControlStep == TypeOK /\ ControlInv /\ [Next]_vars => ControlInv'
<1> SUFFICES ASSUME TypeOK, ControlInv, [Next]_vars
             PROVE  ControlInv'
  OBVIOUS
<1> USE DEF ControlInv, Matches
<1>1. CASE Provision
  <2>1. Running(Provisioned(mem)) = FactoryRecord
    BY DEF Provisioned, Running, RunningSlot, TypeOK, DeviceState, Slot
  <2>2. EmptyMeansBlank(Provisioned(mem))
    BY DEF EmptyMeansBlank, Provisioned, FactoryRecord, TypeOK, DeviceState, Slot
  <2> QED
    BY <1>1, <2>1, <2>2
       DEF Provision, Save, Start, EmptyMeansBlank, Running, RunningSlot
<1>2. ASSUME NEW pkg \in FirmwarePackage, Install(pkg)
      PROVE  ControlInv'
  <2>1. Running(Staged(mem, pkg, wall)) = RecordOf(pkg, wall)
    BY RunningType
       DEF Staged, Running, RunningSlot, InactiveSlot, TypeOK, DeviceState, Slot
  <2>2. EmptyMeansBlank(Staged(mem, pkg, wall))
    <3>1. RecordOf(pkg, wall).artifact # NoProgram
      BY SlotsAssumption DEF RecordOf, FirmwarePackage
    <3> QED
      BY <3>1, RunningType DEF EmptyMeansBlank, Staged, TypeOK, DeviceState
  <2> QED
    BY <1>2, <2>1, <2>2
       DEF Install, Save, Start, EmptyMeansBlank, Running, RunningSlot
<1>3. CASE BeginTick
  <2>1. SupAfterPolicy = "normal" => sup = "normal"
    BY DEF SupAfterPolicy, EnterSafe
  <2>2. Aged.program = ctl.program /\ Aged.seq = ctl.seq
    BY DEF Aged, TypeOK, Controller
  <2>3. Charged(mem) \in DeviceState /\ EmptyMeansBlank(Charged(mem))
    BY ChargedType, ChargedKeepsProgram DEF TypeOK
  <2>4. CASE UNCHANGED <<mem, disk>> /\ sup' = SupAfterPolicy /\ ctl' = Aged
    BY <2>1, <2>2, <2>4 DEF EmptyMeansBlank, Running, RunningSlot
  <2>5. CASE Save(Charged(mem)) /\ sup' = SupAfterPolicy /\ ctl' = Aged
    BY <2>1, <2>2, <2>3, <2>5, ChargedKeepsProgram
       DEF Save, EmptyMeansBlank, Running, RunningSlot, TypeOK
  <2>6. CASE RevertTo(Charged(mem))
    BY <2>3, <2>6, RevertMatches
  <2>7. CASE RevertUnavailable(Charged(mem), SupAfterPolicy)
    BY <2>3, <2>7 DEF RevertUnavailable, EnterSafe, EmptyMeansBlank
  <2> QED
    BY <1>3, <2>4, <2>5, <2>6, <2>7 DEF BeginTick
<1>4. CASE StepController
  BY <1>4 DEF StepController, InControl, EmptyMeansBlank, Running, RunningSlot
<1>5. CASE ControllerFaults
  <2>1. Faulted(mem).slots = mem.slots
    BY DEF Faulted, TypeOK, DeviceState
  <2> QED
    BY <1>5, <2>1 DEF ControllerFaults, Save, EmptyMeansBlank
<1>6. CASE ScoreProbation
  <2>1. CASE UNCHANGED <<mem, disk>>
    BY <1>6, <2>1 DEF ScoreProbation, EmptyMeansBlank, Running, RunningSlot
  <2>2. CASE sup # "normal" /\ Save([mem EXCEPT !.status = "failed"])
    BY <1>6, <2>2 DEF ScoreProbation, Save, EmptyMeansBlank, TypeOK, DeviceState
  <2>3. CASE Save([mem EXCEPT !.ticks = @ - 1])
    BY <1>6, <2>3
       DEF ScoreProbation, Save, EmptyMeansBlank, Running, RunningSlot, TypeOK, DeviceState
  <2>4. CASE mem.status = "probation" /\ Save(Promoted(mem))
    BY <1>6, <2>4, PromotedKeepsRunning
       DEF ScoreProbation, Save, EmptyMeansBlank, Running, RunningSlot, TypeOK
  <2> QED
    BY <1>6, <2>1, <2>2, <2>3, <2>4 DEF ScoreProbation
<1>7. CASE RevertAfterFailure
  <2>1. CASE RevertTo(mem)
    BY <2>1, RevertMatches DEF TypeOK
  <2>2. CASE RevertUnavailable(mem, sup) /\ UNCHANGED <<quiet, ctl>>
    BY <2>2 DEF RevertUnavailable, EnterSafe, EmptyMeansBlank
  <2> QED
    BY <1>7, <2>1, <2>2 DEF RevertAfterFailure
<1>8. CASE Restart
  <2>1. Running(disk).artifact = NoProgram => Running(disk).seq = 0
    BY RunningType DEF EmptyMeansBlank, Running, TypeOK
  <2> QED
    BY <1>8, <2>1
       DEF Restart, Boot, NoController, Start, EmptyMeansBlank, Running, RunningSlot
<1>9. CASE SetClock
  BY <1>9 DEF SetClock, EmptyMeansBlank, Running, RunningSlot
<1>10. CASE UNCHANGED vars
  BY <1>10 DEF vars, EmptyMeansBlank, Running, RunningSlot
<1> QED
  BY <1>1, <1>2, <1>3, <1>4, <1>5, <1>6, <1>7, <1>8, <1>9, <1>10
     DEF Next, Tick, Environment, InstallAny

\* The program in control is always the one in the running slot: promotion,
\* reversion and restart never leave the interpreter on another artifact.
THEOREM ControllerNeverStrays == Spec => []ControllerIsRunningArtifact
<1>1. Init => ControlInv
  BY DEF Init, BlankState, EmptySlot, NoController, ControlInv, Matches,
         EmptyMeansBlank, Running, RunningSlot, Slot
<1>2. ControlInv => ControllerIsRunningArtifact
  BY DEF ControlInv, Matches, ControllerIsRunningArtifact
<1> QED
  BY <1>1, <1>2, TypeCorrect, ControlStep, PTL DEF Spec

-----------------------------------------------------------------------------
(***************************************************************************)
(* What a restart, a trial and a rollback leave behind, for packages       *)
(* offered at any time (Spec).                                             *)
(*                                                                         *)
(* The invariant ties memory to the file: they differ only by seconds      *)
(* charged to a lease, and not at all once there is a fallback.  It is     *)
(* strengthened by what makes a trial and a promotion safe: a candidate    *)
(* is never in the active slot, and the active slot is not empty when      *)
(* there is a fallback.                                                    *)
(***************************************************************************)

OnTrial(d) ==
  d.status = "probation" => /\ d.candidate \in Slot \ {d.active}
                            /\ d.slots[d.candidate].artifact # NoProgram

Grounded(d) ==
  HasKnownGood(d) \/ d.lkg # d.active => d.slots[d.active].artifact # NoProgram

RecoveryInv == NothingForgotten /\ OnTrial(mem) /\ Grounded(mem)

-----------------------------------------------------------------------------
LEMMA SameButChargeRefl ==
  ASSUME NEW d
  PROVE  SameButCharge(d, d)
  BY DEF SameButCharge

LEMMA ChargedIsOnlyCharge ==
  ASSUME NEW d \in DeviceState, NEW e, SameButCharge(d, e)
  PROVE  /\ SameButCharge(Charged(d), e)
         /\ Charged(d).active = d.active
         /\ Charged(d).lkg = d.lkg
         /\ Charged(d).status = d.status
         /\ Charged(d).candidate = d.candidate
         /\ \A s \in Slot : Charged(d).slots[s].artifact = d.slots[s].artifact
<1> DEFINE r == RunningSlot(d)
<1>1. r \in Slot /\ d.slots[r] \in SlotRecord /\ d.slots[r].lease \in Lease
  BY RunningType DEF Running, SlotRecord
<1>2. Advance(d.slots[r].lease).duration = d.slots[r].lease.duration
  BY <1>1 DEF Advance, Lease
<1>3. /\ Charged(d).slots = [d.slots EXCEPT ![r].lease = Advance(@)]
      /\ Charged(d).active = d.active
      /\ Charged(d).lkg = d.lkg
      /\ Charged(d).status = d.status
      /\ Charged(d).candidate = d.candidate
      /\ Charged(d).ticks = d.ticks
      /\ Charged(d).failures = d.failures
      /\ Charged(d).watermark = d.watermark
  BY DEF Charged, DeviceState
<1>4. \A s \in Slot : /\ Charged(d).slots[s].artifact = d.slots[s].artifact
                      /\ Charged(d).slots[s].seq = d.slots[s].seq
                      /\ Charged(d).slots[s].lease.duration = d.slots[s].lease.duration
  BY <1>1, <1>2, <1>3 DEF DeviceState, SlotRecord
<1> HIDE DEF r
<1> QED
  BY <1>3, <1>4 DEF SameButCharge

LEMMA ProvisionedGround ==
  ASSUME NEW d \in DeviceState
  PROVE  /\ Provisioned(d).status = "none"
         /\ HasKnownGood(Provisioned(d))
         /\ Grounded(Provisioned(d))
<1>1. Factory # NoProgram
  BY SlotsAssumption
<1> QED
  BY <1>1 DEF Provisioned, DeviceState, Slot, HasKnownGood, LastKnownGood, Grounded,
              FactoryRecord

LEMMA StagedGround ==
  ASSUME NEW d \in DeviceState, NEW pkg \in FirmwarePackage, NEW now, Grounded(d)
  PROVE  /\ OnTrial(Staged(d, pkg, now))
         /\ Staged(d, pkg, now).active = d.active
         /\ Staged(d, pkg, now).slots[d.active] = d.slots[d.active]
         /\ HasKnownGood(d) => HasKnownGood(Staged(d, pkg, now))
         /\ Grounded(Staged(d, pkg, now))
<1> DEFINE e == Staged(d, pkg, now)
           i == InactiveSlot(d)
<1>1. i \in Slot \ {d.active} /\ d.active \in Slot /\ d.lkg \in Slot
  BY RunningType DEF DeviceState
<1>2. RecordOf(pkg, now).artifact # NoProgram
  BY SlotsAssumption DEF RecordOf, FirmwarePackage
<1>3. /\ e.slots = [d.slots EXCEPT ![i] = RecordOf(pkg, now)]
      /\ e.active = d.active
      /\ e.lkg = d.lkg
      /\ e.candidate = i
  BY DEF Staged, DeviceState
<1>4. /\ e.slots[i].artifact # NoProgram
      /\ \A s \in Slot : s # i => e.slots[s] = d.slots[s]
  BY <1>1, <1>2, <1>3 DEF DeviceState
<1> HIDE DEF e, i
<1>5. OnTrial(e)
  BY <1>1, <1>3, <1>4 DEF OnTrial
<1>6. e.active = d.active /\ e.slots[d.active] = d.slots[d.active]
  BY <1>1, <1>3, <1>4
<1>7. HasKnownGood(d) => HasKnownGood(e)
  BY <1>1, <1>3, <1>4 DEF HasKnownGood, LastKnownGood
<1>8. Grounded(e)
  BY <1>1, <1>3, <1>4, <1>6 DEF Grounded, HasKnownGood, LastKnownGood
<1> QED
  BY <1>5, <1>6, <1>7, <1>8 DEF e

LEMMA RevertedGround ==
  ASSUME NEW d \in DeviceState, HasKnownGood(d)
  PROVE  /\ Reverted(d).status # "probation"
         /\ HasKnownGood(Reverted(d))
         /\ Grounded(Reverted(d))
<1>1. /\ Reverted(d).slots = [d.slots EXCEPT ![RunningSlot(d)].lease = NoLease]
      /\ Reverted(d).lkg = d.lkg
      /\ Reverted(d).active = d.lkg
      /\ Reverted(d).status # "probation"
  BY DEF Reverted, DeviceState
<1>2. Reverted(d).slots[d.lkg].artifact = d.slots[d.lkg].artifact
  BY <1>1, RunningType DEF DeviceState, SlotRecord
<1> QED
  BY <1>1, <1>2 DEF HasKnownGood, LastKnownGood, Grounded

LEMMA PromotedGround ==
  ASSUME NEW d \in DeviceState, OnTrial(d), Grounded(d), d.status = "probation"
  PROVE  /\ Promoted(d).status = "active"
         /\ HasKnownGood(d) => HasKnownGood(Promoted(d))
         /\ Grounded(Promoted(d))
<1>1. /\ Promoted(d).slots = d.slots
      /\ Promoted(d).lkg = d.active
      /\ Promoted(d).active = d.candidate
      /\ Promoted(d).status = "active"
  BY DEF Promoted, DeviceState, OnTrial, Slot
<1> QED
  BY <1>1 DEF HasKnownGood, LastKnownGood, Grounded, OnTrial

LEMMA StatusGround ==
  ASSUME NEW d \in DeviceState, NEW e, Grounded(d),
         e.slots = d.slots, e.lkg = d.lkg, e.active = d.active
  PROVE  /\ HasKnownGood(e) <=> HasKnownGood(d)
         /\ Grounded(e)
  BY DEF HasKnownGood, LastKnownGood, Grounded

-----------------------------------------------------------------------------
(* What one step does, to all three at once. *)

\* From mem to the next memory, without looking at the file.
Sound(d, e) ==
  /\ OnTrial(e)
  /\ Grounded(e)
  /\ HasKnownGood(d) => HasKnownGood(e)
  /\ e.status = "probation" => /\ e.active = d.active
                               /\ e.slots[e.active].artifact = d.slots[d.active].artifact

LEMMA SavedSound ==
  ASSUME NEW e, Save(e), Sound(mem, e)
  PROVE  RecoveryInv' /\ Sound(mem, mem')
  BY DEF Save, Sound, RecoveryInv, NothingForgotten, SameButCharge, OnTrial, Grounded,
         HasKnownGood, LastKnownGood

LEMMA SameSound ==
  ASSUME NEW d \in DeviceState, OnTrial(d), Grounded(d), NEW e,
         e.lkg = d.lkg, e.active = d.active, e.status = d.status,
         e.candidate = d.candidate,
         \A s \in Slot : e.slots[s].artifact = d.slots[s].artifact
  PROVE  Sound(d, e)
  BY DEF Sound, OnTrial, Grounded, HasKnownGood, LastKnownGood, DeviceState

LEMMA RevertSound ==
  ASSUME TypeOK, RecoveryInv, NEW d \in DeviceState, HasKnownGood(d), RevertTo(d)
  PROVE  RecoveryInv' /\ Sound(mem, mem')
<1>1. Sound(mem, Reverted(d))
  BY RevertedGround DEF Sound, OnTrial
<1> QED
  BY <1>1, SavedSound DEF RevertTo

LEMMA RecoveryStep ==
  TypeOK /\ RecoveryInv /\ [Next]_vars => RecoveryInv' /\ Sound(mem, mem')
<1> SUFFICES ASSUME TypeOK, RecoveryInv, [Next]_vars
             PROVE  RecoveryInv' /\ Sound(mem, mem')
  OBVIOUS
<1>0. /\ mem \in DeviceState /\ OnTrial(mem) /\ Grounded(mem)
      /\ SameButCharge(mem, disk)
      /\ HasKnownGood(mem) => mem = disk
  BY DEF TypeOK, RecoveryInv, NothingForgotten
<1>1. CASE UNCHANGED <<mem, disk>>
  <2>1. Sound(mem, mem)
    BY <1>0, SameSound
  <2> QED
    BY <1>1, <2>1
       DEF Sound, RecoveryInv, NothingForgotten, SameButCharge, OnTrial, Grounded,
           HasKnownGood, LastKnownGood
<1>2. CASE Provision
  <2>1. Sound(mem, Provisioned(mem))
    BY <1>0, ProvisionedGround DEF Sound, OnTrial
  <2> QED
    BY <1>2, <2>1, SavedSound DEF Provision
<1>3. ASSUME NEW pkg \in FirmwarePackage, Install(pkg)
      PROVE  RecoveryInv' /\ Sound(mem, mem')
  <2>1. Sound(mem, Staged(mem, pkg, wall))
    BY <1>0, StagedGround DEF Sound
  <2> QED
    BY <1>3, <2>1, SavedSound DEF Install
<1>4. CASE BeginTick
  <2> DEFINE c == Charged(mem)
  <2>1. /\ c \in DeviceState
        /\ Sound(mem, c)
        /\ SameButCharge(c, disk)
        /\ HasKnownGood(c) <=> HasKnownGood(mem)
    BY <1>0, ChargedType, ChargedIsOnlyCharge, SameSound
       DEF HasKnownGood, LastKnownGood, DeviceState
  <2> HIDE DEF c
  <2>2. CASE Save(c)
    BY <2>1, <2>2, SavedSound
  <2>3. CASE RevertTo(c)
    BY <2>1, <2>3, RevertSound DEF RevertTo
  <2>4. CASE RevertUnavailable(c, SupAfterPolicy)
    <3>1. mem' = c /\ disk' = disk /\ ~HasKnownGood(c)
      BY <2>4 DEF RevertUnavailable
    <3> QED
      BY <2>1, <3>1
         DEF Sound, RecoveryInv, NothingForgotten, SameButCharge, OnTrial, Grounded,
             HasKnownGood, LastKnownGood
  <2> QED
    BY <1>1, <1>4, <2>2, <2>3, <2>4 DEF BeginTick, c
<1>5. CASE StepController
  BY <1>1, <1>5 DEF StepController
<1>6. CASE ControllerFaults
  <2>1. /\ Faulted(mem).status # "probation"
        /\ Faulted(mem).slots = mem.slots
        /\ Faulted(mem).lkg = mem.lkg
        /\ Faulted(mem).active = mem.active
    BY <1>0 DEF Faulted, DeviceState
  <2>2. Sound(mem, Faulted(mem))
    BY <1>0, <2>1, StatusGround DEF Sound, OnTrial
  <2> QED
    BY <1>6, <2>2, SavedSound DEF ControllerFaults
<1>7. CASE ScoreProbation
  <2>1. Sound(mem, [mem EXCEPT !.status = "failed"])
    <3> DEFINE e == [mem EXCEPT !.status = "failed"]
    <3>1. /\ e.status = "failed" /\ e.slots = mem.slots
          /\ e.lkg = mem.lkg /\ e.active = mem.active
      BY <1>0 DEF DeviceState
    <3> HIDE DEF e
    <3>2. Sound(mem, e)
      BY <1>0, <3>1, StatusGround DEF Sound, OnTrial
    <3> QED
      BY <3>2 DEF e
  <2>2. Sound(mem, [mem EXCEPT !.ticks = @ - 1])
    <3> DEFINE e == [mem EXCEPT !.ticks = @ - 1]
    <3>1. /\ e.status = mem.status /\ e.slots = mem.slots
          /\ e.lkg = mem.lkg /\ e.active = mem.active
          /\ e.candidate = mem.candidate
      BY <1>0 DEF DeviceState
    <3> HIDE DEF e
    <3>2. Sound(mem, e)
      BY <1>0, <3>1, SameSound
    <3> QED
      BY <3>2 DEF e
  <2>3. mem.status = "probation" => Sound(mem, Promoted(mem))
    BY <1>0, PromotedGround DEF Sound, OnTrial
  <2> QED
    BY <1>1, <1>7, <2>1, <2>2, <2>3, SavedSound DEF ScoreProbation
<1>8. CASE RevertAfterFailure
  <2>1. CASE RevertTo(mem)
    BY <1>0, <2>1, RevertSound DEF RevertTo
  <2>2. CASE RevertUnavailable(mem, sup)
    BY <1>1, <2>2 DEF RevertUnavailable
  <2> QED
    BY <1>8, <2>1, <2>2 DEF RevertAfterFailure
<1>9. CASE Restart
  <2>1. Sound(mem, disk)
    BY <1>0, SameSound DEF SameButCharge
  <2>2. mem' = disk /\ disk' = disk
    BY <1>9 DEF Restart
  <2> QED
    BY <2>1, <2>2, SavedSound DEF Save
<1>10. CASE SetClock
  BY <1>1, <1>10 DEF SetClock
<1>11. CASE UNCHANGED vars
  BY <1>1, <1>11 DEF vars
<1> QED
  BY <1>2, <1>3, <1>4, <1>5, <1>6, <1>7, <1>8, <1>9, <1>10, <1>11
     DEF Next, Tick, Environment, InstallAny

LEMMA RecoveryAlways == Spec => [](TypeOK /\ RecoveryInv)
<1>1. Init => RecoveryInv
  BY DEF Init, BlankState, RecoveryInv, NothingForgotten, SameButCharge, OnTrial,
         Grounded, HasKnownGood, LastKnownGood, EmptySlot, Slot
<1> QED
  BY <1>1, TypeCorrect, RecoveryStep, PTL DEF Spec

\* A restart at any point forgets nothing the device had decided.
THEOREM RestartForgetsNothing == Spec => []NothingForgotten
<1>1. RecoveryInv => NothingForgotten
  BY DEF RecoveryInv
<1> QED
  BY <1>1, RecoveryAlways, PTL

\* A trial leaves the artifact in the active slot alone, however packages,
\* faults and restarts follow one another.
THEOREM TrialIsHarmless == Spec => TrialLeavesActiveIntact
<1>1. TypeOK /\ RecoveryInv /\ [Next]_vars =>
        [mem'.status = "probation" =>
           /\ mem'.candidate # mem'.active
           /\ mem'.active = mem.active
           /\ mem'.slots[mem'.active].artifact = mem.slots[mem.active].artifact]_vars
  BY RecoveryStep DEF Sound, OnTrial
<1> QED
  BY <1>1, RecoveryAlways, PTL DEF Spec, TrialLeavesActiveIntact

\* Once there is something to fall back to, there always is.
THEOREM FallbackIsKept == Spec => FallbackNeverLost
<1>1. TypeOK /\ RecoveryInv /\ [Next]_vars =>
        [HasKnownGood(mem) => HasKnownGood(mem')]_vars
  BY RecoveryStep DEF Sound
<1> QED
  BY <1>1, RecoveryAlways, PTL DEF Spec, FallbackNeverLost
=============================================================================
