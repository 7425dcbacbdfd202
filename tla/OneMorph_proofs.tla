--------------------------- MODULE OneMorph_proofs ---------------------------
(***************************************************************************)
(* What holds of the device when packages are offered only between morphs  *)
(* (SpecOneMorph): the factory image stays the floor, a lease bounds the   *)
(* control a morph gets, and the device implements Tenancy.                *)
(***************************************************************************)
EXTENDS VirtualDevice_proofs

LEMMA OneMorphIsNext == NextOneMorph => Next
  BY DEF NextOneMorph, Next, InstallOnFloor

THEOREM OneMorphTypeCorrect == SpecOneMorph => []TypeOK
<1>1. TypeOK /\ [NextOneMorph]_vars => TypeOK'
  BY OneMorphIsNext, TypeStep
<1> QED
  BY TypeInit, <1>1, PTL DEF SpecOneMorph

THEOREM OneMorphControl == SpecOneMorph => [](TypeOK /\ ControlInv)
<1>1. Init => ControlInv
  BY DEF Init, BlankState, EmptySlot, NoController, ControlInv, Matches,
         EmptyMeansBlank, Running, RunningSlot, Slot
<1>2. TypeOK /\ ControlInv /\ [NextOneMorph]_vars => ControlInv'
  BY OneMorphIsNext, ControlStep
<1> QED
  BY <1>1, <1>2, OneMorphTypeCorrect, PTL DEF SpecOneMorph

-----------------------------------------------------------------------------
(***************************************************************************)
(* The floor.  Last-known-good is slot A for ever: an installation only    *)
(* ever targets slot B, a trial only ever runs in slot B with A active, so *)
(* a promotion makes A last-known-good again.                              *)
(***************************************************************************)
OnFloor(d) ==
  /\ d.lkg = "A"
  /\ d.slots["A"] \in {EmptySlot, FactoryRecord}
  /\ d.status = "probation" => d.candidate = "B" /\ d.active = "A"

FloorInv == OnFloor(mem) /\ OnFloor(disk)

LEMMA OnFloorKept ==
  ASSUME NEW d \in DeviceState, OnFloor(d)
  PROVE  /\ OnFloor(Provisioned(d))
         /\ Leased(Running(d).lease) => OnFloor(Charged(d))
         /\ OnFloor(Reverted(d))
         /\ OnFloor(Faulted(d))
         /\ OnFloor([d EXCEPT !.status = "failed"])
         /\ OnFloor([d EXCEPT !.ticks = @ - 1])
         /\ d.status = "probation" => OnFloor(Promoted(d))
<1> USE DEF OnFloor, DeviceState
<1>1. OnFloor(Provisioned(d))
  BY DEF Provisioned, Slot
<1>2. ASSUME Leased(Running(d).lease)
      PROVE  OnFloor(Charged(d))
  <2>1. RunningSlot(d) # "A"
    BY <1>2 DEF Running, Leased, EmptySlot, FactoryRecord, NoLease
  <2> QED
    BY <2>1, RunningType DEF Charged, Slot
<1>3. OnFloor(Reverted(d))
  <2>1. Reverted(d).slots["A"] = d.slots["A"]
    <3>1. CASE RunningSlot(d) = "A"
      BY <3>1 DEF Reverted, EmptySlot, FactoryRecord, Slot, SlotRecord
    <3>2. CASE RunningSlot(d) # "A"
      BY <3>2, RunningType DEF Reverted, Slot
    <3> QED
      BY <3>1, <3>2
  <2> QED
    BY <2>1 DEF Reverted, Slot
<1>4. OnFloor(Faulted(d))
  BY DEF Faulted, Slot
<1>5. OnFloor([d EXCEPT !.status = "failed"]) /\ OnFloor([d EXCEPT !.ticks = @ - 1])
  OBVIOUS
<1>6. d.status = "probation" => OnFloor(Promoted(d))
  BY DEF Promoted, Slot
<1> QED
  BY <1>1, <1>2, <1>3, <1>4, <1>5, <1>6

LEMMA FloorStep == TypeOK /\ FloorInv /\ [NextOneMorph]_vars => FloorInv'
<1> SUFFICES ASSUME TypeOK, FloorInv, [NextOneMorph]_vars
             PROVE  FloorInv'
  OBVIOUS
<1>0. mem \in DeviceState /\ disk \in DeviceState /\ OnFloor(mem) /\ OnFloor(disk)
  BY DEF TypeOK, FloorInv
<1>1. ASSUME NEW d, OnFloor(d), mem' = d, disk' = d \/ disk' = disk
      PROVE  FloorInv'
  BY <1>0, <1>1 DEF FloorInv, OnFloor
<1>2. ASSUME NEW d \in DeviceState, OnFloor(d),
             RevertTo(d) \/ RevertUnavailable(d, sup)
                         \/ RevertUnavailable(d, SupAfterPolicy)
      PROVE  FloorInv'
  BY <1>1, <1>2, OnFloorKept DEF RevertTo, RevertUnavailable, Save
<1>3. CASE Provision
  BY <1>0, <1>1, <1>3, OnFloorKept DEF Provision, Save
<1>4. ASSUME NEW pkg \in FirmwarePackage, Install(pkg), mem.active = mem.lkg
      PROVE  FloorInv'
  <2>1. OnFloor(Staged(mem, pkg, wall))
    BY <1>0, <1>4 DEF Staged, OnFloor, InactiveSlot, DeviceState, Slot
  <2> QED
    BY <1>1, <1>4, <2>1 DEF Install, Save
<1>5. CASE BeginTick
  <2>1. Charged(mem) \in DeviceState
    BY <1>0, ChargedType
  <2>2. CASE UNCHANGED <<mem, disk>>
    BY <2>2 DEF FloorInv, OnFloor
  <2>3. CASE Leased(Running(mem).lease)
    <3>1. OnFloor(Charged(mem))
      BY <1>0, <2>3, OnFloorKept
    <3> QED
      BY <1>1, <1>2, <1>5, <2>1, <2>3, <3>1 DEF BeginTick, Save
  <2> QED
    BY <1>5, <2>2, <2>3 DEF BeginTick
<1>6. CASE StepController
  BY <1>6 DEF StepController, FloorInv, OnFloor
<1>7. CASE ControllerFaults
  BY <1>0, <1>1, <1>7, OnFloorKept DEF ControllerFaults, Save
<1>8. CASE ScoreProbation
  BY <1>0, <1>1, <1>8, OnFloorKept DEF ScoreProbation, Save
<1>9. CASE RevertAfterFailure
  BY <1>0, <1>2, <1>9 DEF RevertAfterFailure
<1>10. CASE Restart
  BY <1>0, <1>1, <1>10 DEF Restart
<1>11. CASE SetClock
  BY <1>11 DEF SetClock, FloorInv, OnFloor
<1>12. CASE UNCHANGED vars
  BY <1>12 DEF vars, FloorInv, OnFloor
<1> QED
  BY <1>3, <1>4, <1>5, <1>6, <1>7, <1>8, <1>9, <1>10, <1>11, <1>12
     DEF NextOneMorph, Tick, Environment, InstallOnFloor, InstallAny

LEMMA FloorAlways == SpecOneMorph => [](TypeOK /\ FloorInv)
<1>1. Init => FloorInv
  BY DEF Init, BlankState, FloorInv, OnFloor, Slot
<1> QED
  BY <1>1, OneMorphTypeCorrect, FloorStep, PTL DEF SpecOneMorph

\* As long as packages are offered between morphs only, a rollback can only
\* ever land on the factory image, and that image is never under a lease.
THEOREM FloorIsFactory == SpecOneMorph => []FloorSurvives
<1>1. FloorInv => FloorSurvives
  BY DEF FloorInv, OnFloor, FloorSurvives, HasKnownGood, LastKnownGood, EmptySlot
<1> QED
  BY <1>1, FloorAlways, PTL

-----------------------------------------------------------------------------
(***************************************************************************)
(* A lease bounds the control a morph gets, and the device implements      *)
(* Tenancy.  The morph's slot is B.  The invariant relates what the morph  *)
(* has used to what its lease was charged, in memory and in the file:      *)
(* every second used was charged, and saved, before it was used.           *)
(***************************************************************************)

MorphSeq(d) == d.slots["B"].seq
MorphLease(d) == d.slots["B"].lease

\* What a device state says of its morph agrees with history t and with who
\* is in control.
Agrees(d, holder, t) ==
  /\ MorphSeq(d) <= d.watermark
  /\ Leased(MorphLease(d)) =>
       /\ MorphSeq(d) \in Seqs
       /\ MorphLease(d).duration = t[MorphSeq(d)].term
       /\ t[MorphSeq(d)].used <= MorphLease(d).elapsed
       /\ MorphLease(d).elapsed <= MorphLease(d).duration
  /\ RunningSlot(d) = "B" /\ MorphSeq(d) \in Seqs =>
       /\ holder = MorphSeq(d)
       /\ t[MorphSeq(d)].term > 0 => Leased(MorphLease(d))

TermInv ==
  /\ mem.watermark = disk.watermark
  /\ \A n \in Seqs : /\ n > mem.watermark => tenure[n].used = 0 /\ tenure[n].term = 0
                     /\ tenure[n].term > 0 => tenure[n].used < tenure[n].term

\* The step that is about to be taken was charged, and saved, by this tick.
StepInv ==
  pc = "control" /\ sup = "normal" /\ RunningSlot(mem) = "B" /\ Leased(MorphLease(mem))
    => /\ mem = disk
       /\ tenure[MorphSeq(mem)].used + TickSeconds <= MorphLease(mem).elapsed
       /\ MorphLease(mem).elapsed < MorphLease(mem).duration

TenancyInv ==
  /\ Agrees(mem, ctl.seq, tenure)
  /\ Agrees(disk, ctl.seq, tenure)
  /\ TermInv
  /\ StepInv

-----------------------------------------------------------------------------
(* What each operator on device states does to the agreement. *)

LEMMA MorphType ==
  ASSUME NEW d \in DeviceState
  PROVE  /\ MorphSeq(d) \in Nat
         /\ MorphLease(d) \in Lease
         /\ d.watermark \in Nat
         /\ RunningSlot(d) \in {"A", "B"}
  BY RunningType, SlotsAssumption
     DEF DeviceState, SlotRecord, Slot, MorphSeq, MorphLease

\* The morph's slot is left alone and does not start to run.
LEMMA AgreesKept ==
  ASSUME NEW d, NEW e, NEW h, NEW t,
         Agrees(d, h, t),
         e.slots = d.slots,
         e.watermark = d.watermark,
         RunningSlot(e) = "B" => RunningSlot(d) = "B"
  PROVE  Agrees(e, h, t)
  BY DEF Agrees, MorphSeq, MorphLease

\* Control goes back to slot A, and the morph keeps its lease or loses it.
LEMMA AgreesOnFloor ==
  ASSUME NEW d, NEW e, NEW h, NEW g, NEW t,
         Agrees(d, h, t),
         MorphSeq(e) = MorphSeq(d),
         MorphLease(e) = MorphLease(d) \/ ~Leased(MorphLease(e)),
         e.watermark = d.watermark,
         RunningSlot(e) = "A"
  PROVE  Agrees(e, g, t)
  BY DEF Agrees

LEMMA ProvisionedAgrees ==
  ASSUME NEW d \in DeviceState, NEW h, NEW g, NEW t, Agrees(d, h, t)
  PROVE  Agrees(Provisioned(d), g, t) /\ RunningSlot(Provisioned(d)) = "A"
<1>1. /\ Provisioned(d).slots["B"] = d.slots["B"]
      /\ Provisioned(d).watermark = d.watermark
      /\ RunningSlot(Provisioned(d)) = "A"
  BY DEF Provisioned, RunningSlot, DeviceState, Slot
<1> QED
  BY <1>1, AgreesOnFloor DEF MorphSeq, MorphLease

LEMMA RevertedAgrees ==
  ASSUME NEW d \in DeviceState, OnFloor(d), NEW h, NEW g, NEW t, Agrees(d, h, t)
  PROVE  Agrees(Reverted(d), g, t) /\ RunningSlot(Reverted(d)) = "A"
<1>1. /\ Reverted(d).watermark = d.watermark
      /\ RunningSlot(Reverted(d)) = "A"
  BY DEF Reverted, RunningSlot, DeviceState, OnFloor
<1>2. /\ MorphSeq(Reverted(d)) = MorphSeq(d)
      /\ MorphLease(Reverted(d)) = MorphLease(d) \/ MorphLease(Reverted(d)) = NoLease
  BY RunningType DEF Reverted, DeviceState, SlotRecord, Slot, MorphSeq, MorphLease
<1>3. ~Leased(NoLease)
  BY DEF Leased, NoLease
<1> QED
  BY <1>1, <1>2, <1>3, AgreesOnFloor

LEMMA LeasedRunsInB ==
  ASSUME NEW d \in DeviceState, OnFloor(d), Leased(Running(d).lease)
  PROVE  RunningSlot(d) = "B" /\ Running(d) = d.slots["B"]
  BY RunningType
     DEF Running, Leased, OnFloor, EmptySlot, FactoryRecord, NoLease, Slot

\* Charging a lease: it agrees all the more, and, unless it is spent, the
\* seconds of one more step are covered.
LEMMA ChargedAgrees ==
  ASSUME NEW d \in DeviceState, OnFloor(d), NEW h, NEW t \in [Seqs -> Tenure],
         Agrees(d, h, t), Leased(Running(d).lease)
  PROVE  /\ Agrees(Charged(d), h, t)
         /\ \A now \in Time : ~Expired(Running(Charged(d)).lease, now) =>
              /\ t[MorphSeq(Charged(d))].used + TickSeconds
                   <= MorphLease(Charged(d)).elapsed
              /\ MorphLease(Charged(d)).elapsed < MorphLease(Charged(d)).duration
<1> DEFINE l == MorphLease(d)
           c == Charged(d)
<1>1. RunningSlot(d) = "B" /\ Running(d) = d.slots["B"] /\ Leased(l)
  BY LeasedRunsInB DEF MorphLease
<1>2. /\ MorphSeq(c) = MorphSeq(d)
      /\ MorphLease(c) = Advance(l)
      /\ c.watermark = d.watermark
      /\ RunningSlot(c) = "B"
      /\ Running(c).lease = MorphLease(c)
  BY <1>1, RunningType
     DEF Charged, DeviceState, SlotRecord, Slot, MorphSeq, MorphLease, RunningSlot, Running
<1>3. l \in Lease /\ MorphSeq(d) \in Seqs /\ t[MorphSeq(d)] \in Tenure
  BY <1>1, MorphType DEF Agrees
<1>4. l.duration \in Nat /\ l.elapsed \in Nat /\ TickSeconds \in Nat
      /\ t[MorphSeq(d)].used \in Nat /\ t[MorphSeq(d)].term \in Nat
  BY <1>3, SlotsAssumption DEF Lease, Tenure
<1>5. /\ l.duration = t[MorphSeq(d)].term
      /\ t[MorphSeq(d)].used <= l.elapsed
      /\ l.elapsed <= l.duration
  BY <1>1 DEF Agrees
<1>6. /\ Advance(l).duration = l.duration
      /\ Advance(l).at = l.at
      /\ Advance(l).elapsed = Capped(l.elapsed + TickSeconds, l.duration)
  BY <1>3 DEF Advance, Lease
<1>7. \A now \in Time : ~Expired(Advance(l), now) =>
        /\ Advance(l).elapsed = l.elapsed + TickSeconds
        /\ Advance(l).elapsed < l.duration
  <2> SUFFICES ASSUME NEW now \in Time, ~Expired(Advance(l), now)
               PROVE  /\ Advance(l).elapsed = l.elapsed + TickSeconds
                      /\ Advance(l).elapsed < l.duration
    OBVIOUS
  <2>1. Advance(l).elapsed \in Nat /\ l.at \in Nat /\ now \in Nat
    BY <1>3, <1>4, <1>6, SlotsAssumption DEF Capped, Lease, Time
  <2>2. Advance(l).elapsed < l.duration
    BY <1>4, <1>6, <2>1 DEF Expired, Consumed, SinceInstalled
  <2> QED
    BY <1>4, <1>6, <2>2 DEF Capped
<1>8. Agrees(c, h, t)
  <2>1. /\ l.elapsed <= Advance(l).elapsed
        /\ Advance(l).elapsed <= l.duration
    BY <1>4, <1>5, <1>6 DEF Capped
  <2>2. t[MorphSeq(d)].used <= Advance(l).elapsed
    <3>1. Advance(l).elapsed \in Nat
      BY <1>4, <1>6 DEF Capped
    <3> QED
      BY <1>4, <1>5, <2>1, <3>1
  <2> QED
    BY <1>1, <1>2, <1>3, <1>5, <1>6, <2>1, <2>2 DEF Agrees, Leased
<1> HIDE DEF l, c
<1>9. ASSUME NEW now \in Time, ~Expired(Running(c).lease, now)
      PROVE  /\ t[MorphSeq(c)].used + TickSeconds <= MorphLease(c).elapsed
             /\ MorphLease(c).elapsed < MorphLease(c).duration
  BY <1>2, <1>4, <1>5, <1>6, <1>7, <1>9
<1> QED
  BY <1>8, <1>9 DEF c

LEMMA FaultedAgrees ==
  ASSUME NEW d \in DeviceState, OnFloor(d), NEW h, NEW t, Agrees(d, h, t)
  PROVE  Agrees(Faulted(d), h, t)
<1>1. /\ Faulted(d).slots = d.slots
      /\ Faulted(d).watermark = d.watermark
      /\ RunningSlot(Faulted(d)) = "B" => RunningSlot(d) = "B"
  BY DEF Faulted, DeviceState, RunningSlot, OnFloor
<1> QED
  BY <1>1, AgreesKept

LEMMA FailedAgrees ==
  ASSUME NEW d \in DeviceState, OnFloor(d), NEW h, NEW t, Agrees(d, h, t),
         d.status = "probation"
  PROVE  Agrees([d EXCEPT !.status = "failed"], h, t)
<1> DEFINE e == [d EXCEPT !.status = "failed"]
<1>1. /\ e.slots = d.slots
      /\ e.watermark = d.watermark
      /\ RunningSlot(e) = "B" => RunningSlot(d) = "B"
  BY DEF DeviceState, RunningSlot, OnFloor
<1> HIDE DEF e
<1>2. Agrees(e, h, t)
  BY <1>1, AgreesKept
<1> QED
  BY <1>2 DEF e

LEMMA CountedAgrees ==
  ASSUME NEW d \in DeviceState, NEW h, NEW t, Agrees(d, h, t)
  PROVE  Agrees([d EXCEPT !.ticks = @ - 1], h, t)
<1> DEFINE e == [d EXCEPT !.ticks = @ - 1]
<1>1. /\ e.slots = d.slots
      /\ e.watermark = d.watermark
      /\ RunningSlot(e) = RunningSlot(d)
  BY DEF DeviceState, RunningSlot
<1> HIDE DEF e
<1>2. Agrees(e, h, t)
  BY <1>1, AgreesKept
<1> QED
  BY <1>2 DEF e

LEMMA PromotedAgrees ==
  ASSUME NEW d \in DeviceState, OnFloor(d), NEW h, NEW t, Agrees(d, h, t),
         d.status = "probation"
  PROVE  Agrees(Promoted(d), h, t)
<1>1. /\ Promoted(d).slots = d.slots
      /\ Promoted(d).watermark = d.watermark
      /\ RunningSlot(Promoted(d)) = RunningSlot(d)
  BY DEF Promoted, DeviceState, RunningSlot, OnFloor
<1> QED
  BY <1>1, AgreesKept

-----------------------------------------------------------------------------
(* The steps. *)

\* Every step but an installation and a control step leaves the history alone.
LEMMA QuietStep ==
  ASSUME TypeOK, TenancyInv,
         Agrees(mem', ctl'.seq, tenure),
         Agrees(disk', ctl'.seq, tenure),
         mem'.watermark = mem.watermark,
         disk'.watermark = mem.watermark,
         tenure' = tenure,
         pc' # "control"
  PROVE  TenancyInv'
BY DEF TenancyInv, TermInv, StepInv, Agrees, MorphSeq, MorphLease, RunningSlot

LEMMA InstallTenancy ==
  ASSUME TypeOK, FloorInv, TenancyInv, mem.active = mem.lkg,
         NEW pkg \in FirmwarePackage, Install(pkg)
  PROVE  TenancyInv'
<1> DEFINE r == RecordOf(pkg, wall)
           d == Staged(mem, pkg, wall)
<1>1. pkg.seq \in Seqs /\ pkg.seq \in Nat /\ pkg.lease \in Nat
  <2>1. pkg.seq \in Seqs /\ pkg.lease \in LeaseOffers
    BY DEF FirmwarePackage
  <2>2. pkg.seq \in Nat
    BY <2>1, SlotsAssumption DEF Seqs
  <2>3. pkg.lease \in Nat
    BY <2>1, LeaseOffersAssumption
  <2> QED
    BY <2>1, <2>2, <2>3
<1>2. mem.watermark \in Nat /\ pkg.seq > mem.watermark
  BY <1>1, MorphType DEF Install, Verified, TypeOK
<1>3. mem' = d /\ disk' = d /\ ctl'.seq = pkg.seq
  BY DEF Install, Save, Start, RecordOf
<1>4. d.slots["B"] = r /\ d.watermark = pkg.seq /\ RunningSlot(d) = "B"
  BY DEF Staged, InactiveSlot, FloorInv, OnFloor, TypeOK, DeviceState, Slot, RunningSlot
<1>5. /\ r.seq = pkg.seq
      /\ r.lease.duration = pkg.lease
      /\ r.lease.elapsed = 0
  BY DEF RecordOf, NoLease, NewLease
<1>6. /\ tenure'[pkg.seq].term = pkg.lease
      /\ tenure'[pkg.seq].used = 0
      /\ \A n \in Seqs : n # pkg.seq => tenure'[n] = tenure[n]
  BY <1>1, <1>2 DEF Install, TypeOK, Tenure, TenancyInv, TermInv
<1> HIDE DEF r, d
<1>7. Agrees(d, pkg.seq, tenure')
  BY <1>1, <1>4, <1>5, <1>6 DEF Agrees, MorphSeq, MorphLease, Leased
<1>8. TermInv'
  <2>1. \A n \in Seqs : n \in Nat
    BY SlotsAssumption DEF Seqs
  <2> QED
    BY <1>1, <1>2, <1>3, <1>4, <1>6, <2>1 DEF TermInv, TenancyInv
<1>9. pc' # "control"
  BY DEF Install
<1> QED
  BY <1>3, <1>7, <1>8, <1>9 DEF TenancyInv, StepInv, Agrees, MorphSeq, MorphLease, RunningSlot

LEMMA RevertTenancy ==
  ASSUME TypeOK, TenancyInv, NEW d \in DeviceState, OnFloor(d),
         Agrees(d, ctl.seq, tenure), d.watermark = mem.watermark,
         RevertTo(d), tenure' = tenure
  PROVE  TenancyInv'
<1>1. /\ Agrees(Reverted(d), ctl'.seq, tenure)
      /\ RunningSlot(Reverted(d)) = "A"
      /\ Reverted(d).watermark = mem.watermark
  BY RevertedAgrees DEF Reverted, DeviceState
<1>2. mem' = Reverted(d) /\ disk' = Reverted(d)
  BY DEF RevertTo, Save
<1> HIDE DEF RevertTo
<1>3. RunningSlot(mem)' = "A"
  BY <1>1, <1>2 DEF RunningSlot
<1>4. TermInv'
  BY <1>1, <1>2 DEF TenancyInv, TermInv
<1> QED
  BY <1>1, <1>2, <1>3, <1>4
     DEF TenancyInv, StepInv, Agrees, MorphSeq, MorphLease, RunningSlot

\* A control step spends seconds this tick has already charged.
LEMMA UseTenancy ==
  ASSUME TypeOK, ControlInv, FloorInv, TenancyInv, StepController
  PROVE  /\ TenancyInv'
         /\ tenure' # tenure =>
              /\ ctl.seq \in Seqs
              /\ tenure' = Used(ctl.seq)
              /\ tenure[ctl.seq].term > 0 =>
                   tenure[ctl.seq].used + TickSeconds < tenure[ctl.seq].term
<1> DEFINE n == ctl.seq
<1>1. /\ mem' = mem /\ disk' = disk /\ ctl' = ctl
      /\ pc' = "score" /\ pc = "control"
  BY DEF StepController
<1>2. CASE tenure' = tenure
  BY <1>1, <1>2, QuietStep DEF TenancyInv, TermInv
<1>3. CASE InControl /\ n \in Seqs /\ tenure' = Used(n)
  <2>1. RunningSlot(mem) = "B" /\ n = MorphSeq(mem)
    <3>1. n = Running(mem).seq /\ n # 0
      BY <1>3, SlotsAssumption DEF InControl, ControlInv, Matches, Seqs
    <3>2. RunningSlot(mem) # "A"
      BY <3>1 DEF FloorInv, OnFloor, Running, EmptySlot, FactoryRecord
    <3> QED
      BY <3>1, <3>2, MorphType DEF TypeOK, Running, MorphSeq
  <2>2. tenure[n] \in Tenure /\ TickSeconds \in Nat
    BY <1>3, SlotsAssumption DEF TypeOK
  <2>3. ASSUME tenure[n].term > 0
        PROVE  /\ Leased(MorphLease(mem))
               /\ mem = disk
               /\ tenure[n].used + TickSeconds <= MorphLease(mem).elapsed
               /\ MorphLease(mem).elapsed < MorphLease(mem).duration
               /\ MorphLease(mem).duration = tenure[n].term
    BY <1>1, <1>3, <2>1, <2>3 DEF TenancyInv, Agrees, StepInv, InControl
  <2>4. ASSUME tenure[n].term > 0
        PROVE  tenure[n].used + TickSeconds < tenure[n].term
    <3>1. MorphLease(mem) \in Lease
      BY MorphType DEF TypeOK
    <3> QED
      BY <2>2, <2>3, <2>4, <3>1 DEF Lease, Tenure
  <2>5. /\ tenure'[n].term = tenure[n].term
        /\ tenure'[n].used = Capped(tenure[n].used + TickSeconds, MAX_LEASE_SECONDS)
        /\ \A k \in Seqs : k # n => tenure'[k] = tenure[k]
    BY <1>3, <2>2 DEF Used, TypeOK, Tenure
  <2>6. tenure'[n].used <= tenure[n].used + TickSeconds
    BY <2>2, <2>5, SlotsAssumption DEF Capped, Tenure
  <2>7. tenure'[n].used \in Nat
    BY <2>2, <2>5, SlotsAssumption DEF Capped, Tenure
  <2>8. ASSUME NEW d \in DeviceState, Agrees(d, n, tenure), d = mem \/ d = disk
        PROVE  Agrees(d, n, tenure')
    <3>1. CASE Leased(MorphLease(d)) /\ MorphSeq(d) = n
      <4>1. tenure[n].term > 0
        BY <2>8, <3>1 DEF Agrees, Leased
      <4>2. tenure'[n].used <= MorphLease(d).elapsed
        <5>1. MorphLease(d) \in Lease /\ tenure[n].used + TickSeconds <= MorphLease(d).elapsed
          BY <2>3, <2>8, <4>1, MorphType
        <5> QED
          BY <2>2, <2>6, <2>7, <5>1 DEF Lease, Tenure
      <4> QED
        BY <1>3, <2>5, <2>8, <3>1, <4>2 DEF Agrees
    <3>2. CASE Leased(MorphLease(d)) /\ MorphSeq(d) # n
      BY <2>5, <2>8, <3>2 DEF Agrees
    <3>3. CASE ~Leased(MorphLease(d))
      BY <2>5, <2>8, <3>3 DEF Agrees
    <3> QED
      BY <3>1, <3>2, <3>3
  <2>9. Agrees(mem, n, tenure') /\ Agrees(disk, n, tenure')
    BY <2>8 DEF TypeOK, TenancyInv
  <2>10. TermInv'
    <3>1. n <= mem.watermark
      BY <2>1 DEF TenancyInv, Agrees
    <3>2. \A k \in Seqs : k > mem.watermark => k # n
      <4>1. n \in Nat /\ mem.watermark \in Nat /\ \A k \in Seqs : k \in Nat
        BY <2>1, MorphType, SlotsAssumption DEF TypeOK, Seqs
      <4> QED
        BY <3>1, <4>1
    <3>3. tenure'[n].term > 0 => tenure'[n].used < tenure'[n].term
      BY <2>2, <2>4, <2>5, <2>6, <2>7 DEF Tenure
    <3> QED
      BY <1>1, <2>5, <3>2, <3>3 DEF TenancyInv, TermInv
  <2>11. TenancyInv'
    BY <1>1, <2>9, <2>10
       DEF TenancyInv, StepInv, Agrees, MorphSeq, MorphLease, RunningSlot
  <2> QED
    BY <1>3, <2>4, <2>11
<1> QED
  BY <1>2, <1>3 DEF StepController

LEMMA RestartTenancy ==
  ASSUME TypeOK, ControlInv, FloorInv, TenancyInv, Restart
  PROVE  /\ TenancyInv'
         /\ ctl'.seq \in {0, ctl.seq}
         /\ mem'.watermark = mem.watermark
<1>1. mem' = disk /\ disk' = disk /\ tenure' = tenure /\ pc' = "idle"
  BY DEF Restart
<1>2. Running(disk) \in SlotRecord /\ RunningSlot(disk) \in {"A", "B"}
  BY RunningType DEF TypeOK, Slot
<1>3. ctl'.seq = Running(disk).seq
  <2>1. CASE Running(disk).artifact = NoProgram
    BY <1>2, <2>1
       DEF Restart, Boot, NoController, ControlInv, EmptyMeansBlank, Running, Slot
  <2>2. CASE Running(disk).artifact # NoProgram
    BY <2>2 DEF Restart, Boot, Start
  <2> QED
    BY <2>1, <2>2
<1>4. Agrees(disk, ctl'.seq, tenure)
  BY <1>3 DEF TenancyInv, Agrees, Running, MorphSeq
<1>5. ctl'.seq \in {0, ctl.seq}
  <2>1. CASE RunningSlot(disk) = "A"
    BY <1>3, <2>1 DEF FloorInv, OnFloor, Running, EmptySlot, FactoryRecord
  <2>2. CASE RunningSlot(disk) = "B" /\ MorphSeq(disk) \in Seqs
    BY <1>3, <2>2 DEF TenancyInv, Agrees, Running, MorphSeq
  <2>3. CASE RunningSlot(disk) = "B" /\ MorphSeq(disk) \notin Seqs
    <3>1. MorphSeq(disk) \in Nat /\ MorphSeq(disk) <= disk.watermark
      BY MorphType DEF TypeOK, TenancyInv, Agrees
    <3>2. disk.watermark \in 0 .. MaxSeq
      BY DEF TypeOK, DeviceState
    <3>3. MorphSeq(disk) = 0
      BY <2>3, <3>1, <3>2, SlotsAssumption DEF Seqs
    <3> QED
      BY <1>3, <2>3, <3>3 DEF Running, MorphSeq
  <2> QED
    BY <1>2, <2>1, <2>2, <2>3
<1>6. mem'.watermark = mem.watermark /\ disk'.watermark = mem.watermark
  BY <1>1 DEF TenancyInv, TermInv
<1>7. TenancyInv'
  BY <1>1, <1>4, <1>6, QuietStep
<1> QED
  BY <1>5, <1>6, <1>7

LEMMA ScoredAgrees ==
  ASSUME TypeOK, FloorInv, TenancyInv, ScoreProbation
  PROVE  /\ Agrees(mem', ctl.seq, tenure)
         /\ Agrees(disk', ctl.seq, tenure)
         /\ mem'.watermark = mem.watermark
         /\ disk'.watermark = mem.watermark
<1>0. /\ mem \in DeviceState /\ OnFloor(mem)
      /\ Agrees(mem, ctl.seq, tenure) /\ Agrees(disk, ctl.seq, tenure)
      /\ mem.watermark = disk.watermark
  BY DEF TypeOK, FloorInv, TenancyInv, TermInv
<1>1. CASE UNCHANGED <<mem, disk>>
  BY <1>0, <1>1 DEF Agrees, MorphSeq, MorphLease, RunningSlot
<1>2. ASSUME NEW d, Save(d), Agrees(d, ctl.seq, tenure), d.watermark = mem.watermark
      PROVE  /\ Agrees(mem', ctl.seq, tenure)
             /\ Agrees(disk', ctl.seq, tenure)
             /\ mem'.watermark = mem.watermark
             /\ disk'.watermark = mem.watermark
  BY <1>2 DEF Save, Agrees, MorphSeq, MorphLease, RunningSlot
<1>3. CASE mem.status = "probation" /\ Save([mem EXCEPT !.status = "failed"])
  <2>1. [mem EXCEPT !.status = "failed"].watermark = mem.watermark
    BY <1>0 DEF DeviceState
  <2> QED
    BY <1>0, <1>2, <1>3, <2>1, FailedAgrees
<1>4. CASE Save([mem EXCEPT !.ticks = @ - 1])
  <2>1. [mem EXCEPT !.ticks = @ - 1].watermark = mem.watermark
    BY <1>0 DEF DeviceState
  <2> QED
    BY <1>0, <1>2, <1>4, <2>1, CountedAgrees
<1>5. CASE mem.status = "probation" /\ Save(Promoted(mem))
  BY <1>0, <1>2, <1>5, PromotedAgrees, WatermarkKept
<1> QED
  BY <1>1, <1>3, <1>4, <1>5 DEF ScoreProbation

LEMMA BeginTenancy ==
  ASSUME TypeOK, FloorInv, TenancyInv, BeginTick
  PROVE  TenancyInv'
<1> DEFINE c == Charged(mem)
<1>0. /\ mem \in DeviceState /\ OnFloor(mem) /\ tenure \in [Seqs -> Tenure]
      /\ wall \in Time
      /\ Agrees(mem, ctl.seq, tenure) /\ Agrees(disk, ctl.seq, tenure)
      /\ mem.watermark = disk.watermark
  BY DEF TypeOK, FloorInv, TenancyInv, TermInv
<1>1. Aged.seq = ctl.seq
  BY DEF Aged, TypeOK, Controller
<1>2. tenure' = tenure
  BY DEF BeginTick
<1>3. CASE /\ ~Leased(Running(mem).lease)
           /\ ctl' = Aged
           /\ UNCHANGED <<mem, disk>>
  <2>1. ~(RunningSlot(mem)' = "B" /\ Leased(MorphLease(mem))')
    BY <1>3 DEF Running, MorphLease, RunningSlot
  <2> QED
    BY <1>1, <1>2, <1>3, <2>1
       DEF TenancyInv, TermInv, StepInv, Agrees, MorphSeq, MorphLease, RunningSlot
<1>4. ASSUME Leased(Running(mem).lease)
      PROVE  /\ c \in DeviceState
             /\ OnFloor(c)
             /\ Agrees(c, ctl.seq, tenure)
             /\ c.watermark = mem.watermark
  BY <1>0, <1>4, ChargedType, OnFloorKept, ChargedAgrees, WatermarkKept
<1>5. CASE /\ Leased(Running(mem).lease)
           /\ ~Expired(Running(c).lease, wall)
           /\ Save(c)
           /\ ctl' = Aged
  <2>1. /\ tenure[MorphSeq(c)].used + TickSeconds <= MorphLease(c).elapsed
        /\ MorphLease(c).elapsed < MorphLease(c).duration
    BY <1>0, <1>5, ChargedAgrees
  <2>2. mem' = c /\ disk' = c /\ ctl'.seq = ctl.seq
    BY <1>1, <1>5 DEF Save
  <2>3. Agrees(c, ctl.seq, tenure) /\ c.watermark = mem.watermark
    BY <1>4, <1>5
  <2> HIDE DEF c
  <2>4. TermInv'
    BY <1>2, <2>2, <2>3 DEF TenancyInv, TermInv
  <2> QED
    BY <1>2, <2>1, <2>2, <2>3, <2>4
       DEF TenancyInv, StepInv, Agrees, MorphSeq, MorphLease, RunningSlot
<1>6. CASE Leased(Running(mem).lease) /\ RevertTo(c)
  BY <1>2, <1>4, <1>6, RevertTenancy
<1>7. CASE /\ Leased(Running(mem).lease)
           /\ RevertUnavailable(c, SupAfterPolicy)
           /\ ctl' = Aged
  <2>1. mem' = c /\ disk' = disk /\ ctl'.seq = ctl.seq /\ sup' # "normal"
    BY <1>1, <1>7 DEF RevertUnavailable, EnterSafe
  <2>2. Agrees(c, ctl.seq, tenure) /\ c.watermark = mem.watermark
    BY <1>4, <1>7
  <2> HIDE DEF c
  <2>3. TermInv'
    BY <1>2, <2>1, <2>2 DEF TenancyInv, TermInv
  <2> QED
    BY <1>0, <1>2, <2>1, <2>2, <2>3
       DEF TenancyInv, StepInv, Agrees, MorphSeq, MorphLease, RunningSlot
<1> QED
  BY <1>3, <1>5, <1>6, <1>7 DEF BeginTick

-----------------------------------------------------------------------------
LEMMA TenancyStep ==
  TypeOK /\ ControlInv /\ FloorInv /\ TenancyInv /\ [NextOneMorph]_vars
    => TenancyInv'
<1> SUFFICES ASSUME TypeOK, ControlInv, FloorInv, TenancyInv, [NextOneMorph]_vars
             PROVE  TenancyInv'
  OBVIOUS
<1>0. /\ mem \in DeviceState /\ OnFloor(mem)
      /\ Agrees(mem, ctl.seq, tenure) /\ Agrees(disk, ctl.seq, tenure)
      /\ mem.watermark = disk.watermark
  BY DEF TypeOK, FloorInv, TenancyInv, TermInv
<1>1. CASE Provision
  <2>1. /\ mem' = Provisioned(mem) /\ disk' = Provisioned(mem)
        /\ tenure' = tenure /\ pc' # "control"
    BY <1>1 DEF Provision, Save
  <2> QED
    BY <1>0, <2>1, ProvisionedAgrees, WatermarkKept, QuietStep
<1>2. ASSUME NEW pkg \in FirmwarePackage, Install(pkg), mem.active = mem.lkg
      PROVE  TenancyInv'
  BY <1>2, InstallTenancy
<1>3. CASE BeginTick
  BY <1>3, BeginTenancy
<1>4. CASE StepController
  BY <1>4, UseTenancy
<1>5. CASE ControllerFaults
  <2>1. /\ mem' = Faulted(mem) /\ disk' = Faulted(mem) /\ ctl' = ctl
        /\ tenure' = tenure /\ pc' # "control"
    BY <1>5 DEF ControllerFaults, Save
  <2> QED
    BY <1>0, <2>1, FaultedAgrees, WatermarkKept, QuietStep
<1>6. CASE ScoreProbation
  <2>1. ctl' = ctl /\ tenure' = tenure /\ pc' # "control"
    BY <1>6 DEF ScoreProbation
  <2> QED
    BY <1>6, <2>1, ScoredAgrees, QuietStep
<1>7. CASE RevertAfterFailure
  <2>1. CASE RevertTo(mem)
    BY <1>0, <1>7, <2>1, RevertTenancy DEF RevertAfterFailure
  <2>2. CASE RevertUnavailable(mem, sup) /\ UNCHANGED <<quiet, ctl>>
    <3>1. /\ mem' = mem /\ disk' = disk /\ ctl' = ctl
          /\ tenure' = tenure /\ pc' # "control"
      BY <1>7, <2>2 DEF RevertAfterFailure, RevertUnavailable
    <3> QED
      BY <1>0, <3>1, QuietStep
  <2> QED
    BY <1>7, <2>1, <2>2 DEF RevertAfterFailure
<1>8. CASE Restart
  BY <1>8, RestartTenancy
<1>9. CASE SetClock
  BY <1>9 DEF SetClock, TenancyInv, TermInv, StepInv, Agrees, MorphSeq, MorphLease,
              RunningSlot
<1>10. CASE UNCHANGED vars
  BY <1>10 DEF vars, TenancyInv, TermInv, StepInv, Agrees, MorphSeq, MorphLease,
               RunningSlot
<1> QED
  BY <1>1, <1>2, <1>3, <1>4, <1>5, <1>6, <1>7, <1>8, <1>9, <1>10
     DEF NextOneMorph, Tick, Environment, InstallOnFloor, InstallAny

LEMMA TenancyAlways ==
  SpecOneMorph => [](TypeOK /\ ControlInv /\ FloorInv /\ TenancyInv)
<1>1. Init => TenancyInv
  BY SlotsAssumption
     DEF Init, BlankState, EmptySlot, NoLease, Leased, NoController, Slot, TenancyInv,
         TermInv, StepInv, Agrees, MorphSeq, MorphLease, RunningSlot, Seqs
<1> QED
  BY <1>1, OneMorphControl, FloorAlways, TenancyStep, PTL DEF SpecOneMorph

\* A leased morph gets less control than its lease, for every lease, tick and
\* ceiling: restarts, faults and clock changes never buy it another second.
THEOREM LeaseIsABound == SpecOneMorph => []LeaseBoundsControl
<1>1. TenancyInv => LeaseBoundsControl
  BY DEF TenancyInv, TermInv, LeaseBoundsControl
<1> QED
  BY <1>1, TenancyAlways, PTL

-----------------------------------------------------------------------------
(* The refinement. *)

LEMMA LandlordInit == Init => Landlord!Init
  BY DEF Init, NoController, BlankState, Landlord!Init

LEMMA LandlordStep ==
  TypeOK /\ ControlInv /\ FloorInv /\ TenancyInv /\ [NextOneMorph]_vars
    => [Landlord!Next]_(Landlord!vars)
<1> SUFFICES ASSUME TypeOK, ControlInv, FloorInv, TenancyInv, [NextOneMorph]_vars
             PROVE  [Landlord!Next]_(Landlord!vars)
  OBVIOUS
<1>1. ASSUME tenure' = tenure, mem'.watermark = mem.watermark, ctl'.seq \in {0, ctl.seq}
      PROVE  [Landlord!Next]_(Landlord!vars)
  <2>1. CASE ctl'.seq = 0
    BY <1>1, <2>1 DEF Landlord!Next, Landlord!End
  <2>2. CASE ctl'.seq = ctl.seq
    BY <1>1, <2>2 DEF Landlord!vars
  <2> QED
    BY <1>1, <2>1, <2>2
<1>2. ASSUME NEW d \in DeviceState, OnFloor(d), RevertTo(d)
      PROVE  ctl'.seq = 0
  <2>1. OnFloor(Reverted(d)) /\ d.lkg = "A"
    BY <1>2, OnFloorKept DEF OnFloor
  <2> QED
    BY <1>2, <2>1 DEF RevertTo, Start, OnFloor, EmptySlot, FactoryRecord
<1>3. mem \in DeviceState /\ OnFloor(mem)
  BY DEF TypeOK, FloorInv
<1>4. CASE Provision
  BY <1>1, <1>4, WatermarkKept DEF Provision, Save, Start, FactoryRecord
<1>5. ASSUME NEW pkg \in FirmwarePackage, Install(pkg)
      PROVE  Landlord!Next
  <2>1. pkg.seq \in Seqs /\ pkg.lease \in LeaseOffers /\ pkg.seq > mem.watermark
    BY <1>5 DEF Install, Verified, FirmwarePackage
  <2>2. ctl'.seq = pkg.seq /\ mem'.watermark = pkg.seq
    BY <1>5 DEF Install, Save, Start, RecordOf, Staged, TypeOK, DeviceState
  <2>3. /\ tenure'[pkg.seq].term = pkg.lease
        /\ tenure'[pkg.seq].used = tenure[pkg.seq].used
        /\ \A n \in Seqs : n # pkg.seq => tenure'[n] = tenure[n]
    BY <1>5, <2>1 DEF Install, TypeOK, Tenure
  <2>4. Landlord!TakeUp(pkg.seq, pkg.lease)
    BY <2>1, <2>2, <2>3 DEF Landlord!TakeUp
  <2> QED
    BY <2>1, <2>4 DEF Landlord!Next
<1>6. CASE BeginTick
  <2>1. Aged.seq = ctl.seq
    BY DEF Aged, TypeOK, Controller
  <2>2. tenure' = tenure /\ mem'.watermark = mem.watermark
    BY <1>6, WatermarkKept DEF BeginTick, Save, RevertTo, RevertUnavailable
  <2>3. CASE ctl' = Aged
    BY <1>1, <2>1, <2>2, <2>3
  <2>4. CASE Leased(Running(mem).lease) /\ RevertTo(Charged(mem))
    BY <1>1, <1>2, <1>3, <2>2, <2>4, OnFloorKept, ChargedType
  <2> QED
    BY <1>6, <2>3, <2>4 DEF BeginTick
<1>7. CASE StepController
  <2>1. mem' = mem /\ ctl' = ctl
    BY <1>7 DEF StepController
  <2>2. CASE tenure' = tenure
    BY <1>1, <2>1, <2>2
  <2>3. CASE tenure' # tenure
    <3>0. PICK n \in Seqs : n = ctl.seq
      BY <1>7, <2>3, UseTenancy
    <3>1. /\ tenure' = Used(n)
          /\ tenure[n].term > 0 => tenure[n].used + TickSeconds < tenure[n].term
      BY <1>7, <2>3, <3>0, UseTenancy
    <3>2. /\ tenure'[n].term = tenure[n].term
          /\ tenure'[n].used = Capped(tenure[n].used + TickSeconds, MAX_LEASE_SECONDS)
          /\ \A k \in Seqs : k # n => tenure'[k] = tenure[k]
      BY <3>1 DEF Used, TypeOK, Tenure
    <3>3. Landlord!Use(n)
      BY <2>1, <3>0, <3>1, <3>2 DEF Landlord!Use, Landlord!UpToCeiling, Capped
    <3>4. Landlord!Next
      BY <3>0, <3>3 DEF Landlord!Next
    <3> QED
      BY <3>4
  <2> QED
    BY <2>2, <2>3
<1>8. CASE ControllerFaults
  BY <1>1, <1>8, WatermarkKept DEF ControllerFaults, Save
<1>9. CASE ScoreProbation
  BY <1>1, <1>9, ScoredAgrees DEF ScoreProbation
<1>10. CASE RevertAfterFailure
  <2>1. tenure' = tenure /\ mem'.watermark = mem.watermark
    BY <1>10, WatermarkKept DEF RevertAfterFailure, Save, RevertTo, RevertUnavailable
  <2>2. CASE RevertTo(mem)
    BY <1>1, <1>2, <1>3, <2>1, <2>2
  <2>3. CASE UNCHANGED <<quiet, ctl>>
    BY <1>1, <2>1, <2>3
  <2> QED
    BY <1>10, <2>2, <2>3 DEF RevertAfterFailure
<1>11. CASE Restart
  BY <1>1, <1>11, RestartTenancy DEF Restart
<1>12. CASE SetClock
  BY <1>1, <1>12 DEF SetClock
<1>13. CASE UNCHANGED vars
  BY <1>1, <1>13 DEF vars
<1> QED
  BY <1>4, <1>5, <1>6, <1>7, <1>8, <1>9, <1>10, <1>11, <1>12, <1>13
     DEF NextOneMorph, Tick, Environment, InstallOnFloor, InstallAny

\* The device is a landlord: a sequence number takes control once, under a
\* number above every earlier one, uses less than its term, and does not come
\* back after it left, whatever crashes or fails in between.
THEOREM DeviceImplementsTenancy == SpecOneMorph => ImplementsTenancy
<1> QED
  BY LandlordInit, LandlordStep, TenancyAlways, PTL
     DEF SpecOneMorph, ImplementsTenancy, Landlord!Spec
=============================================================================
