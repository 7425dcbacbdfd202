------------------------------ MODULE Package ------------------------------
(***************************************************************************)
(* A signed firmware package and the device's decision to accept it        *)
(* (server/ota/package.py).                                                *)
(*                                                                         *)
(* The checks that look at the package alone (artifact and manifest hash,  *)
(* signature, addressee, registry version) are summed up in `authentic`:   *)
(* nothing the device remembers can change their outcome.  The checks      *)
(* against the device's state keep their own fields.  lease is 0 when the  *)
(* package carries none.                                                   *)
(***************************************************************************)
EXTENDS Slots

CONSTANT LeaseOffers   \* the lease durations the server writes into packages

ASSUME LeaseOffersAssumption == LeaseOffers \subseteq Nat

FirmwarePackage ==
  [artifact : Program, seq : Seqs, base : Program, lease : LeaseOffers,
   authentic : BOOLEAN]

FreshBase(pkg, d) ==
  \/ Running(d).artifact = NoProgram
  \/ pkg.base = Running(d).artifact

Verified(pkg, d) ==
  /\ pkg.authentic
  /\ FreshBase(pkg, d)
  /\ pkg.seq > d.watermark
  /\ pkg.lease <= MAX_LEASE_SECONDS

-----------------------------------------------------------------------------
(* Staging an accepted package into the inactive slot. *)

RecordOf(pkg, now) ==
  [artifact |-> pkg.artifact,
   seq      |-> pkg.seq,
   lease    |-> IF pkg.lease = 0 THEN NoLease ELSE NewLease(pkg.lease, now)]

\* Mutant of Staged: the watermark does not move on acceptance.
StagedUnmarked(d, pkg, now) ==
  [d EXCEPT !.slots[InactiveSlot(d)] = RecordOf(pkg, now),
            !.candidate = InactiveSlot(d),
            !.status = "probation",
            !.ticks = PROBATION_HEALTHY_TICKS]

Staged(d, pkg, now) ==
  [d EXCEPT !.slots[InactiveSlot(d)] = RecordOf(pkg, now),
            !.watermark = pkg.seq,
            !.candidate = InactiveSlot(d),
            !.status = "probation",
            !.ticks = PROBATION_HEALTHY_TICKS]
=============================================================================
