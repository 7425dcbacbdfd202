------------------------------- MODULE Slots -------------------------------
(***************************************************************************)
(* The document a device keeps on disk (edge_node/slots.py): two firmware  *)
(* slots, the lease of each, which slot is active, which one is the        *)
(* last-known-good, the candidate on probation and the replay watermark.   *)
(*                                                                         *)
(* A compiled artifact is a member of Program: its identity stands for its *)
(* content hash, which is how the code compares artifacts.                 *)
(***************************************************************************)
EXTENDS Naturals

CONSTANTS
  Program,                 \* compiled controller programs
  NoProgram,               \* an empty slot
  Factory,                 \* the image a device ships with
  PROBATION_HEALTHY_TICKS, \* healthy ticks a candidate must survive
  LOCAL_FAILURE_LIMIT,     \* crash budget of an established artifact
  MAX_LEASE_SECONDS,       \* the device's own ceiling on a lease
  TickSeconds,             \* simulated seconds per tick
  MaxSeq,                  \* bound: largest sequence number the server issues
  MaxTime                  \* bound: largest reading of the wall clock

ASSUME SlotsAssumption ==
  /\ NoProgram \notin Program
  /\ Factory \in Program
  /\ PROBATION_HEALTHY_TICKS \in Nat \ {0}
  /\ LOCAL_FAILURE_LIMIT \in Nat \ {0}
  /\ MAX_LEASE_SECONDS \in Nat \ {0}
  /\ TickSeconds \in Nat \ {0}
  /\ MaxSeq \in Nat
  /\ MaxTime \in Nat

Slot == {"A", "B"}
Seqs == 1 .. MaxSeq
Time == 0 .. MaxTime

Capped(n, cap) == IF n > cap THEN cap ELSE n

-----------------------------------------------------------------------------
(* Leases.  A lease of duration 0 stands for None: the class requires a    *)
(* positive duration.  elapsed is capped at duration, which is exact for   *)
(* everything the code asks of it (is it spent, how much is left).         *)

Lease == [duration : Nat, elapsed : Nat, at : Time]
NoLease == [duration |-> 0, elapsed |-> 0, at |-> 0]

Leased(l) == l.duration > 0

NewLease(duration, now) == [duration |-> duration, elapsed |-> 0, at |-> now]

Advance(l) == [l EXCEPT !.elapsed = Capped(@ + TickSeconds, l.duration)]

SinceInstalled(l, now) == IF now > l.at THEN now - l.at ELSE 0

\* Mutant of Consumed: only the wall clock is asked.
ConsumedByWall(l, now) == SinceInstalled(l, now)

Consumed(l, now) == IF SinceInstalled(l, now) > l.elapsed
                      THEN SinceInstalled(l, now)
                      ELSE l.elapsed

Expired(l, now) == Consumed(l, now) >= l.duration

-----------------------------------------------------------------------------
SlotRecord == [artifact : Program \cup {NoProgram}, seq : Nat, lease : Lease]

EmptySlot == [artifact |-> NoProgram, seq |-> 0, lease |-> NoLease]

FactoryRecord == [artifact |-> Factory, seq |-> 0, lease |-> NoLease]

DeviceState ==
  [slots     : [Slot -> SlotRecord],
   active    : Slot,
   lkg       : Slot,
   candidate : Slot \cup {"none"},
   status    : {"none", "probation", "active", "failed"},
   ticks     : 0 .. PROBATION_HEALTHY_TICKS,
   failures  : 0 .. LOCAL_FAILURE_LIMIT,   \* capped: only "limit reached" is asked
   watermark : 0 .. MaxSeq]

BlankState ==
  [slots     |-> [s \in Slot |-> EmptySlot],
   active    |-> "A",
   lkg       |-> "A",
   candidate |-> "none",
   status    |-> "none",
   ticks     |-> 0,
   failures  |-> 0,
   watermark |-> 0]

(* During probation the candidate executes while active still names the    *)
(* artifact the device would fall back to.                                 *)
RunningSlot(d) == IF d.status = "probation" /\ d.candidate # "none"
                    THEN d.candidate
                    ELSE d.active

\* Mutant of InactiveSlot: the slot that is not running.
NotRunningSlot(d) == IF RunningSlot(d) = "A" THEN "B" ELSE "A"

InactiveSlot(d) == IF d.active = "A" THEN "B" ELSE "A"

Running(d) == d.slots[RunningSlot(d)]

LastKnownGood(d) == d.slots[d.lkg]

HasKnownGood(d) == LastKnownGood(d).artifact # NoProgram

-----------------------------------------------------------------------------
(* What the lifecycle does to the document. *)

Provisioned(d) == [d EXCEPT !.slots["A"] = FactoryRecord,
                            !.active = "A",
                            !.lkg = "A",
                            !.candidate = "none",
                            !.status = "none",
                            !.failures = 0]

\* Mutant of Reverted: active becomes the candidate, not the fallback.
RevertedToCandidate(d) ==
  [d EXCEPT !.slots[RunningSlot(d)].lease = NoLease,
            !.status = IF @ = "probation" THEN "failed" ELSE @,
            !.active = d.candidate,
            !.candidate = "none"]

\* Mutant of Reverted: the outgoing slot is erased.
RevertedErasing(d) ==
  [d EXCEPT !.slots[RunningSlot(d)] = EmptySlot,
            !.status = IF @ = "probation" THEN "failed" ELSE @,
            !.active = d.lkg,
            !.candidate = "none"]

Reverted(d) ==
  [d EXCEPT !.slots[RunningSlot(d)].lease = NoLease,
            !.status = IF @ = "probation" THEN "failed" ELSE @,
            !.active = d.lkg,
            !.candidate = "none"]

Faulted(d) == [d EXCEPT !.failures = Capped(@ + 1, LOCAL_FAILURE_LIMIT),
                        !.status = IF @ = "probation" THEN "failed" ELSE @]

\* Mutant of Promoted: last-known-good is read after active has moved.
PromotedInPlace(d) ==
  [d EXCEPT !.lkg = IF d.candidate = "none" THEN d.active ELSE d.candidate,
            !.active = IF d.candidate = "none" THEN d.active ELSE d.candidate,
            !.status = "active",
            !.ticks = 0,
            !.failures = 0]

Promoted(d) == [d EXCEPT !.lkg = d.active,
                         !.active = IF d.candidate = "none"
                                      THEN d.active
                                      ELSE d.candidate,
                         !.status = "active",
                         !.ticks = 0,
                         !.failures = 0]
=============================================================================
