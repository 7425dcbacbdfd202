------------------------------ MODULE Pipeline ------------------------------
(***************************************************************************)
(* The contract-constrained pipeline (server/manifest_pipeline.py) with    *)
(* the deployment ledger it writes (server/deploy/ledger.py) and the       *)
(* device it delivers to, for one device.                                  *)
(*                                                                         *)
(* A worker is a thread in run().  It holds the Distributor's lock of the  *)
(* device, which run() relies on, from the first check to the last write,  *)
(* and every ledger write is a step of its own: a raise may come between   *)
(* any two of them, and leaves the row where it is.  The device is the     *)
(* document of Slots; its clock, budgets and readings are left out, so a   *)
(* candidate may pass or fail and a lease may run out at any time.         *)
(*                                                                         *)
(* A deployment's identity stands for its manifest, its program and their  *)
(* hashes.  The one caller of run() that records what the device did       *)
(* (demo/safe_demo.py) records activations and the expiry of what was      *)
(* active; they come late and in any order.  Nothing records a failed      *)
(* probation: record_rollback has no caller.                               *)
(***************************************************************************)
EXTENDS Package, FiniteSetsExt

CONSTANTS
  Deployment,      \* ledger rows there may be, in the order they are opened
  Worker,          \* threads in run()
  ContextEvents,   \* events that name a situation: duplicates are dropped
  CrashEvents,     \* events that are not
  Nobody,          \* the lock is free, a worker has no row
  MaxRaises        \* bound: how often run() raises half way

ASSUME PipelineAssumption ==
  /\ Deployment \subseteq Nat /\ IsFiniteSet(Deployment)
  /\ Cardinality(Deployment) <= MaxSeq
  /\ Program = Deployment \cup {Factory}
  /\ Factory \notin Deployment
  /\ Nobody \notin Worker \cup Deployment \cup Program
  /\ ContextEvents \cap CrashEvents = {}
  /\ MaxRaises \in Nat

VARIABLES
  dev,      \* the device's document
  row,      \* the ledger: one row per deployment
  work,     \* what each worker is doing, and to which row
  lock,     \* the worker in the critical section of the Distributor
  reports,  \* outcomes the caller has seen and not yet recorded
  word,     \* history: what the device has said of each deployment
  raises    \* history: how many raises so far

vars == <<dev, row, work, lock, reports, word, raises>>

Event == ContextEvents \cup CrashEvents

-----------------------------------------------------------------------------
(* The ledger. *)

TERMINAL == {"REJECTED", "REVERTED", "ROLLED_BACK"}

Live == {"ACCEPTED_BY_DEVICE", "ACTIVE_ON_DEVICE"}

\* Mutant of TRANSITIONS: only what was active can be reverted.
TRANSITIONSActiveFirst(state) ==
  CASE state = "PROPOSED" -> {"MANIFEST_VALIDATED", "REJECTED"}
    [] state = "MANIFEST_VALIDATED" -> {"COMPILED", "REJECTED"}
    [] state = "COMPILED" -> {"SIMULATION_VERIFIED", "REJECTED"}
    [] state = "SIMULATION_VERIFIED" -> {"SIGNED", "REJECTED"}
    [] state = "SIGNED" -> {"DELIVERY_ATTEMPTED", "REJECTED"}
    [] state = "DELIVERY_ATTEMPTED" -> {"ACCEPTED_BY_DEVICE", "REJECTED"}
    [] state = "ACCEPTED_BY_DEVICE" -> {"ACTIVE_ON_DEVICE", "REJECTED"}
    [] state = "ACTIVE_ON_DEVICE" -> {"REVERTED", "ROLLED_BACK"}
    [] OTHER -> {}

TRANSITIONS(state) ==
  CASE state = "PROPOSED" -> {"MANIFEST_VALIDATED", "REJECTED"}
    [] state = "MANIFEST_VALIDATED" -> {"COMPILED", "REJECTED"}
    [] state = "COMPILED" -> {"SIMULATION_VERIFIED", "REJECTED"}
    [] state = "SIMULATION_VERIFIED" -> {"SIGNED", "REJECTED"}
    [] state = "SIGNED" -> {"DELIVERY_ATTEMPTED", "REJECTED"}
    [] state = "DELIVERY_ATTEMPTED" -> {"ACCEPTED_BY_DEVICE", "REJECTED"}
    [] state = "ACCEPTED_BY_DEVICE" ->
         {"ACTIVE_ON_DEVICE", "REJECTED", "REVERTED", "ROLLED_BACK"}
    [] state = "ACTIVE_ON_DEVICE" -> {"REVERTED", "ROLLED_BACK"}
    [] OTHER -> {}

State == {"none", "PROPOSED", "MANIFEST_VALIDATED", "COMPILED",
          "SIMULATION_VERIFIED", "SIGNED", "DELIVERY_ATTEMPTED"}
           \cup Live \cup TERMINAL

Row == [state : State, event : Event \cup {Nobody},
        base : Program \cup {Nobody}, seq : Nat]

NoRow == [state |-> "none", event |-> Nobody, base |-> Nobody, seq |-> 0]

AdvanceTo(d, to) ==
  /\ to \in TRANSITIONS(row[d].state)
  /\ row' = [row EXCEPT ![d].state = to]

\* Mutant of NextSequence: reader and writer both count one up.
BumpedTwice == Max({0} \cup {row[d].seq : d \in Deployment}) + 2

\* A number is spent once it is in a row, whatever became of the package.
NextSequence == Max({0} \cup {row[d].seq : d \in Deployment}) + 1

\* Mutant of LiveForEvent: accepted is not yet adapting.
ActiveForEvent(ev) == \E d \in Deployment : row[d].event = ev /\ row[d].state = "ACTIVE_ON_DEVICE"

LiveForEvent(ev) == \E d \in Deployment : row[d].event = ev /\ row[d].state \in Live

-----------------------------------------------------------------------------
(* The pipeline. *)

Idle == [pc |-> "idle", row |-> Nobody, event |-> Nobody, base |-> Nobody,
         seq |-> 0, ok |-> FALSE]

Init ==
  /\ dev = Provisioned(BlankState)
  /\ row = [d \in Deployment |-> NoRow]
  /\ work = [p \in Worker |-> Idle]
  /\ lock = Nobody
  /\ reports = {}
  /\ word = [d \in Deployment |-> {}]
  /\ raises = 0

\* What an event says the device runs: the truth when it was sent, which may
\* by now be the other slot, or nothing, and then the channel is asked.
ReportedHash == {dev.slots[s].artifact : s \in Slot} \ {NoProgram}

\* Mutant of MayEnter: two runs of one device at once.
MayAlwaysEnter == TRUE

MayEnter == lock = Nobody

\* Under the lock: the duplicate check, and the base.  A task dropped here, or
\* because generation is halted for the device, changes nothing.
Start(p) ==
  /\ work[p] = Idle
  /\ MayEnter
  /\ \E d \in Deployment : row[d] = NoRow     \* bound
  /\ \E ev \in Event, base \in ReportedHash :
       /\ ev \in ContextEvents => ~LiveForEvent(ev)
       /\ work' = [work EXCEPT ![p] = [Idle EXCEPT !.pc = "open", !.event = ev, !.base = base]]
  /\ lock' = p
  /\ UNCHANGED <<dev, row, reports, word, raises>>

Open(p) ==
  /\ work[p].pc = "open"
  /\ \E d \in Deployment :
       /\ row[d] = NoRow
       /\ \A e \in Deployment : e < d => row[e] # NoRow
       /\ row' = [row EXCEPT ![d] = [state |-> "PROPOSED", event |-> work[p].event,
                                     base |-> work[p].base, seq |-> 0]]
       /\ work' = [work EXCEPT ![p].pc = "gates", ![p].row = d]
  /\ UNCHANGED <<dev, lock, reports, word, raises>>

Leave(p) ==
  /\ work' = [work EXCEPT ![p] = Idle]
  /\ lock' = Nobody

\* Proposal and validation, compilation, the closed loop: each gate lets the
\* manifest through to its state or rejects it.
Gate(p) ==
  /\ work[p].pc = "gates"
  /\ \/ /\ \E to \in {"MANIFEST_VALIDATED", "COMPILED", "SIMULATION_VERIFIED"} :
             /\ AdvanceTo(work[p].row, to)
             /\ work' = [work EXCEPT ![p].pc = IF to = "SIMULATION_VERIFIED" THEN "number" ELSE @]
        /\ UNCHANGED lock
     \/ AdvanceTo(work[p].row, "REJECTED") /\ Leave(p)
  /\ UNCHANGED <<dev, reports, word, raises>>

\* next_sequence reads in a transaction of its own.
Number(p) ==
  /\ work[p].pc = "number"
  /\ work' = [work EXCEPT ![p].pc = "sign", ![p].seq = NextSequence]
  /\ UNCHANGED <<dev, row, lock, reports, word, raises>>

Sign(p) ==
  /\ work[p].pc = "sign"
  /\ "SIGNED" \in TRANSITIONS(row[work[p].row].state)
  /\ row' = [row EXCEPT ![work[p].row].state = "SIGNED", ![work[p].row].seq = work[p].seq]
  /\ work' = [work EXCEPT ![p].pc = "attempt"]
  /\ UNCHANGED <<dev, lock, reports, word, raises>>

Attempt(p) ==
  /\ work[p].pc = "attempt"
  /\ AdvanceTo(work[p].row, "DELIVERY_ATTEMPTED")
  /\ work' = [work EXCEPT ![p].pc = "deliver"]
  /\ UNCHANGED <<dev, lock, reports, word, raises>>

PackageOf(p, lease) ==
  [artifact |-> work[p].row, seq |-> work[p].seq, base |-> work[p].base,
   lease |-> lease, authentic |-> TRUE]

\* Mutant of Answered: the device installs and its answer is lost.
AnswerMayBeLost(p) == work' \in {[work EXCEPT ![p].pc = "conclude", ![p].ok = b] : b \in BOOLEAN}

Answered(p) == work' = [work EXCEPT ![p].pc = "conclude", ![p].ok = TRUE]

\* The device verifies and stages, or the package does not get there, or the
\* device refuses it: only the first changes the device.
Deliver(p) ==
  /\ work[p].pc = "deliver"
  /\ \/ \E lease \in LeaseOffers :
          /\ Verified(PackageOf(p, lease), dev)
          /\ dev' = Staged(dev, PackageOf(p, lease), 0)
          /\ word' = [word EXCEPT ![work[p].row] = @ \cup {"installed"}]
          /\ Answered(p)
     \/ /\ work' = [work EXCEPT ![p].pc = "conclude"]
        /\ UNCHANGED <<dev, word>>
  /\ UNCHANGED <<row, lock, reports, raises>>

Conclude(p) ==
  /\ work[p].pc = "conclude"
  /\ AdvanceTo(work[p].row, IF work[p].ok THEN "ACCEPTED_BY_DEVICE" ELSE "REJECTED")
  /\ Leave(p)
  /\ UNCHANGED <<dev, reports, word, raises>>

\* The agent, a gate, the database or the device raises, or the process ends:
\* the lock goes, the row stays as it is, and no one comes back to it.
Raise(p) ==
  /\ work[p] # Idle
  /\ raises < MaxRaises
  /\ raises' = raises + 1
  /\ Leave(p)
  /\ UNCHANGED <<dev, row, reports, word>>

-----------------------------------------------------------------------------
(* The device on its own, and the caller that records what it did. *)

Say(d, w) == word' = IF d \in Deployment THEN [word EXCEPT ![d] = @ \cup {w}] ELSE word

\* The caller has seen an outcome it will record.
Hear(d, outcome) ==
  reports' = reports \cup {[row |-> e, outcome |-> outcome] : e \in {d} \cap Deployment}

PassProbation ==
  /\ dev.status = "probation"
  /\ dev' = Promoted(dev)
  /\ Say(Running(dev).artifact, "activated")
  /\ Hear(Running(dev).artifact, "ACTIVE_ON_DEVICE")
  /\ UNCHANGED <<row, work, lock, raises>>

WasActivated(d) == d \in Deployment /\ "activated" \in word[d]

\* The caller waits for an expiry only once it has seen the activation.
LeaseEnds ==
  /\ Leased(Running(dev).lease)
  /\ HasKnownGood(dev)
  /\ dev' = Reverted(dev)
  /\ Say(Running(dev).artifact, "reverted")
  /\ IF WasActivated(Running(dev).artifact) THEN Hear(Running(dev).artifact, "REVERTED")
                                            ELSE UNCHANGED reports
  /\ UNCHANGED <<row, work, lock, raises>>

\* A candidate that faults or needs the safe state; the caller exits and records nothing.
FailProbation ==
  /\ dev.status = "probation"
  /\ HasKnownGood(dev)
  /\ dev' = Reverted([dev EXCEPT !.status = "failed"])
  /\ Say(Running(dev).artifact, "reverted")
  /\ UNCHANGED <<row, work, lock, reports, raises>>

\* The caller has the id from run()'s result, so never while run() is in it.
\* A transition that is not legal raises in the caller and changes nothing.
Record(r) ==
  /\ r \in reports
  /\ row[r.row].state # "DELIVERY_ATTEMPTED"
  /\ reports' = reports \ {r}
  /\ row' = IF r.outcome \in TRANSITIONS(row[r.row].state)
              THEN [row EXCEPT ![r.row].state = r.outcome]
              ELSE row
  /\ UNCHANGED <<dev, work, lock, word, raises>>

Worked(p) ==
  \/ Start(p) \/ Open(p) \/ Gate(p) \/ Number(p) \/ Sign(p) \/ Attempt(p)
  \/ Deliver(p) \/ Conclude(p) \/ Raise(p)

Next ==
  \/ \E p \in Worker : Worked(p)
  \/ PassProbation \/ LeaseEnds \/ FailProbation
  \/ \E r \in reports : Record(r)

Spec == Init /\ [][Next]_vars

-----------------------------------------------------------------------------
(* Properties. *)

\* Type invariant.
TypeOK ==
  /\ dev \in DeviceState
  /\ row \in [Deployment -> Row]
  /\ work \in [Worker -> [pc : {"idle", "open", "gates", "number", "sign", "attempt", "deliver", "conclude"},
                         row : Deployment \cup {Nobody}, event : Event \cup {Nobody},
                         base : Program \cup {Nobody}, seq : Nat, ok : BOOLEAN]]
  /\ lock \in Worker \cup {Nobody}
  /\ reports \subseteq [row : Deployment, outcome : {"ACTIVE_ON_DEVICE", "REVERTED"}]
  /\ word \in [Deployment -> SUBSET {"installed", "activated", "reverted"}]
  /\ raises \in 0 .. MaxRaises

\* A sequence number is spent once, although it is read in one transaction and
\* written in another, and a run may raise after the device has installed: no two
\* rows carry the same, and what is about to be delivered is above the watermark
\* of the device, which never refuses this server's package for its number
\* (ledger.next_sequence).
NumbersAreSpentOnce ==
  /\ \A d, e \in Deployment : d # e /\ row[d].seq > 0 => row[d].seq # row[e].seq
  /\ \A p \in Worker : work[p].pc = "deliver" => work[p].seq > dev.watermark

\* The ledger never counts two live deployments for one situation, although
\* the check is many steps before the acceptance (ledger.live_for_event).
OneLivePerEvent ==
  \A d, e \in Deployment :
    /\ d # e
    /\ row[d].event \in ContextEvents
    /\ row[d].event = row[e].event
    => ~(row[d].state \in Live /\ row[e].state \in Live)

\* The expiry of what was active is never lost on the ledger: until its row is closed
\* it is still to be recorded, although it may be recorded before the activation,
\* and an illegal transition only raises in the caller (ledger.TRANSITIONS).
ExpiryClosesTheRow ==
  \A d \in Deployment :
    {"activated", "reverted"} \subseteq word[d] =>
      \/ row[d].state \in TERMINAL
      \/ [row |-> d, outcome |-> "REVERTED"] \in reports

\* The ledger's rows tell no more than the device has said.
ClaimOf(state) ==
  CASE state = "none" -> "none"
    [] state = "DELIVERY_ATTEMPTED" -> "sent"
    [] state = "ACCEPTED_BY_DEVICE" -> "held"
    [] state = "ACTIVE_ON_DEVICE" -> "running"
    [] state = "REJECTED" -> "refused"
    [] state \in {"REVERTED", "ROLLED_BACK"} -> "over"
    [] OTHER -> "intended"

L == INSTANCE Lifecycle WITH claim <- [d \in Deployment |-> ClaimOf(row[d].state)]

\* Every step of pipeline, device and caller is a step of Lifecycle: no row is
\* ahead of the device's word, a rejected one was never installed and never
\* will be, and nothing that ended comes back.
ImplementsLifecycle == L!Spec

\* "Probation can still fail" (ledger.py): a deployment the device has ended does not
\* stay live in the ledger.  No caller records a failed probation, so it does.
FailureReachesTheLedger ==
  \A d \in Deployment : "reverted" \in word[d] /\ reports = {} => row[d].state \notin Live

\* What live_for_event answers is a deployment the device has, once every
\* outcome the device reported is recorded.
LiveMeansHeld ==
  \A d \in Deployment :
    /\ row[d].state \in Live
    /\ reports = {}
    => \E s \in Slot : dev.slots[s].artifact = d
=============================================================================
