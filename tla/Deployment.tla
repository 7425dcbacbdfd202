----------------------------- MODULE Deployment -----------------------------
(***************************************************************************)
(* How firmware reaches one device of the live system (server/main.py):    *)
(* the orchestrator's handler, one at a time per device; the reversion     *)
(* thread its scheduler starts; operators at the dashboard, each request   *)
(* in a thread of its own; and the device, which is pushed to and which    *)
(* polls.  All three kinds of server actor go through deployer.deploy.     *)
(* A firmware is its hash.  A database session is one step, except that    *)
(* write_history reads the live rows before it locks anything.  Time is    *)
(* left out: the window may end, and a crash may be recent, at any moment. *)
(***************************************************************************)
EXTENDS Naturals, Sequences, FiniteSetsExt

CONSTANTS
  Firmware,        \* hashes
  Baseline,        \* what the device runs before its first deploy
  Generated,       \* what the agent may write
  Situation,       \* context events a device may report
  Operator,        \* dashboard requests that may run at a time
  None,
  Provisioned,     \* whether the baseline is in the store and in the history
  STRIKE_LIMIT,
  MaxReports, MaxPresses, MaxFaults, MaxRestarts   \* bounds of the runs

Handler == "handler"
Reverter == "reverter"
Actor == {Handler, Reverter} \cup Operator

ASSUME DeploymentAssumption ==
  /\ Baseline \in Firmware /\ Generated \subseteq Firmware /\ None \notin Firmware
  /\ None \notin Situation
  /\ Handler \notin Operator /\ Reverter \notin Operator
  /\ Provisioned \in BOOLEAN
  /\ STRIKE_LIMIT \in Nat \ {0}
  /\ MaxReports \in Nat /\ MaxPresses \in Nat /\ MaxFaults \in Nat /\ MaxRestarts \in Nat

VARIABLES
  device,    \* the device's row
  history,   \* the history table, oldest first
  store,     \* the firmware store
  tasks,     \* the distributor's queue
  job,       \* the scheduler's entry for the device
  work,      \* what each actor is in the middle of
  running,   \* the firmware file on the device
  poller,    \* the watchdog's poll thread
  late,      \* pushes the server gave up on and the device has yet to read
  booted,    \* history variable: all that was put in place on the device
  struck,    \* history variable: firmware a crash was counted against
  used       \* how much of each bound is used

server == <<device, history, store, tasks, job, work>>
node == <<running, poller, late, booted>>
vars == <<server, node, struck, used>>

Hash == Firmware \cup {None}
RecordType == {"morph", "patch", "reversion", "rollback"}

DeviceRow ==
  [active : Hash, inactive : Hash, assigned : Hash, strikes : Nat, halted : BOOLEAN]

HistoryRow == [fw : Firmware, type : RecordType, status : {"deployed", "superseded"}]

Task == [trigger : {"context", "crash"}, situation : Situation \cup {None}, hash : Firmware]

Job == [at : {"none", "waiting", "reverting"}, situation : Situation \cup {None}]

Work ==
  [at : {"idle", "generate", "halt", "look_up", "stage", "promote", "push", "read", "write",
         "confirm"},
   type : RecordType, fw : Hash, situation : Situation \cup {None},
   live : SUBSET Nat, acked : BOOLEAN]

Used == [reports : Nat, presses : Nat, faults : Nat, restarts : Nat]

TypeOK ==
  /\ device \in DeviceRow
  /\ history \in Seq(HistoryRow)
  /\ store \subseteq Firmware
  /\ tasks \in Seq(Task)
  /\ job \in Job
  /\ work \in [Actor -> Work]
  /\ running \in Firmware
  /\ poller \in [at : {"idle", "fetch", "apply", "dead"}, fw : Hash]
  /\ late \subseteq Firmware
  /\ booted \subseteq Firmware
  /\ struck \subseteq Firmware
  /\ used \in Used

-----------------------------------------------------------------------------
(* Lookups in the history table and the A/B slots. *)

LiveRows == {i \in DOMAIN history : history[i].status = "deployed"}

LatestLive == IF LiveRows = {} THEN 0 ELSE Max(LiveRows)

FwOfLatest(rows) == IF rows = {} THEN None ELSE history[Max(rows)].fw

LastKnownGood ==
  IF device.inactive # None /\ device.inactive # device.assigned
    THEN device.inactive
    ELSE LET current == IF device.assigned # None THEN device.assigned ELSE device.active
         IN  FwOfLatest({i \in DOMAIN history :
                           history[i].fw # current /\ history[i].type # "morph"})

\* Only among the rows still live.
PreMorphAmongLive ==
  IF LatestLive = 0 \/ history[LatestLive].type # "morph"
    THEN None
    ELSE FwOfLatest({i \in LiveRows : history[i].fw # history[LatestLive].fw})

PreMorphHash ==
  IF LatestLive = 0 \/ history[LatestLive].type # "morph"
    THEN None
    ELSE FwOfLatest({i \in 1 .. LatestLive : history[i].fw # history[LatestLive].fw})

\* Only the artifact reported by the crash, and only while its deploy is recent.
CrashIsAttributable(hash, recent) ==
  LatestLive # 0 /\ history[LatestLive].fw = hash /\ recent

Morphing(situation) == job.at # "none" /\ job.situation = situation

-----------------------------------------------------------------------------
(* Writes of the device row, and the scheduler's. *)

RecordStrike(row) == [row EXCEPT !.strikes = @ + 1]

Promoted(row, fw) == [row EXCEPT !.inactive = fw, !.assigned = fw]

ConfirmActive(row, fw) ==
  IF row.active = fw THEN row
  ELSE [row EXCEPT !.inactive = IF row.active # None THEN row.active ELSE @,
                   !.active = fw]

NoJob == [at |-> "none", situation |-> None]

Scheduled(situation) == [at |-> "waiting", situation |-> situation]

Idle == [at |-> "idle", type |-> "patch", fw |-> None, situation |-> None,
         live |-> {}, acked |-> FALSE]

Begin(at, type, fw) == [Idle EXCEPT !.at = at, !.type = type, !.fw = fw]

Init ==
  /\ device = [active |-> IF Provisioned THEN Baseline ELSE None, inactive |-> None,
               assigned |-> None, strikes |-> 0, halted |-> FALSE]
  /\ history = IF Provisioned
                 THEN <<[fw |-> Baseline, type |-> "patch", status |-> "deployed"]>>
                 ELSE <<>>
  /\ store = IF Provisioned THEN {Baseline} ELSE {}
  /\ tasks = <<>>
  /\ job = NoJob
  /\ work = [a \in Actor |-> Idle]
  /\ running = Baseline
  /\ poller = [at |-> "idle", fw |-> None]
  /\ late = {}
  /\ booted = {Baseline}
  /\ struck = {}
  /\ used = [reports |-> 0, presses |-> 0, faults |-> 0, restarts |-> 0]

-----------------------------------------------------------------------------
(* The device reports; the listener records it and queues a task. *)

Report(trigger, situation) ==
  /\ used.reports < MaxReports
  /\ used' = [used EXCEPT !.reports = @ + 1]
  /\ device' = [device EXCEPT !.active = IF @ = None THEN running ELSE @]
  /\ tasks' = Append(tasks, [trigger |-> trigger, situation |-> situation, hash |-> running])
  /\ UNCHANGED <<history, store, job, work, node, struck>>

-----------------------------------------------------------------------------
(* The handler: the event loop's code up to the next await is one step. *)

\* The task at the head of the queue is being started, and the device takes one.
Taking(trigger) ==
  /\ work[Handler].at = "idle"
  /\ tasks # <<>>
  /\ Head(tasks).trigger = trigger
  /\ tasks' = Tail(tasks)
  /\ UNCHANGED <<history, store, node, used>>

\* The halt forgotten.
DroppedIfMorphing(t) == t.trigger = "context" /\ Morphing(t.situation)

\* The live morph forgotten.
DroppedIfHalted(t) == device.halted

Dropped(t) == device.halted \/ (t.trigger = "context" /\ Morphing(t.situation))

DropTask ==
  /\ \E trigger \in {"context", "crash"} : Taking(trigger)
  /\ Dropped(Head(tasks))
  /\ UNCHANGED <<device, job, work, struck>>

TakeContext ==
  /\ Taking("context")
  /\ ~Dropped(Head(tasks))
  /\ work' = [work EXCEPT ![Handler] =
                [Begin("generate", "morph", None) EXCEPT !.situation = Head(tasks).situation]]
  /\ UNCHANGED <<device, job, struck>>

\* Roll back at the limit, the pending reversion cancelled first; otherwise go on.
RollBackOr(row, otherwise) ==
  IF row.strikes >= STRIKE_LIMIT
    THEN /\ job' = NoJob
         /\ work' = [work EXCEPT ![Handler] = Begin("halt", "rollback", None)]
    ELSE /\ work' = [work EXCEPT ![Handler] = otherwise]
         /\ UNCHANGED job

TakeCrash(recent) ==
  /\ Taking("crash")
  /\ ~Dropped(Head(tasks))
  /\ LET patching == Begin("generate", "patch", None)
         hash == Head(tasks).hash
     IN  IF CrashIsAttributable(hash, recent)
           THEN /\ device' = RecordStrike(device)
                /\ struck' = struck \cup {hash}
                /\ RollBackOr(device', patching)
           ELSE /\ work' = [work EXCEPT ![Handler] = patching]
                /\ UNCHANGED <<device, job, struck>>

AgentVerifies(fw) ==
  /\ work[Handler].at = "generate"
  /\ work' = [work EXCEPT ![Handler].at = "stage", ![Handler].fw = fw]
  /\ UNCHANGED <<device, history, store, tasks, job, node, struck, used>>

AgentEscalates ==
  /\ work[Handler].at = "generate"
  /\ device' = RecordStrike(device)
  /\ RollBackOr(device', Idle)
  /\ UNCHANGED <<history, store, tasks, node, struck, used>>

\* An exception: the task is dropped, not redelivered.
AgentRaises ==
  /\ work[Handler].at = "generate"
  /\ work' = [work EXCEPT ![Handler] = Idle]
  /\ UNCHANGED <<device, history, store, tasks, job, node, struck, used>>

-----------------------------------------------------------------------------
(* rollback.rollback, by the handler or by an operator. *)

PressRollback(o) ==
  /\ work[o].at = "idle"
  /\ used.presses < MaxPresses
  /\ used' = [used EXCEPT !.presses = @ + 1]
  /\ work' = [work EXCEPT ![o] = Begin("halt", "rollback", None)]
  /\ UNCHANGED <<device, history, store, tasks, job, node, struck>>

Halted(row) == [row EXCEPT !.halted = TRUE]

Halt(a) ==
  /\ work[a].at = "halt"
  /\ device' = Halted(device)
  /\ work' = [work EXCEPT ![a].at = "look_up"]
  /\ UNCHANGED <<history, store, tasks, job, node, struck, used>>

\* Without the check for a missing artifact.
LookUpUnchecked(a) ==
  /\ work[a].at = "look_up"
  /\ work' = [work EXCEPT ![a] = Begin("stage", "rollback", LastKnownGood)]
  /\ UNCHANGED <<device, history, store, tasks, job, node, struck, used>>

\* Unavailable when nothing is known good, or the store has lost it.
LookUp(a) ==
  /\ work[a].at = "look_up"
  /\ work' = [work EXCEPT ![a] = IF LastKnownGood \in store
                                   THEN Begin("stage", "rollback", LastKnownGood)
                                   ELSE Idle]
  /\ UNCHANGED <<device, history, store, tasks, job, node, struck, used>>

\* The operator's acknowledgement.
ClearStrikes ==
  /\ used.presses < MaxPresses
  /\ used' = [used EXCEPT !.presses = @ + 1]
  /\ device' = [device EXCEPT !.strikes = 0, !.halted = FALSE]
  /\ UNCHANGED <<history, store, tasks, job, work, node, struck>>

-----------------------------------------------------------------------------
(* The scheduler's job ends its wait.  Its thread cannot be cancelled; the *)
(* next one does not start before it ends, as the window is far longer     *)
(* than a push may take.                                                   *)

TimerFires ==
  /\ job.at = "waiting"
  /\ work[Reverter].at = "idle"
  /\ IF PreMorphHash \in store
       THEN /\ job' = [job EXCEPT !.at = "reverting"]
            /\ work' = [work EXCEPT ![Reverter] = Begin("stage", "reversion", PreMorphHash)]
       ELSE /\ job' = NoJob
            /\ UNCHANGED work
  /\ UNCHANGED <<device, history, store, tasks, node, struck, used>>

-----------------------------------------------------------------------------
(* deployer.deploy, by any of them. *)

\* A store that already holds something taken to hold the artifact.
StagedOnce(fw) == IF store = {} THEN {fw} ELSE store

\* The artifact is written before the row names it, and another may come between.
Staged(fw) == store \cup {fw}

Stage(a) ==
  /\ work[a].at = "stage"
  /\ store' = Staged(work[a].fw)
  /\ work' = [work EXCEPT ![a].at = "promote"]
  /\ UNCHANGED <<device, history, tasks, job, node, struck, used>>

Promote(a) ==
  /\ work[a].at = "promote"
  /\ device' = Promoted(device, work[a].fw)
  /\ work' = [work EXCEPT ![a].at = "push"]
  /\ UNCHANGED <<history, store, tasks, job, node, struck, used>>

Write(fw) == running' = fw /\ booted' = booted \cup {fw}

PushApplied(a, acked) ==
  /\ work[a].at = "push"
  /\ Write(work[a].fw)
  /\ work' = [work EXCEPT ![a].at = "read", ![a].acked = acked]
  /\ acked \/ used.faults < MaxFaults
  /\ used' = [used EXCEPT !.faults = IF acked THEN @ ELSE @ + 1]
  /\ UNCHANGED <<device, history, store, tasks, job, poller, late, struck>>

\* Never read, or read after the server has stopped waiting.
PushMissed(a) ==
  /\ work[a].at = "push"
  /\ used.faults < MaxFaults
  /\ used' = [used EXCEPT !.faults = @ + 1]
  /\ work' = [work EXCEPT ![a].at = "read", ![a].acked = FALSE]
  /\ late' \in {late, late \cup {work[a].fw}}
  /\ UNCHANGED <<device, history, store, tasks, job, running, poller, booted, struck>>

ReadLive(a) ==
  /\ work[a].at = "read"
  /\ work' = [work EXCEPT ![a].at = "write", ![a].live = LiveRows]
  /\ UNCHANGED <<device, history, store, tasks, job, node, struck, used>>

Superseded(rows, i) == IF i \in rows THEN [history[i] EXCEPT !.status = "superseded"]
                                     ELSE history[i]

WriteHistory(a) ==
  /\ work[a].at = "write"
  /\ history' = Append([i \in DOMAIN history |-> Superseded(work[a].live, i)],
                       [fw |-> work[a].fw, type |-> work[a].type, status |-> "deployed"])
  /\ work' = [work EXCEPT ![a].at = "confirm", ![a].live = {}]
  /\ UNCHANGED <<device, store, tasks, job, node, struck, used>>

\* Confirmed without waiting for the device's word.
ConfirmedAnyway(row, w) == ConfirmActive(row, w.fw)

Confirmed(row, w) == IF w.acked THEN ConfirmActive(row, w.fw) ELSE row

\* A morph schedules its reversion, in place of any other; the reverter's job is done.
JobAfter(a) ==
  IF work[a].type = "morph" THEN Scheduled(work[a].situation)
  ELSE IF a = Reverter /\ job.at = "reverting" THEN NoJob
  ELSE job

Finish(a) ==
  /\ work[a].at = "confirm"
  /\ device' = Confirmed(device, work[a])
  /\ job' = JobAfter(a)
  /\ work' = [work EXCEPT ![a] = Idle]
  /\ UNCHANGED <<history, store, tasks, node, struck, used>>

-----------------------------------------------------------------------------
(* The watchdog: its OTA thread above, its poll thread here. *)

LateDelivery(fw) ==
  /\ fw \in late
  /\ late' = late \ {fw}
  /\ Write(fw)
  /\ UNCHANGED <<server, poller, struck, used>>

\* Compared with the row instead of what the device reports.
InSyncByRow == device.assigned = None \/ device.assigned = device.active

InSync == device.assigned = None \/ device.assigned = running

Poll ==
  /\ poller.at = "idle"
  /\ ~InSync
  /\ poller' = [poller EXCEPT !.at = "fetch"]
  /\ UNCHANGED <<server, running, late, booted, struck, used>>

Fetch ==
  /\ poller.at = "fetch"
  /\ poller' = IF device.assigned \in store
                 THEN [at |-> "apply", fw |-> device.assigned]
                 ELSE [at |-> "idle", fw |-> None]
  /\ UNCHANGED <<server, running, late, booted, struck, used>>

FetchFails ==
  /\ poller.at = "fetch"
  /\ used.faults < MaxFaults
  /\ used' = [used EXCEPT !.faults = @ + 1]
  /\ poller' = [poller EXCEPT !.at = "idle"]
  /\ UNCHANGED <<server, running, late, booted, struck>>

ApplyFetched ==
  /\ poller.at = "apply"
  /\ Write(poller.fw)
  /\ poller' = [at |-> "idle", fw |-> None]
  /\ UNCHANGED <<server, late, struck, used>>

\* What poll_once and fetch_assigned_firmware do not catch ends the thread for good:
\* an answer cut short, one that is no PollResponse, or, with the file already
\* replaced, a restart that finds the child gone (Watchdog).
PollerDies ==
  /\ poller.at # "dead"
  /\ IF poller.at = "apply" THEN Write(poller.fw) ELSE UNCHANGED <<running, booted>>
  /\ poller' = [at |-> "dead", fw |-> None]
  /\ UNCHANGED <<server, late, struck, used>>

-----------------------------------------------------------------------------
(* The server process dies and comes back: its tables and its store stay. *)

Restart ==
  /\ used.restarts < MaxRestarts /\ used.faults < MaxFaults
  /\ used' = [used EXCEPT !.restarts = @ + 1, !.faults = @ + 1]
  /\ tasks' = <<>>
  /\ job' = NoJob
  /\ work' = [a \in Actor |-> Idle]
  /\ UNCHANGED <<device, history, store, node, struck>>

-----------------------------------------------------------------------------

HandlerStep ==
  \/ DropTask
  \/ TakeContext
  \/ \E recent \in BOOLEAN : TakeCrash(recent)
  \/ \E fw \in Generated : AgentVerifies(fw)
  \/ AgentEscalates
  \/ AgentRaises

DeployStep(a) ==
  \/ Halt(a)
  \/ LookUp(a)
  \/ Stage(a)
  \/ Promote(a)
  \/ \E acked \in BOOLEAN : PushApplied(a, acked)
  \/ PushMissed(a)
  \/ ReadLive(a)
  \/ WriteHistory(a)
  \/ Finish(a)

PollStep == Poll \/ Fetch \/ FetchFails \/ ApplyFetched

Next ==
  \/ \E s \in Situation : Report("context", s)
  \/ Report("crash", None)
  \/ HandlerStep
  \/ \E o \in Operator : PressRollback(o)
  \/ ClearStrikes
  \/ TimerFires
  \/ \E a \in Actor : DeployStep(a)
  \/ \E fw \in Firmware : LateDelivery(fw)
  \/ PollStep
  \/ PollerDies
  \/ Restart

Spec == Init /\ [][Next]_vars

\* Threads end, the queue is drained, the window elapses, and the watchdog polls as
\* long as its poll thread lives, which nothing promises.
FairSpec ==
  /\ Spec
  /\ WF_vars(HandlerStep)
  /\ \A a \in Actor : WF_vars(DeployStep(a))
  /\ WF_vars(TimerFires)
  /\ WF_vars(PollStep)

-----------------------------------------------------------------------------
(* Properties. *)

\* deployer.py stages before it promotes: whatever the device is told to run,
\* and whatever a rollback or a reversion may look up, can be served.
Retrievable ==
  /\ device.assigned # None => device.assigned \in store
  /\ device.inactive # None => device.inactive \in store \cup {Baseline}
  /\ \A i \in DOMAIN history : history[i].fw \in store

\* confirm_active: lost pushes, lost answers and late ones notwithstanding, the
\* active slot never names a firmware that was not put in place on the device.
ActiveHasRun == device.active # None => device.active \in booted

\* Orchestrator.handle: no artifact is generated for a situation whose morph is
\* still waiting for its reversion, whose window it would restart.
NoRepeatedMorph ==
  work[Handler].type = "morph" => ~Morphing(work[Handler].situation)

\* The poll loop: whatever was lost, delayed or fetched stale, the firmware file
\* ends up holding what the device is assigned, or the poll thread is dead.
Reconciled == <>[](InSync \/ poller.at = "dead")

\* "A dropped OTA push never strands the device on stale firmware" (watchdog.py):
\* it does once the poll thread has met an exception that nothing catches.
NeverStranded == <>[]InSync

MorphIsLive == LatestLive # 0 /\ history[LatestLive].type = "morph"

\* LOOPS 2a: a morph does not outlive its situation, on a device with a recorded
\* baseline (no operators, one situation, no restarts).
MorphEnds == MorphIsLive ~> ~MorphIsLive

Assigns(types) ==
  \E a \in Actor : /\ work[a].at = "promote" /\ work'[a].at = "push"
                   /\ work[a].type \in types

\* rollback: no generated artifact is assigned to a halted device; it holds of the
\* automatic protocol, and an operator's rollback may be overtaken.
HaltHolds == [][Assigns({"morph", "patch"}) => ~device.halted]_vars

Recorded(types) ==
  /\ Len(history') > Len(history)
  /\ history'[Len(history')].type \in types

\* SAFETY_PROTOCOL 5: a rollback does not restore firmware a strike was counted
\* against.
RollbackAvoidsStruck ==
  [][Recorded({"rollback"}) => history'[Len(history')].fw \notin struck]_vars

\* rollback.revert: a reversion is only ever recorded over the morph it ends, never
\* over a patch or a rollback that came in between.
ReversionEndsMorph ==
  [][Recorded({"reversion"}) => history # <<>> /\ history[Len(history)].type = "morph"]_vars
=============================================================================
