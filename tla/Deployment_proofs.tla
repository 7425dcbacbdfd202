------------------------- MODULE Deployment_proofs -------------------------
(***************************************************************************)
(* What holds of every deploy, for any number of operators and reports, of *)
(* lost, late and repeated pushes, and of restarts.                        *)
(***************************************************************************)
EXTENDS Deployment, TLAPS

Deploying == {"stage", "promote", "push", "read", "write", "confirm"}
Promoting == {"promote", "push", "read", "write", "confirm"}
Pushed == {"read", "write", "confirm"}

\* What an actor may be in the middle of.
WorkOK ==
  \A a \in Actor :
    /\ work[a].at = "idle" => work[a].type = "patch"
    /\ work[a].at = "generate" => a = Handler /\ work[a].type \in {"morph", "patch"}
    /\ work[a].at \in {"halt", "look_up"} => a # Reverter /\ work[a].type = "rollback"
    /\ work[a].at # "idle" /\ a # Handler => work[a].type \in {"reversion", "rollback"}
    /\ work[a].at \in Deploying => work[a].fw \in Firmware

\* What is pushed, fetched, late or looked up is in the store.
StoreOK ==
  /\ \A a \in Actor : work[a].at \in Promoting => work[a].fw \in store
  /\ \A a \in Actor : work[a].at \in Pushed /\ work[a].acked => work[a].fw \in booted
  /\ running \in booted /\ booted \subseteq store \cup {Baseline}
  /\ late \subseteq store
  /\ poller.at = "apply" => poller.fw \in store
  /\ Retrievable
  /\ ActiveHasRun

Typed == TypeOK /\ WorkOK /\ StoreOK

USE DeploymentAssumption DEF Actor, Handler, Reverter

\* Idle work and a job that is not there are of their types.
LEMMA Blanks ==
  /\ Idle \in Work /\ NoJob \in Job
  /\ Idle.at = "idle" /\ Idle.type = "patch" /\ NoJob.at = "none"
BY DEF Idle, Work, NoJob, Job, Hash, RecordType

\* Work begun is work.
LEMMA Beginnings ==
  ASSUME NEW at \in {"generate", "halt", "stage"}, NEW type \in RecordType, NEW fw \in Hash
  PROVE  /\ Begin(at, type, fw) \in Work
         /\ Begin(at, type, fw).at = at /\ Begin(at, type, fw).type = type
         /\ Begin(at, type, fw).fw = fw
         /\ \A s \in Situation : [Begin(at, type, fw) EXCEPT !.situation = s] \in Work
BY DEF Begin, Idle, Work, Hash, RecordType

LEMMA InitTyped == Init => Typed
<1> SUFFICES ASSUME Init PROVE Typed
  OBVIOUS
<1>1. TypeOK
  <2>1. device \in DeviceRow /\ poller \in [at : {"idle", "fetch", "apply", "dead"}, fw : Hash]
    BY DEF Init, DeviceRow, Hash
  <2>2. history \in Seq(HistoryRow)
    <3>1. [fw |-> Baseline, type |-> "patch", status |-> "deployed"] \in HistoryRow
      BY DEF HistoryRow, RecordType
    <3> QED BY <3>1 DEF Init
  <2>3. tasks \in Seq(Task) /\ job \in Job /\ work \in [Actor -> Work]
    BY Blanks DEF Init
  <2>4. used \in Used
    BY DEF Init, Used
  <2> QED BY <2>1, <2>2, <2>3, <2>4 DEF Init, TypeOK
<1>2. WorkOK
  BY Blanks DEF Init, WorkOK, Deploying
<1>3. StoreOK
  BY Blanks DEF Init, StoreOK, Retrievable, ActiveHasRun, Promoting, Pushed
<1> QED BY <1>1, <1>2, <1>3 DEF Typed

-----------------------------------------------------------------------------
(* The handler. *)

\* Counting a use.
LEMMA UsedTyped ==
  ASSUME used \in Used
  PROVE  /\ [used EXCEPT !.reports = @ + 1] \in Used
         /\ [used EXCEPT !.presses = @ + 1] \in Used
         /\ [used EXCEPT !.faults = @ + 1] \in Used
BY DEF Used

\* A restart counts as a fault, too.
LEMMA RestartCounted ==
  ASSUME used \in Used
  PROVE  [used EXCEPT !.restarts = @ + 1, !.faults = @ + 1] \in Used
<1>1. ASSUME NEW r \in Nat, NEW f \in Nat
      PROVE  [used EXCEPT !.restarts = r, !.faults = f] \in Used
  BY DEF Used
<1>2. used.restarts + 1 \in Nat /\ used.faults + 1 \in Nat
  BY DEF Used
<1> QED BY <1>1, <1>2

LEMMA ReportTyped ==
  ASSUME Typed, NEW trigger \in {"context", "crash"}, NEW s \in Situation \cup {None},
         Report(trigger, s)
  PROVE  Typed'
<1>1. TypeOK'
  <2>1. device' \in DeviceRow
    BY DEF Typed, TypeOK, Report, DeviceRow, Hash
  <2>2. tasks' \in Seq(Task)
    <3>1. [trigger |-> trigger, situation |-> s, hash |-> running] \in Task
      BY DEF Typed, TypeOK, Task
    <3> QED BY <3>1 DEF Typed, TypeOK, Report
  <2>3. used' \in Used
    BY UsedTyped DEF Typed, TypeOK, Report
  <2> QED BY <2>1, <2>2, <2>3 DEF Typed, TypeOK, Report, node
<1>2. WorkOK'
  BY DEF Typed, WorkOK, Report
<1>3. StoreOK'
  BY DEF Typed, StoreOK, TypeOK, DeviceRow, Report, Retrievable, ActiveHasRun, node
<1> QED BY <1>1, <1>2, <1>3 DEF Typed

LEMMA DropTyped ==
  ASSUME Typed, DropTask PROVE Typed'
<1>1. TypeOK'
  BY DEF Typed, TypeOK, DropTask, Taking, node
<1>2. WorkOK' /\ StoreOK'
  BY DEF Typed, WorkOK, StoreOK, DropTask, Taking, node, Retrievable, ActiveHasRun
<1> QED BY <1>1, <1>2 DEF Typed

\* An actor that takes up other work, everything else as it was.
LEMMA TakesUp ==
  ASSUME Typed, NEW a \in Actor, NEW w \in Work,
         work' = [work EXCEPT ![a] = w],
         w.at \notin Promoting,
         w.at = "idle" => w.type = "patch",
         w.at = "generate" => a = Handler /\ w.type \in {"morph", "patch"},
         w.at \in {"halt", "look_up"} => a # Reverter /\ w.type = "rollback",
         w.at # "idle" /\ a # Handler => w.type \in {"reversion", "rollback"},
         w.at \in Deploying => w.fw \in Firmware,
         UNCHANGED <<history, store, node>>,
         device' \in DeviceRow, tasks' \in Seq(Task), job' \in Job, struck' \subseteq Firmware,
         used' \in Used,
         UNCHANGED <<device.active, device.inactive, device.assigned>>
  PROVE  Typed'
<1>1. TypeOK'
  BY DEF Typed, TypeOK, node
<1>2. WorkOK'
  BY DEF Typed, TypeOK, WorkOK
<1>3. StoreOK'
  BY DEF Typed, TypeOK, StoreOK, Retrievable, ActiveHasRun, node, Promoting, Pushed
<1> QED BY <1>1, <1>2, <1>3 DEF Typed

\* The head of a queue of tasks is a task, and the rest are tasks.
LEMMA TasksTyped ==
  ASSUME Typed, tasks # <<>>
  PROVE  Head(tasks) \in Task /\ Tail(tasks) \in Seq(Task)
BY DEF Typed, TypeOK

LEMMA TakeContextTyped ==
  ASSUME Typed, TakeContext PROVE Typed'
<1> DEFINE t == Head(tasks)
           w == [Begin("generate", "morph", None) EXCEPT !.situation = t.situation]
<1>1. tasks # <<>> /\ tasks' = Tail(tasks)
  BY DEF TakeContext, Taking
<1>2. t \in Task /\ tasks' \in Seq(Task)
  BY <1>1, TasksTyped
<1>3. w \in Work /\ w.at = "generate" /\ w.type = "morph"
  BY <1>2 DEF Begin, Idle, Work, Task, Hash, RecordType
<1>4. /\ work' = [work EXCEPT ![Handler] = w]
      /\ UNCHANGED <<device, job, struck, history, store, node, used>>
  BY DEF TakeContext, Taking
<1>5. device' \in DeviceRow /\ job' \in Job /\ struck' \subseteq Firmware
  BY <1>4 DEF Typed, TypeOK
<1>6. used' \in Used
  BY <1>4 DEF Typed, TypeOK
<1> HIDE DEF w, t
<1> QED BY <1>2, <1>3, <1>4, <1>5, <1>6, TakesUp, Zenon DEF Promoting, Deploying

\* A strike, and the rollback it may call for.
LEMMA StrikeTyped ==
  ASSUME Typed
  PROVE  /\ RecordStrike(device) \in DeviceRow
         /\ RecordStrike(device).active = device.active
         /\ RecordStrike(device).inactive = device.inactive
         /\ RecordStrike(device).assigned = device.assigned
<1>1. device \in DeviceRow
  BY DEF Typed, TypeOK
<1> QED BY <1>1 DEF DeviceRow, RecordStrike

LEMMA RollBackOrTyped ==
  ASSUME Typed, NEW row, NEW w \in Work, RollBackOr(row, w),
         w.at = "idle" => w.type = "patch",
         w.at \in {"idle", "generate"},
         w.type = "patch",
         UNCHANGED <<history, store, node>>,
         device' \in DeviceRow, tasks' \in Seq(Task), struck' \subseteq Firmware, used' \in Used,
         UNCHANGED <<device.active, device.inactive, device.assigned>>
  PROVE  Typed'
<1> DEFINE h == Begin("halt", "rollback", None)
<1>1. h \in Work /\ h.at = "halt" /\ h.type = "rollback"
  BY Beginnings DEF Hash, RecordType
<1>2. \/ job' = NoJob /\ work' = [work EXCEPT ![Handler] = h]
      \/ job' = job /\ work' = [work EXCEPT ![Handler] = w]
  BY DEF RollBackOr
<1>3. job' \in Job
  BY <1>2, Blanks DEF Typed, TypeOK
<1> HIDE DEF h
<1>4. CASE work' = [work EXCEPT ![Handler] = h]
  BY <1>1, <1>3, <1>4, TakesUp DEF Promoting, Deploying
<1>5. CASE work' = [work EXCEPT ![Handler] = w]
  BY <1>3, <1>5, TakesUp DEF Promoting, Deploying
<1> QED BY <1>2, <1>4, <1>5

LEMMA TakeCrashTyped ==
  ASSUME Typed, NEW recent \in BOOLEAN, TakeCrash(recent) PROVE Typed'
<1> DEFINE hash == Head(tasks).hash
           p == Begin("generate", "patch", None)
<1>1. tasks # <<>> /\ tasks' = Tail(tasks) /\ UNCHANGED <<history, store, node, used>>
  BY DEF TakeCrash, Taking
<1>2. hash \in Firmware /\ tasks' \in Seq(Task) /\ used' \in Used
  BY <1>1, TasksTyped DEF Task, Typed, TypeOK
<1>3. p \in Work /\ p.at = "generate" /\ p.type = "patch"
  BY Beginnings DEF Hash, RecordType
<1>4. CASE CrashIsAttributable(hash, recent)
  <2>1. device' = RecordStrike(device) /\ struck' = struck \cup {hash} /\ RollBackOr(device', p)
    BY <1>4 DEF TakeCrash
  <2>2. struck' \subseteq Firmware
    BY <2>1, <1>2 DEF Typed, TypeOK
  <2> HIDE DEF p
  <2> QED BY <2>1, <2>2, <1>1, <1>2, <1>3, StrikeTyped, RollBackOrTyped
<1>5. CASE ~CrashIsAttributable(hash, recent)
  <2>1. work' = [work EXCEPT ![Handler] = p] /\ UNCHANGED <<device, job, struck>>
    BY <1>5 DEF TakeCrash
  <2>2. device' \in DeviceRow /\ job' \in Job /\ struck' \subseteq Firmware
    BY <2>1 DEF Typed, TypeOK
  <2> HIDE DEF p
  <2> QED BY <2>1, <2>2, <1>1, <1>2, <1>3, TakesUp DEF Promoting, Deploying
<1> QED BY <1>4, <1>5

LEMMA AgentTyped ==
  ASSUME Typed, AgentEscalates \/ AgentRaises \/ \E fw \in Generated : AgentVerifies(fw)
  PROVE  Typed'
<1>1. tasks' \in Seq(Task) /\ struck' \subseteq Firmware /\ used' \in Used
  BY DEF Typed, TypeOK, AgentEscalates, AgentRaises, AgentVerifies
<1>2. CASE AgentEscalates
  <2>1. device' = RecordStrike(device) /\ RollBackOr(device', Idle)
        /\ UNCHANGED <<history, store, node>>
    BY <1>2 DEF AgentEscalates
  <2> QED BY <2>1, <1>1, StrikeTyped, Blanks, RollBackOrTyped
<1>3. CASE AgentRaises
  <2>1. work' = [work EXCEPT ![Handler] = Idle]
        /\ UNCHANGED <<device, job, history, store, node>>
    BY <1>3 DEF AgentRaises
  <2>2. device' \in DeviceRow /\ job' \in Job
    BY <2>1 DEF Typed, TypeOK
  <2> QED BY <2>1, <2>2, <1>1, Blanks, TakesUp DEF Promoting, Deploying
<1>4. ASSUME NEW fw \in Generated, AgentVerifies(fw) PROVE Typed'
  <2> DEFINE w == [work[Handler] EXCEPT !.at = "stage", !.fw = fw]
  <2>1. /\ work[Handler].at = "generate"
        /\ work' = [work EXCEPT ![Handler].at = "stage", ![Handler].fw = fw]
        /\ UNCHANGED <<device, job, history, store, node>>
    BY <1>4 DEF AgentVerifies
  <2>2. work[Handler] \in Work
    BY DEF Typed, TypeOK
  <2>3. w \in Work /\ w.at = "stage" /\ w.fw = fw /\ work' = [work EXCEPT ![Handler] = w]
    BY <2>1, <2>2 DEF Work, Hash, Typed, TypeOK
  <2>4. device' \in DeviceRow /\ job' \in Job
    BY <2>1 DEF Typed, TypeOK
  <2> HIDE DEF w
  <2> QED BY <2>1, <2>3, <2>4, <1>1, TakesUp DEF Promoting, Deploying
<1> QED BY <1>2, <1>3, <1>4

-----------------------------------------------------------------------------
(* Rollbacks and the timer. *)

LEMMA PressTyped ==
  ASSUME Typed, NEW o \in Operator, PressRollback(o) PROVE Typed'
<1> DEFINE h == Begin("halt", "rollback", None)
<1>1. h \in Work /\ h.at = "halt" /\ h.type = "rollback" /\ o # Reverter /\ o \in Actor
  BY Beginnings, DeploymentAssumption DEF Hash, RecordType
<1>2. /\ work' = [work EXCEPT ![o] = h]
      /\ UNCHANGED <<device, history, store, tasks, job, node, struck>>
  BY DEF PressRollback
<1>3. /\ device' \in DeviceRow /\ tasks' \in Seq(Task) /\ job' \in Job
      /\ struck' \subseteq Firmware
  BY <1>2 DEF Typed, TypeOK
<1>4. used' \in Used
  BY UsedTyped DEF PressRollback, Typed, TypeOK
<1> HIDE DEF h
<1> QED BY <1>1, <1>2, <1>3, <1>4, TakesUp DEF Promoting, Deploying

LEMMA HaltTyped ==
  ASSUME Typed, NEW a \in Actor, Halt(a) PROVE Typed'
<1> DEFINE w == [work[a] EXCEPT !.at = "look_up"]
<1>1. /\ work[a].at = "halt" /\ device' = Halted(device)
      /\ work' = [work EXCEPT ![a].at = "look_up"]
      /\ UNCHANGED <<history, store, tasks, job, node, struck, used>>
  BY DEF Halt
<1>2. work[a] \in Work /\ device \in DeviceRow
  BY DEF Typed, TypeOK
<1>3. /\ w \in Work /\ w.at = "look_up" /\ w.type = work[a].type
      /\ work' = [work EXCEPT ![a] = w]
  BY <1>1, <1>2 DEF Work, Typed, TypeOK
<1>4. a # Reverter /\ work[a].type = "rollback"
  BY <1>1 DEF Typed, WorkOK
<1>5. /\ device' \in DeviceRow
      /\ UNCHANGED <<device.active, device.inactive, device.assigned>>
  BY <1>1, <1>2 DEF DeviceRow, Halted
<1>6. tasks' \in Seq(Task) /\ job' \in Job /\ struck' \subseteq Firmware /\ used' \in Used
  BY <1>1 DEF Typed, TypeOK
<1>7. w.type = "rollback" /\ w.at \notin Promoting /\ w.at \notin Deploying
  BY <1>3, <1>4 DEF Promoting, Deploying
<1>8. UNCHANGED <<history, store, node>>
  BY <1>1
<1> HIDE DEF w
<1> QED BY <1>3, <1>4, <1>5, <1>6, <1>7, <1>8, TakesUp

LEMMA LookUpTyped ==
  ASSUME Typed, NEW a \in Actor, LookUp(a) PROVE Typed'
<1> DEFINE w == IF LastKnownGood \in store THEN Begin("stage", "rollback", LastKnownGood)
                                           ELSE Idle
<1>1. /\ work[a].at = "look_up" /\ work' = [work EXCEPT ![a] = w]
      /\ UNCHANGED <<device, history, store, tasks, job, node, struck, used>>
  BY DEF LookUp
<1>2. a # Reverter
  BY <1>1 DEF Typed, WorkOK
<1>3. \/ w \in Work /\ w.at = "stage" /\ w.type = "rollback" /\ w.fw \in Firmware
      \/ w \in Work /\ w.at = "idle" /\ w.type = "patch"
  <2>1. CASE LastKnownGood \in store
    <3>1. LastKnownGood \in Firmware /\ LastKnownGood \in Hash
      BY <2>1 DEF Typed, TypeOK, Hash
    <3> QED BY <2>1, <3>1, Beginnings DEF RecordType
  <2>2. CASE LastKnownGood \notin store
    BY <2>2, Blanks
  <2> QED BY <2>1, <2>2
<1>4. /\ device' \in DeviceRow /\ tasks' \in Seq(Task) /\ job' \in Job
      /\ struck' \subseteq Firmware /\ used' \in Used
  BY <1>1 DEF Typed, TypeOK
<1> HIDE DEF w
<1> QED BY <1>1, <1>2, <1>3, <1>4, TakesUp DEF Promoting, Deploying

LEMMA ClearTyped ==
  ASSUME Typed, ClearStrikes PROVE Typed'
<1>1. used' \in Used
  BY UsedTyped DEF ClearStrikes, Typed, TypeOK
<1>2. /\ device' \in DeviceRow
      /\ UNCHANGED <<device.active, device.inactive, device.assigned>>
  BY DEF ClearStrikes, Typed, TypeOK, DeviceRow
<1>3. UNCHANGED <<history, store, tasks, job, work, node, struck>>
  BY DEF ClearStrikes
<1>4. TypeOK'
  BY <1>1, <1>2, <1>3 DEF Typed, TypeOK, node
<1>5. WorkOK' /\ StoreOK'
  BY <1>2, <1>3 DEF Typed, WorkOK, StoreOK, Retrievable, ActiveHasRun, node
<1> QED BY <1>4, <1>5 DEF Typed

LEMMA TimerTyped ==
  ASSUME Typed, TimerFires PROVE Typed'
<1> DEFINE w == Begin("stage", "reversion", PreMorphHash)
<1>1. UNCHANGED <<device, history, store, tasks, node, struck, used>>
  BY DEF TimerFires
<1>2. /\ device' \in DeviceRow /\ tasks' \in Seq(Task)
      /\ struck' \subseteq Firmware /\ used' \in Used
  BY <1>1 DEF Typed, TypeOK
<1>3. CASE PreMorphHash \in store
  <2>1. PreMorphHash \in Firmware /\ PreMorphHash \in Hash
    BY <1>3 DEF Typed, TypeOK, Hash
  <2>2. w \in Work /\ w.at = "stage" /\ w.type = "reversion" /\ w.fw \in Firmware
    BY <2>1, Beginnings DEF RecordType
  <2>3. job' = [job EXCEPT !.at = "reverting"] /\ work' = [work EXCEPT ![Reverter] = w]
    BY <1>3 DEF TimerFires
  <2>4. job' \in Job
    <3>1. job \in Job
      BY DEF Typed, TypeOK
    <3> QED BY <2>3, <3>1 DEF Job
  <2> HIDE DEF w
  <2> QED BY <2>2, <2>3, <2>4, <1>1, <1>2, TakesUp DEF Promoting, Deploying
<1>4. CASE PreMorphHash \notin store
  <2>1. job' = NoJob /\ work' = work
    BY <1>4 DEF TimerFires
  <2>2. TypeOK'
    BY <2>1, <1>1, Blanks DEF Typed, TypeOK, node
  <2> QED BY <2>1, <2>2, <1>1 DEF Typed, WorkOK, StoreOK, Retrievable, ActiveHasRun, node
<1> QED BY <1>3, <1>4

-----------------------------------------------------------------------------
(* A deploy, step by step. *)

\* An actor that goes on with its deploy.
LEMMA Advances ==
  ASSUME Typed, NEW a \in Actor, NEW w \in Work,
         work[a].at \in Deploying, w.at \in Promoting,
         w.type = work[a].type, w.fw = work[a].fw,
         work' = [work EXCEPT ![a] = w]
  PROVE  work' \in [Actor -> Work] /\ WorkOK' /\ w.fw \in Firmware
<1>1. work' \in [Actor -> Work] /\ work'[a] = w
  BY DEF Typed, TypeOK
<1>2. w.fw \in Firmware
  BY DEF Typed, WorkOK
<1>3. WorkOK'
  BY <1>1, <1>2 DEF Typed, TypeOK, WorkOK, Deploying, Promoting
<1> QED BY <1>1, <1>2, <1>3

LEMMA StageTyped ==
  ASSUME Typed, NEW a \in Actor, Stage(a) PROVE Typed'
<1> DEFINE w == [work[a] EXCEPT !.at = "promote"]
           fw == work[a].fw
<1>1. /\ work[a].at = "stage" /\ store' = store \cup {fw}
      /\ work' = [work EXCEPT ![a].at = "promote"]
      /\ UNCHANGED <<device, history, tasks, job, node, struck, used>>
  BY DEF Stage, Staged
<1>2. work[a] \in Work
  BY DEF Typed, TypeOK
<1>3. /\ w \in Work /\ w.at = "promote" /\ w.type = work[a].type /\ w.fw = fw
      /\ work' = [work EXCEPT ![a] = w]
  BY <1>1, <1>2 DEF Work, Typed, TypeOK
<1> HIDE DEF w
<1>4. work' \in [Actor -> Work] /\ WorkOK' /\ fw \in Firmware
  BY <1>1, <1>3, Advances DEF Deploying, Promoting
<1>5. TypeOK'
  BY <1>1, <1>4 DEF Typed, TypeOK, node
<1>6. \A b \in Actor : work'[b].at \in Promoting => work'[b].fw \in store'
  BY <1>1, <1>3 DEF Typed, TypeOK, StoreOK
<1>7. \A b \in Actor : work'[b].at \in Pushed /\ work'[b].acked => work'[b].fw \in booted'
  BY <1>1, <1>3 DEF Typed, TypeOK, StoreOK, Pushed, node
<1>8. Retrievable' /\ ActiveHasRun'
  BY <1>1 DEF Typed, StoreOK, Retrievable, ActiveHasRun, node
<1>9. StoreOK'
  BY <1>1, <1>6, <1>7, <1>8 DEF Typed, StoreOK, node
<1> QED BY <1>4, <1>5, <1>9 DEF Typed

LEMMA PromoteTyped ==
  ASSUME Typed, NEW a \in Actor, Promote(a) PROVE Typed'
<1> DEFINE w == [work[a] EXCEPT !.at = "push"]
           fw == work[a].fw
<1>1. /\ work[a].at = "promote"
      /\ device' = [device EXCEPT !.inactive = fw, !.assigned = fw]
      /\ work' = [work EXCEPT ![a].at = "push"]
      /\ UNCHANGED <<history, store, tasks, job, node, struck, used>>
  BY DEF Promote, Promoted
<1>2. work[a] \in Work /\ device \in DeviceRow
  BY DEF Typed, TypeOK
<1>3. /\ w \in Work /\ w.at = "push" /\ w.type = work[a].type /\ w.fw = fw
      /\ work' = [work EXCEPT ![a] = w]
  BY <1>1, <1>2 DEF Work, Typed, TypeOK
<1> HIDE DEF w
<1>4. work' \in [Actor -> Work] /\ WorkOK' /\ fw \in Firmware
  BY <1>1, <1>3, Advances DEF Deploying, Promoting
<1>5. /\ device' \in DeviceRow /\ device'.active = device.active
      /\ device'.inactive = fw /\ device'.assigned = fw
  BY <1>1, <1>2, <1>4 DEF DeviceRow, Hash
<1>6. TypeOK'
  BY <1>1, <1>4, <1>5 DEF Typed, TypeOK, node
<1>7. \A b \in Actor : work'[b].at \in Promoting => work'[b].fw \in store'
  BY <1>1, <1>3 DEF Typed, TypeOK, StoreOK, Promoting
<1>8. \A b \in Actor : work'[b].at \in Pushed /\ work'[b].acked => work'[b].fw \in booted'
  BY <1>1, <1>3 DEF Typed, TypeOK, StoreOK, Pushed, node
<1>9. Retrievable' /\ ActiveHasRun'
  <2>1. fw \in store /\ store' = store /\ history' = history /\ booted' = booted
    BY <1>1 DEF Typed, StoreOK, Promoting, node
  <2>2. Retrievable /\ ActiveHasRun
    BY DEF Typed, StoreOK
  <2> QED BY <1>5, <2>1, <2>2 DEF Retrievable, ActiveHasRun
<1>10. StoreOK'
  BY <1>1, <1>7, <1>8, <1>9 DEF Typed, StoreOK, node
<1> QED BY <1>4, <1>6, <1>10 DEF Typed

LEMMA PushAppliedTyped ==
  ASSUME Typed, NEW a \in Actor, NEW acked \in BOOLEAN, PushApplied(a, acked) PROVE Typed'
<1> DEFINE w == [work[a] EXCEPT !.at = "read", !.acked = acked]
           fw == work[a].fw
<1>1. /\ work[a].at = "push" /\ running' = fw /\ booted' = booted \cup {fw}
      /\ work' = [work EXCEPT ![a].at = "read", ![a].acked = acked]
      /\ UNCHANGED <<device, history, store, tasks, job, poller, late, struck>>
  BY DEF PushApplied, Write
<1>2. work[a] \in Work
  BY DEF Typed, TypeOK
<1>3. /\ w \in Work /\ w.at = "read" /\ w.type = work[a].type /\ w.fw = fw
      /\ work' = [work EXCEPT ![a] = w]
  BY <1>1, <1>2 DEF Work, Typed, TypeOK
<1> HIDE DEF w
<1>4. work' \in [Actor -> Work] /\ WorkOK' /\ fw \in Firmware
  BY <1>1, <1>3, Advances DEF Deploying, Promoting
<1>5. used' \in Used
  BY UsedTyped DEF PushApplied, Typed, TypeOK, Used
<1>6. TypeOK'
  BY <1>1, <1>4, <1>5 DEF Typed, TypeOK
<1>7. fw \in store
  BY <1>1 DEF Typed, StoreOK, Promoting
<1>8. \A b \in Actor : work'[b].at \in Promoting => work'[b].fw \in store'
  BY <1>1, <1>3, <1>7 DEF Typed, TypeOK, StoreOK
<1>9. \A b \in Actor : work'[b].at \in Pushed /\ work'[b].acked => work'[b].fw \in booted'
  BY <1>1, <1>3 DEF Typed, TypeOK, StoreOK
<1>10. Retrievable' /\ ActiveHasRun'
  BY <1>1 DEF Typed, StoreOK, Retrievable, ActiveHasRun
<1>11. StoreOK'
  BY <1>1, <1>7, <1>8, <1>9, <1>10 DEF Typed, StoreOK
<1> QED BY <1>4, <1>6, <1>11 DEF Typed

LEMMA PushMissedTyped ==
  ASSUME Typed, NEW a \in Actor, PushMissed(a) PROVE Typed'
<1> DEFINE w == [work[a] EXCEPT !.at = "read", !.acked = FALSE]
           fw == work[a].fw
<1>1. /\ work[a].at = "push" /\ late' \in {late, late \cup {fw}}
      /\ work' = [work EXCEPT ![a].at = "read", ![a].acked = FALSE]
      /\ UNCHANGED <<device, history, store, tasks, job, running, poller, booted, struck>>
  BY DEF PushMissed
<1>2. work[a] \in Work
  BY DEF Typed, TypeOK
<1>3. /\ w \in Work /\ w.at = "read" /\ w.type = work[a].type /\ w.fw = fw /\ ~w.acked
      /\ work' = [work EXCEPT ![a] = w]
  BY <1>1, <1>2 DEF Work, Typed, TypeOK
<1> HIDE DEF w
<1>4. work' \in [Actor -> Work] /\ WorkOK' /\ fw \in Firmware
  BY <1>1, <1>3, Advances DEF Deploying, Promoting
<1>5. used' \in Used
  BY UsedTyped DEF PushMissed, Typed, TypeOK
<1>6. TypeOK'
  BY <1>1, <1>4, <1>5 DEF Typed, TypeOK
<1>7. fw \in store
  BY <1>1 DEF Typed, StoreOK, Promoting
<1>8. \A b \in Actor : work'[b].at \in Promoting => work'[b].fw \in store'
  BY <1>1, <1>3, <1>7 DEF Typed, TypeOK, StoreOK
<1>9. \A b \in Actor : work'[b].at \in Pushed /\ work'[b].acked => work'[b].fw \in booted'
  BY <1>1, <1>3 DEF Typed, TypeOK, StoreOK
<1>10. Retrievable' /\ ActiveHasRun'
  BY <1>1 DEF Typed, StoreOK, Retrievable, ActiveHasRun
<1>11. StoreOK'
  BY <1>1, <1>7, <1>8, <1>9, <1>10 DEF Typed, StoreOK
<1> QED BY <1>4, <1>6, <1>11 DEF Typed

LEMMA ReadLiveTyped ==
  ASSUME Typed, NEW a \in Actor, ReadLive(a) PROVE Typed'
<1> DEFINE w == [work[a] EXCEPT !.at = "write", !.live = LiveRows]
<1>1. /\ work[a].at = "read"
      /\ work' = [work EXCEPT ![a].at = "write", ![a].live = LiveRows]
      /\ UNCHANGED <<device, history, store, tasks, job, node, struck, used>>
  BY DEF ReadLive
<1>2. work[a] \in Work /\ LiveRows \subseteq Nat
  BY DEF Typed, TypeOK, LiveRows
<1>3. /\ w \in Work /\ w.at = "write" /\ w.type = work[a].type /\ w.fw = work[a].fw
      /\ w.acked = work[a].acked
      /\ work' = [work EXCEPT ![a] = w]
  BY <1>1, <1>2 DEF Work, Typed, TypeOK
<1> HIDE DEF w
<1>4. work' \in [Actor -> Work] /\ WorkOK'
  BY <1>1, <1>3, Advances DEF Deploying, Promoting
<1>5. TypeOK'
  BY <1>1, <1>4 DEF Typed, TypeOK, node
<1>6. /\ \A b \in Actor : work'[b].at \in Promoting => work'[b].fw \in store'
      /\ \A b \in Actor : work'[b].at \in Pushed /\ work'[b].acked => work'[b].fw \in booted'
  BY <1>1, <1>3 DEF Typed, TypeOK, StoreOK, Promoting, Pushed, node
<1>7. StoreOK'
  BY <1>1, <1>6 DEF Typed, StoreOK, Retrievable, ActiveHasRun, node
<1> QED BY <1>4, <1>5, <1>7 DEF Typed

\* What the history becomes is a history, and its firmware is in the store.
LEMMA AppendedTyped ==
  ASSUME Typed, NEW rows, NEW row \in HistoryRow, row.fw \in store,
         history' = Append([i \in DOMAIN history |-> Superseded(rows, i)], row)
  PROVE  history' \in Seq(HistoryRow) /\ \A i \in DOMAIN history' : history'[i].fw \in store
<1> DEFINE old == [i \in DOMAIN history |-> Superseded(rows, i)]
<1>1. history \in Seq(HistoryRow) /\ \A i \in DOMAIN history : history[i].fw \in store
  BY DEF Typed, TypeOK, StoreOK, Retrievable
<1>2. \A i \in DOMAIN history :
        Superseded(rows, i) \in HistoryRow /\ Superseded(rows, i).fw = history[i].fw
  <2> SUFFICES ASSUME NEW i \in DOMAIN history
               PROVE  /\ Superseded(rows, i) \in HistoryRow
                      /\ Superseded(rows, i).fw = history[i].fw
    OBVIOUS
  <2>1. history[i] \in HistoryRow
    BY <1>1
  <2> QED BY <2>1 DEF Superseded, HistoryRow
<1>3. DOMAIN history = 1 .. Len(history) /\ Len(history) \in Nat
  BY <1>1
<1>4. old \in Seq(HistoryRow) /\ Len(old) = Len(history)
  BY <1>2, <1>3
<1>5. \A i \in 1 .. Len(old) : old[i].fw \in store
  BY <1>1, <1>2, <1>3, <1>4
<1> HIDE DEF old
<1>6. history' = Append(old, row)
  BY DEF old
<1>7. history' \in Seq(HistoryRow) /\ DOMAIN history' = 1 .. Len(old) + 1
  BY <1>4, <1>6
<1>8. \A i \in 1 .. Len(old) + 1 : history'[i] = IF i <= Len(old) THEN old[i] ELSE row
  BY <1>4, <1>6
<1>9. \A i \in DOMAIN history' : history'[i].fw \in store
  BY <1>4, <1>5, <1>7, <1>8
<1> QED BY <1>7, <1>9

LEMMA WriteHistoryTyped ==
  ASSUME Typed, NEW a \in Actor, WriteHistory(a) PROVE Typed'
<1> DEFINE w == [work[a] EXCEPT !.at = "confirm", !.live = {}]
           row == [fw |-> work[a].fw, type |-> work[a].type, status |-> "deployed"]
<1>1. /\ work[a].at = "write"
      /\ history' = Append([i \in DOMAIN history |-> Superseded(work[a].live, i)], row)
      /\ work' = [work EXCEPT ![a].at = "confirm", ![a].live = {}]
      /\ UNCHANGED <<device, store, tasks, job, node, struck, used>>
  BY DEF WriteHistory
<1>2. work[a] \in Work
  BY DEF Typed, TypeOK
<1>3. /\ w \in Work /\ w.at = "confirm" /\ w.type = work[a].type /\ w.fw = work[a].fw
      /\ w.acked = work[a].acked
      /\ work' = [work EXCEPT ![a] = w]
  BY <1>1, <1>2 DEF Work, Typed, TypeOK
<1> HIDE DEF w
<1>4. work' \in [Actor -> Work] /\ WorkOK' /\ work[a].fw \in Firmware
  <2>1. work[a].at \in Deploying /\ w.at \in Promoting
    BY <1>1, <1>3 DEF Deploying, Promoting
  <2> QED BY <1>3, <2>1, Advances
<1>5. row \in HistoryRow /\ row.fw = work[a].fw /\ work[a].fw \in store
  BY <1>1, <1>2, <1>4 DEF HistoryRow, Work, Typed, StoreOK, Promoting
<1> HIDE DEF row
<1>6. history' \in Seq(HistoryRow) /\ \A i \in DOMAIN history' : history'[i].fw \in store
  BY <1>1, <1>5, AppendedTyped
<1>7. TypeOK'
  BY <1>1, <1>4, <1>6 DEF Typed, TypeOK, node
<1>8. /\ \A b \in Actor : work'[b].at \in Promoting => work'[b].fw \in store'
      /\ \A b \in Actor : work'[b].at \in Pushed /\ work'[b].acked => work'[b].fw \in booted'
  BY <1>1, <1>3 DEF Typed, TypeOK, StoreOK, Promoting, Pushed, node
<1>9. Retrievable' /\ ActiveHasRun'
  BY <1>1, <1>6 DEF Typed, StoreOK, Retrievable, ActiveHasRun, node
<1>10. StoreOK'
  BY <1>1, <1>8, <1>9 DEF Typed, StoreOK, node
<1> QED BY <1>4, <1>7, <1>10 DEF Typed

LEMMA FinishTyped ==
  ASSUME Typed, NEW a \in Actor, Finish(a) PROVE Typed'
<1> DEFINE fw == work[a].fw
<1>1. /\ work[a].at = "confirm" /\ device' = Confirmed(device, work[a]) /\ job' = JobAfter(a)
      /\ work' = [work EXCEPT ![a] = Idle]
      /\ UNCHANGED <<history, store, tasks, node, struck, used>>
  BY DEF Finish
<1>2. work[a] \in Work /\ device \in DeviceRow /\ job \in Job
  BY DEF Typed, TypeOK
<1>3. fw \in Firmware /\ fw \in store /\ (work[a].acked => fw \in booted)
  BY <1>1 DEF Typed, WorkOK, StoreOK, Deploying, Promoting, Pushed
<1>4. device' \in DeviceRow
  BY <1>1, <1>2, <1>3 DEF Confirmed, ConfirmActive, DeviceRow, Hash
<1>5. job' \in Job
  BY <1>1, <1>2, Blanks DEF JobAfter, Scheduled, Job, Work
<1>6. work' \in [Actor -> Work]
  BY <1>1, Blanks DEF Typed, TypeOK
<1>7. TypeOK'
  BY <1>1, <1>4, <1>5, <1>6 DEF Typed, TypeOK, node
<1>8. WorkOK'
  BY <1>1, Blanks DEF Typed, TypeOK, WorkOK, Deploying
<1>9. /\ device'.active \in {device.active, fw} /\ (device'.active = fw => fw \in booted \/ device.active = fw)
      /\ device'.inactive \in {device.inactive, device.active}
      /\ device'.inactive = None \/ device'.inactive = device.inactive \/ device.active # None
      /\ device'.assigned = device.assigned
  BY <1>1, <1>2, <1>3 DEF Confirmed, ConfirmActive, DeviceRow
<1>10. Retrievable'
  BY <1>1, <1>9 DEF Typed, StoreOK, Retrievable, ActiveHasRun
<1>11. ActiveHasRun'
  BY <1>1, <1>9 DEF Typed, StoreOK, ActiveHasRun, node
<1>12. /\ \A b \in Actor : work'[b].at \in Promoting => work'[b].fw \in store'
       /\ \A b \in Actor : work'[b].at \in Pushed /\ work'[b].acked => work'[b].fw \in booted'
  BY <1>1, Blanks DEF Typed, TypeOK, StoreOK, Promoting, Pushed, node
<1>13. StoreOK'
  BY <1>1, <1>10, <1>11, <1>12 DEF Typed, StoreOK, node
<1> QED BY <1>7, <1>8, <1>13 DEF Typed

-----------------------------------------------------------------------------
(* The watchdog and a restart. *)

LEMMA NodeTyped ==
  ASSUME Typed, PollStep \/ PollerDies \/ \E fw \in Firmware : LateDelivery(fw) PROVE Typed'
<1>1. CASE Poll \/ Fetch \/ FetchFails
  <2>1. UNCHANGED <<server, running, late, booted, struck>>
    BY <1>1 DEF Poll, Fetch, FetchFails
  <2>2. used' \in Used
    BY <1>1, UsedTyped DEF Poll, Fetch, FetchFails, Typed, TypeOK
  <2>3. /\ poller' \in [at : {"idle", "fetch", "apply", "dead"}, fw : Hash]
        /\ poller'.at = "apply" => poller'.fw \in store
    BY <1>1 DEF Poll, Fetch, FetchFails, Typed, TypeOK, Hash
  <2>4. TypeOK' /\ WorkOK'
    BY <2>1, <2>2, <2>3 DEF Typed, TypeOK, WorkOK, server
  <2>5. StoreOK'
    BY <2>1, <2>3 DEF Typed, StoreOK, Retrievable, ActiveHasRun, server
  <2> QED BY <2>4, <2>5 DEF Typed
<1>2. ASSUME NEW fw \in Firmware, fw \in store, Write(fw),
             UNCHANGED <<server, struck, used>>, late' \subseteq late,
             poller' \in [at : {"idle", "fetch", "apply", "dead"}, fw : Hash],
             poller'.at = "apply" => poller'.fw \in store
      PROVE  Typed'
  <2>1. TypeOK' /\ WorkOK'
    BY <1>2 DEF Typed, TypeOK, WorkOK, server, Write
  <2>2. StoreOK'
    BY <1>2 DEF Typed, StoreOK, Retrievable, ActiveHasRun, server, Write
  <2> QED BY <2>1, <2>2 DEF Typed
<1>3. CASE ApplyFetched
  <2>1. /\ Write(poller.fw) /\ UNCHANGED <<server, late, struck, used>>
        /\ poller.at = "apply" /\ poller' = [at |-> "idle", fw |-> None]
    BY <1>3 DEF ApplyFetched
  <2>2. poller.fw \in store /\ poller.fw \in Firmware
    BY <2>1 DEF Typed, TypeOK, StoreOK
  <2> QED BY <1>2, <2>1, <2>2 DEF Hash
<1>4. ASSUME NEW fw \in Firmware, LateDelivery(fw) PROVE Typed'
  <2>1. /\ Write(fw) /\ UNCHANGED <<server, poller, struck, used>>
        /\ fw \in late /\ late' = late \ {fw}
    BY <1>4 DEF LateDelivery
  <2>2. /\ fw \in store /\ poller \in [at : {"idle", "fetch", "apply", "dead"}, fw : Hash]
        /\ poller.at = "apply" => poller.fw \in store
    BY <2>1 DEF Typed, TypeOK, StoreOK
  <2> QED BY <1>2, <2>1, <2>2
<1>5. CASE PollerDies
  <2>1. poller' = [at |-> "dead", fw |-> None] /\ UNCHANGED <<server, late, struck, used>>
    BY <1>5 DEF PollerDies
  <2>2. CASE poller.at = "apply"
    <3>1. Write(poller.fw) /\ poller.fw \in store /\ poller.fw \in Firmware
      BY <1>5, <2>2 DEF PollerDies, Typed, TypeOK, StoreOK
    <3> QED BY <1>2, <2>1, <3>1 DEF Hash
  <2>3. CASE poller.at # "apply"
    <3>1. UNCHANGED <<running, booted>>
      BY <1>5, <2>3 DEF PollerDies
    <3>2. TypeOK' /\ WorkOK'
      BY <2>1, <3>1 DEF Typed, TypeOK, WorkOK, server, Hash
    <3>3. StoreOK'
      BY <2>1, <3>1 DEF Typed, StoreOK, Retrievable, ActiveHasRun, server
    <3> QED BY <3>2, <3>3 DEF Typed
  <2> QED BY <2>2, <2>3
<1> QED BY <1>1, <1>3, <1>4, <1>5 DEF PollStep

LEMMA RestartTyped ==
  ASSUME Typed, Restart PROVE Typed'
<1>1. /\ tasks' = <<>> /\ job' = NoJob /\ work' = [a \in Actor |-> Idle]
      /\ UNCHANGED <<device, history, store, node, struck>>
  BY DEF Restart
<1>2. used' \in Used
  BY RestartCounted DEF Restart, Typed, TypeOK
<1>3. TypeOK'
  BY <1>1, <1>2, Blanks DEF Typed, TypeOK, node
<1>4. WorkOK'
  BY <1>1, Blanks DEF WorkOK, Deploying
<1>5. StoreOK'
  BY <1>1, Blanks DEF Typed, StoreOK, Retrievable, ActiveHasRun, Promoting, Pushed, node
<1> QED BY <1>3, <1>4, <1>5 DEF Typed

-----------------------------------------------------------------------------

LEMMA StepTyped == Typed /\ [Next]_vars => Typed'
<1> SUFFICES ASSUME Typed, [Next]_vars PROVE Typed'
  OBVIOUS
<1>1. CASE \E s \in Situation : Report("context", s)
  BY <1>1, ReportTyped
<1>2. CASE Report("crash", None)
  BY <1>2, ReportTyped
<1>3. CASE HandlerStep
  BY <1>3, DropTyped, TakeContextTyped, TakeCrashTyped, AgentTyped DEF HandlerStep
<1>4. CASE (\E o \in Operator : PressRollback(o)) \/ ClearStrikes \/ TimerFires \/ Restart
  BY <1>4, PressTyped, ClearTyped, TimerTyped, RestartTyped
<1>5. ASSUME NEW a \in Actor, DeployStep(a) PROVE Typed'
  BY <1>5, HaltTyped, LookUpTyped, StageTyped, PromoteTyped, PushAppliedTyped, PushMissedTyped,
     ReadLiveTyped, WriteHistoryTyped, FinishTyped, Zenon DEF DeployStep
<1>6. CASE (\E fw \in Firmware : LateDelivery(fw)) \/ PollStep \/ PollerDies
  BY <1>6, NodeTyped
<1>7. CASE UNCHANGED vars
  BY <1>7 DEF vars, server, node, Typed, TypeOK, WorkOK, StoreOK, Retrievable, ActiveHasRun
<1> QED BY <1>1, <1>2, <1>3, <1>4, <1>5, <1>6, <1>7 DEF Next

\* The rows, the threads and the device hold what they should, whatever is
\* interleaved, lost or restarted.
THEOREM DeploymentTypeCorrect == Spec => []TypeOK
<1>1. Typed => TypeOK
  BY DEF Typed
<1> QED BY InitTyped, StepTyped, <1>1, PTL DEF Spec

\* deployer.deploy stages before it promotes: what is assigned, and what the
\* history names, can always be served and restored.
THEOREM AssignedIsServed == Spec => []Retrievable
<1>1. Typed => Retrievable
  BY DEF Typed, StoreOK
<1> QED BY InitTyped, StepTyped, <1>1, PTL DEF Spec

\* confirm_active: the active slot only names firmware that was put in place on
\* the device.
THEOREM ActiveIsHonest == Spec => []ActiveHasRun
<1>1. Typed => ActiveHasRun
  BY DEF Typed, StoreOK
<1> QED BY InitTyped, StepTyped, <1>1, PTL DEF Spec

-----------------------------------------------------------------------------
(* Only the handler schedules, so a situation it let through stays         *)
(* unscheduled while it works.                                             *)

LEMMA MorphStep == Typed /\ NoRepeatedMorph /\ [Next]_vars => NoRepeatedMorph'
<1> SUFFICES ASSUME Typed, NoRepeatedMorph, [Next]_vars PROVE NoRepeatedMorph'
  OBVIOUS
<1> USE DEF NoRepeatedMorph, Morphing
<1>1. CASE (\E s \in Situation : Report("context", s)) \/ Report("crash", None) \/ ClearStrikes
  BY <1>1 DEF Report, ClearStrikes
<1>2. CASE HandlerStep
  <2>1. CASE DropTask
    BY <2>1 DEF DropTask, Taking
  <2>2. CASE TakeContext
    <3> DEFINE w == [Begin("generate", "morph", None) EXCEPT !.situation = Head(tasks).situation]
    <3>1. w.situation = Head(tasks).situation
      BY DEF Begin, Idle
    <3>2. /\ work' = [work EXCEPT ![Handler] = w] /\ job' = job
          /\ ~Morphing(Head(tasks).situation)
      BY <2>2 DEF TakeContext, Taking, Dropped
    <3>3. work'[Handler] = w
      BY <3>2 DEF Typed, TypeOK
    <3> QED BY <3>1, <3>2, <3>3
  <2>3. ASSUME NEW row, NEW w, RollBackOr(row, w), w.type = "patch" PROVE NoRepeatedMorph'
    <3>1. Begin("halt", "rollback", None).type = "rollback"
      BY Beginnings DEF Hash, RecordType
    <3> QED BY <2>3, <3>1 DEF RollBackOr, Typed, TypeOK
  <2>4. Begin("generate", "patch", None).type = "patch"
    BY Beginnings DEF Hash, RecordType
  <2>5. CASE \E recent \in BOOLEAN : TakeCrash(recent)
    <3>1. \/ RollBackOr(device', Begin("generate", "patch", None))
          \/ work' = [work EXCEPT ![Handler] = Begin("generate", "patch", None)]
      BY <2>5 DEF TakeCrash
    <3> QED BY <3>1, <2>3, <2>4 DEF Typed, TypeOK
  <2>6. CASE AgentEscalates
    BY <2>6, <2>3, Blanks DEF AgentEscalates
  <2>7. CASE AgentRaises \/ \E fw \in Generated : AgentVerifies(fw)
    BY <2>7, Blanks DEF AgentRaises, AgentVerifies, Typed, TypeOK, Work
  <2> QED BY <1>2, <2>1, <2>2, <2>5, <2>6, <2>7 DEF HandlerStep
<1>3. CASE \E o \in Operator : PressRollback(o)
  BY <1>3, DeploymentAssumption DEF PressRollback, Typed, TypeOK
<1>4. CASE TimerFires
  BY <1>4, Blanks DEF TimerFires, Typed, TypeOK, Job
<1>5. ASSUME NEW a \in Actor, DeployStep(a) PROVE NoRepeatedMorph'
  <2>1. CASE Finish(a)
    <3>1. work' = [work EXCEPT ![a] = Idle] /\ job' = JobAfter(a) /\ work[a].at = "confirm"
      BY <2>1 DEF Finish
    <3>2. CASE a = Handler
      BY <3>1, <3>2, Blanks DEF Typed, TypeOK
    <3>3. CASE a # Handler
      <4>1. work[a].type # "morph" /\ work'[Handler] = work[Handler]
        BY <3>1, <3>3 DEF Typed, TypeOK, WorkOK
      <4>2. job' = NoJob \/ job' = job
        BY <3>1, <4>1 DEF JobAfter
      <4> QED BY <4>1, <4>2, Blanks
    <3> QED BY <3>2, <3>3
  <2>2. CASE LookUp(a)
    <3>1. /\ job' = job
          /\ \/ work' = [work EXCEPT ![a] = Idle]
             \/ /\ LastKnownGood \in Hash
                /\ work' = [work EXCEPT ![a] = Begin("stage", "rollback", LastKnownGood)]
      BY <2>2 DEF LookUp, Typed, TypeOK, Hash
    <3> QED BY <3>1, Blanks, Beginnings DEF Typed, TypeOK, RecordType
  <2>3. CASE ~Finish(a) /\ ~LookUp(a)
    <3>1. /\ job' = job
          /\ work'[Handler].type = work[Handler].type
          /\ work'[Handler].situation = work[Handler].situation
      BY <1>5, <2>3 DEF DeployStep, Halt, Stage, Promote, PushApplied, PushMissed, ReadLive,
         WriteHistory, Typed, TypeOK, Work
    <3> QED BY <3>1
  <2> QED BY <2>1, <2>2, <2>3
<1>6. CASE (\E fw \in Firmware : LateDelivery(fw)) \/ PollStep \/ PollerDies \/ UNCHANGED vars
  BY <1>6 DEF LateDelivery, PollStep, PollerDies, Poll, Fetch, FetchFails, ApplyFetched, vars,
     server
<1>7. CASE Restart
  BY <1>7, Blanks DEF Restart
<1> QED BY <1>1, <1>2, <1>3, <1>4, <1>5, <1>6, <1>7 DEF Next

\* Orchestrator.handle: however deploys, reversions and restarts interleave, no
\* morph is generated for a situation that already has one pending.
THEOREM MorphsOnce == Spec => []NoRepeatedMorph
<1>1. Init => NoRepeatedMorph
  BY Blanks DEF Init, NoRepeatedMorph, Morphing
<1> QED BY InitTyped, StepTyped, MorphStep, <1>1, PTL DEF Spec

-----------------------------------------------------------------------------
(* With nobody at the dashboard only the handler halts the device, and it  *)
(* is not generating when it does.                                         *)

Generating ==
  work[Handler].at \in {"generate", "stage", "promote"} /\ work[Handler].type \in {"morph", "patch"}

NotGenerating == device.halted => ~Generating

LEMMA HaltStep ==
  ASSUME Operator = {}
  PROVE  Typed /\ NotGenerating /\ [Next]_vars => NotGenerating'
<1> SUFFICES ASSUME Typed, NotGenerating, [Next]_vars PROVE NotGenerating'
  OBVIOUS
<1> USE DEF NotGenerating, Generating
<1>1. CASE \/ \E s \in Situation : Report("context", s)
           \/ Report("crash", None)
           \/ ClearStrikes
  BY <1>1 DEF Report, ClearStrikes, Typed, TypeOK, DeviceRow
<1>2. CASE HandlerStep
  <2>1. CASE DropTask
    BY <2>1 DEF DropTask, Taking
  <2>2. CASE TakeContext
    BY <2>2 DEF TakeContext, Taking, Dropped
  <2>3. ASSUME NEW recent \in BOOLEAN, TakeCrash(recent) PROVE NotGenerating'
    <3>1. ~device.halted /\ device'.halted = device.halted
      BY <2>3 DEF TakeCrash, Dropped, RecordStrike, Typed, TypeOK, DeviceRow
    <3> QED BY <3>1
  <2>4. CASE AgentEscalates
    <3>1. work'[Handler].at \in {"halt", "idle"}
      BY <2>4, Blanks, Beginnings DEF AgentEscalates, RollBackOr, Typed, TypeOK, Hash, RecordType
    <3> QED BY <3>1
  <2>5. CASE AgentRaises
    BY <2>5, Blanks DEF AgentRaises, Typed, TypeOK
  <2>6. CASE \E fw \in Generated : AgentVerifies(fw)
    <3>1. Generating /\ device' = device
      BY <2>6 DEF AgentVerifies, Typed, WorkOK
    <3> QED BY <3>1
  <2> QED BY <1>2, <2>1, <2>2, <2>3, <2>4, <2>5, <2>6 DEF HandlerStep
<1>3. CASE TimerFires
  BY <1>3 DEF TimerFires, Typed, TypeOK
<1>4. ASSUME NEW a \in Actor, DeployStep(a) PROVE NotGenerating'
  <2>1. CASE Halt(a)
    <3>1. a = Handler /\ work[a].type = "rollback"
      BY <2>1 DEF Halt, Typed, WorkOK
    <3>2. work'[Handler].at = "look_up"
      BY <2>1, <3>1 DEF Halt, Typed, TypeOK, Work
    <3> QED BY <3>2
  <2>2. CASE LookUp(a)
    <3>1. a = Handler /\ device' = device
      BY <2>2 DEF LookUp, Typed, WorkOK
    <3>2. work'[Handler].type = "rollback" \/ work'[Handler].at = "idle"
      <4>1. \/ work'[Handler] = Idle
            \/ /\ LastKnownGood \in Hash
               /\ work'[Handler] = Begin("stage", "rollback", LastKnownGood)
        BY <2>2, <3>1 DEF LookUp, Typed, TypeOK, Hash
      <4> QED BY <4>1, Blanks, Beginnings DEF RecordType
    <3> QED BY <3>2
  <2>3. CASE Finish(a)
    <3>1. device'.halted = device.halted
      BY <2>3 DEF Finish, Confirmed, ConfirmActive, Typed, TypeOK, DeviceRow
    <3>2. work'[Handler].at = "idle" \/ work'[Handler] = work[Handler]
      BY <2>3, Blanks DEF Finish, Typed, TypeOK
    <3> QED BY <3>1, <3>2
  <2>6. CASE Stage(a)
    <3>1. device' = device
      BY <2>6 DEF Stage
    <3>2. /\ work[a].at = "stage"
          /\ a = Handler => work'[Handler].type = work[Handler].type
          /\ a # Handler => work'[Handler] = work[Handler]
      BY <2>6 DEF Stage, Typed, TypeOK, Work
    <3> QED BY <3>1, <3>2
  <2>4. CASE Promote(a)
    <3>1. device'.halted = device.halted
      BY <2>4 DEF Promote, Promoted, Typed, TypeOK, DeviceRow
    <3>2. work'[Handler].at = "push" \/ work'[Handler] = work[Handler]
      BY <2>4 DEF Promote, Typed, TypeOK, Work
    <3> QED BY <3>1, <3>2
  <2>5. CASE (\E acked \in BOOLEAN : PushApplied(a, acked)) \/ PushMissed(a) \/ ReadLive(a)
             \/ WriteHistory(a)
    <3>1. device' = device
      BY <2>5 DEF PushApplied, PushMissed, ReadLive, WriteHistory
    <3>2. work'[Handler].at \in Pushed \/ work'[Handler] = work[Handler]
      BY <2>5 DEF PushApplied, PushMissed, ReadLive, WriteHistory, Typed, TypeOK, Work, Pushed
    <3> QED BY <3>1, <3>2 DEF Pushed
  <2> QED BY <1>4, <2>1, <2>2, <2>3, <2>4, <2>5, <2>6 DEF DeployStep
<1>5. CASE (\E fw \in Firmware : LateDelivery(fw)) \/ PollStep \/ PollerDies \/ UNCHANGED vars
  BY <1>5 DEF LateDelivery, PollStep, PollerDies, Poll, Fetch, FetchFails, ApplyFetched, vars,
     server
<1>6. CASE Restart
  BY <1>6, Blanks DEF Restart
<1> QED BY <1>1, <1>2, <1>3, <1>4, <1>5, <1>6 DEF Next

\* SAFETY_PROTOCOL 5: the automatic protocol, left to itself, assigns no generated
\* artifact to a device it has halted.
THEOREM AutomaticHaltHolds ==
  ASSUME Operator = {}
  PROVE  Spec => HaltHolds
<1>1. Init => NotGenerating
  BY DEF Init, NotGenerating
<1>2. Typed /\ NotGenerating /\ [Next]_vars
        => [Assigns({"morph", "patch"}) => ~device.halted]_vars
  <2> SUFFICES ASSUME Typed, NotGenerating, Assigns({"morph", "patch"}), device.halted
               PROVE  FALSE
    OBVIOUS
  <2>1. PICK a \in Actor : work[a].at = "promote" /\ work[a].type \in {"morph", "patch"}
    BY DEF Assigns
  <2>2. a = Handler
    BY <2>1 DEF Typed, WorkOK
  <2> QED BY <2>1, <2>2 DEF NotGenerating, Generating
<1> QED BY InitTyped, StepTyped, HaltStep, <1>1, <1>2, PTL DEF Spec, HaltHolds
=============================================================================
