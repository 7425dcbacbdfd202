# CAEF, specified

TLA+ modules for CAEF, the context-aware firmware engine of this repository:
what its components do, the runs that model-check them, and the theorems
proved about them. Paths are relative to the repository's root.

Run a configuration with `tlc -config X.cfg M`, check proofs with
`tlapm M_proofs.tla`. `PROJECT.json` lists every run, the source lines each
definition stands for, the mutants that show each property can fail, the
findings and the hazards.

## The system

CAEF adapts a device's firmware to the situation the device reports. Two
pipelines share the telemetry intake and the operator's tools.

**Manifest mode.** A model proposes a *manifest*; the server validates it,
compiles it to a controller program, verifies the program in a simulated closed
loop, signs it and delivers it. The device checks the package, stages it in its
inactive slot, tries it on probation, and returns to its last-known-good slot on
expiry of the lease or on failure, with no server involved. A supervisor that no
firmware can replace owns the actuators.

**Source mode (v0.1).** A model writes Python; guard rail and sandbox vet it; the
deployer records it in the device's A/B hashes and the history, and pushes it.
Three strikes roll a device back and halt generation; a scheduler ends a morph.
On the device a watchdog with three threads runs the firmware as a child process.

| Component | State | Operations | What is hard | Correct when |
|---|---|---|---|---|
| Slots (`edge_node/slots.py`) | two slots, leases, active / candidate / last-known-good, watermark, counters; one JSON file | lease arithmetic, load, save | several saves per tick, a wall clock that moves | a restart loses nothing that was decided |
| Virtual device (`virtual_device.py`) | the above in memory, interpreter, supervisor | provision, install, tick, revert, restart | failure, expiry and restart inside one tick | every trial ends; there is always a floor to land on |
| Supervisor (`supervisor.py`) | fan, safe state, emergency flag, heartbeat count, transition log | local policy, intents, handover | order of policy, intents and fallbacks | a hot device is cooled whatever the firmware wants |
| Runtime (`server/compiler/runtime.py`) | what it last commanded, when, whether it has yielded | initialize, step, shutdown | its belief against the actuator | the fan follows the program's rules |
| Compiler, validator, registry | none | pure functions of a manifest | boundary conditions | output within what the registry allows |
| Package (`server/ota/package.py`) | none | sign, verify | the order and completeness of the checks | a stale, replayed or foreign package is refused |
| Pipeline (`server/manifest_pipeline.py`), ledger (`deploy/ledger.py`) | deployments and their transitions | the stages of `run`, reported outcomes | a stage that fails, an answer that is lost | the ledger never claims more than the device said |
| Deployer (`deploy/deployer.py`), rollback, scheduler | device row, history, strikes, timers | deploy, rollback, revert, schedule, cancel | timers, operator and pipeline at once | a halted device gets nothing new; a morph ends |
| Orchestrator, distributor, listener | queue, a lock per device | handle, dispatch, publish | a handler that awaits between check and use | one generation at a time per device |
| Agents, guard rail, sandbox | attempts of one task | propose / generate, check, run | the retry budget | nothing unvetted leaves the loop |
| Watchdog (`edge_node/watchdog.py`), poll API | firmware file, child process, stop flag | push, poll, fetch, supervise | three threads on two fields | one child, running the newest artifact |
| Simulation, verifier, dashboard, experiments, demo | traces | measure, show | nothing concurrent | out of the models |

## Modules

| Module | Models |
|---|---|
| `Slots` | `slots.py`: leases, slot records, the persistent document and its readers |
| `Package` | the part of a package and of `verify_package` that a device's state can change, and staging |
| `VirtualDevice` | `virtual_device.py` over `Slots` and `Package`: one action per operation; the tick is a sequence of actions because it saves several times |
| `Tenancy` | what the lifecycle promises, without slots, saves or probation: a package is taken up once, in increasing order, controls for at most its term, and is never resumed |
| `Supervisor` | `supervisor.py` and `runtime.py` through the parts of one tick, with the lifecycle reduced to "the device is handed to another program" |
| `Deployment` | `deployer.py`, `rollback.py`, `scheduler.py` and the handler of `orchestrator.py` for one device, with the device at the other end: its OTA socket and its poll thread |
| `Lifecycle` | what the ledger promises about a device it only hears from: intended, sent, held, running, over, never ahead of the device's word |
| `Pipeline` | `manifest_pipeline.py` and `ledger.py` under the distributor's lock, delivering to a device that is the document of `Slots` |
| `Watchdog` | `watchdog.py` below `Deployment`: the file, its temporary name, `self.child` and the processes, under three threads |
| `Manifest` | the registry, conditions, the validator's checks and the compiler, as operators |
| `Controller` | one proposal from either manifest agent through `Manifest` to the interpreter that steps the program |
| `Generation` | `Agent.run`: replies, tool calls, guard rail, sandbox and the budget of attempts |
| `MCDevice`, `MCSupervisor`, `MCDeployment`, `MCPipeline`, `MCWatchdog`, `MCController`, `MCGeneration` | constants for TLC |
| `VirtualDevice_proofs`, `OneMorph_proofs`, `Supervisor_proofs`, `Deployment_proofs`, `Pipeline_proofs`, `Watchdog_proofs`, `Controller_proofs`, `Generation_proofs` | theorems |

### The device

`disk` is the state file, `mem` the `DeviceState` in memory, `ctl` the
interpreter, `sup` the supervisor as far as the lifecycle looks at it, `pc` the
place inside a tick. `tick()` saves after charging the lease, after deciding a
failure, after the revert, and after scoring probation. Each stretch between two
saves is one action, and `Restart`, enabled at every one of them, rebuilds `mem`
from `disk` as `load_state` and `_boot_running_slot` do. `ControllerFaults` stands
for any step that raises `ControllerFault`: in shipped code a budget overrun, in
the tests an injected fault.

A clock the test suite replaces (`wall_clock`) is a variable that may be set
anywhere up to `MaxTime`, backwards included.

### The supervisor

The fan is the one actuator of the registry. A program is known by the readings
that activate and that recover it, its minimum hold, its fallback and whether it
beats; the programs of `MCSupervisor` are one per compilation pattern, and one
whose conditions are the wrong way round, which the validator permits and the
emergency policy exists for. A tick is `Sense` (readings, local policy), then
possibly `LeaseExpires`, then `Control` or `Fault`, then `Score`. `Restart` may
fall between any two. `moves` counts the fan's changes by age, which is what
the budget looks at; time is in ticks.

Left out: the checks of pin, schema, current and kind, which no intent of a
compiled program fails (the compiler resolved them against the same registry),
the counters, and the order in which several actuators would be visited.

### Deployment

`device`, `history` and `store` are the device's row, the history table and the
firmware store, which survive a restart of the server; `tasks` (the queue), `job`
(the scheduler's entry) and `work` do not. `work` says what each server actor is
in the middle of: the handler, of which the distributor's lock lets one run; the
thread `asyncio.to_thread` gives a reversion, which cancelling the task does not
stop; and one thread per request at the dashboard. All three go through
`deploy`: stage (the store), promote (the row), push, `write_history`, confirm.

One step is as much as nothing can come between: what the event loop runs up to an
`await`, or one database session. `write_history` is two steps, because it reads
the live rows before its transaction locks anything. On the device a step is one
write of the firmware file or one answer of the poll API.

- A push is applied and acknowledged, applied with the answer lost, or not read
  in time; then it is lost or read later (`late`). A connection that cannot be made,
  because the OTA thread has ended, is a push not read in time.
- The poll thread may end (`PollerDies`) wherever `Watchdog` says it can: by an answer
  that is cut short or malformed, or by the restart after a re-request. Nothing in the
  code starts it again, so `Reconciled` promises agreement only while it lives.
- `running` is what is in the firmware file, whether or not the child process is up.
- Time is left out: a window or a condition may end at any moment, and a crash may
  or may not be recent. One reversion thread runs at a time, since the shortest
  window is far longer than the longest push.
- An event that is lost on the way to the listener is one that is not reported.
- `clear_strikes` has no caller but the tests and a shell; it may happen at any time.
- The agent is its outcome: `AgentVerifies`, `AgentEscalates`, `AgentRaises`.

### Pipeline

`row` is the ledger, `work` what each worker thread is doing inside `run()`, `lock`
the distributor's critical section of the device. Each ledger write is a step,
because it is a transaction of its own, and `next_sequence` is a step before the
write of the number it found. `Raise` may come between any two steps and stands for
a database error, a failing gate or the end of the process: the lock is released,
the row stays where it was and no code returns to it. The device at the other end
uses the operators of `Slots` and `Package` (`Verified`, `Staged`, `Promoted`,
`Reverted`); its clock and budgets are left out, so a candidate passes or fails and
a lease ends at any time. The lock is the one `run()`'s docstring relies on, the
Distributor's; `main.py` wires the Distributor to the source-mode orchestrator only,
and the demo, which calls `run()` from one thread, has no need of it.

`reports` are the outcomes the caller of `run()` has seen and not yet recorded. The
server records nothing itself. The one caller that does, `demo/safe_demo.py`, records
an activation, and the expiry of what it has seen activated; it exits when a probation
fails, and `record_rollback` has no caller at all. `Hear` puts into `reports` exactly
what it records; records come late and in any order, an illegal one raises in the
caller, and none is promised. The caller has a deployment's id from the result of
`run()`, so it records nothing while `run()` is still delivering it.

`Lifecycle` is the abstract specification. The map reads a claim off the row's state
(`ClaimOf`); `ImplementsLifecycle` says that every step of pipeline, device and caller
is a step of it: a rejected deployment was not and will not be installed, `accepted`,
`active` and the endings come after the device's own word, nothing ended comes back.

### Watchdog

Nothing locks `firmware_path`, the `.py.incoming` file beside it, or `self.child`, so
every read and write of them is a step: opening the temporary file (which truncates
it), writing, renaming, each of the reads of `self.child` in `restart_firmware`, and the
one in the log line of `start_firmware`. `wait(timeout=5)` stays with the process it was
called on. A thread that has the file open keeps it through a rename by another; `fd`
says under which name it now is. A process is started first and reads the file some time
later (`Load`). `Deaf` firmware ignores SIGTERM and is killed when the wait times out.
Processes may end by themselves at any time.

An exception of `apply_ota` in the OTA thread is answered as a rejection. `readline` and
`sendall` are outside that `try`: `HangUp` is a peer that sends nothing or goes away while
the thread reads, and `Answer` may find it gone. Both may end the thread, and a silent
peer may keep it in `read` for good, as the connection has no timeout. In the poll thread
an exception that is not about the network or a value ends the thread (`dead`);
`PollRaises` is one in `poll_once`, which names fewer.

`alone` is history: no other application had the file open between this one's open and
its answer. What is promised of the content of the file is promised of those, because of
the others it does not hold (`NeverHalfWritten`, below).

### Manifest, Controller

`Manifest` has the registry of `registry/capability_registry_v1.json` as functions,
conditions with their operators and groups, each check of the validator by its name
in the code, the compilation patterns in their order, the rules each one builds, the
minimum hold and the compiler's own refusals.

Thresholds are machine numbers. `Float` is the finite set of those there are, as
integers in units of the smallest distance between two; it may be as sparse away from
zero as floating point is. `Add` and `Midpoint` are the exact result rounded to a nearest
member, a tie either way, so the offsets of `_satisfiable_together` (`EPSILON` for 1e-9,
`ONE` for 1.0) are absorbed where the numbers are far enough apart. NaN and the
infinities are not in it. Costs and budgets are exact, in tenths of a millisecond: the
code sums floats, and `round(cpu, 6)` (`compiler.py:451`) turns a sum like
0.7999999999999999 back into 0.8, so the two gates can differ only for budgets within
1e-15 of a sum, which is left out. `Controller` gives them a life:
the model's attempts with the validator's verdict fed back, the deterministic
proposer with its variants, validation and compilation in the pipeline, the caller
that compiles without validating, and `initialize`, `step` and `shutdown` of the
interpreter with no-op suppression, minimum hold, budget and contract gate.
`Supervisor` takes programs as given; `ServesTheSupervisor` is the assumption it
makes of them, checked against the code that produces them.

### Generation

Generated code is the pins a scan of it finds, the pins it declares, whether the other
checks clear it and whether it runs healthily. A reply is tool calls, prose, JSON that
is no object, or code; each is an action, and so are the ways the sandbox ends. The
guard rail answers a syntax error; what else the parser or the scan raises (a number too
long, nesting too deep) leaves `Agent.run` (`GuardRaises`). `Retry` is the end of an
attempt: a fresh tool, or escalation after the last.

## Runs

| Run | Question | Answer |
|---|---|---|
| `device` | Replay, trial isolation, crash recovery, with packages offered at any time | hold |
| `device_one_morph` | With packages only offered between morphs: the floor, the lease as a bound, refinement of `Tenancy`, every leased morph leaves | hold |
| `device_chained_install` | Is last-known-good overwritten? | yes, by a second install while a promoted morph is active |
| `supervisor` | Emergency, faults, safe state, relays and silence under any readings and any handovers | hold |
| `supervisor_belief` | Does the fan follow the rules of a program in undisturbed control? | no: one refused command is never repeated |
| `deployment` | Handler, reversion, operator, a lossy push and a restart of the server at once: is what is assigned there to be served, is the active slot honest, is a pending morph generated again, does the device end up running what it is assigned? | yes, yes, no, yes while its poll thread lives |
| `deployment_alone` | Nobody at the dashboard: does every morph end, does the halt hold? | yes |
| `pipeline` | Two threads, raises between any two writes, late and reordered reports: are numbers spent once, is one deployment live per situation, does the ledger implement `Lifecycle`, is the expiry of what was active ever lost? | yes, yes, yes, no |
| `watchdog` | Pushes and re-requests at once, crashes, a firmware deaf to SIGTERM, peers that go away: no crash loop, an accepted push nobody overlapped whole in the file and started, every push that was read brought to its answer? | yes |
| `watchdog_rejected` | Does a rejected push leave the firmware alone? | no: `self.child` is cleared between two reads of it, after the file was replaced |
| `controller` | Every set of capabilities, every pair of comparisons, the limits, the stub's variants, on three boards, numbers dense near zero and sparse away from it: is the probing sound, and complete where nothing absorbs its offsets, do validator and compiler deliver what the next stage relies on, does a rule wait out the hold? | yes |
| `generation` | Every kind of answer: does only checked code run, and does every task end? | yes |

`expect: violation` runs are the findings of `PROJECT.json`, each against a line
of the repository that says otherwise.

The two device runs with many properties differ in their environment, because
the chained install breaks what the second asks: `Spec` lets a package arrive at
any time between ticks; `SpecOneMorph` only while the factory image is active and
nothing is on trial.

What the properties of `deployment_alone` ask of their environment is what the code
needs. (They are checked with one situation, no operator and no restart.) A restart of
the server loses the timers, which are kept in memory; the first morph of a device
without history finds nothing to revert to; a second morph for another situation cancels
the timer of the first and is reverted to it; a rollback at the dashboard can overtake a
generation. Two history rows may stay live when two threads read the live rows before
either writes, and all properties hold with two as well.

### Statements of the documentation that the code does not keep

These properties are stated in the modules and are false of the code, or false
there without a restriction of the environment. No run holds them; each is refuted
when it is added to the configuration named here.

| Property | Configuration | What is said, and what happens |
|---|---|---|
| `CrashedMorphIsResolved` (PROPERTY) | `DeviceOneMorph.cfg` | `src/config.py:235` promises a local crash budget; the first fault of a promoted morph ends the steps that could spend the rest of it, so `LOCAL_FAILURE_LIMIT` (3) is not reached |
| `RollbackAvoidsStruck` (PROPERTY) | `DeploymentAlone.cfg` | `src/doc/SAFETY_PROTOCOL.md:62` rolls back to what is not itself strike-triggering; `last_known_good` (`deployer.py:288`) returns the inactive hash, which after two patches in a row is the first of them |
| `HaltHolds` (PROPERTY) | `Deployment.cfg` | `src/doc/SAFETY_PROTOCOL.md:61` halts all generation; the flag is read before the model call (`orchestrator.py:59`) and a dashboard rollback during the call is overtaken. It holds, and is proved, without operators |
| `ReversionEndsMorph` (PROPERTY) | `DeploymentAlone.cfg` | `orchestrator.py:120` cancels the timer so that it cannot restore what was not replaced; a reversion thread already looking up its target (`scheduler.py:84`) is not stopped and lands on the patch |
| `LiveMeansHeld` (INVARIANT) | `Pipeline.cfg` | `ledger.py:238` calls a live row one "that the device already has"; a candidate overwritten by the next package while on probation stays `accepted_by_device`, and its event is dropped as a duplicate from then on |
| `FailureReachesTheLedger` (INVARIANT) | `Pipeline.cfg` | `ledger.py:40` has a way out of `accepted_by_device` because probation can still fail; the demo exits on a failed probation (`demo/safe_demo.py:378`), the experiments record nothing and `record_rollback` has no caller, so a candidate that failed stays `accepted_by_device` |
| `NeverStranded` (PROPERTY) | `Deployment.cfg` | `watchdog.py:7` says a dropped push never strands the device; an exception the poll thread does not name ends it, and a push missed after that is never made good. `Reconciled` is what holds |
| `OtaThreadSurvives` (INVARIANT) | `Watchdog.cfg` | `watchdog.py:116` says a malformed push must not kill the device; `readline` (111) and `sendall` (124) raise outside the `try` when the peer has gone, and the thread ends |
| `NeverHalfWritten` (INVARIANT) | `Watchdog.cfg` | `watchdog.py:86` says the firmware file is never half written; push and re-request share `.py.incoming`, and one renames what the other has just truncated or is writing. `AcceptedRunsItsCode` is what holds, of those that nobody overlapped |
| `ProbingIsExact` (INVARIANT) | `Controller.cfg` | `manifest/validator.py:277` calls the probes exact; where a threshold is so large that 1e-9 or 1.0 is absorbed all nine fall on the thresholds, and `<` beside `!=` passes as disjoint. `ConsistencyIsExact` is what holds |
| `ValidatedIsDisjoint` (INVARIANT) | `Controller.cfg` | `manifest/validator.py:303` says activation and recovery must be disjoint; by the same absorption a manifest whose two conditions share readings is validated |
| `FanRests` (PROPERTY) | `Controller.cfg` | `runtime.py:148` says an actuator may not change again within the hold; the fallback is emitted without it, and `initialize` forgets the last change. `RelayRests` is what holds of the rules |
| `HoldIsTheRegistrys` (PROPERTY) | `Controller.cfg` | `compiler.py:459` says a manifest cannot shorten the hold; it is rounded to the manifest's period and counted in device ticks, so a period above the tick shortens it. `RelayRests` is what holds, with a period of at most a tick |
| `ReturnsOrEscalates` (INVARIANT) | `Generation.cfg` | `agent.py:68` counts a bad response as a failed attempt; a JSON list, a tool call without a number (`agent.py:121`) and a slow `docker kill` (`sandbox_runner.py:167`) raise out of `Agent.run` |

### Bounds, and why they are enough

- Device: sequence numbers up to `MaxSeq` = 2 (a second package can replay, chain or
  supersede the first; a third adds no new relation between two), probation and failure
  limits of 2 (one step short of the limit, and the limit), a longest lease of 3 ticks
  (longer than probation, so both orders of promotion and expiry occur), a clock of 0 ..
  1 (0 .. 3 in `device_one_morph`, so that a lease may run out by the clock alone and be
  un-expired by setting it back), one missed heartbeat allowed. `device` uses three
  programs that differ in heartbeat, in asking for the safe state and in fallback.
- Supervisor: four readings - cool, between the thresholds, hot, critical - and none
  at all, which is every case the code distinguishes; a minimum hold of 2 ticks and
  a ceiling of 2 changes in 4 ticks, the same proportion as the registry's 5 s and
  12 in 60 s; one missed heartbeat.

- Deployment: a baseline and up to two generated artifacts (the latest, the one before it,
  and the one before a morph are the three the lookups tell apart); two or three reports,
  as a morph, a crash in it and one more event after a rollback is the longest chain the
  handler's decisions depend on; one request, one fault, one restart, each at every place;
  two strikes instead of three, so that one is below the limit. A restart also uses up the
  fault: a restart and a lost push in one behaviour are in the proofs only. The system
  stops when the bounds are used up, so these runs do not check deadlock.
- Pipeline: three deployments (one overwritten, one overwriting, one after both), two
  workers, one situation and one crash event, one raise at any place; a lease of one
  unit, as it may end at any time. The ledger fills up, so the run may stop.
- Watchdog: three firmwares, one of them deaf, and two applications that pass the hash
  check, so that push and re-request overlap at every pair of places, or follow one
  another in one thread; any number of refused pushes and of peers that go away. It stops
  when the threads have ended.
- Controller: all 255 sets of capabilities with every declaration of inputs, outputs and
  fallback; all pairs of the six operators at five thresholds, alone, and in groups of
  two, over numbers that are all there up to 20, then three apart (26 and 29 absorb
  `EPSILON` and not `ONE`), then sixteen apart (48 absorbs both); limits at and past
  their edge, the processor's with a budget that equals the cost; boards that have all
  pins, lack one, or forbid one. A lease of seven ticks lets a hold of five be seen in
  full. A program that has ended does nothing more, nor does a refused manifest, so the
  run may stop.
- Generation: two attempts and two tool turns, which is one that fails and one after it;
  three pins, of which one is wired and permitted, one forbidden, one not wired. A
  finished task stops.

### Fairness

Liveness is checked under weak fairness of `Tick`: a device that is on calls
`tick()` again and again (`tick` has no wait and cannot block), and inside a tick
the code runs on to its end. Nothing is assumed of the server, of packages, of
the clock, of restarts or of which branch a step takes. `Undisturbed` has ticks
only: `FanFollowsRules` is refuted without installs or restarts.

For `Deployment` (`FairSpec`): the handler and each thread go on until they are done
(pushes and the sandbox have timeouts; a call of the model is assumed to return or
raise, as one that did neither would hold its device's lock for good), the drain loop
takes the next task, a waiting job ends its wait, and the watchdog's poll thread goes on
polling for as long as it lives, which is not promised. Nothing is assumed of reports,
operators, late deliveries, restarts, or of which outcome a push or the agent has;
faults are bounded, so a fetch that is retried succeeds in the end.

`Pipeline` assumes none: no caller has to record anything, and all it promises is
safety. `Watchdog`: the two applying threads and the supervising one are scheduled once
they have something to do, and `wait(timeout=5)` ends. Nothing is assumed of peers, so a
thread may stay in `readline`, nor that a thread outlives its exceptions; `PushAnswered`
starts at a push that was read. `Generation`: a call of the model returns and the
sandbox ends, which the container's own timeout sees to; `docker info` has none, and a
daemon that hangs there would hang the task.

## Proofs

All theorems hold for every value of the constants that satisfies the modules'
named assumptions (`SlotsAssumption`, `DeviceAssumption`,
`SupervisorAssumption`, ...), which TLC evaluates in the runs.

- `VirtualDevice_proofs`: type correctness first - what `Restart` reads is a device
  state because every save wrote one. `ReplayRefused` strengthens to `WatermarkInv`:
  memory and file never disagree on the watermark, since it moves in the same save as
  the slot, and no accepted number is above it. `ControllerNeverStrays` ties the
  interpreter to the running slot wherever the supervisor lets it run. Its second part
  is on recovery: between two saves of a tick memory may differ from disk only in ways a
  restart is entitled to forget. `OnTrial` says a candidate sits in an occupied slot
  other than the active one, `Grounded` that the active slot is occupied wherever a
  promotion would make it the fallback; with them `RestartForgetsNothing`,
  `TrialIsHarmless` and `FallbackIsKept` follow.
- `OneMorph_proofs`: with packages between morphs the fallback is
  always the factory image. `DeviceImplementsTenancy` is the refinement: the map
  reads holder, term and use off the disk, and `Agrees` relates disk and memory at
  each place of the tick, so that a charge reaches `Tenancy` when it is saved and
  not before; `LeaseIsABound` is the same argument on the device's own ledger of use.
- `Supervisor_proofs`: `CoolingInv` adds `FlagMatches`, that inside a tick the
  emergency flag agrees with the reading of the tick. Without it the three
  invariants are not inductive: a restart drops the flag while the last reading is
  still critical, and only the fan's position carries the guarantee over to the
  next reading. Each of the supervisor's operators has a lemma on what it may
  change, and each part of the tick one on the invariant. `SafeStateHolds` is the
  action property over the same invariant.

- `Deployment_proofs`: `Typed` is the inductive invariant. `WorkOK` says what an
  actor at each place of its work may be doing - only the handler generates, only a
  reverter reverts - and `StoreOK` that whatever is pushed, fetched or still on its
  way is in the store; `Retrievable` and `ActiveHasRun` need both, since a late push
  or a stale fetch may become what the device runs at any time. `NoRepeatedMorph`
  is inductive over it, as only the handler schedules. `AutomaticHaltHolds`: with no
  operator, `NotGenerating` (a halted device is not being generated for) is
  invariant, because the one halt comes from the handler itself.
- `Pipeline_proofs`: three theorems over one invariant. `AtPlace` says what the worker at
  each place of `run()` may rely on although each write before was a transaction of its
  own: where its row is, that nothing live has its event (`Free`), that a number just read
  is above every row and above the watermark, and that the device has spoken of its row
  exactly when it answered. It holds because the lock leaves one worker inside (`Locked`)
  and because the caller's reports concern only rows the device has spoken of. `Told`
  backs reports and slots by that word. `LedgerImplementsLifecycle` maps each step to a
  claim, a word or a stutter. That the ledger has a greatest number is an induction over
  finite sets, done with the well-founded order on subsets (`GreatestExists`); this is what
  `IsFiniteSet(Deployment)` is assumed for. `PipelineTypeCorrect` bounds the watermark,
  which that invariant leaves open: numbers are `Dense`, none above the count of the rows
  that have one, because a number read and not written, by a run that raised, is read
  again. It assumes a number for each row, `Cardinality(Deployment) <= MaxSeq`.
  `ExpiriesAreRecorded` adds `OnTrial`: a candidate on trial is one of which the device
  has said no more than that it is installed. So what has both been activated and ended was
  active when it ended, and the caller, which had seen the activation, heard of it.
- `Watchdog_proofs`: `HoldsForPatch` counts, so the invariant is an account. Every
  process there is was paid for by one application that passed the hash check, and a
  thread at a place from which it may still start one has paid already (`Account`);
  `Known` keeps `self.child` on processes that were started, in spite of the supervising
  thread that clears it, and `Progress` says what each thread has done by its place, in
  any interleaving of the three. `AcceptedPushRunsItsCode` adds `Solos`: while an
  application is alone its open file is the temporary one, empty until it writes, then
  its own code, which the rename makes the firmware file; a process started after that
  reads that file or nothing.
- `Controller_proofs`: every manifest that survives parsing (`BehaviorManifest`: any
  names, any thresholds, any positive limits), not only the ones the run enumerates.
  `Built` says what each of the three patterns compiles to; from it and the validator's
  checks follow `ProgramsServe`, which is what `SupervisorAssumption` takes for granted of
  a program's rules and fallback, and `LaterGatesFindNothing`.
  `ProbesSuffice` is the argument behind the nine probes: whatever value satisfies two
  comparisons, a probe on the same side of both thresholds does too, unless a threshold
  absorbs `ONE`. Rounding to a nearest number never leaves the side it started from: a
  number between two others is between their rounded halves, and a threshold with `ONE`
  added or taken away, where it is not lost, comes out beyond it (`AddGoesUp`,
  `AddGoesDown`, `MidpointIsBetween`). That a probe found is a reading is true whatever is
  absorbed, so a rejection is always right. `Judged` and `Staged`
  carry what the gates established to the stages after them. The cost of a manifest and
  the rules of a tick are folds; that the recursive function behind a fold exists is
  proved once, by the least cardinality at which it might not (`FoldDefined`), and with it
  that a fold stays in its type and that a tick of any number of rules changes the fan at
  most as `Ticked` says (`FoldStays`). What a fold adds up to is not needed.
  `ControllerAssumption` asks that proposals are such manifests, with thresholds in `Float`.
  `TheRelayRests`: the interpreter counts ticks and the compiler rounds the hold up to
  steps of the manifest's period, so a period of at most a tick makes the count enough
  (`HoldInTime`); a step that yields emits the fallback alone, which can only turn the fan
  on, and that is the exemption the property names.
- `Generation_proofs`: `OnlyCheckedRuns` needs `Provenance`, that the tool of the
  current attempt has answered every pin in `calls` - an attempt that fails takes its
  answers with it - and that what waits for the sandbox has cleared the guard rail
  with them. Nothing is assumed of the model's replies.

Model-checked only: `LeasedMorphLeaves`, `SilenceIsNoticed`, `Reconciled`,
`MorphEnds`, `PushAnswered` and `Ends` (liveness under
fairness is out of the prover's reach), and the refutations; every other property of
a run is a theorem. The supervisor's transition budget is a fold over the log, and what a
fold adds up to needs induction over data, so no theorem depends on its value.

## Not modelled

- The world's heat equation (`sim/world.py`: floating point; its readings are arbitrary
  here), its scenarios and harness.
- The closed-loop verifier (`verify/verifier.py`): a function of finished traces of that
  world. Its verdict is a free choice in `Pipeline`.
- The device's sensor loop, drivers and telemetry sockets, the MCP server and its
  read-only tools, the dashboard's pages, the measurements of the experiments.
- HMAC and key files, JSON and canonical form, rendering and hashing of a program, the
  file system below an atomic replace, the scan of a Python syntax tree, prompts and
  retrieval, the database engine.
- A device whose state file is lost starts blank; that is outside what `slots.py`
  claims to survive.

## Plan

In this order, the most important behaviour first.

1. Device lifecycle: `Slots`, `Package`, `VirtualDevice`, `Tenancy`. Done.
2. Supervisor and runtime. Done.
3. `Lifecycle`, `Pipeline`: deployments through the stages of `run`, with the theorems. Done.
4. `Deployment`: deployer, rollback, strikes, scheduler and handler, with operators,
   lost pushes and restarts. Done.
5. `Watchdog`: the three threads, the file and the child process, with the theorems. Done.
6. `Manifest`, `Controller`, `Generation`, with the theorems. Done.
7. Left: lemmas that the constants of one module are what another proves of them, for
   the supervisor's programs in particular, and the lines of the hazards no property covers.
