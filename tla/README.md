# GUIAgentLab, specified

TLA+ modules, model-checking configurations and machine-checked proofs about
the rollout infrastructure of GUIAgentLab (`src/guiagentlab`): how training
runs and evaluations share pools of MobileWorld containers, what happens to a
container that breaks, what a run does when the environment fails under it, and
what happens inside an episode.

- [The system](#the-system)
- [The modules](#the-modules)
- [The runs](#the-runs)
- [Fairness](#fairness)
- [What is proved](#what-is-proved)
- [Disagreements between documentation and code](#disagreements-between-documentation-and-code)
- [What is not modelled](#what-is-not-modelled)
- [Plan](#plan)

## The system

GUIAgentLab trains and evaluates GUI agents on Android emulators that live in
docker containers (MobileWorld). Training is verl with Ray; a *rollout* is one
episode of one task in one container.

| Component | State | Operations | Interacts with |
|---|---|---|---|
| `AsyncContainerPool` (`env/ray_pool.py`), one named Ray actor | container states and lease tokens, initialization and teardown slots, recovery tasks | `start`, `acquire`, `release`, `quarantine`, `begin_/end_initialization`, `begin_/end_teardown`, `recover`, `snapshot` | called by every run; calls `EndpointRecovery` in threads |
| `MobileWorldAgentLoop.run` (`rollout/agent.py`), one coroutine per rollout | lease, attempt, whether a task is loaded | the attempt loop and its exception handlers | pool, `MobileWorldClient`, recorder |
| `_run_valid_attempt_impl` (`rollout/agent.py`) with `ConservativeTeacherIntervention`, `DeterministicLoopGuard` | steps, teacher budget and cooldown, guard history, pending teacher queries and process rewards | generate, ask the teacher, step, evaluate, collect | inference servers, client, process-reward pool |
| `EndpointRecovery` (`env/recovery.py`) | JSON file of endpoint states behind a file lock | `statuses`, `mark`, `recover_endpoint` | docker, client |
| `ContainerPool` (`env/pool.py`), threads | as the actor, without slots | `acquire`, `release`, `quarantine`, `recover`, `retire` | evaluation runner, `EndpointRecovery` |
| `OpenAIEvaluator` (`evaluation/openai_runner.py`) | job queue, counters, abort flag, episode files | `run`, `_run_job`, `_completed_jobs` | `ContainerPool`, recorder |
| `EpisodeRecorder` (`rollout/recording.py`) | episode files and their index | `write_episode`, `write_infrastructure_attempt`, ... | file system |
| `GUIAgentLoopManager` (`rollout/manager.py`), `replay/` | replay library | `create`, `generate_sequences`, `_replace_all_failure_groups` | actor creation, run outputs |
| `methods/`, `reward/`, `rollout/samples.py` | none (pure), or one tracker per episode | advantages, milestone progress, process rewards | trainer |
| `MobileWorldClient` (`env/client.py`) | none | HTTP requests: each returns or raises `InfrastructureError` | environment server |

What is hard here, and where tests would hardly reach: the interleavings of
coroutines between the awaits of the pool's methods, of which `quarantine` has
three; one condition shared by waiters of three kinds; lease objects that
outlive their lease; spares that stand in for containers which come back; a
process that dies anywhere in this; a state file that several processes
replace; a wakeup spent on a thread that is giving up; exception handlers whose
own calls can fail; and the asyncio tasks an episode starts, which come back in
any order or must be stopped. `PROJECT.json` lists these hazards line by line with the properties that
watch them.

What makes each component correct:

- *Pool*: a container has at most one live lease; never more than `active`
  leases; no lease, slot or wakeup is lost; a container is restarted only out of
  scheduling; a quarantine that is on file survives a restart; every call returns.
- *Run*: the lease stays valid until given back, and is given back however the
  run ends; an emulator has one driver; a container goes back without a task in
  it; slots follow the stages; every run ends.
- *Recovery*: the file says "available" only of a container that passed a whole
  acceptance and has no task left in it; no update of another thread is lost; a
  crash between two attempts is recovered from; every recovery ends.
- *Evaluation*: every job is recorded once, across crashes and resumes; an
  aborted evaluation is not taken for a complete one; containers go back, and
  clean; every evaluation ends.
- *Step loop*: the teacher is called within its budget and never in cooldown;
  the loop guard knows the executed actions and no others; each pending query
  and reward belongs to its own step and none outlives a discarded attempt.
- *Replay, advantages*: group sizes, pairing of rows with prompts and masks
  survive replacement.

## The modules

| Module | Models | Notes |
|---|---|---|
| `LeasePolicy` | the leasing rule of `acquire`, shared by both pools | pure operators of a state function; endpoints are positions, the first `NActive` are active |
| `LeaseService` | what a pool promises: exclusive grants, a bound, broken containers stay out until restored | abstract specification |
| `RayPool` | `AsyncContainerPool` with the durable state of `EndpointRecovery` and a crash of the process | the core |
| `RayPoolOperator` | `RayPool` with `recover()` at any moment | `recover()` has no caller in the repository, so it is kept apart |
| `AgentRun` | `MobileWorldAgentLoop.run` on top of `RayPool` | every pool call is a `RayPool` action conjoined with the run's own step |
| `EndpointLifecycle` | what the readers of the state file rely on: one record for each endpoint, changed one at a time | abstract specification |
| `EndpointRecovery` | the state file behind its lock, `recover_endpoint`, crashes and failing writes | shown to implement `EndpointLifecycle` |
| `ThreadPool` | `ContainerPool` | shown to implement `LeaseService` |
| `Evaluation` | `OpenAIEvaluator` on top of `ThreadPool`, and the two steps of `EpisodeRecorder.write_episode` | composed like `AgentRun` |
| `StepLoop` | `_run_valid_attempt` and `_run_valid_attempt_impl` with the loop guard and the teacher's rescues | the inside of `AgentRun`'s `RunEpisode` |
| `LeasePolicyProofs`, `RayPoolProofs`, `RayPoolOperatorProofs`, `AgentRunProofs`, `EndpointRecoveryProofs`, `ThreadPoolProofs`, `EvaluationProofs`, `StepLoopProofs` | theorems about the module each is named after | `RayPoolProofs` and `ThreadPoolProofs` build on `LeasePolicyProofs`, `RayPoolOperatorProofs` and `AgentRunProofs` on `RayPoolProofs`, `EvaluationProofs` on `ThreadPoolProofs` |
| `MCRayPool`, `MCRayPoolOperator`, `MCAgentRun`, `MCStepLoop` | symmetry sets and settings for TLC | |

**RayPool.** The actor is one asyncio program: a method runs uninterrupted
between awaits that really suspend it. `async with self.condition` never
suspends on an uncontended lock for long and nothing awaits inside it except
`condition.wait()`, so each locked section is one action. `acquire` is
`AcquireCall` followed by evaluations of its loop: `AcquireLease`,
`AcquireFails`, or `AcquireWaits`, which puts the worker in `asleep`; a
notification removes workers from `asleep`, after which the loop is evaluated
again *in any order with everything else*, which is what makes barging and
spurious wakeups visible. `TimesOut` may end a wait at any time,
a notified worker's included: the deadline covers the reacquisition of the lock. `quarantine` is `Quarantine` (lock, lines 177-187),
`QuarantineMark` (the thread that writes the file) and `QuarantineSchedule`
(`_schedule_recovery`). The mark may raise (`QuarantineMarkFails`: the lock, an
unreadable old file, a full disk): `quarantine` raises to its caller, no recovery
is scheduled, and the file goes on saying "available" of a container that the
pool has withdrawn. The history variable `lost` remembers these containers until
a restart, a later mark or `recover()`; no action reads it. A recovery task is
`queued` before the semaphore, `restarting` in the thread, and `succeeded` or `failed` until it is back on the
event loop (`RecoveryEnds`). `RecoveryFails` is `recover_endpoint` raising after
its last attempt, or out of any of its marks or of `_container_identity` before
the first, which leaves the record as it was. `Restart` forgets everything but
`durable`.
Lease tokens are drawn from a finite set; a token may be drawn again only when
nothing in the state refers to it, which no observer can tell from a fresh
`uuid4`.

The workers of `RayPool` may call anything a lease holder may call, with two
restrictions that hold of the callers in the repository: a worker that asks
for a container holds none, and nobody asks for a slot while owning one.

**AgentRun.** `stage` is where in `run` the coroutine is, `fault` which handler
it is in. `Handle` is the entry of a handler; `cleanupQueue` and `cleanupTask`
are the teardown inside the handler of infrastructure failures. `GiveUpFails`
is `quarantine` raising after it has withdrawn the container: the handler of
`BaseException` swallows it, out of the handler of infrastructure failures it
leaves `run` (stage `raised`, nothing held), and after a scored episode it
becomes an internal error. An error of the recorder is an internal error here:
an `OSError` that happens to be a `TimeoutError` (`ETIMEDOUT` from a network
file system) would reach the handler of infrastructure failures instead. Of the
emulator one bit per container is kept: whether a task is loaded. Failing calls
may or may not have had their effect. `AgentSpec` has no crash: a crash of the
process is `RayPool!Restart`.

**EndpointRecovery.** A `with self._locked_state()` block is two steps, `Read`
(lock and read the file) and `Commit` (write and replace it), with other
threads running in between; `WriteFails` is the exception from writing. A
thread is named by its endpoint, and `stage` is where it is: the stages of
`Mark` end in a locked section, `restart`, `probe` and `loaded` are the steps
of one attempt, `serving` and `out` say that nobody works on the endpoint, and
`down` that its pool's process does not run. `_container_identity` is taken to accept
the endpoint, which holds of a configuration that does not change between two
starts; only `VerdictOnFile` depends on it. That there is one thread for each
endpoint is what the pools guarantee (`RecoveryOwnsContainer` and `PoolTypeOK`
below). Two facts about the container are kept beside the program's state:
whether it has passed its acceptance since it last broke (`proven`) and whether
the acceptance's task is loaded (`loaded`). The exit code of `docker restart`
is not kept, because the code decides nothing by it; that the restart may not
have taken effect is.

**ThreadPool.** One action is one stretch under the condition's lock. A waiter
whose deadline has passed stays among the waiters until it has the lock again:
`Expire` only sets a flag, and a `notify()` may still be spent on it. That is
the hazard of `release`, and it is harmless because `acquire` looks at the
containers before it looks at its deadline; the mutant of `SomeoneLooks` swaps
the two. A lease is named by the thread that drew it, because a thread forgets
its lease when it gives it back. Quarantine is `Quarantine`, `QuarantineMark`
(which may raise) and `QuarantineSchedule`.

**Evaluation.** `stage` is where a worker thread is: in the loop of `run`
(`look`, `get`, `done`, `fatal`), in an attempt of `_run_job`, or ended. Every
pool call is a `ThreadPool` action conjoined with the thread's own step.
`_run_attempt` is one step whose outcome is a score or one of the three kinds of
failure the handlers tell apart. `episodes[j]` is the sequence of valid episode
files of job `j`; a second one would make the next start raise. `WriteEpisode`
may place the file and fail at its index. `ProgressFails` is a thread that dies
over the progress file; it is `dead` from then on. `Rerun` is the evaluation being killed,
or having ended, and being started again over the same directory.

**StepLoop.** The variables are the loop's own: `steps` is `gigpo_steps`,
`guard` the history of the loop guard, `queries` and `judgements` the keys of the
two maps of pending tasks, `live` the tasks that have not ended. `Generate` and
`CallTeacher` are the two ways a student's proposal goes, `TeacherApplied` and
`TeacherRejected` the two outcomes of a rescue; all four that settle an action
go through `Settle`, which cancels queries of repeated steps and submits the new
one. `Act` is the environment step with its screenshot and process reward. A
screenshot is its fingerprint and an action its normalized key, which is all the
loop decides by. Cancelling a query and awaiting its end, when the loop guard
drops a step, is one step; what else may end during that await may as well end
before it. `Fails` and `StopQueries` are the `finally` clause of
`_run_valid_attempt`: process rewards first, then, if the attempt is not valid,
the teacher queries. `config` holds the settings of the launch scripts the code
branches on and does not change.

## The runs

| Run | Instance | Shows |
|---|---|---|
| `ray_pool` | 2 active + 1 spare, 3 workers, crashes | all safety properties of the pool (leases, slots, wakeups, no circle of waiters, recoveries, restarts), and that it implements `LeaseService` |
| `ray_pool_slots` | 2 + 0, 2 workers, one slot of each kind | every `acquire` and every slot wait ends without its timeout; every quarantined container whose mark is written gets a verdict |
| `ray_pool_operator` | 1 + 1, 3 workers | the bound on leases survives `recover()`; a superseded recovery does not undo it |
| `agent_run` | 2 + 0, 2 runs of 2 attempts | all safety properties of the composition |
| `agent_run_live` | 1 + 0, 2 runs of 2 attempts | every run ends |
| `agent_run_leak`, `agent_run_capacity` | as `agent_run` | the first two disagreements below |
| `endpoint_recovery` | 2 endpoints, 2 attempts, 2 crashes | the file can be trusted, lags only where stated, and behaves like one record for each endpoint; recoveries end |
| `thread_pool` | 1 + 1, 3 threads, restarts | no wakeup is lost to a thread that gives up; the pool implements `LeaseService`; leasing goes on |
| `evaluation` | 1 + 0, 2 threads, 2 jobs of 2 attempts, run twice | jobs are recorded once, a returned evaluation is complete, containers go back clean, evaluations end |
| `evaluation_progress` | as `evaluation`, 1 attempt, 1 run | the third disagreement below |
| `step_loop` | 4 steps, 2 screens, 5 settings | rescues are spaced, the guard knows what was executed, rows and queries and rewards agree, no task is orphaned |

*Bounds.* Two active containers and a spare are the least pool in which a spare
stands in for a broken container while another one is leased, and in which both
parts of the leasing rule matter; a third worker makes someone wait while two
hold leases. Slot limits of 1 against two lease holders make slots contended,
and a recovery limit of 1 against several broken containers makes the semaphore
contended. The durable file starts in every possible state. As many tokens as
workers suffice, because a worker forgets its old lease before it asks again.
Two attempts are the least that tell a retry from the last attempt. Workers and
tokens are interchangeable and are declared symmetric in the safety runs;
endpoints are not, their order decides which one is leased; liveness runs
declare no symmetry. `agent_run` turns the deadlock check off: when every run
has leaked its container by the first disagreement below, all who are left wait
for ever unless they time out. The evaluation's runs turn it off too: an
evaluation that has ended, and is not run again, stops. In the other runs
deadlock is checked.

Two endpoints are what it takes for one thread's update of the file to be lost to
another's. Two crashes allow one crash during the recovery that another crash
made necessary. Three threads on one active container and its spare are the
least in which a wakeup is spent on one waiter while another needs it; of the
evaluation, two threads compete for the container and for two jobs, and a second
run of it resumes. Four steps are the least in which a cycle of two is done
twice; three repeats, a rescue with its cooldown and the step after it fit too.
The five settings of `MCStepLoop` are those of `scripts/train/gigpo.sh`,
`admire_grpo.sh` and `opd.sh` with the switches that matter to the loop on and
off.

`ray_pool_slots` has as many containers as workers, so nobody waits there for a
lease while another waits for a slot; with a third worker its liveness check
does not end in reasonable time. That combination is covered by its safety half:
`SomebodyMoves` in `ray_pool`, where a third worker waits for the two lease
holders that contend for slots, and theorem `NoCircularWait` for any number.

The operator's run hides `durable` and `lost` from the state TLC compares (a
`VIEW`): no action but `Restart` reads them, which this specification lacks, and
of its properties only the type invariant does, which `OperatorTypeCorrect`
proves in full.

The bound on leases is checked where it is hardest to keep, with an operator
declaring containers usable (`ray_pool_operator`), and the returning of calls
with both kinds of slots contended (`ray_pool_slots`).

Each property is paired with a mutant of a definition it watches (a dropped
guard, a swapped order, a missing notification) under which TLC finds it
violated; the mutants stand next to the definitions they mutate.

## Fairness

`RayPool!Fairness`: weak fairness for every step a coroutine or thread takes on
its own, because the event loop and the threads run whatever can run. A mark ends either way: the fairness is that of
`QuarantineMark` and `QuarantineMarkFails` together. Strong
fairness where callers compete for a lease, a slot or the recovery semaphore:
asyncio's conditions, locks and semaphores serve in arrival order, so a waiter
is not passed over for ever. A lease holder eventually gives its container back:
an episode has a bounded number of steps and every request a timeout. A
recovery ends: its attempts are bounded and each has timeouts. No fairness is
assumed of `TimesOut` in the pool's runs (calls return *without* the help of
their timeouts), of calling, or of crashes.

`AgentRun!AgentFairSpec`: weak fairness of each run's own steps, weak fairness
of the quarantine's, strong fairness of the recoveries' and of the pool's
timeouts (the deadline of a wait is fixed when the wait begins, waking up does
not move it). It does not assume that slots or containers are handed out fairly:
a run ends even when it is always passed over.

`EndpointRecovery!Fairness`: the lock is strongly fair (the kernel does not pass
over a waiter of `flock` for ever), every other step of a thread weakly fair:
requests, docker commands and sleeps have timeouts. No fairness of starting,
breaking, stopping or crashing.

`ThreadPool!PoolFairness`: weak fairness of the threads' steps, of giving a
container back, and of recoveries; none of deadlines. Python's
`threading.Condition` wakes waiters in order but does not hand over the lock,
so a notified thread may find the container leased by one that came later, again
and again. The code promises no more than `LeasingGoesOn`: a thread comes back
from `acquire`, or leases go on being drawn.

`Evaluation!Fairness`: weak fairness of each thread, of each recovery and of
joining the threads. A thread's step includes the passing of its deadline:
`acquire_timeout` is always set here. `StepLoop` states no liveness: that an
episode ends follows from its bounded steps and the timeouts of its requests,
which `AgentRun` and `RunEnds` take up.

## What is proved

All theorems are checked by TLAPS for every value of the constants within the
named assumptions: every number of containers, workers, tokens, endpoints,
threads and jobs, every limit, threshold and number of attempts, and every
length of episode.

- `LeasePolicyProofs`. `AcquireIsDecided`: one of the two candidate loops finds
  a container exactly while there is room for a lease, so a pool never makes an
  acquirer wait beside a container it may lease; and `acquire` waits exactly
  while all leases are out, or containers are missing and a recovery may bring
  one back. The argument counts: when every active container in service is
  leased, the leased spares are fewer than the missing active containers. Both
  pools use it.
- `RayPoolProofs`. The inductive invariant is `ServiceInv`, in parts that are
  proved in this order:
  - `TypeCorrect`, `ExclusiveLeases`, `CapacityRespected`, `RecoveryExclusive`.
    Exclusiveness is not inductive: it needs `LeaseBooks` (a container has a
    token exactly while leased, no token is in two workers' hands, an acquiring
    worker has forgotten its lease) together with the fact that a new token
    differs from all known ones. Capacity rests on the bound in the leasing rule
    and on cardinality lemmas.
  - `SlotsAreSound`, whose invariant ties each slot to a leased container;
    `WakeupsKept`: a worker falls asleep only when it cannot be served, and
    every step which could make it servable wakes everyone.
  - `LeasesHeld`; `QuarantinesRecover`: without `recover()`, the early return
    and the error of `_schedule_recovery` are not met, because a quarantine under
    way has its container to itself. `DurableQuarantine` says when the file lags
    behind the pool: between the locked half of quarantine and its mark, after a
    mark that raised, and between a recovery's success and its return to the
    event loop (`FileLags`).
  - `NoCircularWait`: whoever sleeps, somebody else can go on. Acquirers wait for
    lease holders or for a recovery, slot waiters for slot owners, and a slot
    owner is never asleep (`SlotOwnersRun`). It is `SomebodyMoves` of the run. TLC's deadlock check does not say
    this, because `Restart` is always possible.
  - `ImplementsService`: every step is a step of `LeaseService` or a stutter
    under `Owner`. `FileImplementsLifecycle`: the file as the pool writes it
    implements `EndpointLifecycle`, the specification `EndpointRecovery`
    implements as well, so that the two models of the file agree on what its
    readers see. Its invariant adds what the file says of each container in
    service or in recovery (`FileFollows`).
  - `QuarantineSurvivesRestart`, from `DurableQuarantine` and `FileFollows`:
    after a restart exactly those containers are out of service that were out
    before and of which the file does not lag. So a crash loses no container
    that was in service, and the three cases of `FileLags` are all there is by
    which a withdrawn one comes back. It is not claimed that they are harmless:
    a mark that raised is, to the next start, a quarantine that never was.
    `LostMarksStrand` is the other side of it: until then such a container stays
    quarantined, and no recovery task has it.
- `RayPoolOperatorProofs`. With `recover()` at any moment a recovery task no
  longer has its container to itself, nor has a quarantine under way; the
  invariant (`OperatorInv`) is what is left of `ServiceInv` without those two.
  It still carries `OperatorTypeCorrect`, `OperatorCapacity`, `OperatorLeases`
  and `OperatorSlots`; a recovering container still has a task that will settle
  it (`OperatorRecoveries`), and a superseded one does not undo the operator's
  word (`VouchedStays`).
- `AgentRunProofs`. `RunUsesPool` (every behaviour of `AgentRun` is one of
  `RayPool`) and `PoolServesRuns`, the pool's theorems for the composition; and
  from them each safety property of the run, by an invariant that pins down, for
  every stage, the pool call the worker is in, the slot it owns and whether a
  task is loaded.
- `EndpointRecoveryProofs`. `RecoveryTypeCorrect`; `FileIsTrusted`;
  `VerdictReached`; `ImplementsLifecycle`. The invariant has three parts:
  `LockHeld` (at most one thread has a payload, and it equals the file, so a
  commit changes one record), `FileFollowsStage` (what each stage says of the
  endpoint's own record) and `FileVouches` itself. `VerdictOnFile` follows from
  the second, and refinement is then one case for each kind of mark.
  `RecordsAreOwned`: whatever process rewrites the file, a record changes only by
  its own thread's mark, to "available" only after a passed acceptance that was
  cleaned up, and from "recovering" to "quarantined" only after the last
  attempt.
- `ThreadPoolProofs`. `PoolTypeCorrect`, whose equivalences (a token exactly
  while leased, a recovery thread exactly while recovering) need `PoolBooks` and
  that a quarantine under way has its container to itself;
  `PoolImplementsService` and `PoolCapacity`, from the leasing rule and its
  cardinality lemmas; `QuarantinesGoThrough`: the guards that stand for returns
  and errors of `_start_recovery` never block. `WakeupsReach` is `SomeoneLooks`
  for any number of threads. It is not inductive: that one thread is about to
  look does not survive its leasing one of two free containers. What is
  (`WakeupsCover`) counts: while threads wait and the pool is not below
  capacity, the leases that are out and the threads that will run the tests are
  together at least `NActive`. A waiter whose deadline has passed must not be
  counted, since a notification may be spent on it. `ThreadsNeverStuck` follows:
  who waits, waits for a thread about to look, for one free to give its container
  back, or for a recovery. `ThreadsRestart`, from `FileAgrees`: after a crash at
  any point the file alone brings back into service what was in use, and begins
  anew the recoveries that had not made their last mark.
- `EvaluationProofs`. `EvaluationUsesPool` and `PoolServesEvaluation`, as for
  `AgentRun`; `JobsRecordedOnce`
  from `JobBooks` (from `Get` to `WriteEpisode` a thread has a job of its own,
  off the queue, without an episode), and `EpisodesAreFinal` from the same: no
  episode on disk is ever written over; `LeasesReturned` from a relation between
  each stage and the pool call of its thread; `HandOversClean`, which adds that
  a recovered container is clean and that a thread about to release has torn
  its task down; `ReturnsAreComplete`: as long as nothing went
  wrong for good, every job is queued, in a thread's hands or recorded, and the
  counters lack of what is on disk just what threads have yet to count.
- `StepLoopProofs`. `StepTypeCorrect`; `RescuesAreSpaced`, by relating the
  cooldown that is left to the distance from every applied rescue;
  `GuardSeesExecuted`, where appending to the history leaves the loops of all
  prefixes as they were; `ReturnedRowsComplete`, for which the first step is
  never part of a repetition and every earlier step has a score or a task that
  will bring it; `TasksAreOwned`, from `live` being covered by the two maps of
  pending tasks; `StepsAreRecorded`: steps are added and never rewritten. That a
  score is given once needs that a step with a pending judgement has none yet
  (`JudgedOpen`), since the judgements come back in any order at the end.

Each invariant and action property that a passing run checks is proved, and so
is each refinement. The invariants above and the properties that only theorems
state (`LostIsOut`, `FileLifecycle`, `RestartResumes`, `OwnMarksOnly`,
`StepsStand`, ...) were themselves checked by TLC on the runs' instances before
they were proved.

Only model-checked: the liveness properties (`CallsReturn`,
`QuarantineResolved`, `RunEnds`, `RecoveryConcludes`, `LeasingGoesOn`,
`EvaluationEnds`), which need fairness and ENABLED, out of the proof system's
reach. The proved `NoCircularWait`, `ThreadsNeverStuck` and `WakeupsReach` are
their safety halves: at each moment somebody can take a step that helps. The
violations are counterexamples, found by TLC.

## Disagreements between documentation and code

The class comment of `MobileWorldAgentLoop` (agent.py:75-77) says that an
infrastructure exception discards the attempt and draws another container, and
that only exhausting the retries stops the batch.

1. `LeaseAlwaysReturned` (run `agent_run_leak`). In the handler of
   infrastructure failures the teardown catches only `InfrastructureError`
   (agent.py:468); the `TimeoutError` of `begin_teardown` leaves `run` with the
   container leased and in no one's hands. Everything else is shown of runs
   that did not end this way (`LeaseReturned`).
2. `RefusalsRetried` (run `agent_run_capacity`). A pool below its active count
   raises `RuntimeError`, where the threaded pool raises
   `InfrastructureError(NO_CAPACITY)`; the run treats it as an internal error
   and stops the batch on any attempt. TLC's trace reaches the condition by a
   recovery that failed. With a recovery configured the condition also holds in
   the moment between the wake-up in `quarantine` and the scheduling of the
   recovery, and for good after a mark that raised.

A third one is between what an evaluation's code intends and what it does.
`OpenAIEvaluator.run` raises after a fatal error, saying that "partial results
must not be summarized" (openai_runner.py:343-344).

3. `PartialNeverReturned` (run `evaluation_progress`). A worker thread writes the
   progress file outside the `try` that turns an exception into an abort
   (openai_runner.py:307, and 328 in its `finally` clause). When writing fails
   the thread dies with its job, nothing is set, and `run` returns its counters
   as if complete. When no thread died this way the property holds
   (`ReturnsComplete` in run `evaluation`, theorem `ReturnsAreComplete`).

## What is not modelled

Failures of Ray itself; cancellation of a coroutine from
outside; `ContainerPool.recover` and `retire`, which nothing calls; the failure
counters and error texts of the pools (no decision reads them); the contents of
episode and attempt records; milestone observations and the numbers in rewards;
HTTP encoding and docker's own behaviour beyond "it took effect or not";
provisioning scripts. The advantage estimators are floating-point arithmetic on
tensors, which TLA+ and TLC do not have. `StepLoop` and `AgentRun` are not
composed: the teacher queries of a valid attempt belong to its rows, and what
becomes of them after `run` is the trainer's business.

The repository vendors verl (`src/verl`) and MobileWorld (`src/mobile_world`),
which are nearly all of its lines: a general trainer and an environment server
with their own upstreams. They appear here as the callers of `run` and as the
server that answers or fails. A lease is not written
to the durable file, so a container that a dying process leaves with a task in
it is offered again after the restart: `initialize_task` restores the snapshot,
and that this suffices is a property of the environment server.

## Plan

Written, in this order: `LeasePolicy`, `LeaseService`, `RayPool`,
`RayPoolOperator`, `AgentRun`; `EndpointRecovery` with `EndpointLifecycle`;
`ThreadPool`; `Evaluation`; `StepLoop`; and the proofs of each. What is left that
would be worth modelling:

1. `Replay`: `_replace_all_failure_groups`, the choice of the trajectory to
   replace and the pairing of rows with prompts, as operators checked against a
   reference definition on small batches.
2. `Milestones`: monotone progress across observations and attempts, and the
   masks derived from it.
3. The grouping and masking around the advantage estimators, with integers in
   place of the returns.
4. The process-reward actors: their queue, concurrency limit and retries, in
   place of the single task per reward in `StepLoop`.
