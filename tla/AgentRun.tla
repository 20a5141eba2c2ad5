------------------------------ MODULE AgentRun ------------------------------
(***************************************************************************)
(* MobileWorldAgentLoop.run (guiagentlab/rollout/agent.py), one coroutine  *)
(* per worker, at work on the pool of RayPool: draw a container, set it up,*)
(* restore the task's snapshot under an initialization slot, run the       *)
(* episode, tear the task down under a teardown slot, give the container   *)
(* back, and on an infrastructure failure discard the attempt and draw     *)
(* another container.                                                      *)
(*                                                                         *)
(* The pool's methods are RayPool's actions; here a worker calls them in   *)
(* the order of run, and takes the branch its exception handlers choose.   *)
(* What the client does to the emulator is one bit per container: whether  *)
(* a task is loaded in it.                                                 *)
(***************************************************************************)
EXTENDS RayPool

CONSTANT MaxAttempts   \* max_infrastructure_attempts

ASSUME AgentRunAssumption == MaxAttempts \in Nat \ {0}

VARIABLES
  stage,         \* where in run each worker is
  attempt,       \* attempt_index
  fault,         \* which handler the attempt is in
  initialized,   \* the local `initialized': a task was loaded, so tear it down
  hasTask        \* a task is loaded in the container's emulator

runVars   == <<stage, attempt, fault, initialized>>
agentVars == <<vars, runVars, hasTask>>

\* run has not been called, or it has returned an episode or raised: attempts
\* exhausted, an internal error, no capacity, or an exception out of one of its
\* own handlers ("raised" without a container, "escaped" with it).
Ended == {"idle", "returned", "exhausted", "raised", "refused", "escaped"}

\* The client talks to the emulator.
Driving == {"setup", "initTask", "episode", "teardownTask", "cleanupTask"}

\* run has a container it has not begun to give back.
Holding ==
  Driving \cup {"initQueue", "teardownQueue", "cleanupQueue", "release"}

Stage == Ended \cup Holding
           \cup {"acquire", "quarantine", "verdict", "record",
                 "recordAttempt", "retry"}

\* "infra": InfrastructureError or TimeoutError, which discard the attempt;
\* "cleanup": either of them after the episode has its score; "internal": the
\* handler of BaseException.
Fault == {"none", "infra", "cleanup", "internal"}

Goto(w, s) == stage' = [stage EXCEPT ![w] = s]

AgentInit ==
  /\ Init
  /\ stage = [w \in Worker |-> "idle"]
  /\ attempt = [w \in Worker |-> 0]
  /\ fault = [w \in Worker |-> "none"]
  /\ initialized = [w \in Worker |-> FALSE]
  /\ hasTask \in [Endpoint -> BOOLEAN]
  /\ \A e \in Endpoint : hasTask[e] => state[e] # "available"

-----------------------------------------------------------------------------
(* Drawing a container *)

StartAttempt(w, n) ==
  /\ AcquireCall(w)
  /\ Goto(w, "acquire")
  /\ attempt' = [attempt EXCEPT ![w] = n]
  /\ fault' = [fault EXCEPT ![w] = "none"]
  /\ initialized' = [initialized EXCEPT ![w] = FALSE]
  /\ UNCHANGED hasTask

StartRun(w) == stage[w] \in Ended /\ StartAttempt(w, 1)

\* Mutants: one attempt too many; attempts that do not count.
RetryOnceMore(w) ==
  /\ stage[w] = "retry"
  /\ attempt[w] <= MaxAttempts
  /\ StartAttempt(w, attempt[w] + 1)

RetrySameAttempt(w) ==
  /\ stage[w] = "retry"
  /\ attempt[w] < MaxAttempts
  /\ StartAttempt(w, attempt[w])

Retry(w) ==
  /\ stage[w] = "retry"
  /\ attempt[w] < MaxAttempts
  /\ StartAttempt(w, attempt[w] + 1)

Exhausted(w) ==
  /\ stage[w] = "retry"
  /\ attempt[w] = MaxAttempts
  /\ Goto(w, "exhausted")
  /\ UNCHANGED <<vars, attempt, fault, initialized, hasTask>>

Drawn(w) ==
  /\ AcquireLease(w)
  /\ Goto(w, "setup")
  /\ UNCHANGED <<attempt, fault, initialized, hasTask>>

\* The pool's RuntimeError is no InfrastructureError.  It reaches the handler
\* of BaseException, without a lease, and is raised again.
Refused(w) ==
  /\ AcquireFails(w)
  /\ Goto(w, "refused")
  /\ UNCHANGED <<attempt, fault, initialized, hasTask>>

Suspends(w) ==
  /\ \/ AcquireWaits(w) /\ stage[w] = "acquire"
     \/ WaitInitialization(w) /\ stage[w] = "initQueue"
     \/ WaitTeardown(w) /\ stage[w] \in {"teardownQueue", "cleanupQueue"}
  /\ UNCHANGED <<runVars, hasTask>>

-----------------------------------------------------------------------------
(* The exception handlers *)

\* Mutant: an infrastructure failure without a loaded task is only recorded.
HandleKeepsLease(w, f, loaded) ==
  /\ fault' = [fault EXCEPT ![w] = f]
  /\ Goto(w, IF f # "infra" THEN "quarantine"
             ELSE IF loaded THEN "cleanupQueue" ELSE "recordAttempt")

\* A handler takes over.  The one of infrastructure failures tears down a
\* loaded task first; both give the container up.
Handle(w, f, loaded) ==
  /\ fault' = [fault EXCEPT ![w] = f]
  /\ Goto(w, IF f = "infra" /\ loaded THEN "cleanupQueue" ELSE "quarantine")

\* TimeoutError from the pool, by the call that raises it.  Nothing catches
\* the one that begin_teardown raises inside the handler: it leaves run.
PoolTimesOut(w) ==
  /\ TimesOut(w)
  /\ \/ /\ stage[w] = "acquire"
        /\ Goto(w, "recordAttempt")
        /\ UNCHANGED <<fault, initialized>>
     \/ /\ stage[w] = "initQueue"
        /\ Handle(w, "infra", FALSE)
        /\ UNCHANGED initialized
     \/ /\ stage[w] = "teardownQueue"
        /\ Handle(w, "cleanup", FALSE)
        /\ initialized' = [initialized EXCEPT ![w] = FALSE]
     \/ /\ stage[w] = "cleanupQueue"
        /\ Goto(w, "escaped")
        /\ UNCHANGED <<fault, initialized>>
  /\ UNCHANGED <<attempt, hasTask>>

GiveUp(w) ==
  /\ stage[w] = "quarantine"
  /\ Quarantine(w)
  /\ Goto(w, "verdict")
  /\ UNCHANGED <<attempt, fault, initialized, hasTask>>

\* The handler of BaseException ignores that the pool refuses a stale lease.
GiveUpStale(w) ==
  /\ stage[w] = "quarantine"
  /\ fault[w] = "internal"
  /\ ~HoldsLease(w)
  /\ Goto(w, "verdict")
  /\ UNCHANGED <<vars, attempt, fault, initialized, hasTask>>

\* quarantine.remote raises, the container given up and its mark lost.  The
\* handler of BaseException goes on; out of that of infrastructure failures the
\* exception leaves run; and after a scored episode it is an internal error.
GiveUpFails(w) ==
  /\ stage[w] = "verdict"
  /\ QuarantineMarkFails(w)
  /\ \/ fault[w] = "internal" /\ UNCHANGED <<stage, fault>>
     \/ fault[w] = "infra" /\ Goto(w, "raised") /\ UNCHANGED fault
     \/ fault[w] = "cleanup" /\ Handle(w, "internal", FALSE)
  /\ UNCHANGED <<attempt, initialized, hasTask>>

\* Mutant: release comes after the try statement instead of inside it.
SettleReleases(w) ==
  /\ stage[w] = "verdict"
  /\ call[w] = "none"
  /\ \/ fault[w] = "cleanup" /\ Goto(w, "release")
     \/ fault[w] = "infra" /\ Goto(w, "recordAttempt")
     \/ fault[w] = "internal" /\ Goto(w, "raised")
  /\ UNCHANGED <<vars, attempt, fault, initialized, hasTask>>

\* quarantine.remote has returned.
Settle(w) ==
  /\ stage[w] = "verdict"
  /\ call[w] = "none"
  /\ \/ fault[w] = "cleanup" /\ Goto(w, "record")
     \/ fault[w] = "infra" /\ Goto(w, "recordAttempt")
     \/ fault[w] = "internal" /\ Goto(w, "raised")
  /\ UNCHANGED <<vars, attempt, fault, initialized, hasTask>>

\* write_infrastructure_attempt may fail, inside a handler.
RecordAttempt(w) ==
  /\ stage[w] = "recordAttempt"
  /\ Goto(w, "retry") \/ Goto(w, "raised")
  /\ UNCHANGED <<vars, attempt, fault, initialized, hasTask>>

-----------------------------------------------------------------------------
(* The attempt *)

\* health, initialize_controller and goal, or the first of them that fails.
SetUp(w) ==
  /\ stage[w] = "setup"
  /\ \/ Goto(w, "initQueue") /\ UNCHANGED fault
     \/ \E f \in {"infra", "internal"} : Handle(w, f, FALSE)
  /\ UNCHANGED <<vars, attempt, initialized, hasTask>>

TakeInitSlot(w) ==
  /\ stage[w] = "initQueue"
  /\ BeginInitialization(w)
  /\ Goto(w, "initTask")
  /\ UNCHANGED <<attempt, fault, initialized, hasTask>>

\* Mutant: end_initialization is not in a finally clause.
InitializeTaskNoFinally(w) ==
  /\ stage[w] = "initTask"
  /\ \E loaded, done \in BOOLEAN :
       /\ done => loaded
       /\ hasTask' = [hasTask EXCEPT ![leaseEndpoint[w]] = @ \/ loaded]
       /\ initialized' = [initialized EXCEPT ![w] = done]
       /\ \/ /\ done
             /\ EndInitialization(w)
             /\ Goto(w, "episode")
             /\ UNCHANGED fault
          \/ /\ UNCHANGED vars
             /\ \E f \in {"infra", "internal"} : Handle(w, f, done)
  /\ UNCHANGED attempt

\* initialize_task and the first screenshot, then end_initialization in the
\* finally clause.  A failed initialization may or may not have loaded the
\* task; a failed screenshot comes after it has.
InitializeTask(w) ==
  /\ stage[w] = "initTask"
  /\ EndInitialization(w)
  /\ \E loaded, done \in BOOLEAN :
       /\ done => loaded
       /\ hasTask' = [hasTask EXCEPT ![leaseEndpoint[w]] = @ \/ loaded]
       /\ initialized' = [initialized EXCEPT ![w] = done]
       /\ \/ done /\ Goto(w, "episode") /\ UNCHANGED fault
          \/ \E f \in {"infra", "internal"} : Handle(w, f, done)
  /\ UNCHANGED attempt

\* _run_valid_attempt: it returns with the score, or it raises.
RunEpisode(w) ==
  /\ stage[w] = "episode"
  /\ \/ Goto(w, "teardownQueue") /\ UNCHANGED fault
     \/ \E f \in {"infra", "internal"} : Handle(w, f, initialized[w])
  /\ UNCHANGED <<vars, attempt, initialized, hasTask>>

\* _tear_down_with_slot, after the episode and in the handler.
TakeTeardownSlot(w) ==
  /\ BeginTeardown(w)
  /\ \/ stage[w] = "teardownQueue" /\ Goto(w, "teardownTask")
     \/ stage[w] = "cleanupQueue" /\ Goto(w, "cleanupTask")
  /\ UNCHANGED <<attempt, fault, initialized, hasTask>>

\* Mutant: the container is released even when the teardown failed.
TearDownIgnoresFailure(w) ==
  /\ stage[w] \in {"teardownTask", "cleanupTask"}
  /\ EndTeardown(w)
  /\ initialized' = [initialized EXCEPT ![w] = FALSE]
  /\ \E gone \in BOOLEAN :
       hasTask' = [hasTask EXCEPT ![leaseEndpoint[w]] = @ /\ ~gone]
  /\ IF stage[w] = "cleanupTask" THEN Handle(w, "infra", FALSE)
     ELSE Goto(w, "release") /\ UNCHANGED fault
  /\ UNCHANGED attempt

TearDown(w) ==
  /\ stage[w] \in {"teardownTask", "cleanupTask"}
  /\ EndTeardown(w)
  /\ initialized' = [initialized EXCEPT ![w] = FALSE]
  /\ \E gone, done \in BOOLEAN :
       /\ done => gone
       /\ hasTask' = [hasTask EXCEPT ![leaseEndpoint[w]] = @ /\ ~gone]
       /\ IF stage[w] = "cleanupTask" THEN Handle(w, "infra", FALSE)
          ELSE IF done THEN Goto(w, "release") /\ UNCHANGED fault
          ELSE Handle(w, "cleanup", FALSE)
  /\ UNCHANGED attempt

GiveBack(w) ==
  /\ stage[w] = "release"
  /\ Release(w)
  /\ Goto(w, "record")
  /\ UNCHANGED <<attempt, fault, initialized, hasTask>>

\* write_episode, after which run returns its output.  When it fails run no
\* longer holds a container, but the handler quarantines all the same.
Record(w) ==
  /\ stage[w] = "record"
  /\ \/ Goto(w, "returned") /\ UNCHANGED fault
     \/ Handle(w, "internal", FALSE)
  /\ UNCHANGED <<vars, attempt, initialized, hasTask>>

-----------------------------------------------------------------------------

RunStep(w) ==
  \/ Drawn(w) \/ Refused(w) \/ Suspends(w) \/ Retry(w) \/ Exhausted(w)
  \/ GiveUp(w) \/ GiveUpStale(w) \/ Settle(w) \/ RecordAttempt(w)
  \/ SetUp(w) \/ TakeInitSlot(w) \/ InitializeTask(w) \/ RunEpisode(w)
  \/ TakeTeardownSlot(w) \/ TearDown(w) \/ GiveBack(w) \/ Record(w)

QuarantineStep(w) ==
  /\ QuarantineMark(w) \/ QuarantineSchedule(w)
  /\ UNCHANGED <<runVars, hasTask>>

\* A container that passed the acceptance probe has been restarted, and the
\* probe's own task torn down again.
RecoveryStep(e) ==
  /\ \/ BootSchedule(e) /\ UNCHANGED hasTask
     \/ RecoveryBegins(e) /\ UNCHANGED hasTask
     \/ RecoverySucceeds(e) /\ hasTask' = [hasTask EXCEPT ![e] = FALSE]
     \/ RecoveryFails(e) /\ UNCHANGED hasTask
     \/ RecoveryEnds(e) /\ UNCHANGED hasTask
  /\ UNCHANGED runVars

AgentNext ==
  \/ \E w \in Worker :
       \/ StartRun(w) \/ RunStep(w) \/ PoolTimesOut(w)
       \/ QuarantineStep(w) \/ GiveUpFails(w)
  \/ \E e \in Endpoint : RecoveryStep(e)

AgentSpec == AgentInit /\ [][AgentNext]_agentVars

\* Every await of run returns sooner or later: the client's requests have
\* timeouts, and the pool's waits a deadline that waking up does not move.
AgentFairSpec ==
  /\ AgentSpec
  /\ \A w \in Worker :
       /\ WF_agentVars(RunStep(w))
       /\ SF_agentVars(PoolTimesOut(w))
       /\ WF_agentVars(QuarantineStep(w) \/ GiveUpFails(w))
  /\ \A e \in Endpoint : SF_agentVars(RecoveryStep(e))

-----------------------------------------------------------------------------
(* Properties *)

AgentTypeOK ==
  /\ TypeOK
  /\ stage \in [Worker -> Stage]
  /\ attempt \in [Worker -> 0..MaxAttempts]
  /\ fault \in [Worker -> Fault]
  /\ initialized \in [Worker -> BOOLEAN]
  /\ hasTask \in [Endpoint -> BOOLEAN]

\* The lease that run drew stays valid until run itself gives it back: no
\* slot call, release or quarantine of a healthy attempt is refused as stale.
LeaseKept ==
  \A w \in Worker :
    \/ stage[w] \in Holding
    \/ stage[w] = "quarantine" /\ fault[w] # "internal"
    => HoldsLease(w)

\* An emulator obeys one master: no container is driven by two runs, or by a
\* run while its recovery is scheduled or under way.
SoleDriver ==
  \A w \in Worker : stage[w] \in Driving =>
    /\ task[leaseEndpoint[w]] = "none"
    /\ \A v \in Worker \ {w} :
         stage[v] \in Driving => leaseEndpoint[v] # leaseEndpoint[w]

\* A container that can be leased has no task left in it: whichever way an
\* attempt ended, its task was torn down or its container recovered.
CleanHandOver ==
  \A e \in Endpoint : state[e] = "available" => ~hasTask[e]

\* A run that is over holds no container, unless its own handler timed out
\* waiting for a slot (see LeaseAlwaysReturned).
LeaseReturned ==
  \A w \in Worker : stage[w] \in Ended \ {"escaped"} => ~HoldsLease(w)

\* The snapshot is restored, and the task torn down, under a slot of the
\* pool, and no slot stays behind when an attempt leaves that stage.
SlotsFollowStages ==
  \A w \in Worker :
    /\ stage[w] = "initTask" <=>
         HoldsLease(w) /\ leaseToken[w] \in initializing
    /\ stage[w] \in {"teardownTask", "cleanupTask"} <=>
         HoldsLease(w) /\ leaseToken[w] \in tearingDown

\* Every run ends, whatever fails.
RunEnds ==
  \A w \in Worker : stage[w] \notin Ended ~> stage[w] \in Ended

\* What the class promises: "An infrastructure exception discards the whole
\* attempt and draws another container.  Exhausting retries raises and stops
\* the batch."  So no exception ends a run with its container still leased...
LeaseAlwaysReturned ==
  \A w \in Worker : stage[w] \in Ended => ~HoldsLease(w)

\* ... and a pool without capacity costs an attempt, not the batch.
RefusalsRetried ==
  \A w \in Worker : stage[w] = "refused" => attempt[w] = MaxAttempts

=============================================================================
