----------------------------- MODULE ThreadPool -----------------------------
(***************************************************************************)
(* ContainerPool (guiagentlab/env/pool.py): the leasing rule of            *)
(* LeasePolicy for the threads of an evaluation.  One action is one stretch*)
(* under `self._condition', or one call between two of them.               *)
(*                                                                         *)
(* A thread keeps only its latest lease, and forgets it when it has given  *)
(* the container back, so the uuid of a lease is named by the thread that  *)
(* drew it: `holder[e]' is the container's lease_token.  Of the endpoint   *)
(* file only the word that counts is kept, `vouched': the record says      *)
(* "available" (EndpointRecovery has the rest).  recover and retire are not*)
(* modelled: nothing calls them.                                           *)
(***************************************************************************)
EXTENDS LeasePolicy

CONSTANTS
  Worker,
  NoWorker,
  NoEndpoint

ASSUME ThreadPoolAssumption ==
  /\ NoWorker \notin Worker
  /\ Worker \cap {"free", "out"} = {}
  /\ NoEndpoint \notin Endpoint

VARIABLES
  state,      \* container.state
  holder,     \* container.lease_token
  vouched,    \* the file has the endpoint "available"
  task,       \* the recovery thread
  call,       \* where a thread is in acquire or quarantine
  expired,    \* the deadline of its acquire has passed
  lease       \* the endpoint of the thread's lease

containerVars == <<state, holder>>
recoveryVars == <<vouched, task>>
callVars == <<call, expired>>
poolVars == <<containerVars, recoveryVars, callVars, lease>>

CallState == {"none", "testing", "waiting", "mark", "schedule"}
TaskState == {"none", "running", "recovered", "failed"}

\* _validate_lease_locked
HoldsLease(w) ==
  /\ lease[w] \in Endpoint
  /\ state[lease[w]] = "leased"
  /\ holder[lease[w]] = w

-----------------------------------------------------------------------------
(* The constructor *)

\* Mutant: a persisted record is quarantined and never handed to a recovery.
BootStateUnscheduled(v) ==
  [e \in Endpoint |-> IF v[e] THEN "available" ELSE "quarantined"]

\* The persisted records are quarantined and handed to recoveries.
BootState(v) ==
  [e \in Endpoint |-> IF v[e] THEN "available" ELSE "recovering"]

BootTask(v) == [e \in Endpoint |-> IF v[e] THEN "none" ELSE "running"]

PoolInit ==
  /\ vouched \in [Endpoint -> BOOLEAN]
  /\ state = BootState(vouched)
  /\ task = BootTask(vouched)
  /\ holder = [e \in Endpoint |-> NoWorker]
  /\ call = [w \in Worker |-> "none"]
  /\ expired = [w \in Worker |-> FALSE]
  /\ lease = [w \in Worker |-> NoEndpoint]

\* The process is killed, and a new one makes a pool.
PoolRestart ==
  /\ state' = BootState(vouched)
  /\ task' = BootTask(vouched)
  /\ holder' = [e \in Endpoint |-> NoWorker]
  /\ call' = [w \in Worker |-> "none"]
  /\ expired' = [w \in Worker |-> FALSE]
  /\ lease' = [w \in Worker |-> NoEndpoint]
  /\ UNCHANGED vouched

-----------------------------------------------------------------------------
(* acquire *)

Waiters == {w \in Worker : call[w] = "waiting"}

AcquireCall(w) ==
  /\ call[w] = "none"
  /\ lease[w] = NoEndpoint
  /\ call' = [call EXCEPT ![w] = "testing"]
  /\ UNCHANGED <<containerVars, recoveryVars, expired, lease>>

\* The deadline passes.  A waiter stays among the waiters until it has the lock
\* again, and a notification may still be spent on it.
Expire(w) ==
  /\ call[w] \in {"testing", "waiting"}
  /\ ~expired[w]
  /\ expired' = [expired EXCEPT ![w] = TRUE]
  /\ UNCHANGED <<containerVars, recoveryVars, call, lease>>

\* A thread that was notified, or whose wait has timed out, runs the tests.
Tests(w) == call[w] = "testing" \/ (call[w] = "waiting" /\ expired[w])

\* Mutant: the deadline is looked at before the containers.
MayLeaseInTime(w) == Tests(w) /\ ~CannotServe(state) /\ ~expired[w]

MayLease(w) == Tests(w) /\ ~CannotServe(state)

\* _lease_locked
AcquireLease(w) ==
  /\ MayLease(w)
  /\ \E e \in Endpoint :
       /\ FirstOf(LeaseCandidates(state), e)
       /\ state' = [state EXCEPT ![e] = "leased"]
       /\ holder' = [holder EXCEPT ![e] = w]
       /\ lease' = [lease EXCEPT ![w] = e]
  /\ call' = [call EXCEPT ![w] = "none"]
  /\ expired' = [expired EXCEPT ![w] = FALSE]
  /\ UNCHANGED recoveryVars

\* InfrastructureError(NO_CAPACITY): at once when nothing can bring the pool
\* back, or when the deadline has passed and there is no container to lease.
AcquireRaises(w) ==
  /\ Tests(w)
  /\ \/ CannotServe(state)
     \/ expired[w] /\ ~(MayLease(w) /\ LeaseCandidates(state) # {})
  /\ call' = [call EXCEPT ![w] = "none"]
  /\ expired' = [expired EXCEPT ![w] = FALSE]
  /\ UNCHANGED <<containerVars, recoveryVars, lease>>

AcquireWaits(w) ==
  /\ call[w] = "testing"
  /\ ~expired[w]
  /\ ~CannotServe(state)
  /\ LeaseCandidates(state) = {}
  /\ call' = [call EXCEPT ![w] = "waiting"]
  /\ UNCHANGED <<containerVars, recoveryVars, expired, lease>>

-----------------------------------------------------------------------------
(* release and quarantine *)

\* Condition.notify
NotifyOne ==
  IF Waiters = {} THEN UNCHANGED call
  ELSE \E v \in Waiters : call' = [call EXCEPT ![v] = "testing"]

\* Condition.notify_all, by a thread that goes on with `next'
Woken(v) == IF call[v] = "waiting" THEN "testing" ELSE call[v]
NotifyAll == call' = [v \in Worker |-> Woken(v)]
NotifyAllAndGo(w, next) ==
  call' = [v \in Worker |-> IF v = w THEN next ELSE Woken(v)]

Release(w) ==
  /\ call[w] = "none"
  /\ HoldsLease(w)
  /\ state' = [state EXCEPT ![lease[w]] = "available"]
  /\ holder' = [holder EXCEPT ![lease[w]] = NoWorker]
  /\ lease' = [lease EXCEPT ![w] = NoEndpoint]
  /\ NotifyOne
  /\ UNCHANGED <<recoveryVars, expired>>

Quarantine(w) ==
  /\ call[w] = "none"
  /\ HoldsLease(w)
  /\ state' = [state EXCEPT ![lease[w]] = "quarantined"]
  /\ holder' = [holder EXCEPT ![lease[w]] = NoWorker]
  /\ NotifyAllAndGo(w, "mark")
  /\ UNCHANGED <<recoveryVars, expired, lease>>

QuarantineMark(w) ==
  /\ call[w] = "mark"
  /\ vouched' = [vouched EXCEPT ![lease[w]] = FALSE]
  /\ call' = [call EXCEPT ![w] = "schedule"]
  /\ UNCHANGED <<containerVars, task, expired, lease>>

\* The mark raises: the container stays quarantined and nobody recovers it.
QuarantineMarkFails(w) ==
  /\ call[w] = "mark"
  /\ call' = [call EXCEPT ![w] = "none"]
  /\ lease' = [lease EXCEPT ![w] = NoEndpoint]
  /\ UNCHANGED <<containerVars, recoveryVars, expired>>

\* _start_recovery; it would return at a recovering container and raise at a
\* leased one.
QuarantineSchedule(w) ==
  /\ call[w] = "schedule"
  /\ state[lease[w]] \notin {"recovering", "leased"}
  /\ state' = [state EXCEPT ![lease[w]] = "recovering"]
  /\ task' = [task EXCEPT ![lease[w]] = "running"]
  /\ lease' = [lease EXCEPT ![w] = NoEndpoint]
  /\ NotifyAllAndGo(w, "none")
  /\ UNCHANGED <<holder, vouched, expired>>

-----------------------------------------------------------------------------
(* _recover_endpoint *)

\* recover_endpoint returns, its last mark made, or raises.
RecoveryConcludes(e) ==
  /\ task[e] = "running"
  /\ \E verdict \in {"recovered", "failed"} :
       /\ task' = [task EXCEPT ![e] = verdict]
       /\ vouched' = [vouched EXCEPT ![e] = verdict = "recovered"]
  /\ UNCHANGED <<containerVars, callVars, lease>>

\* Mutant: a recovered container wakes one waiter.
RecoveryEndsNotifyOne(e) ==
  /\ task[e] \in {"recovered", "failed"}
  /\ task' = [task EXCEPT ![e] = "none"]
  /\ state' = [state EXCEPT ![e] =
       IF task[e] = "recovered" THEN "available" ELSE "quarantined"]
  /\ NotifyOne
  /\ UNCHANGED <<holder, vouched, expired, lease>>

\* The container is "recovering" still: nobody else takes it out of that state.
RecoveryEnds(e) ==
  /\ task[e] \in {"recovered", "failed"}
  /\ state[e] = "recovering"
  /\ task' = [task EXCEPT ![e] = "none"]
  /\ state' = [state EXCEPT ![e] =
       IF task[e] = "recovered" THEN "available" ELSE "quarantined"]
  /\ NotifyAll
  /\ UNCHANGED <<holder, vouched, expired, lease>>

-----------------------------------------------------------------------------

AcquireStep(w) == AcquireLease(w) \/ AcquireRaises(w) \/ AcquireWaits(w)
QuarantineStep(w) ==
  QuarantineMark(w) \/ QuarantineMarkFails(w) \/ QuarantineSchedule(w)
RecoveryStep(e) == RecoveryConcludes(e) \/ RecoveryEnds(e)

PoolNext ==
  \/ \E w \in Worker :
       \/ AcquireCall(w)
       \/ AcquireStep(w)
       \/ Expire(w)
       \/ Release(w)
       \/ Quarantine(w)
       \/ QuarantineStep(w)
  \/ \E e \in Endpoint : RecoveryStep(e)
  \/ PoolRestart

PoolSpec == PoolInit /\ [][PoolNext]_poolVars

\* Threads run, a recovery ends, and who has a lease gives it back.  No
\* deadline need ever pass.
PoolFairness ==
  /\ \A w \in Worker :
       /\ WF_poolVars(AcquireStep(w))
       /\ WF_poolVars(Release(w) \/ Quarantine(w))
       /\ WF_poolVars(QuarantineStep(w))
  /\ \A e \in Endpoint : WF_poolVars(RecoveryStep(e))

FairPoolSpec == PoolSpec /\ PoolFairness

-----------------------------------------------------------------------------
(* Properties *)

\* The variables have their types; a container has a token exactly while it is
\* leased, and a recovery of its own exactly while it is recovering.
PoolTypeOK ==
  /\ state \in [Endpoint -> ContainerState \ {"retired"}]
  /\ holder \in [Endpoint -> Worker \cup {NoWorker}]
  /\ \A e \in Endpoint : state[e] = "leased" <=> holder[e] # NoWorker
  /\ \A e \in Endpoint : state[e] = "recovering" <=> task[e] # "none"
  /\ vouched \in [Endpoint -> BOOLEAN]
  /\ task \in [Endpoint -> TaskState]
  /\ call \in [Worker -> CallState]
  /\ expired \in [Worker -> BOOLEAN]
  /\ lease \in [Worker -> Endpoint \cup {NoEndpoint}]

\* Though release wakes one waiter only, and that one may be giving up at that
\* very moment, no thread is left waiting while there is a container for it:
\* somebody who will look at the containers is always on the way.
SomeoneLooks ==
  Waiters # {} /\ (LeaseCandidates(state) # {} \/ CannotServe(state)) =>
    \E w \in Worker : Tests(w)

\* The callers of the pool see LeaseService.
owner == [e \in Endpoint |->
  IF state[e] = "leased" THEN holder[e]
  ELSE IF state[e] \in OutOfService THEN "out" ELSE "free"]

Service == INSTANCE LeaseService WITH
  Capacity <- NActive, Free <- "free", Out <- "out"

PoolServes == Service!Spec

\* Without the help of its timeout a thread comes back from acquire, or others
\* get containers again and again: the pool does not promise who is first.
InAcquire(w) == call[w] \in {"testing", "waiting"}

LeasingGoesOn ==
  \A w \in Worker :
    \/ []<>~InAcquire(w)
    \/ []<><<\E v \in Worker : AcquireLease(v)>>_poolVars

=============================================================================
