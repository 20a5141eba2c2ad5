------------------------------ MODULE RayPool ------------------------------
(***************************************************************************)
(* AsyncContainerPool (guiagentlab/env/ray_pool.py): the single Ray actor  *)
(* that leases MobileWorld containers to the rollout coroutines of a       *)
(* training run, limits how many of them restore a snapshot or tear down a *)
(* task at a time, and recovers the containers they give back broken.      *)
(*                                                                         *)
(* The actor is one asyncio program.  A method runs without interruption   *)
(* between two awaits that really suspend it, and that is the grain of the *)
(* actions: evaluating a wait loop once, the locked half of quarantine, its*)
(* durable mark, the scheduling of the recovery, ...  All waiters share one*)
(* condition; `asleep' holds those suspended in condition.wait() that      *)
(* nobody has notified since.                                              *)
(*                                                                         *)
(* Workers are the callers.  Here they call in any order a lease holder    *)
(* may, which includes the order of MobileWorldAgentLoop.run.              *)
(***************************************************************************)
EXTENDS LeasePolicy

CONSTANTS
  Worker,           \* rollout coroutines
  Token,            \* lease tokens (uuid4 in the code)
  NoToken,          \* Python's None where a token could be
  RecoveryEnabled,  \* whether the actor was given a recovery configuration
  InitLimit,        \* initialization_concurrency
  TeardownLimit,    \* teardown_concurrency
  RecoveryLimit     \* recovery_concurrency

ASSUME RayPoolAssumption ==
  /\ NoToken \notin Token
  /\ RecoveryEnabled \in BOOLEAN
  /\ InitLimit \in 1..NActive
  /\ TeardownLimit \in 1..NActive
  /\ RecoveryLimit \in 1..NActive

VARIABLES
  state,          \* containers[e].state
  token,          \* containers[e].token
  initializing,   \* _initializing: tokens that own an initialization slot
  tearingDown,    \* _tearing_down: tokens that own a teardown slot
  task,           \* _recovery_tasks[e]: how far the recovery of e has come
  durable,        \* the endpoint's state in the file of env/recovery.py
  booting,        \* endpoints start() has still to schedule
  lost,           \* history: the mark of e's last quarantine raised
  call,           \* the pool method each worker is suspended in
  asleep,         \* workers in condition.wait(), not yet notified
  leaseEndpoint,  \* the worker's lease object: its "endpoint" ...
  leaseToken      \* ... and its "token"

containerVars == <<state, token>>
slotVars      == <<initializing, tearingDown>>
recoveryVars  == <<task, durable, booting, lost>>
leaseVars     == <<leaseEndpoint, leaseToken>>
vars == <<state, token, initializing, tearingDown, task, durable, booting, lost,
          call, asleep, leaseEndpoint, leaseToken>>

NoEndpoint == 0

DurableState == {"available", "quarantined", "recovering", "retired"}
TaskState == {"none", "queued", "restarting", "succeeded", "failed"}
CallState == {"none", "acquire", "init", "teardown", "mark", "schedule"}

-----------------------------------------------------------------------------
(* Leases and slots *)

\* Mutant: _validate does not compare the tokens.
HoldsAnyLease(w) ==
  leaseEndpoint[w] \in Endpoint /\ state[leaseEndpoint[w]] = "leased"

\* _validate accepts the worker's lease object.
HoldsLease(w) ==
  /\ leaseEndpoint[w] \in Endpoint
  /\ state[leaseEndpoint[w]] = "leased"
  /\ token[leaseEndpoint[w]] = leaseToken[w]

\* uuid4 never repeats a token, so a token that nothing refers to any more is
\* as good as one never drawn: this keeps Token small in the checked models.
KnownTokens ==
  {token[e] : e \in Endpoint} \cup {leaseToken[w] : w \in Worker}
    \cup initializing \cup tearingDown

FreshTokens == Token \ KnownTokens

Running(w) == w \notin asleep

WakeAll == asleep' = {}

-----------------------------------------------------------------------------
(* The actor starts, with whatever the durable file says. *)

\* Mutants: start() restores the state the file names, or only "quarantined".
BootStateRestored(d) ==
  [e \in Endpoint |-> IF RecoveryEnabled THEN d[e] ELSE "available"]

BootStateQuarantinedOnly(d) ==
  [e \in Endpoint |->
     IF RecoveryEnabled /\ d[e] = "quarantined" THEN "quarantined"
                                                ELSE "available"]

BootState(d) ==
  [e \in Endpoint |->
     IF RecoveryEnabled /\ d[e] # "available" THEN "quarantined"
                                              ELSE "available"]

BootQueue(d) ==
  {e \in Endpoint : RecoveryEnabled /\ d[e] # "available"}

Init ==
  /\ durable \in [Endpoint -> DurableState]
  /\ state = BootState(durable)
  /\ booting = BootQueue(durable)
  /\ token = [e \in Endpoint |-> NoToken]
  /\ initializing = {}
  /\ tearingDown = {}
  /\ task = [e \in Endpoint |-> "none"]
  /\ lost = [e \in Endpoint |-> FALSE]
  /\ call = [w \in Worker |-> "none"]
  /\ asleep = {}
  /\ leaseEndpoint = [w \in Worker |-> NoEndpoint]
  /\ leaseToken = [w \in Worker |-> NoToken]

\* The training process dies and is started again: only the file is left.
Restart ==
  /\ durable' = durable
  /\ state' = BootState(durable)
  /\ booting' = BootQueue(durable)
  /\ token' = [e \in Endpoint |-> NoToken]
  /\ initializing' = {}
  /\ tearingDown' = {}
  /\ task' = [e \in Endpoint |-> "none"]
  /\ lost' = [e \in Endpoint |-> FALSE]
  /\ call' = [w \in Worker |-> "none"]
  /\ asleep' = {}
  /\ leaseEndpoint' = [w \in Worker |-> NoEndpoint]
  /\ leaseToken' = [w \in Worker |-> NoToken]

\* start() awaits _schedule_recovery for one persisted endpoint after another
\* and workers are created only after it returned.
BootSchedule(e) ==
  /\ e \in booting
  /\ booting' = booting \ {e}
  /\ state' = [state EXCEPT ![e] = "recovering"]
  /\ task' = [task EXCEPT ![e] = "queued"]
  /\ WakeAll
  /\ UNCHANGED <<token, slotVars, durable, lost, call, leaseVars>>

-----------------------------------------------------------------------------
(* acquire *)

\* The caller keeps no lease object of an earlier attempt.
AcquireCall(w) ==
  /\ booting = {}
  /\ call[w] = "none"
  /\ ~HoldsLease(w)
  /\ call' = [call EXCEPT ![w] = "acquire"]
  /\ leaseEndpoint' = [leaseEndpoint EXCEPT ![w] = NoEndpoint]
  /\ leaseToken' = [leaseToken EXCEPT ![w] = NoToken]
  /\ UNCHANGED <<containerVars, slotVars, recoveryVars, asleep>>

\* Mutant: the lease object is built before the token is drawn.
LeaseTokenLate(w, e, t) ==
  /\ state' = [state EXCEPT ![e] = "leased"]
  /\ token' = [token EXCEPT ![e] = t]
  /\ leaseEndpoint' = [leaseEndpoint EXCEPT ![w] = e]
  /\ leaseToken' = [leaseToken EXCEPT ![w] = token[e]]

\* _lease
Lease(w, e, t) ==
  /\ state' = [state EXCEPT ![e] = "leased"]
  /\ token' = [token EXCEPT ![e] = t]
  /\ leaseEndpoint' = [leaseEndpoint EXCEPT ![w] = e]
  /\ leaseToken' = [leaseToken EXCEPT ![w] = t]

AcquireLease(w) ==
  /\ call[w] = "acquire"
  /\ Running(w)
  /\ \E e \in Endpoint, t \in FreshTokens :
       /\ FirstOf(LeaseCandidates(state), e)
       /\ Lease(w, e, t)
  /\ call' = [call EXCEPT ![w] = "none"]
  /\ UNCHANGED <<slotVars, recoveryVars, asleep>>

\* RuntimeError: capacity is below the active count and nothing recovers.
AcquireFails(w) ==
  /\ call[w] = "acquire"
  /\ Running(w)
  /\ CannotServe(state)
  /\ call' = [call EXCEPT ![w] = "none"]
  /\ UNCHANGED <<containerVars, slotVars, recoveryVars, asleep, leaseVars>>

AcquireWaits(w) ==
  /\ call[w] = "acquire"
  /\ Running(w)
  /\ ~CannotServe(state)
  /\ LeaseCandidates(state) = {}
  /\ asleep' = asleep \cup {w}
  /\ UNCHANGED <<containerVars, slotVars, recoveryVars, call, leaseVars>>

\* Any of the three wait loops gives up: the deadline fires in the wait, or
\* after the notification but before the worker has the lock again.  (The test
\* of the deadline before the wait is this action taken right after going to
\* sleep.)
TimesOut(w) ==
  /\ call[w] \in {"acquire", "init", "teardown"}
  /\ asleep' = asleep \ {w}
  /\ call' = [call EXCEPT ![w] = "none"]
  /\ UNCHANGED <<containerVars, slotVars, recoveryVars, leaseVars>>

-----------------------------------------------------------------------------
(* release and quarantine.  With a stale lease both raise ValueError and    *)
(* change nothing.                                                          *)

\* Mutant: the teardown slot is not discarded.
DiscardInitSlot(t) ==
  /\ initializing' = initializing \ {t}
  /\ UNCHANGED tearingDown

DiscardSlots(t) ==
  /\ initializing' = initializing \ {t}
  /\ tearingDown' = tearingDown \ {t}

\* Mutant: notify(1), although waiters of all kinds share the condition.
ReleaseNotifyOne(w) ==
  /\ call[w] = "none"
  /\ HoldsLease(w)
  /\ DiscardSlots(leaseToken[w])
  /\ state' = [state EXCEPT ![leaseEndpoint[w]] = "available"]
  /\ token' = [token EXCEPT ![leaseEndpoint[w]] = NoToken]
  /\ IF asleep = {} THEN UNCHANGED asleep
     ELSE \E v \in asleep : asleep' = asleep \ {v}
  /\ UNCHANGED <<recoveryVars, call, leaseVars>>

Release(w) ==
  /\ call[w] = "none"
  /\ HoldsLease(w)
  /\ DiscardSlots(leaseToken[w])
  /\ state' = [state EXCEPT ![leaseEndpoint[w]] = "available"]
  /\ token' = [token EXCEPT ![leaseEndpoint[w]] = NoToken]
  /\ WakeAll
  /\ UNCHANGED <<recoveryVars, call, leaseVars>>

\* The locked half; the other two steps follow only with a recovery.
Quarantine(w) ==
  /\ call[w] = "none"
  /\ HoldsLease(w)
  /\ DiscardSlots(leaseToken[w])
  /\ state' = [state EXCEPT ![leaseEndpoint[w]] = "quarantined"]
  /\ token' = [token EXCEPT ![leaseEndpoint[w]] = NoToken]
  /\ WakeAll
  /\ call' = [call EXCEPT ![w] = IF RecoveryEnabled THEN "mark" ELSE "none"]
  /\ UNCHANGED <<recoveryVars, leaseVars>>

\* await asyncio.to_thread(self.recovery.mark, endpoint, "quarantined", reason)
QuarantineMark(w) ==
  /\ call[w] = "mark"
  /\ durable' = [durable EXCEPT ![leaseEndpoint[w]] = "quarantined"]
  /\ lost' = [lost EXCEPT ![leaseEndpoint[w]] = FALSE]
  /\ call' = [call EXCEPT ![w] = "schedule"]
  /\ UNCHANGED <<containerVars, slotVars, task, booting, asleep, leaseVars>>

\* The mark raises (the lock, the old file or the new one): quarantine raises in
\* turn, the file keeps what it had and no recovery is scheduled.
QuarantineMarkFails(w) ==
  /\ call[w] = "mark"
  /\ lost' = [lost EXCEPT ![leaseEndpoint[w]] = TRUE]
  /\ call' = [call EXCEPT ![w] = "none"]
  /\ UNCHANGED <<containerVars, slotVars, task, durable, booting, asleep,
                 leaseVars>>

\* _schedule_recovery: nothing to do while an earlier task is not done, an
\* error on a leased container, else the recovery starts.
QuarantineSchedule(w) ==
  LET e == leaseEndpoint[w] IN
  /\ call[w] = "schedule"
  /\ call' = [call EXCEPT ![w] = "none"]
  /\ IF task[e] # "none" \/ state[e] = "leased"
     THEN UNCHANGED <<state, task, asleep>>
     ELSE /\ state' = [state EXCEPT ![e] = "recovering"]
          /\ task' = [task EXCEPT ![e] = "queued"]
          /\ WakeAll
  /\ UNCHANGED <<token, slotVars, durable, booting, lost, leaseVars>>

-----------------------------------------------------------------------------
(* Initialization and teardown slots.  Callers ask for a slot only while    *)
(* they own none; every waiting loop re-validates the lease when it wakes.  *)

OwnsSlot(w) == leaseToken[w] \in initializing \cup tearingDown

BeginInitialization(w) ==
  /\ call[w] \in {"none", "init"}
  /\ Running(w)
  /\ HoldsLease(w)
  /\ ~OwnsSlot(w)
  /\ Cardinality(initializing) < InitLimit
  /\ initializing' = initializing \cup {leaseToken[w]}
  /\ call' = [call EXCEPT ![w] = "none"]
  /\ UNCHANGED <<containerVars, tearingDown, recoveryVars, asleep, leaseVars>>

WaitInitialization(w) ==
  /\ call[w] \in {"none", "init"}
  /\ Running(w)
  /\ HoldsLease(w)
  /\ ~OwnsSlot(w)
  /\ Cardinality(initializing) >= InitLimit
  /\ call' = [call EXCEPT ![w] = "init"]
  /\ asleep' = asleep \cup {w}
  /\ UNCHANGED <<containerVars, slotVars, recoveryVars, leaseVars>>

EndInitialization(w) ==
  /\ call[w] = "none"
  /\ HoldsLease(w)
  /\ leaseToken[w] \in initializing
  /\ initializing' = initializing \ {leaseToken[w]}
  /\ WakeAll
  /\ UNCHANGED <<containerVars, tearingDown, recoveryVars, call, leaseVars>>

BeginTeardown(w) ==
  /\ call[w] \in {"none", "teardown"}
  /\ Running(w)
  /\ HoldsLease(w)
  /\ ~OwnsSlot(w)
  /\ Cardinality(tearingDown) < TeardownLimit
  /\ tearingDown' = tearingDown \cup {leaseToken[w]}
  /\ call' = [call EXCEPT ![w] = "none"]
  /\ UNCHANGED <<containerVars, initializing, recoveryVars, asleep, leaseVars>>

WaitTeardown(w) ==
  /\ call[w] \in {"none", "teardown"}
  /\ Running(w)
  /\ HoldsLease(w)
  /\ ~OwnsSlot(w)
  /\ Cardinality(tearingDown) >= TeardownLimit
  /\ call' = [call EXCEPT ![w] = "teardown"]
  /\ asleep' = asleep \cup {w}
  /\ UNCHANGED <<containerVars, slotVars, recoveryVars, leaseVars>>

EndTeardown(w) ==
  /\ call[w] = "none"
  /\ HoldsLease(w)
  /\ leaseToken[w] \in tearingDown
  /\ tearingDown' = tearingDown \ {leaseToken[w]}
  /\ WakeAll
  /\ UNCHANGED <<containerVars, initializing, recoveryVars, call, leaseVars>>

-----------------------------------------------------------------------------
(* The recovery task of an endpoint: _recover_endpoint.  The attempts of    *)
(* EndpointRecovery.recover_endpoint are one period here, "restarting",     *)
(* that ends either way.                                                    *)

Restarting == {e \in Endpoint : task[e] = "restarting"}

RecoveryBegins(e) ==
  /\ task[e] = "queued"
  /\ Cardinality(Restarting) < RecoveryLimit
  /\ task' = [task EXCEPT ![e] = "restarting"]
  /\ durable' = [durable EXCEPT ![e] = "recovering"]
  /\ UNCHANGED <<containerVars, slotVars, booting, lost, call, asleep, leaseVars>>

RecoverySucceeds(e) ==
  /\ task[e] = "restarting"
  /\ task' = [task EXCEPT ![e] = "succeeded"]
  /\ durable' = [durable EXCEPT ![e] = "available"]
  /\ UNCHANGED <<containerVars, slotVars, booting, lost, call, asleep, leaseVars>>

\* recover_endpoint raises: after its last attempt and the mark "quarantined",
\* or out of any of its marks, which leaves the record as it was: the first
\* mark raises with the semaphore just taken, the others during the attempts.
RecoveryFails(e) ==
  /\ \/ /\ task[e] = "queued"
        /\ Cardinality(Restarting) < RecoveryLimit
        /\ UNCHANGED durable
     \/ /\ task[e] = "restarting"
        /\ \/ UNCHANGED durable
           \/ durable' = [durable EXCEPT ![e] = "quarantined"]
  /\ task' = [task EXCEPT ![e] = "failed"]
  /\ UNCHANGED <<containerVars, slotVars, booting, lost, call, asleep, leaseVars>>

\* Mutants: the state is settled whatever it was; a failed recovery does not
\* settle it.
RecoveryEndsUnchecked(e) ==
  /\ task[e] \in {"succeeded", "failed"}
  /\ task' = [task EXCEPT ![e] = "none"]
  /\ state' = [state EXCEPT ![e] =
       IF task[e] = "succeeded" THEN "available" ELSE "quarantined"]
  /\ WakeAll
  /\ UNCHANGED <<token, slotVars, durable, booting, lost, call, leaseVars>>

RecoveryEndsOnSuccess(e) ==
  /\ task[e] \in {"succeeded", "failed"}
  /\ task' = [task EXCEPT ![e] = "none"]
  /\ IF state[e] = "recovering" /\ task[e] = "succeeded"
     THEN state' = [state EXCEPT ![e] = "available"] /\ WakeAll
     ELSE UNCHANGED <<state, asleep>>
  /\ UNCHANGED <<token, slotVars, durable, booting, lost, call, leaseVars>>

\* Back on the event loop, the task settles the container's state unless
\* somebody else did meanwhile.
RecoveryEnds(e) ==
  /\ task[e] \in {"succeeded", "failed"}
  /\ task' = [task EXCEPT ![e] = "none"]
  /\ IF state[e] = "recovering"
     THEN /\ state' = [state EXCEPT ![e] =
                         IF task[e] = "succeeded" THEN "available"
                                                  ELSE "quarantined"]
          /\ WakeAll
     ELSE UNCHANGED <<state, asleep>>
  /\ UNCHANGED <<token, slotVars, durable, booting, lost, call, leaseVars>>

-----------------------------------------------------------------------------

Serve ==
  \/ \E w \in Worker :
       \/ AcquireCall(w) \/ AcquireLease(w) \/ AcquireFails(w)
       \/ AcquireWaits(w) \/ TimesOut(w)
       \/ Release(w)
       \/ Quarantine(w)
       \/ QuarantineMark(w) \/ QuarantineMarkFails(w) \/ QuarantineSchedule(w)
       \/ BeginInitialization(w) \/ WaitInitialization(w)
       \/ EndInitialization(w)
       \/ BeginTeardown(w) \/ WaitTeardown(w) \/ EndTeardown(w)
  \/ \E e \in Endpoint :
       \/ BootSchedule(e)
       \/ RecoveryBegins(e) \/ RecoverySucceeds(e) \/ RecoveryFails(e)
       \/ RecoveryEnds(e)

Next == Serve \/ Restart

Spec == Init /\ [][Next]_vars

-----------------------------------------------------------------------------
(* Fairness.  Every coroutine of the actor runs again when it can, an       *)
(* episode and a recovery attempt are bounded by timeouts, and asyncio's    *)
(* Condition, Lock and Semaphore serve their waiters first come first       *)
(* served, so none of them is passed over for ever (strong fairness).  No   *)
(* fairness is assumed of AcquireCall, of Restart, or of TimesOut: a call   *)
(* must come back without the help of its timeout.                          *)

Fairness ==
  /\ \A w \in Worker :
       /\ SF_vars(AcquireLease(w))
       /\ SF_vars(BeginInitialization(w) /\ call[w] = "init")
       /\ SF_vars(BeginTeardown(w) /\ call[w] = "teardown")
       /\ WF_vars(AcquireFails(w))
       /\ WF_vars(AcquireWaits(w))
       /\ WF_vars(WaitInitialization(w) /\ call[w] = "init")
       /\ WF_vars(WaitTeardown(w) /\ call[w] = "teardown")
       /\ WF_vars(EndInitialization(w))
       /\ WF_vars(EndTeardown(w))
       /\ SF_vars(Release(w) \/ Quarantine(w))
       /\ WF_vars(QuarantineMark(w) \/ QuarantineMarkFails(w))
       /\ WF_vars(QuarantineSchedule(w))
  /\ \A e \in Endpoint :
       /\ WF_vars(BootSchedule(e))
       /\ SF_vars(\/ RecoveryBegins(e)
                  \/ RecoveryFails(e) /\ task[e] = "queued")
       /\ WF_vars(RecoverySucceeds(e) \/ RecoveryFails(e))
       /\ WF_vars(RecoveryEnds(e))

FairSpec == Init /\ [][Serve]_vars /\ Fairness

-----------------------------------------------------------------------------
(* Properties *)

TypeOK ==
  /\ state \in [Endpoint -> ContainerState \ {"retired"}]
  /\ token \in [Endpoint -> Token \cup {NoToken}]
  /\ initializing \in SUBSET Token
  /\ tearingDown \in SUBSET Token
  /\ task \in [Endpoint -> TaskState]
  /\ durable \in [Endpoint -> DurableState]
  /\ booting \in SUBSET Endpoint
  /\ lost \in [Endpoint -> BOOLEAN]
  /\ call \in [Worker -> CallState]
  /\ asleep \in SUBSET Worker
  /\ leaseEndpoint \in [Worker -> Endpoint \cup {NoEndpoint}]
  /\ leaseToken \in [Worker -> Token \cup {NoToken}]

\* "an endpoint can have at most one live lease": no two workers hold lease
\* objects the pool would both accept for one container, however old the
\* lease objects they kept are.
LeaseExclusive ==
  \A v, w \in Worker :
    HoldsLease(v) /\ HoldsLease(w) /\ leaseEndpoint[v] = leaseEndpoint[w]
      => v = w

\* The bookkeeping that exclusiveness rests on: a container has a token
\* exactly while it is leased, no token was ever handed to two workers, and a
\* worker that asks for a container has forgotten the lease it had before.
LeaseBooks ==
  /\ \A e \in Endpoint : state[e] = "leased" <=> token[e] # NoToken
  /\ \A v, w \in Worker :
       leaseToken[v] = leaseToken[w] /\ leaseToken[v] # NoToken => v = w
  /\ \A w \in Worker : call[w] = "acquire" => leaseToken[w] = NoToken

\* No lease is lost: a leased container is held by a worker who can still
\* give it back.
LeasedIsHeld ==
  \A e \in Endpoint : state[e] = "leased" =>
    \E w \in Worker : HoldsLease(w) /\ leaseEndpoint[w] = e

\* Spares replace broken containers and never add to them: whatever breaks
\* and recovers while they are out, at most `active' containers are leased.
LeasesWithinCapacity == Cardinality(Leased(state)) <= NActive

\* Slots are never over-committed, none outlives its lease, and none belongs
\* to a container that is out of service.
SlotsSound ==
  /\ Cardinality(initializing) <= InitLimit
  /\ Cardinality(tearingDown) <= TeardownLimit
  /\ initializing \cap tearingDown = {}
  /\ \A t \in initializing \cup tearingDown :
       \E e \in Endpoint : state[e] = "leased" /\ token[e] = t

\* A container is restarted only while it is out of scheduling, and it is in
\* recovery only while a task works on it: no worker drives an emulator that
\* docker is restarting, and no container waits for a recovery that nobody
\* runs.
RecoveryOwnsContainer ==
  \A e \in Endpoint : task[e] # "none" <=> state[e] = "recovering"

\* Workers come after start(): what start() has still to schedule waits in
\* quarantine, and nobody is there to lease or to give back anything.
BootIsQuarantined ==
  /\ \A e \in booting : state[e] = "quarantined" /\ task[e] = "none"
  /\ booting # {} =>
       \A w \in Worker : call[w] = "none" /\ leaseEndpoint[w] = NoEndpoint

\* Nobody sleeps through what it waits for.  An acquire sleeps only while the
\* pool is fully leased or below capacity with a recovery under way (so the
\* two candidate loops together never refuse an idle container the pool could
\* spare); a slot wait only while the slots are all taken.
NoLostWakeup ==
  \A w \in asleep :
    \/ /\ call[w] = "acquire"
       /\ \/ BelowCapacity(state) /\ SomeRecovering(state)
          \/ Cardinality(Leased(state)) >= NActive
    \/ call[w] = "init" /\ Cardinality(initializing) >= InitLimit
    \/ call[w] = "teardown" /\ Cardinality(tearingDown) >= TeardownLimit

\* The waits form no circle.  Whoever sleeps, in whichever of the three loops,
\* somebody else can go on: a worker that is awake with a container to give
\* back, or a recovery.  So holders that wait for slots never keep all the
\* containers from those that wait for leases.
SomebodyMoves ==
  asleep # {} =>
    \/ \E w \in Worker : HoldsLease(w) /\ Running(w)
    \/ \E e \in Endpoint : task[e] # "none"

\* A quarantine is between its locked half and its mark.
MarkPending(e) == \E w \in Worker : call[w] = "mark" /\ leaseEndpoint[w] = e

\* The file says "available" of a container that is out of service: its mark is
\* still to come, or raised, or it was the mark of a recovery that has succeeded
\* and is not back on the event loop.
FileLags(e) == MarkPending(e) \/ lost[e] \/ task[e] = "succeeded"

\* The file lags behind the pool in these cases only.
DurableQuarantine ==
  \A e \in Endpoint :
    RecoveryEnabled /\ state[e] \in OutOfService =>
      durable[e] # "available" \/ FileLags(e)

\* A mark that raised leaves its container in quarantine with nobody to recover
\* it, and the file saying "available".
LostIsOut ==
  \A e \in Endpoint : lost[e] =>
    state[e] = "quarantined" /\ task[e] = "none" /\ durable[e] = "available"

\* "Restore durable quarantine before workers can acquire endpoints": the pool
\* starts without the containers that were out of service when the process died
\* and with all others, leased ones included.  Those of which the file lags come
\* back into service, whoever had withdrawn them, and no others do.
RestartKeepsQuarantine ==
  [][Restart => \A e \in Endpoint : RecoveryEnabled =>
       (state'[e] \in OutOfService <=>
          state[e] \in OutOfService /\ ~FileLags(e))]_vars

\* The pool as LeaseService: a leased endpoint is owned by its holder, and the
\* names of the two other conditions are not workers.
ASSUME OwnerAssumption == Worker \cap {"free", "out"} = {}

Owner(free, out) ==
  [e \in Endpoint |->
     CASE state[e] = "available" -> free
       [] state[e] = "leased" ->
            CHOOSE w \in Worker : HoldsLease(w) /\ leaseEndpoint[w] = e
       [] OTHER -> out]

Service ==
  INSTANCE LeaseService WITH
    Capacity <- NActive, Free <- "free", Out <- "out",
    owner <- Owner("free", "out")

ServiceSpec == Service!Spec

\* Every acquire comes back, with a container or with an error, and every
\* slot wait ends, timeouts apart.
CallsReturn ==
  \A w \in Worker :
    call[w] \in {"acquire", "init", "teardown"} ~> call[w] = "none"

\* A container that is taken out of service gets a verdict: it is handed to a
\* recovery, and the recovery ends.  Only a mark that raises, and tells its
\* caller so, keeps a container from its recovery.
QuarantineResolved ==
  \A e \in Endpoint :
    /\ MarkPending(e) ~> state[e] = "recovering" \/ lost[e]
    /\ state[e] = "recovering" ~> state[e] # "recovering"

=============================================================================
