--------------------------- MODULE AgentRunProofs ---------------------------
(***************************************************************************)
(* AgentRun keeps to the pool's rules, so that what is proved of RayPool   *)
(* holds of it; and it never uses a container it does not hold, hands none *)
(* back with a task in it, and keeps none but in the case LeaseReturned    *)
(* excepts.                                                                *)
(***************************************************************************)
EXTENDS AgentRun, RayPoolProofs

(* Every step of run is a step of the pool, or none at all. *)

LEMMA StepServes == AgentNext => Serve \/ UNCHANGED vars
<1> SUFFICES ASSUME AgentNext PROVE Serve \/ UNCHANGED vars
  OBVIOUS
<1>1. ASSUME NEW w \in Worker, StartRun(w) \/ Retry(w) PROVE Serve
  BY <1>1 DEF StartRun, Retry, StartAttempt, Serve
<1>2. ASSUME NEW w \in Worker,
             Drawn(w) \/ Refused(w) \/ Suspends(w) \/ PoolTimesOut(w)
      PROVE  Serve
  BY <1>2 DEF Drawn, Refused, Suspends, PoolTimesOut, Serve
<1>3. ASSUME NEW w \in Worker,
             \/ GiveUp(w)
             \/ TakeInitSlot(w)
             \/ InitializeTask(w)
             \/ TakeTeardownSlot(w)
             \/ TearDown(w)
             \/ GiveBack(w)
             \/ QuarantineStep(w)
             \/ GiveUpFails(w)
      PROVE  Serve
  BY <1>3 DEF GiveUp, TakeInitSlot, InitializeTask, TakeTeardownSlot, TearDown,
              GiveBack, QuarantineStep, GiveUpFails, Serve
<1>4. ASSUME NEW w \in Worker,
             \/ Exhausted(w)
             \/ GiveUpStale(w)
             \/ Settle(w)
             \/ RecordAttempt(w)
             \/ SetUp(w)
             \/ RunEpisode(w)
             \/ Record(w)
      PROVE  UNCHANGED vars
  BY <1>4 DEF Exhausted, GiveUpStale, Settle, RecordAttempt, SetUp, RunEpisode,
              Record
<1>5. ASSUME NEW e \in Endpoint, RecoveryStep(e) PROVE Serve
  BY <1>5 DEF RecoveryStep, Serve
<1>6. QED
  BY <1>1, <1>2, <1>3, <1>4, <1>5 DEF AgentNext, RunStep

\* A run uses the pool as the pool expects to be used: every behaviour of the
\* runs is one of the pool.
THEOREM RunUsesPool == AgentSpec => Spec
<1>1. AgentInit => Init
  BY DEF AgentInit
<1>2. [AgentNext]_agentVars => [Next]_vars
  BY StepServes DEF Next, agentVars
<1>3. QED
  BY <1>1, <1>2, PTL DEF AgentSpec, Spec

\* The pool keeps its promises to the runs, which call it as run does and not
\* in any order at all: leases are exclusive and within the pool's size, nobody
\* sleeps while it could go on, the waits form no circle, and the pool and its
\* file are the service and the record the runs take them for.
THEOREM PoolServesRuns ==
  AgentSpec => /\ [](LeaseExclusive /\ LeasesWithinCapacity)
               /\ [](SlotsSound /\ NoLostWakeup /\ SomebodyMoves)
               /\ ServiceSpec
               /\ FileLifecycle
BY RunUsesPool, ExclusiveLeases, CapacityRespected, SlotsAreSound, WakeupsKept,
   NoCircularWait, ImplementsService, FileImplementsLifecycle, PTL

LEMMA PoolInvHolds == AgentSpec => []ServiceInv
BY RunUsesPool, ServiceInvHolds, PTL

-----------------------------------------------------------------------------
(* Who holds what *)

\* The worker's pool calls that neither end a lease nor begin one.
QuietCall(w) ==
  \/ AcquireFails(w) \/ AcquireWaits(w) \/ TimesOut(w)
  \/ QuarantineMark(w) \/ QuarantineMarkFails(w) \/ QuarantineSchedule(w)
  \/ BeginInitialization(w) \/ WaitInitialization(w) \/ EndInitialization(w)
  \/ BeginTeardown(w) \/ WaitTeardown(w) \/ EndTeardown(w)

RecoveryCall(e) ==
  \/ BootSchedule(e)
  \/ RecoveryBegins(e) \/ RecoverySucceeds(e) \/ RecoveryFails(e)
  \/ RecoveryEnds(e)

LEMMA QuietKeepsLeases ==
  ASSUME ServiceInv, NEW v \in Worker,
         \/ \E w \in Worker : QuietCall(w)
         \/ \E e \in Endpoint : RecoveryCall(e)
         \/ UNCHANGED vars
  PROVE  /\ HoldsLease(v)' <=> HoldsLease(v)
         /\ UNCHANGED <<leaseEndpoint, leaseToken>>
<1> USE DEF ServiceInv, LeaseInv, TypeOK, HoldsLease, containerVars, leaseVars
<1>1. ASSUME NEW w \in Worker, QuarantineSchedule(w)
      PROVE  /\ HoldsLease(v)' <=> HoldsLease(v)
             /\ UNCHANGED <<leaseEndpoint, leaseToken>>
  BY <1>1 DEF QuarantineSchedule
<1>2. ASSUME NEW e \in Endpoint, BootSchedule(e)
      PROVE  /\ HoldsLease(v)' <=> HoldsLease(v)
             /\ UNCHANGED <<leaseEndpoint, leaseToken>>
  BY <1>2 DEF BootSchedule, BootIsQuarantined
<1>3. ASSUME NEW e \in Endpoint, RecoveryEnds(e)
      PROVE  /\ HoldsLease(v)' <=> HoldsLease(v)
             /\ UNCHANGED <<leaseEndpoint, leaseToken>>
  BY <1>3 DEF RecoveryEnds
<1>4. CASE UNCHANGED <<containerVars, leaseVars>>
  BY <1>4
<1>5. QED
  BY <1>1, <1>2, <1>3, <1>4
     DEF QuietCall, RecoveryCall, vars, AcquireFails, AcquireWaits, TimesOut,
         QuarantineMark, QuarantineMarkFails, BeginInitialization, WaitInitialization,
         EndInitialization, BeginTeardown, WaitTeardown, EndTeardown,
         RecoveryBegins, RecoverySucceeds, RecoveryFails

\* Nor does one worker's lease end or begin by what another one does.
LEMMA OthersKeepLeases ==
  ASSUME ServiceInv, NEW w \in Worker, NEW v \in Worker \ {w},
         \/ AcquireCall(w)
         \/ AcquireLease(w)
         \/ Release(w)
         \/ Quarantine(w)
  PROVE  /\ HoldsLease(v)' <=> HoldsLease(v)
         /\ leaseEndpoint'[v] = leaseEndpoint[v]
         /\ leaseToken'[v] = leaseToken[v]
<1> USE DEF ServiceInv, LeaseInv, TypeOK, LeaseBooks, HoldsLease,
            containerVars, leaseVars
<1>1. CASE AcquireCall(w)
  BY <1>1 DEF AcquireCall
<1>2. CASE AcquireLease(w)
  <2>1. PICK e \in Endpoint, t \in FreshTokens :
               e \in LeaseCandidates(state) /\ Lease(w, e, t)
    BY <1>2 DEF AcquireLease, FirstOf
  <2>2. state[e] = "available" /\ t # leaseToken[v]
    BY <2>1, CandidatesAreAvailable DEF FreshTokens, KnownTokens
  <2>3. QED
    BY <2>1, <2>2 DEF Lease
<1>3. CASE Release(w)
  BY <1>3 DEF Release
<1>4. CASE Quarantine(w)
  BY <1>4 DEF Quarantine
<1>5. QED
  BY <1>1, <1>2, <1>3, <1>4

LEMMA OwnLease ==
  ASSUME ServiceInv, NEW w \in Worker
  PROVE  /\ AcquireLease(w) => HoldsLease(w)'
         /\ Release(w) \/ Quarantine(w) => ~HoldsLease(w)'
         /\ call[w] = "acquire" => ~HoldsLease(w)
         /\ AcquireCall(w) => ~HoldsLease(w)'
<1> USE DEF ServiceInv, LeaseInv, TypeOK, LeaseBooks, HoldsLease,
            containerVars, leaseVars
<1>1. ASSUME AcquireLease(w) PROVE HoldsLease(w)'
  BY <1>1 DEF AcquireLease, Lease
<1>2. ASSUME Release(w) \/ Quarantine(w) PROVE ~HoldsLease(w)'
  BY <1>2 DEF Release, Quarantine
<1>3. ASSUME call[w] = "acquire" PROVE ~HoldsLease(w)
  BY <1>3
<1>4. ASSUME AcquireCall(w) PROVE ~HoldsLease(w)'
  BY <1>4, EndpointType DEF AcquireCall
<1>5. QED
  BY <1>1, <1>2, <1>3, <1>4

-----------------------------------------------------------------------------
(* The invariant of run: a lease is held in exactly these stages.  In        *)
(* "quarantine" an internal fault may come with a lease or without one.      *)

RunTypes ==
  /\ stage \in [Worker -> Stage]
  /\ attempt \in [Worker -> 0..MaxAttempts]
  /\ fault \in [Worker -> Fault]
  /\ initialized \in [Worker -> BOOLEAN]
  /\ hasTask \in [Endpoint -> BOOLEAN]

HandsFull ==
  \A w \in Worker :
    \/ stage[w] \in Holding
    \/ stage[w] = "quarantine" /\ fault[w] # "internal"
    => HoldsLease(w)

HandsEmpty ==
  \A w \in Worker :
    stage[w] \notin Holding \cup {"quarantine", "escaped"} => ~HoldsLease(w)

RunInv == RunTypes /\ HandsFull /\ HandsEmpty

LEMMA RunInvInit == AgentInit => RunInv
BY AgentRunAssumption, EndpointType
   DEF AgentInit, Init, RunInv, RunTypes, HandsFull, HandsEmpty, Stage, Ended,
       Holding, Driving, Fault, HoldsLease

LEMMA RunTypesNext == RunTypes /\ AgentNext => RunTypes'
<1> SUFFICES ASSUME RunTypes, AgentNext PROVE RunTypes'
  OBVIOUS
<1> USE AgentRunAssumption
        DEF RunTypes, Goto, Stage, Ended, Holding, Driving, Fault, runVars
<1>1. ASSUME NEW w \in Worker, StartRun(w) PROVE RunTypes'
  BY <1>1 DEF StartRun, StartAttempt
<1>2. ASSUME NEW w \in Worker, Retry(w) PROVE RunTypes'
  BY <1>2 DEF Retry, StartAttempt
<1>3. ASSUME NEW w \in Worker,
             \/ Exhausted(w)
             \/ Drawn(w)
             \/ Refused(w)
             \/ Suspends(w)
             \/ GiveUp(w)
             \/ GiveUpStale(w)
             \/ Settle(w)
             \/ RecordAttempt(w)
             \/ TakeInitSlot(w)
             \/ TakeTeardownSlot(w)
             \/ GiveBack(w)
             \/ QuarantineStep(w)
      PROVE  RunTypes'
  BY <1>3 DEF Exhausted, Drawn, Refused, Suspends, GiveUp, GiveUpStale, Settle,
              RecordAttempt, TakeInitSlot, TakeTeardownSlot, GiveBack,
              QuarantineStep
<1>4. ASSUME NEW w \in Worker,
             \/ PoolTimesOut(w)
             \/ SetUp(w)
             \/ RunEpisode(w)
             \/ Record(w)
             \/ GiveUpFails(w)
      PROVE  RunTypes'
  <2>1. CASE PoolTimesOut(w)
    BY <2>1 DEF PoolTimesOut, Handle
  <2>2. CASE SetUp(w) \/ Record(w)
    BY <2>2 DEF SetUp, Record, Handle
  <2>3. CASE RunEpisode(w)
    BY <2>3 DEF RunEpisode, Handle
  <2>4. CASE GiveUpFails(w)
    BY <2>4 DEF GiveUpFails, Handle
  <2>5. QED
    BY <1>4, <2>1, <2>2, <2>3, <2>4
<1>5. ASSUME NEW w \in Worker, InitializeTask(w) PROVE RunTypes'
  BY <1>5 DEF InitializeTask, Handle, EndInitialization, HoldsLease
<1>6. ASSUME NEW w \in Worker, TearDown(w) PROVE RunTypes'
  BY <1>6 DEF TearDown, Handle, EndTeardown, HoldsLease
<1>7. ASSUME NEW e \in Endpoint, RecoveryStep(e) PROVE RunTypes'
  BY <1>7 DEF RecoveryStep
<1>8. QED
  BY <1>1, <1>2, <1>3, <1>4, <1>5, <1>6, <1>7 DEF AgentNext, RunStep

\* What a worker does to its own lease, stage by stage.  The leases of the
\* others, and their stages, stay what they are.
LEMMA HandsNext ==
  ServiceInv /\ RunInv /\ AgentNext => HandsFull' /\ HandsEmpty'
<1> SUFFICES ASSUME ServiceInv, RunInv, AgentNext
             PROVE  HandsFull' /\ HandsEmpty'
  OBVIOUS
<1> USE DEF RunInv, RunTypes, HandsFull, HandsEmpty, Goto, runVars
<1>1. ASSUME NEW w \in Worker, StartRun(w) \/ Retry(w)
      PROVE  HandsFull' /\ HandsEmpty'
  <2>1. StartAttempt(w, 1) \/ StartAttempt(w, attempt[w] + 1)
    BY <1>1 DEF StartRun, Retry, StartAttempt
  <2>2. ~HoldsLease(w)'
    BY <2>1, OwnLease DEF StartAttempt
  <2>3. \A v \in Worker \ {w} : HoldsLease(v)' <=> HoldsLease(v)
    BY <2>1, OthersKeepLeases DEF StartAttempt
  <2>4. QED
    BY <2>1, <2>2, <2>3 DEF StartAttempt, Holding, Driving
<1>2. ASSUME NEW w \in Worker, Drawn(w) PROVE HandsFull' /\ HandsEmpty'
  <2>1. HoldsLease(w)'
    BY <1>2, OwnLease DEF Drawn
  <2>2. \A v \in Worker \ {w} : HoldsLease(v)' <=> HoldsLease(v)
    BY <1>2, OthersKeepLeases DEF Drawn
  <2>3. QED
    BY <1>2, <2>1, <2>2 DEF Drawn, Holding, Driving
<1>3. ASSUME NEW w \in Worker, GiveUp(w) \/ GiveBack(w)
      PROVE  HandsFull' /\ HandsEmpty'
  <2>1. ~HoldsLease(w)'
    BY <1>3, OwnLease DEF GiveUp, GiveBack
  <2>2. \A v \in Worker \ {w} : HoldsLease(v)' <=> HoldsLease(v)
    BY <1>3, OthersKeepLeases DEF GiveUp, GiveBack
  <2>3. QED
    BY <1>3, <2>1, <2>2 DEF GiveUp, GiveBack, Holding, Driving
<1>4. ASSUME \A v \in Worker : HoldsLease(v)' <=> HoldsLease(v),
             NEW w \in Worker,
             \/ Refused(w)
             \/ Suspends(w)
             \/ Exhausted(w)
             \/ GiveUpStale(w)
             \/ Settle(w)
             \/ RecordAttempt(w)
             \/ SetUp(w)
             \/ TakeInitSlot(w)
             \/ InitializeTask(w)
             \/ RunEpisode(w)
             \/ TakeTeardownSlot(w)
             \/ TearDown(w)
             \/ Record(w)
             \/ PoolTimesOut(w)
             \/ QuarantineStep(w)
             \/ GiveUpFails(w)
      PROVE  HandsFull' /\ HandsEmpty'
  <2>1. CASE Refused(w)
    <3>1. ~HoldsLease(w)
      BY <2>1, OwnLease DEF Refused, AcquireFails
    <3>2. QED
      BY <1>4, <2>1, <3>1 DEF Refused, Holding, Driving
  <2>2. CASE Suspends(w) \/ QuarantineStep(w)
    BY <1>4, <2>2 DEF Suspends, QuarantineStep
  <2>3. CASE Exhausted(w) \/ GiveUpStale(w) \/ Settle(w) \/ RecordAttempt(w)
    BY <1>4, <2>3
       DEF Exhausted, GiveUpStale, Settle, RecordAttempt, Holding, Driving
  <2>4. CASE SetUp(w) \/ RunEpisode(w) \/ Record(w)
    BY <1>4, <2>4 DEF SetUp, RunEpisode, Record, Handle, Holding, Driving
  <2>5. CASE TakeInitSlot(w) \/ TakeTeardownSlot(w)
    BY <1>4, <2>5 DEF TakeInitSlot, TakeTeardownSlot, Holding, Driving
  <2>6. CASE InitializeTask(w)
    BY <1>4, <2>6 DEF InitializeTask, Handle, Holding, Driving
  <2>7. CASE TearDown(w)
    BY <1>4, <2>7 DEF TearDown, Handle, Holding, Driving
  <2>8. CASE PoolTimesOut(w)
    BY <1>4, <2>8 DEF PoolTimesOut, Handle, Holding, Driving
  <2>9. CASE GiveUpFails(w)
    BY <1>4, <2>9 DEF GiveUpFails, Handle, Holding, Driving
  <2>10. QED
    BY <1>4, <2>1, <2>2, <2>3, <2>4, <2>5, <2>6, <2>7, <2>8, <2>9
<1>5. ASSUME NEW w \in Worker,
             \/ Refused(w)
             \/ Suspends(w)
             \/ Exhausted(w)
             \/ GiveUpStale(w)
             \/ Settle(w)
             \/ RecordAttempt(w)
             \/ SetUp(w)
             \/ TakeInitSlot(w)
             \/ InitializeTask(w)
             \/ RunEpisode(w)
             \/ TakeTeardownSlot(w)
             \/ TearDown(w)
             \/ Record(w)
             \/ PoolTimesOut(w)
             \/ QuarantineStep(w)
             \/ GiveUpFails(w)
      PROVE  \A v \in Worker : HoldsLease(v)' <=> HoldsLease(v)
  <2>1. QuietCall(w) \/ UNCHANGED vars
    BY <1>5
       DEF QuietCall, Refused, Suspends, Exhausted, GiveUpStale, Settle,
           RecordAttempt, SetUp, TakeInitSlot, InitializeTask, RunEpisode,
           TakeTeardownSlot, TearDown, Record, PoolTimesOut, QuarantineStep,
           GiveUpFails
  <2>2. QED
    BY <2>1, QuietKeepsLeases
<1>6. ASSUME NEW e \in Endpoint, RecoveryStep(e)
      PROVE  HandsFull' /\ HandsEmpty'
  <2>1. \A v \in Worker : HoldsLease(v)' <=> HoldsLease(v)
    BY <1>6, QuietKeepsLeases DEF RecoveryStep, RecoveryCall
  <2>2. QED
    BY <1>6, <2>1 DEF RecoveryStep
<1>7. QED
  BY <1>1, <1>2, <1>3, <1>4, <1>5, <1>6 DEF AgentNext, RunStep

LEMMA RunInvHolds == AgentSpec => []RunInv
<1>1. ServiceInv /\ RunInv /\ [AgentNext]_agentVars => RunInv'
  <2> SUFFICES ASSUME ServiceInv, RunInv, [AgentNext]_agentVars PROVE RunInv'
    OBVIOUS
  <2>1. CASE AgentNext
    BY <2>1, RunTypesNext, HandsNext DEF RunInv
  <2>2. CASE UNCHANGED agentVars
    BY <2>2
       DEF RunInv, RunTypes, HandsFull, HandsEmpty, HoldsLease, agentVars, vars,
           runVars
  <2>3. QED
    BY <2>1, <2>2
<1>2. QED
  BY <1>1, RunInvInit, PoolInvHolds, PTL DEF AgentSpec

\* The pool's variables and the run's keep their types.
THEOREM AgentTypeCorrect == AgentSpec => []AgentTypeOK
<1>1. ServiceInv /\ RunInv => AgentTypeOK
  BY DEF ServiceInv, LeaseInv, RunInv, RunTypes, AgentTypeOK
<1>2. QED
  BY <1>1, PoolInvHolds, RunInvHolds, PTL

\* The lease a run drew stays valid until the run gives it back.
THEOREM LeasesKept == AgentSpec => []LeaseKept
<1>1. RunInv => LeaseKept
  BY DEF RunInv, HandsFull, LeaseKept
<1>2. QED
  BY <1>1, RunInvHolds, PTL

\* A run that is over holds no container, one way out excepted.
THEOREM LeasesReturned == AgentSpec => []LeaseReturned
<1>1. RunInv => LeaseReturned
  BY DEF RunInv, HandsEmpty, LeaseReturned, Ended, Holding, Driving
<1>2. QED
  BY <1>1, RunInvHolds, PTL

\* No container is driven by two runs, or by a run and its recovery.
THEOREM SoleDrivers == AgentSpec => []SoleDriver
<1>1. ServiceInv /\ RunInv => SoleDriver
  <2> SUFFICES ASSUME ServiceInv, RunInv, NEW w \in Worker, stage[w] \in Driving
               PROVE  /\ task[leaseEndpoint[w]] = "none"
                      /\ \A v \in Worker \ {w} :
                           stage[v] \in Driving
                             => leaseEndpoint[v] # leaseEndpoint[w]
    BY DEF SoleDriver
  <2> USE DEF ServiceInv, LeaseInv, LeaseBooks, RecoveryOwnsContainer, TypeOK
  <2>1. \A v \in Worker : stage[v] \in Driving => HoldsLease(v)
    BY DEF RunInv, HandsFull, Holding
  <2>2. task[leaseEndpoint[w]] = "none"
    BY <2>1 DEF HoldsLease
  <2>3. QED
    BY <2>1, <2>2 DEF HoldsLease
<1>2. QED
  BY <1>1, PoolInvHolds, RunInvHolds, PTL

-----------------------------------------------------------------------------
(* Clean hand-over *)

CleanInv ==
  /\ CleanHandOver
  /\ \A e \in Endpoint : task[e] = "succeeded" => ~hasTask[e]
  /\ \A w \in Worker : stage[w] = "release" => ~hasTask[leaseEndpoint[w]]

LEMMA CleanNext ==
  ServiceInv /\ RunInv /\ CleanInv /\ AgentNext => CleanInv'
<1> SUFFICES ASSUME ServiceInv, RunInv, CleanInv, AgentNext PROVE CleanInv'
  OBVIOUS
<1> USE DEF ServiceInv, LeaseInv, TypeOK, RunInv, RunTypes, CleanInv,
            CleanHandOver, Goto, containerVars, slotVars, recoveryVars,
            leaseVars, runVars
<1>1. ASSUME NEW w \in Worker, StartRun(w) \/ Retry(w) PROVE CleanInv'
  BY <1>1 DEF StartRun, Retry, StartAttempt, AcquireCall
<1>2. ASSUME NEW w \in Worker, Drawn(w) PROVE CleanInv'
  BY <1>2 DEF Drawn, AcquireLease, Lease
<1>3. ASSUME NEW w \in Worker, GiveUp(w) PROVE CleanInv'
  BY <1>3 DEF GiveUp, Quarantine
<1>4. ASSUME NEW w \in Worker, GiveBack(w) PROVE CleanInv'
  BY <1>4 DEF GiveBack, Release
<1>5. ASSUME NEW w \in Worker, InitializeTask(w) PROVE CleanInv'
  <2>1. HoldsLease(w) /\ state[leaseEndpoint[w]] = "leased"
    BY <1>5 DEF InitializeTask, EndInitialization, HoldsLease
  <2>2. task[leaseEndpoint[w]] = "none"
    BY <2>1 DEF RecoveryOwnsContainer, HoldsLease
  <2>3. \A v \in Worker \ {w} :
          stage[v] = "release" => leaseEndpoint[v] # leaseEndpoint[w]
    BY <2>1 DEF HandsFull, Holding, HoldsLease, LeaseBooks
  <2>4. stage'[w] # "release" /\ \A v \in Worker \ {w} : stage'[v] = stage[v]
    BY <1>5 DEF InitializeTask, Handle
  <2>5. /\ UNCHANGED <<state, task, leaseEndpoint>>
        /\ \A e \in Endpoint \ {leaseEndpoint[w]} : hasTask'[e] = hasTask[e]
    BY <1>5 DEF InitializeTask, EndInitialization
  <2>6. \A v \in Worker : stage[v] = "release" => leaseEndpoint[v] \in Endpoint
    BY DEF HandsFull, Holding, HoldsLease
  <2>7. QED
    BY <2>1, <2>2, <2>3, <2>4, <2>5, <2>6
<1>6. ASSUME NEW w \in Worker, TearDown(w) PROVE CleanInv'
  <2>1. /\ UNCHANGED <<state, task, leaseEndpoint>>
        /\ leaseEndpoint[w] \in Endpoint
    BY <1>6 DEF TearDown, EndTeardown, HoldsLease
  <2>2. PICK gone \in BOOLEAN, done \in BOOLEAN :
          /\ done => gone
          /\ hasTask' = [hasTask EXCEPT ![leaseEndpoint[w]] = @ /\ ~gone]
          /\ IF stage[w] = "cleanupTask" THEN Handle(w, "infra", FALSE)
             ELSE IF done THEN Goto(w, "release") /\ UNCHANGED fault
             ELSE Handle(w, "cleanup", FALSE)
    BY <1>6 DEF TearDown
  <2> HIDE DEF ServiceInv, LeaseInv, RunInv, CleanInv
  <2>3. stage \in [Worker -> Stage] /\ hasTask \in [Endpoint -> BOOLEAN]
    BY DEF RunInv
  <2>4. \A e \in Endpoint : ~hasTask[e] => ~hasTask'[e]
    BY <2>1, <2>2, <2>3
  <2>5. /\ stage'[w] = "release" => ~hasTask'[leaseEndpoint[w]]
        /\ \A v \in Worker \ {w} : stage'[v] = stage[v]
    <3>1. CASE done /\ stage[w] # "cleanupTask"
      BY <2>1, <2>2, <2>3, <3>1
    <3>2. CASE ~(done /\ stage[w] # "cleanupTask")
      BY <2>2, <2>3, <3>2 DEF Handle
    <3>3. QED
      BY <3>1, <3>2
  <2>6. \A v \in Worker : stage[v] = "release" => leaseEndpoint[v] \in Endpoint
    BY DEF RunInv, HandsFull, Holding, HoldsLease
  <2>7. QED
    BY <2>1, <2>4, <2>5, <2>6 DEF CleanInv
<1>7. ASSUME NEW w \in Worker, QuarantineStep(w) \/ GiveUpFails(w)
      PROVE  CleanInv'
  <2>1. CASE QuarantineStep(w)
    BY <2>1 DEF QuarantineStep, QuarantineMark, QuarantineSchedule
  <2>2. CASE GiveUpFails(w)
    BY <2>2 DEF GiveUpFails, QuarantineMarkFails, Handle
  <2>3. QED
    BY <1>7, <2>1, <2>2
<1>8. ASSUME NEW w \in Worker,
             \/ Refused(w)
             \/ Suspends(w)
             \/ TakeInitSlot(w)
             \/ TakeTeardownSlot(w)
      PROVE  CleanInv'
  BY <1>8 DEF Refused, AcquireFails, Suspends, AcquireWaits, WaitInitialization,
              WaitTeardown, TakeInitSlot, BeginInitialization, TakeTeardownSlot,
              BeginTeardown
<1>9. ASSUME NEW w \in Worker, PoolTimesOut(w) PROVE CleanInv'
  BY <1>9 DEF PoolTimesOut, TimesOut, Handle
<1>10. ASSUME NEW w \in Worker,
              \/ Exhausted(w)
              \/ GiveUpStale(w)
              \/ Settle(w)
              \/ RecordAttempt(w)
              \/ SetUp(w)
              \/ RunEpisode(w)
              \/ Record(w)
       PROVE  CleanInv'
  BY <1>10 DEF Exhausted, GiveUpStale, Settle, RecordAttempt, SetUp, RunEpisode,
               Record, Handle, vars
<1>11. ASSUME NEW e \in Endpoint, RecoveryStep(e) PROVE CleanInv'
  <2>1. CASE BootSchedule(e) /\ UNCHANGED hasTask
    BY <1>11, <2>1 DEF RecoveryStep, BootSchedule
  <2>2. CASE RecoverySucceeds(e) /\ hasTask' = [hasTask EXCEPT ![e] = FALSE]
    <3>1. \A v \in Worker : stage[v] = "release" => leaseEndpoint[v] \in Endpoint
      BY DEF HandsFull, Holding, HoldsLease
    <3>2. QED
      BY <1>11, <2>2, <3>1 DEF RecoveryStep, RecoverySucceeds
  <2>3. CASE (RecoveryBegins(e) \/ RecoveryFails(e)) /\ UNCHANGED hasTask
    BY <1>11, <2>3 DEF RecoveryStep, RecoveryBegins, RecoveryFails
  <2>4. CASE RecoveryEnds(e) /\ UNCHANGED hasTask
    BY <1>11, <2>4 DEF RecoveryStep, RecoveryEnds
  <2>5. QED
    BY <1>11, <2>1, <2>2, <2>3, <2>4 DEF RecoveryStep
<1>12. QED
  BY <1>1, <1>2, <1>3, <1>4, <1>5, <1>6, <1>7, <1>8, <1>9, <1>10, <1>11
     DEF AgentNext, RunStep

\* No container is handed to the next run with a task left in it.
THEOREM HandOverClean == AgentSpec => []CleanHandOver
<1>1. AgentInit => CleanInv
  BY DEF AgentInit, Init, CleanInv, CleanHandOver
<1>2. CleanInv /\ UNCHANGED agentVars => CleanInv'
  BY DEF CleanInv, CleanHandOver, agentVars, vars, runVars
<1>3. CleanInv => CleanHandOver
  BY DEF CleanInv
<1>4. QED
  BY <1>1, <1>2, <1>3, CleanNext, PoolInvHolds, RunInvHolds, PTL DEF AgentSpec

-----------------------------------------------------------------------------
(* Slots.  UsesSlot(S, w): the lease that w holds owns a slot in S. *)

UsesSlot(S, w) == HoldsLease(w) /\ leaseToken[w] \in S

\* Tokens of different holders differ, so what one of them does to its own
\* slot leaves the slots of the others alone.
LEMMA OthersKeepSlots ==
  ASSUME ServiceInv, NEW w \in Worker, NEW v \in Worker \ {w},
         \/ AcquireCall(w) \/ AcquireLease(w) \/ Release(w) \/ Quarantine(w)
         \/ QuietCall(w)
  PROVE  /\ UsesSlot(initializing, v)' <=> UsesSlot(initializing, v)
         /\ UsesSlot(tearingDown, v)' <=> UsesSlot(tearingDown, v)
<1>1. /\ HoldsLease(v)' <=> HoldsLease(v)
      /\ leaseToken'[v] = leaseToken[v]
  BY OthersKeepLeases, QuietKeepsLeases
<1>2. HoldsLease(v) => leaseToken[v] # leaseToken[w]
  BY DEF ServiceInv, LeaseInv, LeaseBooks, HoldsLease
<1>3. /\ initializing' \ {leaseToken[w]} = initializing \ {leaseToken[w]}
      /\ tearingDown' \ {leaseToken[w]} = tearingDown \ {leaseToken[w]}
  BY DEF AcquireCall, AcquireLease, Release, Quarantine, QuietCall,
         AcquireFails, AcquireWaits, TimesOut, QuarantineMark,
         QuarantineMarkFails, QuarantineSchedule, BeginInitialization, WaitInitialization,
         EndInitialization, BeginTeardown, WaitTeardown, EndTeardown,
         DiscardSlots, slotVars
<1>4. QED
  BY <1>1, <1>2, <1>3 DEF UsesSlot

SlotStages ==
  \A w \in Worker :
    /\ stage[w] = "initTask" <=> UsesSlot(initializing, w)
    /\ stage[w] \in {"teardownTask", "cleanupTask"} <=> UsesSlot(tearingDown, w)

LEMMA SlotStagesNext ==
  ServiceInv /\ RunInv /\ SlotStages /\ AgentNext => SlotStages'
<1> SUFFICES ASSUME ServiceInv, RunInv, SlotStages, AgentNext
             PROVE  SlotStages'
  OBVIOUS
<1> USE DEF RunInv, RunTypes, SlotStages, Goto, runVars
<1>1. ASSUME NEW w \in Worker,
             \A v \in Worker \ {w} : stage'[v] = stage[v],
             \/ AcquireCall(w) \/ AcquireLease(w)
             \/ Release(w) \/ Quarantine(w) \/ QuietCall(w),
             stage'[w] = "initTask" <=> UsesSlot(initializing, w)',
             stage'[w] \in {"teardownTask", "cleanupTask"}
               <=> UsesSlot(tearingDown, w)'
      PROVE  SlotStages'
  BY <1>1, OthersKeepSlots
<1>2. ASSUME NEW w \in Worker, StartRun(w) \/ Retry(w) PROVE SlotStages'
  <2>1. /\ AcquireCall(w) /\ stage'[w] = "acquire"
        /\ \A v \in Worker \ {w} : stage'[v] = stage[v]
    BY <1>2 DEF StartRun, Retry, StartAttempt
  <2>2. ~HoldsLease(w)'
    BY <2>1, OwnLease
  <2>3. QED
    BY <1>1, <2>1, <2>2 DEF UsesSlot
<1>3. ASSUME NEW w \in Worker, Drawn(w) PROVE SlotStages'
  <2>1. /\ AcquireLease(w) /\ stage'[w] = "setup"
        /\ \A v \in Worker \ {w} : stage'[v] = stage[v]
    BY <1>3 DEF Drawn
  <2>2. leaseToken'[w] \notin initializing' \cup tearingDown'
    BY <2>1
       DEF AcquireLease, Lease, FreshTokens, KnownTokens, slotVars, ServiceInv,
           LeaseInv, TypeOK
  <2>3. QED
    BY <1>1, <2>1, <2>2 DEF UsesSlot
<1>4. ASSUME NEW w \in Worker, GiveUp(w) \/ GiveBack(w) PROVE SlotStages'
  <2>1. /\ Release(w) \/ Quarantine(w)
        /\ stage'[w] \in {"verdict", "record"}
        /\ \A v \in Worker \ {w} : stage'[v] = stage[v]
    BY <1>4 DEF GiveUp, GiveBack
  <2>2. ~HoldsLease(w)'
    BY <2>1, OwnLease
  <2>3. QED
    BY <1>1, <2>1, <2>2 DEF UsesSlot
<1>5. ASSUME NEW w \in Worker, TakeInitSlot(w) PROVE SlotStages'
  <2>1. /\ BeginInitialization(w) /\ stage'[w] = "initTask"
        /\ \A v \in Worker \ {w} : stage'[v] = stage[v]
    BY <1>5 DEF TakeInitSlot
  <2>2. HoldsLease(w)' /\ leaseToken'[w] = leaseToken[w]
    BY <2>1, QuietKeepsLeases DEF QuietCall, BeginInitialization
  <2>3. /\ leaseToken[w] \in initializing' /\ leaseToken[w] \notin tearingDown'
    BY <2>1 DEF BeginInitialization, OwnsSlot
  <2>4. QED
    BY <1>1, <2>1, <2>2, <2>3 DEF UsesSlot, QuietCall
<1>6. ASSUME NEW w \in Worker, TakeTeardownSlot(w) PROVE SlotStages'
  <2>1. /\ BeginTeardown(w) /\ stage'[w] \in {"teardownTask", "cleanupTask"}
        /\ \A v \in Worker \ {w} : stage'[v] = stage[v]
    BY <1>6 DEF TakeTeardownSlot
  <2>2. HoldsLease(w)' /\ leaseToken'[w] = leaseToken[w]
    BY <2>1, QuietKeepsLeases DEF QuietCall, BeginTeardown
  <2>3. /\ leaseToken[w] \in tearingDown' /\ leaseToken[w] \notin initializing'
    BY <2>1 DEF BeginTeardown, OwnsSlot
  <2>4. QED
    BY <1>1, <2>1, <2>2, <2>3 DEF UsesSlot, QuietCall
<1>7. ASSUME NEW w \in Worker, InitializeTask(w) PROVE SlotStages'
  <2>1. /\ EndInitialization(w)
        /\ stage'[w] \in {"episode", "cleanupQueue", "quarantine"}
        /\ \A v \in Worker \ {w} : stage'[v] = stage[v]
        /\ stage[w] = "initTask"
    BY <1>7 DEF InitializeTask, Handle
  <2>2. leaseToken'[w] \notin initializing' \cup tearingDown'
    BY <2>1 DEF EndInitialization, UsesSlot, leaseVars
  <2>3. QED
    BY <1>1, <2>1, <2>2 DEF UsesSlot, QuietCall
<1>8. ASSUME NEW w \in Worker, TearDown(w) PROVE SlotStages'
  <2>1. /\ EndTeardown(w)
        /\ stage'[w] \in {"release", "quarantine"}
        /\ \A v \in Worker \ {w} : stage'[v] = stage[v]
        /\ stage[w] \in {"teardownTask", "cleanupTask"}
    BY <1>8 DEF TearDown, Handle
  <2>2. leaseToken'[w] \notin initializing' \cup tearingDown'
    BY <2>1 DEF EndTeardown, UsesSlot, leaseVars
  <2>3. QED
    BY <1>1, <2>1, <2>2 DEF UsesSlot, QuietCall
<1>9. ASSUME NEW w \in Worker,
             \/ Refused(w)
             \/ Suspends(w)
             \/ PoolTimesOut(w)
             \/ QuarantineStep(w)
             \/ GiveUpFails(w)
      PROVE  SlotStages'
  <2>1. /\ QuietCall(w)
        /\ UNCHANGED slotVars
        /\ \A v \in Worker \ {w} : stage'[v] = stage[v]
    BY <1>9
       DEF Refused, AcquireFails, Suspends, AcquireWaits, WaitInitialization,
           WaitTeardown, PoolTimesOut, TimesOut, Handle, QuarantineStep,
           QuarantineMark, QuarantineSchedule, GiveUpFails,
           QuarantineMarkFails, QuietCall
  <2>2. \/ stage'[w] = stage[w]
        \/ /\ stage[w] \notin {"initTask", "teardownTask", "cleanupTask"}
           /\ stage'[w] \notin {"initTask", "teardownTask", "cleanupTask"}
    <3>1. CASE Refused(w)
      <4>1. ~HoldsLease(w)
        BY <3>1, OwnLease DEF Refused, AcquireFails
      <4>2. QED
        BY <3>1, <4>1 DEF Refused, UsesSlot
    <3>2. CASE Suspends(w) \/ QuarantineStep(w)
      BY <3>2 DEF Suspends, QuarantineStep
    <3>3. CASE PoolTimesOut(w)
      BY <3>3 DEF PoolTimesOut, Handle
    <3>4. CASE GiveUpFails(w)
      BY <3>4 DEF GiveUpFails, Handle
    <3>5. QED
      BY <1>9, <3>1, <3>2, <3>3, <3>4
  <2>3. /\ HoldsLease(w)' <=> HoldsLease(w)
        /\ leaseToken'[w] = leaseToken[w]
    BY <2>1, QuietKeepsLeases
  <2>4. QED
    BY <1>1, <2>1, <2>2, <2>3 DEF UsesSlot, slotVars
<1>10. ASSUME NEW w \in Worker,
              \/ Exhausted(w)
              \/ GiveUpStale(w)
              \/ Settle(w)
              \/ RecordAttempt(w)
              \/ SetUp(w)
              \/ RunEpisode(w)
              \/ Record(w)
       PROVE  SlotStages'
  BY <1>10
     DEF Exhausted, GiveUpStale, Settle, RecordAttempt, SetUp, RunEpisode,
         Record, Handle, vars, UsesSlot, HoldsLease
<1>11. ASSUME NEW e \in Endpoint, RecoveryStep(e) PROVE SlotStages'
  <2>1. \A v \in Worker :
          (HoldsLease(v)' <=> HoldsLease(v)) /\ leaseToken'[v] = leaseToken[v]
    BY <1>11, QuietKeepsLeases DEF RecoveryStep, RecoveryCall
  <2>2. UNCHANGED <<slotVars, stage>>
    BY <1>11
       DEF RecoveryStep, BootSchedule, RecoveryBegins, RecoverySucceeds,
           RecoveryFails, RecoveryEnds
  <2>3. QED
    BY <2>1, <2>2 DEF UsesSlot, slotVars
<1>12. QED
  BY <1>2, <1>3, <1>4, <1>5, <1>6, <1>7, <1>8, <1>9, <1>10, <1>11
     DEF AgentNext, RunStep

\* Snapshots are restored and tasks torn down under slots, and an attempt that
\* leaves these stages, however it does, leaves no slot behind.
THEOREM SlotsFollow == AgentSpec => []SlotsFollowStages
<1>1. AgentInit => SlotStages
  BY EndpointType DEF AgentInit, Init, SlotStages, UsesSlot, HoldsLease
<1>2. SlotStages /\ UNCHANGED agentVars => SlotStages'
  BY DEF SlotStages, UsesSlot, HoldsLease, agentVars, vars, runVars
<1>3. SlotStages => SlotsFollowStages
  BY DEF SlotStages, UsesSlot, SlotsFollowStages
<1>4. QED
  BY <1>1, <1>2, <1>3, SlotStagesNext, PoolInvHolds, RunInvHolds, PTL
     DEF AgentSpec

=============================================================================
