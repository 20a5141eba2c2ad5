--------------------------- MODULE ThreadPoolProofs --------------------------
(***************************************************************************)
(* ThreadPool's types, its refinement of LeaseService and its notifications,*)
(* proved for any pool size and any set of threads.                         *)
(***************************************************************************)
EXTENDS ThreadPool, LeasePolicyProofs

(* What the types and the refinement rest on: the thread a container's token *)
(* names has the lease, a thread in acquire has none, and a quarantine under *)
(* way has the container to itself.                                          *)

Quarantining(w) == call[w] \in {"mark", "schedule"}

PoolBooks ==
  /\ \A e \in Endpoint : holder[e] \in Worker => lease[holder[e]] = e
  /\ \A w \in Worker : InAcquire(w) => lease[w] = NoEndpoint
  /\ \A w \in Worker : call[w] = "none" /\ lease[w] # NoEndpoint => HoldsLease(w)

QuarantineOwnsContainer ==
  /\ \A w \in Worker : Quarantining(w) =>
       lease[w] \in Endpoint /\ state[lease[w]] = "quarantined"
  /\ \A v, w \in Worker :
       Quarantining(v) /\ Quarantining(w) /\ lease[v] = lease[w] => v = w

PoolInv == PoolTypeOK /\ PoolBooks /\ QuarantineOwnsContainer

LEMMA PoolInvInit == PoolInit => PoolInv
BY ThreadPoolAssumption
   DEF PoolInit, PoolInv, PoolTypeOK, PoolBooks, QuarantineOwnsContainer,
       BootState, BootTask, ContainerState, TaskState, CallState, InAcquire,
       Quarantining

LEMMA PoolInvRestart == PoolInv /\ PoolRestart => PoolInv'
BY ThreadPoolAssumption
   DEF PoolRestart, PoolInv, PoolTypeOK, PoolBooks, QuarantineOwnsContainer,
       BootState, BootTask, ContainerState, TaskState, CallState, InAcquire,
       Quarantining

-----------------------------------------------------------------------------
(* Type correctness *)

\* A notification moves waiters to their tests and nobody else.
WakesWaiters(keep) ==
  \A v \in keep : \/ call'[v] = call[v]
                  \/ call[v] = "waiting" /\ call'[v] = "testing"

LEMMA NotifyOneWakes ==
  ASSUME PoolTypeOK, NotifyOne
  PROVE  call' \in [Worker -> CallState] /\ WakesWaiters(Worker)
BY DEF PoolTypeOK, NotifyOne, Waiters, WakesWaiters, CallState

LEMMA NotifyAllWakes ==
  ASSUME PoolTypeOK, NotifyAll
  PROVE  call' \in [Worker -> CallState] /\ WakesWaiters(Worker)
BY DEF PoolTypeOK, NotifyAll, Woken, WakesWaiters, CallState

LEMMA NotifyAllAndGoWakes ==
  ASSUME PoolTypeOK, NEW w \in Worker, NEW next \in CallState,
         NotifyAllAndGo(w, next)
  PROVE  /\ call' \in [Worker -> CallState]
         /\ WakesWaiters(Worker \ {w})
         /\ call'[w] = next
BY DEF PoolTypeOK, NotifyAllAndGo, Woken, WakesWaiters, CallState

LEMMA TypeAcquire ==
  ASSUME PoolInv, NEW w \in Worker,
         AcquireCall(w) \/ AcquireStep(w) \/ Expire(w)
  PROVE  PoolTypeOK'
<1> USE DEF PoolInv, PoolTypeOK, containerVars, recoveryVars
<1>1. CASE AcquireCall(w)
  BY <1>1 DEF AcquireCall, CallState
<1>2. CASE AcquireLease(w)
  <2>1. PICK e \in Endpoint :
          /\ e \in LeaseCandidates(state)
          /\ state' = [state EXCEPT ![e] = "leased"]
          /\ holder' = [holder EXCEPT ![e] = w]
          /\ lease' = [lease EXCEPT ![w] = e]
    BY <1>2 DEF AcquireLease, FirstOf
  <2>2. state[e] = "available"
    BY <2>1, CandidatesAreAvailable
  <2>3. QED
    BY <1>2, <2>1, <2>2, ThreadPoolAssumption
       DEF AcquireLease, CallState, ContainerState
<1>3. CASE AcquireRaises(w)
  BY <1>3 DEF AcquireRaises, CallState
<1>4. CASE AcquireWaits(w)
  BY <1>4 DEF AcquireWaits, CallState
<1>5. CASE Expire(w)
  BY <1>5 DEF Expire
<1>6. QED
  BY <1>1, <1>2, <1>3, <1>4, <1>5 DEF AcquireStep

LEMMA TypeGiveBack ==
  ASSUME PoolInv, NEW w \in Worker,
         Release(w) \/ Quarantine(w) \/ QuarantineStep(w)
  PROVE  PoolTypeOK'
<1> USE DEF PoolInv, PoolTypeOK, containerVars, recoveryVars
<1>1. CASE Release(w)
  <2>1. call' \in [Worker -> CallState]
    BY <1>1, NotifyOneWakes DEF Release
  <2>2. QED
    BY <1>1, <2>1 DEF Release, HoldsLease, ContainerState
<1>2. CASE Quarantine(w)
  <2>1. call' \in [Worker -> CallState]
    BY <1>2, NotifyAllAndGoWakes DEF Quarantine, CallState
  <2>2. QED
    BY <1>2, <2>1 DEF Quarantine, HoldsLease, ContainerState
<1>3. CASE QuarantineMark(w)
  BY <1>3 DEF QuarantineMark, CallState
<1>4. CASE QuarantineMarkFails(w)
  BY <1>4 DEF QuarantineMarkFails, CallState
<1>5. CASE QuarantineSchedule(w)
  <2>1. call' \in [Worker -> CallState]
    BY <1>5, NotifyAllAndGoWakes DEF QuarantineSchedule, CallState
  <2>2. lease[w] \in Endpoint /\ state[lease[w]] = "quarantined"
    BY <1>5 DEF QuarantineSchedule, QuarantineOwnsContainer, Quarantining
  <2>3. QED
    BY <1>5, <2>1, <2>2 DEF QuarantineSchedule, ContainerState, TaskState
<1>6. QED
  BY <1>1, <1>2, <1>3, <1>4, <1>5 DEF QuarantineStep

LEMMA TypeRecovery ==
  ASSUME PoolInv, NEW e \in Endpoint, RecoveryStep(e)
  PROVE  PoolTypeOK'
<1> USE DEF PoolInv, PoolTypeOK, containerVars, callVars
<1>1. CASE RecoveryConcludes(e)
  BY <1>1 DEF RecoveryConcludes, TaskState
<1>2. CASE RecoveryEnds(e)
  <2>1. call' \in [Worker -> CallState]
    BY <1>2, NotifyAllWakes DEF RecoveryEnds
  <2>2. QED
    BY <1>2, <2>1 DEF RecoveryEnds, TaskState, ContainerState
<1>3. QED
  BY <1>1, <1>2 DEF RecoveryStep

-----------------------------------------------------------------------------
(* The books and the quarantines *)

LEMMA BooksAcquire ==
  ASSUME PoolInv, NEW w \in Worker,
         AcquireCall(w) \/ AcquireStep(w) \/ Expire(w)
  PROVE  PoolBooks' /\ QuarantineOwnsContainer'
<1> USE DEF PoolInv, PoolTypeOK, PoolBooks, QuarantineOwnsContainer, InAcquire,
            Quarantining, HoldsLease, containerVars, recoveryVars
<1>1. CASE AcquireCall(w)
  BY <1>1 DEF AcquireCall
<1>2. CASE AcquireLease(w)
  <2>1. PICK e \in Endpoint :
          /\ e \in LeaseCandidates(state)
          /\ state' = [state EXCEPT ![e] = "leased"]
          /\ holder' = [holder EXCEPT ![e] = w]
          /\ lease' = [lease EXCEPT ![w] = e]
    BY <1>2 DEF AcquireLease, FirstOf
  <2>2. state[e] = "available" /\ holder[e] = NoWorker
    BY <2>1, CandidatesAreAvailable
  <2>3. lease[w] = NoEndpoint /\ \A f \in Endpoint : holder[f] # w
    BY <1>2, ThreadPoolAssumption DEF AcquireLease, MayLease, Tests
  <2>4. call' = [call EXCEPT ![w] = "none"]
    BY <1>2 DEF AcquireLease
  <2>5. PoolBooks'
    BY <2>1, <2>2, <2>3, <2>4
  <2>6. QuarantineOwnsContainer'
    BY <2>1, <2>2, <2>3, <2>4
  <2>7. QED
    BY <2>5, <2>6
<1>3. CASE AcquireRaises(w)
  BY <1>3 DEF AcquireRaises, Tests
<1>4. CASE AcquireWaits(w)
  BY <1>4 DEF AcquireWaits
<1>5. CASE Expire(w)
  BY <1>5 DEF Expire
<1>6. QED
  BY <1>1, <1>2, <1>3, <1>4, <1>5 DEF AcquireStep

LEMMA BooksGiveBack ==
  ASSUME PoolInv, NEW w \in Worker,
         Release(w) \/ Quarantine(w) \/ QuarantineStep(w)
  PROVE  PoolBooks' /\ QuarantineOwnsContainer'
<1> USE DEF PoolInv, PoolTypeOK, PoolBooks, QuarantineOwnsContainer, InAcquire,
            Quarantining, HoldsLease, WakesWaiters, containerVars, recoveryVars
<1>1. CASE Release(w)
  <2>1. WakesWaiters(Worker)
    BY <1>1, NotifyOneWakes DEF Release
  <2>2. \A v \in Worker : v # w /\ lease[v] = lease[w] => call[v] # "none"
    BY <1>1, ThreadPoolAssumption DEF Release
  <2>3. QED
    BY <1>1, <2>1, <2>2, ThreadPoolAssumption DEF Release
<1>2. CASE Quarantine(w)
  <2>1. WakesWaiters(Worker \ {w}) /\ call'[w] = "mark"
    BY <1>2, NotifyAllAndGoWakes DEF Quarantine, CallState
  <2>2. QED
    BY <1>2, <2>1, ThreadPoolAssumption DEF Quarantine
<1>3. CASE QuarantineMark(w)
  BY <1>3 DEF QuarantineMark
<1>4. CASE QuarantineMarkFails(w)
  BY <1>4, ThreadPoolAssumption DEF QuarantineMarkFails
<1>5. CASE QuarantineSchedule(w)
  <2>1. WakesWaiters(Worker \ {w}) /\ call'[w] = "none"
    BY <1>5, NotifyAllAndGoWakes DEF QuarantineSchedule, CallState
  <2>2. QED
    BY <1>5, <2>1, ThreadPoolAssumption DEF QuarantineSchedule
<1>6. QED
  BY <1>1, <1>2, <1>3, <1>4, <1>5 DEF QuarantineStep

LEMMA BooksRecovery ==
  ASSUME PoolInv, NEW e \in Endpoint, RecoveryStep(e)
  PROVE  PoolBooks' /\ QuarantineOwnsContainer'
<1> USE DEF PoolInv, PoolTypeOK, PoolBooks, QuarantineOwnsContainer, InAcquire,
            Quarantining, HoldsLease, WakesWaiters, containerVars, callVars
<1>1. CASE RecoveryConcludes(e)
  BY <1>1 DEF RecoveryConcludes
<1>2. CASE RecoveryEnds(e)
  <2>1. WakesWaiters(Worker)
    BY <1>2, NotifyAllWakes DEF RecoveryEnds
  <2>2. QED
    BY <1>2, <2>1 DEF RecoveryEnds
<1>3. QED
  BY <1>1, <1>2 DEF RecoveryStep

LEMMA PoolInvNext == PoolInv /\ [PoolNext]_poolVars => PoolInv'
<1> SUFFICES ASSUME PoolInv, [PoolNext]_poolVars PROVE PoolInv'
  OBVIOUS
<1>1. ASSUME NEW w \in Worker, AcquireCall(w) \/ AcquireStep(w) \/ Expire(w)
      PROVE  PoolInv'
  BY <1>1, TypeAcquire, BooksAcquire DEF PoolInv
<1>2. ASSUME NEW w \in Worker, Release(w) \/ Quarantine(w) \/ QuarantineStep(w)
      PROVE  PoolInv'
  BY <1>2, TypeGiveBack, BooksGiveBack DEF PoolInv
<1>3. ASSUME NEW e \in Endpoint, RecoveryStep(e) PROVE PoolInv'
  BY <1>3, TypeRecovery, BooksRecovery DEF PoolInv
<1>4. CASE PoolRestart
  BY <1>4, PoolInvRestart
<1>5. CASE UNCHANGED poolVars
  BY <1>5
     DEF poolVars, containerVars, recoveryVars, callVars, PoolInv, PoolTypeOK,
         PoolBooks, QuarantineOwnsContainer, InAcquire, Quarantining,
         HoldsLease
<1>6. QED
  BY <1>1, <1>2, <1>3, <1>4, <1>5 DEF PoolNext

LEMMA PoolInvHolds == PoolSpec => []PoolInv
BY PoolInvInit, PoolInvNext, PTL DEF PoolSpec

\* The types of the threaded pool; a container has a token exactly while it is
\* leased, and a recovery of its own exactly while it is recovering.
THEOREM PoolTypeCorrect == PoolSpec => []PoolTypeOK
<1>1. PoolInv => PoolTypeOK
  BY DEF PoolInv
<1>2. QED
  BY <1>1, PoolInvHolds, PTL

-----------------------------------------------------------------------------
(* Each step of the pool is a step of the service or leaves it alone. *)

LEMMA OwnersAre ==
  ASSUME PoolInv
  PROVE  /\ \A e \in Endpoint :
              /\ state[e] = "available" => owner[e] = "free"
              /\ state[e] = "leased" => owner[e] = holder[e]
                                        /\ holder[e] \in Worker
              /\ state[e] \in {"quarantined", "recovering"} => owner[e] = "out"
         /\ Service!Owned = Leased(state)
<1> USE DEF PoolInv, PoolTypeOK, owner, OutOfService, ContainerState
<1>1. \A e \in Endpoint :
        /\ state[e] = "available" => owner[e] = "free"
        /\ state[e] = "leased" => owner[e] = holder[e] /\ holder[e] \in Worker
        /\ state[e] \in {"quarantined", "recovering"} => owner[e] = "out"
  OBVIOUS
<1>2. \A e \in Endpoint : owner[e] \in Worker <=> state[e] = "leased"
  BY <1>1, ThreadPoolAssumption
<1>3. Service!Owned = {e \in Endpoint : owner[e] \in Worker}
  BY DEF Service!Owned
<1>4. QED
  BY <1>1, <1>2, <1>3 DEF Leased

LEMMA LeaseIsGrant ==
  ASSUME PoolInv, NEW w \in Worker, AcquireLease(w)
  PROVE  Service!Next
<1> USE DEF PoolInv, PoolTypeOK, PoolBooks
<1>1. PICK e \in Endpoint :
        /\ e \in LeaseCandidates(state)
        /\ state' = [state EXCEPT ![e] = "leased"]
        /\ holder' = [holder EXCEPT ![e] = w]
  BY DEF AcquireLease, FirstOf
<1>2. state[e] = "available" /\ Cardinality(Leased(state)) < NActive
  BY <1>1, CandidatesAreAvailable DEF LeaseCandidates, RoomForLease
<1>3. owner[e] = "free" /\ Cardinality(Service!Owned) < NActive
  BY <1>2, OwnersAre
<1>4. owner' = [owner EXCEPT ![e] = w]
  BY <1>1 DEF owner
<1>5. ASSUME NEW f \in Endpoint, owner[f] = w PROVE FALSE
  <2>1. state[f] = "leased" /\ holder[f] = w
    BY <1>5, ThreadPoolAssumption DEF owner
  <2>2. lease[w] = f
    BY <2>1
  <2>3. lease[w] = NoEndpoint
    BY DEF AcquireLease, MayLease, Tests, InAcquire
  <2>4. QED
    BY <2>2, <2>3, ThreadPoolAssumption
<1>6. Service!Grant(e, w)
  <2>1. Service!Cardinality(Service!Owned) = Cardinality(Service!Owned)
    BY DEF Service!Cardinality, Cardinality
  <2>2. QED
    BY <1>3, <1>4, <1>5, <2>1 DEF Service!Grant
<1>7. QED
  BY <1>6 DEF Service!Next

LEMMA GiveBackIsReturn ==
  ASSUME PoolInv, NEW w \in Worker, Release(w) \/ Quarantine(w)
  PROVE  Service!Next
<1> USE DEF PoolInv, PoolTypeOK
<1> DEFINE e == lease[w]
<1>1. e \in Endpoint /\ state[e] = "leased" /\ holder[e] = w
  BY DEF Release, Quarantine, HoldsLease
<1>2. owner[e] \in Worker
  BY <1>1, OwnersAre
<1>3. CASE Release(w)
  <2>1. owner' = [owner EXCEPT ![e] = "free"]
    BY <1>1, <1>3 DEF Release, owner, OutOfService
  <2>2. QED
    BY <1>1, <1>2, <2>1 DEF Service!Return, Service!Next
<1>4. CASE Quarantine(w)
  <2>1. owner' = [owner EXCEPT ![e] = "out"]
    BY <1>1, <1>4 DEF Quarantine, owner, OutOfService
  <2>2. QED
    BY <1>1, <1>2, <2>1 DEF Service!Withdraw, Service!Next
<1>5. QED
  BY <1>3, <1>4

LEMMA EndIsRestore ==
  ASSUME PoolInv, NEW e \in Endpoint, RecoveryEnds(e)
  PROVE  Service!Next \/ owner' = owner
<1> USE DEF PoolInv, PoolTypeOK
<1>1. owner[e] = "out"
  BY OwnersAre DEF RecoveryEnds
<1>2. CASE task[e] = "recovered"
  <2>1. owner' = [owner EXCEPT ![e] = "free"]
    BY <1>2 DEF RecoveryEnds, owner, OutOfService
  <2>2. QED
    BY <1>1, <2>1 DEF Service!Restore, Service!Next
<1>3. CASE task[e] # "recovered"
  BY <1>3 DEF RecoveryEnds, owner, OutOfService
<1>4. QED
  BY <1>2, <1>3

LEMMA ServiceStep ==
  PoolInv /\ [PoolNext]_poolVars => [Service!Next]_owner
<1> SUFFICES ASSUME PoolInv, [PoolNext]_poolVars
             PROVE  Service!Next \/ owner' = owner
  OBVIOUS
<1> USE DEF PoolInv, PoolTypeOK
<1>1. CASE PoolRestart
  <2>1. owner' \in [Endpoint -> {"free", "out"}]
    BY <1>1 DEF PoolRestart, BootState, owner, OutOfService
  <2>2. QED
    BY <2>1 DEF Service!Reset, Service!Next
<1>2. ASSUME NEW w \in Worker, AcquireLease(w) PROVE Service!Next
  BY <1>2, LeaseIsGrant
<1>3. ASSUME NEW w \in Worker, Release(w) \/ Quarantine(w) PROVE Service!Next
  BY <1>3, GiveBackIsReturn
<1>4. ASSUME NEW e \in Endpoint, RecoveryEnds(e)
      PROVE  Service!Next \/ owner' = owner
  BY <1>4, EndIsRestore
<1>5. ASSUME NEW w \in Worker, QuarantineSchedule(w) PROVE owner' = owner
  BY <1>5
     DEF QuarantineSchedule, QuarantineOwnsContainer, Quarantining, owner,
         OutOfService
<1>6. CASE UNCHANGED containerVars
  BY <1>6 DEF containerVars, owner
<1>7. QED
  BY <1>1, <1>2, <1>3, <1>4, <1>5, <1>6
     DEF PoolNext, AcquireStep, QuarantineStep, RecoveryStep, AcquireCall,
         AcquireRaises, AcquireWaits, Expire, QuarantineMark,
         QuarantineMarkFails, RecoveryConcludes, poolVars

LEMMA ServiceInit == PoolInit => Service!Init
BY DEF PoolInit, BootState, owner, OutOfService, Service!Init

\* Whatever its threads do, the threaded pool's callers see what the Ray pool's
\* callers see: LeaseService.
THEOREM PoolImplementsService == PoolSpec => PoolServes
BY ServiceInit, ServiceStep, PoolInvHolds, PTL
   DEF PoolSpec, PoolServes, Service!Spec

-----------------------------------------------------------------------------
(* Notifications.  SomeoneLooks is not inductive: it says of one wakeup what *)
(* has to be said of all of them.  While threads wait, at least as many      *)
(* threads are on their way to the tests as containers can still be leased   *)
(* (an expired waiter does not count: the tests find it, but a notification  *)
(* may be spent on it as well), and the pool can serve.                      *)

Testing == {w \in Worker : call[w] = "testing"}

WakeupsCover ==
  Waiters # {} =>
    /\ ~CannotServe(state)
    /\ ~BelowCapacity(state) =>
         NActive <= Cardinality(Leased(state)) + Cardinality(Testing)

\* The threads in acquire are finitely many, however many threads there are.
CallersFinite == IsFiniteSet({w \in Worker : InAcquire(w)})

WakeupInv == PoolInv /\ CallersFinite /\ WakeupsCover

LEMMA TestingFinite ==
  ASSUME CallersFinite
  PROVE  IsFiniteSet(Testing) /\ Cardinality(Testing) \in Nat
<1>1. Testing \subseteq {w \in Worker : InAcquire(w)}
  BY DEF Testing, InAcquire
<1>2. QED
  BY <1>1, FS_Subset, FS_CardinalityType DEF CallersFinite

LEMMA CallersNext == PoolInv /\ CallersFinite /\ [PoolNext]_poolVars => CallersFinite'
<1> SUFFICES ASSUME PoolInv, CallersFinite, [PoolNext]_poolVars
             PROVE  CallersFinite'
  OBVIOUS
<1> DEFINE callers == {w \in Worker : InAcquire(w)}
<1> USE DEF PoolInv, PoolTypeOK, InAcquire, WakesWaiters, containerVars,
            recoveryVars, callVars
<1>1. ASSUME NEW w \in Worker, callers' \subseteq callers \cup {w}
      PROVE  CallersFinite'
  <2>1. IsFiniteSet(callers \cup {w})
    BY FS_AddElement DEF CallersFinite
  <2>2. QED
    BY <1>1, <2>1, FS_Subset DEF CallersFinite
<1>2. CASE callers' \subseteq callers
  BY <1>2, FS_Subset DEF CallersFinite
<1>3. ASSUME NEW w \in Worker, AcquireCall(w) PROVE CallersFinite'
  BY <1>1, <1>3 DEF AcquireCall
<1>4. ASSUME NEW w \in Worker, AcquireStep(w) \/ Expire(w)
      PROVE  callers' \subseteq callers
  BY <1>4 DEF AcquireStep, AcquireLease, AcquireRaises, AcquireWaits, Expire
<1>5. ASSUME NEW w \in Worker, Release(w) PROVE callers' \subseteq callers
  BY <1>5, NotifyOneWakes DEF Release
<1>6. ASSUME NEW w \in Worker, Quarantine(w) \/ QuarantineSchedule(w)
      PROVE  callers' \subseteq callers
  BY <1>6, NotifyAllAndGoWakes DEF Quarantine, QuarantineSchedule, CallState
<1>7. ASSUME NEW w \in Worker, QuarantineMark(w) \/ QuarantineMarkFails(w)
      PROVE  callers' \subseteq callers
  BY <1>7 DEF QuarantineMark, QuarantineMarkFails
<1>8. ASSUME NEW e \in Endpoint, RecoveryEnds(e) PROVE callers' \subseteq callers
  BY <1>8, NotifyAllWakes DEF RecoveryEnds
<1>9. CASE PoolRestart
  BY <1>2, <1>9 DEF PoolRestart
<1>10. CASE UNCHANGED call
  BY <1>2, <1>10
<1>11. QED
  BY <1>2, <1>3, <1>4, <1>5, <1>6, <1>7, <1>8, <1>9, <1>10
     DEF PoolNext, QuarantineStep, RecoveryStep, RecoveryConcludes, poolVars

\* A thread leaves the tests for good only with a container, or when there is
\* none to lease.
LEMMA CoverAcquire ==
  ASSUME WakeupInv, NEW w \in Worker,
         AcquireCall(w) \/ AcquireStep(w) \/ Expire(w)
  PROVE  WakeupsCover'
<1> USE PoolSizeAssumption DEF WakeupInv, PoolInv, PoolTypeOK, containerVars
<1> DEFINE L == Cardinality(Leased(state))
           T == Cardinality(Testing)
<1>1. IsFiniteSet(Testing) /\ T \in Nat /\ L \in Nat /\ IsFiniteSet(Leased(state))
  BY TestingFinite, LeasedFinite
<1>2. state \in [Endpoint -> ContainerState]
  OBVIOUS
<1>3. CASE AcquireCall(w)
  <2>1. Waiters' = Waiters /\ Testing' = Testing \cup {w} /\ state' = state
    BY <1>3 DEF AcquireCall, Waiters, Testing
  <2>2. Cardinality(Testing') \in Nat /\ T <= Cardinality(Testing')
    <3>1. IsFiniteSet(Testing \cup {w}) /\ Testing \subseteq Testing \cup {w}
      BY <1>1, FS_AddElement
    <3>2. QED
      BY <1>1, <2>1, <3>1, FS_Subset, FS_CardinalityType
  <2>3. QED
    BY <1>1, <2>1, <2>2 DEF WakeupsCover
<1>4. CASE AcquireLease(w)
  <2>1. PICK e \in Endpoint :
          /\ e \in LeaseCandidates(state)
          /\ state' = [state EXCEPT ![e] = "leased"]
    BY <1>4 DEF AcquireLease, FirstOf
  <2>2. state[e] = "available"
    BY <2>1, CandidatesAreAvailable
  <2>3. InService(state') = InService(state)
        /\ Leased(state') = Leased(state) \cup {e} /\ e \notin Leased(state)
    BY <2>1, <2>2 DEF InService, Leased
  <2>4. Cardinality(Leased(state')) = L + 1
    BY <1>1, <2>3, FS_AddElement
  <2>5. Waiters' \subseteq Waiters /\ Testing' = Testing \ {w}
    BY <1>4 DEF AcquireLease, Waiters, Testing
  <2>6. Cardinality(Testing') \in Nat /\ T <= Cardinality(Testing') + 1
    <3>1. IsFiniteSet(Testing') /\ Testing \subseteq Testing' \cup {w}
      BY <1>1, <2>5, FS_Subset
    <3>2. /\ IsFiniteSet(Testing' \cup {w})
          /\ Cardinality(Testing' \cup {w}) <= Cardinality(Testing') + 1
      BY <3>1, CardinalityAdd, FS_AddElement
    <3>3. T <= Cardinality(Testing' \cup {w})
      BY <3>1, <3>2, FS_Subset
    <3>4. QED
      BY <1>1, <3>1, <3>2, <3>3, FS_CardinalityType
  <2>7. CannotServe(state') = FALSE
    <3>1. ~BelowCapacity(state)
      BY <2>1 DEF LeaseCandidates, RoomForLease
    <3>2. QED
      BY <2>3, <3>1 DEF CannotServe, BelowCapacity
  <2>8. BelowCapacity(state') = BelowCapacity(state)
    BY <2>3 DEF BelowCapacity
  <2>9. QED
    BY <1>1, <2>4, <2>5, <2>6, <2>7, <2>8 DEF WakeupsCover
<1>5. CASE AcquireRaises(w)
  <2>1. CannotServe(state) \/ LeaseCandidates(state) = {}
    BY <1>5 DEF AcquireRaises, MayLease
  <2>2. ~CannotServe(state) /\ ~BelowCapacity(state) => NActive <= L
    BY <1>1, <1>2, <2>1, WorkConserving DEF RoomForLease
  <2>3. Waiters' \subseteq Waiters /\ state' = state
    BY <1>5 DEF AcquireRaises, Waiters
  <2>4. Cardinality(Testing') \in Nat
    <3>1. Testing' \subseteq Testing
      BY <1>5 DEF AcquireRaises, Testing
    <3>2. QED
      BY <1>1, <3>1, FS_Subset, FS_CardinalityType
  <2>5. QED
    BY <1>1, <2>2, <2>3, <2>4 DEF WakeupsCover
<1>6. CASE AcquireWaits(w)
  <2>1. ~CannotServe(state) /\ state' = state
    BY <1>6 DEF AcquireWaits
  <2>2. ~BelowCapacity(state) => NActive <= L
    BY <1>1, <1>2, <1>6, WorkConserving DEF AcquireWaits, RoomForLease
  <2>3. Cardinality(Testing') \in Nat
    <3>1. Testing' \subseteq Testing
      BY <1>6 DEF AcquireWaits, Testing
    <3>2. QED
      BY <1>1, <3>1, FS_Subset, FS_CardinalityType
  <2>4. QED
    BY <1>1, <2>1, <2>2, <2>3 DEF WakeupsCover
<1>7. CASE Expire(w)
  BY <1>7 DEF Expire, WakeupsCover, Waiters, Testing
<1>8. QED
  BY <1>3, <1>4, <1>5, <1>6, <1>7 DEF AcquireStep

\* One released container, one waiter on its way.
LEMMA CoverRelease ==
  ASSUME WakeupInv, NEW w \in Worker, Release(w)
  PROVE  WakeupsCover'
<1> USE PoolSizeAssumption DEF WakeupInv, PoolInv, PoolTypeOK
<1> DEFINE L == Cardinality(Leased(state))
           T == Cardinality(Testing)
           e == lease[w]
<1>1. IsFiniteSet(Testing) /\ T \in Nat /\ L \in Nat /\ IsFiniteSet(Leased(state))
  BY TestingFinite, LeasedFinite
<1>2. /\ e \in Endpoint /\ state[e] = "leased"
      /\ state' = [state EXCEPT ![e] = "available"]
  BY DEF Release, HoldsLease
<1>3. CASE Waiters = {}
  BY <1>3 DEF Release, NotifyOne, WakeupsCover, Waiters
<1>4. CASE Waiters # {}
  <2>1. PICK v \in Waiters : call' = [call EXCEPT ![v] = "testing"]
    BY <1>4 DEF Release, NotifyOne
  <2>2. Testing' = Testing \cup {v} /\ v \notin Testing
    BY <2>1 DEF Testing, Waiters
  <2>3. Cardinality(Testing') = T + 1
    BY <1>1, <2>2, FS_AddElement
  <2>4. /\ Leased(state) = Leased(state') \cup {e} /\ e \notin Leased(state')
        /\ InService(state') = InService(state)
        /\ SomeRecovering(state') = SomeRecovering(state)
    <3>1. Leased(state) = Leased(state') \cup {e} /\ e \notin Leased(state')
      BY <1>2 DEF Leased
    <3>2. InService(state') = InService(state)
      BY <1>2 DEF InService
    <3>3. SomeRecovering(state') = SomeRecovering(state)
      BY <1>2 DEF SomeRecovering
    <3>4. QED
      BY <3>1, <3>2, <3>3
  <2>5. L = Cardinality(Leased(state')) + 1 /\ Cardinality(Leased(state')) \in Nat
    <3> HIDE DEF WakeupInv, PoolInv, PoolTypeOK
    <3>1. IsFiniteSet(Leased(state')) /\ Cardinality(Leased(state')) \in Nat
      BY LeasedFinite
    <3>2. QED
      BY <2>4, <3>1, FS_AddElement
  <2>6. /\ CannotServe(state') = CannotServe(state)
        /\ BelowCapacity(state') = BelowCapacity(state)
    <3> HIDE DEF WakeupInv, PoolInv, PoolTypeOK
    <3>1. BelowCapacity(state') = BelowCapacity(state)
      BY <2>4 DEF BelowCapacity
    <3>2. QED
      BY <2>4, <3>1 DEF CannotServe
  <2>7. QED
    BY <1>1, <1>4, <2>3, <2>5, <2>6 DEF WakeupsCover
<1>5. QED
  BY <1>3, <1>4

LEMMA CoverNext == WakeupInv /\ [PoolNext]_poolVars => WakeupsCover'
<1> SUFFICES ASSUME WakeupInv, [PoolNext]_poolVars PROVE WakeupsCover'
  OBVIOUS
<1>1. CASE Waiters' = {}
  BY <1>1 DEF WakeupsCover
<1>2. CASE NotifyAll
  BY <1>1, <1>2 DEF NotifyAll, Woken, Waiters
<1>3. ASSUME NEW w \in Worker, NEW next \in {"mark", "none"},
             NotifyAllAndGo(w, next)
      PROVE  WakeupsCover'
  BY <1>1, <1>3 DEF NotifyAllAndGo, Woken, Waiters
<1>4. ASSUME NEW w \in Worker, QuarantineMark(w) \/ QuarantineMarkFails(w)
      PROVE  WakeupsCover'
  <2>1. /\ call[w] = "mark" /\ state' = state
        /\ \E next \in {"schedule", "none"} : call' = [call EXCEPT ![w] = next]
    BY <1>4 DEF QuarantineMark, QuarantineMarkFails, containerVars
  <2>2. call \in [Worker -> CallState]
    BY DEF WakeupInv, PoolInv, PoolTypeOK
  <2>3. Waiters' = Waiters /\ Testing' = Testing
    BY <2>1, <2>2 DEF Waiters, Testing
  <2>4. QED
    BY <2>1, <2>3 DEF WakeupInv, WakeupsCover
<1>5. CASE PoolRestart
  BY <1>1, <1>5 DEF PoolRestart, Waiters
<1>6. CASE UNCHANGED <<state, call>>
  BY <1>6 DEF WakeupInv, WakeupsCover, Waiters, Testing
<1>7. QED
  BY <1>2, <1>3, <1>4, <1>5, <1>6, CoverAcquire, CoverRelease
     DEF PoolNext, QuarantineStep, Quarantine, QuarantineSchedule, RecoveryStep,
         RecoveryConcludes, RecoveryEnds, poolVars, containerVars, callVars

LEMMA WakeupInvHolds == PoolSpec => []WakeupInv
<1>1. PoolInit => CallersFinite /\ WakeupsCover
  <2> SUFFICES ASSUME PoolInit PROVE CallersFinite /\ WakeupsCover
    OBVIOUS
  <2>1. Waiters = {} /\ {w \in Worker : InAcquire(w)} = {}
    BY DEF PoolInit, Waiters, InAcquire
  <2>2. QED
    BY <2>1, FS_EmptySet DEF CallersFinite, WakeupsCover
<1>2. WakeupInv /\ [PoolNext]_poolVars => WakeupInv'
  BY PoolInvNext, CallersNext, CoverNext DEF WakeupInv
<1>3. QED
  BY <1>1, <1>2, PoolInvInit, PTL DEF PoolSpec, WakeupInv

\* No thread is left waiting while there is a container for it: somebody who
\* will look at the containers is always on the way, though release notifies
\* one waiter only and that one may be giving up.
THEOREM WakeupsReach == PoolSpec => []SomeoneLooks
<1>1. WakeupInv => SomeoneLooks
  <2> SUFFICES ASSUME WakeupInv, Waiters # {},
                      LeaseCandidates(state) # {} \/ CannotServe(state)
               PROVE  \E w \in Worker : Tests(w)
    BY DEF SomeoneLooks
  <2>1. ~BelowCapacity(state) /\ Cardinality(Leased(state)) < NActive
    BY DEF WakeupInv, WakeupsCover, LeaseCandidates, RoomForLease
  <2>2. Cardinality(Testing) # 0
    BY <2>1, TestingFinite, LeasedFinite, PoolSizeAssumption
       DEF WakeupInv, WakeupsCover
  <2>3. Testing # {}
    BY <2>2, FS_EmptySet
  <2>4. QED
    BY <2>3 DEF Testing, Tests
<1>2. QED
  BY <1>1, WakeupInvHolds, PTL

-----------------------------------------------------------------------------
(* What follows for the pool's callers.                                      *)

\* No more containers are leased than the pool is to have active, whatever
\* spares stand in, whoever waits and however often the process restarts.
THEOREM PoolCapacity == PoolSpec => [](Cardinality(Leased(state)) <= NActive)
<1> DEFINE Bounded == Cardinality(Leased(state)) <= NActive
<1>1. PoolInit => Bounded
  <2> SUFFICES ASSUME PoolInit PROVE Bounded
    OBVIOUS
  <2>1. Leased(state) = {}
    BY DEF PoolInit, BootState, Leased
  <2>2. QED
    BY <2>1, FS_EmptySet, PoolSizeAssumption
<1>2. PoolInv /\ Bounded /\ [PoolNext]_poolVars => Bounded'
  <2> SUFFICES ASSUME PoolInv, Bounded, [PoolNext]_poolVars PROVE Bounded'
    OBVIOUS
  <2> USE DEF PoolInv, PoolTypeOK
  <2>1. CASE Leased(state') \subseteq Leased(state)
    BY <2>1, LeasedFinite, FS_Subset, PoolSizeAssumption
  <2>2. ASSUME NEW w \in Worker, AcquireLease(w) PROVE Bounded'
    <3>1. PICK e \in LeaseCandidates(state) :
            state' = [state EXCEPT ![e] = "leased"]
      BY <2>2 DEF AcquireLease, FirstOf
    <3>2. Cardinality(Leased(state)) < NActive
      BY <3>1 DEF LeaseCandidates, RoomForLease
    <3>3. Leased(state') = Leased(state) \cup {e}
      BY <3>1, CandidatesAreAvailable DEF Leased
    <3>4. /\ Cardinality(Leased(state) \cup {e}) <= Cardinality(Leased(state)) + 1
          /\ Cardinality(Leased(state)) \in Nat
          /\ Cardinality(Leased(state')) \in Nat
      BY LeasedFinite, CardinalityAdd
    <3>5. QED
      BY <3>2, <3>3, <3>4, PoolSizeAssumption
  <2>3. ASSUME NEW w \in Worker,
               Release(w) \/ Quarantine(w) \/ QuarantineSchedule(w)
        PROVE  Leased(state') \subseteq Leased(state)
    BY <2>3 DEF Release, Quarantine, QuarantineSchedule, Leased
  <2>4. ASSUME NEW e \in Endpoint, RecoveryEnds(e)
        PROVE  Leased(state') \subseteq Leased(state)
    BY <2>4 DEF RecoveryEnds, Leased
  <2>5. CASE PoolRestart
    BY <2>1, <2>5 DEF PoolRestart, BootState, Leased
  <2>6. CASE UNCHANGED state
    BY <2>6
  <2>7. QED
    BY <2>1, <2>2, <2>3, <2>4, <2>5, <2>6
       DEF PoolNext, AcquireStep, QuarantineStep, RecoveryStep, AcquireCall,
           AcquireRaises, AcquireWaits, Expire, QuarantineMark,
           QuarantineMarkFails, RecoveryConcludes, poolVars, containerVars
<1>3. QED
  BY <1>1, <1>2, PoolInvHolds, PTL DEF PoolSpec

\* Who waits, waits for somebody that can go on: a thread about to look at the
\* containers, one that is free to give its own back, or a recovery.
SomebodyMoves ==
  Waiters # {} =>
    \/ \E w \in Worker : Tests(w)
    \/ \E w \in Worker : call[w] = "none" /\ HoldsLease(w)
    \/ \E e \in Endpoint : task[e] # "none"

\* The threads of the pool never all wait for each other.
THEOREM ThreadsNeverStuck == PoolSpec => []SomebodyMoves
<1>1. WakeupInv => SomebodyMoves
  <2> SUFFICES ASSUME WakeupInv, Waiters # {},
                      \A w \in Worker : ~Tests(w),
                      \A e \in Endpoint : task[e] = "none"
               PROVE  \E w \in Worker : call[w] = "none" /\ HoldsLease(w)
    BY DEF SomebodyMoves
  <2> USE DEF WakeupInv, PoolInv, PoolTypeOK
  <2>1. Testing = {}
    BY DEF Testing, Tests
  <2>2. ~BelowCapacity(state)
    BY DEF WakeupsCover, CannotServe, SomeRecovering
  <2>3. Leased(state) # {}
    <3>1. NActive <= Cardinality(Leased(state)) + Cardinality(Testing)
      BY <2>2 DEF WakeupsCover
    <3>2. Cardinality(Testing) = 0 /\ (Leased(state) = {}
            => Cardinality(Leased(state)) = 0)
      BY <2>1, FS_EmptySet
    <3>3. NActive \in Nat \ {0}
      BY PoolSizeAssumption
    <3> HIDE DEF WakeupInv, PoolInv, PoolTypeOK
    <3>4. QED
      BY <3>1, <3>2, <3>3
  <2>4. PICK e \in Endpoint : state[e] = "leased"
    BY <2>3 DEF Leased
  <2>5. holder[e] \in Worker /\ lease[holder[e]] = e
    BY <2>4 DEF PoolBooks
  <2>6. call[holder[e]] = "none"
    BY <2>4, <2>5, ThreadPoolAssumption
       DEF PoolBooks, InAcquire, QuarantineOwnsContainer, Quarantining, CallState
  <2>7. QED
    BY <2>4, <2>5, <2>6 DEF HoldsLease
<1>2. QED
  BY <1>1, WakeupInvHolds, PTL

\* _start_recovery neither returns at a recovering container nor raises at a
\* leased one, and a recovery thread finds its container as it left it.
NothingInTheWay ==
  /\ \A w \in Worker : call[w] = "schedule" => state[lease[w]] = "quarantined"
  /\ \A e \in Endpoint : task[e] # "none" => state[e] = "recovering"

\* The guards of QuarantineSchedule and RecoveryEnds never block: no quarantine
\* and no recovery is left half way.
THEOREM QuarantinesGoThrough == PoolSpec => []NothingInTheWay
<1>1. PoolInv => NothingInTheWay
  BY DEF PoolInv, PoolTypeOK, QuarantineOwnsContainer, Quarantining,
         NothingInTheWay
<1>2. QED
  BY <1>1, PoolInvHolds, PTL

-----------------------------------------------------------------------------
(* The endpoint file.  A container in use is vouched for by the file; one in *)
(* recovery is not, until its recovery has made the last mark.               *)

FileAgrees ==
  /\ \A e \in Endpoint :
       /\ state[e] \in {"available", "leased"} => vouched[e]
       /\ task[e] \in {"running", "failed"} => ~vouched[e]
       /\ task[e] = "recovered" => vouched[e]
  /\ \A w \in Worker : call[w] = "schedule" => ~vouched[lease[w]]

LEMMA FileNext == PoolInv /\ FileAgrees /\ [PoolNext]_poolVars => FileAgrees'
<1> SUFFICES ASSUME PoolInv, FileAgrees, [PoolNext]_poolVars PROVE FileAgrees'
  OBVIOUS
<1> USE DEF PoolInv, PoolTypeOK, FileAgrees, containerVars, recoveryVars,
            callVars
<1>1. ASSUME NEW w \in Worker,
             AcquireCall(w) \/ AcquireRaises(w) \/ AcquireWaits(w) \/ Expire(w)
      PROVE  FileAgrees'
  BY <1>1 DEF AcquireCall, AcquireRaises, AcquireWaits, Expire
<1>2. ASSUME NEW w \in Worker, AcquireLease(w) PROVE FileAgrees'
  <2>1. PICK e \in LeaseCandidates(state) :
          /\ state' = [state EXCEPT ![e] = "leased"]
          /\ lease' = [lease EXCEPT ![w] = e]
    BY <1>2 DEF AcquireLease, FirstOf
  <2>2. state[e] = "available"
    BY <2>1, CandidatesAreAvailable
  <2>3. QED
    BY <1>2, <2>1, <2>2 DEF AcquireLease
<1>3. ASSUME NEW w \in Worker, Release(w) PROVE FileAgrees'
  BY <1>3, NotifyOneWakes DEF Release, HoldsLease, WakesWaiters, PoolBooks
<1>4. ASSUME NEW w \in Worker, Quarantine(w) PROVE FileAgrees'
  BY <1>4 DEF Quarantine, HoldsLease, NotifyAllAndGo, Woken
<1>5. ASSUME NEW w \in Worker, QuarantineMark(w) \/ QuarantineMarkFails(w)
      PROVE  FileAgrees'
  BY <1>5
     DEF QuarantineMark, QuarantineMarkFails, QuarantineOwnsContainer,
         Quarantining
<1>6. ASSUME NEW w \in Worker, QuarantineSchedule(w) PROVE FileAgrees'
  BY <1>6
     DEF QuarantineSchedule, QuarantineOwnsContainer, Quarantining,
         NotifyAllAndGo, Woken
<1>7. ASSUME NEW e \in Endpoint, RecoveryStep(e) PROVE FileAgrees'
  <2>1. CASE RecoveryEnds(e)
    BY <2>1 DEF RecoveryEnds, NotifyAll, Woken
  <2>2. CASE RecoveryConcludes(e)
    <3>1. state[e] = "recovering"
      BY <2>2 DEF RecoveryConcludes
    <3>2. \A w \in Worker : call[w] = "schedule" => lease[w] \in Endpoint \ {e}
      BY <3>1 DEF QuarantineOwnsContainer, Quarantining
    <3>3. PICK verdict \in {"recovered", "failed"} :
            /\ task' = [task EXCEPT ![e] = verdict]
            /\ vouched' = [vouched EXCEPT ![e] = verdict = "recovered"]
      BY <2>2 DEF RecoveryConcludes
    <3>4. /\ task'[e] = verdict
          /\ \A f \in Endpoint \ {e} :
               task'[f] = task[f] /\ vouched'[f] = vouched[f]
      BY <3>3
    <3>5. vouched'[e] <=> verdict = "recovered"
      BY <3>3, Zenon
    <3>6. UNCHANGED <<state, call, lease>>
      BY <2>2 DEF RecoveryConcludes
    <3>7. QED
      BY <3>1, <3>2, <3>4, <3>5, <3>6
  <2>3. QED
    BY <1>7, <2>1, <2>2 DEF RecoveryStep
<1>8. CASE PoolRestart
  BY <1>8 DEF PoolRestart, BootState, BootTask
<1>9. CASE UNCHANGED poolVars
  BY <1>9 DEF poolVars
<1>10. QED
  BY <1>1, <1>2, <1>3, <1>4, <1>5, <1>6, <1>7, <1>8, <1>9
     DEF PoolNext, AcquireStep, QuarantineStep

\* After the process was killed, what was in use is for lease again, and a
\* recovery that had not made its last mark is begun anew.
RestartResumes ==
  [][PoolRestart => \A e \in Endpoint :
       /\ state[e] \in {"available", "leased"} => state'[e] = "available"
       /\ task[e] = "recovered" => state'[e] = "available"
       /\ task[e] \in {"running", "failed"} => state'[e] = "recovering"]_poolVars

\* The file is enough to build the pool again after a crash at any point.
THEOREM ThreadsRestart == PoolSpec => RestartResumes
<1>1. PoolInit => FileAgrees
  BY DEF PoolInit, FileAgrees, BootState, BootTask
<1>2. FileAgrees /\ [PoolNext]_poolVars =>
        [PoolRestart => \A e \in Endpoint :
           /\ state[e] \in {"available", "leased"} => state'[e] = "available"
           /\ task[e] = "recovered" => state'[e] = "available"
           /\ task[e] \in {"running", "failed"}
                => state'[e] = "recovering"]_poolVars
  BY DEF FileAgrees, PoolRestart, BootState
<1>3. QED
  BY <1>1, <1>2, FileNext, PoolInvHolds, PTL DEF PoolSpec, RestartResumes

=============================================================================
