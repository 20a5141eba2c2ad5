--------------------------- MODULE RayPoolProofs ---------------------------
(***************************************************************************)
(* RayPool, for any pool size, any set of workers and any limits: its types *)
(* and leases, its recovery tasks and its capacity, its slots and its       *)
(* waiters, its durable file, and that it implements LeaseService.          *)
(***************************************************************************)
EXTENDS RayPool, LeasePolicyProofs

LEMMA EndpointType ==
  /\ Endpoint \subseteq Nat
  /\ IsFiniteSet(Endpoint)
  /\ NoEndpoint \notin Endpoint
  /\ Active \subseteq Endpoint
BY EndpointsFinite DEF NoEndpoint

-----------------------------------------------------------------------------
(* Type correctness *)

LEMMA TypeInit == Init => TypeOK
BY RayPoolAssumption
   DEF Init, TypeOK, BootState, BootQueue, ContainerState, TaskState, CallState

LEMMA TypeRestart == TypeOK /\ Restart => TypeOK'
BY RayPoolAssumption
   DEF Restart, TypeOK, BootState, BootQueue, ContainerState, TaskState,
       CallState

LEMMA TypeAcquire ==
  ASSUME TypeOK, NEW w \in Worker,
         \/ AcquireCall(w)
         \/ AcquireLease(w)
         \/ AcquireFails(w)
         \/ AcquireWaits(w)
         \/ TimesOut(w)
  PROVE  TypeOK'
<1> USE DEF TypeOK, containerVars, slotVars, recoveryVars, leaseVars
<1>1. CASE AcquireCall(w)
  BY <1>1 DEF AcquireCall, CallState
<1>2. CASE AcquireLease(w)
  <2>1. PICK e \in Endpoint, t \in FreshTokens : Lease(w, e, t)
    BY <1>2 DEF AcquireLease
  <2>2. t \in Token
    BY DEF FreshTokens
  <2>3. QED
    BY <1>2, <2>1, <2>2 DEF AcquireLease, Lease, CallState, ContainerState
<1>3. CASE AcquireFails(w)
  BY <1>3 DEF AcquireFails, CallState
<1>4. CASE AcquireWaits(w)
  BY <1>4 DEF AcquireWaits
<1>5. CASE TimesOut(w)
  BY <1>5 DEF TimesOut, CallState
<1>6. QED
  BY <1>1, <1>2, <1>3, <1>4, <1>5

LEMMA TypeGiveBack ==
  ASSUME TypeOK, NEW w \in Worker,
         \/ Release(w)
         \/ Quarantine(w)
         \/ QuarantineMark(w)
         \/ QuarantineMarkFails(w)
         \/ QuarantineSchedule(w)
  PROVE  TypeOK'
<1> USE DEF TypeOK, containerVars, slotVars, recoveryVars, leaseVars, WakeAll,
            DiscardSlots
<1>1. CASE Release(w)
  BY <1>1 DEF Release, HoldsLease, ContainerState
<1>2. CASE Quarantine(w)
  BY <1>2 DEF Quarantine, HoldsLease, ContainerState, CallState
<1>3. CASE QuarantineMark(w)
  BY <1>3 DEF QuarantineMark, DurableState, CallState
<1>4. CASE QuarantineMarkFails(w)
  BY <1>4 DEF QuarantineMarkFails, CallState
<1>5. CASE QuarantineSchedule(w)
  BY <1>5 DEF QuarantineSchedule, ContainerState, TaskState, CallState
<1>6. QED
  BY <1>1, <1>2, <1>3, <1>4, <1>5

\* The token of a live lease is a token, which TypeOK alone does not say.
LEMMA LiveLease ==
  ASSUME TypeOK, LeaseBooks, NEW w \in Worker, HoldsLease(w)
  PROVE  leaseEndpoint[w] \in Endpoint /\ leaseToken[w] \in Token
BY DEF TypeOK, LeaseBooks, HoldsLease

LEMMA TypeSlots ==
  ASSUME TypeOK, LeaseBooks, NEW w \in Worker,
         \/ BeginInitialization(w)
         \/ WaitInitialization(w)
         \/ EndInitialization(w)
         \/ BeginTeardown(w)
         \/ WaitTeardown(w)
         \/ EndTeardown(w)
  PROVE  TypeOK'
<1> USE DEF TypeOK, containerVars, slotVars, recoveryVars, leaseVars, WakeAll
<1>1. HoldsLease(w) => leaseToken[w] \in Token
  BY LiveLease
<1>2. CASE BeginInitialization(w)
  BY <1>1, <1>2 DEF BeginInitialization, CallState
<1>3. CASE WaitInitialization(w)
  BY <1>3 DEF WaitInitialization, CallState
<1>4. CASE EndInitialization(w)
  BY <1>4 DEF EndInitialization
<1>5. CASE BeginTeardown(w)
  BY <1>1, <1>5 DEF BeginTeardown, CallState
<1>6. CASE WaitTeardown(w)
  BY <1>6 DEF WaitTeardown, CallState
<1>7. CASE EndTeardown(w)
  BY <1>7 DEF EndTeardown
<1>8. QED
  BY <1>2, <1>3, <1>4, <1>5, <1>6, <1>7

LEMMA TypeRecovery ==
  ASSUME TypeOK, NEW e \in Endpoint,
         \/ BootSchedule(e)
         \/ RecoveryBegins(e)
         \/ RecoverySucceeds(e)
         \/ RecoveryFails(e)
         \/ RecoveryEnds(e)
  PROVE  TypeOK'
<1> USE DEF TypeOK, containerVars, slotVars, leaseVars, WakeAll,
            ContainerState, TaskState, DurableState
<1>1. CASE BootSchedule(e)
  BY <1>1 DEF BootSchedule
<1>2. CASE RecoveryBegins(e)
  BY <1>2 DEF RecoveryBegins
<1>3. CASE RecoverySucceeds(e)
  BY <1>3 DEF RecoverySucceeds
<1>4. CASE RecoveryFails(e)
  BY <1>4 DEF RecoveryFails
<1>5. CASE RecoveryEnds(e)
  BY <1>5 DEF RecoveryEnds
<1>6. QED
  BY <1>1, <1>2, <1>3, <1>4, <1>5

LEMMA TypeNext == TypeOK /\ LeaseBooks /\ [Next]_vars => TypeOK'
<1> SUFFICES ASSUME TypeOK, LeaseBooks, [Next]_vars PROVE TypeOK'
  OBVIOUS
<1>1. CASE Restart
  BY <1>1, TypeRestart
<1>2. CASE Serve
  BY <1>2, TypeAcquire, TypeGiveBack, TypeSlots, TypeRecovery DEF Serve
<1>3. CASE UNCHANGED vars
  BY <1>3 DEF vars, TypeOK
<1>4. QED
  BY <1>1, <1>2, <1>3 DEF Next

-----------------------------------------------------------------------------
(* The books of leases, and what they rest on: a fresh token is fresh, and  *)
(* only the holder changes a leased container.                              *)

LEMMA BooksInit == Init => LeaseBooks
BY EndpointType DEF Init, LeaseBooks, BootState

LEMMA BooksAcquire ==
  ASSUME TypeOK, LeaseBooks, NEW w \in Worker,
         \/ AcquireCall(w)
         \/ AcquireLease(w)
         \/ AcquireFails(w)
         \/ AcquireWaits(w)
         \/ TimesOut(w)
  PROVE  LeaseBooks'
<1> USE DEF TypeOK, LeaseBooks, containerVars, leaseVars
<1>1. CASE AcquireCall(w)
  BY <1>1 DEF AcquireCall
<1>2. CASE AcquireLease(w)
  <2>1. PICK e \in Endpoint, t \in FreshTokens : Lease(w, e, t)
    BY <1>2 DEF AcquireLease
  <2>2. t # NoToken /\ \A v \in Worker : leaseToken[v] # t
    BY RayPoolAssumption DEF FreshTokens, KnownTokens
  <2>3. QED
    BY <1>2, <2>1, <2>2 DEF AcquireLease, Lease, FreshTokens
<1>3. CASE AcquireFails(w)
  BY <1>3 DEF AcquireFails
<1>4. CASE AcquireWaits(w)
  BY <1>4 DEF AcquireWaits
<1>5. CASE TimesOut(w)
  BY <1>5 DEF TimesOut
<1>6. QED
  BY <1>1, <1>2, <1>3, <1>4, <1>5

LEMMA BooksGiveBack ==
  ASSUME TypeOK, LeaseBooks, NEW w \in Worker,
         \/ Release(w)
         \/ Quarantine(w)
         \/ QuarantineMark(w)
         \/ QuarantineMarkFails(w)
         \/ QuarantineSchedule(w)
  PROVE  LeaseBooks'
<1> USE DEF TypeOK, LeaseBooks, containerVars, leaseVars
<1>1. CASE Release(w)
  BY <1>1 DEF Release, HoldsLease
<1>2. CASE Quarantine(w)
  BY <1>2 DEF Quarantine, HoldsLease
<1>3. CASE QuarantineMark(w)
  BY <1>3 DEF QuarantineMark
<1>4. CASE QuarantineMarkFails(w)
  BY <1>4 DEF QuarantineMarkFails
<1>5. CASE QuarantineSchedule(w)
  BY <1>5 DEF QuarantineSchedule
<1>6. QED
  BY <1>1, <1>2, <1>3, <1>4, <1>5

LEMMA BooksSlots ==
  ASSUME TypeOK, LeaseBooks, NEW w \in Worker,
         \/ BeginInitialization(w)
         \/ WaitInitialization(w)
         \/ EndInitialization(w)
         \/ BeginTeardown(w)
         \/ WaitTeardown(w)
         \/ EndTeardown(w)
  PROVE  LeaseBooks'
BY DEF TypeOK, LeaseBooks, containerVars, leaseVars, BeginInitialization,
       WaitInitialization, EndInitialization, BeginTeardown, WaitTeardown,
       EndTeardown

\* The recovery of a container touches it only while it is out of service.
LEMMA BooksRecovery ==
  ASSUME TypeOK, LeaseBooks, BootIsQuarantined, NEW e \in Endpoint,
         \/ BootSchedule(e)
         \/ RecoveryBegins(e)
         \/ RecoverySucceeds(e)
         \/ RecoveryFails(e)
         \/ RecoveryEnds(e)
  PROVE  LeaseBooks'
<1> USE DEF TypeOK, LeaseBooks, containerVars, leaseVars
<1>1. CASE BootSchedule(e)
  BY <1>1 DEF BootSchedule, BootIsQuarantined
<1>2. CASE RecoveryBegins(e)
  BY <1>2 DEF RecoveryBegins
<1>3. CASE RecoverySucceeds(e)
  BY <1>3 DEF RecoverySucceeds
<1>4. CASE RecoveryFails(e)
  BY <1>4 DEF RecoveryFails
<1>5. CASE RecoveryEnds(e)
  BY <1>5 DEF RecoveryEnds
<1>6. QED
  BY <1>1, <1>2, <1>3, <1>4, <1>5

LEMMA BooksNext ==
  TypeOK /\ LeaseBooks /\ BootIsQuarantined /\ [Next]_vars => LeaseBooks'
<1> SUFFICES ASSUME TypeOK, LeaseBooks, BootIsQuarantined, [Next]_vars
             PROVE  LeaseBooks'
  OBVIOUS
<1>1. CASE Restart
  BY <1>1 DEF Restart, LeaseBooks, BootState
<1>2. CASE Serve
  BY <1>2, BooksAcquire, BooksGiveBack, BooksSlots, BooksRecovery DEF Serve
<1>3. CASE UNCHANGED vars
  BY <1>3 DEF vars, LeaseBooks
<1>4. QED
  BY <1>1, <1>2, <1>3 DEF Next

-----------------------------------------------------------------------------
(* start() and the recovery tasks *)

LEMMA BootNext ==
  TypeOK /\ LeaseBooks /\ BootIsQuarantined /\ [Next]_vars
    => BootIsQuarantined'
<1> SUFFICES ASSUME TypeOK, LeaseBooks, BootIsQuarantined, [Next]_vars
             PROVE  BootIsQuarantined'
  OBVIOUS
<1> USE EndpointType DEF TypeOK, BootIsQuarantined, containerVars, slotVars,
        recoveryVars, leaseVars
<1>1. CASE Restart
  BY <1>1 DEF Restart, BootState, BootQueue
<1>2. ASSUME NEW w \in Worker, AcquireCall(w) PROVE BootIsQuarantined'
  BY <1>2 DEF AcquireCall
<1>3. ASSUME NEW w \in Worker, AcquireLease(w) PROVE BootIsQuarantined'
  BY <1>3, CandidatesAreAvailable DEF AcquireLease, Lease, FirstOf
<1>4. ASSUME NEW w \in Worker, AcquireFails(w) \/ AcquireWaits(w) \/ TimesOut(w)
      PROVE  BootIsQuarantined'
  BY <1>4 DEF AcquireFails, AcquireWaits, TimesOut
<1>5. ASSUME NEW w \in Worker, Release(w) \/ Quarantine(w)
      PROVE  BootIsQuarantined'
  BY <1>5 DEF Release, Quarantine, HoldsLease
<1>6. ASSUME NEW w \in Worker,
             \/ QuarantineMark(w)
             \/ QuarantineMarkFails(w)
             \/ QuarantineSchedule(w)
      PROVE  BootIsQuarantined'
  BY <1>6 DEF QuarantineMark, QuarantineMarkFails, QuarantineSchedule
<1>7. ASSUME NEW w \in Worker,
             \/ BeginInitialization(w)
             \/ WaitInitialization(w)
             \/ EndInitialization(w)
             \/ BeginTeardown(w)
             \/ WaitTeardown(w)
             \/ EndTeardown(w)
      PROVE  BootIsQuarantined'
  BY <1>7 DEF BeginInitialization, WaitInitialization, EndInitialization,
              BeginTeardown, WaitTeardown, EndTeardown, HoldsLease
<1>8. ASSUME NEW e \in Endpoint, BootSchedule(e) PROVE BootIsQuarantined'
  BY <1>8 DEF BootSchedule
<1>9. ASSUME NEW e \in Endpoint,
             \/ RecoveryBegins(e)
             \/ RecoverySucceeds(e)
             \/ RecoveryFails(e)
             \/ RecoveryEnds(e)
      PROVE  BootIsQuarantined'
  BY <1>9 DEF RecoveryBegins, RecoverySucceeds, RecoveryFails, RecoveryEnds
<1>10. CASE UNCHANGED vars
  BY <1>10 DEF vars
<1>11. QED
  BY <1>1, <1>2, <1>3, <1>4, <1>5, <1>6, <1>7, <1>8, <1>9, <1>10
     DEF Next, Serve

LEMMA RecoveryNext ==
  TypeOK /\ BootIsQuarantined /\ RecoveryOwnsContainer /\ [Next]_vars
    => RecoveryOwnsContainer'
<1> SUFFICES ASSUME TypeOK, BootIsQuarantined, RecoveryOwnsContainer,
                    [Next]_vars
             PROVE  RecoveryOwnsContainer'
  OBVIOUS
<1> USE DEF TypeOK, RecoveryOwnsContainer, containerVars, slotVars,
        recoveryVars, leaseVars
<1>1. CASE Restart
  BY <1>1 DEF Restart, BootState
<1>2. ASSUME NEW w \in Worker, AcquireLease(w) PROVE RecoveryOwnsContainer'
  BY <1>2, CandidatesAreAvailable DEF AcquireLease, Lease, FirstOf
<1>3. ASSUME NEW w \in Worker,
             \/ AcquireCall(w)
             \/ AcquireFails(w)
             \/ AcquireWaits(w)
             \/ TimesOut(w)
      PROVE  RecoveryOwnsContainer'
  BY <1>3 DEF AcquireCall, AcquireFails, AcquireWaits, TimesOut
<1>4. ASSUME NEW w \in Worker, Release(w) \/ Quarantine(w)
      PROVE  RecoveryOwnsContainer'
  BY <1>4 DEF Release, Quarantine, HoldsLease
<1>5. ASSUME NEW w \in Worker,
             \/ QuarantineMark(w)
             \/ QuarantineMarkFails(w)
             \/ QuarantineSchedule(w)
      PROVE  RecoveryOwnsContainer'
  BY <1>5 DEF QuarantineMark, QuarantineMarkFails, QuarantineSchedule
<1>6. ASSUME NEW w \in Worker,
             \/ BeginInitialization(w)
             \/ WaitInitialization(w)
             \/ EndInitialization(w)
             \/ BeginTeardown(w)
             \/ WaitTeardown(w)
             \/ EndTeardown(w)
      PROVE  RecoveryOwnsContainer'
  BY <1>6 DEF BeginInitialization, WaitInitialization, EndInitialization,
              BeginTeardown, WaitTeardown, EndTeardown
<1>7. ASSUME NEW e \in Endpoint,
             \/ BootSchedule(e)
             \/ RecoveryBegins(e)
             \/ RecoverySucceeds(e)
             \/ RecoveryFails(e)
             \/ RecoveryEnds(e)
      PROVE  RecoveryOwnsContainer'
  BY <1>7 DEF BootSchedule, RecoveryBegins, RecoverySucceeds, RecoveryFails,
              RecoveryEnds
<1>8. CASE UNCHANGED vars
  BY <1>8 DEF vars
<1>9. QED
  BY <1>1, <1>2, <1>3, <1>4, <1>5, <1>6, <1>7, <1>8 DEF Next, Serve

-----------------------------------------------------------------------------
(* The inductive invariant behind the lease theorems *)

LeaseInv ==
  TypeOK /\ LeaseBooks /\ RecoveryOwnsContainer /\ BootIsQuarantined

LEMMA LeaseInvInit == Init => LeaseInv
<1>1. Init => RecoveryOwnsContainer /\ BootIsQuarantined
  BY DEF Init, RecoveryOwnsContainer, BootIsQuarantined, BootState, BootQueue
<1>2. QED
  BY <1>1, TypeInit, BooksInit DEF LeaseInv

LEMMA LeaseInvNext == LeaseInv /\ [Next]_vars => LeaseInv'
BY TypeNext, BooksNext, BootNext, RecoveryNext DEF LeaseInv

LEMMA LeaseInvHolds == Spec => []LeaseInv
BY LeaseInvInit, LeaseInvNext, PTL DEF Spec

\* Every variable of the pool keeps its type, tokens and slots included.
THEOREM TypeCorrect == Spec => []TypeOK
<1>1. LeaseInv => TypeOK
  BY DEF LeaseInv
<1>2. QED
  BY <1>1, LeaseInvHolds, PTL

\* No two workers ever hold lease objects that the pool accepts for one
\* container.
THEOREM ExclusiveLeases == Spec => []LeaseExclusive
<1>1. LeaseInv => LeaseExclusive
  <2> SUFFICES ASSUME LeaseInv, NEW v \in Worker, NEW w \in Worker,
                      HoldsLease(v), HoldsLease(w),
                      leaseEndpoint[v] = leaseEndpoint[w]
               PROVE  v = w
    BY DEF LeaseExclusive
  <2>1. leaseToken[v] = leaseToken[w] /\ leaseToken[v] # NoToken
    BY DEF LeaseInv, LeaseBooks, HoldsLease
  <2>2. QED
    BY <2>1 DEF LeaseInv, LeaseBooks
<1>2. QED
  BY <1>1, LeaseInvHolds, PTL

\* A container is in recovery exactly while a recovery task owns it, so none
\* is restarted under a lease.
THEOREM RecoveryExclusive == Spec => []RecoveryOwnsContainer
<1>1. LeaseInv => RecoveryOwnsContainer
  BY DEF LeaseInv
<1>2. QED
  BY <1>1, LeaseInvHolds, PTL

-----------------------------------------------------------------------------
(* Capacity *)

\* Leasing one more container is the only step that can exceed the capacity,
\* and acquire takes it only below the capacity.
LEMMA CapacityNext ==
  TypeOK /\ LeasesWithinCapacity /\ [Next]_vars => LeasesWithinCapacity'
<1> SUFFICES ASSUME TypeOK, LeasesWithinCapacity, [Next]_vars
             PROVE  LeasesWithinCapacity'
  OBVIOUS
<1> USE PoolSizeAssumption DEF TypeOK, LeasesWithinCapacity
<1>1. ASSUME NEW w \in Worker, AcquireLease(w) PROVE LeasesWithinCapacity'
  <2>1. PICK e \in Endpoint, t \in FreshTokens :
               e \in LeaseCandidates(state) /\ Lease(w, e, t)
    BY <1>1 DEF AcquireLease, FirstOf
  <2>2. Cardinality(Leased(state)) < NActive
    BY <2>1 DEF LeaseCandidates, RoomForLease
  <2>3. Leased(state') = Leased(state) \cup {e}
    BY <2>1 DEF Leased, Lease
  <2>4. Cardinality(Leased(state')) <= Cardinality(Leased(state)) + 1
    BY <2>3, LeasedFinite, CardinalityAdd
  <2>5. QED
    BY <2>2, <2>4, LeasedFinite
<1>2. CASE \A w \in Worker : ~AcquireLease(w)
  <2>1. Leased(state') \subseteq Leased(state)
    <3>1. CASE Restart
      BY <3>1 DEF Restart, BootState, Leased
    <3>2. ASSUME NEW w \in Worker, Release(w) \/ Quarantine(w)
          PROVE  Leased(state') \subseteq Leased(state)
      BY <3>2 DEF Release, Quarantine, HoldsLease, Leased
    <3>3. ASSUME NEW w \in Worker, QuarantineSchedule(w)
          PROVE  Leased(state') \subseteq Leased(state)
      BY <3>3 DEF QuarantineSchedule, Leased
    <3>4. ASSUME NEW e \in Endpoint, BootSchedule(e) \/ RecoveryEnds(e)
          PROVE  Leased(state') \subseteq Leased(state)
      BY <3>4 DEF BootSchedule, RecoveryEnds, Leased
    <3>5. CASE UNCHANGED state
      BY <3>5 DEF Leased
    <3>6. QED
      BY <1>2, <3>1, <3>2, <3>3, <3>4, <3>5
         DEF Next, Serve, vars, containerVars, AcquireCall, AcquireFails,
             AcquireWaits, TimesOut, QuarantineMark, QuarantineMarkFails,
             BeginInitialization, WaitInitialization, EndInitialization,
             BeginTeardown, WaitTeardown, EndTeardown, RecoveryBegins,
             RecoverySucceeds, RecoveryFails
  <2>2. Cardinality(Leased(state')) <= Cardinality(Leased(state))
    BY <2>1, LeasedFinite, FS_Subset
  <2>3. QED
    BY <2>2, LeasedFinite
<1>3. QED
  BY <1>1, <1>2

\* Spares stand in for broken containers and never add to the capacity.
THEOREM CapacityRespected == Spec => []LeasesWithinCapacity
<1>1. Init => LeasesWithinCapacity
  <2>1. Init => Leased(state) = {}
    BY DEF Init, BootState, Leased
  <2>2. QED
    BY <2>1, FS_EmptySet, PoolSizeAssumption DEF LeasesWithinCapacity
<1>2. QED
  BY <1>1, CapacityNext, TypeCorrect, PTL DEF Spec

-----------------------------------------------------------------------------
(* Slots *)

SlotsInv ==
  /\ SlotsSound
  /\ IsFiniteSet(initializing)
  /\ IsFiniteSet(tearingDown)

LEMMA LimitsType ==
  InitLimit \in Nat /\ TeardownLimit \in Nat
BY PoolSizeAssumption, RayPoolAssumption

\* Taking a slot that is free respects the limit.
LEMMA TakeSlot ==
  ASSUME NEW S, IsFiniteSet(S), NEW limit \in Nat, Cardinality(S) < limit,
         NEW t
  PROVE  IsFiniteSet(S \cup {t}) /\ Cardinality(S \cup {t}) <= limit
<1>1. Cardinality(S) \in Nat
  BY FS_CardinalityType
<1>2. /\ IsFiniteSet(S \cup {t})
      /\ Cardinality(S \cup {t}) <= Cardinality(S) + 1
  BY CardinalityAdd, FS_AddElement
<1>3. Cardinality(S \cup {t}) \in Nat
  BY <1>2, FS_CardinalityType
<1>4. QED
  BY <1>1, <1>2, <1>3

LEMMA LeaveSlot ==
  ASSUME NEW S, IsFiniteSet(S), NEW limit \in Nat, Cardinality(S) <= limit,
         NEW t
  PROVE  IsFiniteSet(S \ {t}) /\ Cardinality(S \ {t}) <= limit
<1>1. Cardinality(S) \in Nat
  BY FS_CardinalityType
<1>2. S \ {t} \in SUBSET S
  OBVIOUS
<1>3. IsFiniteSet(S \ {t}) /\ Cardinality(S \ {t}) <= Cardinality(S)
  BY <1>2, FS_Subset
<1>4. Cardinality(S \ {t}) \in Nat
  BY <1>3, FS_CardinalityType
<1>5. QED
  BY <1>1, <1>3, <1>4

LEMMA SlotsInit == Init => SlotsInv
<1>1. Cardinality({}) = 0 /\ IsFiniteSet({})
  BY FS_EmptySet
<1>2. QED
  BY <1>1, LimitsType DEF Init, SlotsInv, SlotsSound

\* A slot goes back with the lease that owns it.
LEMMA SlotsGiveBack ==
  ASSUME TypeOK, LeaseBooks, SlotsInv, NEW w \in Worker,
         \/ Release(w)
         \/ Quarantine(w)
  PROVE  SlotsInv'
<1> USE DEF TypeOK, LeaseBooks, SlotsInv, SlotsSound
<1>1. PICK st : /\ HoldsLease(w)
                /\ DiscardSlots(leaseToken[w])
                /\ state' = [state EXCEPT ![leaseEndpoint[w]] = st]
                /\ token' = [token EXCEPT ![leaseEndpoint[w]] = NoToken]
  BY DEF Release, Quarantine
<1>2. /\ IsFiniteSet(initializing') /\ Cardinality(initializing') <= InitLimit
      /\ IsFiniteSet(tearingDown') /\ Cardinality(tearingDown') <= TeardownLimit
  BY <1>1, LimitsType, LeaveSlot DEF DiscardSlots
<1>3. initializing' \cap tearingDown' = {}
  BY <1>1 DEF DiscardSlots
<1>4. ASSUME NEW t \in initializing' \cup tearingDown'
      PROVE  \E e \in Endpoint : state'[e] = "leased" /\ token'[e] = t
  <2>1. t # leaseToken[w] /\ t \in initializing \cup tearingDown
    BY <1>1 DEF DiscardSlots
  <2>2. PICK e \in Endpoint : state[e] = "leased" /\ token[e] = t
    BY <2>1
  <2>3. e # leaseEndpoint[w]
    BY <1>1, <2>1, <2>2 DEF HoldsLease
  <2>4. QED
    BY <1>1, <2>2, <2>3
<1>5. QED
  BY <1>2, <1>3, <1>4

LEMMA SlotsTakeAndLeave ==
  ASSUME TypeOK, LeaseBooks, SlotsInv, NEW w \in Worker,
         \/ BeginInitialization(w)
         \/ WaitInitialization(w)
         \/ EndInitialization(w)
         \/ BeginTeardown(w)
         \/ WaitTeardown(w)
         \/ EndTeardown(w)
  PROVE  SlotsInv'
<1> USE LimitsType
        DEF TypeOK, SlotsInv, SlotsSound, containerVars, slotVars
<1>1. CASE BeginInitialization(w)
  <2>1. /\ IsFiniteSet(initializing')
        /\ Cardinality(initializing') <= InitLimit
    BY <1>1, TakeSlot DEF BeginInitialization
  <2>2. QED
    BY <1>1, <2>1 DEF BeginInitialization, OwnsSlot, HoldsLease
<1>2. CASE EndInitialization(w)
  <2>1. /\ IsFiniteSet(initializing')
        /\ Cardinality(initializing') <= InitLimit
    BY <1>2, LeaveSlot DEF EndInitialization
  <2>2. QED
    BY <1>2, <2>1 DEF EndInitialization
<1>3. CASE BeginTeardown(w)
  <2>1. /\ IsFiniteSet(tearingDown')
        /\ Cardinality(tearingDown') <= TeardownLimit
    BY <1>3, TakeSlot DEF BeginTeardown
  <2>2. QED
    BY <1>3, <2>1 DEF BeginTeardown, OwnsSlot, HoldsLease
<1>4. CASE EndTeardown(w)
  <2>1. /\ IsFiniteSet(tearingDown')
        /\ Cardinality(tearingDown') <= TeardownLimit
    BY <1>4, LeaveSlot DEF EndTeardown
  <2>2. QED
    BY <1>4, <2>1 DEF EndTeardown
<1>5. CASE WaitInitialization(w) \/ WaitTeardown(w)
  BY <1>5 DEF WaitInitialization, WaitTeardown
<1>6. QED
  BY <1>1, <1>2, <1>3, <1>4, <1>5

LEMMA SlotsNext ==
  TypeOK /\ LeaseBooks /\ BootIsQuarantined /\ SlotsInv /\ [Next]_vars
    => SlotsInv'
<1> SUFFICES ASSUME TypeOK, LeaseBooks, BootIsQuarantined, SlotsInv, [Next]_vars
             PROVE  SlotsInv'
  OBVIOUS
<1> USE DEF TypeOK, SlotsInv, SlotsSound
<1>1. CASE Restart
  <2>1. Cardinality({}) = 0 /\ IsFiniteSet({})
    BY FS_EmptySet
  <2>2. QED
    BY <1>1, <2>1, LimitsType DEF Restart
<1>2. ASSUME NEW w \in Worker, AcquireLease(w) PROVE SlotsInv'
  <2>1. PICK e \in Endpoint, t \in FreshTokens :
               e \in LeaseCandidates(state) /\ Lease(w, e, t)
    BY <1>2 DEF AcquireLease, FirstOf
  <2>2. state[e] = "available"
    BY <2>1, CandidatesAreAvailable
  <2>3. QED
    BY <1>2, <2>1, <2>2 DEF AcquireLease, Lease, slotVars
<1>3. ASSUME NEW w \in Worker, QuarantineSchedule(w) PROVE SlotsInv'
  BY <1>3 DEF QuarantineSchedule, slotVars
<1>4. ASSUME NEW e \in Endpoint, BootSchedule(e) PROVE SlotsInv'
  BY <1>4 DEF BootSchedule, slotVars, BootIsQuarantined
<1>5. ASSUME NEW e \in Endpoint, RecoveryEnds(e) PROVE SlotsInv'
  BY <1>5 DEF RecoveryEnds, slotVars
<1>6. CASE UNCHANGED <<containerVars, slotVars>>
  BY <1>6 DEF containerVars, slotVars
<1>7. QED
  BY <1>1, <1>2, <1>3, <1>4, <1>5, <1>6, SlotsGiveBack, SlotsTakeAndLeave
     DEF Next, Serve, vars, containerVars, slotVars, AcquireCall,
         AcquireFails, AcquireWaits, TimesOut, QuarantineMark,
         QuarantineMarkFails, RecoveryBegins, RecoverySucceeds, RecoveryFails

LEMMA SlotsHold == Spec => []SlotsInv
BY SlotsInit, SlotsNext, LeaseInvHolds, PTL DEF Spec, LeaseInv

\* Initialization and teardown slots are never over-committed, and none
\* outlives the lease it was taken under.
THEOREM SlotsAreSound == Spec => []SlotsSound
<1>1. SlotsInv => SlotsSound
  BY DEF SlotsInv
<1>2. QED
  BY <1>1, SlotsHold, PTL

-----------------------------------------------------------------------------
(* Waiting *)

LEMMA WakeupInit == Init => NoLostWakeup
BY DEF Init, NoLostWakeup

\* What a step must leave alone for the sleepers to have reason to sleep on.
LEMMA SleepOn ==
  ASSUME NoLostWakeup, UNCHANGED <<state, initializing, tearingDown>>,
         asleep' \subseteq asleep,
         \A v \in asleep' : call'[v] = call[v]
  PROVE  NoLostWakeup'
BY DEF NoLostWakeup

LEMMA WakeupAcquire ==
  ASSUME LeaseInv, NoLostWakeup, NEW w \in Worker,
         \/ AcquireCall(w)
         \/ AcquireLease(w)
         \/ AcquireFails(w)
         \/ AcquireWaits(w)
         \/ TimesOut(w)
  PROVE  NoLostWakeup'
<1> USE DEF LeaseInv, TypeOK, containerVars, slotVars
<1>1. CASE AcquireCall(w)
  <2>1. w \notin asleep
    BY <1>1 DEF AcquireCall, NoLostWakeup
  <2>2. QED
    BY <1>1, <2>1, SleepOn DEF AcquireCall
<1>2. CASE AcquireLease(w)
  <2>1. PICK e \in Endpoint, t \in FreshTokens : e \in LeaseCandidates(state)
    BY <1>2 DEF AcquireLease, FirstOf
  <2>2. RoomForLease(state)
    BY <2>1 DEF LeaseCandidates
  <2>3. \A v \in asleep : call[v] # "acquire"
    BY <2>2, LeasedFinite, PoolSizeAssumption DEF NoLostWakeup, RoomForLease
  <2>4. QED
    BY <1>2, <2>3 DEF AcquireLease, Running, NoLostWakeup
<1>3. CASE AcquireFails(w)
  BY <1>3, SleepOn DEF AcquireFails, Running
<1>4. CASE AcquireWaits(w)
  <2>1. ~RoomForLease(state)
    BY <1>4, WorkConserving DEF AcquireWaits
  <2>2. \/ BelowCapacity(state) /\ SomeRecovering(state)
        \/ Cardinality(Leased(state)) >= NActive
    BY <1>4, <2>1, LeasedFinite, PoolSizeAssumption
       DEF AcquireWaits, CannotServe, RoomForLease
  <2>3. QED
    BY <1>4, <2>2 DEF AcquireWaits, NoLostWakeup
<1>5. CASE TimesOut(w)
  BY <1>5, SleepOn DEF TimesOut
<1>6. QED
  BY <1>1, <1>2, <1>3, <1>4, <1>5

LEMMA WakeupSlots ==
  ASSUME LeaseInv, SlotsInv, NoLostWakeup, NEW w \in Worker,
         \/ BeginInitialization(w)
         \/ WaitInitialization(w)
         \/ EndInitialization(w)
         \/ BeginTeardown(w)
         \/ WaitTeardown(w)
         \/ EndTeardown(w)
  PROVE  NoLostWakeup'
<1> USE DEF LeaseInv, TypeOK, NoLostWakeup, containerVars, slotVars
<1>1. /\ Cardinality(initializing) \in Nat /\ Cardinality(tearingDown) \in Nat
      /\ InitLimit \in Nat /\ TeardownLimit \in Nat
  BY LimitsType, FS_CardinalityType DEF SlotsInv
<1>2. CASE BeginInitialization(w)
  BY <1>1, <1>2 DEF BeginInitialization, Running
<1>3. CASE WaitInitialization(w)
  BY <1>3 DEF WaitInitialization, Running
<1>4. CASE EndInitialization(w) \/ EndTeardown(w)
  BY <1>4 DEF EndInitialization, EndTeardown, WakeAll
<1>5. CASE BeginTeardown(w)
  BY <1>1, <1>5 DEF BeginTeardown, Running
<1>6. CASE WaitTeardown(w)
  BY <1>6 DEF WaitTeardown, Running
<1>7. QED
  BY <1>2, <1>3, <1>4, <1>5, <1>6

LEMMA WakeupNext ==
  LeaseInv /\ SlotsInv /\ NoLostWakeup /\ [Next]_vars => NoLostWakeup'
<1> SUFFICES ASSUME LeaseInv, SlotsInv, NoLostWakeup, [Next]_vars
             PROVE  NoLostWakeup'
  OBVIOUS
<1>1. CASE asleep' = {}
  BY <1>1 DEF NoLostWakeup
<1>2. ASSUME NEW w \in Worker, QuarantineMark(w) \/ QuarantineMarkFails(w)
      PROVE  NoLostWakeup'
  <2>1. w \notin asleep
    BY <1>2 DEF QuarantineMark, QuarantineMarkFails, NoLostWakeup
  <2>2. QED
    BY <1>2, <2>1, SleepOn
       DEF QuarantineMark, QuarantineMarkFails, LeaseInv, TypeOK, containerVars, slotVars
<1>3. ASSUME NEW w \in Worker, QuarantineSchedule(w) PROVE NoLostWakeup'
  <2>1. w \notin asleep
    BY <1>3 DEF QuarantineSchedule, NoLostWakeup
  <2>2. CASE UNCHANGED <<state, asleep>>
    BY <1>3, <2>1, <2>2, SleepOn
       DEF QuarantineSchedule, LeaseInv, TypeOK, slotVars
  <2>3. QED
    BY <1>1, <1>3, <2>2 DEF QuarantineSchedule, WakeAll
<1>4. ASSUME NEW e \in Endpoint,
             \/ RecoveryBegins(e)
             \/ RecoverySucceeds(e)
             \/ RecoveryFails(e)
             \/ RecoveryEnds(e)
      PROVE  NoLostWakeup'
  BY <1>1, <1>4, SleepOn
     DEF RecoveryBegins, RecoverySucceeds, RecoveryFails, RecoveryEnds,
         WakeAll, containerVars, slotVars
<1>5. CASE UNCHANGED vars
  BY <1>5, SleepOn DEF vars
<1>6. QED
  BY <1>1, <1>2, <1>3, <1>4, <1>5, WakeupAcquire, WakeupSlots
     DEF Next, Serve, Restart, Release, Quarantine, BootSchedule, WakeAll

\* Nobody sleeps through what it waits for: a suspended acquire has no
\* container it could be given, a suspended slot wait no free slot.
THEOREM WakeupsKept == Spec => []NoLostWakeup
BY WakeupInit, WakeupNext, LeaseInvHolds, SlotsHold, PTL DEF Spec

-----------------------------------------------------------------------------
(* A quarantine under way has the container to itself: the lease that was   *)
(* given up cannot be granted again before the recovery has been scheduled. *)

Quarantining(w) == call[w] \in {"mark", "schedule"}

QuarantineOwnsContainer ==
  /\ \A w \in Worker : Quarantining(w) =>
       /\ leaseEndpoint[w] \in Endpoint
       /\ state[leaseEndpoint[w]] = "quarantined"
       /\ call[w] = "schedule" => durable[leaseEndpoint[w]] = "quarantined"
  /\ \A v, w \in Worker :
       Quarantining(v) /\ Quarantining(w) /\ leaseEndpoint[v] = leaseEndpoint[w]
         => v = w

ServiceInv ==
  /\ LeaseInv
  /\ SlotsInv
  /\ NoLostWakeup
  /\ LeasedIsHeld
  /\ QuarantineOwnsContainer
  /\ DurableQuarantine

LEMMA ServiceInvInit == Init => ServiceInv
<1> SUFFICES ASSUME Init PROVE ServiceInv
  OBVIOUS
<1>1. LeaseInv /\ SlotsInv /\ NoLostWakeup
  BY LeaseInvInit, SlotsInit, WakeupInit
<1>2. LeasedIsHeld
  BY DEF Init, BootState, LeasedIsHeld
<1>3. QuarantineOwnsContainer
  BY DEF Init, QuarantineOwnsContainer, Quarantining
<1>4. DurableQuarantine
  BY DEF Init, BootState, DurableQuarantine, OutOfService
<1>5. QED
  BY <1>1, <1>2, <1>3, <1>4 DEF ServiceInv

-----------------------------------------------------------------------------
(* No lease is lost *)

LEMMA HeldNext ==
  TypeOK /\ LeaseBooks /\ LeasedIsHeld /\ [Next]_vars => LeasedIsHeld'
<1> SUFFICES ASSUME TypeOK, LeaseBooks, LeasedIsHeld, [Next]_vars
             PROVE  LeasedIsHeld'
  OBVIOUS
<1> USE DEF TypeOK, LeaseBooks, LeasedIsHeld, HoldsLease
<1>1. CASE Restart
  BY <1>1 DEF Restart, BootState
<1>2. ASSUME NEW w \in Worker, AcquireCall(w) PROVE LeasedIsHeld'
  BY <1>2 DEF AcquireCall, containerVars
<1>3. ASSUME NEW w \in Worker, AcquireLease(w) PROVE LeasedIsHeld'
  <2>1. PICK e \in Endpoint, t \in FreshTokens : Lease(w, e, t)
    BY <1>3 DEF AcquireLease
  <2>2. t # NoToken /\ t \in Token
    BY RayPoolAssumption DEF FreshTokens
  <2>3. leaseToken[w] = NoToken
    BY <1>3 DEF AcquireLease
  <2>4. ASSUME NEW f \in Endpoint, state'[f] = "leased"
        PROVE  \E v \in Worker : HoldsLease(v)' /\ leaseEndpoint'[v] = f
    <3>1. CASE f = e
      BY <2>1, <2>2, <3>1 DEF Lease
    <3>2. CASE f # e
      <4>1. PICK v \in Worker : HoldsLease(v) /\ leaseEndpoint[v] = f
        BY <2>1, <2>4, <3>2 DEF Lease
      <4>2. v # w
        BY <2>3, <4>1
      <4>3. QED
        BY <2>1, <3>2, <4>1, <4>2 DEF Lease
    <3>3. QED
      BY <3>1, <3>2
  <2>5. QED
    BY <2>4
<1>4. ASSUME NEW w \in Worker, Release(w) \/ Quarantine(w) PROVE LeasedIsHeld'
  BY <1>4 DEF Release, Quarantine, leaseVars
<1>5. ASSUME NEW w \in Worker, QuarantineSchedule(w) PROVE LeasedIsHeld'
  BY <1>5 DEF QuarantineSchedule, leaseVars
<1>6. ASSUME NEW e \in Endpoint, BootSchedule(e) PROVE LeasedIsHeld'
  BY <1>6 DEF BootSchedule, leaseVars
<1>7. ASSUME NEW e \in Endpoint, RecoveryEnds(e) PROVE LeasedIsHeld'
  BY <1>7 DEF RecoveryEnds, leaseVars
<1>8. CASE UNCHANGED <<containerVars, leaseVars>>
  BY <1>8 DEF containerVars, leaseVars
<1>9. QED
  BY <1>1, <1>2, <1>3, <1>4, <1>5, <1>6, <1>7, <1>8
     DEF Next, Serve, vars, containerVars, leaseVars, AcquireFails,
         AcquireWaits, TimesOut, QuarantineMark, QuarantineMarkFails,
         BeginInitialization, WaitInitialization, EndInitialization,
         BeginTeardown, WaitTeardown, EndTeardown, RecoveryBegins,
         RecoverySucceeds, RecoveryFails

-----------------------------------------------------------------------------
(* Quarantine and its durable record *)

LEMMA QuarantineNext == ServiceInv /\ [Next]_vars => QuarantineOwnsContainer'
<1> SUFFICES ASSUME ServiceInv, [Next]_vars PROVE QuarantineOwnsContainer'
  OBVIOUS
<1> USE EndpointType
        DEF ServiceInv, LeaseInv, TypeOK, QuarantineOwnsContainer, Quarantining,
            containerVars, slotVars, recoveryVars, leaseVars
<1>1. CASE Restart
  BY <1>1 DEF Restart
<1>2. ASSUME NEW w \in Worker, AcquireCall(w) PROVE QuarantineOwnsContainer'
  BY <1>2 DEF AcquireCall
<1>3. ASSUME NEW w \in Worker, AcquireLease(w) PROVE QuarantineOwnsContainer'
  <2>1. PICK e \in Endpoint, t \in FreshTokens :
               e \in LeaseCandidates(state) /\ Lease(w, e, t)
    BY <1>3 DEF AcquireLease, FirstOf
  <2>2. state[e] = "available"
    BY <2>1, CandidatesAreAvailable
  <2>3. QED
    BY <1>3, <2>1, <2>2 DEF AcquireLease, Lease
<1>4. ASSUME NEW w \in Worker, AcquireFails(w) \/ AcquireWaits(w) \/ TimesOut(w)
      PROVE  QuarantineOwnsContainer'
  BY <1>4 DEF AcquireFails, AcquireWaits, TimesOut
<1>5. ASSUME NEW w \in Worker, Release(w) PROVE QuarantineOwnsContainer'
  BY <1>5 DEF Release, HoldsLease
<1>6. ASSUME NEW w \in Worker, Quarantine(w) PROVE QuarantineOwnsContainer'
  BY <1>6 DEF Quarantine, HoldsLease
<1>7. ASSUME NEW w \in Worker, QuarantineMark(w) \/ QuarantineMarkFails(w)
      PROVE  QuarantineOwnsContainer'
  <2>1. CASE QuarantineMark(w)
    BY <2>1 DEF QuarantineMark
  <2>2. CASE QuarantineMarkFails(w)
    BY <2>2 DEF QuarantineMarkFails
  <2>3. QED
    BY <1>7, <2>1, <2>2
<1>8. ASSUME NEW w \in Worker, QuarantineSchedule(w)
      PROVE  QuarantineOwnsContainer'
  <2> DEFINE busy == task[leaseEndpoint[w]] # "none"
                     \/ state[leaseEndpoint[w]] = "leased"
  <2>1. CASE busy
    BY <1>8, <2>1 DEF QuarantineSchedule
  <2>2. CASE ~busy
    <3>1. /\ leaseEndpoint[w] \in Endpoint
          /\ \A v \in Worker \ {w} :
               Quarantining(v) => leaseEndpoint[v] # leaseEndpoint[w]
      BY <1>8 DEF QuarantineSchedule
    <3>2. /\ UNCHANGED <<leaseEndpoint, durable>>
          /\ call' = [call EXCEPT ![w] = "none"]
          /\ state' = [state EXCEPT ![leaseEndpoint[w]] = "recovering"]
      BY <1>8, <2>2 DEF QuarantineSchedule
    <3>3. QED
      BY <3>1, <3>2
  <2>3. QED
    BY <2>1, <2>2
<1>9. ASSUME NEW w \in Worker,
             \/ BeginInitialization(w)
             \/ WaitInitialization(w)
             \/ EndInitialization(w)
             \/ BeginTeardown(w)
             \/ WaitTeardown(w)
             \/ EndTeardown(w)
      PROVE  QuarantineOwnsContainer'
  BY <1>9 DEF BeginInitialization, WaitInitialization, EndInitialization,
              BeginTeardown, WaitTeardown, EndTeardown
<1>10. ASSUME NEW e \in Endpoint, BootSchedule(e) PROVE QuarantineOwnsContainer'
  BY <1>10 DEF BootSchedule, BootIsQuarantined
<1>11. ASSUME NEW e \in Endpoint,
              \/ RecoveryBegins(e)
              \/ RecoverySucceeds(e)
              \/ RecoveryFails(e)
              \/ RecoveryEnds(e)
       PROVE  QuarantineOwnsContainer'
  <2>1. \A w \in Worker : Quarantining(w) => leaseEndpoint[w] # e
    BY <1>11 DEF RecoveryBegins, RecoverySucceeds, RecoveryFails, RecoveryEnds,
                 RecoveryOwnsContainer
  <2>2. CASE RecoveryBegins(e) \/ RecoverySucceeds(e) \/ RecoveryFails(e)
    <3>1. /\ UNCHANGED <<state, call, leaseEndpoint>>
          /\ \A f \in Endpoint \ {e} : durable'[f] = durable[f]
      BY <2>2 DEF RecoveryBegins, RecoverySucceeds, RecoveryFails
    <3>2. QED
      BY <2>1, <3>1
  <2>3. CASE RecoveryEnds(e)
    BY <2>1, <2>3 DEF RecoveryEnds
  <2>4. QED
    BY <1>11, <2>2, <2>3
<1>12. CASE UNCHANGED vars
  BY <1>12 DEF vars
<1>13. QED
  BY <1>1, <1>2, <1>3, <1>4, <1>5, <1>6, <1>7, <1>8, <1>9, <1>10, <1>11, <1>12
     DEF Next, Serve

LEMMA DurableNext == ServiceInv /\ [Next]_vars => DurableQuarantine'
<1> SUFFICES ASSUME ServiceInv, [Next]_vars PROVE DurableQuarantine'
  OBVIOUS
<1> USE DEF ServiceInv, LeaseInv, TypeOK, DurableQuarantine, FileLags, MarkPending,
            OutOfService, containerVars, slotVars, recoveryVars, leaseVars
<1>1. CASE Restart
  BY <1>1 DEF Restart, BootState
<1>2. ASSUME NEW w \in Worker, AcquireCall(w) PROVE DurableQuarantine'
  BY <1>2 DEF AcquireCall
<1>3. ASSUME NEW w \in Worker, AcquireLease(w) PROVE DurableQuarantine'
  BY <1>3 DEF AcquireLease, Lease
<1>4. ASSUME NEW w \in Worker, AcquireFails(w) \/ AcquireWaits(w)
      PROVE  DurableQuarantine'
  BY <1>4 DEF AcquireFails, AcquireWaits
<1>5. ASSUME NEW w \in Worker, TimesOut(w) PROVE DurableQuarantine'
  BY <1>5 DEF TimesOut, NoLostWakeup
<1>6. ASSUME NEW w \in Worker, Release(w) PROVE DurableQuarantine'
  BY <1>6 DEF Release, HoldsLease
<1>7. ASSUME NEW w \in Worker, Quarantine(w) PROVE DurableQuarantine'
  BY <1>7 DEF Quarantine, HoldsLease
<1>8. ASSUME NEW w \in Worker, QuarantineMark(w) \/ QuarantineMarkFails(w)
      PROVE  DurableQuarantine'
  BY <1>8 DEF QuarantineMark, QuarantineMarkFails
<1>9. ASSUME NEW w \in Worker, QuarantineSchedule(w) PROVE DurableQuarantine'
  BY <1>9 DEF QuarantineSchedule, QuarantineOwnsContainer, Quarantining
<1>10. ASSUME NEW w \in Worker,
              \/ BeginInitialization(w)
              \/ WaitInitialization(w)
              \/ EndInitialization(w)
              \/ BeginTeardown(w)
              \/ WaitTeardown(w)
              \/ EndTeardown(w)
       PROVE  DurableQuarantine'
  BY <1>10 DEF BeginInitialization, WaitInitialization, EndInitialization,
               BeginTeardown, WaitTeardown, EndTeardown
<1>11. ASSUME NEW e \in Endpoint, BootSchedule(e) PROVE DurableQuarantine'
  BY <1>11 DEF BootSchedule, BootIsQuarantined
<1>12. ASSUME NEW e \in Endpoint,
              \/ RecoveryBegins(e)
              \/ RecoverySucceeds(e)
              \/ RecoveryFails(e)
       PROVE  DurableQuarantine'
  BY <1>12 DEF RecoveryBegins, RecoverySucceeds, RecoveryFails
<1>13. ASSUME NEW e \in Endpoint, RecoveryEnds(e) PROVE DurableQuarantine'
  BY <1>13 DEF RecoveryEnds, RecoveryOwnsContainer, QuarantineOwnsContainer,
               Quarantining
<1>14. CASE UNCHANGED vars
  BY <1>14 DEF vars
<1>15. QED
  BY <1>1, <1>2, <1>3, <1>4, <1>5, <1>6, <1>7, <1>8, <1>9, <1>10, <1>11, <1>12,
     <1>13, <1>14
     DEF Next, Serve

LEMMA ServiceInvNext == ServiceInv /\ [Next]_vars => ServiceInv'
BY LeaseInvNext, SlotsNext, WakeupNext, HeldNext, QuarantineNext, DurableNext
   DEF ServiceInv, LeaseInv

LEMMA ServiceInvHolds == Spec => []ServiceInv
BY ServiceInvInit, ServiceInvNext, PTL DEF Spec

\* No lease is lost: every leased container is held by a worker that can give
\* it back.
THEOREM LeasesHeld == Spec => []LeasedIsHeld
<1>1. ServiceInv => LeasedIsHeld
  BY DEF ServiceInv
<1>2. QED
  BY <1>1, ServiceInvHolds, PTL

\* Whoever comes to schedule a recovery starts one: the early return for a task
\* that is not done, and the error on a leased container, are not met.
QuarantineHandsOver ==
  [][\A w \in Worker : QuarantineSchedule(w) =>
       /\ task[leaseEndpoint[w]] = "none" /\ task'[leaseEndpoint[w]] = "queued"
       /\ state'[leaseEndpoint[w]] = "recovering"]_vars

\* No quarantine that has made its mark comes to nothing.
THEOREM QuarantinesRecover == Spec => QuarantineHandsOver
<1>1. ServiceInv =>
        \A w \in Worker : QuarantineSchedule(w) =>
          /\ task[leaseEndpoint[w]] = "none" /\ task'[leaseEndpoint[w]] = "queued"
          /\ state'[leaseEndpoint[w]] = "recovering"
  <2> SUFFICES ASSUME ServiceInv, NEW w \in Worker, QuarantineSchedule(w)
               PROVE  /\ task[leaseEndpoint[w]] = "none"
                      /\ task'[leaseEndpoint[w]] = "queued"
                      /\ state'[leaseEndpoint[w]] = "recovering"
    OBVIOUS
  <2> DEFINE e == leaseEndpoint[w]
  <2>1. e \in Endpoint /\ state[e] = "quarantined"
    BY DEF ServiceInv, QuarantineOwnsContainer, Quarantining, QuarantineSchedule
  <2>2. task[e] = "none"
    BY <2>1 DEF ServiceInv, LeaseInv, RecoveryOwnsContainer
  <2>3. QED
    BY <2>1, <2>2 DEF ServiceInv, LeaseInv, TypeOK, QuarantineSchedule
<1>2. QED
  BY <1>1, ServiceInvHolds, PTL DEF Spec, QuarantineHandsOver

-----------------------------------------------------------------------------
(* No circle of waiters.  Restart is always possible, so that a run of the  *)
(* model never deadlocks; what follows says it of the pool's own steps.     *)

\* Who owns a slot is not waiting for another.
SlotOwnersRun ==
  \A w \in Worker : HoldsLease(w) /\ OwnsSlot(w) => Running(w)

LEMMA SlotOwnersNext ==
  ServiceInv /\ SlotOwnersRun /\ [Next]_vars => SlotOwnersRun'
<1> SUFFICES ASSUME ServiceInv, SlotOwnersRun, [Next]_vars
             PROVE  SlotOwnersRun'
  OBVIOUS
<1> USE DEF SlotOwnersRun, OwnsSlot, Running, HoldsLease, ServiceInv, LeaseInv,
            TypeOK, containerVars, slotVars, leaseVars
<1>1. CASE asleep' = {}
  BY <1>1
<1>2. ASSUME NEW w \in Worker, AcquireLease(w) PROVE SlotOwnersRun'
  <2>1. PICK e \in Endpoint, t \in FreshTokens :
               e \in LeaseCandidates(state) /\ Lease(w, e, t)
    BY <1>2 DEF AcquireLease, FirstOf
  <2>2. state[e] = "available" /\ t \notin initializing \cup tearingDown
    BY <2>1, CandidatesAreAvailable DEF FreshTokens, KnownTokens
  <2>3. QED
    BY <1>2, <2>1, <2>2 DEF AcquireLease, Lease, LeaseBooks
<1>3. ASSUME NEW w \in Worker,
             \/ AcquireCall(w)
             \/ AcquireFails(w)
             \/ AcquireWaits(w)
             \/ TimesOut(w)
      PROVE  SlotOwnersRun'
  BY <1>3, RayPoolAssumption
     DEF AcquireCall, AcquireFails, AcquireWaits, TimesOut, LeaseBooks
<1>4. ASSUME NEW w \in Worker,
             \/ QuarantineMark(w)
             \/ QuarantineMarkFails(w)
             \/ QuarantineSchedule(w)
      PROVE  SlotOwnersRun'
  <2>1. CASE UNCHANGED <<state, token, initializing, tearingDown, asleep,
                         leaseEndpoint, leaseToken>>
    BY <2>1
  <2>2. CASE QuarantineMark(w) \/ QuarantineMarkFails(w)
    BY <2>1, <2>2 DEF QuarantineMark, QuarantineMarkFails
  <2>3. CASE QuarantineSchedule(w)
    BY <1>1, <2>1, <2>3 DEF QuarantineSchedule, WakeAll
  <2>4. QED
    BY <1>4, <2>2, <2>3
<1>5. ASSUME NEW w \in Worker,
             \/ BeginInitialization(w)
             \/ WaitInitialization(w)
             \/ BeginTeardown(w)
             \/ WaitTeardown(w)
      PROVE  SlotOwnersRun'
  BY <1>5
     DEF BeginInitialization, WaitInitialization, BeginTeardown, WaitTeardown,
         LeaseBooks
<1>6. ASSUME NEW e \in Endpoint,
             \/ RecoveryBegins(e)
             \/ RecoverySucceeds(e)
             \/ RecoveryFails(e)
             \/ RecoveryEnds(e)
      PROVE  SlotOwnersRun'
  BY <1>1, <1>6
     DEF RecoveryBegins, RecoverySucceeds, RecoveryFails, RecoveryEnds, WakeAll
<1>7. CASE UNCHANGED vars
  BY <1>7 DEF vars
<1>8. QED
  BY <1>1, <1>2, <1>3, <1>4, <1>5, <1>6, <1>7
     DEF Next, Serve, Restart, Release, Quarantine, EndInitialization,
         EndTeardown, BootSchedule, WakeAll

LEMMA SlotTaken ==
  ASSUME ServiceInv, SlotOwnersRun, NEW S, NEW limit \in Nat \ {0},
         S = initializing \/ S = tearingDown, Cardinality(S) >= limit
  PROVE  \E w \in Worker : HoldsLease(w) /\ Running(w)
<1>1. S # {}
  BY FS_EmptySet
<1>2. PICK t \in S, e \in Endpoint : state[e] = "leased" /\ token[e] = t
  BY <1>1 DEF ServiceInv, SlotsInv, SlotsSound
<1>3. PICK w \in Worker : HoldsLease(w) /\ leaseEndpoint[w] = e
  BY <1>2 DEF ServiceInv, LeasedIsHeld
<1>4. OwnsSlot(w)
  BY <1>2, <1>3 DEF HoldsLease, OwnsSlot
<1>5. QED
  BY <1>3, <1>4 DEF SlotOwnersRun

\* The pool's waits never form a circle: acquirers wait for holders or for a
\* recovery, slot waiters for slot owners, and these wait for nobody.
THEOREM NoCircularWait == Spec => []SomebodyMoves
<1>1. Init => SlotOwnersRun
  BY DEF Init, SlotOwnersRun, Running
<1>2. ServiceInv /\ SlotOwnersRun => SomebodyMoves
  <2> SUFFICES ASSUME ServiceInv, SlotOwnersRun, NEW w \in asleep
               PROVE  \/ \E v \in Worker : HoldsLease(v) /\ Running(v)
                      \/ \E e \in Endpoint : task[e] # "none"
    BY DEF SomebodyMoves
  <2>1. /\ InitLimit \in Nat \ {0} /\ TeardownLimit \in Nat \ {0}
        /\ NActive \in Nat \ {0}
    BY RayPoolAssumption, PoolSizeAssumption
  <2>2. ASSUME NEW v \in asleep, call[v] # "acquire"
        PROVE  \E u \in Worker : HoldsLease(u) /\ Running(u)
    BY <2>1, <2>2, SlotTaken DEF ServiceInv, NoLostWakeup
  <2>3. CASE BelowCapacity(state) /\ SomeRecovering(state)
    BY <2>3
       DEF SomeRecovering, ServiceInv, LeaseInv, RecoveryOwnsContainer
  <2>4. CASE call[w] = "acquire" /\ Cardinality(Leased(state)) >= NActive
    <3>1. Leased(state) # {}
      BY <2>1, <2>4, FS_EmptySet
    <3>2. PICK e \in Endpoint : state[e] = "leased"
      BY <3>1 DEF Leased
    <3>3. PICK v \in Worker : HoldsLease(v)
      BY <3>2 DEF ServiceInv, LeasedIsHeld
    <3>4. call[v] # "acquire"
      BY <3>3 DEF ServiceInv, LeaseInv, LeaseBooks, HoldsLease
    <3>5. QED
      BY <2>2, <3>3, <3>4 DEF Running
  <2>5. QED
    BY <2>2, <2>3, <2>4 DEF ServiceInv, NoLostWakeup
<1>3. QED
  BY <1>1, <1>2, SlotOwnersNext, ServiceInvHolds, PTL DEF Spec

-----------------------------------------------------------------------------
(* The durable file as its readers see it: EndpointLifecycle.  The file of  *)
(* a container in service says so, and that of one in recovery tells how    *)
(* far the recovery is; without a recovery the pool never writes to it.     *)

Lifecycle == INSTANCE EndpointLifecycle WITH record <- durable

FileLifecycle == Lifecycle!Spec

InUse(e) == state[e] \in {"available", "leased"}

FileFollows ==
  /\ LostIsOut
  /\ \A e \in booting : ~lost[e]
  /\ \A e \in Endpoint :
       /\ RecoveryEnabled /\ InUse(e) => durable[e] = "available"
       /\ MarkPending(e) => durable[e] = "available"
       /\ task[e] = "restarting" => durable[e] = "recovering"
       /\ task[e] = "succeeded" => durable[e] = "available"
  /\ ~RecoveryEnabled =>
       /\ booting = {}
       /\ \A w \in Worker : ~Quarantining(w)
       /\ \A e \in Endpoint : task[e] = "none"

FileInv == ServiceInv /\ FileFollows

LEMMA FileInit == Init => FileFollows
BY DEF Init, FileFollows, LostIsOut, BootState, BootQueue, InUse, MarkPending,
       Quarantining

\* What a call does to the file: only the mark of a quarantine writes to it.
LEMMA FileCalls ==
  ASSUME FileInv, NEW w \in Worker,
         \/ AcquireCall(w)
         \/ AcquireLease(w)
         \/ AcquireFails(w)
         \/ AcquireWaits(w)
         \/ TimesOut(w)
         \/ Release(w)
         \/ Quarantine(w)
         \/ QuarantineSchedule(w)
         \/ BeginInitialization(w)
         \/ WaitInitialization(w)
         \/ EndInitialization(w)
         \/ BeginTeardown(w)
         \/ WaitTeardown(w)
         \/ EndTeardown(w)
  PROVE  FileFollows' /\ durable' = durable
<1> USE DEF FileInv, ServiceInv, LeaseInv, TypeOK, FileFollows, InUse, MarkPending,
            Quarantining, LostIsOut, containerVars, slotVars, recoveryVars, leaseVars
<1>1. CASE AcquireCall(w)
  BY <1>1 DEF AcquireCall
<1>2. CASE AcquireLease(w)
  BY <1>2, CandidatesAreAvailable DEF AcquireLease, Lease, FirstOf
<1>3. CASE AcquireFails(w) \/ AcquireWaits(w) \/ TimesOut(w)
  BY <1>3 DEF AcquireFails, AcquireWaits, TimesOut
<1>4. CASE Release(w)
  BY <1>4 DEF Release, HoldsLease
<1>5. CASE Quarantine(w)
  BY <1>5 DEF Quarantine, HoldsLease
<1>6. CASE QuarantineSchedule(w)
  BY <1>6 DEF QuarantineSchedule, QuarantineOwnsContainer
<1>7. CASE \/ BeginInitialization(w)
           \/ WaitInitialization(w)
           \/ EndInitialization(w)
           \/ BeginTeardown(w)
           \/ WaitTeardown(w)
           \/ EndTeardown(w)
  BY <1>7 DEF BeginInitialization, WaitInitialization, EndInitialization,
              BeginTeardown, WaitTeardown, EndTeardown
<1>8. QED
  BY <1>1, <1>2, <1>3, <1>4, <1>5, <1>6, <1>7

\* The mark finds the file still saying "available".
LEMMA MarkWithdraws ==
  ASSUME FileInv, NEW w \in Worker, QuarantineMark(w)
  PROVE  FileFollows' /\ Lifecycle!Withdraw(leaseEndpoint[w])
<1> DEFINE e == leaseEndpoint[w]
<1>1. /\ call[w] = "mark"
      /\ call' = [call EXCEPT ![w] = "schedule"]
      /\ durable' = [durable EXCEPT ![e] = "quarantined"]
      /\ lost' = [lost EXCEPT ![e] = FALSE]
      /\ UNCHANGED <<state, task, booting, leaseEndpoint>>
  BY DEF QuarantineMark, containerVars, leaseVars
<1>2. /\ call \in [Worker -> CallState]
      /\ durable \in [Endpoint -> DurableState]
      /\ lost \in [Endpoint -> BOOLEAN]
      /\ booting \in SUBSET Endpoint
  BY DEF FileInv, ServiceInv, LeaseInv, TypeOK
<1>3. /\ e \in Endpoint /\ state[e] = "quarantined" /\ task[e] = "none"
      /\ \A v \in Worker \ {w} : call[v] = "mark" => leaseEndpoint[v] # e
  BY <1>1
     DEF FileInv, ServiceInv, LeaseInv, QuarantineOwnsContainer, Quarantining,
         RecoveryOwnsContainer
<1>4. Lifecycle!Withdraw(e)
  BY <1>1, <1>3 DEF FileInv, FileFollows, MarkPending, Lifecycle!Withdraw
<1>5. ASSUME NEW f \in Endpoint
      PROVE  /\ (RecoveryEnabled /\ InUse(f))' => durable'[f] = "available"
             /\ MarkPending(f)' => durable'[f] = "available"
             /\ task'[f] = "restarting" => durable'[f] = "recovering"
             /\ task'[f] = "succeeded" => durable'[f] = "available"
  BY <1>1, <1>2, <1>3 DEF FileInv, FileFollows, InUse, MarkPending
<1>6. LostIsOut' /\ \A f \in booting' : ~lost'[f]
  BY <1>1, <1>2 DEF FileInv, FileFollows, LostIsOut
<1>7. FileFollows'
  BY <1>1, <1>2, <1>5, <1>6 DEF FileInv, FileFollows, Quarantining
<1>8. QED
  BY <1>4, <1>7

\* A mark that raises leaves the file and the quarantine as they are.
LEMMA MarkLost ==
  ASSUME FileInv, NEW w \in Worker, QuarantineMarkFails(w)
  PROVE  FileFollows' /\ durable' = durable
<1> DEFINE e == leaseEndpoint[w]
<1>1. /\ call[w] = "mark"
      /\ call' = [call EXCEPT ![w] = "none"]
      /\ lost' = [lost EXCEPT ![e] = TRUE]
      /\ UNCHANGED <<state, task, durable, booting, leaseEndpoint>>
  BY DEF QuarantineMarkFails, containerVars, leaseVars
<1>2. /\ call \in [Worker -> CallState]
      /\ lost \in [Endpoint -> BOOLEAN]
  BY DEF FileInv, ServiceInv, LeaseInv, TypeOK
<1>3. /\ e \in Endpoint /\ state[e] = "quarantined" /\ task[e] = "none"
      /\ durable[e] = "available" /\ booting = {}
  BY <1>1
     DEF FileInv, ServiceInv, LeaseInv, QuarantineOwnsContainer, Quarantining,
         RecoveryOwnsContainer, BootIsQuarantined, FileFollows, MarkPending
<1>4. LostIsOut' /\ \A f \in booting' : ~lost'[f]
  BY <1>1, <1>2, <1>3 DEF FileInv, FileFollows, LostIsOut
<1>5. FileFollows'
  BY <1>1, <1>2, <1>4
     DEF FileInv, FileFollows, InUse, MarkPending, Quarantining
<1>6. QED
  BY <1>1, <1>5

\* A recovery writes the verdicts of a record it has made "recovering".
LEMMA RecoveryRecords ==
  ASSUME FileInv, NEW e \in Endpoint,
         \/ BootSchedule(e)
         \/ RecoveryBegins(e)
         \/ RecoverySucceeds(e)
         \/ RecoveryFails(e)
         \/ RecoveryEnds(e)
  PROVE  /\ FileFollows'
         /\ \/ Lifecycle!Attempt(e)
            \/ Lifecycle!Conclude(e)
            \/ durable' = durable
<1> DEFINE follows(f) ==
      /\ RecoveryEnabled /\ InUse(f) => durable[f] = "available"
      /\ MarkPending(f) => durable[f] = "available"
      /\ task[f] = "restarting" => durable[f] = "recovering"
      /\ task[f] = "succeeded" => durable[f] = "available"
<1>1. /\ task \in [Endpoint -> TaskState]
      /\ durable \in [Endpoint -> DurableState]
      /\ state \in [Endpoint -> ContainerState \ {"retired"}]
      /\ \A f \in Endpoint : follows(f)
  BY DEF FileInv, ServiceInv, LeaseInv, TypeOK, FileFollows
<1>2. /\ state[e] \in {"quarantined", "recovering"}
      /\ RecoveryEnabled
      /\ UNCHANGED <<call, leaseEndpoint>> /\ booting' \subseteq booting
  BY DEF FileInv, ServiceInv, LeaseInv, FileFollows, BootIsQuarantined,
         RecoveryOwnsContainer, BootSchedule, RecoveryBegins, RecoverySucceeds,
         RecoveryFails, RecoveryEnds, leaseVars
<1>3. MarkPending(e) => state[e] = "quarantined"
  BY DEF FileInv, ServiceInv, QuarantineOwnsContainer, Quarantining, MarkPending
<1> DEFINE keeps == LostIsOut' /\ \A f \in booting' : ~lost'[f]
<1>0. keeps
  <2>1. ~lost[e] /\ lost' = lost
    BY DEF FileInv, FileFollows, LostIsOut, BootSchedule, RecoveryBegins,
           RecoverySucceeds, RecoveryFails, RecoveryEnds
  <2>2. \A f \in Endpoint \ {e} :
          state'[f] = state[f] /\ task'[f] = task[f] /\ durable'[f] = durable[f]
    BY <1>1
       DEF BootSchedule, RecoveryBegins, RecoverySucceeds, RecoveryFails,
           RecoveryEnds, containerVars
  <2>3. QED
    BY <1>2, <2>1, <2>2 DEF FileInv, FileFollows, LostIsOut
<1>4. CASE BootSchedule(e)
  BY <1>1, <1>2, <1>4, <1>0 DEF BootSchedule, FileFollows, InUse, MarkPending
<1>5. CASE RecoveryBegins(e)
  <2>1. state[e] = "recovering" /\ durable[e] # "available"
    BY <1>2, <1>3, <1>5
       DEF RecoveryBegins, FileInv, ServiceInv, LeaseInv, RecoveryOwnsContainer,
           DurableQuarantine, FileFollows, FileLags, LostIsOut, OutOfService
  <2>2. Lifecycle!Attempt(e)
    BY <1>5, <2>1 DEF RecoveryBegins, Lifecycle!Attempt
  <2>3. FileFollows'
    BY <1>1, <1>2, <1>3, <1>5, <1>0, <2>1
       DEF RecoveryBegins, FileFollows, InUse, MarkPending, containerVars
  <2>4. QED
    BY <2>2, <2>3
<1>6. CASE RecoverySucceeds(e) \/ RecoveryFails(e)
  <2>1. /\ state[e] = "recovering"
        /\ task[e] # "queued" => durable[e] = "recovering"
    BY <1>1, <1>6
       DEF RecoverySucceeds, RecoveryFails, FileInv, ServiceInv, LeaseInv,
           RecoveryOwnsContainer
  <2>2. Lifecycle!Conclude(e) \/ durable' = durable
    BY <1>6, <2>1 DEF RecoverySucceeds, RecoveryFails, Lifecycle!Conclude
  <2>3. FileFollows'
    BY <1>1, <1>2, <1>3, <1>6, <1>0, <2>1
       DEF RecoverySucceeds, RecoveryFails, FileFollows, InUse, MarkPending,
           containerVars
  <2>4. QED
    BY <2>2, <2>3
<1>7. CASE RecoveryEnds(e)
  <2>1. task[e] = "failed" => state'[e] = "quarantined"
    BY <1>1, <1>7
       DEF RecoveryEnds, FileInv, ServiceInv, LeaseInv, RecoveryOwnsContainer
  <2>2. QED
    BY <1>1, <1>2, <1>7, <1>0, <2>1
       DEF RecoveryEnds, FileFollows, InUse, MarkPending
<1>8. QED
  BY <1>4, <1>5, <1>6, <1>7

LEMMA FileStep ==
  FileInv /\ [Next]_vars => FileFollows' /\ [Lifecycle!Next]_durable
<1> SUFFICES ASSUME FileInv, [Next]_vars
             PROVE  FileFollows' /\ (Lifecycle!Next \/ durable' = durable)
  OBVIOUS
<1>1. CASE Restart
  BY <1>1
     DEF Restart, FileFollows, LostIsOut, BootState, BootQueue, InUse,
         MarkPending, Quarantining
<1>2. ASSUME NEW w \in Worker, QuarantineMark(w)
      PROVE  FileFollows' /\ Lifecycle!Next
  <2>1. leaseEndpoint[w] \in Endpoint
    BY <1>2
       DEF FileInv, ServiceInv, QuarantineOwnsContainer, Quarantining,
           QuarantineMark
  <2>2. QED
    BY <1>2, <2>1, MarkWithdraws DEF Lifecycle!Next
<1>3. CASE UNCHANGED vars
  BY <1>3
     DEF FileInv, FileFollows, LostIsOut, InUse, MarkPending, Quarantining, vars
<1>4. QED
  BY <1>1, <1>2, <1>3, FileCalls, MarkLost, RecoveryRecords
     DEF Next, Serve, Lifecycle!Next

LEMMA FileInvHolds == Spec => []FileInv
<1>1. Init => FileInv
  BY FileInit, ServiceInvInit DEF FileInv
<1>2. FileInv /\ [Next]_vars => FileInv'
  BY FileStep, ServiceInvNext DEF FileInv
<1>3. QED
  BY <1>1, <1>2, PTL DEF Spec

\* A quarantine whose mark raised is stranded: nobody recovers its container,
\* and the file, which says "available", is all that could bring it back.
THEOREM LostMarksStrand == Spec => []LostIsOut
BY FileInvHolds, PTL DEF FileInv, FileFollows

\* What comes back into service at a restart, to the container: what was in
\* service when the process died, and the containers of which the file lags.
\* The first needs the file to say "available" of every container in use, the
\* second that it says so of every container of which it lags, and of no other
\* that is out.
THEOREM QuarantineSurvivesRestart == Spec => RestartKeepsQuarantine
<1>1. ASSUME FileInv, RecoveryEnabled, NEW e \in Endpoint
      PROVE  durable[e] = "available" <=>
               ~(state[e] \in OutOfService /\ ~FileLags(e))
  <2>1. CASE state[e] \in OutOfService
    <3>1. FileLags(e) => durable[e] = "available"
      <4>1. /\ MarkPending(e) => durable[e] = "available"
            /\ task[e] = "succeeded" => durable[e] = "available"
        BY <1>1 DEF FileInv, FileFollows
      <4>2. lost[e] => durable[e] = "available"
        BY <1>1 DEF FileInv, FileFollows, LostIsOut
      <4>3. QED
        BY <4>1, <4>2 DEF FileLags
    <3>2. durable[e] = "available" => FileLags(e)
      BY <1>1, <2>1 DEF FileInv, ServiceInv, DurableQuarantine
    <3>3. QED
      BY <2>1, <3>1, <3>2
  <2>2. CASE state[e] \notin OutOfService
    BY <1>1, <2>2
       DEF FileInv, FileFollows, ServiceInv, LeaseInv, TypeOK, InUse,
           ContainerState, OutOfService
  <2>3. QED
    BY <2>1, <2>2
<1>2. FileInv /\ Restart =>
        \A e \in Endpoint : RecoveryEnabled =>
          (state'[e] \in OutOfService <=>
             state[e] \in OutOfService /\ ~FileLags(e))
  <2> SUFFICES ASSUME FileInv, Restart, RecoveryEnabled, NEW e \in Endpoint
               PROVE  state'[e] \in OutOfService <=>
                        state[e] \in OutOfService /\ ~FileLags(e)
    OBVIOUS
  <2>1. state'[e] \in OutOfService <=> durable[e] # "available"
    BY DEF Restart, BootState, OutOfService
  <2>2. QED
    BY <1>1, <2>1
<1>3. FileInv /\ [Next]_vars =>
        [Restart => \A e \in Endpoint : RecoveryEnabled =>
           (state'[e] \in OutOfService <=>
              state[e] \in OutOfService /\ ~FileLags(e))]_vars
  BY <1>2
<1>4. QED
  BY <1>3, FileInvHolds, PTL DEF Spec, RestartKeepsQuarantine

\* To the readers of the endpoint file the pool is what EndpointRecovery is:
\* a record leaves "available" once, when its container is withdrawn, and comes
\* back only out of a recovery, whatever the restarts in between.
THEOREM FileImplementsLifecycle == Spec => FileLifecycle
<1>1. Init => Lifecycle!Init
  BY DEF Init, DurableState, Lifecycle!Init, Lifecycle!RecordState
<1>2. QED
  BY <1>1, FileStep, FileInvHolds, PTL DEF Spec, FileLifecycle, Lifecycle!Spec

-----------------------------------------------------------------------------
(* RayPool implements LeaseService.  What a step does to the owners follows *)
(* from what it does to the states and the leases: OwnerIs reads the owner  *)
(* off them, so that no proof below looks at the CHOOSE in Owner.           *)

owner == Owner("free", "out")

HolderOf(e, w) == HoldsLease(w) /\ leaseEndpoint[w] = e

OwnersRead ==
  \A e \in Endpoint :
    /\ state[e] = "available" => owner[e] = "free"
    /\ state[e] \in OutOfService => owner[e] = "out"
    /\ \A w \in Worker : HolderOf(e, w) => owner[e] = w
    /\ state[e] = "leased" => \E w \in Worker : HolderOf(e, w)

LEMMA OwnersAre == ServiceInv => OwnersRead
<1> SUFFICES ASSUME ServiceInv, NEW e \in Endpoint
             PROVE  /\ state[e] = "available" => owner[e] = "free"
                    /\ state[e] \in OutOfService => owner[e] = "out"
                    /\ \A w \in Worker : HolderOf(e, w) => owner[e] = w
                    /\ state[e] = "leased" => \E w \in Worker : HolderOf(e, w)
  BY DEF OwnersRead
<1> USE DEF owner, Owner
<1>1. state[e] = "available" => owner[e] = "free"
  OBVIOUS
<1>2. state[e] \in OutOfService => owner[e] = "out"
  BY DEF OutOfService
<1>3. ASSUME NEW w \in Worker, HolderOf(e, w) PROVE owner[e] = w
  <2>1. state[e] = "leased"
    BY <1>3 DEF HolderOf, HoldsLease
  <2>2. owner[e] = CHOOSE v \in Worker : HoldsLease(v) /\ leaseEndpoint[v] = e
    BY <2>1
  <2>3. \A v \in Worker : HoldsLease(v) /\ leaseEndpoint[v] = e => v = w
    BY <1>3 DEF HolderOf, ServiceInv, LeaseInv, LeaseBooks, HoldsLease
  <2>4. QED
    BY <1>3, <2>2, <2>3 DEF HolderOf
<1>4. state[e] = "leased" => \E w \in Worker : HolderOf(e, w)
  BY DEF ServiceInv, LeasedIsHeld, HolderOf
<1>5. QED
  BY <1>1, <1>2, <1>3, <1>4

LEMMA OwnersAreNext == ServiceInv' => OwnersRead'
BY OwnersAre, PTL

LEMMA OwnerFunction ==
  /\ owner = [e \in Endpoint |-> owner[e]]
  /\ owner' = [e \in Endpoint |-> owner'[e]]
BY DEF owner, Owner

\* An endpoint that keeps its state and its holders keeps its owner, and so
\* does one that stays out of service.
Kept(e) ==
  \/ state[e] \in OutOfService /\ state'[e] \in OutOfService
  \/ /\ state'[e] = state[e]
     /\ \A w \in Worker : HolderOf(e, w) => HolderOf(e, w)'

LEMMA KeptOwner ==
  ASSUME ServiceInv, ServiceInv', NEW e \in Endpoint, Kept(e)
  PROVE  owner'[e] = owner[e]
<1>1. state[e] = "available" \/ state[e] = "leased" \/ state[e] \in OutOfService
  BY DEF ServiceInv, LeaseInv, TypeOK, ContainerState, OutOfService
<1>2. QED
  BY <1>1, OwnersAre, OwnersAreNext DEF Kept, OwnersRead

LEMMA OwnerUpdate ==
  ASSUME ServiceInv, ServiceInv', NEW e \in Endpoint,
         \A f \in Endpoint \ {e} : Kept(f)
  PROVE  owner' = [owner EXCEPT ![e] = owner'[e]]
<1>1. \A f \in Endpoint \ {e} : owner'[f] = owner[f]
  BY KeptOwner
<1>2. QED
  BY <1>1, OwnerFunction

LEMMA OwnerStutter ==
  ASSUME ServiceInv, ServiceInv', \A f \in Endpoint : Kept(f)
  PROVE  owner' = owner
BY KeptOwner, OwnerFunction

LEMMA OwnedIsLeased ==
  ASSUME ServiceInv
  PROVE  {e \in Endpoint : owner[e] \in Worker} = Leased(state)
<1>1. \A e \in Endpoint : state[e] # "leased" => owner[e] \in {"free", "out"}
  BY OwnersAre
     DEF OwnersRead, ServiceInv, LeaseInv, TypeOK, ContainerState, OutOfService
<1>2. \A e \in Endpoint : state[e] = "leased" => owner[e] \in Worker
  BY OwnersAre DEF OwnersRead
<1>3. QED
  BY <1>1, <1>2, OwnerAssumption DEF Leased

-----------------------------------------------------------------------------
(* Each step of the pool is a step of the service or leaves it alone. *)

LEMMA LeaseIsGrant ==
  ASSUME ServiceInv, ServiceInv', NEW w \in Worker, AcquireLease(w)
  PROVE  \E e \in Endpoint : Service!Grant(e, w)
<1> USE DEF ServiceInv, LeaseInv, TypeOK, LeaseBooks
<1>1. PICK e \in Endpoint, t \in FreshTokens :
             e \in LeaseCandidates(state) /\ Lease(w, e, t)
  BY DEF AcquireLease, FirstOf
<1>2. state[e] = "available" /\ Cardinality(Leased(state)) < NActive
  BY <1>1, CandidatesAreAvailable DEF LeaseCandidates, RoomForLease
<1>3. owner[e] = "free"
  BY <1>2, OwnersAre DEF OwnersRead
<1>4. HolderOf(e, w)'
  BY <1>1 DEF Lease, HolderOf, HoldsLease
<1>5. leaseToken[w] = NoToken
  BY DEF AcquireLease
<1>6. \A f \in Endpoint \ {e} : Kept(f)
  BY <1>1, <1>5 DEF Kept, HolderOf, HoldsLease, Lease
<1>7. owner' = [owner EXCEPT ![e] = w]
  <2>1. owner'[e] = w
    BY <1>4, OwnersAreNext DEF OwnersRead
  <2>2. QED
    BY <1>6, <2>1, OwnerUpdate
<1>8. ASSUME NEW f \in Endpoint, owner[f] = w PROVE FALSE
  <2>1. state[f] = "leased"
    BY <1>8, OwnedIsLeased DEF Leased
  <2>2. PICK v \in Worker : HolderOf(f, v)
    BY <2>1, OwnersAre DEF OwnersRead
  <2>3. v = w
    BY <1>8, <2>2, OwnersAre DEF OwnersRead
  <2>4. QED
    BY <1>5, <2>1, <2>2, <2>3 DEF HolderOf, HoldsLease
<1>9. Cardinality(Service!Owned) < NActive
  <2>1. Service!Owned = {f \in Endpoint : owner[f] \in Worker}
    BY DEF owner, Service!Owned
  <2>2. QED
    BY <1>2, <2>1, OwnedIsLeased
<1>10. Service!Grant(e, w)
  <2>1. Owner("free", "out")[e] = "free"
    BY <1>3 DEF owner
  <2>2. \A f \in Endpoint : Owner("free", "out")[f] # w
    BY <1>8 DEF owner
  <2>3. Owner("free", "out")' = [Owner("free", "out") EXCEPT ![e] = w]
    BY <1>7 DEF owner
  <2>4. Service!Cardinality(Service!Owned) = Cardinality(Service!Owned)
    BY DEF Service!Cardinality, Cardinality
  <2>5. QED
    BY <1>9, <2>1, <2>2, <2>3, <2>4 DEF Service!Grant
<1>11. QED
  BY <1>10

LEMMA GiveBackIsReturn ==
  ASSUME ServiceInv, ServiceInv', NEW w \in Worker,
         Release(w) \/ Quarantine(w)
  PROVE  \E e \in Endpoint : Service!Return(e) \/ Service!Withdraw(e)
<1> USE DEF ServiceInv, LeaseInv, TypeOK, LeaseBooks
<1> DEFINE e == leaseEndpoint[w]
<1>1. e \in Endpoint /\ HolderOf(e, w)
  BY DEF Release, Quarantine, HoldsLease, HolderOf
<1>2. owner[e] \in Worker
  BY <1>1, OwnersAre DEF OwnersRead
<1>3. \A f \in Endpoint \ {e} : Kept(f)
  BY <1>1 DEF Release, Quarantine, Kept, HolderOf, HoldsLease, leaseVars
<1>4. owner' = [owner EXCEPT ![e] = owner'[e]]
  BY <1>1, <1>3, OwnerUpdate
<1>5. owner'[e] \in {"free", "out"}
  BY <1>1, OwnersAreNext DEF OwnersRead, Release, Quarantine, OutOfService
<1>6. QED
  BY <1>1, <1>2, <1>4, <1>5 DEF owner, Service!Return, Service!Withdraw

LEMMA EndIsRestore ==
  ASSUME ServiceInv, ServiceInv', NEW e \in Endpoint, RecoveryEnds(e)
  PROVE  Service!Restore(e) \/ owner' = owner
<1> USE DEF ServiceInv, LeaseInv, TypeOK
<1>1. state[e] = "recovering"
  BY DEF RecoveryEnds, RecoveryOwnsContainer
<1>2. \A f \in Endpoint \ {e} : Kept(f)
  BY DEF RecoveryEnds, Kept, HolderOf, HoldsLease, leaseVars
<1>3. owner' = [owner EXCEPT ![e] = owner'[e]]
  BY <1>2, OwnerUpdate
<1>4. owner[e] = "out"
  BY <1>1, OwnersAre DEF OwnersRead, OutOfService
<1>5. owner'[e] \in {"free", "out"}
  BY <1>1, OwnersAreNext DEF OwnersRead, RecoveryEnds, OutOfService
<1>6. CASE owner'[e] = "free"
  BY <1>3, <1>4, <1>6 DEF owner, Service!Restore
<1>7. CASE owner'[e] = "out"
  BY <1>3, <1>4, <1>7, OwnerFunction
<1>8. QED
  BY <1>5, <1>6, <1>7

LEMMA RestartIsReset ==
  ASSUME ServiceInv, ServiceInv', Restart
  PROVE  Service!Reset
<1>1. \A e \in Endpoint : state'[e] \in {"available", "quarantined"}
  BY DEF Restart, BootState
<1>2. \A e \in Endpoint : owner'[e] \in {"free", "out"}
  BY <1>1, OwnersAreNext DEF OwnersRead, OutOfService
<1>3. owner' \in [Endpoint -> {"free", "out"}]
  BY <1>2, OwnerFunction
<1>4. QED
  BY <1>3 DEF owner, Service!Reset

LEMMA ServiceStep ==
  ServiceInv /\ ServiceInv' /\ [Next]_vars
    => [Service!Next]_(Owner("free", "out"))
<1> SUFFICES ASSUME ServiceInv, ServiceInv', [Next]_vars
             PROVE  Service!Next \/ owner' = owner
  BY DEF owner
<1> USE DEF Service!Next
<1>1. CASE Restart
  BY <1>1, RestartIsReset
<1>2. ASSUME NEW w \in Worker, AcquireLease(w) PROVE Service!Next
  BY <1>2, LeaseIsGrant
<1>3. ASSUME NEW w \in Worker, Release(w) \/ Quarantine(w) PROVE Service!Next
  BY <1>3, GiveBackIsReturn
<1>4. ASSUME NEW e \in Endpoint, RecoveryEnds(e)
      PROVE  Service!Next \/ owner' = owner
  BY <1>4, EndIsRestore
<1>5. CASE \A f \in Endpoint : Kept(f)
  BY <1>5, OwnerStutter
<1>6. ASSUME NEW w \in Worker, QuarantineSchedule(w)
      PROVE  \A f \in Endpoint : Kept(f)
  BY <1>6
     DEF QuarantineSchedule, ServiceInv, LeaseInv, TypeOK,
         QuarantineOwnsContainer, Quarantining, Kept, OutOfService, HolderOf,
         HoldsLease, leaseVars
<1>7. ASSUME NEW e \in Endpoint, BootSchedule(e)
      PROVE  \A f \in Endpoint : Kept(f)
  BY <1>7
     DEF BootSchedule, ServiceInv, LeaseInv, TypeOK, BootIsQuarantined, Kept,
         OutOfService, HolderOf, HoldsLease, leaseVars
<1>8. ASSUME NEW w \in Worker, AcquireCall(w)
      PROVE  \A f \in Endpoint : Kept(f)
  BY <1>8
     DEF AcquireCall, ServiceInv, LeaseInv, TypeOK, Kept, HolderOf, HoldsLease,
         containerVars
<1>9. CASE UNCHANGED <<containerVars, leaseVars>>
  BY <1>9, <1>5 DEF Kept, HolderOf, HoldsLease, containerVars, leaseVars
<1>10. QED
  BY <1>1, <1>2, <1>3, <1>4, <1>5, <1>6, <1>7, <1>8, <1>9
     DEF Next, Serve, vars, containerVars, leaseVars, AcquireFails,
         AcquireWaits, TimesOut, QuarantineMark, QuarantineMarkFails,
         BeginInitialization, WaitInitialization, EndInitialization,
         BeginTeardown, WaitTeardown, EndTeardown, RecoveryBegins,
         RecoverySucceeds, RecoveryFails

LEMMA ServiceInit == Init => Service!Init
<1> SUFFICES ASSUME Init PROVE Service!Init
  OBVIOUS
<1>1. \A e \in Endpoint : state[e] \in {"available", "quarantined"}
  BY DEF Init, BootState
<1>2. \A e \in Endpoint : owner[e] \in {"free", "out"}
  BY <1>1, OwnersAre, ServiceInvInit DEF OwnersRead, OutOfService
<1>3. owner \in [Endpoint -> {"free", "out"}]
  BY <1>2, OwnerFunction
<1>4. QED
  BY <1>3 DEF owner, Service!Init

\* The pool implements LeaseService: whatever its coroutines do, its callers
\* see endpoints that are free, out of service or owned by one worker, change
\* hands only as the service allows, and never exceed its capacity.
THEOREM ImplementsService == Spec => ServiceSpec
BY ServiceInit, ServiceStep, ServiceInvHolds, PTL
   DEF Spec, ServiceSpec, Service!Spec

=============================================================================
