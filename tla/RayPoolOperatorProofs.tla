----------------------- MODULE RayPoolOperatorProofs -----------------------
(***************************************************************************)
(* What survives an operator who declares containers usable at any time.   *)
(*                                                                         *)
(* The two halves of RayPool's LeaseInv that recover() breaks are left out *)
(* of the invariant: a recovery task no longer has its container to itself,*)
(* nor has a quarantine under way.  The books of leases and slots rest on  *)
(* neither.                                                                *)
(***************************************************************************)
EXTENDS RayPoolOperator, RayPoolProofs

\* A container in recovery still has a task that will settle it.
RecoveringIsWorked ==
  \A e \in Endpoint : state[e] = "recovering" => task[e] # "none"

OperatorInv ==
  /\ OperatorTypeOK
  /\ LeaseBooks
  /\ BootIsQuarantined
  /\ SlotsInv
  /\ LeasedIsHeld
  /\ LeasesWithinCapacity
  /\ RecoveringIsWorked

LEMMA OperatorInvInit == OperatorInit => OperatorInv
<1> SUFFICES ASSUME OperatorInit PROVE OperatorInv
  OBVIOUS
<1> USE DEF OperatorInit
<1>1. LeaseInv /\ SlotsInv /\ LeasedIsHeld
  BY ServiceInvInit DEF ServiceInv
<1>2. LeasesWithinCapacity
  <2>1. Leased(state) = {}
    BY DEF Init, BootState, Leased
  <2>2. QED
    BY <2>1, FS_EmptySet, PoolSizeAssumption DEF LeasesWithinCapacity
<1>3. RecoveringIsWorked
  BY DEF Init, BootState, RecoveringIsWorked
<1>4. QED
  BY <1>1, <1>2, <1>3 DEF LeaseInv, OperatorInv, OperatorTypeOK

-----------------------------------------------------------------------------
(* recover() *)

\* It touches no lease, no slot and no recovery task.
LEMMA RecoverInv ==
  ASSUME OperatorInv, NEW e \in Endpoint, Recover(e)
  PROVE  OperatorInv'
<1> USE DEF OperatorInv, OperatorTypeOK, TypeOK
<1>1. /\ booting = {} /\ state[e] # "leased"
      /\ state' = [state EXCEPT ![e] = "available"]
      /\ UNCHANGED <<token, initializing, tearingDown, task, durable, booting,
                     call, leaseEndpoint, leaseToken>>
      /\ asleep' \subseteq asleep
      /\ vouching' \subseteq Endpoint
      /\ lost' = [lost EXCEPT ![e] = FALSE]
  BY DEF Recover, NotifyOne, slotVars, leaseVars
<1>2. OperatorTypeOK'
  BY <1>1 DEF ContainerState
<1>3. \A f \in Endpoint : state'[f] = "leased" <=> state[f] = "leased"
  BY <1>1
<1>4. LeaseBooks' /\ BootIsQuarantined' /\ LeasedIsHeld'
  BY <1>1, <1>3 DEF LeaseBooks, BootIsQuarantined, LeasedIsHeld, HoldsLease
<1>5. SlotsInv'
  BY <1>1, <1>3 DEF SlotsInv, SlotsSound
<1>6. LeasesWithinCapacity'
  BY <1>3 DEF LeasesWithinCapacity, Leased
<1>7. RecoveringIsWorked'
  BY <1>1 DEF RecoveringIsWorked
<1>8. QED
  BY <1>2, <1>4, <1>5, <1>6, <1>7

\* Its durable mark writes to the file and to nothing else.
LEMMA RecoverMarkInv ==
  ASSUME OperatorInv, NEW e \in Endpoint, RecoverMark(e)
  PROVE  OperatorInv'
BY DEF RecoverMark, OperatorInv, OperatorTypeOK, TypeOK, DurableState, LeaseBooks,
       BootIsQuarantined, SlotsInv, SlotsSound, LeasedIsHeld, HoldsLease,
       LeasesWithinCapacity, RecoveringIsWorked, containerVars, slotVars,
       leaseVars

\* A container enters recovery with a task, and leaves it with the task.
LEMMA WorkedNext ==
  ASSUME OperatorInv, Serve
  PROVE  RecoveringIsWorked'
<1> USE DEF OperatorInv, OperatorTypeOK, TypeOK, RecoveringIsWorked, containerVars,
            slotVars, recoveryVars, leaseVars
<1>1. ASSUME NEW w \in Worker, AcquireLease(w) PROVE RecoveringIsWorked'
  BY <1>1 DEF AcquireLease, Lease
<1>2. ASSUME NEW w \in Worker, Release(w) \/ Quarantine(w)
      PROVE  RecoveringIsWorked'
  BY <1>2 DEF Release, Quarantine, HoldsLease
<1>3. ASSUME NEW w \in Worker, QuarantineSchedule(w) PROVE RecoveringIsWorked'
  BY <1>3 DEF QuarantineSchedule
<1>4. ASSUME NEW e \in Endpoint,
             \/ BootSchedule(e)
             \/ RecoveryBegins(e)
             \/ RecoverySucceeds(e)
             \/ RecoveryFails(e)
             \/ RecoveryEnds(e)
      PROVE  RecoveringIsWorked'
  BY <1>4 DEF BootSchedule, RecoveryBegins, RecoverySucceeds, RecoveryFails,
              RecoveryEnds
<1>5. CASE UNCHANGED <<state, task>>
  BY <1>5
<1>6. QED
  BY <1>1, <1>2, <1>3, <1>4, <1>5
     DEF Serve, AcquireCall, AcquireFails, AcquireWaits, TimesOut,
         QuarantineMark, BeginInitialization, WaitInitialization,
         EndInitialization, BeginTeardown, WaitTeardown, EndTeardown,
         QuarantineMarkFails

LEMMA OperatorInvNext ==
  OperatorInv /\ [OperatorNext]_operatorVars => OperatorInv'
<1> SUFFICES ASSUME OperatorInv, [OperatorNext]_operatorVars
             PROVE  OperatorInv'
  OBVIOUS
<1>1. CASE Serve /\ UNCHANGED vouching
  <2>1. [Next]_vars
    BY <1>1 DEF Next
  <2>2. TypeOK' /\ LeaseBooks' /\ BootIsQuarantined'
    BY <2>1, TypeNext, BooksNext, BootNext DEF OperatorInv, OperatorTypeOK
  <2>3. SlotsInv' /\ LeasedIsHeld' /\ LeasesWithinCapacity'
    BY <2>1, SlotsNext, HeldNext, CapacityNext DEF OperatorInv, OperatorTypeOK
  <2>4. QED
    BY <1>1, <2>2, <2>3, WorkedNext DEF OperatorInv, OperatorTypeOK
<1>2. CASE UNCHANGED vars /\ vouching' \subseteq vouching
  BY <1>2
     DEF vars, OperatorInv, OperatorTypeOK, TypeOK, LeaseBooks,
         BootIsQuarantined, SlotsInv, SlotsSound, LeasedIsHeld, HoldsLease,
         LeasesWithinCapacity, RecoveringIsWorked
<1>3. QED
  BY <1>1, <1>2, RecoverInv, RecoverMarkInv
     DEF OperatorNext, RecoverMarkFails, operatorVars

LEMMA OperatorInvHolds == OperatorSpec => []OperatorInv
BY OperatorInvInit, OperatorInvNext, PTL DEF OperatorSpec

-----------------------------------------------------------------------------

\* The types of the pool and of the declarations under way.
THEOREM OperatorTypeCorrect == OperatorSpec => []OperatorTypeOK
<1>1. OperatorInv => OperatorTypeOK
  BY DEF OperatorInv
<1>2. QED
  BY <1>1, OperatorInvHolds, PTL

\* Containers put back into service over the heads of recoveries and
\* quarantines do not raise the number of leases above the capacity.
THEOREM OperatorCapacity == OperatorSpec => []LeasesWithinCapacity
<1>1. OperatorInv => LeasesWithinCapacity
  BY DEF OperatorInv
<1>2. QED
  BY <1>1, OperatorInvHolds, PTL

\* A lease survives every recover() of its container: leases stay exclusive,
\* and every leased container has a holder who can give it back.
THEOREM OperatorLeases == OperatorSpec => [](LeaseExclusive /\ LeasedIsHeld)
<1>1. OperatorInv => LeaseExclusive /\ LeasedIsHeld
  BY DEF OperatorInv, OperatorTypeOK, TypeOK, LeaseBooks, LeaseExclusive,
         HoldsLease
<1>2. QED
  BY <1>1, OperatorInvHolds, PTL

\* Slots stay sound: none belongs to a container that recover() took back.
THEOREM OperatorSlots == OperatorSpec => []SlotsSound
<1>1. OperatorInv => SlotsSound
  BY DEF OperatorInv, SlotsInv
<1>2. QED
  BY <1>1, OperatorInvHolds, PTL

\* What the recovery exclusion keeps of itself: no container is left in
\* recovery without a task that settles it.
THEOREM OperatorRecoveries == OperatorSpec => []RecoveringIsWorked
<1>1. OperatorInv => RecoveringIsWorked
  BY DEF OperatorInv
<1>2. QED
  BY <1>1, OperatorInvHolds, PTL

\* A container that has been declared usable leaves service again only at the
\* hands of its holder, or of a quarantine that was under way already.
THEOREM VouchedStays == OperatorSpec => VouchedStaysInService
<1> DEFINE Left(e) ==
      state[e] = "available" /\ state'[e] \in OutOfService
    Scheduled(e) ==
      \E w \in Worker : call[w] = "schedule" /\ leaseEndpoint[w] = e
<1>1. ASSUME OperatorInv, [OperatorNext]_operatorVars, NEW e \in Endpoint, Left(e)
      PROVE  Scheduled(e)
  <2> USE <1>1 DEF OperatorInv, OperatorTypeOK, TypeOK, OutOfService
  <2>1. ASSUME NEW w \in Worker, AcquireLease(w) PROVE FALSE
    BY <2>1 DEF AcquireLease, Lease
  <2>2. ASSUME NEW w \in Worker, Release(w) \/ Quarantine(w) PROVE FALSE
    BY <2>2 DEF Release, Quarantine, HoldsLease
  <2>3. ASSUME NEW w \in Worker, QuarantineSchedule(w) PROVE Scheduled(e)
    BY <2>3 DEF QuarantineSchedule
  <2>4. ASSUME NEW f \in Endpoint, BootSchedule(f) \/ RecoveryEnds(f) PROVE FALSE
    BY <2>4 DEF BootSchedule, RecoveryEnds, BootIsQuarantined
  <2>5. ASSUME NEW f \in Endpoint, Recover(f) PROVE FALSE
    BY <2>5 DEF Recover
  <2>6. state' # state
    OBVIOUS
  <2>7. QED
    BY <2>1, <2>2, <2>3, <2>4, <2>5, <2>6
       DEF OperatorNext, RecoverMark, RecoverMarkFails, Serve, operatorVars, vars, containerVars,
           AcquireCall, AcquireFails, AcquireWaits, TimesOut, QuarantineMark,
           BeginInitialization, WaitInitialization, EndInitialization,
           BeginTeardown, WaitTeardown, EndTeardown, RecoveryBegins,
           RecoverySucceeds, RecoveryFails, QuarantineMarkFails
<1>2. OperatorInv /\ [OperatorNext]_operatorVars =>
        [\A e \in Endpoint :
           state[e] = "available" /\ state'[e] \in OutOfService =>
             \E w \in Worker : call[w] = "schedule" /\ leaseEndpoint[w] = e]_vars
  BY <1>1
<1>3. QED
  BY <1>2, OperatorInvHolds, PTL DEF OperatorSpec, VouchedStaysInService

=============================================================================
