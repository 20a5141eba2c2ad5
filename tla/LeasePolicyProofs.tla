------------------------- MODULE LeasePolicyProofs --------------------------
(***************************************************************************)
(* What the leasing rule the two pools share computes, for any pool size.  *)
(***************************************************************************)
EXTENDS LeasePolicy, FiniteSetTheorems, TLAPS

LEMMA EndpointsFinite ==
  /\ Endpoint \subseteq Nat \ {0}
  /\ IsFiniteSet(Endpoint)
  /\ Active \subseteq Endpoint
<1>1. NActive + NSpare \in Nat /\ NActive \in Nat /\ NActive <= NActive + NSpare
  BY PoolSizeAssumption
<1>2. IsFiniteSet(1..(NActive + NSpare))
  BY <1>1, FS_Interval
<1>3. QED
  BY <1>1, <1>2 DEF Endpoint, Active

LEMMA CandidatesAreAvailable ==
  ASSUME NEW st, NEW e \in LeaseCandidates(st)
  PROVE  e \in Endpoint /\ st[e] = "available"
BY EndpointsFinite DEF LeaseCandidates, IdleActive, IdleSpare, Spare

LEMMA LeasedFinite ==
  ASSUME NEW st
  PROVE  IsFiniteSet(Leased(st)) /\ Cardinality(Leased(st)) \in Nat
<1>1. Leased(st) \in SUBSET Endpoint
  BY DEF Leased
<1>2. QED
  BY <1>1, EndpointsFinite, FS_Subset, FS_CardinalityType

LEMMA CardinalityAdd ==
  ASSUME NEW S, IsFiniteSet(S), NEW x
  PROVE  Cardinality(S \cup {x}) <= Cardinality(S) + 1
<1>1. Cardinality(S) \in Nat
  BY FS_CardinalityType
<1>2. Cardinality(S \cup {x}) =
        IF x \in S THEN Cardinality(S) ELSE Cardinality(S) + 1
  BY FS_AddElement
<1>3. QED
  BY <1>1, <1>2

LEMMA CardinalityDisjoint ==
  ASSUME NEW S, IsFiniteSet(S), NEW T, IsFiniteSet(T), S \cap T = {}
  PROVE  Cardinality(S \cup T) = Cardinality(S) + Cardinality(T)
<1>1. Cardinality(S) \in Nat /\ Cardinality(T) \in Nat
  BY FS_CardinalityType
<1>2. Cardinality(S \cup T)
        = Cardinality(S) + Cardinality(T) - Cardinality(S \cap T)
  BY FS_Union
<1>3. Cardinality(S \cap T) = 0
  BY FS_EmptySet
<1>4. QED
  BY <1>1, <1>2, <1>3

\* While the pool is at capacity and not fully leased, the two candidate
\* loops find a container: when every active container in service is leased,
\* the leased spares are fewer than the missing active containers.
LEMMA WorkConserving ==
  ASSUME NEW st \in [Endpoint -> ContainerState], RoomForLease(st)
  PROVE  LeaseCandidates(st) # {}
<1> DEFINE LA == {e \in Active : st[e] = "leased"}
<1>1. IsFiniteSet(Active) /\ Cardinality(Active) = NActive
  BY PoolSizeAssumption, FS_Interval DEF Active
<1>2. /\ IsFiniteSet(LA) /\ IsFiniteSet(LeasedSpare(st))
      /\ IsFiniteSet(BrokenActive(st)) /\ IsFiniteSet(Leased(st))
      /\ IsFiniteSet(InService(st))
  <2>1. LA \in SUBSET Endpoint /\ LeasedSpare(st) \in SUBSET Endpoint
        /\ BrokenActive(st) \in SUBSET Endpoint
        /\ Leased(st) \in SUBSET Endpoint /\ InService(st) \in SUBSET Endpoint
    BY EndpointsFinite DEF LeasedSpare, BrokenActive, Leased, InService, Spare
  <2>2. QED
    BY <2>1, EndpointsFinite, FS_Subset
<1>3. CASE IdleActive(st) # {}
  BY <1>3 DEF LeaseCandidates
<1>4. CASE IdleActive(st) = {}
  <2>1. Active = LA \cup BrokenActive(st) /\ LA \cap BrokenActive(st) = {}
    BY <1>4, EndpointsFinite
       DEF IdleActive, BrokenActive, ContainerState, OutOfService
  <2>2. NActive = Cardinality(LA) + Cardinality(BrokenActive(st))
    BY <1>1, <1>2, <2>1, CardinalityDisjoint
  <2>3. Leased(st) = LA \cup LeasedSpare(st) /\ LA \cap LeasedSpare(st) = {}
    BY EndpointsFinite DEF Leased, LeasedSpare, Spare
  <2>4. Cardinality(Leased(st))
          = Cardinality(LA) + Cardinality(LeasedSpare(st))
    BY <1>2, <2>3, CardinalityDisjoint
  <2>5. Cardinality(Leased(st)) < NActive /\ NActive <= Cardinality(InService(st))
    BY <1>2, FS_CardinalityType, PoolSizeAssumption
       DEF RoomForLease, BelowCapacity
  <2>6. Cardinality(LeasedSpare(st)) < Cardinality(BrokenActive(st))
    BY <1>2, <2>2, <2>4, <2>5, FS_CardinalityType
  <2>7. IdleSpare(st) # {}
    <3>1. SUFFICES ASSUME IdleSpare(st) = {} PROVE FALSE
      OBVIOUS
    <3>2. InService(st) = Leased(st)
      BY <1>4, <3>1 DEF InService, Leased, IdleSpare, IdleActive, Spare
    <3>3. QED
      BY <1>2, <2>5, <3>2, FS_CardinalityType, PoolSizeAssumption
  <2>8. QED
    BY <1>4, <2>6, <2>7 DEF LeaseCandidates
<1>5. QED
  BY <1>3, <1>4

\* The tests of acquire settle it: there is a container to lease exactly while
\* there is room for a lease, and acquire waits exactly while all leases are
\* out, or containers are missing and a recovery may bring one back.
THEOREM AcquireIsDecided ==
  ASSUME NEW st \in [Endpoint -> ContainerState]
  PROVE  /\ LeaseCandidates(st) # {} <=> RoomForLease(st)
         /\ LeaseCandidates(st) = {} /\ ~CannotServe(st) <=>
              \/ Cardinality(Leased(st)) >= NActive
              \/ BelowCapacity(st) /\ SomeRecovering(st)
<1>1. LeaseCandidates(st) # {} <=> RoomForLease(st)
  BY WorkConserving DEF LeaseCandidates
<1>2. /\ Cardinality(Leased(st)) \in Nat /\ Cardinality(InService(st)) \in Nat
      /\ Cardinality(Leased(st)) <= Cardinality(InService(st))
  <2>1. /\ Leased(st) \subseteq InService(st)
        /\ InService(st) \in SUBSET Endpoint
    BY DEF Leased, InService
  <2>2. IsFiniteSet(InService(st))
    BY <2>1, EndpointsFinite, FS_Subset
  <2>3. QED
    BY <2>1, <2>2, LeasedFinite, FS_Subset, FS_CardinalityType
<1>3. QED
  BY <1>1, <1>2, PoolSizeAssumption DEF RoomForLease, CannotServe, BelowCapacity

=============================================================================
