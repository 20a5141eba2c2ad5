---------------------------- MODULE LeasePolicy ----------------------------
(***************************************************************************)
(* The leasing rule the two container pools share: guiagentlab's           *)
(* AsyncContainerPool.acquire (env/ray_pool.py) and ContainerPool.acquire  *)
(* (env/pool.py) evaluate the same tests, in the same order, over the same *)
(* enumeration of container states.  The rule is stated here as operators  *)
(* of `st', a function from endpoints to container states, so that each    *)
(* pool applies it to its own `state' variable.                            *)
(*                                                                         *)
(* An endpoint is named by its position in the pool's container dict: the  *)
(* first NActive are the active ones, the rest are spares, and "the first  *)
(* matching container" of the code's loops is the one with the least name. *)
(***************************************************************************)
EXTENDS Naturals, FiniteSets

CONSTANTS
  NActive,    \* `active': how many endpoints may be leased at one time
  NSpare      \* `spares': extra endpoints that stand in for a broken one

ASSUME PoolSizeAssumption ==
  /\ NActive \in Nat \ {0}
  /\ NSpare \in Nat

Endpoint == 1..(NActive + NSpare)
Active   == 1..NActive
Spare    == Endpoint \ Active

\* pool.py's ContainerState.  "retired" is reached in the threaded pool only.
ContainerState ==
  {"available", "leased", "quarantined", "recovering", "retired"}

OutOfService == {"quarantined", "recovering", "retired"}

-----------------------------------------------------------------------------

\* Mutants: the candidate loop that tests only for a lease, or nothing at all.
UnleasedActive(st) == {e \in Active : st[e] # "leased"}
AnyActive(st) == Active

\* The tests of acquire.
InService(st)   == {e \in Endpoint : st[e] \in {"available", "leased"}}
Leased(st)      == {e \in Endpoint : st[e] = "leased"}
IdleActive(st)  == {e \in Active : st[e] = "available"}
IdleSpare(st)   == {e \in Spare : st[e] = "available"}
LeasedSpare(st) == {e \in Spare : st[e] = "leased"}
BrokenActive(st) == {e \in Active : st[e] \in OutOfService}

BelowCapacity(st) == Cardinality(InService(st)) < NActive
SomeRecovering(st) == \E e \in Endpoint : st[e] = "recovering"

\* acquire raises instead of waiting: nothing can bring the pool back.
CannotServe(st) == BelowCapacity(st) /\ ~SomeRecovering(st)

\* Mutant: leased_total is not compared.
RoomWithoutCount(st) == ~BelowCapacity(st)

\* The guard both candidate loops share.
RoomForLease(st) ==
  ~BelowCapacity(st) /\ Cardinality(Leased(st)) < NActive

\* The first loop looks at active containers; the second, only when the
\* first found none, at spares, and only while fewer of them are leased than
\* active containers are missing.
LeaseCandidates(st) ==
  IF ~RoomForLease(st) THEN {}
  ELSE IF IdleActive(st) # {} THEN IdleActive(st)
  ELSE IF Cardinality(LeasedSpare(st)) < Cardinality(BrokenActive(st))
       THEN IdleSpare(st)
       ELSE {}

FirstOf(S, e) == e \in S /\ \A f \in S : e <= f

=============================================================================
