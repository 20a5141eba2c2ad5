---------------------------- MODULE LeaseService ---------------------------
(***************************************************************************)
(* What a container pool promises its callers, with everything about       *)
(* waiting, slots, durable records and recovery left out: an endpoint is   *)
(* free, out of service, or owned by exactly one worker; at most Capacity  *)
(* endpoints are owned at one time; an owner gives its endpoint back either*)
(* clean or broken, and a broken one is not granted again before it has    *)
(* been restored.                                                          *)
(***************************************************************************)
EXTENDS Naturals, FiniteSets

CONSTANTS
  Endpoint,   \* the pool's endpoints
  Worker,     \* those who may own one
  Capacity,   \* how many may be owned at a time
  Free, Out   \* the two values of `owner' that are not workers

VARIABLE owner

Owned == {e \in Endpoint : owner[e] \in Worker}

Init == owner \in [Endpoint -> {Free, Out}]

Grant(e, w) ==
  /\ owner[e] = Free
  /\ Cardinality(Owned) < Capacity
  /\ \A f \in Endpoint : owner[f] # w
  /\ owner' = [owner EXCEPT ![e] = w]

Return(e) ==
  /\ owner[e] \in Worker
  /\ owner' = [owner EXCEPT ![e] = Free]

Withdraw(e) ==
  /\ owner[e] \in Worker
  /\ owner' = [owner EXCEPT ![e] = Out]

Restore(e) ==
  /\ owner[e] = Out
  /\ owner' = [owner EXCEPT ![e] = Free]

\* The service restarts: ownership is forgotten, some endpoints stay out.
Reset == owner' \in [Endpoint -> {Free, Out}]

Next ==
  \/ \E e \in Endpoint :
       \/ \E w \in Worker : Grant(e, w)
       \/ Return(e)
       \/ Withdraw(e)
       \/ Restore(e)
  \/ Reset

Spec == Init /\ [][Next]_owner

=============================================================================
