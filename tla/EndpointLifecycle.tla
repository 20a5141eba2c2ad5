------------------------- MODULE EndpointLifecycle -------------------------
(***************************************************************************)
(* What the readers of the endpoint state file rely on (env/recovery.py):  *)
(* each endpoint has one record, records change one at a time, and each    *)
(* follows its life: withdrawn from service, in recovery, and back in      *)
(* service only out of a recovery.                                         *)
(***************************************************************************)

CONSTANT Endpoint

VARIABLE record

RecordState == {"available", "quarantined", "recovering", "retired"}

Init == record \in [Endpoint -> RecordState]

Withdraw(e) ==
  /\ record[e] = "available"
  /\ record' = [record EXCEPT ![e] = "quarantined"]

Attempt(e) ==
  /\ record[e] # "available"
  /\ record' = [record EXCEPT ![e] = "recovering"]

Conclude(e) ==
  /\ record[e] = "recovering"
  /\ \E verdict \in {"available", "quarantined"} :
       record' = [record EXCEPT ![e] = verdict]

Next == \E e \in Endpoint : Withdraw(e) \/ Attempt(e) \/ Conclude(e)

Spec == Init /\ [][Next]_record

=============================================================================
