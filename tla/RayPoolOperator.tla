-------------------------- MODULE RayPoolOperator --------------------------
(***************************************************************************)
(* RayPool with AsyncContainerPool.recover: somebody declares a container  *)
(* usable while the pool is at work.  No code of the repository calls the  *)
(* method; it is part of the actor's interface, and it takes a container   *)
(* from whatever hands it is in: a recovery task, or a quarantine that has *)
(* not been marked or scheduled yet.                                       *)
(***************************************************************************)
EXTENDS RayPool

VARIABLE
  vouching   \* endpoints declared usable whose durable mark is outstanding

operatorVars == <<vars, vouching>>

OperatorInit == Init /\ vouching = {}

NotifyOne ==
  IF asleep = {} THEN UNCHANGED asleep
  ELSE \E w \in asleep : asleep' = asleep \ {w}

\* The locked half of recover(); a leased container is refused.
Recover(e) ==
  /\ booting = {}
  /\ state[e] # "leased"
  /\ state' = [state EXCEPT ![e] = "available"]
  /\ NotifyOne
  /\ vouching' = IF RecoveryEnabled THEN vouching \cup {e} ELSE vouching
  /\ lost' = [lost EXCEPT ![e] = FALSE]
  /\ UNCHANGED <<token, slotVars, task, durable, booting, call, leaseVars>>

\* await asyncio.to_thread(self.recovery.mark, normalized, "available", None)
RecoverMark(e) ==
  /\ e \in vouching
  /\ vouching' = vouching \ {e}
  /\ durable' = [durable EXCEPT ![e] = "available"]
  /\ UNCHANGED <<containerVars, slotVars, task, booting, lost, call, asleep,
                 leaseVars>>

\* The mark raises, to whoever called recover().
RecoverMarkFails(e) ==
  /\ e \in vouching
  /\ vouching' = vouching \ {e}
  /\ UNCHANGED vars

OperatorNext ==
  \/ Serve /\ UNCHANGED vouching
  \/ \E e \in Endpoint : Recover(e) \/ RecoverMark(e) \/ RecoverMarkFails(e)

OperatorSpec == OperatorInit /\ [][OperatorNext]_operatorVars

-----------------------------------------------------------------------------
(* Properties: what survives an operator who recovers any container at any  *)
(* time.                                                                    *)

OperatorTypeOK == TypeOK /\ vouching \in SUBSET Endpoint

\* A container that has been declared usable leaves service again only at the
\* hands of its holder, or of a quarantine that was under way already: the
\* recovery task it was taken from does not touch it when it ends.
VouchedStaysInService ==
  [][\A e \in Endpoint :
       state[e] = "available" /\ state'[e] \in OutOfService =>
         \E w \in Worker : call[w] = "schedule" /\ leaseEndpoint[w] = e]_vars

=============================================================================
