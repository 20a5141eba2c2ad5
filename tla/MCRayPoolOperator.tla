------------------------- MODULE MCRayPoolOperator -------------------------
(***************************************************************************)
(* RayPoolOperator for TLC.                                                *)
(***************************************************************************)
EXTENDS RayPoolOperator, TLC

\* Without the file and `lost': only Restart reads them, which OperatorNext does
\* not have.
View ==
  <<containerVars, slotVars, task, booting, call, asleep, leaseVars, vouching>>

Symmetry == Permutations(Worker) \cup Permutations(Token)

=============================================================================
