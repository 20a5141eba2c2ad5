----------------------------- MODULE MCRayPool -----------------------------
(***************************************************************************)
(* RayPool for TLC.  Workers and tokens are interchangeable; endpoints are *)
(* not, their order decides which one is leased.                           *)
(***************************************************************************)
EXTENDS RayPool, TLC

Symmetry == Permutations(Worker) \cup Permutations(Token)

=============================================================================
