----------------------------- MODULE MCAgentRun -----------------------------
(***************************************************************************)
(* AgentRun for TLC.                                                       *)
(***************************************************************************)
EXTENDS AgentRun, TLC

Symmetry == Permutations(Worker) \cup Permutations(Token)

=============================================================================
