-------------------------- MODULE MCAgentLifecycle --------------------------
(* AgentLifecycle with the symmetry of request and worker threads, for runs  *)
(* that check no liveness.                                                   *)
EXTENDS AgentLifecycle, TLC

ThreadSymmetry == Permutations(Requests) \cup Permutations(Workers)
=============================================================================
