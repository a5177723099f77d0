-------------------------- MODULE MCSampledBuffer --------------------------
(* The sampled buffer with few threads, priorities and capacities, for TLC. *)
EXTENDS SampledBuffer

Lowest == -1
=============================================================================
