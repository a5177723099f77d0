---------------------------- MODULE BufferBounds ----------------------------
(***************************************************************************)
(* What the models of a sampled buffer and of its heap have in common: the *)
(* priorities that stand for the events, and how many events there are.    *)
(***************************************************************************)
EXTENDS Integers

CONSTANTS
  Priorities,   \* event priorities
  MaxRecorded   \* bound: events recorded and merged from children

ASSUME PrioritiesAssumption == Priorities \subseteq Int
ASSUME BoundsAssumption == MaxRecorded \in Nat
=============================================================================
