------------------------------ MODULE Delivery ------------------------------
(***************************************************************************)
(* What the agent promises about the data it records, without threads,     *)
(* containers, requests or retries: every recorded event is held by the    *)
(* agent until the collector has it, unless the agent gives it up, either  *)
(* because a buffer is full (and then a buffer's worth is held) or because *)
(* the data is discarded.  An event may be delivered more than once.       *)
(***************************************************************************)
CONSTANTS Events,    \* what the application records
          Enough     \* the sets of events that fill at least one buffer

VARIABLES recorded,  \* the events recorded so far
          held,      \* the events the agent still has
          delivered, \* the events the collector received
          overflowed,\* the events given up for want of room
          discarded  \* the events given up for another reason

vars == <<recorded, held, delivered, overflowed, discarded>>

Init ==
  /\ recorded = {} /\ held = {} /\ delivered = {}
  /\ overflowed = {} /\ discarded = {}

\* What does not fit beside the events kept is given up.
Overflow(S) ==
  /\ S # {} => held' \in Enough
  /\ overflowed' = overflowed \cup S

Record(e) ==
  /\ e \notin recorded
  /\ recorded' = recorded \cup {e}
  /\ \E S \in SUBSET (held \cup {e}) :
       /\ held' = (held \cup {e}) \ S
       /\ Overflow(S)
  /\ UNCHANGED <<delivered, discarded>>

Deliver ==
  /\ \E S \in SUBSET held : delivered' = delivered \cup S
  /\ UNCHANGED <<recorded, held, overflowed, discarded>>

\* The agent forgets only what the collector has.
Release ==
  /\ \E S \in SUBSET (held \cap delivered) : held' = held \ S
  /\ UNCHANGED <<recorded, delivered, overflowed, discarded>>

Shed ==
  /\ \E S \in SUBSET held : held' = held \ S /\ Overflow(S)
  /\ UNCHANGED <<recorded, delivered, discarded>>

Discard ==
  /\ \E S \in SUBSET held : held' = held \ S /\ discarded' = discarded \cup S
  /\ UNCHANGED <<recorded, delivered, overflowed>>

Next ==
  \/ \E e \in Events : Record(e)
  \/ Deliver
  \/ Release
  \/ Shed
  \/ Discard

Spec == Init /\ [][Next]_vars

\* No recorded event vanishes: it is held, delivered, or was given up.
Accounted == recorded \subseteq held \cup delivered \cup overflowed \cup discarded
=============================================================================
