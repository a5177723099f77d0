--------------------------- MODULE PriorityQueue ---------------------------
(***************************************************************************)
(* What a heap promises its user: it holds a bag of items, an operation    *)
(* changes the bag once, when it begins, taking out a least item where it  *)
(* takes one out, and until it is over nothing else changes.  An item is   *)
(* its priority.                                                           *)
(***************************************************************************)
EXTENDS Integers

CONSTANT Priorities  \* priorities of the items

VARIABLES
  bag,   \* how many items there are of each priority
  busy   \* an operation is under way

vars == <<bag, busy>>

Held == {x \in Priorities : bag[x] > 0}

Begin == ~busy /\ busy' = TRUE

Insert(x) ==
  /\ Begin
  /\ bag' = [bag EXCEPT ![x] = @ + 1]

TakeLeast ==
  /\ Begin
  /\ \E x \in Held :
       /\ \A y \in Held : x <= y
       /\ bag' = [bag EXCEPT ![x] = @ - 1]

Exchange(x, y) ==
  /\ Begin
  /\ x \in Held
  /\ bag' = [bag EXCEPT ![x] = @ - 1, ![y] = @ + 1]

Finish ==
  /\ busy
  /\ busy' = FALSE
  /\ UNCHANGED bag

Init ==
  /\ bag = [x \in Priorities |-> 0]
  /\ busy = FALSE

Next ==
  \/ \E x \in Priorities : Insert(x)
  \/ TakeLeast
  \/ \E x, y \in Priorities : Exchange(x, y)
  \/ Finish

Spec == Init /\ [][Next]_vars
=============================================================================
