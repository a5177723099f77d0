-------------------------------- MODULE Heap --------------------------------
(***************************************************************************)
(* NewRelic::Agent::Heap (lib/new_relic/agent/heap.rb), the array-backed   *)
(* min-heap a full event buffer keeps its events in.  An item is its       *)
(* priority.  Ruby's index i is index i + 1 here.                          *)
(*                                                                         *)
(* push, pop and fix each change the array and then call heapify_up or     *)
(* heapify_down, which call themselves once per level: every such call is  *)
(* a step, and no operation begins before the one under way is over.       *)
(***************************************************************************)
EXTENDS Integers, Sequences, FiniteSets

CONSTANTS
  Priorities,  \* priorities of the items, integers
  MaxSize      \* bound: items in the heap

VARIABLES
  items,     \* @items
  heapify,   \* the recursion under way: "up", "down", or "none"
  at         \* the index it has been called with

vars == <<items, heapify, at>>

ParentIndex(i) == i \div 2
LeftChildIndex(i) == 2 * i
InRange(i) == i \in 1..Len(items)
SwapInTurn(h, i, j) == [h EXCEPT ![i] = h[j]]
Swap(h, i, j) == [h EXCEPT ![i] = h[j], ![j] = h[i]]

RightSiblingSmaller(left) == InRange(left + 1) /\ items[left] > items[left + 1]
LeftChild(i) == LeftChildIndex(i)
\* the child heapify_down compares with
SmallerChild(i) ==
  IF RightSiblingSmaller(LeftChildIndex(i)) THEN LeftChildIndex(i) + 1 ELSE LeftChildIndex(i)

CallHeapify(direction, i) == heapify' = direction /\ at' = i
Return == heapify' = "none" /\ at' = 1

-----------------------------------------------------------------------------
Push(x) ==
  /\ heapify = "none"
  /\ Len(items) < MaxSize
  /\ items' = Append(items, x)
  /\ CallHeapify("up", Len(items) + 1)

\* pop: the root changes places with the last item, which is taken off; on an
\* empty heap it returns nil and leaves the array empty
Pop ==
  /\ heapify = "none"
  /\ items # <<>>
  /\ items' = SubSeq(Swap(items, 1, Len(items)), 1, Len(items) - 1)
  /\ CallHeapify("down", 1)

\* items[i] = x; items.fix(i)
ReplaceAndFix(i, x) ==
  /\ heapify = "none"
  /\ items' = [items EXCEPT ![i] = x]
  /\ IF InRange(ParentIndex(i)) /\ items[ParentIndex(i)] > x
     THEN CallHeapify("up", i)
     ELSE CallHeapify("down", i)

HeapifyUp ==
  /\ heapify = "up"
  /\ IF at # 1 /\ items[at] < items[ParentIndex(at)]
     THEN /\ items' = Swap(items, at, ParentIndex(at))
          /\ CallHeapify("up", ParentIndex(at))
     ELSE Return /\ UNCHANGED items

HeapifyDown ==
  /\ heapify = "down"
  /\ IF InRange(LeftChildIndex(at)) /\ items[SmallerChild(at)] < items[at]
     THEN /\ items' = Swap(items, at, SmallerChild(at))
          /\ CallHeapify("down", SmallerChild(at))
     ELSE Return /\ UNCHANGED items

\* Heap.new pushes the items it is given one by one
Init ==
  /\ items = <<>>
  /\ heapify = "none"
  /\ at = 1

Next ==
  \/ \E x \in Priorities : Push(x)
  \/ Pop
  \/ \E i \in 1..Len(items), x \in Priorities : ReplaceAndFix(i, x)
  \/ HeapifyUp
  \/ HeapifyDown

Spec == Init /\ [][Next]_vars

-----------------------------------------------------------------------------
(* Properties *)

\* Types, and the index a recursion is at.
TypeOK ==
  /\ items \in Seq(Priorities)
  /\ Len(items) <= MaxSize
  /\ heapify \in {"none", "up", "down"}
  /\ at \in Nat \ {0}
  /\ heapify = "up" => InRange(at)

\* heap.rb:7 "The first element is always the one with the lowest priority":
\* after every push, pop and fix, at any index, no item is below its parent.
HeapOrder ==
  heapify = "none" => \A i \in 2..Len(items) : items[ParentIndex(i)] <= items[i]

Count(h, x) == Cardinality({i \in 1..Len(h) : h[i] = x})
BagOf(h) == [x \in Priorities |-> Count(h, x)]

\* The heap is a priority queue: pop hands out a least item, push and the
\* replacement of an item change the bag by that item, and heapify_up and
\* heapify_down lose, copy and change none.
Queue == INSTANCE PriorityQueue WITH bag <- BagOf(items), busy <- heapify # "none"
QueueSpec == Queue!Spec
=============================================================================
