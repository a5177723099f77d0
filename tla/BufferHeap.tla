----------------------------- MODULE BufferHeap -----------------------------
(***************************************************************************)
(* The heap a sampled buffer keeps its events in: Heap, with room for all  *)
(* the events there are.                                                   *)
(***************************************************************************)
EXTENDS BufferBounds

VARIABLES array, heapify, at  \* Heap's @items, and where its recursion is

Heap == INSTANCE Heap WITH MaxSize <- MaxRecorded, items <- array

HeapSpec == Heap!Spec

\* heap.rb:7 "The first element is always the one with the lowest priority":
\* after every push, pop and fix, at any index, no item is below its parent.
HeapOrder == Heap!HeapOrder

\* The heap is a priority queue: pop hands out a least item, push and the
\* replacement of an item change the bag by that item, and heapify_up and
\* heapify_down lose, copy and change none.
QueueSpec == Heap!QueueSpec
=============================================================================
