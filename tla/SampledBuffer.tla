--------------------------- MODULE SampledBuffer ---------------------------
(***************************************************************************)
(* An EventAggregator and its PrioritySampledBuffer                        *)
(* (lib/new_relic/agent/event_aggregator.rb, priority_sampled_buffer.rb,   *)
(* event_buffer.rb; the transaction, error, custom, span and synthetics    *)
(* aggregators are instances).  Request threads record; the worker thread  *)
(* and a thread that shuts the agent down harvest, and merge back what     *)
(* could not be sent; configuration changes resize and disable.            *)
(*                                                                         *)
(* An event is its priority.  What a full buffer's heap does is taken from *)
(* module Heap: its root is a least item, its other items are in some      *)
(* order.  The loops that append several events under @lock (merge! and    *)
(* capacity=) append one event per step while the lock is held.            *)
(*                                                                         *)
(* recorded, merged and givenUpHeaped are history.  recorded and resizes    *)
(* are bounded by MaxRecorded and MaxResizes.                              *)
(***************************************************************************)
EXTENDS BufferBounds, Sequences

CONSTANTS
  Recorders,    \* request threads
  Capacities,   \* values of the aggregator's capacity setting
  Nothing,      \* a priority below all others: no event
  MaxResizes    \* bound: capacity changes

ASSUME NothingAssumption == Nothing \in Int /\ \A p \in Priorities : Nothing < p
ASSUME CapacitiesAssumption == Capacities \subseteq Nat
ASSUME ResizesAssumption == MaxResizes \in Nat

VARIABLES
  items,     \* @items
  heaped,    \* @items is a Heap, not an Array
  capacity, seen, seenLifetime, capturedLifetime,
  enabled,
  call,      \* per recorder: "idle" or past the enabled? test
  inFlight,  \* per sender: samples harvested and neither sent nor merged back
  job,       \* what the holder of @lock is doing: "free", "merge", "resize"
  pending,   \* samples that job has still to append
  oldSeen,   \* capacity=: the count to restore
  resetDue,  \* the aggregator was disabled and reset! is still to come
  resizes,
  recorded, merged,         \* events recorded here, events merged from children
  givenUpHeaped  \* highest priority dropped since the buffer became a heap

counts == <<seen, seenLifetime, capturedLifetime>>
history == <<recorded, merged>>
vars == <<items, heaped, capacity, counts, enabled, call, inFlight, job,
          pending, oldSeen, resetDue, resizes, history, givenUpHeaped>>

Senders == {"worker", "shutdown"}
Higher(p, q) == IF p > q THEN p ELSE q

Least(s, p) == \A i \in 1..Len(s) : p <= s[i]
Onto(S) == {f \in [S -> S] : \A x \in S : \E y \in S : f[y] = x}
Reorderings(s) ==
  {[k \in 1..Len(s) |-> s[f[k]]] : f \in Onto(1..Len(s))}
AsHeaps(s) == {h \in Reorderings(s) : Least(h, h[1])}

-----------------------------------------------------------------------------
(* PrioritySampledBuffer *)

\* "if priority_for(@items[0]) < priority", before any heapifying
Outranks(p) == items[1] < p

Keep(p) ==
  /\ Len(items) < capacity
  /\ items' = Append(items, p)
  /\ capturedLifetime' = capturedLifetime + 1
  /\ UNCHANGED <<heaped, givenUpHeaped>>

\* heapify_items_array; @items[0] = incoming; @items.fix(0)
ReplaceFirst(p) ==
  /\ Len(items) >= capacity
  /\ Outranks(p)
  /\ items' = [items EXCEPT ![1] = p]
  /\ heaped' = TRUE
  /\ givenUpHeaped' = Higher(givenUpHeaped, items[1])
  /\ UNCHANGED capturedLifetime
ReplaceRoot(p) ==
  /\ Len(items) >= capacity
  /\ Outranks(p)
  /\ \E heap \in AsHeaps(items) :
       /\ items' \in AsHeaps([heap EXCEPT ![1] = p])
       /\ givenUpHeaped' = Higher(givenUpHeaped, heap[1])
  /\ heaped' = TRUE
  /\ UNCHANGED capturedLifetime

Refuse(p) ==
  /\ Len(items) >= capacity
  /\ ~Outranks(p)
  /\ givenUpHeaped' = IF heaped THEN Higher(givenUpHeaped, p) ELSE givenUpHeaped
  /\ UNCHANGED <<items, heaped, capturedLifetime>>

\* append
AppendEvent(p) ==
  /\ seen' = seen + 1
  /\ seenLifetime' = seenLifetime + 1
  /\ IF capacity = 0
     THEN UNCHANGED <<items, heaped, capturedLifetime, givenUpHeaped>>
     ELSE Keep(p) \/ ReplaceRoot(p) \/ Refuse(p)

\* EventBuffer#reset!
ResetItems ==
  /\ items' = <<>>
  /\ heaped' = FALSE
  /\ givenUpHeaped' = Nothing

-----------------------------------------------------------------------------
(* EventAggregator: request threads *)

\* record: "return unless enabled?", outside @lock
CheckEnabled(r) ==
  /\ call[r] = "idle"
  /\ enabled
  /\ call' = [call EXCEPT ![r] = "enabled"]
  /\ UNCHANGED <<items, heaped, capacity, counts, enabled, inFlight, job,
                 pending, oldSeen, resetDue, resizes, history, givenUpHeaped>>

Record(r, p) ==
  /\ call[r] = "enabled"
  /\ job = "free"
  /\ recorded + merged < MaxRecorded
  /\ AppendEvent(p)
  /\ recorded' = recorded + 1
  /\ call' = [call EXCEPT ![r] = "idle"]
  /\ UNCHANGED <<capacity, enabled, inFlight, job, pending, oldSeen, resetDue,
                 resizes, merged>>

\* CustomEventAggregator#note_dropped_event: an invalid event type is counted
\* without @lock, whatever the holder of the lock is doing
NoteDropped(r) ==
  /\ call[r] = "enabled"
  /\ recorded + merged < MaxRecorded
  /\ seen' = seen + 1
  /\ recorded' = recorded + 1
  /\ call' = [call EXCEPT ![r] = "idle"]
  /\ UNCHANGED <<items, heaped, capacity, seenLifetime, capturedLifetime,
                 enabled, inFlight, job, pending, oldSeen, resetDue, resizes,
                 merged, givenUpHeaped>>

-----------------------------------------------------------------------------
(* EventAggregator: harvests *)

\* harvest!
Harvest(s) ==
  /\ job = "free"
  /\ inFlight[s] = <<>>
  /\ inFlight' = [inFlight EXCEPT ![s] = items]
  /\ ResetItems
  /\ seen' = 0
  /\ UNCHANGED <<capacity, seenLifetime, capturedLifetime, enabled, call, job,
                 pending, oldSeen, resetDue, resizes, history>>

\* the payload reached the collector, or was discarded for good
Done(s) ==
  /\ inFlight[s] # <<>>
  /\ inFlight' = [inFlight EXCEPT ![s] = <<>>]
  /\ UNCHANGED <<items, heaped, capacity, counts, enabled, call, job, pending,
                 oldSeen, resetDue, resizes, history, givenUpHeaped>>

DecrementByHeld(n) ==
  /\ seenLifetime' = seenLifetime - seen
  /\ capturedLifetime' = capturedLifetime - Len(items)
\* decrement_lifetime_counts_by
Decrement(n) ==
  /\ seenLifetime' = seenLifetime - n
  /\ capturedLifetime' = capturedLifetime - n

\* merge!(payload) after a failed send
MergeBack(s) ==
  /\ job = "free"
  /\ inFlight[s] # <<>>
  /\ Decrement(Len(inFlight[s]))
  /\ job' = "merge"
  /\ pending' = inFlight[s]
  /\ inFlight' = [inFlight EXCEPT ![s] = <<>>]
  /\ UNCHANGED <<items, heaped, capacity, seen, enabled, call, oldSeen,
                 resetDue, resizes, history, givenUpHeaped>>

\* merge!(payload, false): a child process's events, from merge_data_for_endpoint
MergeFromPipe(p) ==
  /\ job = "free"
  /\ recorded + merged < MaxRecorded
  /\ job' = "merge"
  /\ pending' = <<p>>
  /\ merged' = merged + 1
  /\ UNCHANGED <<items, heaped, capacity, counts, enabled, call, inFlight,
                 oldSeen, resetDue, resizes, recorded, givenUpHeaped>>

\* the loops of merge! and capacity=
AppendPending ==
  /\ job \in {"merge", "resize"}
  /\ pending # <<>>
  /\ AppendEvent(Head(pending))
  /\ pending' = Tail(pending)
  /\ UNCHANGED <<capacity, enabled, call, inFlight, job, oldSeen, resetDue,
                 resizes, history>>

\* the loop is over; capacity= restores @seen
Release ==
  /\ job \in {"merge", "resize"}
  /\ pending = <<>>
  /\ seen' = IF job = "resize" THEN oldSeen ELSE seen
  /\ job' = "free"
  /\ UNCHANGED <<items, heaped, capacity, seenLifetime, capturedLifetime,
                 enabled, call, inFlight, pending, oldSeen, resetDue, resizes,
                 history, givenUpHeaped>>

-----------------------------------------------------------------------------
(* EventAggregator: configuration *)

\* capacity=: the items are taken out, to be appended again one by one
Resize(c) ==
  /\ job = "free"
  /\ resizes < MaxResizes
  /\ resizes' = resizes + 1
  /\ capacity' = c
  /\ pending' = items
  /\ oldSeen' = seen
  /\ seen' = 0
  /\ ResetItems
  /\ job' = "resize"
  /\ UNCHANGED <<seenLifetime, capturedLifetime, enabled, call, inFlight,
                 resetDue, history>>

\* :server_source_configuration_added: @enabled is set without @lock; reset!,
\* which takes it, follows when the aggregator was disabled, before the next
\* configuration is added
SetEnabled(on) ==
  /\ ~resetDue
  /\ enabled' = on
  /\ resetDue' = ~on
  /\ UNCHANGED <<items, heaped, capacity, counts, call, inFlight, job, pending,
                 oldSeen, resizes, history, givenUpHeaped>>

\* reset!: after disabling, or drop_buffered_data at a forced restart
Reset ==
  /\ job = "free"
  /\ ResetItems
  /\ seen' = 0
  /\ resetDue' = FALSE
  /\ UNCHANGED <<capacity, seenLifetime, capturedLifetime, enabled, call,
                 inFlight, job, pending, oldSeen, resizes, history>>

-----------------------------------------------------------------------------
Init ==
  /\ items = <<>>
  /\ heaped = FALSE
  /\ capacity \in Capacities
  /\ seen = 0 /\ seenLifetime = 0 /\ capturedLifetime = 0
  /\ enabled = TRUE
  /\ call = [r \in Recorders |-> "idle"]
  /\ inFlight = [s \in Senders |-> <<>>]
  /\ job = "free"
  /\ pending = <<>>
  /\ oldSeen = 0
  /\ resetDue = FALSE
  /\ resizes = 0
  /\ recorded = 0 /\ merged = 0
  /\ givenUpHeaped = Nothing

Next ==
  \/ \E r \in Recorders : CheckEnabled(r) \/ NoteDropped(r)
  \/ \E r \in Recorders, p \in Priorities : Record(r, p)
  \/ \E s \in Senders : Harvest(s) \/ Done(s) \/ MergeBack(s)
  \/ \E p \in Priorities : MergeFromPipe(p)
  \/ AppendPending
  \/ Release
  \/ \E c \in Capacities : Resize(c)
  \/ \E on \in BOOLEAN : SetEnabled(on)
  \/ Reset

Spec == Init /\ [][Next]_vars

-----------------------------------------------------------------------------
(* Properties *)

\* Every variable keeps its type, and the buffer never holds more than its
\* capacity.
TypeOK ==
  /\ items \in Seq(Priorities) /\ Len(items) <= capacity
  /\ heaped \in BOOLEAN
  /\ capacity \in Capacities
  /\ seen \in Nat /\ seenLifetime \in Int /\ capturedLifetime \in Int
  /\ enabled \in BOOLEAN /\ resetDue \in BOOLEAN
  /\ call \in [Recorders -> {"idle", "enabled"}]
  /\ inFlight \in [Senders -> Seq(Priorities)]
  /\ job \in {"free", "merge", "resize"}
  /\ pending \in Seq(Priorities)
  /\ oldSeen \in Nat
  /\ resizes \in 0..MaxResizes
  /\ recorded \in Nat /\ merged \in Nat /\ recorded + merged <= MaxRecorded
  /\ givenUpHeaped \in Priorities \union {Nothing}

\* Samples counted as captured: held here, out with a sender, or taken out by
\* capacity= and not yet back
Outstanding ==
  Len(items) + Len(inFlight["worker"]) + Len(inFlight["shutdown"])

\* The counts the agent reports and logs stay sane through harvests, failed
\* sends merged back, resets and resizes: merge! never takes off more than was
\* counted, so the lifetime counts cover what is still around, more was seen
\* than captured, and a harvest reports no fewer events seen than it carries.
CountsConsistent ==
  /\ Outstanding <= capturedLifetime
  /\ capturedLifetime <= seenLifetime
  /\ Len(items) <= seen
  /\ job = "resize" => Len(items) + Len(pending) <= oldSeen

\* Once the full buffer has been turned into a heap it gives up only events
\* that rank no higher than every event it keeps.
HeapKeepsHighest == heaped => Least(items, givenUpHeaped)
=============================================================================
