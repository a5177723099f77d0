------------------------ MODULE SampledBufferProofs ------------------------
(***************************************************************************)
(* What a sampled buffer guarantees for any number of recording threads    *)
(* and any priorities and capacities; and what the heap does that a full   *)
(* one keeps its events in, whose order every operation restores, which is *)
(* a priority queue, and which does what SampledBuffer takes from it.      *)
(***************************************************************************)
EXTENDS SampledBuffer, BufferHeap, FiniteSets, FiniteSetTheorems, WellFoundedInduction, TLAPS

\* A heap made of s holds what s held, with a least item first.
LEMMA AsHeapsFacts ==
  ASSUME NEW s \in Seq(Priorities), NEW h \in AsHeaps(s)
  PROVE  /\ h \in Seq(Priorities)
         /\ Len(h) = Len(s)
         /\ Least(h, h[1])
         /\ \A k \in 1..Len(s) : \E j \in 1..Len(s) : h[k] = s[j]
         /\ \A j \in 1..Len(s) : \E k \in 1..Len(s) : h[k] = s[j]
<1>1. PICK f \in Onto(1..Len(s)) : h = [k \in 1..Len(s) |-> s[f[k]]]
  BY DEF AsHeaps, Reorderings
<1>2. f \in [1..Len(s) -> 1..Len(s)]
  BY DEF Onto
<1>3. Len(s) \in Nat /\ \A j \in 1..Len(s) : s[j] \in Priorities
  OBVIOUS
<1>4. h \in [1..Len(s) -> Priorities]
  BY <1>1, <1>2, <1>3
<1>5. h \in Seq(Priorities) /\ Len(h) = Len(s)
  BY <1>3, <1>4
<1>6. \A j \in 1..Len(s) : \E k \in 1..Len(s) : h[k] = s[j]
  BY <1>1 DEF Onto
<1>7. \A k \in 1..Len(s) : \E j \in 1..Len(s) : h[k] = s[j]
  BY <1>1, <1>2
<1> QED
  BY <1>5, <1>6, <1>7 DEF AsHeaps

LEMMA HigherType ==
  ASSUME NEW p \in Priorities \union {Nothing}, NEW q \in Priorities \union {Nothing}
  PROVE  /\ Higher(p, q) \in Priorities \union {Nothing}
         /\ \A x \in Int : Higher(p, q) <= x <=> p <= x /\ q <= x
BY PrioritiesAssumption, NothingAssumption DEF Higher

-----------------------------------------------------------------------------
(* One append, whoever holds the lock *)

\* The counts while an append is under way
BufferOK ==
  /\ items \in Seq(Priorities) /\ Len(items) <= capacity
  /\ heaped \in BOOLEAN
  /\ capacity \in Nat
  /\ seen \in Nat /\ seenLifetime \in Int /\ capturedLifetime \in Int
  /\ givenUpHeaped \in Priorities \union {Nothing}

\* The strengthening: a heap is full and has a least item at its root, and a
\* buffer that is still an array has given nothing up as a heap.
HeapInv ==
  /\ HeapKeepsHighest
  /\ heaped => Len(items) >= capacity /\ Least(items, items[1])
  /\ ~heaped => givenUpHeaped = Nothing

LEMMA ReplaceRootFacts ==
  ASSUME BufferOK, HeapInv, NEW p \in Priorities, ReplaceRoot(p), capacity # 0
  PROVE  /\ items' \in Seq(Priorities) /\ Len(items') = Len(items)
         /\ heaped'
         /\ givenUpHeaped' \in Priorities \union {Nothing}
         /\ Least(items, givenUpHeaped) => Least(items', givenUpHeaped')
         /\ Least(items', items'[1])
<1>1. PICK heap \in AsHeaps(items) :
        /\ items' \in AsHeaps([heap EXCEPT ![1] = p])
        /\ givenUpHeaped' = Higher(givenUpHeaped, heap[1])
  BY DEF ReplaceRoot
<1>2. items \in Seq(Priorities) /\ Len(items) \in Nat \ {0}
  BY DEF BufferOK, ReplaceRoot
<1>3. /\ heap \in Seq(Priorities) /\ Len(heap) = Len(items)
      /\ Least(heap, heap[1])
      /\ \A k \in 1..Len(items) : \E j \in 1..Len(items) : heap[k] = items[j]
      /\ \A j \in 1..Len(items) : \E k \in 1..Len(items) : heap[k] = items[j]
  BY <1>2, AsHeapsFacts
<1> DEFINE new == [heap EXCEPT ![1] = p]
<1>4. /\ new \in Seq(Priorities) /\ Len(new) = Len(items)
      /\ new[1] = p /\ \A k \in 2..Len(items) : new[k] = heap[k]
  BY <1>2, <1>3
<1> HIDE DEF new
<1>ints. /\ p \in Int /\ givenUpHeaped \in Int /\ 1 \in 1..Len(items)
         /\ \A k \in 1..Len(items) : items[k] \in Int /\ heap[k] \in Int /\ new[k] \in Int
  <2>1. \A s \in Seq(Priorities) : \A k \in 1..Len(s) : s[k] \in Priorities
    OBVIOUS
  <2>2. \A x \in Priorities : x \in Int
    BY PrioritiesAssumption, NothingAssumption
  <2>3. \A k \in 1..Len(items) : items[k] \in Int /\ heap[k] \in Int /\ new[k] \in Int
    BY <1>2, <1>3, <1>4, <2>1, <2>2
  <2> QED
    BY <1>2, <2>2, <2>3, PrioritiesAssumption, NothingAssumption DEF BufferOK
<1>5. /\ items' \in Seq(Priorities) /\ Len(items') = Len(items)
      /\ \A k \in 1..Len(items) : \E j \in 1..Len(items) : items'[k] = new[j]
      /\ Least(items', items'[1])
  <2>1. items' \in AsHeaps(new)
    BY <1>1 DEF new
  <2>2. new \in Seq(Priorities)
    BY <1>4
  <2>3. /\ items' \in Seq(Priorities) /\ Len(items') = Len(new)
        /\ Least(items', items'[1])
        /\ \A k \in 1..Len(new) : \E j \in 1..Len(new) : items'[k] = new[j]
    BY <2>1, <2>2, AsHeapsFacts
  <2> QED
    BY <1>4, <2>3
<1>6. heap[1] \in Priorities /\ heap[1] <= items[1] /\ items[1] < p
  <2>1. PICK k \in 1..Len(items) : heap[k] = items[1]
    BY <1>2, <1>3
  <2>2. heap[1] <= heap[k]
    BY <1>3, <2>1 DEF Least
  <2> QED
    BY <1>2, <1>3, <2>1, <2>2 DEF ReplaceRoot, Outranks
<1>7. /\ givenUpHeaped' \in Priorities \union {Nothing}
      /\ \A x \in Int : givenUpHeaped' <= x <=> givenUpHeaped <= x /\ heap[1] <= x
  BY <1>1, <1>6, HigherType DEF BufferOK
<1>8. ASSUME Least(items, givenUpHeaped), NEW k \in 1..Len(items')
      PROVE  givenUpHeaped' <= items'[k]
  <2>1. PICK j \in 1..Len(items) : items'[k] = new[j]
    BY <1>5
  <2>2. new[j] \in Int
    BY <1>ints
  <2>3. heap[1] <= new[j]
    <3>1. CASE j = 1
      BY <1>ints, <1>4, <1>6, <3>1
    <3>2. CASE j # 1
      BY <1>3, <1>4, <3>2 DEF Least
    <3> QED
      BY <3>1, <3>2
  <2>4. givenUpHeaped <= new[j]
    <3>1. CASE j = 1
      <4>1. givenUpHeaped <= items[1]
        BY <1>2, <1>8 DEF Least
      <4> QED
        BY <1>ints, <1>4, <1>6, <3>1, <4>1
    <3>2. CASE j # 1
      <4>1. new[j] = heap[j]
        BY <1>4, <3>2
      <4>2. PICK i \in 1..Len(items) : heap[j] = items[i]
        BY <1>3
      <4> QED
        BY <1>8, <4>1, <4>2 DEF Least
    <3> QED
      BY <3>1, <3>2
  <2> QED
    BY <1>7, <2>1, <2>2, <2>3, <2>4
<1>9. heaped'
  BY DEF ReplaceRoot
<1> QED
  BY <1>5, <1>7, <1>8, <1>9 DEF Least

LEMMA AppendFacts ==
  ASSUME BufferOK, HeapInv, NEW p \in Priorities, AppendEvent(p),
         capacity' = capacity
  PROVE  /\ BufferOK' /\ HeapInv'
         /\ seen' = seen + 1 /\ seenLifetime' = seenLifetime + 1
         /\ \/ /\ Len(items') = Len(items)
               /\ capturedLifetime' = capturedLifetime
            \/ /\ Len(items') = Len(items) + 1
               /\ capturedLifetime' = capturedLifetime + 1
<1>1. seen' = seen + 1 /\ seenLifetime' = seenLifetime + 1
  BY DEF AppendEvent
<1>2. seen' \in Nat /\ seenLifetime' \in Int
  BY <1>1 DEF BufferOK
<1>3. CASE capacity = 0
  BY <1>1, <1>2, <1>3
     DEF AppendEvent, BufferOK, HeapInv, HeapKeepsHighest, Least
<1>4. CASE capacity # 0 /\ Keep(p)
  <2>1. items \in Seq(Priorities)
    BY DEF BufferOK
  <2>2. /\ items' \in Seq(Priorities) /\ Len(items') = Len(items) + 1
        /\ \A i \in 1..Len(items) : items'[i] = items[i]
        /\ items'[Len(items) + 1] = p
    BY <1>4, <2>1 DEF Keep
  <2>3. Len(items) < capacity /\ ~(Len(items) >= capacity)
    BY <1>4, <2>1 DEF Keep, BufferOK
  <2>4. BufferOK'
    BY <1>2, <1>4, <2>1, <2>2, <2>3 DEF BufferOK, Keep
  <2>5. HeapInv'
    <3>1. ~heaped /\ ~heaped' /\ givenUpHeaped' = givenUpHeaped
      BY <1>4, <2>3 DEF Keep, HeapInv
    <3> QED
      BY <3>1 DEF HeapInv, HeapKeepsHighest
  <2> QED
    BY <1>1, <1>4, <2>2, <2>4, <2>5 DEF Keep
<1>5. CASE capacity # 0 /\ ReplaceRoot(p)
  <2>1. /\ items' \in Seq(Priorities) /\ Len(items') = Len(items)
        /\ heaped'
        /\ givenUpHeaped' \in Priorities \union {Nothing}
        /\ Least(items, givenUpHeaped) => Least(items', givenUpHeaped')
        /\ Least(items', items'[1])
    BY <1>5, ReplaceRootFacts
  <2>2. heaped' = TRUE /\ capturedLifetime' = capturedLifetime
    BY <1>5 DEF ReplaceRoot
  <2>3. BufferOK'
    BY <1>2, <2>1, <2>2 DEF BufferOK
  <2>4. Least(items, givenUpHeaped)
    <3>1. CASE heaped
      BY <3>1 DEF HeapInv, HeapKeepsHighest
    <3>2. CASE ~heaped
      <4>1. givenUpHeaped = Nothing
        BY <3>2 DEF HeapInv
      <4>2. \A s \in Seq(Priorities) : \A k \in 1..Len(s) : s[k] \in Priorities
        OBVIOUS
      <4>3. \A k \in 1..Len(items) : items[k] \in Priorities
        BY <4>2 DEF BufferOK
      <4>4. \A k \in 1..Len(items) : Nothing < items[k] /\ items[k] \in Int /\ Nothing \in Int
        BY <4>3, PrioritiesAssumption, NothingAssumption
      <4> QED
        BY <4>1, <4>4 DEF Least
    <3> QED
      BY <3>1, <3>2
  <2>5. HeapInv'
    <3>1. Len(items') >= capacity'
      BY <1>5, <2>1 DEF ReplaceRoot
    <3> QED
      BY <2>1, <2>4, <3>1 DEF HeapInv, HeapKeepsHighest
  <2> QED
    BY <1>1, <2>1, <2>2, <2>3, <2>5
<1>6. CASE capacity # 0 /\ Refuse(p)
  <2>1. /\ items' = items /\ heaped' = heaped
        /\ capturedLifetime' = capturedLifetime
        /\ heaped => givenUpHeaped' = Higher(givenUpHeaped, p)
        /\ ~heaped => givenUpHeaped' = givenUpHeaped
    BY <1>6 DEF Refuse
  <2>2. /\ givenUpHeaped' \in Priorities \union {Nothing}
    BY <2>1, HigherType DEF BufferOK
  <2>3. BufferOK'
    BY <1>2, <2>1, <2>2 DEF BufferOK
  <2>4. HeapInv'
    <3>1. CASE heaped
      <4>1. \A s \in Seq(Priorities) : \A k \in 1..Len(s) : s[k] \in Priorities
        OBVIOUS
      <4>2. \A k \in 1..Len(items) : items[k] \in Priorities /\ items[k] \in Int
        BY <4>1, PrioritiesAssumption, NothingAssumption DEF BufferOK
      <4>3. 1 \in 1..Len(items)
        BY <1>6 DEF Refuse, BufferOK
      <4>4. p <= items[1] /\ p \in Int
        BY <1>6, <4>2, <4>3, PrioritiesAssumption, NothingAssumption DEF Refuse, Outranks
      <4>5. \A k \in 1..Len(items) : items[1] <= items[k] /\ givenUpHeaped <= items[k]
        BY <3>1 DEF HeapInv, HeapKeepsHighest, Least
      <4>6. \A k \in 1..Len(items) : p <= items[k]
        BY <4>2, <4>3, <4>4, <4>5
      <4>7. Least(items, givenUpHeaped')
        <5>1. \A x \in Int : Higher(givenUpHeaped, p) <= x <=> givenUpHeaped <= x /\ p <= x
          BY HigherType DEF BufferOK
        <5>2. \A k \in 1..Len(items) : Higher(givenUpHeaped, p) <= items[k]
          BY <4>2, <4>5, <4>6, <5>1
        <5> QED
          BY <2>1, <3>1, <5>2 DEF Least
      <4> QED
        BY <2>1, <3>1, <4>7 DEF HeapInv, HeapKeepsHighest, Least
    <3>2. CASE ~heaped
      BY <2>1, <3>2 DEF HeapInv, HeapKeepsHighest
    <3> QED
      BY <3>1, <3>2
  <2> QED
    BY <1>1, <2>1, <2>3, <2>4
<1> QED
  BY <1>3, <1>4, <1>5, <1>6 DEF AppendEvent

-----------------------------------------------------------------------------
(* The invariants of the aggregator *)

IInv == TypeOK /\ HeapInv /\ CountsConsistent

LEMMA BufferOKFromType == TypeOK => BufferOK
BY CapacitiesAssumption DEF TypeOK, BufferOK

\* An append keeps the counts consistent, also when the event comes from the
\* events capacity= took out.
LEMMA CountsAppend ==
  ASSUME CountsConsistent,
         Len(items) \in Nat, Len(items') \in Nat,
         Len(inFlight["worker"]) \in Nat, Len(inFlight["shutdown"]) \in Nat,
         seen \in Nat, seenLifetime \in Int, capturedLifetime \in Int,
         Len(pending) \in Nat, Len(pending') \in Nat, oldSeen \in Nat,
         inFlight' = inFlight, job' = job, oldSeen' = oldSeen,
         seen' = seen + 1, seenLifetime' = seenLifetime + 1,
         \/ /\ Len(items') = Len(items)
            /\ capturedLifetime' = capturedLifetime
         \/ /\ Len(items') = Len(items) + 1
            /\ capturedLifetime' = capturedLifetime + 1,
         job = "resize" => Len(pending') = Len(pending) - 1
  PROVE  CountsConsistent'
<1>1. Outstanding' <= capturedLifetime'
  <2> DEFINE w == Len(inFlight["worker"])
             d == Len(inFlight["shutdown"])
  <2>1. Outstanding = Len(items) + w + d /\ Outstanding' = Len(items') + w + d
    BY DEF Outstanding
  <2>2. w \in Nat /\ d \in Nat /\ Len(items) + w + d <= capturedLifetime
    BY <2>1 DEF CountsConsistent
  <2> HIDE DEF w, d
  <2> QED
    BY <2>1, <2>2
<1>2. capturedLifetime' <= seenLifetime'
  BY DEF CountsConsistent
<1>3. Len(items') <= seen'
  BY DEF CountsConsistent
<1>4. job' = "resize" => Len(items') + Len(pending') <= oldSeen'
  BY DEF CountsConsistent
<1> QED
  BY <1>1, <1>2, <1>3, <1>4 DEF CountsConsistent

\* record: an append with the lock held for nobody else
LEMMA RecordPreserves ==
  ASSUME IInv, NEW r \in Recorders, NEW p \in Priorities, Record(r, p)
  PROVE  IInv'
<1>1. /\ AppendEvent(p) /\ capacity' = capacity /\ inFlight' = inFlight
      /\ pending' = pending /\ job' = job /\ job = "free" /\ oldSeen' = oldSeen
  BY DEF Record
<1>2. /\ BufferOK' /\ HeapInv'
      /\ seen' = seen + 1 /\ seenLifetime' = seenLifetime + 1
      /\ \/ /\ Len(items') = Len(items)
            /\ capturedLifetime' = capturedLifetime
         \/ /\ Len(items') = Len(items) + 1
            /\ capturedLifetime' = capturedLifetime + 1
  BY <1>1, BufferOKFromType, AppendFacts DEF IInv
<1>3. TypeOK'
  <2>1. /\ resizes' = resizes /\ merged' = merged /\ enabled' = enabled
        /\ resetDue' = resetDue /\ call' \in [Recorders -> {"idle", "enabled"}]
        /\ recorded' \in Nat /\ recorded' + merged' <= MaxRecorded
    BY BoundsAssumption, ResizesAssumption DEF IInv, TypeOK, Record
  <2> QED
    BY <1>1, <1>2, <2>1 DEF IInv, TypeOK, BufferOK
<1>4. /\ Len(items) \in Nat /\ Len(inFlight["worker"]) \in Nat
      /\ Len(inFlight["shutdown"]) \in Nat
  BY DEF IInv, TypeOK, Senders
<1>5. CountsConsistent'
  BY <1>1, <1>2, <1>4, CountsAppend DEF IInv, TypeOK
<1> QED
  BY <1>2, <1>3, <1>5 DEF IInv

\* merge! and capacity=: an append of an event that left another place
LEMMA AppendPendingPreserves ==
  ASSUME IInv, AppendPending
  PROVE  IInv'
<1>1. /\ AppendEvent(Head(pending)) /\ capacity' = capacity
      /\ inFlight' = inFlight /\ pending' = Tail(pending) /\ pending # <<>>
      /\ job' = job /\ oldSeen' = oldSeen
  BY DEF AppendPending
<1>2. /\ pending \in Seq(Priorities) /\ Head(pending) \in Priorities
      /\ pending' \in Seq(Priorities) /\ Len(pending') = Len(pending) - 1
  BY <1>1 DEF IInv, TypeOK
<1>3. /\ BufferOK' /\ HeapInv'
      /\ seen' = seen + 1 /\ seenLifetime' = seenLifetime + 1
      /\ \/ /\ Len(items') = Len(items)
            /\ capturedLifetime' = capturedLifetime
         \/ /\ Len(items') = Len(items) + 1
            /\ capturedLifetime' = capturedLifetime + 1
  BY <1>1, <1>2, BufferOKFromType, AppendFacts DEF IInv
<1>4. TypeOK'
  <2>1. /\ UNCHANGED <<enabled, call, resetDue, resizes, recorded, merged>>
        /\ pending' \in Seq(Priorities)
    BY <1>2 DEF AppendPending, history
  <2> QED
    BY <1>1, <1>3, <2>1 DEF IInv, TypeOK, BufferOK
<1>5. /\ Len(items) \in Nat /\ Len(pending) \in Nat
      /\ Len(inFlight["worker"]) \in Nat /\ Len(inFlight["shutdown"]) \in Nat
  BY DEF IInv, TypeOK, Senders
<1>6. CountsConsistent'
  BY <1>1, <1>2, <1>3, <1>5, CountsAppend DEF IInv, TypeOK
<1> QED
  BY <1>3, <1>4, <1>6 DEF IInv

LEMMA HarvestPreserves ==
  ASSUME IInv, NEW s \in Senders, Harvest(s)
  PROVE  IInv'
<1>1. /\ items' = <<>> /\ heaped' = FALSE
      /\ givenUpHeaped' = Nothing /\ Len(items') = 0
  BY DEF Harvest, ResetItems
<1>2. inFlight' = [inFlight EXCEPT ![s] = items] /\ inFlight[s] = <<>>
  BY DEF Harvest
<1>3. TypeOK'
  <2>1. /\ items' \in Seq(Priorities) /\ Len(items') <= capacity'
        /\ seen' \in Nat /\ heaped' \in BOOLEAN
        /\ givenUpHeaped' \in Priorities \union {Nothing}
    <3>1. capacity' \in Nat /\ seen' = 0
      BY CapacitiesAssumption DEF IInv, TypeOK, Harvest
    <3>2. items' \in Seq(Priorities)
      BY <1>1
    <3>3. Len(items') <= capacity' /\ seen' \in Nat
      BY <1>1, <3>1
    <3> QED
      BY <1>1, <3>2, <3>3
  <2>2. inFlight' \in [Senders -> Seq(Priorities)]
    BY <1>2 DEF IInv, TypeOK
  <2>3. UNCHANGED <<capacity, seenLifetime, capturedLifetime, enabled, call, job,
                    pending, oldSeen, resetDue, resizes, recorded, merged>>
    BY DEF Harvest, history
  <2> QED
    BY <2>1, <2>2, <2>3 DEF IInv, TypeOK
<1>4. HeapInv'
  BY <1>1 DEF HeapInv, HeapKeepsHighest
<1>5. Outstanding' = Outstanding
  <2>1. /\ Len(items) \in Nat /\ Len(inFlight["worker"]) \in Nat
        /\ Len(inFlight["shutdown"]) \in Nat
    BY DEF IInv, TypeOK, Senders
  <2>2. inFlight \in [Senders -> Seq(Priorities)]
    BY DEF IInv, TypeOK
  <2>3. CASE s = "worker"
    <3>1. /\ Len(inFlight'["worker"]) = Len(items) /\ Len(inFlight["worker"]) = 0
          /\ inFlight'["shutdown"] = inFlight["shutdown"]
      BY <1>2, <2>2, <2>3 DEF Senders
    <3> QED
      BY <1>1, <2>1, <3>1 DEF Outstanding
  <2>4. CASE s = "shutdown"
    <3>1. /\ Len(inFlight'["shutdown"]) = Len(items) /\ Len(inFlight["shutdown"]) = 0
          /\ inFlight'["worker"] = inFlight["worker"]
      BY <1>2, <2>2, <2>4 DEF Senders
    <3> QED
      BY <1>1, <2>1, <3>1 DEF Outstanding
  <2> QED
    BY <2>3, <2>4 DEF Senders
<1>6. CountsConsistent'
  <2>1. /\ seen' = 0 /\ job = "free" /\ job' = "free"
        /\ seenLifetime' = seenLifetime /\ capturedLifetime' = capturedLifetime
    BY DEF Harvest
  <2> QED
    BY <1>1, <1>5, <2>1 DEF IInv, CountsConsistent
<1> QED
  BY <1>3, <1>4, <1>6 DEF IInv

\* A sender's payload leaves it: what was outstanding shrinks by its length.
LEMMA OutstandingWithout ==
  ASSUME TypeOK, NEW s \in Senders, items' = items,
         inFlight' = [inFlight EXCEPT ![s] = <<>>]
  PROVE  /\ Outstanding' = Outstanding - Len(inFlight[s])
         /\ Len(inFlight[s]) \in Nat /\ Outstanding \in Nat
         /\ inFlight' \in [Senders -> Seq(Priorities)]
<1>1. /\ Len(items) \in Nat /\ Len(inFlight["worker"]) \in Nat
      /\ Len(inFlight["shutdown"]) \in Nat
      /\ inFlight \in [Senders -> Seq(Priorities)]
  BY DEF TypeOK, Senders
<1>2. CASE s = "worker"
  <2>1. Len(inFlight'["worker"]) = 0 /\ inFlight'["shutdown"] = inFlight["shutdown"]
    BY <1>1, <1>2 DEF Senders
  <2> QED
    BY <1>1, <1>2, <2>1 DEF Outstanding, Senders
<1>3. CASE s = "shutdown"
  <2>1. Len(inFlight'["shutdown"]) = 0 /\ inFlight'["worker"] = inFlight["worker"]
    BY <1>1, <1>3 DEF Senders
  <2> QED
    BY <1>1, <1>3, <2>1 DEF Outstanding
<1> QED
  BY <1>2, <1>3 DEF Senders

LEMMA IInvNext == IInv /\ [Next]_vars => IInv'
<1> SUFFICES ASSUME IInv, [Next]_vars PROVE IInv'
  OBVIOUS
<1>1. /\ Len(items) \in Nat /\ Len(inFlight["worker"]) \in Nat
      /\ Len(inFlight["shutdown"]) \in Nat /\ Len(pending) \in Nat
      /\ seen \in Nat /\ seenLifetime \in Int /\ capturedLifetime \in Int
  BY DEF IInv, TypeOK, Senders
\* steps that leave the buffer, the payloads and the lock alone
<1>2. ASSUME UNCHANGED <<items, heaped, capacity, seenLifetime, capturedLifetime,
                         inFlight, pending, oldSeen, givenUpHeaped>>,
             seen' \in Nat, seen <= seen', TypeOK',
             job' = "resize" => job = "resize"
      PROVE  IInv'
  <2>1. HeapInv'
    BY <1>2 DEF IInv, HeapInv, HeapKeepsHighest, Least
  <2>2. Outstanding' = Outstanding
    BY <1>2 DEF Outstanding
  <2>3. CountsConsistent'
    BY <1>1, <1>2, <2>2 DEF IInv, CountsConsistent
  <2> QED
    BY <1>2, <2>1, <2>3 DEF IInv
<1>3. ASSUME NEW r \in Recorders, CheckEnabled(r) PROVE IInv'
  <2>1. TypeOK'
    BY <1>3 DEF CheckEnabled, IInv, TypeOK, counts, history
  <2> QED
    BY <1>1, <1>2, <1>3, <2>1 DEF CheckEnabled, counts
<1>4. ASSUME NEW r \in Recorders, NoteDropped(r) PROVE IInv'
  <2>1. /\ seen' \in Nat /\ seen <= seen' /\ recorded' \in Nat
        /\ recorded' + merged' <= MaxRecorded
    BY <1>4, BoundsAssumption, ResizesAssumption DEF NoteDropped, IInv, TypeOK
  <2>2. TypeOK'
    BY <1>4, <2>1 DEF NoteDropped, IInv, TypeOK
  <2> QED
    BY <1>2, <1>4, <2>1, <2>2 DEF NoteDropped
<1>5. ASSUME NEW r \in Recorders, NEW p \in Priorities, Record(r, p) PROVE IInv'
  BY <1>5, RecordPreserves
<1>6. ASSUME NEW s \in Senders, Harvest(s) PROVE IInv'
  BY <1>6, HarvestPreserves
<1>7. ASSUME NEW s \in Senders, Done(s) PROVE IInv'
  <2>1. /\ Outstanding' = Outstanding - Len(inFlight[s])
        /\ Len(inFlight[s]) \in Nat /\ Outstanding \in Nat
        /\ inFlight' \in [Senders -> Seq(Priorities)]
    BY <1>7, OutstandingWithout DEF Done, IInv
  <2>2. TypeOK'
    BY <1>7, <2>1 DEF Done, IInv, TypeOK, counts, history
  <2>3. HeapInv'
    BY <1>7 DEF Done, IInv, HeapInv, HeapKeepsHighest, Least
  <2>4. CountsConsistent'
    BY <1>1, <1>7, <2>1 DEF Done, IInv, CountsConsistent, counts
  <2> QED
    BY <2>2, <2>3, <2>4 DEF IInv
<1>8. ASSUME NEW s \in Senders, MergeBack(s) PROVE IInv'
  <2>1. /\ Outstanding' = Outstanding - Len(inFlight[s])
        /\ Len(inFlight[s]) \in Nat /\ Outstanding \in Nat
        /\ inFlight' \in [Senders -> Seq(Priorities)]
    BY <1>8, OutstandingWithout DEF MergeBack, IInv
  <2>2. /\ seenLifetime' = seenLifetime - Len(inFlight[s])
        /\ capturedLifetime' = capturedLifetime - Len(inFlight[s])
        /\ job' = "merge" /\ pending' = inFlight[s]
    BY <1>8 DEF MergeBack, Decrement
  <2>3. TypeOK'
    <3>1. /\ seenLifetime' \in Int /\ capturedLifetime' \in Int
          /\ pending' \in Seq(Priorities) /\ job' \in {"free", "merge", "resize"}
      BY <1>1, <2>1, <2>2 DEF IInv, TypeOK
    <3> QED
      BY <1>8, <2>1, <3>1 DEF MergeBack, IInv, TypeOK, history
  <2>4. HeapInv'
    BY <1>8 DEF MergeBack, IInv, HeapInv, HeapKeepsHighest, Least
  <2>5. CountsConsistent'
    BY <1>1, <1>8, <2>1, <2>2 DEF MergeBack, IInv, CountsConsistent
  <2> QED
    BY <2>3, <2>4, <2>5 DEF IInv
<1>9. ASSUME NEW p \in Priorities, MergeFromPipe(p) PROVE IInv'
  <2>1. /\ pending' \in Seq(Priorities) /\ job' = "merge" /\ merged' \in Nat
        /\ recorded' + merged' <= MaxRecorded
    BY <1>9, BoundsAssumption, ResizesAssumption DEF MergeFromPipe, IInv, TypeOK
  <2>2. TypeOK'
    BY <1>9, <2>1 DEF MergeFromPipe, IInv, TypeOK, counts
  <2>3. HeapInv'
    BY <1>9 DEF MergeFromPipe, IInv, HeapInv, HeapKeepsHighest, Least
  <2>4. CountsConsistent'
    BY <1>1, <1>9, <2>1 DEF MergeFromPipe, IInv, CountsConsistent, Outstanding, counts
  <2> QED
    BY <2>2, <2>3, <2>4 DEF IInv
<1>10. CASE AppendPending
  BY <1>10, AppendPendingPreserves
<1>11. CASE Release
  <2>1. seen' \in Nat /\ Len(items) <= seen' /\ job' = "free"
    <3>1. CASE job = "resize"
      BY <1>1, <1>11, <3>1 DEF Release, IInv, TypeOK, CountsConsistent
    <3>2. CASE job # "resize"
      BY <1>1, <1>11, <3>2 DEF Release, IInv, CountsConsistent
    <3> QED
      BY <3>1, <3>2
  <2>2. TypeOK'
    BY <1>11, <2>1 DEF Release, IInv, TypeOK, history
  <2>3. HeapInv'
    BY <1>11 DEF Release, IInv, HeapInv, HeapKeepsHighest, Least
  <2>4. CountsConsistent'
    BY <1>1, <1>11, <2>1 DEF Release, IInv, CountsConsistent, Outstanding
  <2> QED
    BY <2>2, <2>3, <2>4 DEF IInv
<1>12. ASSUME NEW c \in Capacities, Resize(c) PROVE IInv'
  <2>1. items' = <<>> /\ Len(items') = 0 /\ items' \in Seq(Priorities)
    BY <1>12 DEF Resize, ResetItems
  <2>2. /\ heaped' = FALSE /\ givenUpHeaped' = Nothing
        /\ capacity' = c /\ pending' = items /\ oldSeen' = seen /\ seen' = 0
        /\ job' = "resize" /\ resizes' = resizes + 1 /\ resizes < MaxResizes
    BY <1>12 DEF Resize, ResetItems
  <2>3. TypeOK'
    <3>1. Len(items') <= capacity' /\ seen' \in Nat /\ resizes' \in 0..MaxResizes
      BY <2>1, <2>2, CapacitiesAssumption, BoundsAssumption, ResizesAssumption DEF IInv, TypeOK
    <3> QED
      BY <1>12, <2>1, <2>2, <3>1 DEF Resize, IInv, TypeOK, history
  <2>4. HeapInv'
    BY <2>1, <2>2 DEF HeapInv, HeapKeepsHighest, Least
  <2>5. CountsConsistent'
    <3>1. /\ Outstanding' = 0 + Len(inFlight["worker"]) + Len(inFlight["shutdown"])
          /\ Outstanding = Len(items) + Len(inFlight["worker"]) + Len(inFlight["shutdown"])
      <4>1. inFlight' = inFlight
        BY <1>12 DEF Resize
      <4> QED
        BY <2>1, <4>1 DEF Outstanding
    <3>2. Outstanding \in Nat /\ Outstanding' \in Int /\ Outstanding' <= Outstanding
      <4>1. \A i, w, d \in Nat : /\ i + w + d \in Nat /\ 0 + w + d \in Int
                                 /\ 0 + w + d <= i + w + d
        OBVIOUS
      <4> QED
        BY <1>1, <3>1, <4>1, Zenon
    <3>3. capturedLifetime' = capturedLifetime /\ seenLifetime' = seenLifetime
      BY <1>12 DEF Resize
    <3>4. Outstanding' <= capturedLifetime' /\ capturedLifetime' <= seenLifetime'
      BY <1>1, <3>2, <3>3 DEF IInv, CountsConsistent
    <3>5. /\ Len(items') <= seen'
          /\ job' = "resize" => Len(items') + Len(pending') <= oldSeen'
      BY <1>1, <2>1, <2>2 DEF IInv, CountsConsistent
    <3> QED
      BY <3>4, <3>5 DEF CountsConsistent
  <2> QED
    BY <2>3, <2>4, <2>5 DEF IInv
<1>13. ASSUME NEW on \in BOOLEAN, SetEnabled(on) PROVE IInv'
  <2>1. TypeOK'
    BY <1>13 DEF SetEnabled, IInv, TypeOK, counts, history
  <2> QED
    BY <1>1, <1>2, <1>13, <2>1 DEF SetEnabled, counts
<1>14. CASE Reset
  <2>1. items' = <<>> /\ Len(items') = 0 /\ items' \in Seq(Priorities)
    BY <1>14 DEF Reset, ResetItems
  <2>2. /\ heaped' = FALSE /\ givenUpHeaped' = Nothing
        /\ seen' = 0 /\ job' = job /\ job = "free"
    BY <1>14 DEF Reset, ResetItems
  <2>3. TypeOK'
    <3>1. Len(items') <= capacity' /\ seen' \in Nat
      BY <1>14, <2>1, <2>2, CapacitiesAssumption DEF Reset, IInv, TypeOK
    <3> QED
      BY <1>14, <2>1, <2>2, <3>1 DEF Reset, IInv, TypeOK, history
  <2>4. HeapInv'
    BY <2>1, <2>2 DEF HeapInv, HeapKeepsHighest, Least
  <2>5. CountsConsistent'
    <3>1. /\ Outstanding' = 0 + Len(inFlight["worker"]) + Len(inFlight["shutdown"])
          /\ Outstanding = Len(items) + Len(inFlight["worker"]) + Len(inFlight["shutdown"])
      <4>1. inFlight' = inFlight
        BY <1>14 DEF Reset
      <4> QED
        BY <2>1, <4>1 DEF Outstanding
    <3>2. Outstanding \in Nat /\ Outstanding' \in Int /\ Outstanding' <= Outstanding
      <4>1. \A i, w, d \in Nat : /\ i + w + d \in Nat /\ 0 + w + d \in Int
                                 /\ 0 + w + d <= i + w + d
        OBVIOUS
      <4> QED
        BY <1>1, <3>1, <4>1, Zenon
    <3>3. capturedLifetime' = capturedLifetime /\ seenLifetime' = seenLifetime
      BY <1>14 DEF Reset
    <3>4. Outstanding' <= capturedLifetime' /\ capturedLifetime' <= seenLifetime'
      BY <1>1, <3>2, <3>3 DEF IInv, CountsConsistent
    <3>5. /\ Len(items') <= seen'
          /\ job' = "resize" => Len(items') + Len(pending') <= oldSeen'
      BY <1>1, <2>1, <2>2 DEF IInv, CountsConsistent
    <3> QED
      BY <3>4, <3>5 DEF CountsConsistent
  <2> QED
    BY <2>3, <2>4, <2>5 DEF IInv
<1>15. CASE UNCHANGED vars
  <2>1. TypeOK'
    BY <1>15 DEF vars, IInv, TypeOK, counts, history
  <2> QED
    BY <1>1, <1>2, <1>15, <2>1 DEF vars, counts
<1> QED
  BY <1>3, <1>4, <1>5, <1>6, <1>7, <1>8, <1>9, <1>10, <1>11, <1>12, <1>13,
     <1>14, <1>15 DEF Next

LEMMA IInvInit == Init => IInv
<1> SUFFICES ASSUME Init PROVE IInv
  OBVIOUS
<1>1. /\ Len(items) = 0 /\ items = <<>> /\ items \in Seq(Priorities)
      /\ pending \in Seq(Priorities)
  BY DEF Init
<1>2. inFlight \in [Senders -> Seq(Priorities)]
  BY DEF Init
<1>3. TypeOK
  <2>1. Len(items) <= capacity
    BY <1>1, CapacitiesAssumption DEF Init
  <2>2. /\ seen \in Nat /\ seenLifetime \in Int /\ capturedLifetime \in Int
        /\ oldSeen \in Nat /\ resizes \in 0..MaxResizes
        /\ recorded \in Nat /\ merged \in Nat /\ recorded + merged <= MaxRecorded
    BY BoundsAssumption, ResizesAssumption DEF Init
  <2> QED
    BY <1>1, <1>2, <2>1, <2>2 DEF Init, TypeOK
<1>4. HeapInv
  BY DEF Init, HeapInv, HeapKeepsHighest
<1>5. CountsConsistent
  <2>1. inFlight["worker"] = <<>> /\ inFlight["shutdown"] = <<>>
    BY DEF Init, Senders
  <2>2. Len(inFlight["worker"]) = 0 /\ Len(inFlight["shutdown"]) = 0
    BY <2>1
  <2>3. Outstanding = 0
    BY <1>1, <2>2 DEF Outstanding
  <2> QED
    BY <1>1, <2>3 DEF Init, CountsConsistent
<1> QED
  BY <1>3, <1>4, <1>5 DEF IInv

LEMMA InductiveInvariant == Spec => []IInv
BY IInvInit, IInvNext, PTL DEF Spec

\* The buffer's variables keep their types, and it never outgrows its capacity.
THEOREM TypeCorrect == Spec => []TypeOK
<1>1. IInv => TypeOK
  BY DEF IInv
<1> QED
  BY <1>1, InductiveInvariant, PTL

\* The counts the agent reports stay consistent with what is still around.
THEOREM CountsStayConsistent == Spec => []CountsConsistent
<1>1. IInv => CountsConsistent
  BY DEF IInv
<1> QED
  BY <1>1, InductiveInvariant, PTL

\* Once a heap, the buffer gives up only events ranked no higher than any kept.
THEOREM HeapKeepsHighestHolds == Spec => []HeapKeepsHighest
<1>1. IInv => HeapKeepsHighest
  BY DEF IInv, HeapInv
<1> QED
  BY <1>1, InductiveInvariant, PTL

-----------------------------------------------------------------------------
(* The heap, of any size: there is room in it for any number of events. *)

\* A set of naturals that is not empty has a least member.
LEMMA LeastNatural ==
  ASSUME NEW S \in SUBSET Nat, S # {}
  PROVE  \E n \in S : \A m \in S : n <= m
<1> DEFINE Less == OpToRel(<, Nat)
<1>1. IsWellFoundedOn(Less, Nat)
  BY NatLessThanWellFounded
<1> HIDE DEF Less
<1>2. PICK n \in S : \A m \in S : <<m, n>> \notin Less
  BY <1>1, WFMin
<1>3. \A m \in S : m < n => <<m, n>> \in Less
  <2> SUFFICES ASSUME NEW m \in S, m < n PROVE <<m, n>> \in Less
    OBVIOUS
  <2>1. <<m, n>> \in Nat \X Nat /\ <<m, n>>[1] < <<m, n>>[2]
    OBVIOUS
  <2> QED BY <2>1 DEF Less, OpToRel
<1>4. \A m \in S : n <= m
  <2> SUFFICES ASSUME NEW m \in S PROVE n <= m
    OBVIOUS
  <2>1. n \in Nat /\ m \in Nat /\ ~(m < n)
    BY <1>2, <1>3
  <2> QED BY <2>1
<1> QED BY <1>2, <1>4

-----------------------------------------------------------------------------
(* The type invariant *)

LEMMA SwapType ==
  ASSUME NEW h \in Seq(Priorities), NEW i \in 1..Len(h), NEW j \in 1..Len(h)
  PROVE  /\ Heap!Swap(h, i, j) \in Seq(Priorities)
         /\ Len(Heap!Swap(h, i, j)) = Len(h)
         /\ \A k \in 1..Len(h) : Heap!Swap(h, i, j)[k] = IF k = j THEN h[i]
                                                   ELSE IF k = i THEN h[j] ELSE h[k]
BY DEF Heap!Swap

LEMMA SwapFacts ==
  ASSUME Heap!TypeOK, NEW i \in 1..Len(array), NEW j \in 1..Len(array),
         array' = Heap!Swap(array, i, j)
  PROVE  /\ array' \in Seq(Priorities)
         /\ Len(array') = Len(array)
         /\ \A k \in 1..Len(array) : array'[k] = IF k = j THEN array[i]
                                    ELSE IF k = i THEN array[j] ELSE array[k]
<1>1. array \in Seq(Priorities)
  BY DEF Heap!TypeOK
<1>2. /\ Heap!Swap(array, i, j) \in Seq(Priorities)
      /\ Len(Heap!Swap(array, i, j)) = Len(array)
      /\ \A k \in 1..Len(array) : Heap!Swap(array, i, j)[k] = IF k = j THEN array[i]
                                    ELSE IF k = i THEN array[j] ELSE array[k]
  BY ZenonT(60), <1>1, SwapType
<1> QED
  BY <1>2

\* pop: the items but the last, with the last in the place of the first.
LEMMA PopFacts ==
  ASSUME Heap!TypeOK, Heap!Pop
  PROVE  /\ array' \in Seq(Priorities)
         /\ Len(array) \in Nat \ {0} /\ Len(array') = Len(array) - 1
         /\ \A k \in 1..Len(array') :
              array'[k] = IF k = 1 THEN array[Len(array)] ELSE array[k]
<1> DEFINE n == Len(array)
           s == Heap!Swap(array, 1, n)
<1>1. array \in Seq(Priorities) /\ n \in Nat \ {0} /\ 1 \in 1..n /\ n \in 1..n
  BY DEF Heap!TypeOK, Heap!Pop
<1>2. /\ s \in Seq(Priorities) /\ Len(s) = n
      /\ \A k \in 1..n : s[k] = IF k = n THEN array[1]
                                ELSE IF k = 1 THEN array[n] ELSE array[k]
  BY <1>1 DEF Heap!Swap
<1>3. array' = SubSeq(s, 1, n - 1)
  BY DEF Heap!Pop
<1> HIDE DEF s, n
<1>4. /\ SubSeq(s, 1, n - 1) \in Seq(Priorities)
      /\ Len(SubSeq(s, 1, n - 1)) = n - 1
      /\ \A k \in 1..(n - 1) : SubSeq(s, 1, n - 1)[k] = s[k]
  BY <1>1, <1>2
<1> QED
  BY <1>1, <1>2, <1>3, <1>4 DEF n

\* Indices and parents as the proofs below use them.
LEMMA IndexFacts ==
  ASSUME Heap!TypeOK
  PROVE  /\ Len(array) \in Nat /\ at \in Nat \ {0}
         /\ \A i \in 1..Len(array) : array[i] \in Int
         /\ \A i \in 2..Len(array) : Heap!ParentIndex(i) \in 1..(i - 1)
<1>1. array \in Seq(Priorities) /\ Len(array) \in Nat /\ at \in Nat \ {0}
  BY DEF Heap!TypeOK
<1>2. \A i \in 1..Len(array) : array[i] \in Int
  <2>1. \A i \in 1..Len(array) : array[i] \in Priorities
    BY <1>1
  <2> QED BY <2>1, PrioritiesAssumption
<1>3. \A i \in 2..Len(array) : Heap!ParentIndex(i) \in 1..(i - 1)
  BY <1>1 DEF Heap!ParentIndex
<1> QED
  BY <1>1, <1>2, <1>3

\* The child heapify_down compares with is a child, and no greater than either.
LEMMA SmallerChildFacts ==
  ASSUME Heap!TypeOK, Heap!InRange(Heap!LeftChildIndex(at))
  PROVE  /\ Heap!SmallerChild(at) \in 1..Len(array)
         /\ Heap!ParentIndex(Heap!SmallerChild(at)) = at
         /\ Heap!SmallerChild(at) # at
         /\ \A i \in 2..Len(array) :
              Heap!ParentIndex(i) = at => array[Heap!SmallerChild(at)] <= array[i]
<1>1. /\ Len(array) \in Nat /\ at \in Nat \ {0}
      /\ \A i \in 1..Len(array) : array[i] \in Int
  BY IndexFacts
<1>2. \A i \in 2..Len(array) : Heap!ParentIndex(i) = at => i = 2 * at \/ i = 2 * at + 1
  BY <1>1 DEF Heap!ParentIndex
<1>3. Heap!ParentIndex(2 * at) = at /\ Heap!ParentIndex(2 * at + 1) = at
  BY <1>1 DEF Heap!ParentIndex
<1>4. CASE Heap!RightSiblingSmaller(Heap!LeftChildIndex(at))
  BY <1>1, <1>2, <1>3, <1>4 DEF Heap!SmallerChild, Heap!RightSiblingSmaller, Heap!LeftChildIndex, Heap!InRange
<1>5. CASE ~Heap!RightSiblingSmaller(Heap!LeftChildIndex(at))
  BY <1>1, <1>2, <1>3, <1>5 DEF Heap!SmallerChild, Heap!RightSiblingSmaller, Heap!LeftChildIndex, Heap!InRange
<1> QED
  BY <1>4, <1>5

\* An index that is not the root's has a parent in the array.
LEMMA ParentFacts ==
  ASSUME NEW i \in Nat \ {0}
  PROVE  /\ Heap!ParentIndex(i) \in Nat
         /\ i # 1 => Heap!ParentIndex(i) \in 1..(i - 1)
BY DEF Heap!ParentIndex

LEMMA HeapTypeNext == Heap!TypeOK /\ [Heap!Next]_(Heap!vars) => Heap!TypeOK'
<1> SUFFICES ASSUME Heap!TypeOK, [Heap!Next]_(Heap!vars) PROVE Heap!TypeOK'
  OBVIOUS
<1> USE BoundsAssumption DEF Heap!CallHeapify, Heap!Return
<1>1. ASSUME NEW x \in Priorities, Heap!Push(x) PROVE Heap!TypeOK'
  BY <1>1 DEF Heap!Push, Heap!TypeOK, Heap!InRange
<1>2. CASE Heap!Pop
  BY <1>2, PopFacts DEF Heap!Pop, Heap!TypeOK
<1>3. ASSUME NEW i \in 1..Len(array), NEW x \in Priorities, Heap!ReplaceAndFix(i, x)
      PROVE  Heap!TypeOK'
  BY <1>3 DEF Heap!ReplaceAndFix, Heap!TypeOK, Heap!InRange
<1>4. CASE Heap!HeapifyUp
  <2>1. CASE at # 1 /\ array[at] < array[Heap!ParentIndex(at)]
    <3>1. at \in 1..Len(array) /\ Heap!ParentIndex(at) \in 1..Len(array)
      BY <1>4, <2>1, ParentFacts DEF Heap!HeapifyUp, Heap!TypeOK, Heap!InRange
    <3> QED
      BY <1>4, <2>1, <3>1, SwapType DEF Heap!HeapifyUp, Heap!TypeOK, Heap!InRange
  <2>2. CASE ~(at # 1 /\ array[at] < array[Heap!ParentIndex(at)])
    BY <1>4, <2>2 DEF Heap!HeapifyUp, Heap!TypeOK
  <2> QED
    BY <2>1, <2>2
<1>5. CASE Heap!HeapifyDown
  <2>1. CASE Heap!InRange(Heap!LeftChildIndex(at)) /\ array[Heap!SmallerChild(at)] < array[at]
    <3>1. at \in 1..Len(array) /\ Heap!SmallerChild(at) \in 1..Len(array)
      BY <2>1, SmallerChildFacts DEF Heap!TypeOK, Heap!InRange, Heap!LeftChildIndex
    <3> QED
      BY <1>5, <2>1, <3>1, SwapType DEF Heap!HeapifyDown, Heap!TypeOK
  <2>2. CASE ~(Heap!InRange(Heap!LeftChildIndex(at)) /\ array[Heap!SmallerChild(at)] < array[at])
    BY <1>5, <2>2 DEF Heap!HeapifyDown, Heap!TypeOK
  <2> QED
    BY <2>1, <2>2
<1>6. CASE UNCHANGED Heap!vars
  BY <1>6 DEF Heap!vars, Heap!TypeOK, Heap!InRange
<1> QED
  BY <1>1, <1>2, <1>3, <1>4, <1>5, <1>6 DEF Heap!Next

\* Types of the heap's array and of the recursion under way.
THEOREM HeapTypeCorrect == HeapSpec => []Heap!TypeOK
<1>1. Heap!Init => Heap!TypeOK
  BY BoundsAssumption DEF Heap!Init, Heap!TypeOK
<1> QED
  BY <1>1, HeapTypeNext, PTL DEF HeapSpec, Heap!Spec

-----------------------------------------------------------------------------
(* The order of the heap *)

\* What may be out of order: while an item goes up, it and its parent; while
\* one goes down, it and its children.  The children of the item under way
\* are no less than its parent, so it may change places with either.
OrderedAt(i) == array[Heap!ParentIndex(i)] <= array[i]

Bridged ==
  \A i \in 2..Len(array) :
    Heap!ParentIndex(i) = at /\ at # 1 => array[Heap!ParentIndex(at)] <= array[i]

Order ==
  /\ heapify = "none" => \A i \in 2..Len(array) : OrderedAt(i)
  /\ heapify = "up"   => Bridged /\ \A i \in 2..Len(array) : i # at => OrderedAt(i)
  /\ heapify = "down" =>
       Bridged /\ \A i \in 2..Len(array) : Heap!ParentIndex(i) # at => OrderedAt(i)

\* push: only the new item may be less than its parent, and it has no child.
LEMMA PushOrder ==
  ASSUME Heap!TypeOK, Order, NEW x \in Priorities, Heap!Push(x)
  PROVE  Order'
<1>1. /\ heapify = "none" /\ heapify' = "up" /\ at' = Len(array) + 1
      /\ array' = Append(array, x)
  BY DEF Heap!Push, Heap!CallHeapify
<1>2. /\ Len(array') = Len(array) + 1
      /\ \A i \in 1..Len(array) : array'[i] = array[i]
  BY <1>1 DEF Heap!TypeOK
<1>3. ASSUME NEW i \in 2..Len(array'), i # at' PROVE OrderedAt(i)'
  <2>1. i \in 2..Len(array) /\ Heap!ParentIndex(i) \in 1..Len(array)
    BY <1>1, <1>2, <1>3, IndexFacts
  <2>2. OrderedAt(i)
    BY <1>1, <2>1 DEF Order
  <2> QED
    BY <1>2, <2>1, <2>2 DEF OrderedAt, Heap!ParentIndex
<1>4. \A i \in 2..Len(array') : Heap!ParentIndex(i) # at'
  BY <1>1, <1>2, IndexFacts DEF Heap!ParentIndex
<1>5. Bridged'
  BY <1>4 DEF Bridged, Heap!ParentIndex
<1> QED
  BY <1>1, <1>3, <1>5 DEF Order

\* pop: only the root has changed.
LEMMA PopOrder ==
  ASSUME Heap!TypeOK, Order, Heap!Pop
  PROVE  Order'
<1>1. heapify = "none" /\ heapify' = "down" /\ at' = 1
  BY DEF Heap!Pop, Heap!CallHeapify
<1>2. /\ Len(array') = Len(array) - 1 /\ Len(array) \in Nat
      /\ \A i \in 2..Len(array') : array'[i] = array[i]
  BY PopFacts
<1>3. ASSUME NEW i \in 2..Len(array'), Heap!ParentIndex(i) # 1 PROVE OrderedAt(i)'
  <2>1. i \in 2..Len(array) /\ Heap!ParentIndex(i) \in 2..Len(array')
    BY <1>2, <1>3, IndexFacts DEF Heap!ParentIndex
  <2>2. OrderedAt(i)
    BY <1>1, <2>1 DEF Order
  <2> QED
    BY <1>2, <2>1, <2>2 DEF OrderedAt, Heap!ParentIndex
<1> QED
  BY <1>1, <1>3 DEF Order, Bridged, Heap!ParentIndex

\* fix: only the item at the given index has changed, and its direction is
\* that in which it may be out of order.
LEMMA ReplaceOrder ==
  ASSUME Heap!TypeOK, Order, NEW j \in 1..Len(array), NEW x \in Priorities, Heap!ReplaceAndFix(j, x)
  PROVE  Order'
<1>1. /\ heapify = "none" /\ at' = j
      /\ array' = [array EXCEPT ![j] = x]
      /\ heapify' = IF Heap!InRange(Heap!ParentIndex(j)) /\ array[Heap!ParentIndex(j)] > x
                    THEN "up" ELSE "down"
  BY DEF Heap!ReplaceAndFix, Heap!CallHeapify
<1>2. /\ Len(array') = Len(array)
      /\ array'[j] = x
      /\ \A i \in 1..Len(array) : i # j => array'[i] = array[i]
  BY <1>1 DEF Heap!TypeOK
<1>3. x \in Int /\ \A i \in 2..Len(array) : OrderedAt(i)
  BY <1>1, PrioritiesAssumption DEF Order
<1>4. ASSUME NEW i \in 2..Len(array), i # j, Heap!ParentIndex(i) # j PROVE OrderedAt(i)'
  <2>1. Heap!ParentIndex(i) \in 1..Len(array)
    BY IndexFacts
  <2> QED
    BY <1>2, <1>3, <1>4, <2>1 DEF OrderedAt, Heap!ParentIndex
<1>5. Bridged'
  <2> SUFFICES ASSUME NEW i \in 2..Len(array), Heap!ParentIndex(i) = j, j # 1
               PROVE  array'[Heap!ParentIndex(j)] <= array'[i]
    BY <1>1, <1>2 DEF Bridged, Heap!ParentIndex
  <2>1. j \in 2..Len(array) /\ Heap!ParentIndex(j) \in 1..(j - 1) /\ i # j
    BY IndexFacts
  <2>2. array[Heap!ParentIndex(j)] <= array[j] /\ array[j] <= array[i]
    BY <1>3, <2>1 DEF OrderedAt
  <2>3. array'[Heap!ParentIndex(j)] = array[Heap!ParentIndex(j)] /\ array'[i] = array[i]
    BY <1>2, <2>1
  <2> QED
    BY <2>1, <2>2, <2>3, IndexFacts
<1>6. CASE Heap!InRange(Heap!ParentIndex(j)) /\ array[Heap!ParentIndex(j)] > x
  <2>1. ASSUME NEW i \in 2..Len(array), Heap!ParentIndex(i) = j PROVE OrderedAt(i)'
    <3>1. j # 1 /\ Heap!ParentIndex(j) \in 1..(j - 1)
      <4>1. j = 1 => ~Heap!InRange(Heap!ParentIndex(j))
        BY DEF Heap!ParentIndex, Heap!InRange
      <4> QED BY <1>6, <4>1, IndexFacts
    <3>2. i # j
      BY <2>1, IndexFacts
    <3>3. array'[Heap!ParentIndex(j)] <= array'[i]
      BY <1>1, <1>2, <1>5, <2>1, <3>1 DEF Bridged, Heap!ParentIndex
    <3>4. array'[Heap!ParentIndex(j)] = array[Heap!ParentIndex(j)] /\ array'[i] = array[i]
      BY <1>2, <3>1, <3>2
    <3>5. x <= array'[i]
      BY <1>3, <1>6, <3>1, <3>3, <3>4, IndexFacts
    <3> QED
      BY <1>2, <2>1, <3>5 DEF OrderedAt, Heap!ParentIndex
  <2> QED
    BY <1>1, <1>2, <1>4, <1>5, <1>6, <2>1 DEF Order
<1>7. CASE ~(Heap!InRange(Heap!ParentIndex(j)) /\ array[Heap!ParentIndex(j)] > x)
  <2>1. j # 1 => OrderedAt(j)'
    <3> SUFFICES ASSUME j # 1 PROVE OrderedAt(j)'
      OBVIOUS
    <3>1. j \in 2..Len(array) /\ Heap!ParentIndex(j) \in 1..(j - 1)
      BY IndexFacts
    <3>2. Heap!InRange(Heap!ParentIndex(j)) /\ array[Heap!ParentIndex(j)] \in Int
      BY <3>1, IndexFacts DEF Heap!InRange
    <3>3. array[Heap!ParentIndex(j)] <= x
      BY <1>3, <1>7, <3>2
    <3> QED
      BY <1>2, <3>1, <3>3 DEF OrderedAt, Heap!ParentIndex
  <2> QED
    BY <1>1, <1>2, <1>4, <1>5, <1>7, <2>1 DEF Order
<1> QED
  BY <1>6, <1>7

\* heapify_up: the item is in order, or changes places with its parent.
LEMMA UpOrder ==
  ASSUME Heap!TypeOK, Order, Heap!HeapifyUp
  PROVE  Order'
<1>1. /\ heapify = "up" /\ Bridged
      /\ \A i \in 2..Len(array) : i # at => OrderedAt(i)
      /\ at \in 1..Len(array)
  BY DEF Heap!HeapifyUp, Order, Heap!TypeOK, Heap!InRange
<1> DEFINE parent == Heap!ParentIndex(at)
<1>2. CASE ~(at # 1 /\ array[at] < array[parent])
  <2>1. heapify' = "none" /\ array' = array
    BY <1>2 DEF Heap!HeapifyUp, Heap!Return
  <2>2. at # 1 => OrderedAt(at)
    <3> SUFFICES ASSUME at # 1 PROVE OrderedAt(at)
      OBVIOUS
    <3>1. array[at] \in Int /\ array[parent] \in Int
      BY <1>1, IndexFacts
    <3> QED
      BY <1>2, <3>1 DEF OrderedAt
  <2>3. \A i \in 2..Len(array) : OrderedAt(i)
    BY <1>1, <2>2
  <2> QED
    BY <2>1, <2>3 DEF Order, OrderedAt
<1>3. CASE at # 1 /\ array[at] < array[parent]
  <2>1. /\ heapify' = "up" /\ at' = parent
        /\ array' = Heap!Swap(array, at, parent)
    BY <1>3 DEF Heap!HeapifyUp, Heap!CallHeapify
  <2>2. at \in 2..Len(array) /\ parent \in 1..(at - 1) /\ parent \in 1..Len(array)
    BY <1>1, <1>3, IndexFacts
  <2>3. /\ Len(array') = Len(array)
        /\ \A k \in 1..Len(array) : array'[k] = IF k = parent THEN array[at]
                                    ELSE IF k = at THEN array[parent] ELSE array[k]
    BY <2>1, <2>2, SwapFacts
  <2>4. ASSUME NEW i \in 2..Len(array), i # parent PROVE OrderedAt(i)'
    <3>0. Heap!ParentIndex(i) \in 1..Len(array) /\ Heap!ParentIndex(i) # i
      BY IndexFacts
    <3>1. CASE i = at
      BY <1>3, <2>2, <2>3, <3>0, <3>1, IndexFacts DEF OrderedAt, Heap!ParentIndex
    <3>2. CASE i # at /\ Heap!ParentIndex(i) = parent
      <4>1. array[parent] <= array[i]
        BY <1>1, <3>2 DEF OrderedAt
      <4>2. array'[Heap!ParentIndex(i)] = array[at] /\ array'[i] = array[i]
        BY <2>3, <2>4, <3>0, <3>2
      <4>3. array[at] <= array[i]
        BY <1>3, <2>2, <4>1, IndexFacts
      <4> QED
        BY <4>2, <4>3 DEF OrderedAt, Heap!ParentIndex
    <3>3. CASE i # at /\ Heap!ParentIndex(i) = at
      <4>1. array[parent] <= array[i]
        BY <1>1, <1>3, <3>3 DEF Bridged
      <4>2. array'[Heap!ParentIndex(i)] = array[parent] /\ array'[i] = array[i]
        BY <2>2, <2>3, <2>4, <3>0, <3>3
      <4> QED
        BY <4>1, <4>2 DEF OrderedAt, Heap!ParentIndex
    <3>4. CASE i # at /\ Heap!ParentIndex(i) \notin {at, parent}
      <4>1. OrderedAt(i)
        BY <1>1, <3>4
      <4>2. array'[Heap!ParentIndex(i)] = array[Heap!ParentIndex(i)] /\ array'[i] = array[i]
        BY <2>3, <2>4, <3>0, <3>4
      <4> QED
        BY <4>1, <4>2 DEF OrderedAt, Heap!ParentIndex
    <3> QED
      BY <3>1, <3>2, <3>3, <3>4
  <2>5. Bridged'
    <3> SUFFICES ASSUME NEW i \in 2..Len(array), Heap!ParentIndex(i) = parent, parent # 1
                 PROVE  array'[Heap!ParentIndex(parent)] <= array'[i]
      BY <2>1, <2>3 DEF Bridged, Heap!ParentIndex
    <3>1. /\ parent \in 2..Len(array) /\ Heap!ParentIndex(parent) \in 1..(parent - 1)
          /\ i # parent
      BY <2>2, IndexFacts
    <3>2. array[Heap!ParentIndex(parent)] <= array[parent]
      BY <1>1, <2>2, <3>1 DEF OrderedAt
    <3>3. array'[Heap!ParentIndex(parent)] = array[Heap!ParentIndex(parent)]
      BY <2>2, <2>3, <3>1
    <3>4. CASE i = at
      BY <2>2, <2>3, <3>2, <3>3, <3>4
    <3>5. CASE i # at
      <4>1. array[parent] <= array[i] /\ array'[i] = array[i]
        BY <1>1, <2>3, <3>1, <3>5 DEF OrderedAt
      <4>2. /\ array[Heap!ParentIndex(parent)] \in Int /\ array[parent] \in Int
            /\ array[i] \in Int
        BY <2>2, <3>1, IndexFacts
      <4> QED
        BY <3>2, <3>3, <4>1, <4>2
    <3> QED
      BY <3>4, <3>5
  <2>6. /\ heapify' = "up" /\ Len(array') = Len(array)
        /\ \A i \in 2..Len(array') : i # at' => OrderedAt(i)'
    BY <2>1, <2>3, <2>4
  <2> QED
    BY <2>5, <2>6 DEF Order
<1> QED
  BY <1>2, <1>3

\* heapify_down: the item is in order, or changes places with its smaller child.
LEMMA DownOrder ==
  ASSUME Heap!TypeOK, Order, Heap!HeapifyDown
  PROVE  Order'
<1>1. /\ heapify = "down" /\ Bridged
      /\ \A i \in 2..Len(array) : Heap!ParentIndex(i) # at => OrderedAt(i)
  BY DEF Heap!HeapifyDown, Order
<1>2. CASE ~Heap!InRange(Heap!LeftChildIndex(at))
  <2>1. heapify' = "none" /\ array' = array
    BY <1>2 DEF Heap!HeapifyDown, Heap!Return
  <2>2. \A i \in 2..Len(array) : Heap!ParentIndex(i) # at
    BY <1>2, IndexFacts DEF Heap!InRange, Heap!LeftChildIndex, Heap!ParentIndex
  <2> QED
    BY <1>1, <2>1, <2>2 DEF Order, OrderedAt
<1> DEFINE child == Heap!SmallerChild(at)
<1>3. CASE Heap!InRange(Heap!LeftChildIndex(at)) /\ ~(array[child] < array[at])
  <2>1. heapify' = "none" /\ array' = array
    BY <1>3 DEF Heap!HeapifyDown, Heap!Return
  <2>2. /\ child \in 1..Len(array) /\ at \in 1..Len(array)
        /\ \A i \in 2..Len(array) : Heap!ParentIndex(i) = at => array[child] <= array[i]
    BY <1>3, SmallerChildFacts, IndexFacts DEF Heap!InRange, Heap!LeftChildIndex
  <2>3. ASSUME NEW i \in 2..Len(array), Heap!ParentIndex(i) = at PROVE OrderedAt(i)
    BY <1>3, <2>2, <2>3, IndexFacts DEF OrderedAt
  <2> QED
    BY <1>1, <2>1, <2>3 DEF Order, OrderedAt
<1>4. CASE Heap!InRange(Heap!LeftChildIndex(at)) /\ array[child] < array[at]
  <2>1. /\ heapify' = "down" /\ at' = child
        /\ array' = Heap!Swap(array, at, child)
    BY <1>4 DEF Heap!HeapifyDown, Heap!CallHeapify
  <2>2. /\ child \in 1..Len(array) /\ Heap!ParentIndex(child) = at /\ child # at
        /\ at \in 1..Len(array)
        /\ \A i \in 2..Len(array) : Heap!ParentIndex(i) = at => array[child] <= array[i]
    BY <1>4, SmallerChildFacts, IndexFacts DEF Heap!InRange, Heap!LeftChildIndex
  <2>3. /\ Len(array') = Len(array)
        /\ \A k \in 1..Len(array) : array'[k] = IF k = child THEN array[at]
                                    ELSE IF k = at THEN array[child] ELSE array[k]
    BY <2>1, <2>2, SwapFacts
  <2>4. child \in 2..Len(array)
    BY <2>2, IndexFacts DEF Heap!ParentIndex
  <2>5. ASSUME NEW i \in 2..Len(array), Heap!ParentIndex(i) # child PROVE OrderedAt(i)'
    <3>0. Heap!ParentIndex(i) \in 1..Len(array) /\ Heap!ParentIndex(i) # i
      BY IndexFacts
    <3>1. CASE i = child
      <4>1. array'[Heap!ParentIndex(i)] = array[child] /\ array'[i] = array[at]
        BY <2>2, <2>3, <3>1
      <4>2. array[child] <= array[at]
        BY <1>4, <2>2, IndexFacts
      <4> QED
        BY <4>1, <4>2 DEF OrderedAt, Heap!ParentIndex
    <3>2. CASE i # child /\ Heap!ParentIndex(i) = at
      <4>1. array'[Heap!ParentIndex(i)] = array[child] /\ array'[i] = array[i]
        BY <2>2, <2>3, <3>0, <3>2
      <4> QED
        BY <2>2, <3>2, <4>1 DEF OrderedAt, Heap!ParentIndex
    <3>3. CASE i = at
      <4>1. array'[Heap!ParentIndex(i)] = array[Heap!ParentIndex(at)] /\ array'[i] = array[child]
        BY <2>2, <2>3, <2>5, <3>0, <3>3
      <4>2. array[Heap!ParentIndex(at)] <= array[child]
        BY <1>1, <2>2, <2>4, <3>3 DEF Bridged
      <4> QED
        BY <4>1, <4>2 DEF OrderedAt, Heap!ParentIndex
    <3>4. CASE i \notin {at, child} /\ Heap!ParentIndex(i) # at
      <4>1. OrderedAt(i)
        BY <1>1, <3>4
      <4>2. array'[Heap!ParentIndex(i)] = array[Heap!ParentIndex(i)] /\ array'[i] = array[i]
        BY <2>3, <2>5, <3>0, <3>4
      <4> QED
        BY <4>1, <4>2 DEF OrderedAt, Heap!ParentIndex
    <3> QED
      BY <3>1, <3>2, <3>3, <3>4
  <2>6. Bridged'
    <3> SUFFICES ASSUME NEW i \in 2..Len(array), Heap!ParentIndex(i) = child
                 PROVE  array'[Heap!ParentIndex(child)] <= array'[i]
      BY <2>1, <2>3 DEF Bridged, Heap!ParentIndex
    <3>1. i \notin {at, child}
      BY <2>2, <2>4, IndexFacts DEF Heap!ParentIndex
    <3>2. array'[Heap!ParentIndex(child)] = array[child] /\ array'[i] = array[i]
      BY <2>2, <2>3, <3>1
    <3> QED
      BY <1>1, <2>2, <3>2 DEF OrderedAt
  <2>7. /\ heapify' = "down" /\ Len(array') = Len(array)
        /\ \A i \in 2..Len(array') : Heap!ParentIndex(i) # at' => OrderedAt(i)'
    BY <2>1, <2>3, <2>5
  <2> QED
    BY <2>6, <2>7 DEF Order
<1> QED
  BY <1>2, <1>3, <1>4

LEMMA OrderNext == Heap!TypeOK /\ Order /\ [Heap!Next]_(Heap!vars) => Order'
<1>1. UNCHANGED Heap!vars /\ Order => Order'
  BY DEF Heap!vars, Order, Bridged, OrderedAt
<1> QED
  BY <1>1, PushOrder, PopOrder, ReplaceOrder, UpOrder, DownOrder DEF Heap!Next

LEMMA OrderInvariant == HeapSpec => []Order
<1>1. Heap!Init => Order
  BY DEF Heap!Init, Order
<1> QED
  BY <1>1, OrderNext, HeapTypeCorrect, PTL DEF HeapSpec, Heap!Spec

\* When push, pop or fix is over, no item is below its parent, in a heap of
\* any size and wherever it was changed.
THEOREM HeapOrderHolds == HeapSpec => []HeapOrder
<1>1. Order => HeapOrder
  BY DEF Order, HeapOrder, Heap!HeapOrder, OrderedAt
<1> QED
  BY <1>1, OrderInvariant, PTL

-----------------------------------------------------------------------------
(* The heap is a priority queue: counting the array of a priority.  Around *)
(* an index i, the count splits into the item there and all the others.    *)

One(x, y) == IF x = y THEN 1 ELSE 0
Others(h, i, y) == {k \in 1..Len(h) : k # i /\ h[k] = y}

\* Heap's count is the cardinality the theorems on finite sets are about.
LEMMA CountIs ==
  ASSUME NEW h, NEW y
  PROVE  Heap!Count(h, y) = Cardinality({k \in 1..Len(h) : h[k] = y})
<1>1. ASSUME NEW S PROVE Heap!Cardinality(S) = Cardinality(S)
  BY DEF Heap!Cardinality, Cardinality
<1> QED
  BY <1>1 DEF Heap!Count

LEMMA OthersFinite ==
  ASSUME NEW h \in Seq(Priorities), NEW i, NEW y
  PROVE  IsFiniteSet(Others(h, i, y)) /\ Cardinality(Others(h, i, y)) \in Nat
<1>1. Len(h) \in Nat
  OBVIOUS
<1>2. IsFiniteSet(1..Len(h)) /\ Others(h, i, y) \in SUBSET (1..Len(h))
  BY <1>1, FS_Interval DEF Others
<1>3. IsFiniteSet(Others(h, i, y))
  BY <1>2, FS_Subset
<1> QED
  BY <1>3, FS_CardinalityType

LEMMA CountSplit ==
  ASSUME NEW h \in Seq(Priorities), NEW i \in 1..Len(h), NEW y
  PROVE  Heap!Count(h, y) = Cardinality(Others(h, i, y)) + One(h[i], y)
<1> DEFINE S == Others(h, i, y)
<1>1. IsFiniteSet(S) /\ Cardinality(S) \in Nat /\ i \notin S
  BY OthersFinite DEF Others
<1>2. CASE h[i] = y
  <2>1. {k \in 1..Len(h) : h[k] = y} = S \cup {i}
    BY <1>2 DEF Others
  <2>2. Cardinality(S \cup {i}) = Cardinality(S) + 1
    BY <1>1, FS_AddElement
  <2> QED BY <1>2, <2>1, <2>2, CountIs DEF One
<1>3. CASE h[i] # y
  <2>1. {k \in 1..Len(h) : h[k] = y} = S
    BY <1>3 DEF Others
  <2>2. Heap!Count(h, y) = Cardinality(S) /\ One(h[i], y) = 0
    BY <1>3, <2>1, CountIs DEF One
  <2> QED BY <1>1, <2>2
<1> QED BY <1>2, <1>3

LEMMA CountNat ==
  ASSUME NEW h \in Seq(Priorities), NEW y
  PROVE  Heap!Count(h, y) \in Nat
<1>1. {k \in 1..Len(h) : h[k] = y} = Others(h, 0, y)
  BY DEF Others
<1> QED
  BY <1>1, OthersFinite, CountIs

LEMMA CountReplace ==
  ASSUME NEW h \in Seq(Priorities), NEW i \in 1..Len(h), NEW x \in Priorities, NEW y
  PROVE  Heap!Count([h EXCEPT ![i] = x], y) = Heap!Count(h, y) - One(h[i], y) + One(x, y)
<1> DEFINE g == [h EXCEPT ![i] = x]
<1>1. g \in Seq(Priorities) /\ Len(g) = Len(h) /\ g[i] = x
      /\ \A k \in 1..Len(h) : k # i => g[k] = h[k]
  OBVIOUS
<1> HIDE DEF g
<1>2. Others(g, i, y) = Others(h, i, y)
  BY <1>1 DEF Others
<1>3. /\ Heap!Count(g, y) = Cardinality(Others(h, i, y)) + One(x, y)
      /\ Heap!Count(h, y) = Cardinality(Others(h, i, y)) + One(h[i], y)
      /\ Cardinality(Others(h, i, y)) \in Nat
  BY <1>1, <1>2, CountSplit, OthersFinite
<1>4. One(h[i], y) \in Nat /\ One(x, y) \in Nat
  BY DEF One
<1> QED
  BY <1>3, <1>4 DEF g

LEMMA CountSwap ==
  ASSUME NEW h \in Seq(Priorities), NEW i \in 1..Len(h), NEW j \in 1..Len(h), NEW y
  PROVE  Heap!Count(Heap!Swap(h, i, j), y) = Heap!Count(h, y)
<1> DEFINE g == [h EXCEPT ![i] = h[j]]
<1>1. /\ h[i] \in Priorities /\ h[j] \in Priorities
      /\ g \in Seq(Priorities) /\ Len(g) = Len(h) /\ g[j] = h[j]
  <2>1. h[i] \in Priorities /\ h[j] \in Priorities
    OBVIOUS
  <2>2. g \in Seq(Priorities) /\ Len(g) = Len(h)
    BY <2>1
  <2>3. g[j] = h[j]
    BY <2>1
  <2> QED BY <2>1, <2>2, <2>3
<1>2. Heap!Swap(h, i, j) = [g EXCEPT ![j] = h[i]]
  BY DEF Heap!Swap
<1>3. Heap!Count(g, y) = Heap!Count(h, y) - One(h[i], y) + One(h[j], y)
  BY ZenonT(60), <1>1, CountReplace
<1> HIDE DEF g
<1>4. Heap!Count([g EXCEPT ![j] = h[i]], y) = Heap!Count(g, y) - One(g[j], y) + One(h[i], y)
  BY <1>1, CountReplace
<1>5. /\ One(h[i], y) \in Nat /\ One(h[j], y) \in Nat
      /\ Heap!Count(h, y) \in Nat /\ g[j] = h[j]
  BY <1>1, CountNat DEF One
<1> QED
  BY <1>2, <1>3, <1>4, <1>5

LEMMA CountAppend ==
  ASSUME NEW h \in Seq(Priorities), NEW x \in Priorities, NEW y
  PROVE  Heap!Count(Append(h, x), y) = Heap!Count(h, y) + One(x, y)
<1> DEFINE g == Append(h, x)
           n == Len(h)
<1>1. /\ g \in Seq(Priorities) /\ n \in Nat /\ Len(g) = n + 1 /\ g[n + 1] = x
      /\ \A k \in 1..n : g[k] = h[k]
  OBVIOUS
<1> HIDE DEF g
<1>2. Others(g, n + 1, y) = {k \in 1..Len(h) : h[k] = y}
  BY <1>1 DEF Others
<1>3. n + 1 \in 1..Len(g)
  BY <1>1
<1>4. Heap!Count(g, y) = Cardinality(Others(g, n + 1, y)) + One(g[n + 1], y)
  BY <1>1, <1>3, CountSplit
<1> QED
  BY <1>1, <1>2, <1>4, CountIs DEF g

LEMMA CountRemoveLast ==
  ASSUME NEW h \in Seq(Priorities), h # <<>>, NEW y
  PROVE  Heap!Count(h, y) = Heap!Count(SubSeq(h, 1, Len(h) - 1), y) + One(h[Len(h)], y)
<1> DEFINE g == SubSeq(h, 1, Len(h) - 1)
           n == Len(h)
<1>1. n \in Nat \ {0} /\ n \in 1..n
  OBVIOUS
<1> HIDE DEF n
<1>2. /\ Len(g) = n - 1
      /\ \A k \in 1..(n - 1) : g[k] = h[k]
  <2>1. h \in Seq(Priorities) /\ Len(h) = n
    BY DEF n
  <2>2. /\ SubSeq(h, 1, n - 1) \in Seq(Priorities)
        /\ Len(SubSeq(h, 1, n - 1)) = n - 1
        /\ \A k \in 1..(n - 1) : SubSeq(h, 1, n - 1)[k] = h[k]
    BY <1>1, <2>1
  <2> QED BY <2>2 DEF n
<1> USE DEF n
<1> HIDE DEF g
<1>3. Others(h, n, y) = {k \in 1..Len(g) : g[k] = y}
  BY <1>1, <1>2 DEF Others
<1>4. Heap!Count(h, y) = Cardinality(Others(h, n, y)) + One(h[n], y)
  BY <1>1, CountSplit
<1> QED
  BY <1>3, <1>4, CountIs DEF g

\* A priority counts if and only if an item has it.
LEMMA CountedIsThere ==
  ASSUME NEW h \in Seq(Priorities), NEW y
  PROVE  Heap!Count(h, y) > 0 <=> \E i \in 1..Len(h) : h[i] = y
<1> DEFINE S == {k \in 1..Len(h) : h[k] = y}
<1>1. IsFiniteSet(S)
  <2>1. S = Others(h, 0, y)
    BY DEF Others
  <2> QED BY <2>1, OthersFinite
<1>2. Cardinality(S) \in Nat /\ (Cardinality(S) = 0 <=> S = {})
  BY <1>1, FS_EmptySet, FS_CardinalityType
<1>3. Heap!Count(h, y) = Cardinality(S)
  BY CountIs
<1>4. S # {} <=> \E i \in 1..Len(h) : h[i] = y
  OBVIOUS
<1> QED
  BY <1>2, <1>3, <1>4

-----------------------------------------------------------------------------
(* ... and its steps *)

\* In a heap in order the first item is a least one: the least index of a
\* smaller item would have a parent that is smaller too.
LEMMA RootLeast ==
  ASSUME Heap!TypeOK, \A i \in 2..Len(array) : OrderedAt(i)
  PROVE  \A i \in 1..Len(array) : array[1] <= array[i]
<1> DEFINE Below == {i \in 1..Len(array) : ~(array[1] <= array[i])}
<1>1. SUFFICES ASSUME Below # {} PROVE FALSE
  OBVIOUS
<1>2. Below \in SUBSET Nat
  BY IndexFacts
<1>3. PICK i \in Below : \A m \in Below : i <= m
  BY <1>1, <1>2, LeastNatural
<1>4. i \in 1..Len(array) /\ ~(array[1] <= array[i])
  OBVIOUS
<1> HIDE DEF Below
<1>5. i \in 2..Len(array) /\ 1 \in 1..Len(array)
  BY <1>4, IndexFacts
<1>6. Heap!ParentIndex(i) \in 1..(i - 1) /\ Heap!ParentIndex(i) \in 1..Len(array)
  BY <1>5, IndexFacts
<1>7. /\ array[1] \in Int /\ array[i] \in Int /\ array[Heap!ParentIndex(i)] \in Int
      /\ array[Heap!ParentIndex(i)] <= array[i]
  BY <1>5, <1>6, IndexFacts DEF OrderedAt
<1>8. Heap!ParentIndex(i) \in Below
  BY <1>4, <1>6, <1>7 DEF Below
<1> QED
  BY <1>3, <1>5, <1>6, <1>8

LEMMA BagFacts ==
  ASSUME Heap!TypeOK
  PROVE  /\ array \in Seq(Priorities)
         /\ Heap!BagOf(array) = [y \in Priorities |-> Heap!Count(array, y)]
         /\ \A y \in Priorities : Heap!BagOf(array)[y] \in Nat
         /\ Heap!Queue!Held = {y \in Priorities : \E i \in 1..Len(array) : array[i] = y}
<1>1. array \in Seq(Priorities)
  BY DEF Heap!TypeOK
<1> QED
  BY <1>1, CountNat, CountedIsThere DEF Heap!BagOf, Heap!Queue!Held

LEMMA PushInserts ==
  ASSUME Heap!TypeOK, NEW x \in Priorities, Heap!Push(x)
  PROVE  Heap!Queue!Insert(x)
<1>1. array \in Seq(Priorities) /\ array' = Append(array, x)
  BY DEF Heap!TypeOK, Heap!Push
<1>2. \A y \in Priorities : Heap!Count(array', y) = Heap!Count(array, y) + One(x, y)
  BY <1>1, CountAppend
<1>3. \A y \in Priorities : Heap!Count(array, y) \in Nat
  BY <1>1, CountNat
<1>4. \A y \in Priorities : Heap!Count(array', y) = [Heap!BagOf(array) EXCEPT ![x] = @ + 1][y]
  BY <1>2, <1>3 DEF Heap!BagOf, One
<1>5. Heap!BagOf(array)' = [y \in Priorities |-> Heap!Count(array', y)]
  BY DEF Heap!BagOf
<1>6. /\ [Heap!BagOf(array) EXCEPT ![x] = @ + 1]
           = [y \in Priorities |-> [Heap!BagOf(array) EXCEPT ![x] = @ + 1][y]]
  BY DEF Heap!BagOf
<1>7. heapify = "none" /\ heapify' = "up"
  BY DEF Heap!Push, Heap!CallHeapify
<1> QED
  BY <1>4, <1>5, <1>6, <1>7 DEF Heap!Queue!Insert, Heap!Queue!Begin

LEMMA PopTakesLeast ==
  ASSUME Heap!TypeOK, Order, Heap!Pop
  PROVE  Heap!Queue!TakeLeast
<1> DEFINE n == Len(array)
           s == Heap!Swap(array, 1, n)
           least == array[1]
<1>1. /\ array \in Seq(Priorities) /\ n \in Nat \ {0}
      /\ 1 \in 1..n /\ n \in 1..n /\ least \in Priorities
  BY DEF Heap!TypeOK, Heap!Pop
<1>2. s \in Seq(Priorities) /\ Len(s) = n /\ s[n] = least
  BY <1>1, SwapType
<1>3. array' = SubSeq(s, 1, Len(s) - 1)
  BY <1>2 DEF Heap!Pop
<1>4. \A y \in Priorities : Heap!Count(s, y) = Heap!Count(array, y)
  BY <1>1, CountSwap
<1>5. s # <<>>
  BY <1>1, <1>2
<1> HIDE DEF s
<1>6. \A y \in Priorities : Heap!Count(s, y) = Heap!Count(array', y) + One(s[Len(s)], y)
  BY <1>2, <1>3, <1>5, CountRemoveLast
<1>7. array' \in Seq(Priorities)
  BY PopFacts
<1>8. \A y \in Priorities : Heap!Count(array, y) \in Nat /\ Heap!Count(array', y) \in Nat
  BY <1>1, <1>7, CountNat
<1>9. Heap!BagOf(array)' = [Heap!BagOf(array) EXCEPT ![least] = @ - 1]
  <2> DEFINE fewer == [Heap!BagOf(array) EXCEPT ![least] = @ - 1]
  <2>1. \A y \in Priorities : fewer[y] = Heap!Count(array, y) - One(least, y)
    BY <1>1, <1>8 DEF Heap!BagOf, One
  <2>2. fewer = [y \in Priorities |-> fewer[y]]
    BY DEF Heap!BagOf
  <2>3. Heap!BagOf(array)' = [y \in Priorities |-> Heap!Count(array', y)]
    BY DEF Heap!BagOf
  <2>4. \A y \in Priorities : Heap!Count(array, y) = Heap!Count(array', y) + One(least, y)
    BY <1>2, <1>4, <1>6
  <2>5. \A y \in Priorities : One(least, y) \in Nat
    BY DEF One
  <2> HIDE DEF fewer, least
  <2>6. \A y \in Priorities : Heap!Count(array', y) = fewer[y]
    BY <1>8, <2>1, <2>4, <2>5
  <2>7. Heap!BagOf(array)' = fewer
    BY <2>2, <2>3, <2>6
  <2> QED
    BY <2>7 DEF fewer, least
<1>10. least \in Heap!Queue!Held /\ \A y \in Heap!Queue!Held : least <= y
  <2>1. \A i \in 1..Len(array) : array[1] <= array[i]
    BY RootLeast DEF Order, Heap!Pop
  <2> QED
    BY <1>1, <2>1, BagFacts
<1>11. heapify = "none" /\ heapify' = "down"
  BY DEF Heap!Pop, Heap!CallHeapify
<1> QED
  BY <1>9, <1>10, <1>11 DEF Heap!Queue!TakeLeast, Heap!Queue!Begin

LEMMA ReplaceExchanges ==
  ASSUME Heap!TypeOK, NEW i \in 1..Len(array), NEW x \in Priorities, Heap!ReplaceAndFix(i, x)
  PROVE  Heap!Queue!Exchange(array[i], x)
<1> DEFINE old == array[i]
<1>1. /\ array \in Seq(Priorities) /\ old \in Priorities
      /\ array' = [array EXCEPT ![i] = x]
  BY DEF Heap!TypeOK, Heap!ReplaceAndFix
<1>2. \A y \in Priorities :
        /\ Heap!Count(array, y) \in Nat
        /\ Heap!Count(array', y) = Heap!Count(array, y) - One(old, y) + One(x, y)
  BY <1>1, CountNat, CountReplace
<1>3. ASSUME old = x
      PROVE  Heap!BagOf(array)' = [Heap!BagOf(array) EXCEPT ![old] = @ - 1, ![x] = @ + 1]
  <2>1. Heap!BagOf(array)' = Heap!BagOf(array)
    BY <1>2, <1>3 DEF Heap!BagOf, One
  <2>2. Heap!BagOf(array)[old] \in Int
    BY <1>1, <1>2 DEF Heap!BagOf
  <2>3. Heap!BagOf(array) = [Heap!BagOf(array) EXCEPT ![old] = @ - 1, ![x] = @ + 1]
    BY <1>1, <1>3, <2>2 DEF Heap!BagOf
  <2> QED BY <2>1, <2>3
<1>4. ASSUME old # x
      PROVE  Heap!BagOf(array)' = [Heap!BagOf(array) EXCEPT ![old] = @ - 1, ![x] = @ + 1]
  <2> DEFINE changed == [Heap!BagOf(array) EXCEPT ![old] = @ - 1, ![x] = @ + 1]
  <2>1. Heap!BagOf(array)' = changed
    <3>1. \A y \in Priorities : changed[y] = Heap!Count(array, y) - One(old, y) + One(x, y)
      BY <1>1, <1>2, <1>4 DEF Heap!BagOf, One
    <3>2. changed = [y \in Priorities |-> changed[y]]
      BY DEF Heap!BagOf
    <3>3. Heap!BagOf(array)' = [y \in Priorities |-> Heap!Count(array', y)]
      BY DEF Heap!BagOf
    <3> HIDE DEF changed, old
    <3> QED
      BY <1>2, <3>1, <3>2, <3>3
  <2> QED BY <2>1
<1>5. old \in Heap!Queue!Held
  BY <1>1, BagFacts
<1>6. heapify = "none" /\ heapify' # "none"
  BY DEF Heap!ReplaceAndFix, Heap!CallHeapify
<1> QED
  BY <1>3, <1>4, <1>5, <1>6 DEF Heap!Queue!Exchange, Heap!Queue!Begin

LEMMA SwapKeepsBag ==
  ASSUME Heap!TypeOK, NEW i \in 1..Len(array), NEW j \in 1..Len(array),
         array' = Heap!Swap(array, i, j)
  PROVE  Heap!BagOf(array)' = Heap!BagOf(array)
<1>1. array \in Seq(Priorities)
  BY DEF Heap!TypeOK
<1>2. \A y \in Priorities : Heap!Count(array', y) = Heap!Count(array, y)
  BY <1>1, CountSwap
<1> QED
  BY <1>2 DEF Heap!BagOf

LEMMA UpKeepsBag ==
  ASSUME Heap!TypeOK, Heap!HeapifyUp
  PROVE  Heap!BagOf(array)' = Heap!BagOf(array) /\ heapify # "none"
<1>1. ASSUME array' = array PROVE Heap!BagOf(array)' = Heap!BagOf(array)
  BY <1>1 DEF Heap!BagOf, Heap!Count
<1>2. ASSUME at # 1, array' = Heap!Swap(array, at, Heap!ParentIndex(at))
      PROVE  Heap!BagOf(array)' = Heap!BagOf(array)
  <2>1. at \in 1..Len(array) /\ at \in 2..Len(array)
    BY <1>2 DEF Heap!TypeOK, Heap!HeapifyUp, Heap!InRange
  <2>2. Heap!ParentIndex(at) \in 1..Len(array)
    BY <2>1, IndexFacts
  <2> QED BY <1>2, <2>1, <2>2, SwapKeepsBag
<1>3. heapify # "none"
  BY DEF Heap!HeapifyUp
<1> QED
  BY <1>1, <1>2, <1>3 DEF Heap!HeapifyUp

LEMMA DownKeepsBag ==
  ASSUME Heap!TypeOK, Heap!HeapifyDown
  PROVE  Heap!BagOf(array)' = Heap!BagOf(array) /\ heapify # "none"
<1>1. ASSUME array' = array PROVE Heap!BagOf(array)' = Heap!BagOf(array)
  BY <1>1 DEF Heap!BagOf, Heap!Count
<1>2. ASSUME Heap!InRange(Heap!LeftChildIndex(at)), array' = Heap!Swap(array, at, Heap!SmallerChild(at))
      PROVE  Heap!BagOf(array)' = Heap!BagOf(array)
  <2>1. at \in 1..Len(array) /\ Heap!SmallerChild(at) \in 1..Len(array)
    BY <1>2, SmallerChildFacts, IndexFacts DEF Heap!InRange, Heap!LeftChildIndex
  <2> QED BY <1>2, <2>1, SwapKeepsBag
<1>3. heapify # "none"
  BY DEF Heap!HeapifyDown
<1> QED
  BY <1>1, <1>2, <1>3 DEF Heap!HeapifyDown

LEMMA StepOfQueue ==
  Heap!TypeOK /\ Order /\ [Heap!Next]_(Heap!vars) => [Heap!Queue!Next]_(Heap!Queue!vars)
<1> SUFFICES ASSUME Heap!TypeOK, Order, [Heap!Next]_(Heap!vars)
             PROVE  [Heap!Queue!Next]_(Heap!Queue!vars)
  OBVIOUS
<1>1. ASSUME NEW x \in Priorities, Heap!Push(x) PROVE Heap!Queue!Next
  BY <1>1, PushInserts DEF Heap!Queue!Next
<1>2. ASSUME Heap!Pop PROVE Heap!Queue!Next
  BY <1>2, PopTakesLeast DEF Heap!Queue!Next
<1>3. ASSUME NEW i \in 1..Len(array), NEW x \in Priorities, Heap!ReplaceAndFix(i, x)
      PROVE  Heap!Queue!Next
  <2>1. array[i] \in Priorities
    BY BagFacts
  <2> QED BY <1>3, <2>1, ReplaceExchanges DEF Heap!Queue!Next
<1>4. ASSUME Heap!HeapifyUp \/ Heap!HeapifyDown PROVE [Heap!Queue!Next]_(Heap!Queue!vars)
  <2>1. Heap!BagOf(array)' = Heap!BagOf(array) /\ heapify # "none"
    BY <1>4, UpKeepsBag, DownKeepsBag
  <2>2. CASE heapify' = "none"
    BY <2>1, <2>2 DEF Heap!Queue!Next, Heap!Queue!Finish
  <2>3. CASE heapify' # "none"
    BY <2>1, <2>3 DEF Heap!Queue!vars
  <2> QED BY <2>2, <2>3
<1>5. CASE UNCHANGED Heap!vars
  BY <1>5 DEF Heap!vars, Heap!BagOf, Heap!Count, Heap!Queue!vars
<1> QED
  BY <1>1, <1>2, <1>3, <1>4, <1>5 DEF Heap!Next

\* Whatever is pushed, popped and replaced, the array behaves as a priority
\* queue: pop takes a least item, and no call of heapify_up or heapify_down
\* loses, copies or changes an item.
THEOREM ImplementsQueue == HeapSpec => QueueSpec
<1>1. Heap!Init => Heap!Queue!Init
  <2> SUFFICES ASSUME Heap!Init
               PROVE  /\ Heap!BagOf(array) = [y \in Priorities |-> 0]
                      /\ (heapify # "none") = FALSE
    BY DEF Heap!Queue!Init
  <2>1. array \in Seq(Priorities) /\ 1..Len(array) = {} /\ heapify = "none"
    BY DEF Heap!Init
  <2>2. ASSUME NEW y \in Priorities PROVE Heap!Count(array, y) = 0
    <3>1. Heap!Count(array, y) \in Nat /\ ~(Heap!Count(array, y) > 0)
      BY <2>1, CountNat, CountedIsThere
    <3> QED BY <3>1
  <2> QED BY <2>1, <2>2 DEF Heap!BagOf
<1> QED
  BY <1>1, StepOfQueue, HeapTypeCorrect, OrderInvariant, PTL
  DEF HeapSpec, Heap!Spec, QueueSpec, Heap!QueueSpec, Heap!Queue!Spec

-----------------------------------------------------------------------------
(* What SampledBuffer takes from the heap, AsHeaps, is what the heap does. *)

LEMMA SelfReordering ==
  ASSUME NEW s \in Seq(Priorities)
  PROVE  s \in Reorderings(s)
<1> DEFINE f == [k \in 1..Len(s) |-> k]
<1>1. f \in Onto(1..Len(s))
  BY DEF Onto
<1>2. s = [k \in 1..Len(s) |-> s[f[k]]]
  OBVIOUS
<1> HIDE DEF f
<1> QED
  BY <1>1, <1>2 DEF Reorderings

LEMMA SwapReorders ==
  ASSUME NEW s \in Seq(Priorities), NEW h \in Reorderings(s),
         NEW i \in 1..Len(h), NEW j \in 1..Len(h)
  PROVE  Heap!Swap(h, i, j) \in Reorderings(s)
<1>1. PICK f \in Onto(1..Len(s)) : h = [k \in 1..Len(s) |-> s[f[k]]]
  BY DEF Reorderings
<1>2. f \in [1..Len(s) -> 1..Len(s)] /\ Len(s) \in Nat
  BY DEF Onto
<1>3. Len(h) = Len(s) /\ i \in 1..Len(s) /\ j \in 1..Len(s)
  BY <1>1, <1>2
<1> DEFINE g == [f EXCEPT ![i] = f[j], ![j] = f[i]]
<1>4. /\ g \in [1..Len(s) -> 1..Len(s)]
      /\ \A k \in 1..Len(s) : g[k] = IF k = j THEN f[i] ELSE IF k = i THEN f[j] ELSE f[k]
  BY <1>2, <1>3
<1> HIDE DEF g
<1>5. g \in Onto(1..Len(s))
  <2>1. ASSUME NEW x \in 1..Len(s) PROVE \E y \in 1..Len(s) : g[y] = x
    <3>1. PICK y \in 1..Len(s) : f[y] = x
      BY DEF Onto
    <3>2. g[IF y = i THEN j ELSE IF y = j THEN i ELSE y] = x
      BY <1>3, <1>4, <3>1
    <3> QED
      BY <1>3, <3>2
  <2> QED
    BY <1>4, <2>1 DEF Onto
<1>6. Heap!Swap(h, i, j) = [k \in 1..Len(s) |-> s[g[k]]]
  BY <1>1, <1>2, <1>3, <1>4 DEF Heap!Swap
<1> QED
  BY <1>5, <1>6 DEF Reorderings

LEMMA AppendReorders ==
  ASSUME NEW s \in Seq(Priorities), NEW h \in Reorderings(s), NEW x \in Priorities
  PROVE  Append(h, x) \in Reorderings(Append(s, x))
<1> DEFINE n == Len(s)
           t == Append(s, x)
<1>1. PICK f \in Onto(1..n) : h = [k \in 1..n |-> s[f[k]]]
  BY DEF Reorderings
<1>2. f \in [1..n -> 1..n] /\ n \in Nat /\ \A k \in 1..n : s[k] \in Priorities
  BY DEF Onto
<1>3. h \in Seq(Priorities) /\ Len(h) = n
  BY <1>1, <1>2
<1>4. /\ Len(t) = n + 1 /\ t[n + 1] = x /\ \A k \in 1..n : t[k] = s[k]
      /\ t \in Seq(Priorities)
  OBVIOUS
<1> DEFINE g == [k \in 1..(n + 1) |-> IF k = n + 1 THEN n + 1 ELSE f[k]]
<1>5. g \in Onto(1..(n + 1))
  <2>1. g \in [1..(n + 1) -> 1..(n + 1)]
    BY <1>2
  <2>2. ASSUME NEW z \in 1..(n + 1) PROVE \E y \in 1..(n + 1) : g[y] = z
    <3>1. CASE z = n + 1
      BY <1>2, <3>1
    <3>2. CASE z # n + 1
      <4>1. PICK y \in 1..n : f[y] = z
        BY <1>2, <3>2 DEF Onto
      <4> QED
        BY <1>2, <4>1
    <3> QED
      BY <3>1, <3>2
  <2> HIDE DEF g
  <2> QED
    BY <2>1, <2>2 DEF Onto
<1>6. Append(h, x) = [k \in 1..(n + 1) |-> t[g[k]]]
  <2> HIDE DEF t, n
  <2>1. \A k \in 1..(n + 1) : t[g[k]] = IF k = n + 1 THEN x ELSE h[k]
    BY <1>1, <1>2, <1>4
  <2> DEFINE a == [k \in 1..(n + 1) |-> IF k = n + 1 THEN x ELSE h[k]]
  <2>2. Append(h, x) = a
    <3>1. /\ Append(h, x) \in Seq(Priorities) /\ Len(Append(h, x)) = n + 1
          /\ \A k \in 1..(n + 1) : Append(h, x)[k] = IF k = n + 1 THEN x ELSE h[k]
      BY <1>2, <1>3
    <3>2. a \in Seq(Priorities) /\ Len(a) = n + 1
      BY <1>2, <1>3
    <3>3. \A k \in 1..(n + 1) : Append(h, x)[k] = a[k]
      BY <3>1
    <3> HIDE DEF a
    <3> QED
      BY <3>1, <3>2, <3>3
  <2> HIDE DEF g
  <2> QED
    BY <2>1, <2>2
<1> HIDE DEF t, g
<1> QED
  BY <1>4, <1>5, <1>6 DEF t, Reorderings

\* While the heap is put in order it stays a reordering of what it was made of, s;
\* when it is in order it is one of the AsHeaps of s; a push adds its item to s.
AsTaken(s) ==
  array \in Reorderings(s) =>
    /\ heapify # "none" =>
         array' \in Reorderings(s) /\ (heapify' = "none" => array' \in AsHeaps(s))
    /\ \A x \in Priorities : Heap!Push(x) => array' \in Reorderings(Append(s, x))

LeastFirst == heapify = "none" => Least(array, array[1])

LEMMA LeastFirstInOrder == Heap!TypeOK /\ Order => LeastFirst
BY RootLeast DEF Order, Least, LeastFirst

LEMMA TakenStep ==
  ASSUME Heap!TypeOK, Order, Heap!TypeOK', Order', [Heap!Next]_(Heap!vars),
         NEW s \in Seq(Priorities)
  PROVE  [AsTaken(s)]_(Heap!vars)
<1> SUFFICES ASSUME Heap!Next, array \in Reorderings(s) PROVE AsTaken(s)
  BY DEF AsTaken
<1>1. ASSUME heapify # "none" PROVE array' \in Reorderings(s)
  <2>1. CASE Heap!HeapifyUp
    <3>1. CASE array' = array
      BY <3>1
    <3>2. CASE array' = Heap!Swap(array, at, Heap!ParentIndex(at)) /\ at # 1
      <4>1. at \in 1..Len(array)
        BY <2>1 DEF Heap!TypeOK, Heap!HeapifyUp, Heap!InRange
      <4>2. Heap!ParentIndex(at) \in 1..Len(array)
        BY <3>2, <4>1, IndexFacts, ParentFacts
      <4> QED
        BY <3>2, <4>1, <4>2, SwapReorders
    <3> QED
      BY <2>1, <3>1, <3>2 DEF Heap!HeapifyUp
  <2>2. CASE Heap!HeapifyDown
    <3>1. CASE array' = array
      BY <3>1
    <3>2. CASE array' = Heap!Swap(array, at, Heap!SmallerChild(at))
               /\ Heap!InRange(Heap!LeftChildIndex(at))
      <4>1. at \in 1..Len(array) /\ Heap!SmallerChild(at) \in 1..Len(array)
        BY <3>2, SmallerChildFacts, IndexFacts DEF Heap!InRange, Heap!LeftChildIndex
      <4> QED
        BY <3>2, <4>1, SwapReorders
    <3> QED
      BY <2>2, <3>1, <3>2 DEF Heap!HeapifyDown
  <2> QED
    BY <1>1, <2>1, <2>2 DEF Heap!Next, Heap!Push, Heap!Pop, Heap!ReplaceAndFix
<1>2. ASSUME heapify # "none", heapify' = "none" PROVE array' \in AsHeaps(s)
  <2>1. LeastFirst'
    BY LeastFirstInOrder, PTL
  <2> QED
    BY <1>1, <1>2, <2>1 DEF AsHeaps, LeastFirst
<1>3. ASSUME NEW x \in Priorities, Heap!Push(x) PROVE array' \in Reorderings(Append(s, x))
  BY <1>3, AppendReorders DEF Heap!Push
<1> QED
  BY <1>1, <1>2, <1>3 DEF AsTaken

\* A heap does with its array what SampledBuffer says it does: whatever it was made
\* of, heapify_up and heapify_down leave a reordering of that with a least item
\* first, and nothing else in between.
THEOREM HeapsAreAsTaken ==
  ASSUME NEW s \in Seq(Priorities)
  PROVE  HeapSpec => [][AsTaken(s)]_(Heap!vars)
BY TakenStep, HeapTypeCorrect, OrderInvariant, PTL DEF HeapSpec, Heap!Spec
=============================================================================
