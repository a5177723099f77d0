----------------------- MODULE InfiniteTracingProofs ------------------------
(***************************************************************************)
(* Proofs about InfiniteTracing, for any threads, spans and streams and    *)
(* any size of the queue: the types and what a client has opened           *)
(* (Opened), which buffers are closed (Handed), where each span is         *)
(* (Single, Unsent), how full the queues are (Bounded), and what the       *)
(* connection knows of the agent (NewsKnown).                              *)
(***************************************************************************)
EXTENDS InfiniteTracing, FiniteSetTheorems, TLAPS

USE DEF spanVars, bufferVars, clientVars, streamVars, agentVars, history

----------------------------------------------------------------------------
(* Types: a buffer at most for every stream *)

Between == {"starting", "opening", "restarting", "swapping", "transfer", "pop"}

\* There is room for the stream that is about to be opened; a buffer is replaced
\* at most once from one stream to the next.
Opened ==
  /\ handler \in Between => last < MaxStreams
  /\ handler # "suspended" =>
       /\ current >= 1 /\ current <= last + 1 /\ from < current
       /\ handler \in {"reading", "restarting", "swapping", "suspending"} => current <= last
       /\ handler \in {"transfer", "pop"} => from >= 1 /\ current = from + 1
  /\ \A s \in Streams : writer[s] # "none" => on[s] # Suspended
  /\ \A s \in Streams : s > last => writer[s] = "none" /\ on[s] = Suspended
  /\ handler = "reading" => last > 0
  /\ handler = "suspended" <=> current = Suspended

Typed == TypeOK /\ Opened

LEMMA Numbered ==
  /\ MaxQueue \in Nat \ {0} /\ MaxSpans \in Nat /\ MaxStreams \in Nat \ {0} /\ MaxReconnects \in Nat
  /\ Spans \subseteq Nat \ {0} /\ Streams \subseteq Nat \ {0} /\ Buffers = Streams
  /\ Suspended = 0 /\ Suspended \notin Buffers
BY BoundsAssumption DEF Spans, Streams, Buffers, Suspended

LEMMA InStreams == \A n \in Nat : n \in Streams <=> n >= 1 /\ n <= MaxStreams
BY BoundsAssumption DEF Streams

\* Steps of the writers.
LEMMA OpenedKept ==
  ASSUME Opened, UNCHANGED <<handler, last, current, from, on>>,
         \A s \in Streams : writer'[s] = "none" <=> writer[s] = "none"
  PROVE  Opened'
BY DEF Opened, Between

LEMMA InitTyped == Init => Typed
<1> SUFFICES ASSUME Init PROVE Typed
  OBVIOUS
<1>1. TypeOK
  <2>1. 0 \in 0..MaxSpans /\ 0 \in 0..MaxReconnects /\ 1 \in Buffers
    BY Numbered, InStreams
  <2> QED
    BY <2>1 DEF Init, TypeOK, HandlerStages, Suspended
<1>2. Opened
  BY Numbered DEF Init, Opened, Between
<1> QED
  BY <1>1, <1>2 DEF Typed

LEMMA TypedStep ==
  ASSUME Typed, Next
  PROVE  Typed'
<1> USE Numbered DEF Typed, HandlerStages
<1>1. ASSUME NEW r \in Recorders, Record(r) PROVE Typed'
  <2>1. recorded + 1 \in Spans /\ recorded + 1 \in 0..MaxSpans
    BY <1>1 DEF Record, TypeOK, Spans
  <2>2. TypeOK'
    BY <1>1, <2>1 DEF Record, TypeOK
  <2> QED
    BY <1>1, <2>2 DEF Record, Opened
<1>2. ASSUME NEW r \in Recorders, Push(r) PROVE Typed'
  <2>1. queue' \in [Buffers -> SUBSET Spans]
    <3> DEFINE kept == IF Cardinality(queue[into[r]]) >= MaxQueue THEN {} ELSE queue[into[r]]
    <3>1. into[r] \in Buffers /\ span[r] \in Spans
      BY <1>2 DEF Push, Synchronized, TypeOK
    <3>2. kept \cup {span[r]} \in SUBSET Spans
      BY <3>1 DEF TypeOK
    <3>3. queue' = [queue EXCEPT ![into[r]] = kept \cup {span[r]}]
      BY <1>2 DEF Push
    <3> HIDE DEF kept
    <3> QED
      BY <3>1, <3>2, <3>3 DEF TypeOK
  <2>2. TypeOK'
    BY <1>2, <2>1 DEF Push, Done, TypeOK
  <2> QED
    BY <1>2, <2>2 DEF Push, Opened
<1>3. ASSUME NEW r \in Recorders, PushClosed(r) \/ Discard(r) PROVE Typed'
  <2>1. TypeOK'
    BY ZenonT(60), <1>3 DEF PushClosed, Discard, Synchronized, Done, TypeOK
  <2> QED
    BY <1>3, <2>1 DEF PushClosed, Discard, Opened
<1>4. ASSUME NEW s \in Streams, WriterStep(s) PROVE Typed'
  <2>1. writer \in [Streams -> {"none", "popping", "yielding", "clearing", "ended"}]
    BY DEF TypeOK
  <2>2. /\ UNCHANGED <<handler, last, current, from, on>>
        /\ writer[s] # "none"
        /\ \E there \in {"popping", "yielding", "clearing", "ended"} : writer' = [writer EXCEPT ![s] = there]
    BY <1>4 DEF WriterStep, Take, TakeNil, Yield, YieldFails, ClearBatch
  <2>3. Opened'
    BY <2>1, <2>2, OpenedKept
  <2>4. /\ queue' \in [Buffers -> SUBSET Spans] /\ batch' \in [Buffers -> SUBSET Spans]
        /\ sent' \in [Spans -> Nat]
    <3>1. CASE Take(s)
      <4>1. on[s] \in Buffers
        BY <2>2 DEF TypeOK, Opened
      <4>2. PICK sp \in queue[on[s]] : /\ queue' = [queue EXCEPT ![on[s]] = @ \ {sp}]
                                       /\ batch' = [batch EXCEPT ![on[s]] = @ \cup {sp}]
        BY <3>1 DEF Take
      <4>3. sp \in Spans
        BY <4>1, <4>2 DEF TypeOK
      <4>4. sent' = sent
        BY <3>1 DEF Take
      <4> QED
        BY <4>2, <4>3, <4>4 DEF TypeOK
    <3>2. CASE Yield(s)
      <4>1. \A sp \in Spans : sent[sp] + (IF sp \in batch[on[s]] THEN 1 ELSE 0) \in Nat
        BY DEF TypeOK
      <4> QED
        BY <3>2, <4>1 DEF Yield, TypeOK
    <3>3. CASE TakeNil(s) \/ YieldFails(s) \/ ClearBatch(s)
      BY <3>3 DEF TakeNil, YieldFails, ClearBatch, TypeOK
    <3> QED
      BY <1>4, <3>1, <3>2, <3>3 DEF WriterStep
  <2>5. /\ UNCHANGED <<recorded, span, into, closed, live, connectState, agentConnected, reconnects>>
        /\ UNCHANGED <<missed, overlapped>>
    BY <1>4 DEF WriterStep, Take, TakeNil, Yield, YieldFails, ClearBatch
  <2>6. writer' \in [Streams -> {"none", "popping", "yielding", "clearing", "ended"}]
    BY <2>1, <2>2
  <2>7. TypeOK'
    BY <2>2, <2>4, <2>5, <2>6 DEF TypeOK
  <2> QED
    BY <2>3, <2>7
<1>5. CASE Suspend
  BY <1>5 DEF Suspend, TypeOK, Opened, Between
<1>6. CASE ResetConnection \/ TransferMore \/ WaitForAgentConnect
  BY ZenonT(60), <1>6 DEF ResetConnection, TransferMore, WaitForAgentConnect, TypeOK, Opened, Between
<1>7. CASE TransferBuffer
  <2>1. current >= 1 /\ current <= last /\ last < MaxStreams /\ current \in Nat /\ last \in Nat
    BY <1>7 DEF TransferBuffer, TypeOK, Opened, Between
  <2>2. current + 1 \in Buffers
    BY <2>1, InStreams
  <2>3. TypeOK'
    BY <1>7, <2>2 DEF TransferBuffer, TypeOK
  <2> QED
    BY <1>7, <2>1, <2>3 DEF TransferBuffer, Opened, Between
<1>8. CASE TransferEmpty
  <2>1. from \in Buffers
    BY <1>8 DEF TransferEmpty, TypeOK, Opened
  <2>2. TypeOK'
    BY <1>8, <2>1 DEF TransferEmpty, TypeOK
  <2> QED
    BY <1>8, <2>2 DEF TransferEmpty, Opened, Between
<1>9. CASE TransferPop
  <2>1. PICK sp \in queue[from] : queue' = [queue EXCEPT ![from] = @ \ {sp}, ![current] = @ \cup {sp}]
    BY <1>9 DEF TransferPop
  <2>2. sp \in Spans
    BY <1>9, <2>1 DEF TransferPop, TypeOK, Opened
  <2>3. queue' \in [Buffers -> SUBSET Spans]
    BY <2>1, <2>2 DEF TypeOK
  <2>4. TypeOK'
    BY <1>9, <2>3 DEF TransferPop, TypeOK
  <2> QED
    BY <1>9, <2>4 DEF TransferPop, Opened, Between
<1>10. CASE RecordSpanBatches
  <2>1. last \in Nat /\ last < MaxStreams /\ current >= 1 /\ current <= last + 1 /\ current \in Buffers
    BY <1>10 DEF RecordSpanBatches, TypeOK, Opened, Between
  <2>2. last + 1 \in Streams
    BY <2>1, InStreams
  <2>3. overlapped' \in BOOLEAN
    BY <1>10 DEF RecordSpanBatches
  <2>4. TypeOK'
    BY <1>10, <2>1, <2>2, <2>3 DEF RecordSpanBatches, TypeOK
  <2>5. \A s \in Streams : /\ s # last + 1 => writer'[s] = writer[s] /\ on'[s] = on[s]
                           /\ s = last + 1 => writer'[s] = "popping" /\ on'[s] = current
    BY <1>10, <2>2 DEF RecordSpanBatches, TypeOK
  <2> QED
    BY <1>10, <2>1, <2>2, <2>4, <2>5 DEF RecordSpanBatches, Opened, Between
<1>11. ASSUME NEW there \in {"starting", "restarting", "suspending"}, StreamEnds(there) PROVE Typed'
  <2>1. TypeOK'
    BY <1>11 DEF StreamEnds, TypeOK
  <2>2. there # "suspending" => last < MaxStreams
    BY <1>11 DEF StreamEnds
  <2>3. Opened'
    BY <1>11, <2>2 DEF StreamEnds, Opened, Between, TypeOK
  <2> QED
    BY <2>1, <2>3
<1>12. CASE NotifyAgentStarted \/ Connected \/ ForceRestart
  <2>1. /\ UNCHANGED <<spanVars, bufferVars, clientVars, streamVars, history>>
        /\ connectState' \in {"pending", "announced", "connected"}
        /\ agentConnected' \in BOOLEAN /\ missed' \in BOOLEAN /\ reconnects' \in 0..MaxReconnects
    <3>1. CASE NotifyAgentStarted
      BY <3>1 DEF NotifyAgentStarted, TypeOK
    <3>2. CASE Connected
      BY <3>2 DEF Connected, TypeOK
    <3>3. CASE ForceRestart
      BY <3>3 DEF ForceRestart, TypeOK
    <3> QED
      BY <1>12, <3>1, <3>2, <3>3
  <2>2. TypeOK'
    BY <2>1 DEF TypeOK
  <2> QED
    BY <2>1, <2>2 DEF Opened
<1> QED
  BY <1>1, <1>2, <1>3, <1>4, <1>5, <1>6, <1>7, <1>8, <1>9, <1>10, <1>11, <1>12
  DEF Next, RecorderStep, HandlerStep

THEOREM TypedInvariant == Spec => []Typed
<1>1. Typed /\ [Next]_vars => Typed'
  <2>1. CASE Typed /\ Next
    BY <2>1, TypedStep
  <2>2. CASE Typed /\ UNCHANGED vars
    BY <2>2 DEF vars, Typed, TypeOK, Opened
  <2> QED
    BY <2>1, <2>2
<1> QED
  BY <1>1, InitTyped, PTL DEF Spec

\* Every variable of the streaming client has its type, and it reads from the
\* last stream it opened, the only one that is open.
THEOREM TypeCorrectness == Spec => []TypeOK
BY TypedInvariant, PTL DEF Typed

----------------------------------------------------------------------------
(* A buffer that was replaced is empty and closed *)

Handed ==
  current # Suspended =>
    /\ \A r \in Recorders : into[r] <= current
    /\ \A b \in Buffers : b > current => b \notin closed /\ queue[b] = {}
    /\ \A b \in Buffers : b < current /\ ~Locked(b) => b \in closed /\ queue[b] = {}

\* Steps that leave the client's buffer in place, and push into no other.
LEMMA HandedKept ==
  ASSUME Typed, Handed, UNCHANGED <<closed, current>>,
         \A b \in Buffers : Locked(b)' <=> Locked(b),
         \A r \in Recorders : into'[r] = into[r] \/ into'[r] = current \/ into'[r] = Suspended,
         \A b \in Buffers : queue'[b] \subseteq queue[b] \/ b = current \/ (b \notin closed /\ ~Locked(b) /\ b <= current)
  PROVE  Handed'
<1>1. current \in Nat /\ Suspended <= current /\ \A b \in Buffers : b \in Nat
  BY Numbered DEF Typed, TypeOK
<1> QED
  BY <1>1 DEF Handed

LEMMA HandedStep ==
  ASSUME Typed, Handed, Next
  PROVE  Handed'
<1> USE Numbered DEF Transferring, Locked
<1>1. ASSUME NEW r \in Recorders, Record(r) PROVE Handed'
  <2>1. /\ UNCHANGED <<closed, current, queue, from, handler>>
        /\ \A q \in Recorders : into'[q] = into[q] \/ into'[q] = current
    BY <1>1 DEF Record, Typed, TypeOK
  <2> QED
    BY <2>1, HandedKept
<1>2. ASSUME NEW r \in Recorders, RecorderStep(r) PROVE Handed'
  <2>1. /\ UNCHANGED <<closed, current, from, handler>>
        /\ \A q \in Recorders : into'[q] = into[q] \/ into'[q] = Suspended
    BY <1>2 DEF RecorderStep, Push, PushClosed, Discard, Done, Typed, TypeOK
  <2>2. queue' = queue \/ /\ into[r] \notin closed /\ ~Locked(into[r])
                          /\ \A b \in Buffers : b # into[r] => queue'[b] = queue[b]
    BY <1>2 DEF RecorderStep, Push, PushClosed, Discard, Synchronized, Typed, TypeOK
  <2>3. CASE current = Suspended
    BY <2>1, <2>3 DEF Handed
  <2>4. CASE current # Suspended
    <3>1. into[r] <= current
      BY <2>4 DEF Handed
    <3> QED
      BY <2>1, <2>2, <3>1, HandedKept
  <2> QED
    BY <2>3, <2>4
<1>3. ASSUME NEW s \in Streams, WriterStep(s) PROVE Handed'
  <2>1. UNCHANGED <<closed, current, from, handler, into>>
    BY <1>3 DEF WriterStep, Take, TakeNil, Yield, YieldFails, ClearBatch
  <2>2. \A b \in Buffers : queue'[b] \subseteq queue[b]
    BY <1>3 DEF WriterStep, Take, TakeNil, Yield, YieldFails, ClearBatch, Typed, TypeOK
  <2> QED
    BY <2>1, <2>2, HandedKept
<1>4. CASE Suspend
  BY <1>4 DEF Suspend, Handed
<1>5. CASE \/ ResetConnection \/ TransferMore \/ WaitForAgentConnect \/ RecordSpanBatches
           \/ NotifyAgentStarted \/ Connected \/ ForceRestart
           \/ \E there \in {"starting", "restarting", "suspending"} : StreamEnds(there)
  <2>1. UNCHANGED <<closed, current, from, into, queue>>
    BY <1>5 DEF ResetConnection, TransferMore, WaitForAgentConnect, RecordSpanBatches,
                NotifyAgentStarted, Connected, ForceRestart, StreamEnds
  <2>2. Transferring' <=> Transferring
    BY <1>5 DEF ResetConnection, TransferMore, WaitForAgentConnect, RecordSpanBatches,
                NotifyAgentStarted, Connected, ForceRestart, StreamEnds
  <2> QED
    BY <2>1, <2>2, HandedKept
<1>6. CASE TransferBuffer
  <2>1. /\ handler = "swapping" /\ from' = current /\ current' = current + 1 /\ Transferring'
        /\ UNCHANGED <<into, closed, queue>>
    BY <1>6 DEF TransferBuffer
  <2>2. current \in Nat /\ current # Suspended /\ \A b \in Buffers : b \in Nat
    BY <2>1 DEF Typed, TypeOK, Opened
  <2>3. \A r \in Recorders : into[r] \in Nat
    <3>1. {Suspended} \cup Buffers \subseteq Nat
      OBVIOUS
    <3> QED
      BY <3>1 DEF Typed, TypeOK
  <2>4. \A b \in Buffers : ~Locked(b)
    BY <2>1
  <2> QED
    BY <2>1, <2>2, <2>3, <2>4 DEF Handed
<1>7. CASE TransferEmpty
  <2>1. /\ queue[from] = {} /\ closed' = closed \cup {from} /\ ~Transferring' /\ Transferring
        /\ current = from + 1 /\ UNCHANGED <<queue, into, current, from>>
    BY <1>7 DEF TransferEmpty, Typed, Opened
  <2>2. from \in Nat /\ \A b \in Buffers : b \in Nat
    BY DEF Typed, TypeOK
  <2> QED
    BY <2>1, <2>2 DEF Handed
<1>8. CASE TransferPop
  <2>1. /\ UNCHANGED <<closed, current, from, into>> /\ Transferring /\ Transferring'
        /\ \A b \in Buffers : queue'[b] \subseteq queue[b] \/ b = current
    BY <1>8 DEF TransferPop, Typed, TypeOK
  <2> QED
    BY <2>1, HandedKept
<1> QED
  BY <1>1, <1>2, <1>3, <1>4, <1>5, <1>6, <1>7, <1>8 DEF Next, HandlerStep

THEOREM HandedInvariant == Spec => []Handed
<1>1. Init => Handed
  BY Numbered DEF Init, Handed
<1>2. Typed /\ Handed /\ [Next]_vars => Handed'
  <2>1. CASE Typed /\ Handed /\ Next
    BY <2>1, HandedStep
  <2>2. CASE Handed /\ UNCHANGED vars
    BY <2>2 DEF vars, Handed, Locked, Transferring
  <2> QED
    BY <2>1, <2>2
<1> QED
  BY <1>1, <1>2, TypedInvariant, PTL DEF Spec

\* No restart leaves spans in a buffer that is not sent from, however its steps
\* mix with the pushes of threads that have found the old buffer.
THEOREM NothingIsStranded == Spec => []NothingStranded
<1>1. Typed /\ Handed => NothingStranded
  <2> SUFFICES ASSUME Typed, Handed, current # Suspended, NEW b \in Buffers, queue[b] # {}
               PROVE  b = current \/ Locked(b)
    BY DEF NothingStranded
  <2>1. b \in Nat /\ current \in Nat
    BY Numbered DEF Typed, TypeOK
  <2> QED
    BY <2>1 DEF Handed
<1> QED
  BY <1>1, TypedInvariant, HandedInvariant, PTL

----------------------------------------------------------------------------
(* A span is in one place *)

PushedOnce ==
  \A r \in Recorders : span[r] # 0 =>
    /\ span[r] <= recorded
    /\ \A q \in Recorders : span[q] = span[r] => q = r
    /\ \A b \in Buffers : span[r] \notin queue[b] /\ span[r] \notin batch[b]
QueuedOnce ==
  \A b \in Buffers : \A sp \in queue[b] :
    /\ sp <= recorded
    /\ \A d \in Buffers : sp \notin batch[d] /\ (sp \in queue[d] => d = b)
BatchedOnce ==
  \A b \in Buffers : \A sp \in batch[b] :
    sp <= recorded /\ \A d \in Buffers : sp \in batch[d] => d = b

Single == PushedOnce /\ QueuedOnce /\ BatchedOnce

\* While no stream was opened too early, the writer that sent a batch is the
\* only one to have done so, and clears it.
SentOnlyOnce == \A sp \in Spans : sent[sp] <= 1 /\ (sp > recorded => sent[sp] = 0)
WaitingUnsent ==
  /\ \A r \in Recorders : span[r] # 0 => sent[span[r]] = 0
  /\ \A b \in Buffers : \A sp \in queue[b] : sent[sp] = 0
BatchUnsent ==
  \A b \in Buffers : \A sp \in batch[b] :
    sent[sp] # 0 => \E s \in Streams : on[s] = b /\ writer[s] = "clearing"
LiveClears ==
  live # 0 => \A s \in Streams : on[s] = on[live] /\ writer[s] = "clearing" => s = live

Unsent == ~overlapped => SentOnlyOnce /\ WaitingUnsent /\ BatchUnsent /\ LiveClears

\* Spans that go nowhere new, and none recorded or sent.
LEMMA SingleKept ==
  ASSUME Single, recorded' = recorded,
         \A r \in Recorders : span'[r] = span[r] \/ span'[r] = 0,
         \A b \in Buffers : queue'[b] \subseteq queue[b] /\ batch'[b] \subseteq batch[b]
  PROVE  Single'
BY DEF Single, PushedOnce, QueuedOnce, BatchedOnce

LEMMA SingleStep ==
  ASSUME Typed, Single, Next
  PROVE  Single'
<1> USE DEF PushedOnce, QueuedOnce, BatchedOnce
<1>0. /\ recorded \in Nat
      /\ \A r \in Recorders : span[r] \in Nat
      /\ \A b \in Buffers : queue[b] \subseteq Nat /\ batch[b] \subseteq Nat
  <2>1. Spans \subseteq Nat /\ {0} \cup Spans \subseteq Nat /\ 0..MaxSpans \subseteq Nat
    BY Numbered
  <2> QED
    BY <2>1 DEF Typed, TypeOK
<1>1. ASSUME NEW r \in Recorders, Record(r) PROVE Single'
  <2>1. /\ recorded' = recorded + 1 /\ span'[r] = recorded + 1
        /\ \A q \in Recorders : q # r => span'[q] = span[q]
        /\ UNCHANGED <<queue, batch>>
    BY <1>1 DEF Record, Typed, TypeOK
  <2> QED
    BY <1>0, <2>1 DEF Single
<1>2. ASSUME NEW r \in Recorders, Push(r) PROVE Single'
  <2> DEFINE sp == span[r]
             c == into[r]
  <2>1. /\ UNCHANGED <<recorded, batch>> /\ sp # 0 /\ span'[r] = 0
        /\ \A q \in Recorders : q # r => span'[q] = span[q]
    BY <1>2 DEF Push, Synchronized, Done, Typed, TypeOK
  <2>2. \A b \in Buffers : queue'[b] \subseteq queue[b] \/ (b = c /\ queue'[b] \subseteq queue[b] \cup {sp})
    BY <1>2 DEF Push, Typed, TypeOK
  <2>3. \A q \in Recorders : span'[q] # 0 => q # r /\ span'[q] = span[q] /\ span[q] # sp
    BY <2>1 DEF Single
  <2> QED
    BY <2>1, <2>2, <2>3 DEF Single
<1>3. ASSUME NEW r \in Recorders, PushClosed(r) \/ Discard(r) PROVE Single'
  <2>1. /\ UNCHANGED <<recorded, queue, batch>>
        /\ \A q \in Recorders : span'[q] = span[q] \/ span'[q] = 0
    BY <1>3 DEF PushClosed, Discard, Done, Typed, TypeOK
  <2> QED
    BY <2>1, SingleKept
<1>4. ASSUME NEW s \in Streams, Take(s) PROVE Single'
  <2> DEFINE c == on[s]
  <2>1. c \in Buffers
    BY <1>4 DEF Take, Typed, TypeOK, Opened
  <2>2. PICK sp \in queue[c] : /\ queue' = [queue EXCEPT ![c] = @ \ {sp}]
                               /\ batch' = [batch EXCEPT ![c] = @ \cup {sp}]
    BY <1>4 DEF Take
  <2>3. UNCHANGED <<recorded, span>>
    BY <1>4 DEF Take
  <2>4. \A b \in Buffers : /\ queue'[b] = IF b = c THEN queue[b] \ {sp} ELSE queue[b]
                           /\ batch'[b] = IF b = c THEN batch[b] \cup {sp} ELSE batch[b]
    BY <2>2 DEF Typed, TypeOK
  <2>5. /\ sp <= recorded /\ \A d \in Buffers : sp \notin batch[d] /\ (sp \in queue[d] => d = c)
        /\ \A r \in Recorders : span[r] # 0 => span[r] # sp
    BY <2>1, <2>2 DEF Single
  <2>6. \A b \in Buffers : \A x : /\ x \in queue'[b] => x \in queue[b] /\ x # sp
                                  /\ x \in batch'[b] => x \in batch[b] \/ (x = sp /\ b = c)
    <3>1. ASSUME NEW b \in Buffers, NEW x \in queue'[b] PROVE x \in queue[b] /\ x # sp
      <4>1. CASE b = c
        BY <2>4, <3>1, <4>1
      <4>2. CASE b # c
        BY <2>4, <2>5, <3>1, <4>2
      <4> QED
        BY <4>1, <4>2
    <3>2. ASSUME NEW b \in Buffers, NEW x \in batch'[b] PROVE x \in batch[b] \/ (x = sp /\ b = c)
      BY <2>4, <3>2
    <3> QED
      BY <3>1, <3>2
  <2> HIDE DEF c
  <2>7. PushedOnce'
    BY <2>3, <2>5, <2>6 DEF Single
  <2>8. QueuedOnce'
    BY <2>3, <2>5, <2>6 DEF Single
  <2>9. BatchedOnce'
    BY <2>3, <2>5, <2>6 DEF Single
  <2> QED
    BY <2>7, <2>8, <2>9 DEF Single
<1>5. ASSUME NEW s \in Streams, TakeNil(s) \/ Yield(s) \/ YieldFails(s) \/ ClearBatch(s) PROVE Single'
  <2>1. /\ UNCHANGED <<recorded, span, queue>>
        /\ \A b \in Buffers : batch'[b] \subseteq batch[b]
    BY <1>5 DEF TakeNil, Yield, YieldFails, ClearBatch, Typed, TypeOK
  <2> QED
    BY <2>1, SingleKept
<1>6. CASE TransferPop
  <2>1. from \in Buffers /\ current \in Buffers /\ from # current
    BY <1>6, Numbered DEF TransferPop, Typed, TypeOK, Opened
  <2>2. PICK sp \in queue[from] : queue' = [queue EXCEPT ![from] = @ \ {sp}, ![current] = @ \cup {sp}]
    BY <1>6 DEF TransferPop
  <2>3. UNCHANGED <<recorded, span, batch>>
    BY <1>6 DEF TransferPop
  <2>4. \A b \in Buffers : queue'[b] = IF b = from THEN queue[b] \ {sp}
                                      ELSE IF b = current THEN queue[b] \cup {sp} ELSE queue[b]
    BY <2>1, <2>2 DEF Typed, TypeOK
  <2>5. /\ sp <= recorded /\ \A d \in Buffers : sp \notin batch[d] /\ (sp \in queue[d] => d = from)
        /\ \A r \in Recorders : span[r] # 0 => span[r] # sp
    BY <2>1, <2>2 DEF Single
  <2>6. \A b \in Buffers : \A x \in queue'[b] :
          (x \in queue[b] /\ x # sp) \/ (x = sp /\ b = current)
    BY <2>1, <2>4, <2>5
  <2>7. PushedOnce' /\ BatchedOnce'
    BY <2>1, <2>2, <2>3, <2>5, <2>6 DEF Single
  <2>8. QueuedOnce'
    BY <2>1, <2>3, <2>5, <2>6 DEF Single
  <2> QED
    BY <2>7, <2>8 DEF Single
<1>7. CASE \/ Suspend \/ ResetConnection \/ TransferBuffer \/ TransferEmpty \/ TransferMore
           \/ WaitForAgentConnect \/ RecordSpanBatches
           \/ NotifyAgentStarted \/ Connected \/ ForceRestart
           \/ \E there \in {"starting", "restarting", "suspending"} : StreamEnds(there)
  <2>1. UNCHANGED <<recorded, span, queue, batch>>
    BY <1>7 DEF Suspend, ResetConnection, TransferBuffer, TransferEmpty, TransferMore, WaitForAgentConnect,
                RecordSpanBatches, NotifyAgentStarted, Connected, ForceRestart, StreamEnds
  <2> QED
    BY <2>1, SingleKept
<1> QED
  BY <1>1, <1>2, <1>3, <1>4, <1>5, <1>6, <1>7 DEF Next, RecorderStep, WriterStep, HandlerStep

THEOREM SingleInvariant == Spec => []Single
<1>1. Init => Single
  BY DEF Init, Single, PushedOnce, QueuedOnce, BatchedOnce
<1>2. Typed /\ Single /\ [Next]_vars => Single'
  <2>1. CASE Typed /\ Single /\ Next
    BY <2>1, SingleStep
  <2>2. CASE Single /\ UNCHANGED vars
    BY <2>2, SingleKept DEF vars
  <2> QED
    BY <2>1, <2>2
<1> QED
  BY <1>1, <1>2, TypedInvariant, PTL DEF Spec

\* Steps that send nothing and open no stream.
LEMMA UnsentKept ==
  ASSUME Unsent, ~overlapped, UNCHANGED <<sent, recorded, on, batch>>,
         live' = live \/ live' = 0,
         \A s \in Streams : writer'[s] = "clearing" <=> writer[s] = "clearing",
         \A r \in Recorders : span'[r] = span[r] \/ span'[r] = 0,
         \A b \in Buffers : \A sp \in queue'[b] : sent[sp] = 0
  PROVE  Unsent'
BY DEF Unsent, SentOnlyOnce, WaitingUnsent, BatchUnsent, LiveClears

LEMMA UnsentStep ==
  ASSUME Typed, Single, Unsent, Next
  PROVE  Unsent'
<1> USE DEF SentOnlyOnce, WaitingUnsent, BatchUnsent, LiveClears
<1>1. overlapped => overlapped'
  BY DEF Next, Record, RecorderStep, Push, PushClosed, Discard, WriterStep, Take, TakeNil, Yield,
         YieldFails, ClearBatch, HandlerStep, Suspend, ResetConnection, TransferBuffer, TransferEmpty,
         TransferMore, TransferPop, WaitForAgentConnect, RecordSpanBatches, StreamEnds,
         NotifyAgentStarted, Connected, ForceRestart
<1>2. SUFFICES ASSUME ~overlapped, ~overlapped' PROVE Unsent'
  BY <1>1 DEF Unsent
<1>3. SentOnlyOnce /\ WaitingUnsent /\ BatchUnsent /\ LiveClears
  BY <1>2 DEF Unsent
<1>4. ASSUME NEW r \in Recorders, Record(r) PROVE Unsent'
  <2>1. /\ recorded' = recorded + 1 /\ span'[r] = recorded + 1
        /\ \A q \in Recorders : q # r => span'[q] = span[q]
        /\ UNCHANGED <<sent, queue, batch, on, writer, live>>
    BY <1>4 DEF Record, Typed, TypeOK
  <2>2. recorded \in Nat /\ recorded + 1 \in Spans /\ Spans \subseteq Nat
    BY <1>4, Numbered DEF Record, Spans, Typed, TypeOK
  <2>3. sent[recorded + 1] = 0
    BY <1>3, <2>2
  <2>4. SentOnlyOnce'
    <3>1. ASSUME NEW sp \in Spans, sp > recorded + 1 PROVE sp > recorded
      BY <2>2, <3>1
    <3> QED
      BY <1>3, <2>1, <3>1
  <2>5. WaitingUnsent'
    BY <1>3, <2>1, <2>3
  <2>6. BatchUnsent' /\ LiveClears'
    BY <1>3, <2>1
  <2> QED
    BY <2>4, <2>5, <2>6 DEF Unsent
<1>5. ASSUME NEW r \in Recorders, RecorderStep(r) PROVE Unsent'
  <2>1. /\ UNCHANGED <<sent, recorded, on, batch, live, writer>>
        /\ \A q \in Recorders : span'[q] = span[q] \/ span'[q] = 0
    BY <1>5 DEF RecorderStep, Push, PushClosed, Discard, Done, Typed, TypeOK
  <2>2. \A b \in Buffers : \A sp \in queue'[b] : sp \in queue[b] \/ (sp = span[r] /\ span[r] # 0)
    BY <1>5 DEF RecorderStep, Push, PushClosed, Discard, Synchronized, Typed, TypeOK
  <2>3. \A b \in Buffers : \A sp \in queue'[b] : sent[sp] = 0
    BY <1>3, <2>2
  <2> QED
    BY <1>2, <2>1, <2>3, UnsentKept
<1>6. ASSUME NEW s \in Streams, Take(s) PROVE Unsent'
  <2>1. PICK sp \in queue[on[s]] : /\ queue' = [queue EXCEPT ![on[s]] = @ \ {sp}]
                                   /\ batch' = [batch EXCEPT ![on[s]] = @ \cup {sp}]
    BY <1>6 DEF Take
  <2>2. on[s] \in Buffers /\ sent[sp] = 0
    BY <1>3, <1>6, <2>1 DEF Take, Typed, TypeOK, Opened
  <2>3. UNCHANGED <<sent, recorded, span, on, live>>
    BY <1>6 DEF Take
  <2>4. \A u \in Streams : writer'[u] = "clearing" <=> writer[u] = "clearing"
    BY <1>6 DEF Take, Typed, TypeOK
  <2>5. \A b \in Buffers : queue'[b] \subseteq queue[b] /\ batch'[b] \subseteq batch[b] \cup {sp}
    BY <2>1 DEF Typed, TypeOK
  <2>6. WaitingUnsent'
    BY <1>3, <2>3, <2>5
  <2>7. BatchUnsent'
    BY <1>3, <2>2, <2>3, <2>4, <2>5
  <2> QED
    BY <1>3, <2>3, <2>4, <2>6, <2>7 DEF Unsent
<1>7. ASSUME NEW s \in Streams, TakeNil(s) \/ YieldFails(s) PROVE Unsent'
  <2>1. /\ UNCHANGED <<sent, recorded, on, batch, live, span, queue>>
        /\ \A u \in Streams : writer'[u] = "clearing" <=> writer[u] = "clearing"
    BY <1>7 DEF TakeNil, YieldFails, Typed, TypeOK
  <2> QED
    BY <1>2, <1>3, <2>1, UnsentKept
<1>8. ASSUME NEW s \in Streams, Yield(s) PROVE Unsent'
  <2> DEFINE c == on[s]
  <2>1. /\ s = live /\ live # 0 /\ writer[s] = "yielding"
        /\ writer' = [writer EXCEPT ![s] = "clearing"]
        /\ \A sp \in Spans : sent'[sp] = sent[sp] + (IF sp \in batch[c] THEN 1 ELSE 0)
        /\ UNCHANGED <<recorded, span, queue, batch, on, live>>
    BY <1>8, Numbered DEF Yield
  <2>2. c \in Buffers
    BY <2>1 DEF Typed, TypeOK, Opened
  <2>3. \A sp \in batch[c] : sent[sp] = 0
    BY <1>3, <2>1, <2>2
  <2>4. /\ \A sp \in Spans : sent[sp] \in Nat
        /\ \A b \in Buffers : queue[b] \subseteq Spans /\ batch[b] \subseteq Spans
        /\ \A r \in Recorders : span[r] # 0 => span[r] \in Spans
        /\ recorded \in Nat /\ Spans \subseteq Nat
    BY Numbered DEF Typed, TypeOK
  <2>5. \A sp \in Spans : sent'[sp] = IF sp \in batch[c] THEN 1 ELSE sent[sp]
    <3>1. ASSUME NEW sp \in Spans PROVE sent'[sp] = IF sp \in batch[c] THEN 1 ELSE sent[sp]
      <4>1. CASE sp \in batch[c]
        BY <2>1, <2>3, <4>1
      <4>2. CASE sp \notin batch[c]
        BY <2>1, <2>4, <4>2
      <4> QED
        BY <4>1, <4>2
    <3> QED
      BY <3>1
  <2>6. SentOnlyOnce'
    <3>1. \A sp \in batch[c] : sp <= recorded /\ sp \in Nat
      BY <2>2, <2>4 DEF Single, BatchedOnce
    <3>2. \A sp \in batch[c] : ~(sp > recorded)
      BY <2>4, <3>1
    <3>3. ASSUME NEW sp \in Spans PROVE sent'[sp] <= 1 /\ (sp > recorded => sent'[sp] = 0)
      <4>1. CASE sp \in batch[c]
        BY <2>5, <3>2, <4>1
      <4>2. CASE sp \notin batch[c]
        BY <1>3, <2>5, <4>2
      <4> QED
        BY <4>1, <4>2
    <3> QED
      BY <2>1, <3>3
  <2>7. WaitingUnsent'
    <3>1. ASSUME NEW r \in Recorders, span[r] # 0 PROVE sent'[span[r]] = 0
      <4>1. span[r] \in Spans /\ span[r] \notin batch[c]
        BY <2>2, <2>4, <3>1 DEF Single, PushedOnce
      <4> QED
        BY <1>3, <2>5, <3>1, <4>1
    <3>2. ASSUME NEW b \in Buffers, NEW sp \in queue[b] PROVE sent'[sp] = 0
      <4>1. sp \in Spans /\ sp \notin batch[c]
        BY <2>2, <2>4 DEF Single, QueuedOnce
      <4> QED
        BY <1>3, <2>5, <4>1
    <3> QED
      BY <2>1, <3>1, <3>2
  <2>8. \A u \in Streams : writer'[u] = IF u = s THEN "clearing" ELSE writer[u]
    BY <2>1 DEF Typed, TypeOK
  <2>9. BatchUnsent'
    <3>1. ASSUME NEW b \in Buffers, NEW sp \in batch[b], sent'[sp] # 0
          PROVE  \E u \in Streams : on[u] = b /\ writer'[u] = "clearing"
      <4>1. CASE b = c
        BY <2>8, <4>1
      <4>2. CASE b # c
        <5>1. sp \notin batch[c] /\ sp \in Spans
          BY <2>2, <2>4, <4>2 DEF Single, BatchedOnce
        <5>2. sent[sp] # 0
          BY <2>5, <3>1, <5>1
        <5> QED
          BY <1>3, <2>8, <5>2
      <4> QED
        BY <4>1, <4>2
    <3> QED
      BY <2>1, <3>1
  <2>10. LiveClears'
    BY <1>3, <2>1, <2>8
  <2> QED
    BY <2>6, <2>7, <2>9, <2>10 DEF Unsent
<1>9. ASSUME NEW s \in Streams, ClearBatch(s) PROVE Unsent'
  <2>1. /\ UNCHANGED <<sent, recorded, span, queue, on, live>>
        /\ \A b \in Buffers : batch'[b] = IF b = on[s] THEN {} ELSE batch[b]
        /\ \A u \in Streams : writer'[u] = IF u = s THEN "popping" ELSE writer[u]
    BY <1>9 DEF ClearBatch, Typed, TypeOK
  <2>2. BatchUnsent'
    BY <1>3, <2>1
  <2> QED
    BY <1>3, <2>1, <2>2 DEF Unsent
<1>10. CASE TransferPop
  <2>1. UNCHANGED <<sent, recorded, on, batch, live, writer, span>>
    BY <1>10 DEF TransferPop
  <2>2. from \in Buffers
    BY <1>10, Numbered DEF TransferPop, Typed, TypeOK, Opened
  <2>3. \A b \in Buffers : queue'[b] \subseteq queue[b] \cup queue[from]
    BY <1>10, <2>2 DEF TransferPop, Typed, TypeOK
  <2> QED
    BY <1>2, <1>3, <2>1, <2>2, <2>3, UnsentKept
<1>11. CASE RecordSpanBatches
  <2>1. /\ UNCHANGED <<sent, recorded, span, queue, batch>>
        /\ live' = last + 1
        /\ ~\E s \in Streams : on[s] = current /\ writer[s] = "clearing"
    BY <1>2, <1>11 DEF RecordSpanBatches
  <2>2. last \in Nat /\ last + 1 \in Streams
    BY <1>11, InStreams, Numbered DEF RecordSpanBatches, Typed, TypeOK, Opened, Between
  <2>3. \A s \in Streams : /\ writer'[s] = IF s = last + 1 THEN "popping" ELSE writer[s]
                           /\ on'[s] = IF s = last + 1 THEN current ELSE on[s]
    BY <1>11 DEF RecordSpanBatches, Typed, TypeOK
  <2>4. writer[last + 1] = "none"
    BY <2>2 DEF Typed, Opened
  <2>5. BatchUnsent'
    BY <1>3, <2>1, <2>3, <2>4
  <2>6. LiveClears'
    BY <2>1, <2>2, <2>3
  <2> QED
    BY <1>3, <2>1, <2>5, <2>6 DEF Unsent
<1>12. CASE \/ Suspend \/ ResetConnection \/ TransferBuffer \/ TransferEmpty \/ TransferMore
            \/ WaitForAgentConnect \/ NotifyAgentStarted \/ Connected \/ ForceRestart
            \/ \E there \in {"starting", "restarting", "suspending"} : StreamEnds(there)
  <2>1. /\ UNCHANGED <<sent, recorded, on, batch, writer, span, queue>>
        /\ live' = live \/ live' = 0
    BY <1>12 DEF Suspend, ResetConnection, TransferBuffer, TransferEmpty, TransferMore,
                 WaitForAgentConnect, NotifyAgentStarted, Connected, ForceRestart, StreamEnds
  <2> QED
    BY <1>2, <1>3, <2>1, UnsentKept
<1> QED
  BY <1>4, <1>5, <1>6, <1>7, <1>8, <1>9, <1>10, <1>11, <1>12 DEF Next, WriterStep, HandlerStep

THEOREM UnsentInvariant == Spec => []Unsent
<1>1. Init => Unsent
  BY DEF Init, Unsent, SentOnlyOnce, WaitingUnsent, BatchUnsent, LiveClears
<1>2. Typed /\ Single /\ Unsent /\ [Next]_vars => Unsent'
  <2>1. CASE Typed /\ Single /\ Unsent /\ Next
    BY <2>1, UnsentStep
  <2>2. CASE Unsent /\ UNCHANGED vars
    BY <2>2 DEF vars, Unsent, SentOnlyOnce, WaitingUnsent, BatchUnsent, LiveClears
  <2> QED
    BY <2>1, <2>2
<1> QED
  BY <1>1, <1>2, TypedInvariant, SingleInvariant, PTL DEF Spec

\* No span is sent twice as long as no stream was opened on a buffer whose batch
\* had been sent and not cleared, whatever writers of ended streams still take.
THEOREM SpansAreSentOnce == Spec => []SentOnce
<1>1. Unsent => SentOnce
  BY DEF Unsent, SentOnlyOnce, SentOnce
<1> QED
  BY <1>1, UnsentInvariant, PTL

----------------------------------------------------------------------------
(* How full the queues are *)

Size(b) == Cardinality(queue[b])

\* What is still to be transferred, and what was pushed meanwhile.
TransferFits == Transferring => Size(from) + Size(current) <= current * MaxQueue

Bounded == QueueBound /\ TransferFits

LEMMA QueuesAreFinite ==
  ASSUME TypeOK
  PROVE  \A b \in Buffers : IsFiniteSet(queue[b]) /\ Size(b) \in Nat
<1>1. IsFiniteSet(Spans)
  BY FS_Interval, BoundsAssumption DEF Spans
<1>2. \A b \in Buffers : IsFiniteSet(queue[b])
  BY <1>1, FS_Subset DEF TypeOK
<1> QED
  BY <1>2, FS_CardinalityType DEF Size

\* The limit of the first buffer, and that of the next.
LEMMA Limits ==
  ASSUME NEW b \in Nat \ {0}
  PROVE  /\ b * MaxQueue \in Nat /\ MaxQueue <= b * MaxQueue
         /\ (b + 1) * MaxQueue = b * MaxQueue + MaxQueue
<1>1. MaxQueue \in Nat /\ b - 1 \in Nat /\ b = (b - 1) + 1
  BY BoundsAssumption
<1>2. \A x, y \in Nat : x * y \in Nat /\ (x + 1) * y = x * y + y
  OBVIOUS
<1>3. b * MaxQueue = (b - 1) * MaxQueue + MaxQueue
  BY <1>1, <1>2
<1> QED
  BY <1>1, <1>2, <1>3

\* Steps that push nothing and transfer nothing.
LEMMA BoundedKept ==
  ASSUME Typed, Bounded,
         \A b \in Buffers : queue'[b] \subseteq queue[b],
         Transferring' => Transferring /\ UNCHANGED <<from, current>>
  PROVE  Bounded'
<1>1. \A b \in Buffers : Size(b)' <= Size(b) /\ Size(b) \in Nat /\ Size(b)' \in Nat
  <2>1. ASSUME NEW b \in Buffers PROVE Size(b)' <= Size(b) /\ Size(b) \in Nat /\ Size(b)' \in Nat
    <3>1. IsFiniteSet(queue[b]) /\ Size(b) \in Nat
      BY QueuesAreFinite DEF Typed
    <3>2. IsFiniteSet(queue'[b]) /\ Cardinality(queue'[b]) <= Cardinality(queue[b])
      BY <3>1, FS_Subset
    <3> QED
      BY <3>1, <3>2, FS_CardinalityType DEF Size
  <2> QED
    BY <2>1
<1>2. \A b \in Buffers : b * MaxQueue \in Nat
  BY Limits, Numbered
<1>3. QueueBound'
  BY <1>1, <1>2 DEF Bounded, QueueBound, Size
<1>4. TransferFits'
  <2> SUFFICES ASSUME Transferring' PROVE Size(from)' + Size(current)' <= current' * MaxQueue
    BY DEF TransferFits
  <2>1. Transferring /\ from' = from /\ current' = current /\ from \in Buffers /\ current \in Buffers
    BY Numbered DEF Transferring, Typed, TypeOK, Opened
  <2>2. Size(from) + Size(current) <= current * MaxQueue
    BY <2>1 DEF Bounded, TransferFits
  <2>3. Size(from)' = Cardinality(queue'[from]) /\ Size(current)' = Cardinality(queue'[current])
    BY <2>1 DEF Size
  <2> QED
    BY <1>1, <1>2, <2>1, <2>2, <2>3 DEF Size
<1> QED
  BY <1>3, <1>4 DEF Bounded

LEMMA BoundedStep ==
  ASSUME Typed, Handed, Bounded, Next
  PROVE  Bounded'
<1>1. ASSUME NEW r \in Recorders, Push(r) PROVE Bounded'
  <2> DEFINE c == into[r]
             K == IF Size(c) >= MaxQueue THEN {} ELSE queue[c]
  <2>1. /\ c \in Buffers /\ ~Locked(c)
        /\ queue' = [queue EXCEPT ![c] = K \cup {span[r]}]
        /\ UNCHANGED <<handler, from, current>>
    BY <1>1 DEF Push, Synchronized, Size, Typed, TypeOK
  <2>2. Cardinality(queue'[c]) <= MaxQueue /\ Cardinality(queue'[c]) \in Nat
    <3>1. IsFiniteSet(queue[c]) /\ Size(c) \in Nat /\ MaxQueue \in Nat /\ MaxQueue >= 1
      <4>1. MaxQueue \in Nat /\ MaxQueue >= 1
        BY BoundsAssumption
      <4>2. IsFiniteSet(queue[c]) /\ Size(c) \in Nat
        BY <2>1, QueuesAreFinite DEF Typed
      <4> QED
        BY <4>1, <4>2
    <3>2. queue'[c] = K \cup {span[r]}
      BY <2>1 DEF Typed, TypeOK
    <3>3. IsFiniteSet(K) /\ Cardinality(K) \in Nat /\ Cardinality(K) + 1 <= MaxQueue
      BY <3>1, FS_EmptySet DEF Size
    <3>4. /\ IsFiniteSet(K \cup {span[r]})
          /\ Cardinality(K \cup {span[r]}) = Cardinality(K) \/ Cardinality(K \cup {span[r]}) = Cardinality(K) + 1
      BY <3>3, FS_AddElement
    <3> QED
      BY <3>1, <3>2, <3>3, <3>4
  <2>3. \A b \in Buffers : b # c => queue'[b] = queue[b]
    BY <2>1 DEF Typed, TypeOK
  <2>4. \A b \in Buffers : MaxQueue <= b * MaxQueue /\ b * MaxQueue \in Nat /\ MaxQueue \in Nat
    BY Limits, Numbered
  <2>5. QueueBound'
    <3>1. ASSUME NEW b \in Buffers PROVE Cardinality(queue'[b]) <= b * MaxQueue
      <4>1. CASE b = c
        BY <2>2, <2>4, <4>1
      <4>2. CASE b # c
        BY <2>3, <4>2 DEF Bounded, QueueBound
      <4> QED
        BY <4>1, <4>2
    <3> QED
      BY <3>1 DEF QueueBound
  <2>6. TransferFits'
    <3> SUFFICES ASSUME Transferring'
                 PROVE  Cardinality(queue'[from]) + Cardinality(queue'[current]) <= current * MaxQueue
      BY <2>1 DEF TransferFits, Size
    <3>1. Transferring /\ from \in Buffers /\ current \in Buffers /\ current = from + 1 /\ from # c
      BY <2>1, Numbered DEF Transferring, Locked, Typed, TypeOK, Opened
    <3>2. queue'[from] = queue[from]
      BY <2>3, <3>1
    <3>3. CASE current = c
      <4>1. Cardinality(queue[from]) <= from * MaxQueue /\ Cardinality(queue[from]) \in Nat
        BY <3>1, QueuesAreFinite DEF Bounded, QueueBound, Typed, Size
      <4>2. current * MaxQueue = from * MaxQueue + MaxQueue
        BY <3>1, Limits, Numbered
      <4> QED
        BY <2>2, <2>4, <3>1, <3>2, <3>3, <4>1, <4>2
    <3>4. CASE current # c
      BY <2>3, <3>1, <3>2, <3>4 DEF Bounded, TransferFits, Size
    <3> QED
      BY <3>3, <3>4
  <2> QED
    BY <2>5, <2>6 DEF Bounded
<1>2. CASE TransferBuffer
  <2>1. /\ from' = current /\ current' = current + 1 /\ queue' = queue
        /\ current \in Buffers /\ current \in Nat \ {0} /\ current + 1 \in Buffers
    <3>1. handler = "swapping" /\ current \in Nat /\ current >= 1 /\ current <= last
          /\ last < MaxStreams /\ last \in Nat /\ MaxStreams \in Nat
      BY <1>2, Numbered DEF TransferBuffer, Typed, TypeOK, Opened, Between
    <3>2. current \in Buffers /\ current + 1 \in Buffers
      BY <3>1, InStreams, Numbered
    <3> QED
      BY <1>2, <3>1, <3>2 DEF TransferBuffer
  <2>2. queue[current + 1] = {}
    BY <2>1, Numbered DEF Handed
  <2>3. Size(current) <= current * MaxQueue /\ Size(current) \in Nat
    BY <2>1, QueuesAreFinite DEF Bounded, QueueBound, Size, Typed
  <2>4. (current + 1) * MaxQueue = current * MaxQueue + MaxQueue /\ current * MaxQueue \in Nat /\ MaxQueue \in Nat
    BY <2>1, Limits, Numbered
  <2>5. Cardinality(queue'[from']) + Cardinality(queue'[current']) <= current' * MaxQueue
    BY <2>1, <2>2, <2>3, <2>4, FS_EmptySet DEF Size
  <2> QED
    BY <2>1, <2>5 DEF Bounded, TransferFits, QueueBound, Size
<1>3. CASE TransferPop
  <2>1. /\ Transferring /\ from \in Buffers /\ current \in Buffers /\ from # current
        /\ UNCHANGED <<from, current>>
    BY <1>3, Numbered DEF TransferPop, Transferring, Typed, TypeOK, Opened
  <2>2. PICK sp \in queue[from] : queue' = [queue EXCEPT ![from] = @ \ {sp}, ![current] = @ \cup {sp}]
    BY <1>3 DEF TransferPop
  <2>3. /\ queue'[from] = queue[from] \ {sp} /\ queue'[current] = queue[current] \cup {sp}
        /\ \A b \in Buffers : b # from /\ b # current => queue'[b] = queue[b]
    BY <2>1, <2>2 DEF Typed, TypeOK
  <2>4. /\ IsFiniteSet(queue[from]) /\ IsFiniteSet(queue[current])
        /\ Cardinality(queue[from]) \in Nat /\ Cardinality(queue[current]) \in Nat
    BY <2>1, QueuesAreFinite DEF Typed, Size
  <2>5. Cardinality(queue'[from]) = Cardinality(queue[from]) - 1 /\ Cardinality(queue'[from]) \in Nat
    <3>1. /\ IsFiniteSet(queue[from] \ {sp})
          /\ Cardinality(queue[from] \ {sp}) = Cardinality(queue[from]) - 1
      BY <2>2, <2>4, FS_RemoveElement
    <3> QED
      BY <2>3, <3>1, FS_CardinalityType
  <2>6. /\ Cardinality(queue'[current]) <= Cardinality(queue[current]) + 1
        /\ Cardinality(queue'[current]) \in Nat
    <3>1. /\ IsFiniteSet(queue[current] \cup {sp})
          /\ \/ Cardinality(queue[current] \cup {sp}) = Cardinality(queue[current])
             \/ Cardinality(queue[current] \cup {sp}) = Cardinality(queue[current]) + 1
      BY <2>4, FS_AddElement
    <3> QED
      BY <2>3, <2>4, <3>1
  <2>7. Cardinality(queue[from]) + Cardinality(queue[current]) <= current * MaxQueue
    BY <2>1 DEF Bounded, TransferFits, Size
  <2>8. current * MaxQueue \in Nat /\ from * MaxQueue \in Nat
    BY <2>1, Limits, Numbered
  <2>9. Cardinality(queue'[from]) + Cardinality(queue'[current]) <= current * MaxQueue
    BY <2>4, <2>5, <2>6, <2>7, <2>8
  <2>10. ASSUME NEW b \in Buffers PROVE Cardinality(queue'[b]) <= b * MaxQueue
    <3>1. Cardinality(queue[b]) <= b * MaxQueue
      BY DEF Bounded, QueueBound
    <3>2. CASE b = current
      BY <2>5, <2>6, <2>8, <2>9, <3>2
    <3>3. CASE b = from
      BY <2>4, <2>5, <2>8, <3>1, <3>3
    <3>4. CASE b # current /\ b # from
      BY <2>3, <3>1, <3>4
    <3> QED
      BY <3>2, <3>3, <3>4
  <2> QED
    BY <2>1, <2>9, <2>10 DEF Bounded, TransferFits, QueueBound, Size
<1>4. ASSUME NEW r \in Recorders, Record(r) \/ PushClosed(r) \/ Discard(r) PROVE Bounded'
  BY <1>4, BoundedKept DEF Record, PushClosed, Discard, Transferring
<1>5. ASSUME NEW s \in Streams, WriterStep(s) PROVE Bounded'
  <2>1. \A b \in Buffers : queue'[b] \subseteq queue[b]
    BY <1>5 DEF WriterStep, Take, TakeNil, Yield, YieldFails, ClearBatch, Typed, TypeOK
  <2>2. UNCHANGED <<handler, from, current>>
    BY <1>5 DEF WriterStep, Take, TakeNil, Yield, YieldFails, ClearBatch
  <2> QED
    BY <2>1, <2>2, BoundedKept DEF Transferring
<1>6. CASE \/ Suspend \/ ResetConnection \/ TransferEmpty \/ TransferMore \/ WaitForAgentConnect
           \/ RecordSpanBatches \/ NotifyAgentStarted \/ Connected \/ ForceRestart
           \/ \E there \in {"starting", "restarting", "suspending"} : StreamEnds(there)
  <2>1. queue' = queue /\ (Transferring' => Transferring /\ UNCHANGED <<from, current>>)
    BY <1>6 DEF Suspend, ResetConnection, TransferEmpty, TransferMore, WaitForAgentConnect, RecordSpanBatches,
                NotifyAgentStarted, Connected, ForceRestart, StreamEnds, Transferring
  <2> QED
    BY <2>1, BoundedKept
<1> QED
  BY <1>1, <1>2, <1>3, <1>4, <1>5, <1>6 DEF Next, RecorderStep, HandlerStep

THEOREM BoundedInvariant == Spec => []Bounded
<1>1. Init => Bounded
  <2> SUFFICES ASSUME Init PROVE Bounded
    OBVIOUS
  <2>1. \A b \in Buffers : Cardinality(queue[b]) = 0 /\ b * MaxQueue \in Nat
    BY FS_EmptySet, Limits, Numbered DEF Init
  <2>2. ~Transferring
    BY DEF Init, Transferring
  <2> QED
    BY <2>1, <2>2 DEF Bounded, TransferFits, QueueBound
<1>2. Typed /\ Handed /\ Bounded /\ [Next]_vars => Bounded'
  <2>1. CASE Typed /\ Handed /\ Bounded /\ Next
    BY <2>1, BoundedStep
  <2>2. CASE Bounded /\ UNCHANGED vars
    BY <2>2 DEF vars, Bounded, TransferFits, QueueBound, Transferring, Size
  <2> QED
    BY <2>1, <2>2
<1> QED
  BY <1>1, <1>2, TypedInvariant, HandedInvariant, PTL DEF Spec

\* After n restarts a queue holds at most n + 1 times what span_events.queue_size
\* allows: a transfer ignores the limit, pushes observe it again.
THEOREM QueuesAreBounded == Spec => []QueueBound
BY BoundedInvariant, PTL DEF Bounded

----------------------------------------------------------------------------
(* What the connection knows of the agent: the safety of StreamReopened     *)

\* An agent that has announced itself since it last began to connect is known to
\* be connected, unless a reset of the connection came between its two steps.
NewsKnown == connectState # "pending" /\ ~agentConnected => missed

LEMMA InitNewsKnown == Init => NewsKnown
BY DEF Init, NewsKnown

LEMMA NewsKnownStep ==
  ASSUME TypeOK, NewsKnown, [Next]_vars
  PROVE  NewsKnown'
<1> USE DEF NewsKnown
<1>1. CASE UNCHANGED vars
  BY <1>1 DEF vars
<1>2. ASSUME NEW r \in Recorders, Record(r) \/ RecorderStep(r) PROVE NewsKnown'
  BY <1>2 DEF Record, RecorderStep, Push, PushClosed, Discard
<1>3. ASSUME NEW s \in Streams, WriterStep(s) PROVE NewsKnown'
  BY <1>3 DEF WriterStep, Take, TakeNil, Yield, YieldFails, ClearBatch
<1>4. ASSUME HandlerStep, ~ResetConnection PROVE NewsKnown'
  BY <1>4 DEF HandlerStep, Suspend, TransferBuffer, TransferEmpty, TransferMore, TransferPop,
              WaitForAgentConnect, RecordSpanBatches
<1>5. CASE ResetConnection
  \* Asked anew, the agent is pending, connected, or missed between the two.
  <2>1. /\ connectState' = connectState
        /\ agentConnected' = (connectState = "connected")
        /\ missed' = (connectState = "announced")
    BY <1>5 DEF ResetConnection
  <2> QED
    BY <2>1 DEF TypeOK
<1>6. ASSUME NEW there \in {"starting", "restarting", "suspending"}, StreamEnds(there)
      PROVE  NewsKnown'
  BY <1>6 DEF StreamEnds
<1>7. CASE NotifyAgentStarted \/ Connected \/ ForceRestart
  BY <1>7 DEF NotifyAgentStarted, Connected, ForceRestart
<1> QED
  BY <1>1, <1>2, <1>3, <1>4, <1>5, <1>6, <1>7 DEF Next

\* A thread that is to open a stream (start_streaming, wait_for_agent_connect)
\* waits only for an agent that is not connected, or whose announcement fell
\* between the agent's two steps and the reset: never for news it was given.
WaitsForNewsOnly ==
  handler = "starting" /\ ~agentConnected => connectState = "pending" \/ missed

THEOREM WaitsForNewsOnlyHolds == Spec => []WaitsForNewsOnly
<1>1. TypeOK /\ NewsKnown /\ [Next]_vars => NewsKnown'
  BY NewsKnownStep
<1>2. NewsKnown => WaitsForNewsOnly
  BY DEF NewsKnown, WaitsForNewsOnly
<1> QED
  BY <1>1, <1>2, InitNewsKnown, TypeCorrectness, PTL DEF Spec
=============================================================================
