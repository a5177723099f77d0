--------------------------- MODULE InfiniteTracing ---------------------------
(***************************************************************************)
(* Spans streamed to the trace observer                                    *)
(* (infinite_tracing/lib/infinite_tracing/{client,streaming_buffer,        *)
(* connection}.rb), in batches, as is the default.  Application threads    *)
(* push spans into the client's buffer; the writer thread of a gRPC stream *)
(* takes them from there; one thread at a time handles the end of a stream *)
(* and opens the next, on a new buffer if the connection is restarted; the *)
(* agent connects to the collector meanwhile.                              *)
(***************************************************************************)
EXTENDS Integers, FiniteSets

CONSTANTS
  Recorders,       \* application threads
  MaxQueue,        \* span_events.queue_size
  MaxSpans,        \* bound: spans recorded
  MaxStreams,      \* bound: streams opened
  MaxReconnects    \* bound: restarts the collector demands

ASSUME BoundsAssumption ==
  /\ MaxQueue \in Nat \ {0} /\ MaxSpans \in Nat
  /\ MaxStreams \in Nat \ {0} /\ MaxReconnects \in Nat

Spans == 1..MaxSpans
Streams == 1..MaxStreams
Buffers == 1..MaxStreams     \* one per stream at most
Suspended == 0               \* the SuspendedStreamingBuffer

VARIABLES
  recorded,        \* spans recorded so far
  span, into,      \* the span a thread is pushing (or 0), the buffer it found
  queue, closed,   \* what waits in each buffer's @queue; those closed
  batch,           \* each buffer's @batch
  current,         \* the client's @buffer
  from,            \* the buffer whose contents were transferred last
  handler,         \* where the thread that handles the stream's end is
  last, live,      \* the last stream opened; the one that is open, or 0
  writer, on,      \* where each stream's writer is; the buffer it takes from
  connectState, agentConnected,  \* the agent's; what the connection knows of it
  reconnects, sent, missed, overlapped   \* history

spanVars == <<recorded, span, into>>
bufferVars == <<queue, closed, batch>>
clientVars == <<current, from, handler>>
streamVars == <<last, live, writer, on>>
agentVars == <<connectState, agentConnected, reconnects, missed>>
history == <<sent, overlapped>>
vars == <<spanVars, bufferVars, clientVars, streamVars, agentVars, history>>

Init ==
  /\ recorded = 0
  /\ span = [r \in Recorders |-> 0] /\ into = [r \in Recorders |-> Suspended]
  /\ queue = [b \in Buffers |-> {}] /\ closed = {} /\ batch = [b \in Buffers |-> {}]
  /\ current = 1 /\ from = Suspended /\ handler = "starting"
  /\ last = 0 /\ live = 0
  /\ writer = [s \in Streams |-> "none"] /\ on = [s \in Streams |-> Suspended]
  /\ connectState = "pending" /\ agentConnected = FALSE
  /\ reconnects = 0 /\ missed = FALSE
  /\ sent = [sp \in Spans |-> 0] /\ overlapped = FALSE

-----------------------------------------------------------------------------
(* Recording: Client#<< reads @buffer, StreamingBuffer#<< pushes.          *)

\* A restart that is one critical section.
LockedToTheEnd(b) == handler \in {"transfer", "pop", "starting", "opening"} /\ b = from

\* The lock of the old buffer is held from the first empty? to the close.
Transferring == handler \in {"transfer", "pop"}
Locked(b) == Transferring /\ b = from

Record(r) ==
  /\ span[r] = 0 /\ recorded < MaxSpans
  /\ recorded' = recorded + 1
  /\ span' = [span EXCEPT ![r] = recorded + 1]
  /\ into' = [into EXCEPT ![r] = current]
  /\ UNCHANGED <<bufferVars, clientVars, streamVars, agentVars, history>>

Synchronized(r) == span[r] # 0 /\ into[r] # Suspended /\ ~Locked(into[r])
Done(r) == span' = [span EXCEPT ![r] = 0] /\ into' = [into EXCEPT ![r] = Suspended]

\* A queue at its limit is not emptied.
PushOver(r) ==
  LET b == into[r] IN
  /\ Synchronized(r) /\ b \notin closed
  /\ queue' = [queue EXCEPT ![b] = @ \cup {span[r]}]
  /\ Done(r)
  /\ UNCHANGED <<recorded, closed, batch, clientVars, streamVars, agentVars, history>>

Push(r) ==
  LET b == into[r] IN
  /\ Synchronized(r) /\ b \notin closed
  /\ queue' = [queue EXCEPT ![b] = (IF Cardinality(@) >= MaxQueue THEN {} ELSE @)
                                   \cup {span[r]}]
  /\ Done(r)
  /\ UNCHANGED <<recorded, closed, batch, clientVars, streamVars, agentVars, history>>

\* ClosedQueueError: the buffer was replaced after the thread had found it.
PushClosed(r) ==
  /\ Synchronized(r) /\ into[r] \in closed
  /\ Done(r)
  /\ UNCHANGED <<recorded, bufferVars, clientVars, streamVars, agentVars, history>>

Discard(r) ==
  /\ span[r] # 0 /\ into[r] = Suspended
  /\ Done(r)
  /\ UNCHANGED <<recorded, bufferVars, clientVars, streamVars, agentVars, history>>

-----------------------------------------------------------------------------
(* A stream's writer: the loop of batch_enumerator, run by gRPC, which does *)
(* not end the writer of a stream that has ended: it stays in the pop until *)
(* what it then yields cannot be written.                                   *)

\* A batch is ready by its size or by the time since the last.
Take(s) ==
  LET b == on[s] IN
  /\ writer[s] = "popping"
  /\ \E sp \in queue[b] : /\ queue' = [queue EXCEPT ![b] = @ \ {sp}]
                          /\ batch' = [batch EXCEPT ![b] = @ \cup {sp}]
  /\ \E there \in {"popping", "yielding"} : writer' = [writer EXCEPT ![s] = there]
  /\ UNCHANGED <<spanVars, closed, clientVars, last, live, on, agentVars, history>>

\* nil from a closed queue.  Only a stream that has ended meets it, and what is
\* left of the batch cannot be written.
TakeNil(s) ==
  /\ writer[s] = "popping" /\ on[s] \in closed /\ queue[on[s]] = {}
  /\ writer' = [writer EXCEPT ![s] = "ended"]
  /\ UNCHANGED <<spanVars, bufferVars, clientVars, last, live, on, agentVars, history>>

Yield(s) ==
  /\ writer[s] = "yielding" /\ s = live
  /\ sent' = [sp \in Spans |-> sent[sp] + (IF sp \in batch[on[s]] THEN 1 ELSE 0)]
  /\ writer' = [writer EXCEPT ![s] = "clearing"]
  /\ UNCHANGED <<spanVars, bufferVars, clientVars, last, live, on, agentVars, overlapped>>

YieldFails(s) ==
  /\ writer[s] = "yielding" /\ s # live
  /\ writer' = [writer EXCEPT ![s] = "ended"]
  /\ UNCHANGED <<spanVars, bufferVars, clientVars, last, live, on, agentVars, history>>

\* A batch that is not cleared once it is written.
KeepBatch(s) ==
  /\ writer[s] = "clearing"
  /\ writer' = [writer EXCEPT ![s] = "popping"]
  /\ UNCHANGED <<spanVars, bufferVars, clientVars, last, live, on, agentVars, history>>

ClearBatch(s) ==
  /\ writer[s] = "clearing"
  /\ batch' = [batch EXCEPT ![on[s]] = {}]
  /\ writer' = [writer EXCEPT ![s] = "popping"]
  /\ UNCHANGED <<spanVars, queue, closed, clientVars, last, live, on, agentVars, history>>

-----------------------------------------------------------------------------
(* The client: handle_error, handle_close and what they call.              *)

\* Unavailable and FailedPrecondition restart the connection, Unimplemented
\* suspends the client, OK and any other error only start a new stream.
StreamEnds(there) ==
  /\ handler = "reading"
  /\ there = "suspending" \/ last < MaxStreams
  /\ live' = 0
  /\ handler' = there
  /\ UNCHANGED <<spanVars, bufferVars, current, from, last, writer, on, agentVars, history>>

Suspend ==
  /\ handler = "suspending"
  /\ current' = Suspended
  /\ handler' = "suspended"
  /\ UNCHANGED <<spanVars, bufferVars, from, streamVars, agentVars, history>>

\* A connection that starts from the state in which the agent does.
ResetUnconnected ==
  /\ handler = "restarting"
  /\ agentConnected' = FALSE
  /\ handler' = "swapping"
  /\ UNCHANGED <<spanVars, bufferVars, current, from, streamVars, connectState, reconnects,
                 missed, history>>

\* reset_connection: a new Connection asks the agent whether it is connected.  An
\* agent that has announced its configuration already, but is not :connected
\* yet, will not announce it again.
ResetConnection ==
  /\ handler = "restarting"
  /\ agentConnected' = (connectState = "connected")
  /\ missed' = (connectState = "announced")
  /\ handler' = "swapping"
  /\ UNCHANGED <<spanVars, bufferVars, current, from, streamVars, connectState, reconnects, history>>

\* transfer_buffer: threads find the new buffer while the old one is transferred.
TransferBuffer ==
  /\ handler = "swapping"
  /\ from' = current
  /\ current' = current + 1
  /\ handler' = "transfer"
  /\ UNCHANGED <<spanVars, bufferVars, streamVars, agentVars, history>>

\* until @queue.empty?, whose answer may be stale when pop is called.
TransferEmpty ==
  /\ handler = "transfer" /\ queue[from] = {}
  /\ closed' = closed \cup {from}
  /\ handler' = "starting"
  /\ UNCHANGED <<spanVars, queue, batch, current, from, streamVars, agentVars, history>>

TransferMore ==
  /\ handler = "transfer" /\ queue[from] # {}
  /\ handler' = "pop"
  /\ UNCHANGED <<spanVars, bufferVars, current, from, streamVars, agentVars, history>>

\* One span is transferred, and the old buffer closed.
TransferPopOne ==
  /\ handler = "pop"
  /\ \E sp \in queue[from] :
       queue' = [queue EXCEPT ![from] = @ \ {sp}, ![current] = @ \cup {sp}]
  /\ closed' = closed \cup {from}
  /\ handler' = "starting"
  /\ UNCHANGED <<spanVars, batch, current, from, streamVars, agentVars, history>>

\* new_buffer.push goes to the queue itself, whatever its size.
TransferPop ==
  /\ handler = "pop"
  /\ \E sp \in queue[from] :
       queue' = [queue EXCEPT ![from] = @ \ {sp}, ![current] = @ \cup {sp}]
  /\ handler' = "transfer"
  /\ UNCHANGED <<spanVars, closed, batch, current, from, streamVars, agentVars, history>>

\* start_streaming: Connection#wait_for_agent_connect, then the stream is opened.
WaitForAgentConnect ==
  /\ handler = "starting" /\ agentConnected
  /\ handler' = "opening"
  /\ UNCHANGED <<spanVars, bufferVars, current, from, streamVars, agentVars, history>>

RecordSpanBatches ==
  /\ handler = "opening"
  /\ last' = last + 1 /\ live' = last + 1
  /\ writer' = [writer EXCEPT ![last + 1] = "popping"]
  /\ on' = [on EXCEPT ![last + 1] = current]
  /\ handler' = "reading"
  /\ overlapped' = (overlapped \/ \E s \in Streams : on[s] = current /\ writer[s] = "clearing")
  /\ UNCHANGED <<spanVars, bufferVars, current, from, agentVars, sent>>

-----------------------------------------------------------------------------
(* The agent's connection to the collector.                                *)

\* The event server_source_configuration_added: notify_agent_started.  A reconnect
\* has joined the thread that opens the first stream before.
NotifyAgentStarted ==
  /\ connectState = "pending" /\ (reconnects > 0 => last > 0)
  /\ connectState' = "announced"
  /\ agentConnected' = TRUE /\ missed' = FALSE
  /\ UNCHANGED <<spanVars, bufferVars, clientVars, streamVars, reconnects, history>>

Connected ==
  /\ connectState = "announced"
  /\ connectState' = "connected"
  /\ UNCHANGED <<spanVars, bufferVars, clientVars, streamVars, agentConnected, reconnects,
                 missed, history>>

ForceRestart ==
  /\ connectState = "connected" /\ reconnects < MaxReconnects
  /\ connectState' = "pending"
  /\ reconnects' = reconnects + 1
  /\ UNCHANGED <<spanVars, bufferVars, clientVars, streamVars, agentConnected, missed, history>>

-----------------------------------------------------------------------------
RecorderStep(r) == Push(r) \/ PushClosed(r) \/ Discard(r)
WriterStep(s) == Take(s) \/ TakeNil(s) \/ Yield(s) \/ YieldFails(s) \/ ClearBatch(s)
HandlerStep ==
  \/ Suspend \/ ResetConnection \/ TransferBuffer \/ TransferEmpty \/ TransferMore
  \/ TransferPop \/ WaitForAgentConnect \/ RecordSpanBatches

Next ==
  \/ \E r \in Recorders : Record(r) \/ RecorderStep(r)
  \/ \E s \in Streams : WriterStep(s)
  \/ HandlerStep
  \/ \E there \in {"starting", "restarting", "suspending"} : StreamEnds(there)
  \/ NotifyAgentStarted \/ Connected \/ ForceRestart

Spec == Init /\ [][Next]_vars

\* Threads run, and a stream that is being opened is opened in the end.  Streams
\* need not end, and the agent need not connect.
Fairness ==
  /\ \A r \in Recorders : WF_vars(RecorderStep(r))
  /\ \A s \in Streams : WF_vars(WriterStep(s))
  /\ WF_vars(HandlerStep)

FairSpec == Spec /\ Fairness

-----------------------------------------------------------------------------
(* Properties.                                                             *)

HandlerStages == {"starting", "opening", "reading", "restarting", "swapping", "transfer", "pop",
                  "suspending", "suspended"}

\* Every variable has its type, and a stream is open, the last one, as long as the
\* handler reads from it.
TypeOK ==
  /\ recorded \in 0..MaxSpans
  /\ span \in [Recorders -> {0} \cup Spans]
  /\ into \in [Recorders -> {Suspended} \cup Buffers]
  /\ queue \in [Buffers -> SUBSET Spans] /\ batch \in [Buffers -> SUBSET Spans]
  /\ closed \subseteq Buffers
  /\ current \in {Suspended} \cup Buffers /\ from \in {Suspended} \cup Buffers
  /\ handler \in HandlerStages
  /\ live = IF handler = "reading" THEN last ELSE 0
  /\ last \in {0} \cup Streams /\ live \in {0} \cup Streams
  /\ writer \in [Streams -> {"none", "popping", "yielding", "clearing", "ended"}]
  /\ on \in [Streams -> {Suspended} \cup Buffers]
  /\ connectState \in {"pending", "announced", "connected"}
  /\ agentConnected \in BOOLEAN /\ missed \in BOOLEAN /\ overlapped \in BOOLEAN
  /\ reconnects \in 0..MaxReconnects
  /\ sent \in [Spans -> Nat]

\* A span is sent once, though a stream that has ended may still take spans, the
\* batch is shared by all the streams of a buffer, and spans move from buffer to
\* buffer: unless a stream is opened before its predecessor has cleared the batch
\* that it sent.
SentOnce == overlapped \/ \A sp \in Spans : sent[sp] <= 1

\* Spans wait where they will be sent from: an open client's current buffer, or
\* the one being transferred to it.
NothingStranded ==
  current # Suspended =>
    \A b \in Buffers : queue[b] # {} => b = current \/ Locked(b)

\* A restart adds one buffer's worth of spans to the limit, since a transfer does
\* not mind it; no sequence of restarts adds more.
QueueBound == \A b \in Buffers : Cardinality(queue[b]) <= b * MaxQueue

\* The transfer has seen a span that a writer of the old stream then took.
Robbed == handler = "pop" /\ queue[from] = {}

\* A thread that records a span is not held up for ever by a restart, unless a
\* writer takes the last span of the old buffer under the transfer's hands.
PushReturns == \A r \in Recorders : span[r] # 0 ~> span[r] = 0 \/ Robbed

\* After the end of a stream there is another, or the client is suspended: unless
\* the transfer is robbed, or the connection was reset just when it missed the
\* news that the agent is connected.
StreamReopened ==
  handler # "reading" ~> \/ handler \in {"reading", "suspended"} \/ Robbed
                         \/ missed \/ connectState # "connected"
=============================================================================
