# A TLA+ model of the New Relic Ruby agent

The Ruby agent (`newrelic_rpm`) lives inside a customer's application. Request
threads record events, traces and metrics; one *worker thread* per process wakes
up on timers, harvests what was recorded and sends it to the New Relic
collector. The application forks, is shut down at any moment and must never be
harmed by the agent, while the collector may be unreachable, slow, overloaded,
or may order the agent to restart or to go away.

This directory models the concurrent core of that program, checks it with TLC on
small instances, and proves its main safety properties with TLAPS for every
instance. All modules are translated from the code under `lib/new_relic/agent`
and `infinite_tracing/lib`; `PROJECT.json` maps every definition to the lines it
stands for.

## 1. Inventory

| Part | State | Operations | Interacts with | What is hard |
|---|---|---|---|---|
| **Event loop** `event_loop.rb` | queue, self-pipe, timers, subscriptions, `@stopped` | `fire`, `on`, `fire_every`, `fire_after`, `stop`; `run` | called by any thread; run by the worker; callbacks harvest | an append and its wakeup byte are two steps; the pipe fills; a forked child shares it |
| **Event aggregators** `event_aggregator.rb`, `priority_sampled_buffer.rb`, `event_buffer.rb`, `heap.rb` | items (array, then heap), capacity, counts per harvest and for life, `@enabled` | `record`, `harvest!`, `merge!`, `reset!`, `capacity=`, `note_dropped` | request threads, both harvesting threads, configuration callbacks | counts over failed harvests; tests made outside the lock; eviction |
| **Life cycle** `agent.rb`, `agent_helpers/{startup,connect,start_worker_thread,shutdown}.rb`, `harvester.rb` | `@started`, `@connect_state`, `@connected_pid`, `@connect_attempts`, `@worker_thread`, `@event_loop`, the Harvester's `@starting_pid`, `@service` | `start`, `connect` and its retries, `after_fork`, forced restart and disconnect, `shutdown` | forks; request threads through the Harvester; the collector | everything is inherited by a fork, except threads; two requests notice a fork at once; a join with a time-out |
| **Harvest and delivery** `agent_helpers/{harvest,transmit}.rb`, `new_relic_service.rb` | containers, the payload each harvesting thread holds, attempts | `transmit_data`, `transmit_*_event_data`, `relay_request`, `handle_error_response`, `merge!` | event loop, containers, collector | lost answers, retries, merges into full containers, two harvesting threads at a shutdown |
| **Pipe channel** `pipe_channel_manager.rb`, `pipe_service.rb`, `agent_helpers/harvest.rb`, Resque's and Parallel's hooks | each process's copies of the listener's tables and of every open end; the stream of frames; the wake pipe | `register_report_channel`, fork, `after_fork`, harvest and flush into the pipe; the listener's clean-up, select, read, close | children, their siblings and their parent, through file descriptors a fork copies | a frame is two writes; an end of file needs every copy closed; reads block; a silent child times out |
| **Infinite tracing** `infinite_tracing/lib/infinite_tracing/{client,connection,streaming_buffer,suspended_streaming_buffer}.rb` | streaming buffers, the client's current one, streams and their writers, what the connection knows of the agent | push, batch and yield; restart, transfer, suspend; wait for the agent | application threads, gRPC's writer threads, the agent's connect | closing a queue under its producers and consumers; writers of ended streams; a missed event |
| **Configuration manager** `configuration/{manager,server_source}.rb`, `connect/response_handler.rb`, `dependency_detection.rb` | the stack of sources, the cache, callbacks | `[]`, `fetch`, `replace_or_add_config`, `remove_config_type`, `reset_cache`, `register_callback` | every thread reads; connects and shutdowns change it; dependency detection writes into the cache; aggregators follow settings | slow reads overtaken by a change; a reset in three steps; callbacks before the change |
| **Thread profiler** `commands/`, `threading/backtrace_service.rb`, `worker_loop.rb` | the subscribed profile, `@running`, the loop's `@should_run`, polling threads; the session's finished profile and start | `start_profiler`, `stop_profiler`, harvest, `on_before_shutdown`; subscribe, unsubscribe, poll | the worker and a shutting-down thread harvest; polling threads share one loop | a start outside the lock; a setup that undoes a stop; a second poller; a profile nobody ends |
| **SQL and transaction trace samplers**, **error collector** | bounded stores of the slowest traces and first errors | notice, harvest, merge, reset | request threads, harvests | which items survive a merge |
| **Adaptive sampler**, **transaction time aggregator** | counters per period, busy time per thread | sampled?, harvest | request threads, harvests | period boundaries, averages |
| **Tracer, transactions, segments** | thread-local state, segment trees | start, finish | instrumentation, fibers and threads | children that end after their parents, concurrent children |
| **Health check** | status, status file | loop, update | life cycle, forks | written after shutdown or by two processes |
| **Stats engine, rules engine, attribute filter, obfuscation, distributed-trace headers** | tables, rules | merge, rename, filter, parse | all threads through a lock | pure algorithms |
| **Instrumentation, samplers, utilization, database, OpenTelemetry bridge, LLM, serverless, JS, CLI, Rack, logging** | little | wrappers, formatting, I/O | the host application | not a matter for a model checker |

`PROJECT.json` lists every component with its status, and, under `hazards`,
each place of this code where an interleaving, a stale value, a failure or a
limit could go wrong, with the properties that would notice.

## 2. Plan

Modules, in the order they are (or are to be) written; the most important
behaviour comes first.

1. `Heap`, `SampledBuffer` - the buffer every event type is kept in. **Done.**
2. `EventLoop` - what drives the worker thread. **Done.**
3. `AgentLifecycle` - processes, threads, connect, fork, shutdown. **Done**, but
   for the options listed in section 7.
4. `Delivery` (abstract) and `Harvest` (detailed, shown to implement it) -
   what happens to recorded data. **Done.**
5. `Channel` (abstract) and `PipeChannel` (detailed, shown to implement it) -
   children that report through a pipe: frames, READY, end of file, time-out,
   the ends a fork copies. **Done.**
6. `InfiniteTracing` - streaming buffers, restart and suspension: who is left
   waiting, and what is sent. **Done**, for the batched mode.
7. `ConfigManager` - the stack, the cache that reads fill, those who follow a
   setting. **Done.**
8. `ThreadProfiler` - `WorkerLoop`, `BacktraceService`, `ThreadProfilerSession`: what
   is polled, by whom, and until when. **Done.**
9. `TraceStores` - `SqlSampler`, the transaction sample buffers and the error
   queue against "the best N of what was noticed".
10. `AdaptiveSampler`, `TransactionTimeAggregator` - arithmetic at period
   boundaries against reference definitions.
11. `Tracer` - segments finished out of order and on several threads.
12. `HealthCheck`.
13. Pure algorithms: rules engine, stats merge.

The whole set of runs is meant to stay at about a dozen, so that it is run on
every change: a new module brings one run that checks its safety and liveness
together, and the runs of findings that are settled make way for it; section 5
keeps what they have shown.

Theorems planned beyond those of section 6: the bounds of `TraceStores`.

## 3. Modules

| Module | Role |
|---|---|
| `EventLoop` | `event_loop.rb`, one action per public call and per step of the loop |
| `MCEventLoop` | its instance for TLC |
| `EventLoopProofs` | theorems about it |
| `PriorityQueue` | abstract: what a heap promises its user |
| `Heap` | `heap.rb`, one action per `push`, `pop` and `fix` and per call of `heapify_up` and `heapify_down`, with `PriorityQueue` as its abstraction |
| `BufferBounds` | the constants that a buffer and its heap share |
| `BufferHeap` | `Heap` as the buffer's, with room for all its events: what TLC runs and the theorems are about |
| `SampledBuffer` | an `EventAggregator` with its `PrioritySampledBuffer` |
| `MCSampledBuffer` | its instance for TLC |
| `SampledBufferProofs` | theorems about it and about `BufferHeap`, the refinement included |
| `AgentLifecycle` | the agent in a tree of processes |
| `MCAgentLifecycle` | with the symmetry of threads, for safety runs |
| `AgentLifecycleProofs` | theorems about it |
| `Delivery` | abstract: what the agent promises about recorded data |
| `Harvest` | harvests, requests and their failures, with `Delivery` as its abstraction |
| `MCHarvest` | the plans of harvests TLC runs |
| `HarvestProofs` | theorems about it, the refinement included |
| `Channel` | abstract: a first-in first-out channel that may be cut |
| `PipeChannel` | a tree of processes that report to their parents, with `Channel` as its abstraction |
| `MCPipeChannel` | the families of processes TLC runs |
| `PipeChannelProofs` | theorems about it, the refinement included |
| `InfiniteTracing` | the client, its buffers and its streams |
| `InfiniteTracingProofs` | theorems about it |
| `ConfigManager` | the configuration's stack and cache, and who reads, changes and follows them |
| `MCConfigManager` | the local sources and the answers of a collector TLC runs |
| `ConfigManagerProofs` | theorems about it |
| `ThreadProfiler` | the profiler's commands, session, service and polling threads |
| `ThreadProfilerProofs` | theorems about it |

The parts meet at narrow interfaces, and each model has the other side as its
environment. `Harvest`'s `StartRound` is a callback dispatched by `EventLoop`
(`DispatchFire`); its `Shutdown` is `EventLoop`'s `Stop` followed by the timed
join of `AgentLifecycle`; the `ToldToRestart` exception of `Harvest` is
`EventLoop`'s `DispatchForce` and `AgentLifecycle`'s `ForceRestart`.
`SampledBuffer` is one of `Harvest`'s containers looked at closely; `Harvest`
keeps of it only that a container holds at most `Capacity` and drops something
only when it is full, which `SampledBuffer` and `Heap` check. `SampledBuffer` in
turn takes from `Heap` only that a heap has a least item at its root and the
same items in some order (`AsHeaps`), which `HeapsAreAsTaken` proves of `Heap`.
`PipeChannel`'s `WriteLength` by a worker is what a child's `Harvest` does with
its service, its `StopEventLoop` is `AgentLifecycle`'s timed join, and what its
`ReadFrame` receives is a `MergeFromPipe` of the parent's `SampledBuffer`.
`InfiniteTracing` follows `AgentLifecycle`'s connection through three states of
it. `ConfigManager`'s `Connect` is what follows `AgentLifecycle`'s successful
connect, and its callbacks are `SampledBuffer`'s `Resize` and `SetEnabled`.
`ThreadProfiler`'s two harvesting threads are `Harvest`'s; its `BeforeShutdown`
comes after `AgentLifecycle`'s timed join, so the worker may still be in a
harvest.

### EventLoop

`queue`, `pipe`, `stopped`, `timers` and `subs` are the instance variables; `pc`,
`cur` and `visit` say where the loop's thread is in `run_once`. A public call is
two actions, because the code is: `Fire`/`On`/`SetTimerCall`/`Stop` do the append
(or set the flag), and `Wakeup` writes one byte, or none when the pipe is full.
`WaitToRun` is `IO.select`: it needs a byte (and takes ONE), or an earliest timer
that is due. The walk over the timers, the drain, and each dispatch are steps of
their own, so that calls of other threads fall between them. A callback on the
loop's own thread is the caller `LoopThread`; one that raises a force exception
leaves through `DispatchForce`. `ForeignWakeup` is a byte written by a forked child
that still has the parent's pipe. `asked` and an entry's `need` are history: which
handlers had been asked for when an event was fired.

`NoLostWakeup` and `StopNotMissed` are the reason the loop may block at all. That
the loop takes one byte per round and still misses nothing rests on draining the
whole queue, on writing after appending, and on a full pipe being readable;
mutants that drop any of these are caught. `SubscribedBeforeFire` holds because
subscriptions travel through the same queue as events. `TimerSpacing` says that
the walk never fires a timer twice within its interval.

### Heap and SampledBuffer

`items` is `@items` (1-based; the code's indices are 0-based), `heapify` and `at`
say which call of `heapify_up` or `heapify_down` is next, if any. `Push`, `Pop` and
`ReplaceAndFix` (the assignment and `fix`, as the buffer uses them) change the
array and make the first call; `HeapifyUp` and `HeapifyDown` are one call each,
which swaps and calls itself, or returns. `fix` tests before its call what
`heapify_down` tests again first thing, so the model calls it in any case.
`HeapOrder` is the order once an operation is over. `QueueSpec` is the refinement
of `PriorityQueue` with `bag <- BagOf(items)` and `busy <- heapify # "none"`: an
operation changes the bag once, as it says, and the calls that follow do not
change it at all. Without `busy` in the abstraction a `swap` that copies one item
over the other would pass for a replacement.

In `SampledBuffer` an event is its priority. Recorders test `enabled?` without the
lock and record with it; two senders (worker, shutdown) harvest and either finish
(`Done`) or `MergeBack`; `MergeFromPipe` is a child's payload; `Resize` is the
capacity callback; `SetEnabled` and `Reset` the enabled callback. `merge!` and
`capacity=` append one event per step with the lock held (`job`), because
`NoteDropped` changes `@seen` without taking it (the unlocked `+= 1` itself is one
step, as it is on MRI; on a Ruby without a global lock an increment could be lost). `givenUpHeaped` is history: the
highest priority that a buffer has turned away since it became a heap.

### AgentLifecycle

Variables are functions of the process; `Fork` copies the parent's record to the
child, with only the forking thread alive in it, exactly what a fork does to the
agent's instance variables. Threads are `Main` (boot, fork, shutdown), `Requests`
and `Workers`; `pc[p][t]` names the place in the code, with a step between two
points where a thread may be descheduled for long: a lock, a network call, a
sleep, a join. `NeedsAfterForkWork` is one step because `@after_fork_lock` makes it
one (its mutant splits the test from the marking and two workers appear).
`AfterForkModes` are the options with which the repository's hooks call
`after_fork`: "force" (Harvester, Passenger), "channel" (Resque), "plain".
`inherited` says that the aggregators hold what the parent had recorded.

### Delivery and Harvest

`Delivery` says what an application may rely on: a recorded event is held until
the collector has it, unless it is shed, which needs a full buffer's worth
(`Enough`) held, or discarded by a decision. It may be delivered more than once.

`Harvest` has the containers, the worker and a thread that shuts the agent down.
Each runs a *plan*: the sequence of sessions, containers and the agent-commands
request that `transmit_data` or one of `transmit_*_event_data` goes through. A
harvest moves everything out of the container into the thread's `payload`, and the
request ends in one of the ways the code distinguishes: `Accepted`, `Rejected`
(serialization, size, 4xx), `Unavailable` (408, 429, 500, 503 and unforeseen
errors: merged back), `ConnectionFails` and `AnswerLost` (retried once, then
merged back), `AnswerUnreadable`, `ToldToRestart` (401, 409), `ToldToDisconnect`
(410). The collector stores the data in `CollectorTakes`, *before* its answer: a
time-out between the two is where data is sent twice. `SessionFails` is a
connection that cannot be opened, which abandons the plan.

A container gives up its data under its lock, in one step. The exception is the one in
`Profiles`, the agent command router, whose `merge!` and `reset!` do nothing and
whose `harvest!` takes no lock: `ReadyToHarvest` and stop's test of `running?`,
`TakeProfile` (`@finished_profile = @backtrace_service.harvest`), `Unsubscribe` (and
`@finished_profile = nil` for a command that says not to report), `ReadProfile` and
`ClearProfile` (lines 56 and 58 of `thread_profiler_session.rb`) are steps of their
own, and the two threads may mix them. `finished` is what the finished profile has
gathered, `buffer` of the router what the subscribed one has; `StartProfile` and
`StopProfile` are the commands, the latter also `on_before_shutdown`. `shared` is
history: what a thread read before the other had cleared it. `ExclusiveCustody` and
`DuplicatesExplained` name it as their exception, which does happen (section 5).

The refinement mapping is `held <- Held` (everything in containers, payloads and
the finished profile) and `delivered <- received`; `recorded`, `overflowed` and
`discarded` are history of both modules. A profile that both threads carry and one
drops is not discarded yet (`OnlyWith`).

Simplified: a profile with nothing gathered is like none; two commands that start a
profile at once, one on each thread, are `ThreadProfiler`'s; an event dispatched in
the last `run_once` of a stopped loop may be followed by any number of others.

### Channel and PipeChannel

`Procs` are the processes, and a channel is named after the child it is for.
`registered`, `started`, `readEnd` and `writeEnd` are what a fork copies: each
process's view of the listener's `@pipes` and `@started`, and who holds which end
of a pipe open. `pc` is a process's main thread: `RegisterPipe`, `Wakeup` and `Fork`
in the parent; in the child the greeting of `after_fork` (READY, the first frame),
then its job, then `StopEventLoop`, the flush and `Exit`. The worker of a child
writes when it harvests. `Pipe#write` is `WriteLength` and `WriteData`, between
which the other thread may write; a full pipe blocks the writer, one that nobody
reads is `BrokenPipe` or `GreetingFails`. The listener is `CleanUpPipes`, `Select`,
and for each readable pipe `ReadLength` (which closes its own writing end first),
`ReadFrame` or what else a read may meet, and `CloseAtEOF`, whose `eof?` blocks; then
`ReadWake`. `Crash` kills a process anywhere.

`FramesIntact` is about the two writes: no lock protects them, only that the event
loop is stopped before the flush, and not when that join times out.
`RegistrationNoticed` is about the wake pipe that parents and children share.
`NothingCutOff` says what a listener may close. `ExitedChildReaped` is the comment of
`pipe_channel_manager.rb` about an exit that is not clean; it needs all copies of
the writing end closed, and with two children of one parent it fails (section 5).

Simplified: `MayBegin` lets a child of a disconnected parent flush even when
`after_fork` was skipped, which only adds behaviours; a time-out may strike any `Lingering` child at any clean-up; the two
critical sections of a clean-up are one step; a stream that has lost its framing
never finds it again; the root's connect state does not change; the wake pipe is
there from the start, so the unlocked `@wake ||=` is not raced for; the
`@service.shutdown` of a child's agent is part of its exit. `stop_listener_thread`
and `close_all_pipes` are called by tests only.

### InfiniteTracing

A span is a number; `queue[b]` and `batch[b]` are the `@queue` and `@batch` of the
b-th buffer, as sets. An application thread finds the client's buffer (`Record`),
and pushes (`Push`, or `PushClosed` if the buffer was closed in between, or `Discard`
when the client is suspended). The writer of a stream, which gRPC runs, is the loop
of `batch_enumerator`: `Take`, `Yield`, `ClearBatch`; the writer of a stream that has
ended stays in `pop` and takes spans until it fails to write them. `handler` is the
one thread that reads a stream's answers, learns of its end (`StreamEnds`), and
suspends the client or opens the next stream, after a restart on a new buffer:
`ResetConnection`, `TransferBuffer`, `TransferEmpty`/`TransferMore`/`TransferPop` (the
test and the blocking `pop` are two steps), `WaitForAgentConnect`,
`RecordSpanBatches`. The agent is `NotifyAgentStarted`, `Connected` and
`ForceRestart`: the event that announces its configuration comes before its state
is `:connected`. `overlapped` and `missed` are history: a stream was opened while
the last one's writer had yet to clear the batch it shares with it; the
connection was reset between that event and that state.

`SentOnce`, `NothingStranded` and `QueueBound` say what happens to spans;
`PushReturns` and `StreamReopened` that no thread waits for ever. `Robbed` and
`missed` are their exceptions, and each is needed.

Simplified: the batched mode, which is the default; the first buffer and
connection exist at the start (their creation is under a lock); an answer of the
observer carries nothing; metadata and tokens are left out; the retries of one
call within `with_reconnection_backoff` are its duration. `flush`, `stop` and a
`transfer` from a buffer given by the caller are called by tests only. What gRPC
does with a writer is not in this repository and is modelled from its use.

### ConfigManager

`layers` is the stack, one source per layer; `cache` is the content of `@cache` and
`generation` tells one hash from the next, since a thread that has taken hold of
a hash goes on with that one: `Lookup` hits, or notes the hash it missed in
(`access`); `Fetch` walks the stack; `Store` writes the answer into that hash, which
may have been replaced. The main thread builds an aggregator (`Construct`, `Enable`,
`RegisterCallback`, `YieldAndStart`), then lets the instrumentation be detected
(`Detect`, `UsePrepend`, `UpdateConfigValue`, which writes into the cache without its
lock), and at the shutdown takes two sources away (`RemoveConfigType`, then
`reset_cache`, then `InvokeRemoveCallbacks`). The worker applies an answer:
`ApplyFeatureGates` builds the source, `InvokeCallbacks` and `CallBack` tell the
followers, `Assign` puts it into the stack, `reset_cache` renews the cache, and
`NotifyServerSourceAdded` is the event whose handler sets `@enabled`. `reset_cache` is
`ResetCache` (the lock, and the values to keep), `NewCache` and `Restore`. Readers
read any setting at any time. `told` and `applied` are the aggregator's capacity
and `@enabled`; `overtaken` and `dropped` are history.

Three settings stand for all: one that the collector gates, one with a callback,
one that detection replaces. `CacheIsCurrent` is about slow reads,
`DetectionKept` about resets, `SubscriberFollows` and `AggregatorFollows` about the
order of callbacks, stack, cache and event; the exceptions they name do happen,
and section 5 has them.

Simplified: a source stands for what the evaluation of its settings gives
(coercion, transformations, allow-lists); the event's handler runs
as the worker's next step (the event manager calls it in the same thread); no
evaluation raises; the sources that exist before the agent is built are in
place; JRuby, where `reset_cache` keeps nothing, is left out.

### ThreadProfiler

`subscribed` says whether `@profiles` has a profile, `running` is the service's
`@running`, `should_run` the flag of its one `WorkerLoop`, and `poller` where each
polling thread is in `run`: `Setup`, `KeepRunning`, the sleep, `WakeUp` (the flag is
tested a second time), `Poll`. A round of a harvesting thread is `Begin` (or
`BeforeShutdown`), any number of `HandleStart` and `HandleStop`, `CommandsDone` or
`Abandon`, then `Harvest` and `HarvestSession`. A start is `Subscribe`, under the lock,
then `Start` (the test of `@running`), `Spawn` and `SetStartedAt`, without it. A stop is
`StopIfRunning`, `Take`, `Unsubscribe`, `Halt` and `Stopped`; the service's two assignments
are two steps, `Unsubscribe` and `Halt`, with the lock held in between, because a start
reads and sets `@running` without it. `sampled` says
whether the subscribed profile has been sampled. `stopMissed` and `crossed` are
history: the last `Halt` met a polling thread that had not set the loop up, or a
service that had been started again.

`SubscribedIsPolled` and `PollersEnd` relate the profile, the two flags and the
threads, which no lock keeps together; `ProfileEnds` says that a profile ends by
itself, whatever rounds are abandoned and commands mixed in. The first two name
the cases in which the code fails them (section 5).

Simplified: `@duration` is one flag, `expired`; the session's read and reset of its
finished profile is one step, because no property here speaks of what it holds, and
`Harvest` has the two apart; the polling period and its back-off
are left out, as is what a sample holds.

## 4. Runs

| Run | Config | Checks | Result |
|---|---|---|---|
| `event_loop` | `EventLoop.cfg` | `NoLostWakeup`, `StopNotMissed`, `SubscribedBeforeFire`, `TimerSpacing`, `QueueDrains`, `StopEndsLoop`, `DueTimerFires` | holds, 278,289 states |
| `heap` | `Heap.cfg` | `HeapOrder`, `QueueSpec` | holds, 27,464 states |
| `sampled_buffer_safety` | `SampledBufferSafety.cfg` | `CountsConsistent`, `HeapKeepsHighest` | holds, 2.1 million states |
| `lifecycle_safety` | `LifecycleSafety.cfg` | `OneWorkerPerProcess`, `OwnRunWhenForced`, `ParentsDataNotResent`, `RejectedStaysAway` | holds, 1.4 million states up to symmetry |
| `lifecycle_liveness` | `LifecycleLiveness.cfg` | `ShutdownCompletes`, `ChildGetsWorker`, `RestartReconnects` | holds, 157,208 states |
| `harvest_safety` | `HarvestSafety.cfg` | `ExclusiveCustody`, `DuplicatesExplained`, `DeliverySpec` | holds, 2.1 million states |
| `harvest_liveness` | `HarvestLiveness.cfg` | `EventuallyDelivered`, `ShutdownFlushEnds` | holds, 117,436 states |
| `pipe_channel` | `PipeChannel.cfg` | `FramesIntact`, `RegistrationNoticed`, `NothingCutOff`, `ExitedChildReaped`, `ChannelSpec` | holds, 351,041 states |
| `pipe_siblings` | `PipeSiblings.cfg` | `ExitedChildReaped` | violated (finding) |
| `infinite_tracing` | `InfiniteTracing.cfg` | `SentOnce`, `NothingStranded`, `QueueBound`, `PushReturns`, `StreamReopened` | holds, 235,248 states |
| `config` | `Config.cfg` | `CacheIsCurrent`, `DetectionKept`, `SubscriberFollows`, `AggregatorFollows` | holds, 3.6 million states |
| `thread_profiler` | `ThreadProfiler.cfg` | `SubscribedIsPolled`, `PollersEnd`, `ProfileEnds` | holds, 178,936 states |

What each run shows is in the `about` of its entry in `PROJECT.json`. The types of
every module are proved (section 6) and left out of the runs.

### Bounds, and why they are enough

* **Event loop**: an outside thread, the callback and a forked child's writes,
  three public calls between them (`MaxCalls`), two events, the interval 2, two
  seconds of clock (`MaxTime`), a pipe of ONE byte (`PipeSize`). The one-byte pipe
  makes EAGAIN an ordinary case; three calls are a subscription, a timer and an
  event, or two wakeups coalesced while a third is under way. A caller that has
  appended and not yet written is what matters to the loop, and the thread and
  the child give it two at once; the proofs cover any number.
* **Heap**: seven items are three full levels, where both children, one child
  and no child of the last parent occur, and where a recursion makes up to three
  calls; four priorities give ties. The proofs cover any size.
* **Sampled buffer**: capacities 0, 1, 2, priorities 0..2, four events
  (`MaxRecorded`), one change of capacity (`MaxResizes`). One recorder is enough
  for the interleavings with the lock's holder, whose loops are split into
  steps: recorders hold no state but whether they passed the `enabled?` test.
* **Life cycle**: a parent and one child, two requests that race in the child,
  two workers for each process, so that a second worker can exist. A deeper
  tree adds nothing that a fork of a fork from the same code would not show on
  one edge, because a child talks to its parent only through what it copied.
  The safety run lets `using_forking_dispatcher?` answer either way
  (`Dispatchers`), so the first process may start its agent itself or leave
  that to its children. It does not count attempts (`MaxAttempts` is 0), since
  the code reads the count only for the length of a sleep; the other runs count
  one. The liveness run has one request and one worker, no symmetry, a process
  that is no dispatcher and so runs a worker that was not forced to connect,
  and `sync_startup`, so that the connect in the foreground is exercised.
* **Harvest**: one container of each kind (an error queue, the profile
  container that cannot merge, an event buffer with an event of the loop to
  itself), each of capacity 1, and two events: one is out with a sender while
  the other fills its place, so that a merge overflows; or one is in a profile that a
  thread has read and the other in the next profile, which that thread's clear
  meets. `MaxAttempts` is the
  code's own 2. The liveness run has two containers in one plan, so that only
  the harvest behind another one can deliver what the second holds.
* **Pipe channel**: a parent and two processes of which the first may fork the
  second, or be its sibling. One writes READY, a frame of its worker and one of
  its flush, and may be silent for too long; the other only greets and may be
  killed anywhere; the join of either may time out. A pipe holds six parts of
  frames (`Capacity`), all that a child writes: `ExitedChildReaped` fails when a
  pipe fills, as the run of the siblings shows, in which both children have four
  parts to write to a pipe that holds three. The proofs of the other properties
  are for any capacity.
* **Infinite tracing**: one application thread, a queue of one span, three
  spans, three streams (two ends, so two restarts in a row) and one reconnect.
  The first span may be in a batch, the second in the queue and the third about
  to be pushed. The invariants of the proofs were checked with two application
  threads too.
* **Configuration**: one reader, so that with the main thread and the worker
  there are three reads under way; two connects (`MaxConnects`), the least for one
  source to replace another; a user whose environment hides the collector's
  limit, and one whose own setting the collector overrides and a shutdown takes
  away; answers with an open gate, a closed one, with a setting and without.
* **Thread profiler**: two starts (`MaxStarts`), the least for a second polling
  thread beside the first, for a start between the two assignments of a stop, and
  for a new profile while the session still has the old one. Commands come in any
  order and number otherwise, at most one harvest is a shutdown's.

Deadlock is checked where the system runs for ever by itself (`Heap`, the sampled
buffer). In the other runs it may really stop: the loop returns and nobody calls,
every process has shut down, the worker and the shutdown have ended and nothing
more is recorded, the children have exited and no listener was started, the
client is suspended, the configuration is reverted and the cache filled, the
agent was shut down and the polling threads have ended; so those configs say
`CHECK_DEADLOCK FALSE`.

Symmetry is used for request and worker threads (`MCAgentLifecycle`), in runs
without liveness; these sets are not ordered and no constant singles out an
element.

### Fairness

* `EventLoop`: weak fairness of the loop's thread (Ruby schedules it and
  callbacks return) and of each pending `Wakeup` (a thread that has appended goes
  on to write its byte). Nobody is obliged to call, and the clock need not move:
  `DueTimerFires` speaks of a timer that is already due.
* `AgentLifecycle`: weak fairness of each thread inside the agent's code. Requests
  to the collector are answered or time out (the HTTP client has time-outs),
  sleeps end, a timed join ends (`JoinTimeout`); no transaction or shutdown is
  promised.
* `Harvest`: weak fairness of each thread inside a plan and of the restart path;
  strong fairness that each event of the loop is fired again (`DueTimerFires` is
  what justifies it: the timers of `establish_fire_everies` never end), and, for
  `EventuallyDelivered` only, that a session and a request tried for ever
  succeed once. The last is an assumption about the network, without which
  nothing is ever delivered; the others are about the code's own threads.
  `ShutdownFlushEnds` does not lean on it: every request may fail. A stopped loop
  owes no further round, and commands for the profiler are never owed.
* `PipeChannel`: weak fairness of each main thread, each listener and each
  child's worker: threads run, jobs end, a join has a time-out. Nobody has to fork,
  and no harvest has to find something to write.
* `InfiniteTracing`: weak fairness of each pushing thread, each writer and the
  handler. Streams need not end and the agent need not connect.
* `ThreadProfiler`: weak fairness of each harvesting and each polling thread, of
  `Begin` (the event loop harvests again and again, `DueTimerFires`) and of time;
  strong fairness of the worker's `CommandsDone`: a round may be abandoned any
  number of times, but not every round for ever.

## 5. What disagreed with the documentation

One statement of the repository is refuted by a run; `PROJECT.json` quotes it.

* The exit of a child is said to give its pipe an end-of-file marker whether it
  is clean or not (`ExitedChildReaped`). A child forked later holds a copy of the
  writing end too, so the end comes when that sibling has exited as well. Until
  then `eof?` blocks the one listener thread, and if the sibling is meanwhile
  blocked writing to its own full pipe, which nobody reads, neither ever ends.

What follows needs no run, or has had one that is not kept.

* Starting twice is called an error condition; a transaction that runs while
  `start` is under way starts the agent a second time: with `EarlyRequests = TRUE` in
  `LifecycleSafety.cfg` TLC finds `OneWorkerPerProcess` violated. It is the first
  process that is exposed, and to two workers at most (`OneWorkerPerChild`,
  `NeverThreeWorkers`, both proved without that restriction).
* The comment above the feature gates (`server_source.rb:129`) means them only to
  spare what a subscription precludes, so a feature that the server allows and that
  was requested should be on. What was requested is read from the existing
  configuration, in which the source of the last connect still counts: a gate
  that was closed leaves "off" there, and when it is opened again without an
  explicit setting the feature stays off.
* `reset_cache` is said not to replace detected values. It does when
  `update_config_value` has its turn between the copy and the new hash: it writes
  into a hash that is on its way out (`overtaken`). So does a reader that missed before the
  detection and stores "auto" after it.
* A capacity callback is told of a source before the source is in the stack, and
  of that source's value, not of the one in effect: a limit from the collector
  reaches the aggregator although the environment's hides it. A later server source without
  the setting tells nobody (`dropped`).
* `lib/new_relic/agent.rb` says that `shutdown` kills the background thread.
  `stop_event_loop` joins it for three seconds and leaves it running when they
  are over, which is `JoinTimeout` in the model.
* `handle_force_restart` is documented to clear the connection attempts and does
  not.
* A firing by hand does not restart its timer once the timer has fired by itself:
  `calculate_next_fire_time` counts from `@last_fired_at`, which only the timers'
  own walk sets. The two tests that say so fire by hand before the first firing.
* A full `PrioritySampledBuffer` that is not a heap yet compares the event that
  comes in with its *oldest* item (`priority_sampled_buffer.rb:35`). If it does not
  rank above that one, it is turned away, even when the buffer keeps another that
  it does rank above. Once heaped the buffer never does so (`HeapKeepsHighest`,
  proved).
* `seen_lifetime`, logged as "since startup", grows when the capacity is changed.
* A rejected agent is said to try to connect no more. With `sync_startup`, a child
  that was told to reconnect and is turned away in the foreground still starts the
  worker it was told to force, which connects again; `RejectedStaysAway` is checked
  and proved without `sync_startup`.
* A process forked from a listener's process inherits `@started` as true, but not
  the listener's thread: pipes its own children register are never read. The model
  has it (`StartListener` is skipped in a child).
* The setting of the span queue's size is described as the maximum number of
  spans to buffer. A transfer does not mind it: after b - 1 restarts there may be
  b times as many, and no more (`QueueBound`).
* A push is said to block until the queue has restarted
  (`streaming_buffer.rb:49`). One that has found the old buffer before it was
  replaced fails when the transfer is over (`PushClosed`): the segment's `finish` logs
  the error, the span is lost.
* The old buffer's contents are said to be transferred. Its `@batch` is not: what
  a writer had taken and not sent stays there.
* The transfer of a buffer tests `empty?` and then pops; a writer of the old stream
  may take the last span in between, and the pop waits for ever with two locks
  held (`Robbed`).
* A connection that is reset after the agent has announced its configuration and
  before its state is `:connected` waits for an event that does not come again
  (`missed`).
* `connection.rb` says that clients are restarted when the configuration changes,
  and keeps none: `@active_clients` is never read.
* The worker loop is said to run its task immediately; `run` sleeps first.
* A stop that follows its start before the polling thread has set the loop up is
  undone by the setup: the thread polls, for nothing, until the next stop
  (`stopMissed`). A start that follows its stop while the old thread sleeps leaves
  two threads polling, and every backtrace is counted twice as often.
* A start between the two assignments of a stop leaves `@running` true and the
  loop told to stop: the profile is subscribed and never sampled (`crossed`). It
  takes a shutdown beside a worker that handles commands.
* A profile that is stopped and another that is started in one batch of commands:
  the harvest that follows finds the first one finished, stops the second at once
  and overwrites the first with it. What the first had gathered is lost.
* `ThreadProfilerSession#harvest` reads the finished profile and clears it two
  statements later, without a lock. A shutdown whose join timed out runs beside the
  worker, and both may send the same profile, with no answer lost (`shared`); or
  one finds nil, with the same NoMethodError as below; or a clear meets the next
  profile, stopped meanwhile, and that is lost unsent. Two stops that both pass the
  test of `running?` overwrite the finished profile with the one put in its place.
* A stop that says not to report leaves `@started_at` behind: when the duration is
  over the harvest is `[nil]`, and describing it for the log raises NoMethodError,
  which the harvest's rescue reports.
* A child forked with a profile running inherits it, and `@running`, without the
  thread: it samples nothing, and reports what its parent had sampled (`reset!` does
  nothing, as its comment says).

## 6. What is proved

Each module of proofs shows an inductive invariant, with one step per action, and
derives the properties from it. The assumptions are those of the ASSUMEs of the
modules (sets of the right kind; a pipe of at least one byte; distinct thread
names; capacities no less than `Least`), all evaluated by TLC in the runs; counts
and clocks stay bounded by constants, of any size.

* `EventLoopProofs`: `TypeCorrect`; `NoLostWakeupHolds` and `StopNotMissedHolds`,
  which are inductive together with the types: an append leaves its caller
  "waking", and only `WaitToRun` takes a byte, leaving the places the invariants
  speak of. `SubscribedBeforeFireHolds` needs more: that every handler ever asked
  for is subscribed, being dispatched, or in the queue (`AskedQueued`), and that
  those an entry needs are *ahead* of it (`NeedQueuedAhead`). `TimerSpacingHolds`
  needs to know that a timer whose next firing is too close to its last has the
  dispatch that reschedules it still ahead, and that none is left when a walk
  over the timers begins (`Spacing`). The same invariant gives
  `FiredTimersMoveOnHolds`.
* `SampledBufferProofs`, about the buffer: `TypeCorrect`, `CountsStayConsistent` and
  `HeapKeepsHighestHolds`, from one invariant: a heaped buffer is full and has a
  least item at its root (`HeapInv`). A lemma shows that whatever a heap is made
  of comes back from it (`AsHeapsFacts`).
  About its heap, `BufferHeap` (`Heap` with `MaxSize <- MaxRecorded`):
  `HeapTypeCorrect`; `HeapOrderHolds`, from an invariant of the recursion
  (`Order`: only the item the call is about, or its children, may be out of order,
  and those below it are no less than the one above it, `Bridged`); and
  `ImplementsQueue`. That the root is a least item would be an induction over the
  levels; the proof takes the least index of a counterexample instead, which the
  library's theorem on well-founded orders provides. The refinement rests on
  lemmas that count the items of one priority through `Append`, a replacement, a
  swap, and the removal of the last. `HeapsAreAsTaken` joins the two halves: each
  step of the heap keeps its items, and the last call of an operation leaves one
  of the `AsHeaps` that `SampledBuffer` chooses from. A reordering is given by a
  map of the positions onto themselves, and the swap's is composed with what came
  before.
* `AgentLifecycleProofs`: `TypeCorrect`; `ParentsDataNotResentHolds` (while a
  process holds its parent's data it has no worker and no caller on the way to
  one, `DropsFirst`); `OwnRunWhenForcedHolds` (`OwnRun`: a forced worker past its
  connect has a run of its own, or is about to find out it is not connected);
  `OneWorkerPerProcessHolds`, `OneWorkerPerChildHolds` and `NeverThreeWorkersHolds`,
  all from `FewStarters`: of the callers past the lock and the workers there is at
  most one, except in a first process with early transactions, where `Main` is
  booting beside them. Only the first of the three assumes `EarlyRequests = FALSE`,
  as it must (section 5). `RejectedStaysAwayHolds` assumes that and
  `SyncStartup = FALSE`: a thread that could connect a rejected agent does not
  exist, or is about to see the state (`Away`). `RejectedChildStaysAwayHolds` does
  without the former, since nobody boots in a child.
* `HarvestProofs`: `TypeCorrect`, `ExclusiveCustodyHolds`,
  `DuplicatesExplainedHold`, and `ImplementsDelivery`: every behaviour of
  `Harvest` is one of `Delivery`, for any containers, plans and capacities.
  `NoRecordedEventVanishes` transfers `Accounted`. The invariant adds that a thread
  carries a payload only while sending, or between its read and clear of a profile,
  and for which container (`Carrying`), that what is held was recorded
  (`HeldRecorded`), and where data that the collector already has may still be
  (`ReceivedKnown`). `ExclusiveCustody` is inductive with these: what two threads
  carry is a profile for both, which no merge puts back, so the exception for
  profiles never reaches another container. The one assumption about `Profiles`
  is that an agent has one router.
* `PipeChannelProofs`: `TypeCorrectness`; `RegistrationIsNoticed` (`Registering`);
  `NothingIsCutOff`; `FramesStayIntact` (`Turns`: the worker of a child that
  flushes has outlived the join; `Framing`: the stream's last frame is the one a
  thread is in the middle of, if any); and
  `PipeIsAChannel`: the listener is in step with the frames (`InStep`), so what it
  receives is the next one, complete. `ReceivedWholeHolds` is what the refinement
  is for: an invariant of `Channel` (`WholeAndInTurn`), proved of that short
  module alone, that holds of `PipeChannel` because it implements them.
* `InfiniteTracingProofs`: `TypeCorrectness`; `NothingIsStranded` (`Handed`: buffers
  before the current one are closed and empty); `SpansAreSentOnce` (`Single`: a span
  is in at most one queue, batch or hand; `Unsent`: what waits was not sent, except
  a batch that is about to be cleared); `QueuesAreBounded` (`Bounded`);
  `WaitsForNewsOnlyHolds` (`NewsKnown`: an agent that has announced itself is known
  to the connection, or was missed).
* `ConfigManagerProofs`: `TypeCorrect`; `CacheIsCurrentHolds` (`CacheInv`: also the
  answer of a read whose hash is still the cache is current, and no access has a
  hash that does not exist yet); `DetectionKeptHolds` (`KeepInv`: one thread at a
  time is in a reset, and what it keeps includes a detected value);
  `AggregatorFollowsHolds` (`FollowInv`: the value a thread is about to apply is the
  one in effect) and `SubscriberFollowsHolds` (`TellInv`: what was told is what the
  stack with the source that is on its way into it will say).
* `ThreadProfilerProofs`: `TypeCorrect`; `SubscribedHasPoller`, `StopReachesPollers`
  and `ProfileIsTimed`. They need each other's parts: at most one thread is between
  the two assignments of a stop, and nobody is subscribed then (`LockOnce`); a
  subscribed profile whose service does not run has a thread on its way to start
  it (`Serviced`); a running service has a polling thread and the flag that keeps
  it, or one that will set it (`RunningPolls`); and the harvest that clears the
  session's time has unsubscribed the profile (`Unsubscribed`).

Only model-checked: the liveness properties, because the prover does not do
fairness and ENABLED. Every other property of a passing run is proved. Five of
the liveness properties have the state invariant they rest on proved, for every
value of the constants: `SubscribedHasPoller` for `SubscribedIsPolled`,
`StopReachesPollers` for `PollersEnd`, `ProfileIsTimed` for `ProfileEnds`,
`FiredTimersMoveOnHolds` for `DueTimerFires`, `WaitsForNewsOnlyHolds` for
`StreamReopened`. Each says that somebody is left who can do what must happen, or
that nothing is in the way; that it is then done is fairness, and TLC's.

The inductive invariants, which no run lists, were checked by TLC on small
instances before they were proved. `FewStarters` was also checked with early transactions and
`sync_startup`, on one process with two requests and three workers.

## 7. Not modelled

* In the modelled parts: `disable_harvest_thread`, serverless mode, signal traps,
  `wait_on_connect`; the shared TCP connection when the worker and the shutdown
  use it together; a clock set back; HTTP proxies, compression, URIs; attributes
  and supportability metrics. A 500 answer is taken to mean that the data was
  not stored.
* `Harvest` gives every container one rule for what it keeps. The SQL sampler's
  `merge!` and the stats engine have no limit; their capacity is "as large as
  needed", and the SQL sampler's exceeded `MAX_SAMPLES` is a hazard left to
  `TraceStores`.
* A child that never runs a transaction nor `after_fork` and reaches its inherited
  `at_exit` shutdown.
* What `PipeChannel`, `InfiniteTracing`, `ConfigManager` and `ThreadProfiler` leave out
  is listed with them in section 3, and a profile in a forked child in section 5; a plain fork without a channel is `AgentLifecycle`'s.
* The components of the plan's steps 9 to 13: the bounded stores, the periods of
  sampling, the segment trees, the health check's file, the pure algorithms.
* Components that are I/O, formatting or wrappers around other libraries, with
  the reason for each in `PROJECT.json`. The TypeScript and JavaScript under
  `.github/actions` serves the repository's CI: short scripts that call GitHub's
  interface, and the bundle one of them is built into. They are no part of the
  agent and have no state of their own.

## 8. Running

```
tlc -config EventLoop.cfg MCEventLoop.tla           # any run of section 4
tlapm EventLoopProofs.tla                           # any module of proofs
```

`Config.cfg`, `PipeChannel.cfg`, `LifecycleSafety.cfg`, `LifecycleLiveness.cfg`,
`HarvestSafety.cfg`, `HarvestLiveness.cfg` and `ThreadProfiler.cfg` take one to two minutes each with two TLC workers; the other
runs take less.
