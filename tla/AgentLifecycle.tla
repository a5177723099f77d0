--------------------------- MODULE AgentLifecycle ---------------------------
(***************************************************************************)
(* The life of the agent in a tree of forked processes: start, connect     *)
(* with its retries, the worker thread, a forced restart or disconnect by  *)
(* the collector, after_fork and the Harvester that triggers it, and       *)
(* shutdown (agent_helpers/startup.rb, connect.rb, start_worker_thread.rb, *)
(* shutdown.rb, harvester.rb and the fork handling of agent.rb).           *)
(*                                                                         *)
(* Every process has a Main thread (boot, fork, shutdown), request threads *)
(* that run transactions, and the worker threads the agent creates.  A     *)
(* step is what a thread does between two points where it can be           *)
(* descheduled for long: a network call, a sleep, a lock, a join.          *)
(***************************************************************************)
EXTENDS Naturals, FiniteSets

CONSTANTS Procs,            \* the operating system processes
          Root,             \* the first of them
          Requests,         \* the request threads of a process
          Main,             \* the thread that boots, forks and shuts down
          Workers,          \* identities for the worker threads of a process
          Nobody,           \* nil, for a pid, a thread or a loop
          Dispatchers,      \* the answers using_forking_dispatcher? may give
          SyncStartup,      \* config[:sync_startup]
          EarlyRequests,    \* transactions may run while Main is still booting
          AfterForkModes,   \* options the hooks pass to after_fork
          MaxAttempts       \* where the count of failed attempts is capped

ASSUME LifecycleAssumption ==
  /\ Root \in Procs
  /\ Nobody \notin Procs \cup Workers
  /\ Main \notin Requests \cup Workers
  /\ Requests \cap Workers = {}
  /\ {SyncStartup, EarlyRequests} \subseteq BOOLEAN /\ Dispatchers \subseteq BOOLEAN
  /\ AfterForkModes \subseteq {"force", "channel", "plain"}
  /\ MaxAttempts \in Nat

VARIABLES
  pc,             \* what each thread of each process is doing
  options,        \* the options of the call a thread is in
  started,        \* @started
  connectState,   \* @connect_state
  connectedPid,   \* @connected_pid
  connectAttempts,\* @connect_attempts
  startingPid,    \* the Harvester's @starting_pid
  service,        \* @service: the collector, a pipe to the parent, a closed pipe
  agentRun,       \* whose connect returned the service's agent_id
  inherited,      \* the aggregators hold data recorded by the parent
  workerThread,   \* @worker_thread
  eventLoop,      \* the worker that created @event_loop
  stopped         \* the workers whose current event loop was stopped

vars == <<pc, options, started, connectState, connectedPid, connectAttempts, startingPid,
          service, agentRun, inherited, workerThread, eventLoop, stopped>>

Callers == Requests \cup {Main}
Threads == Callers \cup Workers
Modes   == {"force", "channel", "plain"}

Starting == {"claimed", "setup", "foreground", "starting"}
Booting  == {"boot", "booting"}
Resting  == {"idle", "checked", "unborn", "running", "joining", "flushing", "reverting",
             "stopped"}
Working  == {"connect", "contacting", "retrying", "checkConnection", "loop", "harvesting",
             "restarting"}

PCs      == Resting \cup Booting \cup Starting \cup Working \cup {"free", "ended"}

Goto(p, t, there) == pc' = [pc EXCEPT ![p][t] = there]

\* Where a caller goes when its call into the agent returns.
Return(t) == IF t = Main THEN "running" ELSE "idle"

Live(p, w) == pc[p][w] \in Working

\* Transactions run: the process exists and, unless EarlyRequests, has booted.
Serving(p) == /\ pc[p][Main] # "unborn"
              /\ EarlyRequests \/ pc[p][Main] \notin Booting \cup Starting

----------------------------------------------------------------------------
(* Startup *)

\* start: already_started? and the other checks, up to
\* check_config_and_start_agent, which leaves forking dispatchers alone.
Start(p) ==
  /\ pc[p][Main] = "boot"
  /\ \E forking \in Dispatchers :
       Goto(p, Main, IF started[p] \/ forking THEN "running" ELSE "booting")
  /\ UNCHANGED <<options, started, connectState, connectedPid, connectAttempts, startingPid,
                 service, agentRun, inherited, workerThread, eventLoop, stopped>>

\* A form of ShouldConnect that ignores :force_reconnect.
NeverForced(p, force) == connectState[p] = "pending"

\* should_connect?.
ShouldConnect(p, force) == force \/ connectState[p] = "pending"

\* setup_and_start_agent, up to the foreground connect of :sync_startup.
SetupAndStartAgent(p, t) ==
  /\ pc[p][t] \in {"booting", "setup"}
  /\ started' = [started EXCEPT ![p] = TRUE]
  /\ startingPid' = [startingPid EXCEPT ![p] = p]
  /\ Goto(p, t, IF SyncStartup /\ ShouldConnect(p, FALSE) THEN "foreground" ELSE "starting")
  /\ UNCHANGED <<options, connectState, connectedPid, connectAttempts, service, agentRun,
                 inherited, workerThread, eventLoop, stopped>>

\* connect_to_server returned: a PipeService answers nil, which configures nothing.
ConnectSucceeds(p) ==
  /\ agentRun' = IF service[p] = "collector" THEN [agentRun EXCEPT ![p] = p] ELSE agentRun
  /\ connectedPid' = [connectedPid EXCEPT ![p] = p]
  /\ connectState' = [connectState EXCEPT ![p] = "connected"]

Disconnect(p) ==
  /\ connectState' = [connectState EXCEPT ![p] = "disconnected"]
  /\ UNCHANGED <<agentRun, connectedPid>>

\* The loop a stop_event_loop in p reaches.
StopEventLoop(p) ==
  stopped' = [stopped EXCEPT ![p] = @ \cup ({eventLoop[p]} \ {Nobody})]

\* connect_in_foreground: a single attempt, whose failure is not counted.
ForegroundReply(p, t) ==
  /\ pc[p][t] = "foreground"
  /\ Goto(p, t, "starting")
  /\ \/ ConnectSucceeds(p) /\ UNCHANGED <<started, stopped>>
     \/ service[p] = "collector" /\ Disconnect(p) /\ UNCHANGED <<started, stopped>>
     \/ /\ service[p] = "collector"     \* handle_unrecoverable_agent_error
        /\ Disconnect(p)
        /\ StopEventLoop(p)
        /\ started' = [started EXCEPT ![p] = FALSE]
     \/ /\ service[p] = "collector"
        /\ UNCHANGED <<connectState, agentRun, connectedPid, started, stopped>>
  /\ UNCHANGED <<options, connectAttempts, startingPid, service, inherited, workerThread,
                 eventLoop>>

StartWorkerThread(p, t) ==
  /\ pc[p][t] = "starting"
  /\ \E w \in Workers :
       /\ pc[p][w] = "free"
       /\ pc' = [pc EXCEPT ![p][w] = "connect", ![p][t] = Return(t)]
       /\ options' = [options EXCEPT ![p][w] = options[p][t], ![p][t] = "plain"]
       /\ workerThread' = [workerThread EXCEPT ![p] = w]
  /\ UNCHANGED <<started, connectState, connectedPid, connectAttempts, startingPid, service,
                 agentRun, inherited, eventLoop, stopped>>

----------------------------------------------------------------------------
(* Fork, and the restart of the agent in the child *)

\* fork copies the memory and only the calling thread: worker threads are
\* dead in the child, which may join and forget them.  The event loop it
\* inherits is a copy nobody runs (its pipe is shared: see EventLoop).
Fork(p, q) ==
  /\ pc[p][Main] = "running"
  /\ pc[q][Main] = "unborn"
  /\ pc' = [pc EXCEPT ![q] = [t \in Threads |-> IF t \in Workers THEN "free" ELSE Return(t)]]
  /\ started' = [started EXCEPT ![q] = started[p]]
  /\ connectState' = [connectState EXCEPT ![q] = connectState[p]]
  /\ connectedPid' = [connectedPid EXCEPT ![q] = connectedPid[p]]
  /\ connectAttempts' = [connectAttempts EXCEPT ![q] = connectAttempts[p]]
  /\ startingPid' = [startingPid EXCEPT ![q] = startingPid[p]]
  /\ service' = [service EXCEPT ![q] = service[p]]
  /\ agentRun' = [agentRun EXCEPT ![q] = agentRun[p]]
  /\ inherited' = [inherited EXCEPT ![q] = TRUE]
  /\ UNCHANGED <<options, workerThread, eventLoop, stopped>>

NeedsRestart(p) == startingPid[p] # p

\* Harvester#on_transaction, which looks before after_fork takes its lock.
OnTransaction(p, r) ==
  /\ pc[p][r] = "idle"
  /\ Serving(p)
  /\ NeedsRestart(p)
  /\ options' = [options EXCEPT ![p][r] = "force"]
  /\ Goto(p, r, "checked")
  /\ UNCHANGED <<started, connectState, connectedPid, connectAttempts, startingPid, service,
                 agentRun, inherited, workerThread, eventLoop, stopped>>

\* A server's or a job queue's hook calls after_fork in the child itself.
CallAfterFork(p, r, mode) ==
  /\ pc[p][r] = "idle"
  /\ Serving(p)
  /\ p # Root
  /\ options' = [options EXCEPT ![p][r] = mode]
  /\ Goto(p, r, "checked")
  /\ UNCHANGED <<started, connectState, connectedPid, connectAttempts, startingPid, service,
                 agentRun, inherited, workerThread, eventLoop, stopped>>

\* needs_after_fork_work? without the disconnected? check.
EvenDisconnected(p) == NeedsRestart(p)

\* needs_after_fork_work? taking an agent that is started for one that runs here.
OnlyUnstarted(p) == NeedsRestart(p) /\ connectState[p] # "disconnected" /\ ~started[p]

\* needs_after_fork_work? trusting what on_transaction saw before the lock.
TrustsFirstLook(p, r) ==
  /\ pc[p][r] = "checked"
  /\ startingPid' = [startingPid EXCEPT ![p] = p]
  /\ IF connectState[p] # "disconnected"
     THEN Goto(p, r, "claimed") /\ UNCHANGED options
     ELSE Goto(p, r, "idle") /\ options' = [options EXCEPT ![p][r] = "plain"]
  /\ UNCHANGED <<started, connectState, connectedPid, connectAttempts, service,
                 agentRun, inherited, workerThread, eventLoop, stopped>>

\* What needs_after_fork_work? answers, given what it read under its lock.
MayRestart(p) == NeedsRestart(p) /\ connectState[p] # "disconnected"

\* needs_after_fork_work?: test and mark @starting_pid under @after_fork_lock.
NeedsAfterForkWork(p, r) ==
  /\ pc[p][r] = "checked"
  /\ startingPid' = [startingPid EXCEPT ![p] = p]
  /\ IF MayRestart(p)
     THEN Goto(p, r, "claimed") /\ UNCHANGED options
     ELSE Goto(p, r, "idle") /\ options' = [options EXCEPT ![p][r] = "plain"]
  /\ UNCHANGED <<started, connectState, connectedPid, connectAttempts, service,
                 agentRun, inherited, workerThread, eventLoop, stopped>>

\* install_pipe_service: a child of an unconnected parent reports nothing.
InstallPipeService(p) ==
  IF connectState[p] = "connected"
  THEN /\ service' = [service EXCEPT ![p] = "pipe"]
       /\ connectedPid' = [connectedPid EXCEPT ![p] = p]
       /\ UNCHANGED connectState
  ELSE /\ service' = [service EXCEPT ![p] = "closed"]
       /\ connectState' = [connectState EXCEPT ![p] = "disconnected"]
       /\ UNCHANGED connectedPid

\* DropBufferedData that leaves the parent's data in the aggregators.
DropNothing(p) == UNCHANGED inherited

DropBufferedData(p) == inherited' = [inherited EXCEPT ![p] = FALSE]

\* after_fork, between the lock and setup_and_start_agent.
AfterFork(p, r) ==
  /\ pc[p][r] = "claimed"
  /\ IF options[p][r] = "channel"
     THEN InstallPipeService(p)
     ELSE UNCHANGED <<service, connectedPid, connectState>>
  /\ DropBufferedData(p)
  /\ Goto(p, r, "setup")
  /\ UNCHANGED <<options, started, connectAttempts, startingPid, agentRun, workerThread,
                 eventLoop, stopped>>

----------------------------------------------------------------------------
(* The worker thread: connect *)

Connect(p, w) ==
  /\ pc[p][w] = "connect"
  /\ Goto(p, w, IF ShouldConnect(p, options[p][w] = "force") THEN "contacting"
                                                             ELSE "checkConnection")
  /\ UNCHANGED <<options, started, connectState, connectedPid, connectAttempts, startingPid,
                 service, agentRun, inherited, workerThread, eventLoop, stopped>>

Contacting(p, w) == pc[p][w] = "contacting"

ConnectOk(p, w) ==
  /\ Contacting(p, w)
  /\ ConnectSucceeds(p)
  /\ Goto(p, w, "checkConnection")
  /\ UNCHANGED <<options, started, connectAttempts, startingPid, service, inherited,
                 workerThread, eventLoop, stopped>>

\* handle_force_disconnect and handle_license_error.
ConnectRejected(p, w) ==
  /\ Contacting(p, w)
  /\ service[p] = "collector"
  /\ Disconnect(p)
  /\ Goto(p, w, "checkConnection")
  /\ UNCHANGED <<options, started, connectAttempts, startingPid, service, inherited,
                 workerThread, eventLoop, stopped>>

\* handle_unrecoverable_agent_error calls shutdown.  In the thread that is
\* @worker_thread that shutdown dies in join (a thread cannot join itself) and
\* handle_other_error ends the thread: @started stays as it was.
ConnectUnrecoverable(p, w) ==
  /\ Contacting(p, w)
  /\ service[p] = "collector"
  /\ Disconnect(p)
  /\ IF started[p] THEN StopEventLoop(p) ELSE UNCHANGED stopped
  /\ IF started[p] /\ workerThread[p] = w
     THEN Goto(p, w, "ended") /\ UNCHANGED started
     ELSE /\ Goto(p, w, "checkConnection")
          /\ started' = [started EXCEPT ![p] = FALSE]
  /\ UNCHANGED <<options, connectAttempts, startingPid, service, inherited, workerThread,
                 eventLoop>>

NoteConnectFailure(p) ==
  connectAttempts' = [connectAttempts EXCEPT ![p] = IF @ < MaxAttempts THEN @ + 1 ELSE @]

\* Any other error, a forced restart among them: count it, sleep and retry.
ConnectFails(p, w) ==
  /\ Contacting(p, w)
  /\ service[p] = "collector"
  /\ NoteConnectFailure(p)
  /\ Goto(p, w, "retrying")
  /\ UNCHANGED <<options, started, connectState, connectedPid, startingPid, service, agentRun,
                 inherited, workerThread, eventLoop, stopped>>

\* The sleep of retry_from_error? or of handle_force_restart ends; both retry
\* from the top of connect, with the same options.
WakeUp(p, w) ==
  /\ pc[p][w] \in {"retrying", "restarting"}
  /\ Goto(p, w, "connect")
  /\ UNCHANGED <<options, started, connectState, connectedPid, connectAttempts, startingPid,
                 service, agentRun, inherited, workerThread, eventLoop, stopped>>

----------------------------------------------------------------------------
(* The worker thread: the event loop *)

\* deferred_work! after connect: create_and_run_event_loop if connected?.
CheckConnection(p, w) ==
  /\ pc[p][w] = "checkConnection"
  /\ IF connectState[p] = "connected"
     THEN /\ eventLoop' = [eventLoop EXCEPT ![p] = w]
          /\ stopped' = [stopped EXCEPT ![p] = @ \ {w}]
          /\ Goto(p, w, "loop")
     ELSE Goto(p, w, "ended") /\ UNCHANGED <<eventLoop, stopped>>
  /\ UNCHANGED <<options, started, connectState, connectedPid, connectAttempts, startingPid,
                 service, agentRun, inherited, workerThread>>

EventLoopStops(p, w) ==
  /\ pc[p][w] = "loop"
  /\ w \in stopped[p]
  /\ Goto(p, w, "ended")
  /\ UNCHANGED <<options, started, connectState, connectedPid, connectAttempts, startingPid,
                 service, agentRun, inherited, workerThread, eventLoop, stopped>>

\* A timer fires and the worker transmits: the last run_once dispatches what it
\* finds although the loop was stopped meanwhile.
Harvest(p, w) ==
  /\ pc[p][w] = "loop"
  /\ Goto(p, w, "harvesting")
  /\ UNCHANGED <<options, started, connectState, connectedPid, connectAttempts, startingPid,
                 service, agentRun, inherited, workerThread, eventLoop, stopped>>

\* Sent, or failed in a way the event loop survives.
HarvestDone(p, w) ==
  /\ pc[p][w] = "harvesting"
  /\ Goto(p, w, "loop")
  /\ UNCHANGED <<options, started, connectState, connectedPid, connectAttempts, startingPid,
                 service, agentRun, inherited, workerThread, eventLoop, stopped>>

\* HandleForceRestart that leaves the agent connected.
StaysConnected(p) == DropBufferedData(p) /\ UNCHANGED <<connectState, connectAttempts>>

HandleForceRestart(p) ==
  /\ DropBufferedData(p)
  /\ connectState' = [connectState EXCEPT ![p] = "pending"]
  /\ UNCHANGED connectAttempts

ForceRestart(p, w) ==
  /\ pc[p][w] = "harvesting"
  /\ service[p] = "collector"
  /\ HandleForceRestart(p)
  /\ Goto(p, w, "restarting")
  /\ UNCHANGED <<options, started, connectedPid, startingPid, service, agentRun, workerThread,
                 eventLoop, stopped>>

ForceDisconnect(p, w) ==
  /\ pc[p][w] = "harvesting"
  /\ service[p] = "collector"
  /\ Disconnect(p)
  /\ Goto(p, w, "ended")
  /\ UNCHANGED <<options, started, connectAttempts, startingPid, service, inherited,
                 workerThread, eventLoop, stopped>>

----------------------------------------------------------------------------
(* Shutdown *)

Shutdown(p) ==
  /\ pc[p][Main] = "running"
  /\ started[p]
  /\ StopEventLoop(p)
  /\ Goto(p, Main, "joining")
  /\ UNCHANGED <<options, started, connectState, connectedPid, connectAttempts, startingPid,
                 service, agentRun, inherited, workerThread, eventLoop>>

WorkerAlive(p) == \E w \in Workers : workerThread[p] = w /\ Live(p, w)

JoinReturns(p) ==
  /\ pc[p][Main] = "joining"
  /\ ~WorkerAlive(p)
  /\ Goto(p, Main, "flushing")
  /\ UNCHANGED <<options, started, connectState, connectedPid, connectAttempts, startingPid,
                 service, agentRun, inherited, workerThread, eventLoop, stopped>>

\* JoinTimeout for a join without a limit.
JoinForever(p) == FALSE /\ UNCHANGED vars

\* join(3) gives up on a worker that sleeps or waits for the collector.
JoinTimeout(p) ==
  /\ pc[p][Main] = "joining"
  /\ WorkerAlive(p)
  /\ Goto(p, Main, "flushing")
  /\ UNCHANGED <<options, started, connectState, connectedPid, connectAttempts, startingPid,
                 service, agentRun, inherited, workerThread, eventLoop, stopped>>

\* graceful_disconnect: only a pipe this very process attached is closed, and
\* not even that if the transmission raises, which is logged.
GracefulDisconnect(p) ==
  /\ pc[p][Main] = "flushing"
  /\ \/ UNCHANGED service
     \/ /\ connectState[p] = "connected" /\ connectedPid[p] = p /\ service[p] = "pipe"
        /\ service' = [service EXCEPT ![p] = "closed"]
  /\ Goto(p, Main, "reverting")
  /\ UNCHANGED <<options, started, connectState, connectedPid, connectAttempts, startingPid,
                 agentRun, inherited, workerThread, eventLoop, stopped>>

FinishShutdown(p) ==
  /\ pc[p][Main] = "reverting"
  /\ started' = [started EXCEPT ![p] = FALSE]
  /\ Goto(p, Main, "stopped")
  /\ UNCHANGED <<options, connectState, connectedPid, connectAttempts, startingPid, service,
                 agentRun, inherited, workerThread, eventLoop, stopped>>

----------------------------------------------------------------------------
Init ==
  /\ pc = [p \in Procs |-> [t \in Threads |->
             IF t = Main THEN IF p = Root THEN "boot" ELSE "unborn"
             ELSE IF t \in Requests THEN "idle" ELSE "free"]]
  /\ options = [p \in Procs |-> [t \in Threads |-> "plain"]]
  /\ started = [p \in Procs |-> FALSE]
  /\ connectState = [p \in Procs |-> "pending"]
  /\ connectedPid = [p \in Procs |-> Nobody]
  /\ connectAttempts = [p \in Procs |-> 0]
  /\ startingPid = [p \in Procs |-> Nobody]
  /\ service = [p \in Procs |-> "collector"]
  /\ agentRun = [p \in Procs |-> Nobody]
  /\ inherited = [p \in Procs |-> FALSE]
  /\ workerThread = [p \in Procs |-> Nobody]
  /\ eventLoop = [p \in Procs |-> Nobody]
  /\ stopped = [p \in Procs |-> {}]

CallerStep(p, t) ==
  \/ SetupAndStartAgent(p, t)
  \/ ForegroundReply(p, t)
  \/ StartWorkerThread(p, t)

RequestStep(p, r) ==
  \/ OnTransaction(p, r)
  \/ \E mode \in AfterForkModes : CallAfterFork(p, r, mode)
  \/ NeedsAfterForkWork(p, r)
  \/ AfterFork(p, r)

ConnectReply(p, w) ==
  \/ ConnectOk(p, w)
  \/ ConnectRejected(p, w)
  \/ ConnectUnrecoverable(p, w)
  \/ ConnectFails(p, w)

HarvestReply(p, w) ==
  \/ HarvestDone(p, w)
  \/ ForceRestart(p, w)
  \/ ForceDisconnect(p, w)

WorkerStep(p, w) ==
  \/ Connect(p, w)
  \/ WakeUp(p, w)
  \/ CheckConnection(p, w)
  \/ EventLoopStops(p, w)
  \/ Harvest(p, w)
  \/ ConnectReply(p, w)
  \/ HarvestReply(p, w)

MainStep(p) ==
  \/ Start(p)
  \/ Shutdown(p)
  \/ JoinReturns(p)
  \/ JoinTimeout(p)
  \/ GracefulDisconnect(p)
  \/ FinishShutdown(p)

Next ==
  \E p \in Procs :
    \/ MainStep(p)
    \/ \E q \in Procs : Fork(p, q)
    \/ \E t \in Callers : CallerStep(p, t)
    \/ \E r \in Requests : RequestStep(p, r)
    \/ \E w \in Workers : WorkerStep(p, w)

Spec == Init /\ [][Next]_vars

\* Threads that are in the middle of the agent's code run on, sleeps and the
\* timed join end, and a request to the collector is answered or times out;
\* that a transaction begins or the process shuts down is not promised.
Fairness ==
  \A p \in Procs :
    /\ WF_vars(Start(p))
    /\ WF_vars(JoinReturns(p) \/ JoinTimeout(p))
    /\ WF_vars(GracefulDisconnect(p) \/ FinishShutdown(p))
    /\ \A t \in Callers : WF_vars(CallerStep(p, t))
    /\ \A r \in Requests : WF_vars(NeedsAfterForkWork(p, r) \/ AfterFork(p, r))
    /\ \A w \in Workers : WF_vars(WorkerStep(p, w))

FairSpec == Spec /\ Fairness

----------------------------------------------------------------------------
(* Properties *)

\* Type invariant of the agent's fields in every process.
TypeOK ==
  /\ pc \in [Procs -> [Threads -> PCs]]
  /\ options \in [Procs -> [Threads -> Modes]]
  /\ started \in [Procs -> BOOLEAN]
  /\ connectState \in [Procs -> {"pending", "connected", "disconnected"}]
  /\ connectedPid \in [Procs -> Procs \cup {Nobody}]
  /\ connectAttempts \in [Procs -> 0..MaxAttempts]
  /\ startingPid \in [Procs -> Procs \cup {Nobody}]
  /\ service \in [Procs -> {"collector", "pipe", "closed"}]
  /\ agentRun \in [Procs -> Procs \cup {Nobody}]
  /\ inherited \in [Procs -> BOOLEAN]
  /\ workerThread \in [Procs -> Workers \cup {Nobody}]
  /\ eventLoop \in [Procs -> Workers \cup {Nobody}]
  /\ stopped \in [Procs -> SUBSET Workers]

\* However many request threads find the agent not running after a fork, one
\* of them starts the worker: a process never has two live worker threads
\* (needs_after_fork_work?, start_worker_thread).
OneWorkerPerProcess ==
  \A p \in Procs : \A v, w \in Workers : Live(p, v) /\ Live(p, w) => v = w

\* A child told to reconnect does not harvest under the run of its parent,
\* although it inherits a connected agent and although connecting may fail
\* and be retried for long (should_connect?, connect, deferred_work!).  A
\* process that reports through a pipe has no run of its own.
OwnRunWhenForced ==
  \A p \in Procs : \A w \in Workers :
    /\ pc[p][w] \in {"loop", "harvesting"}
    /\ options[p][w] = "force"
    /\ service[p] = "collector"
    => agentRun[p] = p

\* What the parent had buffered when it forked is not sent again by the worker
\* of the child (after_fork drops it before the worker can exist).
ParentsDataNotResent ==
  \A p \in Procs : \A w \in Workers : pc[p][w] = "harvesting" => ~inherited[p]

\* An agent the collector turned away stays away, in that process and in the
\* processes it forks, whoever calls after_fork there (disconnect,
\* needs_after_fork_work?).  It holds without SyncStartup: with it, a child that
\* is rejected in the foreground still starts the worker it was told to force.
RejectedStaysAway ==
  [][\A p \in Procs : connectState[p] = "disconnected" => connectState'[p] = "disconnected"]_vars

\* Shutdown comes to its end, also while the worker sleeps between attempts or
\* the collector does not answer (stop_event_loop joins with a limit).
ShutdownCompletes ==
  \A p \in Procs : (pc[p][Main] = "joining") ~> (pc[p][Main] = "stopped")

\* The first transaction of a forked child gets it a worker thread, unless the
\* agent was turned away (on_transaction, after_fork, setup_and_start_agent).
ChildGetsWorker ==
  \A p \in Procs : \A r \in Requests :
    (pc[p][r] = "checked" /\ startingPid[p] # p)
      ~> (connectState[p] = "disconnected" \/ \E w \in Workers : pc[p][w] # "free")

\* A restart the collector asks for leads to a new connect, not back to the
\* old run (handle_force_restart, catch_errors).
RestartReconnects ==
  \A p \in Procs : \A w \in Workers :
    (pc[p][w] = "restarting") ~> (pc[p][w] = "contacting")
=============================================================================
