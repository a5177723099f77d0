---------------------------- MODULE ThreadProfiler ----------------------------
(***************************************************************************)
(* Profiling the application's threads on the collector's command          *)
(* (commands/{agent_command_router,thread_profiler_session}.rb,            *)
(* threading/backtrace_service.rb, worker_loop.rb).  A harvest asks for    *)
(* commands, then takes the profile that is ready; it runs on the agent's  *)
(* worker and, at a shutdown, on the thread that shuts the agent down,     *)
(* beside a worker whose join timed out.  Polling threads, one for each    *)
(* start, sample into the profile that is subscribed.                      *)
(***************************************************************************)
EXTENDS Integers

CONSTANTS
  Worker, Shutdown,   \* the threads that harvest
  MaxStarts           \* bound: start commands

Threads == {Worker, Shutdown}
Pollers == 1..MaxStarts   \* the polling threads, as they are created

ASSUME ThreadsAssumption == Worker # Shutdown
ASSUME BoundAssumption == MaxStarts \in Nat

VARIABLES
  subscribed,          \* @profiles has a profile
  sampled,             \* ... and it was sampled
  running,             \* @running
  should_run,          \* the worker loop's @should_run
  poller,              \* where each polling thread is
  finished_profile,    \* the session has one
  started_at, expired, \* @started_at is set; @duration has passed since
  pc,                  \* where a thread is
  call,                \* its call of stop: the argument, and where it goes on
  starts,              \* start commands so far
  stopMissed, crossed  \* history: what the last Halt met

serviceVars == <<subscribed, sampled, running, should_run>>
sessionVars == <<finished_profile, started_at, expired>>
history == <<stopMissed, crossed>>
vars == <<serviceVars, sessionVars, poller, pc, call, starts, history>>

NoCall == [report_data |-> FALSE, after |-> "commands"]

Init ==
  /\ subscribed = FALSE /\ sampled = FALSE /\ running = FALSE /\ should_run = TRUE
  /\ poller = [p \in Pollers |-> "unborn"]
  /\ finished_profile = FALSE /\ started_at = FALSE /\ expired = FALSE
  /\ pc = [t \in Threads |-> "idle"] /\ call = [t \in Threads |-> NoCall]
  /\ starts = 0 /\ stopMissed = FALSE /\ crossed = FALSE

Goto(t, p) == pc' = [pc EXCEPT ![t] = p]

\* unsubscribe holds the lock across the two assignments of stop.
Locked == \E t \in Threads : pc[t] = "halting"

-----------------------------------------------------------------------------
(* The harvest *)

\* transmit_data of the worker; none begins once the loop was told to stop.
Begin ==
  /\ pc[Worker] = "idle" /\ pc[Shutdown] = "idle"
  /\ Goto(Worker, "commands")
  /\ UNCHANGED <<serviceVars, sessionVars, poller, call, starts, history>>

\* The session's stop, which goes on at p.
CallStop(t, report, p) ==
  /\ Goto(t, "stopping")
  /\ call' = [call EXCEPT ![t] = [report_data |-> report, after |-> p]]

\* on_before_shutdown, whether the join of the worker succeeded or not.
BeforeShutdown ==
  /\ pc[Shutdown] = "idle" /\ ~Locked
  /\ IF subscribed THEN CallStop(Shutdown, TRUE, "commands")
     ELSE Goto(Shutdown, "commands") /\ UNCHANGED call
  /\ UNCHANGED <<serviceVars, sessionVars, poller, starts, history>>

\* start_profiler; if a profile is running it is an error and changes nothing.
HandleStart(t) ==
  /\ pc[t] = "commands" /\ ~Locked
  /\ ~subscribed /\ starts < MaxStarts
  /\ starts' = starts + 1
  /\ Goto(t, "subscribing")
  /\ UNCHANGED <<serviceVars, sessionVars, poller, call, history>>

\* stop_profiler; one of nothing changes nothing.
HandleStop(t, report) ==
  /\ pc[t] = "commands" /\ subscribed
  /\ CallStop(t, report, "commands")
  /\ UNCHANGED <<serviceVars, sessionVars, poller, starts, history>>

\* No more commands, or an error of these requests that is logged.
CommandsDone(t) ==
  /\ pc[t] = "commands"
  /\ Goto(t, "harvesting")
  /\ UNCHANGED <<serviceVars, sessionVars, poller, call, starts, history>>

Finish(t) == Goto(t, IF t = Worker THEN "idle" ELSE "done")

\* The collector demands a restart, or the session fails.
Abandon(t) ==
  /\ pc[t] = "commands"
  /\ Finish(t)
  /\ UNCHANGED <<serviceVars, sessionVars, poller, call, starts, history>>

\* A session that is ready only when it was stopped.
ReadyWhenStopped == finished_profile

\* past_time? || stopped?
ReadyToHarvest == (started_at /\ expired) \/ finished_profile

\* harvest!
Harvest(t) ==
  /\ pc[t] = "harvesting"
  /\ IF ReadyToHarvest THEN CallStop(t, TRUE, "reading") ELSE Finish(t) /\ UNCHANGED call
  /\ UNCHANGED <<serviceVars, sessionVars, poller, starts, history>>

\* The session's harvest: what it had is sent, or nothing.
HarvestSession(t) ==
  /\ pc[t] = "reading"
  /\ finished_profile' = FALSE /\ started_at' = FALSE /\ expired' = FALSE
  /\ Finish(t)
  /\ UNCHANGED <<serviceVars, poller, call, starts, history>>

DurationPasses ==
  /\ started_at /\ ~expired
  /\ expired' = TRUE
  /\ UNCHANGED <<serviceVars, finished_profile, started_at, poller, pc, call, starts, history>>

-----------------------------------------------------------------------------
(* Starting *)

Subscribe(t) ==
  /\ pc[t] = "subscribing" /\ ~Locked
  /\ subscribed' = TRUE /\ sampled' = FALSE
  /\ Goto(t, "starting")
  /\ UNCHANGED <<running, should_run, sessionVars, poller, call, starts, history>>

\* start, without the lock: the test, then @running and the thread.
Start(t) ==
  /\ pc[t] = "starting"
  /\ Goto(t, IF running THEN "started" ELSE "spawning")
  /\ UNCHANGED <<serviceVars, sessionVars, poller, call, starts, history>>

Spawn(t) ==
  /\ pc[t] = "spawning"
  /\ running' = TRUE
  /\ \E p \in Pollers :
       /\ \A q \in Pollers : poller[q] = "unborn" <=> q >= p
       /\ poller' = [poller EXCEPT ![p] = "born"]
  /\ Goto(t, "started")
  /\ UNCHANGED <<subscribed, sampled, should_run, sessionVars, call, starts, history>>

SetStartedAt(t) ==
  /\ pc[t] = "started"
  /\ started_at' = TRUE /\ expired' = FALSE
  /\ Goto(t, "commands")
  /\ UNCHANGED <<serviceVars, finished_profile, poller, call, starts, history>>

-----------------------------------------------------------------------------
(* Stopping *)

GoOn(t) ==
  /\ Goto(t, call[t].after)
  /\ call' = [call EXCEPT ![t] = NoCall]

\* stop: return unless running?
StopIfRunning(t) ==
  /\ pc[t] = "stopping" /\ ~Locked
  /\ IF subscribed THEN Goto(t, "taking") /\ UNCHANGED call ELSE GoOn(t)
  /\ UNCHANGED <<serviceVars, sessionVars, poller, starts, history>>

\* The service's harvest puts a new profile in the place of the one it returns.
Take(t) ==
  /\ pc[t] = "taking" /\ ~Locked
  /\ finished_profile' = subscribed
  /\ sampled' = FALSE
  /\ Goto(t, "unsubscribing")
  /\ UNCHANGED <<subscribed, running, should_run, started_at, expired, poller, call, starts, history>>

\* A stop that clears @running before it looks at it.
UnsubscribeSilently(t) ==
  /\ pc[t] = "unsubscribing" /\ ~Locked
  /\ subscribed' = FALSE /\ sampled' = FALSE /\ running' = FALSE
  /\ Goto(t, "stopped")
  /\ UNCHANGED <<should_run, sessionVars, poller, call, starts, history>>

\* unsubscribe, and stop up to its first assignment.
Unsubscribe(t) ==
  /\ pc[t] = "unsubscribing" /\ ~Locked
  /\ subscribed' = FALSE /\ sampled' = FALSE
  /\ running' = FALSE
  /\ Goto(t, IF running THEN "halting" ELSE "stopped")
  /\ UNCHANGED <<should_run, sessionVars, poller, call, starts, history>>

\* The worker loop's stop.  A polling thread that has yet to set the loop up will
\* not notice; one of a start that came between the two assignments will.
Halt(t) ==
  /\ pc[t] = "halting"
  /\ should_run' = FALSE
  /\ stopMissed' = (\E p \in Pollers : poller[p] = "born")
  /\ crossed' = running
  /\ Goto(t, "stopped")
  /\ UNCHANGED <<subscribed, sampled, running, sessionVars, poller, call, starts>>

Stopped(t) ==
  /\ pc[t] = "stopped"
  /\ finished_profile' = (finished_profile /\ call[t].report_data)
  /\ GoOn(t)
  /\ UNCHANGED <<serviceVars, started_at, expired, poller, starts, history>>

-----------------------------------------------------------------------------
(* The polling threads: the worker loop's run *)

Advance(p, here, there) ==
  poller[p] = here /\ poller' = [poller EXCEPT ![p] = there]

\* A setup that takes @should_run as it is.
SetupAsItIs(p) ==
  /\ Advance(p, "born", "testing")
  /\ UNCHANGED <<serviceVars, sessionVars, pc, call, starts, history>>

Setup(p) ==
  /\ Advance(p, "born", "testing")
  /\ should_run' = TRUE
  /\ UNCHANGED <<subscribed, sampled, running, sessionVars, pc, call, starts, history>>

KeepRunning(p) ==
  /\ Advance(p, "testing", IF should_run THEN "sleeping" ELSE "ended")
  /\ UNCHANGED <<serviceVars, sessionVars, pc, call, starts, history>>

\* The sleep is over, and the flag is tested again before the task.
WakeUp(p) ==
  /\ Advance(p, "sleeping", IF should_run THEN "polling" ELSE "testing")
  /\ UNCHANGED <<serviceVars, sessionVars, pc, call, starts, history>>

Poll(p) ==
  /\ ~Locked
  /\ Advance(p, "polling", "testing")
  /\ sampled' = subscribed
  /\ UNCHANGED <<subscribed, running, should_run, sessionVars, pc, call, starts, history>>

-----------------------------------------------------------------------------

HarvestStep(t) ==
  \/ HandleStart(t) \/ CommandsDone(t) \/ Abandon(t)
  \/ \E report \in BOOLEAN : HandleStop(t, report)
  \/ Harvest(t) \/ HarvestSession(t)
StartStep(t) == Subscribe(t) \/ Start(t) \/ Spawn(t) \/ SetStartedAt(t)
StopStep(t) == StopIfRunning(t) \/ Take(t) \/ Unsubscribe(t) \/ Halt(t) \/ Stopped(t)
ThreadStep(t) == HarvestStep(t) \/ StartStep(t) \/ StopStep(t)
PollerStep(p) == Setup(p) \/ KeepRunning(p) \/ WakeUp(p) \/ Poll(p)

Next ==
  \/ Begin \/ BeforeShutdown \/ DurationPasses
  \/ \E t \in Threads : ThreadStep(t)
  \/ \E p \in Pollers : PollerStep(p)

Spec == Init /\ [][Next]_vars

\* Threads run, harvests begin, time passes, and not every harvest is abandoned.
FairSpec ==
  /\ Spec
  /\ WF_vars(Begin) /\ WF_vars(DurationPasses)
  /\ \A t \in Threads : WF_vars(ThreadStep(t))
  /\ SF_vars(CommandsDone(Worker))
  /\ \A p \in Pollers : WF_vars(PollerStep(p))

-----------------------------------------------------------------------------
(* Properties *)

\* The variables have their types.
TypeOK ==
  /\ {subscribed, sampled, running, should_run, finished_profile, started_at, expired,
      stopMissed, crossed} \subseteq BOOLEAN
  /\ poller \in [Pollers -> {"unborn", "born", "testing", "sleeping", "polling", "ended"}]
  /\ pc \in [Threads -> {"idle", "commands", "subscribing", "starting", "spawning", "started",
                         "stopping", "taking", "unsubscribing", "halting", "stopped",
                         "harvesting", "reading", "done"}]
  /\ call \in [Threads -> [report_data : BOOLEAN, after : {"commands", "reading"}]]
  /\ starts \in 0..MaxStarts

\* A profile is sampled as long as it is subscribed, although polling threads
\* come and go and share one flag, which their setup sets and a stop clears: but
\* not after a start that came between the two assignments of a stop, which left
\* the service running with nobody to poll.
SubscribedIsPolled == subscribed /\ ~sampled ~> sampled \/ ~subscribed \/ crossed

\* When the service was stopped the polling threads end, those of earlier starts
\* included, unless it is started again, or one was created so late that its
\* setup undoes the stop.
PollersEnd ==
  ~running /\ ~stopMissed
    ~> running \/ stopMissed \/ \A p \in Pollers : poller[p] \in {"unborn", "ended"}

\* A profile does not run on when its time is over, whatever commands came in
\* between and however many harvests were abandoned.
ProfileEnds == subscribed ~> ~subscribed \/ pc[Shutdown] # "idle"
=============================================================================
