------------------------------ MODULE Harvest -------------------------------
(***************************************************************************)
(* The agent's harvests (agent_helpers/harvest.rb, transmit.rb) and the    *)
(* requests they make (new_relic_service.rb): a harvest takes everything   *)
(* out of a container, sends it, and merges it back when the failure may   *)
(* pass.  The worker thread runs one plan of harvests per event of its     *)
(* event loop; the thread that shuts the agent down runs all of them once, *)
(* while the worker may still be in the middle of a request.  A container  *)
(* gives up its data under a lock, but the thread profiler's session       *)
(* (thread_profiler_session.rb) has none: there a harvest is a stop, a     *)
(* read and a clear, and the two threads may mix them.                     *)
(***************************************************************************)
EXTENDS Naturals, Sequences, FiniteSets

CONSTANTS
  Events,          \* what the application records: traces, events, metrics
  Containers,      \* the harvested buffers
  Profiles,        \* the agent command router, which harvests thread profiles
  Capacity,        \* how much a container keeps
  Least,           \* no container keeps less
  Session, Commands,  \* plan entries: open a session, get_agent_commands
  Plans,           \* what one event of the worker's loop runs
  ShutdownPlan     \* transmit_data_types

Steps == Containers \cup {Session, Commands}

ASSUME ContainersAssumption == /\ Profiles \subseteq Containers
                               /\ \A c, d \in Profiles : c = d
                               /\ Session \notin Containers /\ Commands \notin Containers
                               /\ Session # Commands
ASSUME CapacityAssumption == /\ Capacity \in [Containers -> Nat]
                             /\ Least \in Nat
                             /\ \A c \in Containers : Capacity[c] >= Least
ASSUME PlansAssumption == Plans \subseteq Seq(Steps) /\ ShutdownPlan \in Seq(Steps)

VARIABLES
  buffer,          \* what each container, and a subscribed profile, holds
  payload,         \* what each thread harvested and has not disposed of
  todo,            \* the rest of each thread's plan
  pc, attempts,    \* where each thread is; requests made for this payload
  connectState,    \* @connect_state
  loopStopped,     \* @stopped of the current event loop
  finished,        \* @finished_profile: what it gathered
  subscribed,      \* the backtrace service has a profile of all transactions
  started,         \* @started_at is set
  recorded, received, duplicated, unanswered, overflowed, discarded,  \* history
  shared           \* history: read by a thread before the other's clear

threadVars == <<payload, todo, pc, attempts>>
agentVars == <<connectState, loopStopped>>
sessionVars == <<finished, subscribed, started, shared>>
history == <<recorded, received, duplicated, unanswered, overflowed, discarded>>
vars == <<buffer, threadVars, agentVars, sessionVars, history>>

Worker == "worker"
Shutter == "shutdown"
Threads == {Worker, Shutter}
Other(t) == IF t = Worker THEN Shutter ELSE Worker

MaxAttempts == 2

InBuffers == UNION {buffer[c] : c \in Containers}
InHands == payload[Worker] \cup payload[Shutter]
Held == InBuffers \cup finished \cup InHands

\* What is lost when t drops its payload.
OnlyWith(t) == payload[t] \ payload[Other(t)]

Goto(t, there) == pc' = [pc EXCEPT ![t] = there]
Target(t) == Head(todo[t])

\* t is between two steps of its plan, and the next one is s.
At(t, s) == pc[t] = "step" /\ todo[t] # <<>> /\ Target(t) = s

\* On to the next step of the plan, with no payload.
Advance(t) ==
  /\ payload' = [payload EXCEPT ![t] = {}]
  /\ todo' = [todo EXCEPT ![t] = Tail(@)]
  /\ Goto(t, "step")

\* An exception that no harvest handles ends the whole plan.
Abandon(t, there) ==
  /\ payload' = [payload EXCEPT ![t] = {}]
  /\ todo' = [todo EXCEPT ![t] = <<>>]
  /\ Goto(t, there)

----------------------------------------------------------------------------
(* Containers *)

\* What container c may hold after being given all of S.
Kept(c, S) ==
  IF Cardinality(S) <= Capacity[c] THEN {S}
  ELSE {K \in SUBSET S : Cardinality(K) = Capacity[c]}

\* The application records e in c (record, add_to_error_queue, ...); a thread
\* profile is aggregated only while the backtrace service has one.
Record(c, e) ==
  /\ e \notin recorded /\ (c \in Profiles => subscribed)
  /\ recorded' = recorded \cup {e}
  /\ \E K \in Kept(c, buffer[c] \cup {e}) :
       /\ buffer' = [buffer EXCEPT ![c] = K]
       /\ overflowed' = overflowed \cup ((buffer[c] \cup {e}) \ K)
  /\ UNCHANGED <<threadVars, agentVars, sessionVars, received, duplicated, unanswered, discarded>>

\* reset! of one container: its data type was disabled, or the application
\* called drop_buffered_data.
Reset(c) ==
  /\ c \notin Profiles
  /\ buffer' = [buffer EXCEPT ![c] = {}]
  /\ discarded' = discarded \cup buffer[c]
  /\ UNCHANGED <<threadVars, agentVars, sessionVars, recorded, received, duplicated, unanswered, overflowed>>

\* merge! of t's payload into its container, and on to the next step.
Merge(t) ==
  LET c == Target(t)
      all == buffer[c] \cup payload[t]
  IN  /\ IF c \in Profiles
         THEN discarded' = discarded \cup OnlyWith(t) /\ UNCHANGED <<buffer, overflowed>>
         ELSE /\ \E K \in Kept(c, all) :
                   /\ buffer' = [buffer EXCEPT ![c] = K]
                   /\ overflowed' = overflowed \cup (all \ K)
              /\ UNCHANGED discarded
      /\ Advance(t)

----------------------------------------------------------------------------
(* A plan *)

\* The event loop runs the handler of a harvest event; what its last round
\* finds in the queue is dispatched although the loop was stopped meanwhile.
StartRound(plan) ==
  /\ pc[Worker] = "idle"
  /\ todo' = [todo EXCEPT ![Worker] = plan]
  /\ Goto(Worker, "step")
  /\ UNCHANGED <<buffer, payload, attempts, agentVars, sessionVars, history>>

LoopEnds ==
  /\ pc[Worker] = "idle" /\ loopStopped
  /\ Goto(Worker, "ended")
  /\ UNCHANGED <<buffer, payload, todo, attempts, agentVars, sessionVars, history>>

RoundEnds(t) ==
  /\ pc[t] = "step" /\ todo[t] = <<>>
  /\ Goto(t, IF t = Worker THEN "idle" ELSE "ended")
  /\ UNCHANGED <<buffer, payload, todo, attempts, agentVars, sessionVars, history>>

OpenSession(t) ==
  /\ At(t, Session)
  /\ Advance(t)
  /\ UNCHANGED <<buffer, attempts, agentVars, sessionVars, history>>

\* The connection cannot be made: session raises before anything is harvested.
SessionFails(t) ==
  /\ At(t, Session)
  /\ Abandon(t, "step")
  /\ UNCHANGED <<buffer, attempts, agentVars, sessionVars, history>>

\* check_for_and_handle_agent_commands, whatever it swallows.
CommandsHandled(t) ==
  /\ At(t, Commands)
  /\ Advance(t)
  /\ UNCHANGED <<buffer, attempts, agentVars, sessionVars, history>>

\* harvest! that leaves the buffer as it was.
HarvestCopy(t, c) ==
  /\ At(t, c) /\ c \notin Profiles /\ buffer[c] # {}
  /\ payload' = [payload EXCEPT ![t] = buffer[c]]
  /\ attempts' = [attempts EXCEPT ![t] = 0]
  /\ Goto(t, "request")
  /\ UNCHANGED <<buffer, todo, agentVars, sessionVars, history>>

\* harvest_from_container: harvest! takes what the container holds.
HarvestContainer(t, c) ==
  /\ At(t, c) /\ c \notin Profiles /\ buffer[c] # {}
  /\ payload' = [payload EXCEPT ![t] = buffer[c]]
  /\ buffer' = [buffer EXCEPT ![c] = {}]
  /\ attempts' = [attempts EXCEPT ![t] = 0]
  /\ Goto(t, "request")
  /\ UNCHANGED <<todo, agentVars, sessionVars, history>>

\* An empty harvest that leaves the plan.
EmptyEndsRound(t, c) ==
  /\ At(t, c) /\ buffer[c] = {}
  /\ Abandon(t, "step")
  /\ UNCHANGED <<buffer, attempts, agentVars, sessionVars, history>>

\* What harvest! would take from c now; a profile must have been stopped.
Ready(c) == IF c \in Profiles THEN finished ELSE buffer[c]

\* harvest_and_send_from_container: there is nothing to send.
HarvestNothing(t, c) ==
  /\ At(t, c) /\ Ready(c) = {}
  /\ Advance(t)
  /\ UNCHANGED <<buffer, attempts, agentVars, sessionVars, history>>

\* harvest! raises: reset!, and there is nothing to send.
HarvestFails(t, c) ==
  /\ At(t, c) /\ c \notin Profiles /\ buffer[c] # {}
  /\ buffer' = [buffer EXCEPT ![c] = {}]
  /\ discarded' = discarded \cup buffer[c]
  /\ Advance(t)
  /\ UNCHANGED <<attempts, agentVars, sessionVars, recorded, received, duplicated, unanswered, overflowed>>

----------------------------------------------------------------------------
(* The thread profiler's session *)

\* start_profiler among the agent commands.
StartProfile(t) ==
  /\ At(t, Commands) /\ Profiles # {} /\ ~subscribed
  /\ subscribed' = TRUE /\ started' = TRUE
  /\ UNCHANGED <<buffer, threadVars, agentVars, finished, shared, history>>

\* stop_profiler among the agent commands, or on_before_shutdown, up to the
\* test of running? in stop.
StopProfile(t) ==
  /\ subscribed
  /\ \/ At(t, Commands)
     \/ t = Shutter /\ At(t, Session) /\ todo[t] = ShutdownPlan
  /\ Goto(t, "stopping")
  /\ UNCHANGED <<buffer, payload, todo, attempts, agentVars, sessionVars, history>>

\* harvest_from_thread_profiler_session: the profile was stopped, or its time may
\* have passed; stop returns at once unless running?.
ReadyToHarvest(t, c) ==
  /\ At(t, c) /\ (started \/ finished # {})
  /\ Goto(t, IF subscribed THEN "stopping" ELSE "session")
  /\ UNCHANGED <<buffer, payload, todo, attempts, agentVars, sessionVars, history>>

\* @finished_profile = @backtrace_service.harvest: the profile's place is taken by
\* an empty one, and nobody asks whether the last was harvested.
TakeProfile(t, c) ==
  /\ pc[t] = "stopping"
  /\ finished' = buffer[c]
  /\ buffer' = [buffer EXCEPT ![c] = {}]
  /\ discarded' = discarded \cup (finished \ InHands)
  /\ Goto(t, "stopped")
  /\ UNCHANGED <<payload, todo, attempts, agentVars, subscribed, started, shared,
                 recorded, received, duplicated, unanswered, overflowed>>

\* The rest of stop: unsubscribe, and a command may say not to report the data.
Unsubscribe(t, c) ==
  /\ pc[t] = "stopped"
  /\ subscribed' = FALSE
  /\ \/ finished' = finished
     \/ Target(t) = Commands /\ finished' = {}
  /\ buffer' = [buffer EXCEPT ![c] = {}]
  /\ discarded' = discarded \cup buffer[c] \cup ((finished \ finished') \ InHands)
  /\ Goto(t, IF Target(t) = c THEN "session" ELSE "step")
  /\ UNCHANGED <<payload, todo, attempts, agentVars, started, shared,
                 recorded, received, duplicated, unanswered, overflowed>>

\* The first half of ThreadProfilerSession#harvest, which takes no lock.
ReadProfile(t) ==
  /\ pc[t] = "session"
  /\ payload' = [payload EXCEPT ![t] = finished]
  /\ attempts' = [attempts EXCEPT ![t] = 0]
  /\ shared' = shared \cup (finished \cap payload[Other(t)])
  /\ Goto(t, "clearing")
  /\ UNCHANGED <<buffer, todo, agentVars, finished, subscribed, started, history>>

\* The second half; harvest! raises at a nil profile, and then nothing is sent.
ClearProfile(t) ==
  /\ pc[t] = "clearing"
  /\ finished' = {} /\ started' = FALSE
  /\ discarded' = discarded \cup (finished \ InHands)
  /\ IF payload[t] # {} THEN Goto(t, "request") /\ UNCHANGED <<payload, todo>>
     ELSE Advance(t)
  /\ UNCHANGED <<buffer, attempts, agentVars, subscribed, shared,
                 recorded, received, duplicated, unanswered, overflowed>>

----------------------------------------------------------------------------
(* A request: send_data_to_endpoint, invoke_remote, relay_request *)

\* Not serializable, too large, or refused by the collector for good.
Rejected(t) ==
  /\ pc[t] = "request"
  /\ discarded' = discarded \cup OnlyWith(t)
  /\ Advance(t)
  /\ UNCHANGED <<buffer, attempts, agentVars, sessionVars, recorded, received, duplicated, unanswered, overflowed>>

\* The collector is overloaded, or an error nobody foresaw: merge!.
Unavailable(t) ==
  /\ pc[t] = "request"
  /\ Merge(t)
  /\ UNCHANGED <<attempts, agentVars, sessionVars, recorded, received, duplicated, unanswered>>

\* The rescue of relay_request that forgets the payload.
RetryOrForget(t) ==
  IF attempts[t] + 1 < MaxAttempts
  THEN /\ attempts' = [attempts EXCEPT ![t] = @ + 1]
       /\ Goto(t, "request")
       /\ UNCHANGED <<buffer, payload, todo, overflowed, discarded>>
  ELSE Advance(t) /\ UNCHANGED <<buffer, attempts, overflowed, discarded>>

\* The rescue of relay_request without MAX_ATTEMPTS.
RetryForever(t) ==
  /\ Goto(t, "request")
  /\ UNCHANGED <<buffer, payload, todo, attempts, overflowed, discarded>>

\* The rescue of CONNECTION_ERRORS in relay_request, up to the merge! of
\* send_data_to_endpoint.
RetryOrMerge(t) ==
  IF attempts[t] + 1 < MaxAttempts
  THEN /\ attempts' = [attempts EXCEPT ![t] = @ + 1]
       /\ Goto(t, "request")
       /\ UNCHANGED <<buffer, payload, todo, overflowed, discarded>>
  ELSE Merge(t) /\ UNCHANGED attempts

\* The request never reached the collector.
ConnectionFails(t) ==
  /\ pc[t] = "request"
  /\ RetryOrMerge(t)
  /\ UNCHANGED <<agentVars, sessionVars, recorded, received, duplicated, unanswered>>

\* The collector stores the payload; its answer is still to come.
CollectorTakes(t) ==
  /\ pc[t] = "request"
  /\ received' = received \cup payload[t]
  /\ duplicated' = duplicated \cup (payload[t] \cap received)
  /\ Goto(t, "answer")
  /\ UNCHANGED <<buffer, payload, todo, attempts, agentVars, sessionVars, recorded, unanswered, overflowed, discarded>>

\* A success that merges the payload back all the same.
AcceptedAndMerged(t) ==
  /\ pc[t] = "answer"
  /\ Merge(t)
  /\ UNCHANGED <<attempts, agentVars, sessionVars, recorded, received, duplicated, unanswered>>

Accepted(t) ==
  /\ pc[t] = "answer"
  /\ Advance(t)
  /\ UNCHANGED <<buffer, attempts, agentVars, sessionVars, history>>

\* A read timeout: the same request is made again, or the payload merged back.
AnswerLost(t) ==
  /\ pc[t] = "answer"
  /\ unanswered' = unanswered \cup payload[t]
  /\ RetryOrMerge(t)
  /\ UNCHANGED <<agentVars, sessionVars, recorded, received, duplicated>>

\* The body of the answer cannot be decompressed or parsed.
AnswerUnreadable(t) ==
  /\ pc[t] = "answer"
  /\ unanswered' = unanswered \cup payload[t]
  /\ Merge(t)
  /\ UNCHANGED <<attempts, agentVars, sessionVars, recorded, received, duplicated>>

----------------------------------------------------------------------------
(* What the collector may order, and the end of the agent *)

Asking(t) == pc[t] = "request" \/ At(t, Commands)

\* ForceRestartException leaves the plan; graceful_disconnect swallows it.
ToldToRestart(t) ==
  /\ Asking(t)
  /\ discarded' = discarded \cup OnlyWith(t)
  /\ Abandon(t, IF t = Worker THEN "restarting" ELSE "ended")
  /\ UNCHANGED <<buffer, attempts, agentVars, sessionVars, recorded, received, duplicated, unanswered, overflowed>>

\* handle_force_restart; a PROFILE session is not among what it drops.
HandleForceRestart ==
  /\ pc[Worker] = "restarting"
  /\ buffer' = [c \in Containers |-> IF c \in Profiles THEN buffer[c] ELSE {}]
  /\ discarded' = discarded \cup UNION {buffer[c] : c \in Containers \ Profiles}
  /\ connectState' = "pending"
  /\ Goto(Worker, "reconnecting")
  /\ UNCHANGED <<payload, todo, attempts, loopStopped, sessionVars, recorded, received, duplicated, unanswered, overflowed>>

\* connect succeeds and create_and_run_event_loop makes another loop.
Reconnect ==
  /\ pc[Worker] = "reconnecting"
  /\ connectState' = "connected"
  /\ loopStopped' = FALSE
  /\ Goto(Worker, "idle")
  /\ UNCHANGED <<buffer, payload, todo, attempts, sessionVars, history>>

\* connect gives up.
StayAway ==
  /\ pc[Worker] = "reconnecting"
  /\ connectState' = "disconnected"
  /\ Goto(Worker, "ended")
  /\ UNCHANGED <<buffer, payload, todo, attempts, loopStopped, sessionVars, history>>

\* ForceDisconnectException: handle_force_disconnect, or graceful_disconnect.
ToldToDisconnect(t) ==
  /\ Asking(t)
  /\ discarded' = discarded \cup OnlyWith(t)
  /\ Abandon(t, "ended")
  /\ IF t = Worker THEN connectState' = "disconnected" ELSE UNCHANGED connectState
  /\ UNCHANGED <<buffer, attempts, loopStopped, sessionVars, recorded, received, duplicated, unanswered, overflowed>>

\* shutdown: stop_event_loop, which joins the worker for a while.
Shutdown ==
  /\ pc[Shutter] = "idle"
  /\ loopStopped' = TRUE
  /\ Goto(Shutter, "joining")
  /\ UNCHANGED <<buffer, payload, todo, attempts, connectState, sessionVars, history>>

\* graceful_disconnect, whether or not the worker ended in time.
GracefulDisconnect ==
  /\ pc[Shutter] = "joining"
  /\ IF connectState = "connected"
     THEN todo' = [todo EXCEPT ![Shutter] = ShutdownPlan] /\ Goto(Shutter, "step")
     ELSE Goto(Shutter, "ended") /\ UNCHANGED todo
  /\ UNCHANGED <<buffer, payload, attempts, agentVars, sessionVars, history>>

----------------------------------------------------------------------------
(* The specification *)

Init ==
  /\ buffer = [c \in Containers |-> {}]
  /\ payload = [t \in Threads |-> {}]
  /\ todo = [t \in Threads |-> <<>>]
  /\ pc = [t \in Threads |-> "idle"]
  /\ attempts = [t \in Threads |-> 0]
  /\ connectState = "connected"
  /\ loopStopped = FALSE
  /\ finished = {} /\ subscribed = FALSE /\ started = FALSE /\ shared = {}
  /\ recorded = {} /\ received = {} /\ duplicated = {}
  /\ unanswered = {} /\ overflowed = {} /\ discarded = {}

PlanStep(t) ==
  \/ RoundEnds(t)
  \/ OpenSession(t)
  \/ SessionFails(t)
  \/ CommandsHandled(t)
  \/ \E c \in Containers :
       HarvestContainer(t, c) \/ HarvestNothing(t, c) \/ HarvestFails(t, c)

SessionStep(t) ==
  \/ \E c \in Profiles : ReadyToHarvest(t, c) \/ TakeProfile(t, c) \/ Unsubscribe(t, c)
  \/ ReadProfile(t)
  \/ ClearProfile(t)

CommandStep(t) ==
  \/ StartProfile(t)
  \/ StopProfile(t)

RequestStep(t) ==
  \/ Rejected(t)
  \/ Unavailable(t)
  \/ ConnectionFails(t)
  \/ CollectorTakes(t)
  \/ Accepted(t)
  \/ AnswerLost(t)
  \/ AnswerUnreadable(t)

OrderStep(t) ==
  \/ ToldToRestart(t)
  \/ ToldToDisconnect(t)

WorkerStep ==
  \/ \E plan \in Plans : StartRound(plan)
  \/ LoopEnds
  \/ HandleForceRestart
  \/ Reconnect
  \/ StayAway

ShutdownStep ==
  \/ Shutdown
  \/ GracefulDisconnect

AppStep == \E c \in Containers : Reset(c) \/ \E e \in Events : Record(c, e)

Next ==
  \/ AppStep
  \/ \E t \in Threads :
       PlanStep(t) \/ SessionStep(t) \/ CommandStep(t) \/ RequestStep(t) \/ OrderStep(t)
  \/ WorkerStep
  \/ ShutdownStep

Spec == Init /\ [][Next]_vars

\* Each thread goes on; every event of the loop fires again and again; a
\* session for c, and a request with the data of c, succeed if tried forever.
Fairness ==
  /\ \A t \in Threads : WF_vars(PlanStep(t) \/ SessionStep(t) \/ RequestStep(t) \/ OrderStep(t))
  /\ WF_vars(LoopEnds \/ HandleForceRestart \/ Reconnect \/ StayAway)
  /\ WF_vars(GracefulDisconnect)
  /\ \A plan \in Plans : SF_vars(~loopStopped /\ StartRound(plan))
  /\ \A c \in Containers :
       /\ SF_vars(OpenSession(Worker) /\ \E i \in DOMAIN todo[Worker] : todo[Worker][i] = c)
       /\ SF_vars(CollectorTakes(Worker) /\ Target(Worker) = c)

FairSpec == Spec /\ Fairness

----------------------------------------------------------------------------
(* Properties *)

PCs == {"idle", "step", "stopping", "stopped", "session", "clearing",
        "request", "answer", "restarting", "reconnecting", "joining", "ended"}

\* The variables have their types; in particular no container ever holds more
\* than it is configured to, merges of unsent data included.
TypeOK ==
  /\ buffer \in [Containers -> SUBSET Events]
  /\ \A c \in Containers : IsFiniteSet(buffer[c]) /\ Cardinality(buffer[c]) <= Capacity[c]
  /\ payload \in [Threads -> SUBSET Events]
  /\ \A t \in Threads : IsFiniteSet(payload[t])
  /\ todo \in [Threads -> Seq(Steps)]
  /\ pc \in [Threads -> PCs]
  /\ attempts \in [Threads -> 0..(MaxAttempts - 1)]
  /\ connectState \in {"connected", "pending", "disconnected"}
  /\ loopStopped \in BOOLEAN
  /\ finished \subseteq Events /\ IsFiniteSet(finished) /\ shared \subseteq Events
  /\ subscribed \in BOOLEAN /\ started \in BOOLEAN
  /\ recorded \subseteq Events /\ received \subseteq Events /\ duplicated \subseteq Events
  /\ unanswered \subseteq Events /\ overflowed \subseteq Events /\ discarded \subseteq Events

\* An event is in one place only: one container, the finished profile, or the
\* hands of one thread, and what is merged back is not also still being sent.
\* The session of the thread profiler is the exception: a profile is still in
\* place for a thread that has read and not cleared it, and when the worker
\* outlives the join of a shutdown, both threads may come to send it.
ExclusiveCustody ==
  /\ \A c, d \in Containers : c # d => buffer[c] \cap buffer[d] = {}
  /\ \A c \in Containers : buffer[c] \cap (finished \cup InHands) = {}
  /\ \A t \in Threads : finished \cap payload[t] # {} => pc[t] = "clearing"
  /\ payload[Worker] \cap payload[Shutter] # {}
       => payload[Worker] \cap payload[Shutter] \subseteq shared
          /\ Target(Worker) \in Profiles /\ Target(Shutter) \in Profiles

\* The collector gets an event twice only when it took it and the agent never
\* learnt so, or when one thread read the profile it is in between the other's
\* read and clear: no other interleaving of harvests, retries, merges and the
\* shutdown repeats data.
DuplicatesExplained == duplicated \subseteq unanswered \cup shared

\* The harvests keep the promise of Delivery: an event leaves the agent only
\* when the collector has it, when a full buffer sheds it, or when the data is
\* discarded, whatever the network does.
Plenty == {S \in SUBSET Events : Cardinality(S) >= Least}
D == INSTANCE Delivery WITH held <- Held, delivered <- received, Enough <- Plenty
DeliverySpec == D!Spec

\* As long as the worker's loop runs, what the agent holds reaches the collector
\* or is given up: a failed send is tried again in a later harvest.
EventuallyDelivered ==
  \A e \in Events :
    e \in Held ~> \/ e \in received \cup overflowed \cup discarded
                  \/ loopStopped \/ pc[Worker] = "ended"

\* The harvests of a shutdown come to an end even if every request fails.
ShutdownFlushEnds == pc[Shutter] = "joining" ~> pc[Shutter] = "ended"
=============================================================================
