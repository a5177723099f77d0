---------------------------- MODULE PipeChannel -----------------------------
(***************************************************************************)
(* Children that report to their parent through a pipe                     *)
(* (pipe_channel_manager.rb, pipe_service.rb), as Resque and Parallel use  *)
(* it: a process registers a channel and forks; the child's main thread    *)
(* greets the parent, its worker thread and then its flush write frames,   *)
(* two writes each; the parent's listener thread reads them.  A fork       *)
(* copies every open end of every pipe, and a pipe is at its end only once *)
(* no process holds its writing end.                                       *)
(***************************************************************************)
EXTENDS Integers, Sequences, FiniteSets

CONSTANTS
  Procs, Root,     \* the processes; the first of them
  Forkers,         \* the processes whose code forks reporting children
  Lingering,       \* children that may be silent for longer than the time-out
  Capacity,        \* how much of a frame's two parts a pipe holds unread
  Mortal,          \* processes that may be killed
  MaxFrames        \* bound: frames each thread of a child begins, READY included

Channels == Procs \ {Root}   \* a channel is named after the child it is for

ASSUME ProcsAssumption == /\ Root \in Procs /\ Forkers \subseteq Procs
                          /\ Lingering \subseteq Channels /\ Mortal \subseteq Procs
ASSUME BoundsAssumption == Capacity \in Nat /\ MaxFrames \in [Channels -> [{"main", "worker"} -> Nat]]

Main == "main"
Worker == "worker"
Threads == {Main, Worker}

VARIABLES
  pc,              \* where each process's main thread is
  kid,             \* the child a process is about to fork
  connectState,    \* @connect_state, a child's being its parent's at the fork
  working,         \* the processes whose worker thread is alive
  registered,      \* each process's copy of the listener's @pipes
  started,         \* each process's copy of the listener's @started
  readEnd, writeEnd,  \* the processes that hold an end of a pipe open
  stream,          \* all that was written into a pipe
  at,              \* how much of it has been read
  begun,           \* frames each thread has begun on its channel
  half,            \* the frame of which a thread has written the length only
  listener,        \* where each process's listener thread is
  watch, ready,    \* the pipes it selects on; those found readable and not read yet
  cur,             \* the pipe it is reading
  wake,            \* bytes in the wake pipe, which a fork shares
  sent, received, garbled, timedOut, joinTimedOut  \* history

mainVars == <<pc, kid, connectState>>
tables == <<registered, started>>
ends == <<readEnd, writeEnd>>
writing == <<begun, half, stream>>
reading == <<listener, watch, ready, cur, at>>
history == <<sent, received, garbled, timedOut, joinTimedOut>>
vars == <<mainVars, working, tables, ends, writing, reading, wake, history>>

Goto(p, there) == pc' = [pc EXCEPT ![p] = there]
ListenerGoto(p, there) == listener' = [listener EXCEPT ![p] = there]

Begun(c) == begun[c][Main] + begun[c][Worker]

Unread(c) == Len(stream[c]) - at[c]
AtEOF(c) == Unread(c) = 0 /\ writeEnd[c] = {}
Readable(c) == Unread(c) > 0 \/ AtEOF(c)

\* The bytes of the wake pipe count as readable under this name.
Wake == Root

Init ==
  /\ pc = [p \in Procs |-> IF p = Root THEN "running" ELSE "unborn"]
  /\ kid = [p \in Procs |-> Root]
  /\ connectState \in {[p \in Procs |-> s] : s \in {"connected", "pending", "disconnected"}}
  /\ working = {}
  /\ registered = [p \in Procs |-> {}]
  /\ started = {}
  /\ readEnd = [c \in Channels |-> {}] /\ writeEnd = [c \in Channels |-> {}]
  /\ stream = [c \in Channels |-> <<>>]
  /\ at = [c \in Channels |-> 0]
  /\ begun = [c \in Channels |-> [t \in Threads |-> 0]]
  /\ half = [c \in Channels |-> [t \in Threads |-> 0]]
  /\ listener = [p \in Procs |-> "none"]
  /\ watch = [p \in Procs |-> {}] /\ ready = [p \in Procs |-> {}]
  /\ cur = [p \in Procs |-> Root]
  /\ wake = 0
  /\ sent = [c \in Channels |-> {}] /\ received = [c \in Channels |-> 0]
  /\ garbled = {} /\ timedOut = {} /\ joinTimedOut = {}

-----------------------------------------------------------------------------
(* Forking: Parallel.worker, Resque's hooks.                               *)

CanFork(p) == p \in Forkers /\ pc[p] = "running"

\* Skipped in a child: it has the flag of its parent, though not the thread.
StartListener(p) ==
  /\ CanFork(p) /\ p \notin started
  /\ started' = started \cup {p}
  /\ ListenerGoto(p, "top")
  /\ UNCHANGED <<mainVars, working, registered, ends, writing, watch, ready, cur, at, wake, history>>

RegisterPipe(p, c) ==
  /\ CanFork(p) /\ p \in started
  /\ pc[c] = "unborn" /\ \A q \in Procs : c \notin registered[q]
  /\ registered' = [registered EXCEPT ![p] = @ \cup {c}]
  /\ readEnd' = [readEnd EXCEPT ![c] = {p}]
  /\ writeEnd' = [writeEnd EXCEPT ![c] = {p}]
  /\ kid' = [kid EXCEPT ![p] = c]
  /\ Goto(p, "registered")
  /\ UNCHANGED <<connectState, working, started, writing, reading, wake, history>>

\* A registration without the byte that announces it.
ForkUnannounced(p) ==
  /\ pc[p] = "registered"
  /\ Goto(p, "forking")
  /\ UNCHANGED <<kid, connectState, working, tables, ends, writing, reading, wake, history>>

Wakeup(p) ==
  /\ pc[p] = "registered"
  /\ wake' = wake + 1
  /\ Goto(p, "forking")
  /\ UNCHANGED <<kid, connectState, working, tables, ends, writing, reading, history>>

\* What a fork does to the holders of an end.
Inherited(holders, p, c) ==
  [d \in Channels |-> holders[d] \cup (IF p \in holders[d] THEN {c} ELSE {})]

Fork(p) ==
  LET c == kid[p] IN
  /\ pc[p] = "forking"
  /\ pc' = [pc EXCEPT ![p] = "running", ![c] = "forked"]
  /\ connectState' = [connectState EXCEPT ![c] = connectState[p]]
  /\ registered' = [registered EXCEPT ![c] = registered[p]]
  /\ started' = started \cup {c}
  /\ readEnd' = Inherited(readEnd, p, c)
  /\ writeEnd' = Inherited(writeEnd, p, c)
  /\ kid' = [kid EXCEPT ![p] = Root]
  /\ UNCHANGED <<working, writing, reading, wake, history>>

-----------------------------------------------------------------------------
(* Writing: Pipe#write by the child's main thread or its worker.           *)

MayBegin(c, t) ==
  \/ t = Main /\ pc[c] = "forked" /\ connectState[c] # "disconnected"
  \/ t = Main /\ pc[c] = "flushing" /\ c \in writeEnd[c]
  \/ t = Worker /\ c \in working /\ c \in writeEnd[c]

Write(c, n, part) ==
  /\ Unread(c) < Capacity
  /\ stream' = [stream EXCEPT ![c] = Append(@, [n |-> n, part |-> part])]

\* @out.close unless @out.closed?; @in << serialize_message_length(data)
WriteLength(c, t) ==
  /\ MayBegin(c, t)
  /\ half[c][t] = 0 /\ begun[c][t] < MaxFrames[c][t]
  /\ readEnd' = [readEnd EXCEPT ![c] = @ \ {c}]
  /\ readEnd'[c] # {}
  /\ begun' = [begun EXCEPT ![c][t] = @ + 1]
  /\ half' = [half EXCEPT ![c][t] = Begun(c) + 1]
  /\ Write(c, Begun(c) + 1, "length")
  /\ IF pc[c] = "forked" THEN Goto(c, "greeting") ELSE UNCHANGED pc
  /\ UNCHANGED <<kid, connectState, working, tables, writeEnd, reading, wake, history>>

\* @in << data
WriteData(c, t) ==
  /\ half[c][t] # 0 /\ readEnd[c] # {}
  /\ half' = [half EXCEPT ![c][t] = 0]
  /\ Write(c, half[c][t], "data")
  /\ sent' = [sent EXCEPT ![c] = @ \cup {half[c][t]}]
  /\ UNCHANGED <<mainVars, working, tables, ends, begun, reading, wake,
                 received, garbled, timedOut, joinTimedOut>>

\* Errno::EPIPE in the middle of a frame; the harvest merges its data back.
BrokenPipe(c, t) ==
  /\ half[c][t] # 0 /\ readEnd[c] = {} /\ pc[c] # "greeting"
  /\ half' = [half EXCEPT ![c][t] = 0]
  /\ UNCHANGED <<mainVars, working, tables, ends, begun, stream, reading, wake, history>>

-----------------------------------------------------------------------------
(* A child from its fork to its exit.                                      *)

Close(p, C) ==
  /\ readEnd' = [c \in Channels |-> readEnd[c] \ (IF c \in C THEN {p} ELSE {})]
  /\ writeEnd' = [c \in Channels |-> writeEnd[c] \ (IF c \in C THEN {p} ELSE {})]

\* Agent#after_fork: a child of an agent that was told to disconnect does nothing.
SkipAfterFork(c) ==
  /\ pc[c] = "forked" /\ connectState[c] = "disconnected"
  /\ Goto(c, "running")
  /\ UNCHANGED <<kid, connectState, working, tables, ends, writing, reading, wake, history>>

\* Only the child of a connected parent reports; another closes its pipe.
InstallPipeService(c) ==
  /\ pc[c] = "greeting" /\ half[c][Main] = 0
  /\ Goto(c, "running")
  /\ IF connectState[c] = "connected"
     THEN working' = working \cup {c} /\ UNCHANGED <<ends, connectState>>
     ELSE /\ Close(c, {c})
          /\ connectState' = [connectState EXCEPT ![c] = "disconnected"]
          /\ UNCHANGED working
  /\ UNCHANGED <<kid, tables, writing, reading, wake, history>>

\* stop_event_loop that does not wait for the worker.
StopWithoutJoin(c) ==
  /\ c # Root /\ pc[c] = "running"
  /\ Goto(c, "flushing")
  /\ UNCHANGED <<kid, connectState, working, tables, ends, writing, reading, wake, history>>

\* The job or the block is over: stop_event_loop, which joins the worker.
StopEventLoop(c) ==
  /\ c # Root /\ pc[c] = "running"
  /\ Goto(c, IF c \in working THEN "joining" ELSE "flushing")
  /\ UNCHANGED <<kid, connectState, working, tables, ends, writing, reading, wake, history>>

WorkerEnds(c) ==
  /\ c \in working /\ pc[c] \in {"joining", "flushing"} /\ half[c][Worker] = 0
  /\ working' = working \ {c}
  /\ IF pc[c] = "joining" THEN Goto(c, "flushing") ELSE UNCHANGED pc
  /\ UNCHANGED <<kid, connectState, tables, ends, writing, reading, wake, history>>

JoinTimesOut(c) ==
  /\ pc[c] = "joining"
  /\ Goto(c, "flushing")
  /\ joinTimedOut' = joinTimedOut \cup {c}
  /\ UNCHANGED <<kid, connectState, working, tables, ends, writing, reading, wake,
                 sent, received, garbled, timedOut>>

\* The system closes what a process held open; a half-written frame stays so.
Gone(p) ==
  /\ Goto(p, "exited")
  /\ Close(p, Channels)
  /\ working' = working \ {p}
  /\ half' = [c \in Channels |-> IF c = p THEN [t \in Threads |-> 0] ELSE half[c]]
  /\ registered' = [registered EXCEPT ![p] = {}]
  /\ ListenerGoto(p, "none")
  /\ UNCHANGED <<kid, connectState, started, begun, stream, watch, ready, cur, at, wake, history>>

\* A shutdown of the agent closes the pipe after its flush (PipeService#shutdown),
\* just before the exit that closes it anyway.
Exit(c) ==
  /\ pc[c] = "flushing" /\ half[c][Main] = 0
  /\ Gone(c)

\* READY cannot be written: the exception ends the child.
GreetingFails(c) ==
  /\ \/ pc[c] = "forked" /\ connectState[c] # "disconnected"
     \/ pc[c] = "greeting"
  /\ readEnd[c] \subseteq {c}
  /\ Gone(c)

Crash(p) == p \in Mortal /\ pc[p] \notin {"unborn", "exited"} /\ Gone(p)

-----------------------------------------------------------------------------
(* The listener's thread.                                                  *)

\* A pipe silent for too long is closed, closed pipes are forgotten, the others
\* selected on.  (A pipe registered between the two critical sections of the
\* code might as well have been registered before the first.)
CleanUpPipes(p) ==
  /\ listener[p] = "top"
  /\ \E T \in SUBSET {c \in registered[p] \cap Lingering : p \in readEnd[c] /\ pc[c] # "unborn"} :
       /\ Close(p, T)
       /\ timedOut' = timedOut \cup T
       /\ registered' = [registered EXCEPT ![p] = {c \in @ \ T : p \in readEnd[c]}]
  /\ watch' = [watch EXCEPT ![p] = registered'[p]]
  /\ ListenerGoto(p, "select")
  /\ UNCHANGED <<mainVars, working, started, writing, ready, cur, at, wake,
                 sent, received, garbled, joinTimedOut>>

ReadableNow(p) == {c \in watch[p] : Readable(c)} \cup (IF wake > 0 THEN {Wake} ELSE {})

Select(p) ==
  /\ listener[p] = "select"
  /\ ReadableNow(p) # {}
  /\ ready' = [ready EXCEPT ![p] = ReadableNow(p)]
  /\ ListenerGoto(p, "merge")
  /\ UNCHANGED <<mainVars, working, tables, ends, writing, watch, cur, at, wake, history>>

SelectTimesOut(p) ==
  /\ listener[p] = "select" /\ ReadableNow(p) = {}
  /\ ListenerGoto(p, "top")
  /\ UNCHANGED <<mainVars, working, tables, ends, writing, watch, ready, cur, at, wake, history>>

IsNext(c, n, part) == Unread(c) > 0 /\ stream[c][at[c] + 1] = [n |-> n, part |-> part]
Consume(c) == at' = [at EXCEPT ![c] = @ + 1]

\* A parent that keeps its own writing end.
ReadKeepingEnd(p, c) ==
  /\ listener[p] = "merge" /\ c \in ready[p] \ {Wake}
  /\ ready' = [ready EXCEPT ![p] = @ \ {c}]
  /\ cur' = [cur EXCEPT ![p] = c]
  /\ IF Unread(c) > 0 THEN Consume(c) /\ ListenerGoto(p, "body")
                      ELSE UNCHANGED at /\ ListenerGoto(p, "eof")
  /\ UNCHANGED <<mainVars, working, tables, ends, writing, watch, wake, history>>

\* Pipe#read: close the own writing end, then the length.
ReadLength(p, c) ==
  /\ listener[p] = "merge" /\ c \in ready[p] \ {Wake}
  /\ ready' = [ready EXCEPT ![p] = @ \ {c}]
  /\ cur' = [cur EXCEPT ![p] = c]
  /\ writeEnd' = [writeEnd EXCEPT ![c] = @ \ {p}]
  /\ IF Unread(c) > 0 THEN Consume(c) /\ ListenerGoto(p, "body")
                      ELSE UNCHANGED at /\ ListenerGoto(p, "eof")
  /\ UNCHANGED <<mainVars, working, tables, readEnd, writing, watch, wake, history>>

\* The rest of the frame; it blocks until the frame is there or cannot come.
ReadFrame(p) ==
  LET c == cur[p]
      n == stream[c][at[c]].n
  IN
  /\ listener[p] = "body" /\ c \notin garbled
  /\ IsNext(c, n, "data")
  /\ Consume(c)
  /\ received' = [received EXCEPT ![c] = n]
  /\ ListenerGoto(p, "eof")
  /\ UNCHANGED <<mainVars, working, tables, ends, writing, watch, ready, cur, wake,
                 sent, garbled, timedOut, joinTimedOut>>

\* Something else follows the length: the read takes it for the frame, and the
\* framing is lost.  How much a read takes from there on is anybody's guess.
ReadGarbage(p) ==
  LET c == cur[p] IN
  /\ listener[p] = "body" /\ Unread(c) > 0
  /\ c \in garbled \/ ~IsNext(c, stream[c][at[c]].n, "data")
  /\ garbled' = garbled \cup {c}
  /\ Consume(c)
  /\ \E there \in {"body", "eof"} : ListenerGoto(p, there)
  /\ UNCHANGED <<mainVars, working, tables, ends, writing, watch, ready, cur, wake,
                 sent, received, timedOut, joinTimedOut>>

\* What there is of an unfinished frame is merged.
MergeCutShort(p) ==
  /\ listener[p] = "body" /\ AtEOF(cur[p])
  /\ received' = [received EXCEPT ![cur[p]] = stream[cur[p]][at[cur[p]]].n]
  /\ ListenerGoto(p, "eof")
  /\ UNCHANGED <<mainVars, working, tables, ends, writing, watch, ready, cur, at, wake,
                 sent, garbled, timedOut, joinTimedOut>>

ReadCutShort(p) ==
  /\ listener[p] = "body" /\ AtEOF(cur[p])
  /\ ListenerGoto(p, "eof")
  /\ UNCHANGED <<mainVars, working, tables, ends, writing, watch, ready, cur, at, wake, history>>

\* One frame per pipe.
CloseWhenRead(p) ==
  LET c == cur[p] IN
  /\ listener[p] = "eof" /\ Readable(c)
  /\ Close(p, {c})
  /\ ListenerGoto(p, "merge")
  /\ UNCHANGED <<mainVars, working, tables, writing, watch, ready, cur, at, wake, history>>

\* pipe.close if pipe.eof?, which blocks until there is more or there can be no more.
CloseAtEOF(p) ==
  LET c == cur[p] IN
  /\ listener[p] = "eof" /\ Readable(c)
  /\ IF AtEOF(c) THEN Close(p, {c}) ELSE UNCHANGED ends
  /\ ListenerGoto(p, "merge")
  /\ UNCHANGED <<mainVars, working, tables, writing, watch, ready, cur, at, wake, history>>

ReadWake(p) ==
  /\ listener[p] = "merge" /\ ready[p] \subseteq {Wake}
  /\ wake' = IF Wake \in ready[p] THEN wake - 1 ELSE wake
  /\ ready' = [ready EXCEPT ![p] = {}]
  /\ ListenerGoto(p, "top")
  /\ UNCHANGED <<mainVars, working, tables, ends, writing, watch, cur, at, history>>

ListenerStep(p) ==
  \/ CleanUpPipes(p) \/ Select(p) \/ SelectTimesOut(p)
  \/ \E c \in Channels : ReadLength(p, c)
  \/ ReadFrame(p) \/ ReadGarbage(p) \/ ReadCutShort(p) \/ CloseAtEOF(p) \/ ReadWake(p)

-----------------------------------------------------------------------------
ChildStep(c) ==
  \/ pc[c] = "forked" /\ WriteLength(c, Main)
  \/ SkipAfterFork(c) \/ InstallPipeService(c) \/ GreetingFails(c)
  \/ StopEventLoop(c) \/ JoinTimesOut(c) \/ Exit(c)
  \/ WriteData(c, Main) \/ BrokenPipe(c, Main)

\* What a process's main thread does of itself, and its worker: all but
\* registering, and what a flush or a harvest may find to write.
MainStep(p) == Wakeup(p) \/ Fork(p) \/ (p # Root /\ ChildStep(p))
WorkerStep(c) == WorkerEnds(c) \/ WriteData(c, Worker) \/ BrokenPipe(c, Worker)

Next ==
  \/ \E p \in Procs : \/ StartListener(p) \/ Wakeup(p) \/ Fork(p)
                      \/ ListenerStep(p) \/ Crash(p)
                      \/ \E c \in Channels : RegisterPipe(p, c)
  \/ \E c \in Channels : \/ ChildStep(c) \/ WorkerStep(c)
                         \/ \E t \in Threads : WriteLength(c, t)

Spec == Init /\ [][Next]_vars

\* Threads run, a job ends, and a join has a time-out.  Nobody has to fork, and
\* neither a harvest nor a flush has to find something to write.
Fairness ==
  /\ \A p \in Procs : WF_vars(MainStep(p)) /\ WF_vars(ListenerStep(p))
  /\ \A c \in Channels : WF_vars(WorkerStep(c))

FairSpec == Spec /\ Fairness

-----------------------------------------------------------------------------
(* Properties.                                                             *)

Stages == {"unborn", "running", "registered", "forking", "forked", "greeting",
           "joining", "flushing", "exited"}
ListenerStages == {"none", "top", "select", "merge", "body", "eof"}
Numbers == UNION {1..(MaxFrames[c][Main] + MaxFrames[c][Worker]) : c \in Channels}
Tokens == [n : Numbers, part : {"length", "data"}]

\* Every variable has its type; a listener reads no further than was written.
TypeOK ==
  /\ pc \in [Procs -> Stages]
  /\ kid \in [Procs -> Procs]
  /\ connectState \in [Procs -> {"connected", "pending", "disconnected"}]
  /\ working \subseteq Channels
  /\ registered \in [Procs -> SUBSET Channels]
  /\ started \subseteq Procs
  /\ readEnd \in [Channels -> SUBSET Procs] /\ writeEnd \in [Channels -> SUBSET Procs]
  /\ stream \in [Channels -> Seq(Tokens)]
  /\ at \in [Channels -> Nat] /\ \A c \in Channels : at[c] <= Len(stream[c])
  /\ begun \in [Channels -> [Threads -> Nat]]
  /\ \A c \in Channels : \A t \in Threads : begun[c][t] <= MaxFrames[c][t]
  /\ half \in [Channels -> [Threads -> {0} \cup Numbers]]
  /\ listener \in [Procs -> ListenerStages]
  /\ watch \in [Procs -> SUBSET Channels] /\ ready \in [Procs -> SUBSET Procs]
  /\ cur \in [Procs -> Procs]
  /\ wake \in Nat
  /\ sent \in [Channels -> SUBSET Numbers]
  /\ received \in [Channels -> {0} \cup Numbers]
  /\ garbled \subseteq Channels /\ timedOut \subseteq Channels
  /\ joinTimedOut \subseteq Channels

\* The k-th part of a stream that keeps its framing.
Part(k) == IF k % 2 = 1 THEN [n |-> (k + 1) \div 2, part |-> "length"]
                        ELSE [n |-> k \div 2, part |-> "data"]

\* No lock protects Pipe#write, whose two writes another thread's may separate:
\* that the frames of a channel stay whole rests on stopping the event loop
\* before the pipe is flushed (resque/instrumentation.rb), and fails only when
\* that join has timed out.
FramesIntact ==
  \A c \in Channels \ joinTimedOut :
    \A k \in 1..Len(stream[c]) : stream[c][k] = Part(k)

\* A pipe registered while the listener selects on others is not forgotten
\* until the select times out: its registrar has written, or is about to
\* write, to the wake pipe, whatever bytes the listener has read meanwhile.
RegistrationNoticed ==
  \A p \in Procs : listener[p] = "select" =>
    \A c \in registered[p] \ watch[p] : wake > 0 \/ pc[p] = "registered"

\* The listener gives up a pipe only when all of it was read and nobody can
\* write to it any more, or when it was silent for too long: what a child has
\* written is never thrown away because another pipe ended, or a frame was bad.
NothingCutOff ==
  [][\A p \in Procs : \A c \in Channels :
       /\ p \in readEnd[c] /\ p \notin readEnd'[c]
       /\ p # c /\ pc'[p] # "exited" /\ c \notin timedOut'
       => Unread(c) = 0 /\ writeEnd[c] = {}]_vars

\* What the pipe delivers is what was written, frame by frame and in order.
Cut == garbled \cup timedOut
Delivered == INSTANCE Channel WITH Frames <- Numbers, cut <- Cut
ChannelSpec == Delivered!Spec

\* "An exit (whether clean or not) of the child will result in the pipe being
\* marked readable again, and giving an EOF marker", once the child has begun to
\* greet: the process that listens closes the pipe of every such child.
ExitedChildReaped ==
  \A c \in Channels :
    (pc[c] = "exited" /\ begun[c][Main] > 0 /\ c \in registered[Root])
      ~> (Root \notin readEnd[c] \/ pc[Root] = "exited")
=============================================================================
