----------------------------- MODULE EventLoop -----------------------------
(***************************************************************************)
(* NewRelic::Agent::EventLoop (lib/new_relic/agent/event_loop.rb): the     *)
(* loop the agent's worker thread runs.  Any thread calls fire, on,        *)
(* fire_every, fire_after and stop; each appends to @event_queue (or sets  *)
(* @stopped) and then, as a second step, writes one byte to a pipe.  The   *)
(* loop sleeps in IO.select on that pipe until the earliest timer is due,  *)
(* takes ONE byte, fires its timers and dispatches the whole queue.        *)
(*                                                                         *)
(* Threads are the callers outside the loop; LoopThread stands for a       *)
(* callback that calls the loop back while it is being dispatched.  asked  *)
(* and an entry's need are history: the handlers whose `on' was queued     *)
(* before the entry.  calls and now are bounded by MaxCalls and MaxTime.   *)
(***************************************************************************)
EXTENDS Integers, Sequences, FiniteSets

CONSTANTS
  Threads,      \* threads that call the loop's public methods
  LoopThread,   \* a callback running on the loop's own thread
  Events,       \* event names
  Handlers,     \* blocks passed to `on'
  Intervals,    \* timer intervals, in seconds
  PipeSize,     \* bytes the self-pipe holds before EAGAIN
  MaxCalls,     \* bound: public calls made in a behaviour
  MaxTime       \* bound: the last second of the clock

ASSUME LoopThreadAssumption == LoopThread \notin Threads
ASSUME IntervalsAssumption == Intervals \subseteq Nat
ASSUME PipeSizeAssumption == PipeSize \in Nat \ {0}
ASSUME BoundsAssumption == MaxCalls \in Nat /\ MaxTime \in Nat

VARIABLES
  queue,    \* @event_queue
  pipe,     \* bytes waiting in the self-pipe
  stopped,  \* @stopped
  timers,   \* @timers: event -> timer
  subs,     \* @subscriptions: event -> set of handlers
  pc,       \* where the loop's thread is in run / run_once
  cur,      \* the entry popped by run_once
  visit,    \* timers fire_timers has still to look at
  call,     \* per caller: "idle", or "waking" between the append and wakeup
  now,      \* CLOCK_REALTIME
  calls,    \* public calls made so far
  asked     \* history: event -> handlers whose `on' has been queued

vars == <<queue, pipe, stopped, timers, subs, pc, cur, visit, call, now,
          calls, asked>>

Callers == Threads \union {LoopThread}
Never == -1      \* a @last_fired_at that is nil

Timer == [event : Events, interval : Intervals, repeat : BOOLEAN,
          started : 0..MaxTime, last : {Never} \union 0..MaxTime, next : Int]
FireEntry == [what : {"fire", "timer"}, event : Events, need : SUBSET Handlers]
OnEntry == [what : {"on"}, event : Events, handler : Handlers]
TimerEntry == [what : {"set_timer"}, timer : Timer]
Entry == FireEntry \union OnEntry \union TimerEntry
NoEntry == [what |-> "none"]

Locations == {"test", "select", "fire_timers", "drain", "dispatch",
              "returned", "raised"}
Ended == pc \in {"returned", "raised"}

-----------------------------------------------------------------------------
(* Timer *)

\* calculate_next_fire_time: the first interval boundary after n, counted
\* from the last firing (or from n, for a timer that has not fired)
NextFireTime(interval, last, n) ==
  LET base == IF last = Never THEN n ELSE last
  IN  IF interval = 0 THEN n
      ELSE IF base > n THEN base
      ELSE base + interval * ((n - base) \div interval + 1)

NewTimer(e, i, repeat) ==
  [event |-> e, interval |-> i, repeat |-> repeat, started |-> now,
   last |-> Never, next |-> NextFireTime(i, Never, now)]

LastIntervalStart(t) == IF t.last = Never THEN t.started ELSE t.last
Due(t) == now >= t.next
Finished(t) == ~t.repeat /\ t.last # Never

TimerFires(t) ==
  [what |-> "timer", event |-> t.event, need |-> asked[t.event]]

-----------------------------------------------------------------------------
(* Public calls: append (or set the flag), then wakeup *)

NoWakeup(c) == call' = call
NeedsWakeup(c) == call' = [call EXCEPT ![c] = "waking"]

MayCall(c) ==
  /\ call[c] = "idle"
  /\ calls < MaxCalls
  /\ c = LoopThread => /\ pc = "dispatch"
                       /\ cur.what \in {"fire", "timer"}
                       /\ subs[cur.event] # {}

\* fire: a second step, Wakeup, is still to come
Append1(c, entry) ==
  /\ MayCall(c)
  /\ queue' = Append(queue, entry)
  /\ NeedsWakeup(c)
  /\ calls' = calls + 1
  /\ UNCHANGED <<pipe, stopped, timers, subs, pc, cur, visit, now>>

Fire(c, e) ==
  /\ Append1(c, [what |-> "fire", event |-> e, need |-> asked[e]])
  /\ UNCHANGED asked

On(c, e, h) ==
  /\ Append1(c, [what |-> "on", event |-> e, handler |-> h])
  /\ asked' = [asked EXCEPT ![e] = @ \union {h}]

\* fire_every (repeat) and fire_after (not repeat): the timer is built, and
\* its start taken, on the calling thread
SetTimerCall(c, e, i, repeat) ==
  /\ Append1(c, [what |-> "set_timer", timer |-> NewTimer(e, i, repeat)])
  /\ UNCHANGED asked

StopSilently(c) ==
  /\ MayCall(c)
  /\ stopped' = TRUE
  /\ calls' = calls + 1
  /\ UNCHANGED <<queue, pipe, timers, subs, pc, cur, visit, call, now, asked>>
Stop(c) ==
  /\ MayCall(c)
  /\ stopped' = TRUE
  /\ NeedsWakeup(c)
  /\ calls' = calls + 1
  /\ UNCHANGED <<queue, pipe, timers, subs, pc, cur, visit, now, asked>>

\* wakeup: write_nonblock, EAGAIN when the pipe is full
Wakeup(c) ==
  /\ call[c] = "waking"
  /\ pipe' = IF pipe < PipeSize THEN pipe + 1 ELSE pipe
  /\ call' = [call EXCEPT ![c] = "idle"]
  /\ UNCHANGED <<queue, stopped, timers, subs, pc, cur, visit, now, calls,
                 asked>>

\* A forked child that calls stop on its copy of the loop writes into the
\* pipe it shares with the parent; the parent's flag stays as it was
ForeignWakeup ==
  /\ calls < MaxCalls
  /\ calls' = calls + 1
  /\ pipe' = IF pipe < PipeSize THEN pipe + 1 ELSE pipe
  /\ UNCHANGED <<queue, stopped, timers, subs, pc, cur, visit, call, now,
                 asked>>

-----------------------------------------------------------------------------
(* The loop's thread *)

\* run: while !stopped?
TestStopped ==
  /\ pc = "test"
  /\ pc' = IF stopped THEN "returned" ELSE "select"
  /\ UNCHANGED <<queue, pipe, stopped, timers, subs, cur, visit, call, now,
                 calls, asked>>

\* prune_timers, and the set fire_timers is about to walk
Prune ==
  LET live == {e \in DOMAIN timers : ~Finished(timers[e])}
  IN  /\ timers' = [e \in live |-> timers[e]]
      /\ visit' = live

\* next_timeout has elapsed for the earliest timer (never, without timers)
LatestTimedOut == DOMAIN timers # {} /\ \A e \in DOMAIN timers : Due(timers[e])
TimedOut == \E e \in DOMAIN timers : Due(timers[e])

\* wait_to_run: a byte to read, or the timeout
WaitToRun ==
  /\ pc = "select"
  /\ \/ pipe > 0 /\ pipe' = pipe - 1
     \/ pipe = 0 /\ TimedOut /\ UNCHANGED pipe
  /\ Prune
  /\ pc' = "fire_timers"
  /\ UNCHANGED <<queue, stopped, subs, cur, call, now, calls, asked>>

\* fire_timers / fire_timer, one timer of the walk
FireTimer(e) ==
  /\ pc = "fire_timers"
  /\ e \in visit
  /\ visit' = visit \ {e}
  /\ IF Due(timers[e])
     THEN /\ queue' = Append(queue, TimerFires(timers[e]))
          /\ timers' = [timers EXCEPT ![e].last = now]
     ELSE UNCHANGED <<queue, timers>>
  /\ UNCHANGED <<pipe, stopped, subs, pc, cur, call, now, calls, asked>>

FiredTimers ==
  /\ pc = "fire_timers"
  /\ visit = {}
  /\ pc' = "drain"
  /\ UNCHANGED <<queue, pipe, stopped, timers, subs, cur, visit, call, now,
                 calls, asked>>

\* until @event_queue.empty?
Drained ==
  /\ pc = "drain"
  /\ queue = <<>>
  /\ pc' = "test"
  /\ UNCHANGED <<queue, pipe, stopped, timers, subs, cur, visit, call, now,
                 calls, asked>>

PopLatest ==
  /\ pc = "drain"
  /\ queue # <<>>
  /\ cur' = queue[Len(queue)]
  /\ queue' = SubSeq(queue, 1, Len(queue) - 1)
  /\ pc' = "dispatch"
  /\ UNCHANGED <<pipe, stopped, timers, subs, visit, call, now, calls, asked>>
Pop ==
  /\ pc = "drain"
  /\ queue # <<>>
  /\ cur' = Head(queue)
  /\ queue' = Tail(queue)
  /\ pc' = "dispatch"
  /\ UNCHANGED <<pipe, stopped, timers, subs, visit, call, now, calls, asked>>

\* :__add_event
DispatchOn ==
  /\ pc = "dispatch"
  /\ cur.what = "on"
  /\ subs' = [subs EXCEPT ![cur.event] = @ \union {cur.handler}]
  /\ cur' = NoEntry
  /\ pc' = "drain"
  /\ UNCHANGED <<queue, pipe, stopped, timers, visit, call, now, calls,
                 asked>>

\* :__add_timer -> set_timer: the part of the interval the replaced timer
\* has already waited is taken off, and the new timer fires if that makes
\* it due
Advanced(t) ==
  IF t.event \in DOMAIN timers
  THEN [t EXCEPT !.next = @ - (now - LastIntervalStart(timers[t.event]))]
  ELSE t

DispatchSetTimer ==
  /\ pc = "dispatch"
  /\ cur.what = "set_timer"
  /\ LET t == Advanced(cur.timer)
         set == IF Due(t) THEN [t EXCEPT !.last = now] ELSE t
     IN  /\ timers' = [e \in DOMAIN timers \union {t.event} |->
                         IF e = t.event THEN set ELSE timers[e]]
         /\ queue' = IF Due(t) THEN Append(queue, TimerFires(t)) ELSE queue
  /\ cur' = NoEntry
  /\ pc' = "drain"
  /\ UNCHANGED <<pipe, stopped, subs, visit, call, now, calls, asked>>

NotRescheduled(e) == timers' = timers
\* reschedule_timer_for_event
Reschedule(e) ==
  timers' = IF e \in DOMAIN timers
            THEN [timers EXCEPT ![e].next =
                    NextFireTime(timers[e].interval, timers[e].last, now)]
            ELSE timers

\* dispatch_event: every callback ran; their StandardErrors were collected
\* and logged
DispatchFire ==
  /\ pc = "dispatch"
  /\ cur.what \in {"fire", "timer"}
  /\ call[LoopThread] = "idle"
  /\ Reschedule(cur.event)
  /\ cur' = NoEntry
  /\ pc' = "drain"
  /\ UNCHANGED <<queue, pipe, stopped, subs, visit, call, now, calls,
                 asked>>

\* dispatch_event: a callback raised ForceRestartException or
\* ForceDisconnectException, which leaves run
DispatchForce ==
  /\ pc = "dispatch"
  /\ cur.what \in {"fire", "timer"}
  /\ subs[cur.event] # {}
  /\ call[LoopThread] = "idle"
  /\ cur' = NoEntry
  /\ pc' = "raised"
  /\ UNCHANGED <<queue, pipe, stopped, timers, subs, visit, call, now,
                 calls, asked>>

-----------------------------------------------------------------------------
\* The clock moves on at any point; it is not set back
Tick ==
  /\ now < MaxTime
  /\ now' = now + 1
  /\ UNCHANGED <<queue, pipe, stopped, timers, subs, pc, cur, visit, call,
                 calls, asked>>

Init ==
  /\ queue = <<>>
  /\ pipe = 0
  /\ stopped = FALSE
  /\ timers = [e \in {} |-> 0]
  /\ subs = [e \in Events |-> {}]
  /\ pc = "test"
  /\ cur = NoEntry
  /\ visit = {}
  /\ call = [c \in Callers |-> "idle"]
  /\ now = 0
  /\ calls = 0
  /\ asked = [e \in Events |-> {}]

CallerNext(c) ==
  \/ \E e \in Events : Fire(c, e)
  \/ \E e \in Events, h \in Handlers : On(c, e, h)
  \/ \E e \in Events, i \in Intervals, repeat \in BOOLEAN :
       SetTimerCall(c, e, i, repeat)
  \/ Stop(c)
  \/ Wakeup(c)

LoopNext ==
  \/ TestStopped
  \/ WaitToRun
  \/ \E e \in Events : FireTimer(e)
  \/ FiredTimers
  \/ Drained
  \/ Pop
  \/ DispatchOn
  \/ DispatchSetTimer
  \/ DispatchFire
  \/ DispatchForce

Next ==
  \/ \E c \in Callers : CallerNext(c)
  \/ ForeignWakeup
  \/ LoopNext
  \/ Tick

\* Ruby schedules the loop's thread, and a thread that has appended goes on
\* to write its byte; no caller has to call, and callbacks return.
Fairness == WF_vars(LoopNext) /\ \A c \in Callers : WF_vars(Wakeup(c))

Spec == Init /\ [][Next]_vars
FairSpec == Spec /\ Fairness

-----------------------------------------------------------------------------
(* Properties *)

\* Every variable keeps the shape the code gives it.
TypeOK ==
  /\ queue \in Seq(Entry)
  /\ pipe \in 0..PipeSize
  /\ stopped \in BOOLEAN
  /\ DOMAIN timers \subseteq Events
  /\ \A e \in DOMAIN timers : timers[e] \in Timer /\ timers[e].event = e
  /\ timers = [e \in DOMAIN timers |-> timers[e]]
  /\ subs \in [Events -> SUBSET Handlers]
  /\ pc \in Locations
  /\ cur \in Entry \union {NoEntry}
  /\ visit \subseteq DOMAIN timers
  /\ call \in [Callers -> {"idle", "waking"}]
  /\ now \in 0..MaxTime
  /\ calls \in 0..MaxCalls
  /\ asked \in [Events -> SUBSET Handlers]

Waking == \E c \in Callers : call[c] = "waking"

\* The loop is never asleep over a queued entry: before it can block in
\* IO.select a byte is in the pipe or its writer is about to write it, however
\* appends, EAGAINs and the one-byte reads interleave.
NoLostWakeup ==
  pc \in {"test", "select"} /\ queue # <<>> => pipe > 0 \/ Waking

\* stop is never slept through: once the flag is set, a loop that has passed
\* its `while !stopped?' test finds a byte, or one is about to be written.
StopNotMissed == pc = "select" /\ stopped => pipe > 0 \/ Waking

\* A handler whose `on' was called before an event was fired is subscribed
\* by the time that event is dispatched: `on' goes through the same queue.
SubscribedBeforeFire ==
  pc = "dispatch" /\ cur.what \in {"fire", "timer"} => cur.need \subseteq subs[cur.event]

\* fire_timers puts the timer of e on the queue in this step
FiresTimer(e) ==
  /\ pc = "fire_timers"
  /\ e \in DOMAIN timers
  /\ Len(queue') > Len(queue)
  /\ queue'[Len(queue')].what = "timer"
  /\ queue'[Len(queue')].event = e

\* Between two firings by the walk over the timers, a repeating timer waits at
\* least its interval, and a fire_after timer never fires twice, whatever fires
\* of the same event, replacements and slow callbacks come between.
TimerSpacing ==
  [][\A e \in Events :
       FiresTimer(e) /\ timers[e].last # Never
         => timers[e].repeat /\ now >= timers[e].last + timers[e].interval]_vars

\* Anything put on the queue is dispatched, unless the loop has ended.
QueueDrains == queue # <<>> ~> queue = <<>> \/ Ended

\* stop ends the loop (a callback that raises may end it first).
StopEndsLoop == stopped ~> Ended

\* A due timer is fired even if nobody else wakes the loop.
DueTimerFires ==
  \A e \in Events :
    (e \in DOMAIN timers /\ Due(timers[e]))
      ~> (e \in DOMAIN timers => ~Due(timers[e])) \/ Ended
=============================================================================
