-------------------------- MODULE EventLoopProofs --------------------------
(***************************************************************************)
(* What EventLoop guarantees for any number of calling threads, events,    *)
(* handlers and intervals, and any size of the pipe.                       *)
(***************************************************************************)
EXTENDS EventLoop, TLAPS

\* calculate_next_fire_time always answers with a time.
LEMMA NextFireTimeType ==
  ASSUME NEW i \in Intervals, NEW last \in {Never} \union 0..MaxTime,
         NEW n \in 0..MaxTime
  PROVE  NextFireTime(i, last, n) \in Int
<1> DEFINE base == IF last = Never THEN n ELSE last
<1>1. base \in Int /\ i \in Nat /\ n \in Int
  BY IntervalsAssumption, BoundsAssumption DEF Never
<1>2. i # 0 => (n - base) \div i \in Int
  BY <1>1
<1>3. i # 0 => base + i * ((n - base) \div i + 1) \in Int
  <2> SUFFICES ASSUME i # 0 PROVE base + i * ((n - base) \div i + 1) \in Int
    OBVIOUS
  <2> DEFINE q == (n - base) \div i
  <2>1. q \in Int
    BY <1>2
  <2> HIDE DEF q, base
  <2>2. i * (q + 1) \in Int
    BY <2>1, <1>1
  <2>3. base + i * (q + 1) \in Int
    BY <2>2, <1>1
  <2> QED
    BY <2>3 DEF q, base
<1> HIDE DEF base
<1>4. NextFireTime(i, last, n) \in {n, base, base + i * ((n - base) \div i + 1)}
  BY DEF NextFireTime, base
<1> QED
  BY <1>1, <1>3, <1>4, IntervalsAssumption DEF NextFireTime, base

-----------------------------------------------------------------------------
(* The type invariant *)

LEMMA NewTimerType ==
  ASSUME TypeOK, NEW e \in Events, NEW i \in Intervals, NEW r \in BOOLEAN
  PROVE  NewTimer(e, i, r) \in Timer
<1>1. NextFireTime(i, Never, now) \in Int
  BY NextFireTimeType DEF TypeOK
<1> QED
  BY <1>1 DEF NewTimer, Timer, TypeOK

LEMMA TimerFiresType ==
  ASSUME TypeOK, NEW t \in Timer
  PROVE  TimerFires(t) \in Entry
BY DEF TypeOK, TimerFires, Entry, FireEntry, Timer

LEMMA AdvancedType ==
  ASSUME TypeOK, NEW t \in Timer
  PROVE  /\ Advanced(t) \in Timer
         /\ Advanced(t).event = t.event
<1>1. CASE t.event \in DOMAIN timers
  <2>1. timers[t.event] \in Timer
    BY <1>1 DEF TypeOK
  <2>2. LastIntervalStart(timers[t.event]) \in Int
    BY <2>1, BoundsAssumption DEF LastIntervalStart, Timer, Never
  <2>3. t.next - (now - LastIntervalStart(timers[t.event])) \in Int
    BY <2>2, BoundsAssumption DEF TypeOK, Timer
  <2> QED
    BY <1>1, <2>3 DEF Advanced, Timer
<1>2. CASE t.event \notin DOMAIN timers
  BY <1>2 DEF Advanced
<1> QED
  BY <1>1, <1>2

LEMMA Append1Type ==
  ASSUME TypeOK, NEW c \in Callers, NEW entry \in Entry, Append1(c, entry),
         asked' \in [Events -> SUBSET Handlers]
  PROVE  TypeOK'
BY BoundsAssumption DEF TypeOK, Append1, MayCall, NeedsWakeup, Callers

LEMMA CallerType ==
  ASSUME TypeOK, NEW c \in Callers, CallerNext(c)
  PROVE  TypeOK'
<1>1. ASSUME NEW e \in Events, Fire(c, e) PROVE TypeOK'
  <2>1. [what |-> "fire", event |-> e, need |-> asked[e]] \in Entry
    BY DEF TypeOK, Entry, FireEntry
  <2> QED
    BY <1>1, <2>1, Append1Type DEF Fire, TypeOK
<1>2. ASSUME NEW e \in Events, NEW h \in Handlers, On(c, e, h) PROVE TypeOK'
  <2>1. [what |-> "on", event |-> e, handler |-> h] \in Entry
    BY DEF Entry, OnEntry
  <2>2. asked' \in [Events -> SUBSET Handlers]
    BY <1>2 DEF On, TypeOK
  <2> QED
    BY <1>2, <2>1, <2>2, Append1Type DEF On
<1>3. ASSUME NEW e \in Events, NEW i \in Intervals, NEW r \in BOOLEAN,
             SetTimerCall(c, e, i, r)
      PROVE  TypeOK'
  <2>1. [what |-> "set_timer", timer |-> NewTimer(e, i, r)] \in Entry
    BY NewTimerType DEF Entry, TimerEntry
  <2> QED
    BY <1>3, <2>1, Append1Type DEF SetTimerCall, TypeOK
<1>4. CASE Stop(c)
  BY <1>4, BoundsAssumption DEF TypeOK, Stop, MayCall, NeedsWakeup, Callers
<1>5. CASE Wakeup(c)
  BY <1>5, PipeSizeAssumption DEF TypeOK, Wakeup, Callers
<1> QED
  BY <1>1, <1>2, <1>3, <1>4, <1>5 DEF CallerNext

LEMMA TypeOKInit == Init => TypeOK
<1> SUFFICES ASSUME Init PROVE TypeOK
  OBVIOUS
<1>1. queue \in Seq(Entry) /\ pipe \in 0..PipeSize /\ stopped \in BOOLEAN
  <2>1. queue \in Seq(Entry)
    <3>1. queue = <<>>
      BY DEF Init
    <3> QED
      BY <3>1
  <2>2. pipe \in 0..PipeSize
    BY PipeSizeAssumption DEF Init
  <2>3. stopped \in BOOLEAN
    BY DEF Init
  <2> QED
    BY <2>1, <2>2, <2>3
<1>2. /\ DOMAIN timers \subseteq Events
      /\ \A e \in DOMAIN timers : timers[e] \in Timer /\ timers[e].event = e
      /\ timers = [e \in DOMAIN timers |-> timers[e]]
      /\ visit \subseteq DOMAIN timers
  BY DEF Init
<1>3. subs \in [Events -> SUBSET Handlers] /\ asked \in [Events -> SUBSET Handlers]
  BY DEF Init
<1>4. /\ pc \in Locations
      /\ cur \in Entry \union {NoEntry}
      /\ call \in [Callers -> {"idle", "waking"}]
  BY DEF Init, Locations
<1>5. now \in 0..MaxTime /\ calls \in 0..MaxCalls
  BY BoundsAssumption DEF Init
<1> QED
  BY <1>1, <1>2, <1>3, <1>4, <1>5 DEF TypeOK

LEMMA TypeOKNext == TypeOK /\ [Next]_vars => TypeOK'
<1> SUFFICES ASSUME TypeOK, [Next]_vars PROVE TypeOK'
  OBVIOUS
<1>1. ASSUME NEW c \in Callers, CallerNext(c) PROVE TypeOK'
  BY <1>1, CallerType
<1>2. CASE ForeignWakeup
  BY <1>2, PipeSizeAssumption, BoundsAssumption DEF ForeignWakeup, TypeOK
<1>3. CASE TestStopped
  BY <1>3 DEF TestStopped, TypeOK, Locations
<1>4. CASE WaitToRun
  <2>1. pipe' \in 0..PipeSize
    BY <1>4, PipeSizeAssumption DEF WaitToRun, TypeOK
  <2>2. /\ DOMAIN timers' \subseteq DOMAIN timers
        /\ \A e \in DOMAIN timers' : timers'[e] = timers[e]
        /\ timers' = [e \in DOMAIN timers' |-> timers'[e]]
        /\ visit' = DOMAIN timers'
    BY <1>4 DEF WaitToRun, Prune
  <2> QED
    BY <1>4, <2>1, <2>2 DEF WaitToRun, TypeOK, Locations
<1>5. ASSUME NEW e \in Events, FireTimer(e) PROVE TypeOK'
  <2>1. e \in DOMAIN timers /\ timers[e] \in Timer
    BY <1>5 DEF FireTimer, TypeOK
  <2>2. TimerFires(timers[e]) \in Entry
    BY <2>1, TimerFiresType
  <2>3. queue' \in Seq(Entry)
    <3>1. queue \in Seq(Entry)
      BY DEF TypeOK
    <3>2. Append(queue, TimerFires(timers[e])) \in Seq(Entry)
      BY <2>2, <3>1
    <3>3. queue' = Append(queue, TimerFires(timers[e])) \/ queue' = queue
      BY <1>5 DEF FireTimer
    <3> QED
      BY <3>1, <3>2, <3>3
  <2>4. [timers[e] EXCEPT !.last = now] \in Timer
    BY <2>1 DEF Timer, TypeOK
  <2>5. /\ DOMAIN timers' = DOMAIN timers
        /\ timers'[e] \in {timers[e], [timers[e] EXCEPT !.last = now]}
        /\ \A x \in DOMAIN timers : x # e => timers'[x] = timers[x]
        /\ timers' = [x \in DOMAIN timers |-> timers'[x]]
    BY <1>5, <2>1 DEF FireTimer, TypeOK
  <2>6. \A x \in DOMAIN timers : timers'[x] \in Timer /\ timers'[x].event = x
    <3>1. timers'[e] \in Timer /\ timers'[e].event = e
      <4>1. timers[e].event = e
        BY <2>1 DEF TypeOK
      <4>2. [timers[e] EXCEPT !.last = now].event = e
        BY <2>1, <4>1 DEF Timer
      <4> QED
        BY <2>1, <2>4, <2>5, <4>1, <4>2
    <3>2. \A x \in DOMAIN timers : timers[x] \in Timer /\ timers[x].event = x
      BY DEF TypeOK
    <3> QED
      BY <3>1, <3>2, <2>5
  <2> QED
    BY <1>5, <2>3, <2>5, <2>6 DEF FireTimer, TypeOK
<1>6. CASE FiredTimers
  BY <1>6 DEF FiredTimers, TypeOK, Locations
<1>7. CASE Drained
  BY <1>7 DEF Drained, TypeOK, Locations
<1>8. CASE Pop
  <2>1. Head(queue) \in Entry /\ Tail(queue) \in Seq(Entry)
    BY <1>8 DEF Pop, TypeOK
  <2> QED
    BY <1>8, <2>1 DEF Pop, TypeOK, Locations
<1>9. CASE DispatchOn
  <2>1. cur \in OnEntry
    BY <1>9 DEF DispatchOn, TypeOK, Entry, FireEntry, OnEntry, TimerEntry, NoEntry
  <2>2. subs' \in [Events -> SUBSET Handlers]
    BY <1>9, <2>1 DEF DispatchOn, TypeOK, OnEntry
  <2> QED
    BY <1>9, <2>2 DEF DispatchOn, TypeOK, Locations
<1>10. CASE DispatchSetTimer
  <2> DEFINE t == Advanced(cur.timer)
             set == IF Due(t) THEN [t EXCEPT !.last = now] ELSE t
  <2>1. cur.timer \in Timer
    BY <1>10 DEF DispatchSetTimer, TypeOK, Entry, FireEntry, OnEntry, TimerEntry, NoEntry
  <2>2. t \in Timer
    BY <2>1, AdvancedType
  <2>3. set \in Timer /\ set.event = t.event /\ t.event \in Events
    BY <2>2 DEF Timer, TypeOK
  <2>4. TimerFires(t) \in Entry
    BY <2>2, TimerFiresType
  <2> HIDE DEF t
  <2>5. queue' \in Seq(Entry)
    BY <1>10, <2>4 DEF DispatchSetTimer, TypeOK, t
  <2>6. timers' = [e \in DOMAIN timers \union {t.event} |->
                     IF e = t.event THEN set ELSE timers[e]]
    BY <1>10 DEF DispatchSetTimer, t
  <2> HIDE DEF set
  <2>7. /\ DOMAIN timers' = DOMAIN timers \union {t.event}
        /\ DOMAIN timers' \subseteq Events
        /\ \A e \in DOMAIN timers' : timers'[e] \in Timer /\ timers'[e].event = e
        /\ timers' = [e \in DOMAIN timers' |-> timers'[e]]
    BY <2>3, <2>6 DEF TypeOK
  <2>8. visit' \subseteq DOMAIN timers'
    BY <1>10, <2>7 DEF DispatchSetTimer, TypeOK
  <2> QED
    BY <1>10, <2>5, <2>7, <2>8 DEF DispatchSetTimer, TypeOK, Locations
<1>11. CASE DispatchFire
  <2> DEFINE next == NextFireTime(timers[cur.event].interval, timers[cur.event].last, now)
  <2>1. CASE cur.event \in DOMAIN timers
    <3>1. timers[cur.event] \in Timer
      BY <2>1 DEF TypeOK
    <3>2. next \in Int
      BY <3>1, NextFireTimeType DEF Timer, TypeOK
    <3> HIDE DEF next
    <3>3. timers' = [timers EXCEPT ![cur.event].next = next]
      BY <1>11, <2>1 DEF DispatchFire, Reschedule, next
    <3>4. /\ DOMAIN timers' = DOMAIN timers
          /\ timers' = [e \in DOMAIN timers' |-> timers'[e]]
          /\ \A e \in DOMAIN timers : e # cur.event => timers'[e] = timers[e]
          /\ timers'[cur.event] = [timers[cur.event] EXCEPT !.next = next]
      BY <2>1, <3>3 DEF TypeOK
    <3>5. \A e \in DOMAIN timers : timers'[e] \in Timer /\ timers'[e].event = e
      <4>1. timers'[cur.event] \in Timer /\ timers'[cur.event].event = cur.event
        <5>1. timers[cur.event].event = cur.event
          BY <2>1 DEF TypeOK
        <5>2. [timers[cur.event] EXCEPT !.next = next] \in Timer
          BY <3>1, <3>2 DEF Timer
        <5>3. [timers[cur.event] EXCEPT !.next = next].event = cur.event
          BY <3>1, <5>1 DEF Timer
        <5> QED
          BY <3>4, <5>2, <5>3
      <4>2. \A e \in DOMAIN timers : timers[e] \in Timer /\ timers[e].event = e
        BY DEF TypeOK
      <4> QED
        BY <4>1, <4>2, <3>4
    <3> QED
      BY <1>11, <3>4, <3>5 DEF DispatchFire, TypeOK, Locations
  <2>2. CASE cur.event \notin DOMAIN timers
    BY <1>11, <2>2 DEF DispatchFire, Reschedule, TypeOK, Locations
  <2> QED
    BY <2>1, <2>2
<1>12. CASE DispatchForce
  BY <1>12 DEF DispatchForce, TypeOK, Locations
<1>13. CASE Tick
  BY <1>13, BoundsAssumption DEF Tick, TypeOK
<1>14. CASE UNCHANGED vars
  BY <1>14 DEF vars, TypeOK
<1> QED
  BY <1>1, <1>2, <1>3, <1>4, <1>5, <1>6, <1>7, <1>8, <1>9, <1>10, <1>11,
     <1>12, <1>13, <1>14 DEF Next, LoopNext

\* Every variable of the loop keeps its type in every behaviour.
THEOREM TypeCorrect == Spec => []TypeOK
BY TypeOKInit, TypeOKNext, PTL DEF Spec

-----------------------------------------------------------------------------
(* Sleeping and waking *)

\* Both wake-up invariants are inductive once the types are known: an append
\* or a stop leaves its caller "waking", a written byte stays in the pipe until
\* wait_to_run takes it, and wait_to_run leaves the locations they speak of.
WakeInv == NoLostWakeup /\ StopNotMissed

LEMMA WakeInvCaller ==
  ASSUME TypeOK, WakeInv, NEW c \in Callers, CallerNext(c)
  PROVE  WakeInv'
<1>1. ASSUME NEW entry, Append1(c, entry) PROVE WakeInv'
  <2>1. call'[c] = "waking"
    BY <1>1 DEF Append1, NeedsWakeup, TypeOK
  <2> QED
    BY <2>1 DEF WakeInv, NoLostWakeup, StopNotMissed, Waking
<1>2. CASE Stop(c)
  <2>1. call'[c] = "waking"
    BY <1>2 DEF Stop, NeedsWakeup, TypeOK
  <2> QED
    BY <2>1 DEF WakeInv, NoLostWakeup, StopNotMissed, Waking
<1>3. CASE Wakeup(c)
  <2>1. pipe' > 0
    BY <1>3, PipeSizeAssumption DEF Wakeup, TypeOK
  <2> QED
    BY <2>1 DEF WakeInv, NoLostWakeup, StopNotMissed
<1> QED
  BY <1>1, <1>2, <1>3 DEF CallerNext, Fire, On, SetTimerCall

LEMMA WakeInvNext == TypeOK /\ WakeInv /\ [Next]_vars => WakeInv'
<1> SUFFICES ASSUME TypeOK, WakeInv, [Next]_vars PROVE WakeInv'
  OBVIOUS
<1> USE DEF WakeInv, NoLostWakeup, StopNotMissed, Waking
<1>1. ASSUME NEW c \in Callers, CallerNext(c) PROVE WakeInv'
  BY <1>1, WakeInvCaller
<1>2. CASE ForeignWakeup
  <2>1. pipe' > 0
    BY <1>2, PipeSizeAssumption DEF ForeignWakeup, TypeOK
  <2> QED
    BY <2>1
<1>3. CASE TestStopped
  BY <1>3 DEF TestStopped
<1>4. CASE WaitToRun
  BY <1>4 DEF WaitToRun
<1>5. ASSUME NEW e \in Events, FireTimer(e) PROVE WakeInv'
  BY <1>5 DEF FireTimer
<1>6. CASE FiredTimers
  BY <1>6 DEF FiredTimers
<1>7. CASE Drained
  BY <1>7 DEF Drained
<1>8. CASE Pop
  BY <1>8 DEF Pop
<1>9. CASE DispatchOn
  BY <1>9 DEF DispatchOn
<1>10. CASE DispatchSetTimer
  BY <1>10 DEF DispatchSetTimer
<1>11. CASE DispatchFire
  BY <1>11 DEF DispatchFire
<1>12. CASE DispatchForce
  BY <1>12 DEF DispatchForce
<1>13. CASE Tick
  BY <1>13 DEF Tick
<1>14. CASE UNCHANGED vars
  BY <1>14 DEF vars
<1> QED
  BY <1>1, <1>2, <1>3, <1>4, <1>5, <1>6, <1>7, <1>8, <1>9, <1>10, <1>11,
     <1>12, <1>13, <1>14 DEF Next, LoopNext

LEMMA WakeInvariant == Spec => []WakeInv
<1>1. Init => WakeInv
  BY DEF Init, WakeInv, NoLostWakeup, StopNotMissed
<1> QED
  BY <1>1, WakeInvNext, TypeCorrect, PTL DEF Spec

\* Whatever callers do, the loop never sleeps over an entry it should dispatch.
THEOREM NoLostWakeupHolds == Spec => []NoLostWakeup
<1>1. WakeInv => NoLostWakeup
  BY DEF WakeInv
<1> QED
  BY <1>1, WakeInvariant, PTL

\* Whatever callers do, the loop never sleeps over a stop.
THEOREM StopNotMissedHolds == Spec => []StopNotMissed
<1>1. WakeInv => StopNotMissed
  BY DEF WakeInv
<1> QED
  BY <1>1, WakeInvariant, PTL

-----------------------------------------------------------------------------
(* A subscription made before an event is in force when it is dispatched *)

IsFire(entry) == entry.what \in {"fire", "timer"}
Subscribes(entry, e, h) ==
  entry.what = "on" /\ entry.event = e /\ entry.handler = h

\* h is subscribed to e, or about to be by the entry being dispatched
InForce(e, h) == h \in subs[e] \/ Subscribes(cur, e, h)

\* or an `on' among the first n entries of the queue will subscribe it
InForceAfter(e, h, n) ==
  InForce(e, h) \/ \E j \in 1..n : Subscribes(queue[j], e, h)

\* The strengthening: all that asked records is in force or queued, and what a
\* queued event needs is in force or queued ahead of it.
AskedQueued ==
  \A e \in Events : \A h \in asked[e] : InForceAfter(e, h, Len(queue))
NeedQueuedAhead ==
  \A i \in 1..Len(queue) :
    IsFire(queue[i]) =>
      \A h \in queue[i].need : InForceAfter(queue[i].event, h, i - 1)
CurInv ==
  /\ pc # "dispatch" => cur = NoEntry
  /\ IsFire(cur) => cur.need \subseteq subs[cur.event]
SubscriptionInv == AskedQueued /\ NeedQueuedAhead /\ CurInv

LEMMA AppendFacts ==
  ASSUME TypeOK, NEW x, queue' = Append(queue, x),
         \A e, h : InForce(e, h) => InForce(e, h)'
  PROVE  /\ Len(queue') = Len(queue) + 1
         /\ Len(queue) \in Nat
         /\ queue'[Len(queue) + 1] = x
         /\ \A i \in 1..Len(queue) : queue'[i] = queue[i]
         /\ \A e, h : \A n \in 0..Len(queue) :
              InForceAfter(e, h, n) => InForceAfter(e, h, n)'
         /\ \A e, h : InForceAfter(e, h, Len(queue)) => InForceAfter(e, h, Len(queue))'
<1>1. queue \in Seq(Entry)
  BY DEF TypeOK
<1>2. /\ Len(queue') = Len(queue) + 1
      /\ Len(queue) \in Nat
      /\ queue'[Len(queue) + 1] = x
      /\ \A i \in 1..Len(queue) : queue'[i] = queue[i]
  BY <1>1
<1>3. ASSUME NEW e, NEW h, NEW n \in 0..Len(queue), InForceAfter(e, h, n)
      PROVE  InForceAfter(e, h, n)'
  <2>1. CASE InForce(e, h)
    BY <2>1 DEF InForceAfter
  <2>2. CASE \E j \in 1..n : Subscribes(queue[j], e, h)
    <3>1. PICK j \in 1..n : Subscribes(queue[j], e, h)
      BY <2>2
    <3>2. queue'[j] = queue[j]
      BY <1>2
    <3> QED
      BY <3>1, <3>2 DEF InForceAfter, Subscribes
  <2> QED
    BY <1>3, <2>1, <2>2 DEF InForceAfter
<1>4. ASSUME NEW e, NEW h, InForceAfter(e, h, Len(queue))
      PROVE  InForceAfter(e, h, Len(queue))'
  <2>1. CASE InForce(e, h)
    BY <2>1 DEF InForceAfter
  <2>2. CASE \E j \in 1..Len(queue) : Subscribes(queue[j], e, h)
    <3>1. PICK j \in 1..Len(queue) : Subscribes(queue[j], e, h)
      BY <2>2
    <3>2. queue'[j] = queue[j] /\ j \in 1..Len(queue')
      BY <1>2
    <3> QED
      BY <3>1, <3>2 DEF InForceAfter, Subscribes
  <2> QED
    BY <1>4, <2>1, <2>2 DEF InForceAfter
<1> QED
  BY <1>2, <1>3, <1>4

\* An append keeps the invariant if what the new entry needs, and what asked
\* gains, is in force or on the queue.
LEMMA SubscriptionAppend ==
  ASSUME TypeOK, SubscriptionInv, NEW x, queue' = Append(queue, x),
         \A e, h : InForce(e, h) => InForce(e, h)',
         CurInv',
         IsFire(x) => \A h \in x.need : InForceAfter(x.event, h, Len(queue)),
         \A e \in Events : \A h \in asked'[e] :
           h \in asked[e] \/ Subscribes(x, e, h)
  PROVE  SubscriptionInv'
<1>1. AskedQueued'
  <2> SUFFICES ASSUME NEW e \in Events, NEW h \in asked'[e]
               PROVE  InForceAfter(e, h, Len(queue))'
    BY DEF AskedQueued
  <2>1. CASE h \in asked[e]
    <3>1. InForceAfter(e, h, Len(queue))
      BY <2>1 DEF SubscriptionInv, AskedQueued
    <3> QED
      BY <3>1, AppendFacts
  <2>2. CASE Subscribes(x, e, h)
    <3>1. Len(queue') \in 1..Len(queue') /\ queue'[Len(queue')] = x
      BY AppendFacts
    <3> QED
      BY <2>2, <3>1 DEF InForceAfter, Subscribes
  <2> QED
    BY <2>1, <2>2
<1>2. NeedQueuedAhead'
  <2> SUFFICES ASSUME NEW i \in 1..Len(queue'), IsFire(queue'[i]),
                      NEW h \in queue'[i].need
               PROVE  InForceAfter(queue[i].event, h, i - 1)'
    BY DEF NeedQueuedAhead, IsFire
  <2>1. CASE i \in 1..Len(queue)
    <3>1. queue'[i] = queue[i] /\ i - 1 \in 0..Len(queue)
      BY <2>1, AppendFacts
    <3>2. IsFire(queue[i]) /\ h \in queue[i].need
      BY <3>1
    <3>3. InForceAfter(queue[i].event, h, i - 1)
      BY <2>1, <3>2 DEF SubscriptionInv, NeedQueuedAhead
    <3>4. PICK ev : ev = queue[i].event
      OBVIOUS
    <3>5. InForceAfter(ev, h, i - 1)'
      BY <3>1, <3>3, <3>4, AppendFacts
    <3> QED
      BY <3>1, <3>4, <3>5 DEF InForceAfter, InForce, Subscribes
  <2>2. CASE i = Len(queue) + 1
    <3>1. queue'[i] = x /\ i - 1 = Len(queue)
      BY <2>2, AppendFacts
    <3>2. InForceAfter(x.event, h, i - 1)
      BY <3>1
    <3> QED
      BY <3>1, <3>2, AppendFacts DEF InForceAfter, InForce, Subscribes
  <2> QED
    BY <2>1, <2>2, AppendFacts
<1> QED
  BY <1>1, <1>2 DEF SubscriptionInv

\* Callers leave cur, subs and the location alone.
LEMMA CurUnchanged ==
  ASSUME SubscriptionInv, cur' = cur, subs' = subs, pc' = pc
  PROVE  CurInv' /\ \A e, h : InForce(e, h) => InForce(e, h)'
BY DEF SubscriptionInv, CurInv, InForce, IsFire, Subscribes

LEMMA SubscriptionCaller ==
  ASSUME TypeOK, SubscriptionInv, NEW c \in Callers, CallerNext(c)
  PROVE  SubscriptionInv'
<1>1. ASSUME NEW e \in Events, Fire(c, e) PROVE SubscriptionInv'
  <2> DEFINE x == [what |-> "fire", event |-> e, need |-> asked[e]]
  <2>1. /\ queue' = Append(queue, x)
        /\ cur' = cur /\ subs' = subs /\ pc' = pc /\ asked' = asked
    BY <1>1 DEF Fire, Append1
  <2>2. \A h \in x.need : InForceAfter(x.event, h, Len(queue))
    BY DEF SubscriptionInv, AskedQueued
  <2> HIDE DEF x
  <2> QED
    BY <2>1, <2>2, CurUnchanged, SubscriptionAppend
<1>2. ASSUME NEW e \in Events, NEW h \in Handlers, On(c, e, h)
      PROVE  SubscriptionInv'
  <2> DEFINE x == [what |-> "on", event |-> e, handler |-> h]
  <2>1. queue' = Append(queue, x) /\ cur' = cur /\ subs' = subs /\ pc' = pc
    BY <1>2 DEF On, Append1
  <2>2. ~IsFire(x)
    BY DEF IsFire
  <2>3. \A ev \in Events : \A k \in asked'[ev] : k \in asked[ev] \/ Subscribes(x, ev, k)
    BY <1>2 DEF On, TypeOK, Subscribes
  <2> HIDE DEF x
  <2> QED
    BY <2>1, <2>2, <2>3, CurUnchanged, SubscriptionAppend
<1>3. ASSUME NEW e \in Events, NEW i \in Intervals, NEW r \in BOOLEAN,
             SetTimerCall(c, e, i, r)
      PROVE  SubscriptionInv'
  <2> DEFINE x == [what |-> "set_timer", timer |-> NewTimer(e, i, r)]
  <2>1. /\ queue' = Append(queue, x)
        /\ cur' = cur /\ subs' = subs /\ pc' = pc /\ asked' = asked
    BY <1>3 DEF SetTimerCall, Append1
  <2>2. ~IsFire(x)
    BY DEF IsFire
  <2> HIDE DEF x
  <2> QED
    BY <2>1, <2>2, CurUnchanged, SubscriptionAppend
<1>4. CASE Stop(c)
  BY <1>4 DEF Stop, SubscriptionInv, AskedQueued, NeedQueuedAhead,
     CurInv, InForceAfter, InForce, Subscribes, IsFire
<1>5. CASE Wakeup(c)
  BY <1>5 DEF Wakeup, SubscriptionInv, AskedQueued, NeedQueuedAhead,
     CurInv, InForceAfter, InForce, Subscribes, IsFire
<1> QED
  BY <1>1, <1>2, <1>3, <1>4, <1>5 DEF CallerNext

\* A timer's own entry needs no more than asked records.
LEMMA SubscriptionTimerFires ==
  ASSUME TypeOK, SubscriptionInv, NEW t \in Timer
  PROVE  \A h \in TimerFires(t).need :
           InForceAfter(TimerFires(t).event, h, Len(queue))
BY DEF SubscriptionInv, AskedQueued, TimerFires, Timer

\* pop: the head's needs are in force, as nothing is queued ahead of it; what
\* stood on the queue is now one place further ahead, or is the entry dispatched.
LEMMA SubscriptionPop ==
  ASSUME TypeOK, SubscriptionInv, Pop
  PROVE  SubscriptionInv'
<1>1. queue \in Seq(Entry) /\ queue # <<>> /\ cur = NoEntry
  BY DEF Pop, TypeOK, SubscriptionInv, CurInv
<1>2. /\ cur' = queue[1] /\ subs' = subs /\ asked' = asked /\ pc' = "dispatch"
      /\ Len(queue) \in Nat \ {0} /\ Len(queue') = Len(queue) - 1
      /\ \A j \in 1..Len(queue') : queue'[j] = queue[j + 1]
  BY <1>1 DEF Pop
<1>3. \A e, h : ~Subscribes(cur, e, h)
  BY <1>1 DEF Subscribes, NoEntry
<1>4. ASSUME NEW e, NEW h, NEW n \in 0..(Len(queue) - 1), InForceAfter(e, h, n + 1)
      PROVE  InForceAfter(e, h, n)'
  <2>1. CASE InForce(e, h)
    BY <1>2, <1>3, <2>1 DEF InForce, InForceAfter
  <2>2. CASE \E j \in 1..(n + 1) : Subscribes(queue[j], e, h)
    <3>1. PICK j \in 1..(n + 1) : Subscribes(queue[j], e, h)
      BY <2>2
    <3>2. CASE j = 1
      BY <1>2, <3>1, <3>2 DEF InForce, InForceAfter, Subscribes
    <3>3. CASE j # 1
      <4>1. j - 1 \in 1..n /\ j - 1 \in 1..Len(queue') /\ (j - 1) + 1 = j
        BY <1>2, <3>1, <3>3
      <4>2. queue'[j - 1] = queue[j]
        BY <1>2, <4>1
      <4> QED
        BY <3>1, <4>1, <4>2 DEF InForceAfter, Subscribes
    <3> QED
      BY <3>2, <3>3
  <2> QED
    BY <1>4, <2>1, <2>2 DEF InForceAfter
<1>5. AskedQueued'
  <2> SUFFICES ASSUME NEW e \in Events, NEW h \in asked'[e]
               PROVE  InForceAfter(e, h, Len(queue))'
    BY DEF AskedQueued
  <2>1. InForceAfter(e, h, Len(queue))
    BY <1>2 DEF SubscriptionInv, AskedQueued
  <2>2. PICK n \in 0..(Len(queue) - 1) : n = Len(queue')
    BY <1>2
  <2>3. InForceAfter(e, h, n + 1)
    BY <1>2, <2>1, <2>2
  <2>4. InForceAfter(e, h, n)'
    BY <1>4, <2>3
  <2> QED
    BY <2>2, <2>4 DEF InForceAfter
<1>6. NeedQueuedAhead'
  <2> SUFFICES ASSUME NEW i \in 1..Len(queue'), IsFire(queue'[i]),
                      NEW h \in queue'[i].need
               PROVE  InForceAfter(queue[i].event, h, i - 1)'
    BY DEF NeedQueuedAhead, IsFire
  <2>1. queue'[i] = queue[i + 1] /\ i + 1 \in 1..Len(queue) /\ (i + 1) - 1 = (i - 1) + 1
    BY <1>2
  <2>2. InForceAfter(queue[i + 1].event, h, (i - 1) + 1)
    BY <2>1 DEF SubscriptionInv, NeedQueuedAhead
  <2>3. PICK ev : ev = queue[i + 1].event
    OBVIOUS
  <2>4. i - 1 \in 0..(Len(queue) - 1)
    BY <1>2
  <2>5. InForceAfter(ev, h, i - 1)'
    BY <1>4, <2>2, <2>3, <2>4
  <2> QED
    BY <2>1, <2>3, <2>5 DEF InForceAfter, InForce, Subscribes
<1>7. (IsFire(cur) => cur.need \subseteq subs[cur.event])'
  <2> SUFFICES ASSUME IsFire(queue[1]), NEW h \in queue[1].need
               PROVE  h \in subs[queue[1].event]
    BY <1>2 DEF IsFire
  <2>1. InForceAfter(queue[1].event, h, 0)
    BY <1>2 DEF SubscriptionInv, NeedQueuedAhead
  <2> QED
    BY <1>3, <2>1 DEF InForceAfter, InForce
<1> QED
  BY <1>2, <1>5, <1>6, <1>7 DEF SubscriptionInv, CurInv

\* The queue and what asked records are unchanged, and nothing in force is lost.
LEMMA SubscriptionSameQueue ==
  ASSUME SubscriptionInv, queue' = queue, asked' = asked, CurInv',
         \A e \in Events : \A h : InForce(e, h) => InForce(e, h)',
         TypeOK
  PROVE  SubscriptionInv'
<1>1. AskedQueued'
  BY DEF SubscriptionInv, AskedQueued, InForceAfter, Subscribes
<1>2. NeedQueuedAhead'
  <2> SUFFICES ASSUME NEW i \in 1..Len(queue), IsFire(queue[i]),
                      NEW h \in queue[i].need
               PROVE  InForceAfter(queue[i].event, h, i - 1)'
    BY DEF NeedQueuedAhead, IsFire
  <2>1. queue[i].event \in Events
    BY DEF TypeOK, Entry, FireEntry, OnEntry, TimerEntry, IsFire
  <2>2. InForceAfter(queue[i].event, h, i - 1)
    BY DEF SubscriptionInv, NeedQueuedAhead
  <2>3. PICK ev \in Events : ev = queue[i].event
    BY <2>1
  <2>4. InForceAfter(ev, h, i - 1)'
    BY <2>2, <2>3 DEF InForceAfter, Subscribes
  <2> QED
    BY <2>3, <2>4 DEF InForceAfter, InForce, Subscribes
<1> QED
  BY <1>1, <1>2 DEF SubscriptionInv

LEMMA SubscriptionNext == TypeOK /\ SubscriptionInv /\ [Next]_vars => SubscriptionInv'
<1> SUFFICES ASSUME TypeOK, SubscriptionInv, [Next]_vars PROVE SubscriptionInv'
  OBVIOUS
<1>1. ASSUME NEW c \in Callers, CallerNext(c) PROVE SubscriptionInv'
  BY <1>1, SubscriptionCaller
<1>2. ASSUME queue' = queue, cur' = cur, subs' = subs, asked' = asked,
             pc # "dispatch", pc' # "dispatch"
      PROVE  SubscriptionInv'
  <2>1. CurInv' /\ \A e, h : InForce(e, h) => InForce(e, h)'
    BY <1>2 DEF SubscriptionInv, CurInv, InForce, IsFire, Subscribes
  <2> QED
    BY <1>2, <2>1, SubscriptionSameQueue
<1>3. CASE TestStopped \/ WaitToRun \/ FiredTimers \/ Drained
  BY <1>2, <1>3 DEF TestStopped, WaitToRun, FiredTimers, Drained
<1>4. ASSUME NEW e \in Events, FireTimer(e) PROVE SubscriptionInv'
  <2>1. cur' = cur /\ subs' = subs /\ pc' = pc /\ asked' = asked /\ pc # "dispatch"
    BY <1>4 DEF FireTimer
  <2>2. timers[e] \in Timer
    BY <1>4 DEF FireTimer, TypeOK
  <2>3. CASE queue' = Append(queue, TimerFires(timers[e]))
    <3>1. \A h \in TimerFires(timers[e]).need :
            InForceAfter(TimerFires(timers[e]).event, h, Len(queue))
      BY <2>2, SubscriptionTimerFires
    <3> DEFINE x == TimerFires(timers[e])
    <3>2. queue' = Append(queue, x)
      BY <2>3
    <3> HIDE DEF x
    <3>3. \A h \in x.need : InForceAfter(x.event, h, Len(queue))
      BY <3>1 DEF x
    <3> QED
      BY <2>1, <3>2, <3>3, CurUnchanged, SubscriptionAppend
  <2>4. CASE queue' = queue
    BY <1>2, <2>1, <2>4
  <2> QED
    BY <1>4, <2>3, <2>4 DEF FireTimer
<1>5. CASE Pop
  BY <1>5, SubscriptionPop
<1>6. CASE DispatchOn
  <2>1. cur \in OnEntry
    BY <1>6 DEF DispatchOn, TypeOK, Entry, FireEntry, OnEntry, TimerEntry, NoEntry
  <2>2. \A e \in Events : \A h : InForce(e, h) => InForce(e, h)'
    BY <1>6, <2>1 DEF DispatchOn, InForce, Subscribes, TypeOK, OnEntry
  <2>3. CurInv'
    BY <1>6 DEF DispatchOn, CurInv, NoEntry, IsFire
  <2> QED
    BY <1>6, <2>2, <2>3, SubscriptionSameQueue DEF DispatchOn
<1>7. ASSUME cur.what # "on", subs' = subs, cur' = NoEntry, asked' = asked
      PROVE  CurInv' /\ \A e, h : InForce(e, h) => InForce(e, h)'
  BY <1>7 DEF CurInv, InForce, Subscribes, NoEntry, IsFire
<1>8. CASE DispatchSetTimer
  <2> DEFINE x == TimerFires(Advanced(cur.timer))
  <2>1. cur.what # "on" /\ subs' = subs /\ cur' = NoEntry /\ asked' = asked
    BY <1>8 DEF DispatchSetTimer
  <2>2. cur.timer \in Timer
    BY <1>8 DEF DispatchSetTimer, TypeOK, Entry, FireEntry, OnEntry, TimerEntry, NoEntry
  <2>3. Advanced(cur.timer) \in Timer
    BY <2>2, AdvancedType
  <2>4. \A h \in x.need : InForceAfter(x.event, h, Len(queue))
    BY <2>3, SubscriptionTimerFires
  <2>5. queue' = Append(queue, x) \/ queue' = queue
    BY <1>8 DEF DispatchSetTimer
  <2> HIDE DEF x
  <2>6. CASE queue' = Append(queue, x)
    BY <1>7, <2>1, <2>4, <2>6, SubscriptionAppend
  <2>7. CASE queue' = queue
    BY <1>7, <2>1, <2>7, SubscriptionSameQueue
  <2> QED
    BY <2>5, <2>6, <2>7
<1>9. CASE DispatchFire \/ DispatchForce
  <2>1. /\ cur.what # "on" /\ subs' = subs /\ cur' = NoEntry /\ asked' = asked
        /\ queue' = queue
    BY <1>9 DEF DispatchFire, DispatchForce
  <2> QED
    BY <1>7, <2>1, SubscriptionSameQueue
<1>10. CASE ForeignWakeup \/ Tick \/ UNCHANGED vars
  <2>1. cur' = cur /\ subs' = subs /\ pc' = pc /\ asked' = asked /\ queue' = queue
    BY <1>10 DEF ForeignWakeup, Tick, vars
  <2> QED
    BY <2>1, CurUnchanged, SubscriptionSameQueue
<1> QED
  BY <1>1, <1>3, <1>4, <1>5, <1>6, <1>8, <1>9, <1>10 DEF Next, LoopNext

\* A subscription made before an event is in force when the event is dispatched.
THEOREM SubscribedBeforeFireHolds == Spec => []SubscribedBeforeFire
<1>1. Init => SubscriptionInv
  BY DEF Init, SubscriptionInv, AskedQueued, NeedQueuedAhead, CurInv, IsFire, NoEntry
<1>2. SubscriptionInv => SubscribedBeforeFire
  BY DEF SubscriptionInv, CurInv, SubscribedBeforeFire, IsFire
<1> QED
  BY <1>1, <1>2, SubscriptionNext, TypeCorrect, PTL DEF Spec

-----------------------------------------------------------------------------
(* Two firings of a timer are an interval apart *)

Spaced(e) ==
  timers[e].last # Never => timers[e].next >= timers[e].last + timers[e].interval

Fires(entry, e) == IsFire(entry) /\ entry.event = e

\* A firing of e is on the queue or being dispatched; dispatching it will
\* reschedule the timer
ToDispatch(e) ==
  \/ \E i \in 1..Len(queue) : Fires(queue[i], e)
  \/ pc = "dispatch" /\ Fires(cur, e)

\* A timer that is on its way to the loop has not fired
Unfired(entry) == entry.what = "set_timer" => entry.timer.last = Never

\* The strengthening: a timer whose next firing is too close to its last has a
\* dispatch ahead that moves it, and none is left when the next walk begins;
\* the timers of a walk are those that prune_timers left.
LastPast == \A e \in DOMAIN timers : timers[e].last <= now
QueuedUnfired == Unfired(cur) /\ \A i \in 1..Len(queue) : Unfired(queue[i])
SpacedOrPending ==
  pc # "raised" => \A e \in DOMAIN timers : Spaced(e) \/ ToDispatch(e)
SpacedAtRest ==
  pc \in {"test", "select", "returned"} => \A e \in DOMAIN timers : Spaced(e)
WalkSpaced ==
  pc = "fire_timers" => \A e \in visit : Spaced(e) /\ ~Finished(timers[e])
Spacing == LastPast /\ QueuedUnfired /\ SpacedOrPending /\ SpacedAtRest /\ WalkSpaced

\* calculate_next_fire_time, for a timer that has fired, is at least an
\* interval after that.
LEMMA NextFireTimeSpaced ==
  ASSUME NEW i \in Nat, NEW last \in Nat, NEW n \in Nat, last <= n
  PROVE  NextFireTime(i, last, n) >= last + i
<1>1. NextFireTime(i, last, n) = IF i = 0 THEN n ELSE last + i * ((n - last) \div i + 1)
  BY DEF NextFireTime, Never
<1>2. CASE i = 0
  BY <1>1, <1>2
<1>3. CASE i # 0
  <2> DEFINE q == (n - last) \div i
  <2>1. q \in Nat
    BY <1>3
  <2> HIDE DEF q
  <2>2. i * (q + 1) >= i
    <3>1. i * (q + 1) = i * q + i
      BY <2>1
    <3>2. i * q \in Nat
      BY <2>1
    <3> QED
      BY <3>1, <3>2
  <2>3. i * (q + 1) \in Int
    BY <2>1
  <2>4. NextFireTime(i, last, n) = last + i * (q + 1)
    BY <1>1, <1>3 DEF q
  <2> QED
    BY <2>2, <2>3, <2>4
<1> QED
  BY <1>2, <1>3

\* Appending leaves what was to be dispatched there.
LEMMA AppendToDispatch ==
  ASSUME TypeOK, NEW x, queue' = Append(queue, x), pc' = pc, cur' = cur
  PROVE  /\ \A e : ToDispatch(e) => ToDispatch(e)'
         /\ \A e : Fires(x, e) => ToDispatch(e)'
         /\ Unfired(x) /\ QueuedUnfired => QueuedUnfired'
<1>1. /\ Len(queue') = Len(queue) + 1 /\ Len(queue) \in Nat
      /\ queue'[Len(queue) + 1] = x
      /\ \A i \in 1..Len(queue) : queue'[i] = queue[i]
  BY DEF TypeOK
<1>2. ASSUME NEW e, ToDispatch(e) PROVE ToDispatch(e)'
  <2>1. CASE pc = "dispatch" /\ Fires(cur, e)
    BY <2>1 DEF ToDispatch, Fires, IsFire
  <2>2. CASE \E i \in 1..Len(queue) : Fires(queue[i], e)
    <3>1. PICK i \in 1..Len(queue) : Fires(queue[i], e)
      BY <2>2
    <3>2. i \in 1..Len(queue') /\ queue'[i] = queue[i]
      BY <1>1
    <3> QED
      BY <3>1, <3>2 DEF ToDispatch, Fires, IsFire
  <2> QED
    BY <1>2, <2>1, <2>2 DEF ToDispatch
<1>3. ASSUME NEW e, Fires(x, e) PROVE ToDispatch(e)'
  <2>1. Len(queue') \in 1..Len(queue') /\ queue'[Len(queue')] = x
    BY <1>1
  <2> QED
    BY <1>3, <2>1 DEF ToDispatch, Fires, IsFire
<1>4. ASSUME Unfired(x), QueuedUnfired PROVE QueuedUnfired'
  BY <1>1, <1>4 DEF QueuedUnfired, Unfired
<1> QED
  BY <1>2, <1>3, <1>4

\* An append that touches nothing else keeps the spacing.
LEMMA AppendSpacing ==
  ASSUME TypeOK, Spacing, NEW x, Unfired(x), queue' = Append(queue, x),
         timers' = timers, pc' = pc, cur' = cur, visit' = visit, now' = now
  PROVE  Spacing'
<1>1. LastPast' /\ SpacedAtRest' /\ WalkSpaced'
  BY DEF Spacing, LastPast, SpacedAtRest, WalkSpaced, Spaced, Finished
<1>2. QueuedUnfired' /\ \A e : ToDispatch(e) => ToDispatch(e)'
  BY AppendToDispatch DEF Spacing
<1>3. SpacedOrPending'
  BY <1>2 DEF Spacing, SpacedOrPending, Spaced
<1> QED
  BY <1>1, <1>2, <1>3 DEF Spacing

\* So does a step that changes none of these, but for the clock.
LEMMA IdleSpacing ==
  ASSUME TypeOK, Spacing, now <= now', now' \in Nat, queue' = queue,
         timers' = timers, pc' = pc, cur' = cur, visit' = visit
  PROVE  Spacing'
<1>1. \A e \in DOMAIN timers : timers[e].last \in Int
  BY BoundsAssumption DEF TypeOK, Timer, Never
<1>2. LastPast'
  BY <1>1, BoundsAssumption DEF Spacing, LastPast, TypeOK
<1> QED
  BY <1>2 DEF Spacing, QueuedUnfired, SpacedOrPending, SpacedAtRest, WalkSpaced, Spaced,
              Finished, Unfired, ToDispatch, Fires, IsFire

LEMMA CallerSpacing ==
  ASSUME TypeOK, Spacing, NEW c \in Callers, CallerNext(c)
  PROVE  Spacing'
<1>1. ASSUME NEW x, Append1(c, x), Unfired(x) PROVE Spacing'
  BY <1>1, AppendSpacing DEF Append1
<1>2. ASSUME NEW e \in Events, Fire(c, e) PROVE Spacing'
  <2>1. Unfired([what |-> "fire", event |-> e, need |-> asked[e]])
    BY DEF Unfired
  <2> QED
    BY <1>1, <1>2, <2>1 DEF Fire
<1>3. ASSUME NEW e \in Events, NEW h \in Handlers, On(c, e, h) PROVE Spacing'
  <2>1. Unfired([what |-> "on", event |-> e, handler |-> h])
    BY DEF Unfired
  <2> QED
    BY <1>1, <1>3, <2>1 DEF On
<1>4. ASSUME NEW e \in Events, NEW i \in Intervals, NEW r \in BOOLEAN,
             SetTimerCall(c, e, i, r)
      PROVE  Spacing'
  <2>1. Unfired([what |-> "set_timer", timer |-> NewTimer(e, i, r)])
    BY DEF Unfired, NewTimer
  <2> QED
    BY <1>1, <1>4, <2>1 DEF SetTimerCall
<1>5. CASE Stop(c) \/ Wakeup(c)
  BY <1>5, IdleSpacing, BoundsAssumption DEF Stop, Wakeup, TypeOK
<1> QED
  BY <1>2, <1>3, <1>4, <1>5 DEF CallerNext

\* fire_timers: a timer that fires leaves its firing on the queue.
LEMMA FireTimerSpacing ==
  ASSUME TypeOK, Spacing, NEW e \in Events, FireTimer(e)
  PROVE  Spacing'
<1>1. /\ e \in DOMAIN timers /\ timers[e] \in Timer /\ timers[e].event = e
      /\ pc = "fire_timers" /\ pc' = pc /\ cur' = cur /\ now' = now
      /\ visit' = visit \ {e}
  BY DEF FireTimer, TypeOK
<1>2. CASE ~Due(timers[e])
  <2>1. queue' = queue /\ timers' = timers
    BY <1>2 DEF FireTimer
  <2> QED
    BY <1>1, <2>1 DEF Spacing, LastPast, QueuedUnfired, SpacedOrPending, SpacedAtRest,
                      WalkSpaced, Spaced, Finished, Unfired, ToDispatch, Fires, IsFire
<1>3. CASE Due(timers[e])
  <2> DEFINE x == TimerFires(timers[e])
  <2>1. queue' = Append(queue, x) /\ timers' = [timers EXCEPT ![e].last = now]
    BY <1>3 DEF FireTimer
  <2>2. Unfired(x) /\ Fires(x, e)
    BY <1>1 DEF Unfired, Fires, IsFire, TimerFires
  <2> HIDE DEF x
  <2>3. /\ QueuedUnfired'
        /\ ToDispatch(e)'
        /\ \A d : ToDispatch(d) => ToDispatch(d)'
    BY <1>1, <2>1, <2>2, AppendToDispatch DEF Spacing
  <2>4. /\ DOMAIN timers' = DOMAIN timers
        /\ \A d \in DOMAIN timers : d # e => timers'[d] = timers[d]
        /\ timers'[e].last = now
    BY <1>1, <2>1 DEF TypeOK, Timer
  <2>5. LastPast'
    BY <1>1, <2>4, BoundsAssumption DEF Spacing, LastPast, TypeOK
  <2>6. SpacedOrPending'
    <3> SUFFICES ASSUME NEW d \in DOMAIN timers
                 PROVE  Spaced(d)' \/ ToDispatch(d)'
      BY <2>4 DEF SpacedOrPending
    <3>1. CASE d = e
      BY <2>3, <3>1
    <3>2. CASE d # e
      <4>1. Spaced(d) \/ ToDispatch(d)
        BY <1>1 DEF Spacing, SpacedOrPending
      <4>2. Spaced(d) => Spaced(d)'
        BY <2>4, <3>2 DEF Spaced
      <4> QED
        BY <2>3, <4>1, <4>2
    <3> QED
      BY <3>1, <3>2
  <2>7. WalkSpaced'
    <3> SUFFICES ASSUME NEW d \in visit \ {e}
                 PROVE  Spaced(d)' /\ ~Finished(timers'[d])
      BY <1>1 DEF WalkSpaced, Finished
    <3>1. d \in DOMAIN timers /\ d # e /\ timers'[d] = timers[d]
      BY <2>4 DEF TypeOK
    <3>2. Spaced(d) /\ ~Finished(timers[d])
      BY <1>1 DEF Spacing, WalkSpaced
    <3> QED
      BY <3>1, <3>2 DEF Spaced
  <2>8. SpacedAtRest'
    BY <1>1 DEF SpacedAtRest
  <2> QED
    BY <2>3, <2>5, <2>6, <2>7, <2>8 DEF Spacing
<1> QED
  BY <1>2, <1>3

\* set_timer: the new timer has not fired, unless its firing is on the queue.
LEMMA SetTimerSpacing ==
  ASSUME TypeOK, Spacing, DispatchSetTimer
  PROVE  Spacing'
<1> DEFINE t == Advanced(cur.timer)
           set == IF Due(t) THEN [t EXCEPT !.last = now] ELSE t
           x == TimerFires(t)
<1>1. cur.timer \in Timer /\ cur.timer.last = Never
  BY DEF DispatchSetTimer, TypeOK, Entry, FireEntry, OnEntry, TimerEntry, NoEntry, Spacing,
         QueuedUnfired, Unfired
<1>2. t \in Timer /\ t.last = Never
  <2>1. t.last = cur.timer.last
    BY <1>1 DEF Advanced, Timer
  <2> QED
    BY <1>1, <2>1, AdvancedType
<1>3. Unfired(x) /\ Fires(x, t.event)
  BY DEF Unfired, Fires, IsFire, TimerFires
<1>4. set.last = IF Due(t) THEN now ELSE Never
  BY <1>2 DEF Timer
<1> HIDE DEF t
<1>5. /\ queue' = IF Due(t) THEN Append(queue, x) ELSE queue
      /\ timers' = [e \in DOMAIN timers \union {t.event} |->
                      IF e = t.event THEN set ELSE timers[e]]
      /\ cur' = NoEntry /\ pc = "dispatch" /\ pc' = "drain"
      /\ cur.what = "set_timer" /\ visit' = visit /\ now' = now
  BY DEF DispatchSetTimer, t
<1> HIDE DEF x, set
<1>6. /\ DOMAIN timers' = DOMAIN timers \union {t.event}
      /\ timers'[t.event] = set
      /\ \A e \in DOMAIN timers : e # t.event => timers'[e] = timers[e]
  BY <1>5
<1>7. /\ queue \in Seq(Entry) /\ Len(queue) \in Nat
      /\ \A i \in 1..Len(queue) : i \in 1..Len(queue') /\ queue'[i] = queue[i]
      /\ \A i \in 1..Len(queue') : queue'[i] = x \/ i \in 1..Len(queue)
      /\ Due(t) => Len(queue') \in 1..Len(queue') /\ queue'[Len(queue')] = x
  BY <1>5 DEF TypeOK
<1>8. QueuedUnfired'
  BY <1>3, <1>5, <1>7 DEF Spacing, QueuedUnfired, Unfired, NoEntry
<1>9. LastPast'
  <2>1. now \in Nat /\ Never <= now
    BY BoundsAssumption DEF TypeOK, Never
  <2> QED
    BY <1>4, <1>5, <1>6, <2>1 DEF Spacing, LastPast
<1>10. SpacedOrPending'
  <2> SUFFICES ASSUME NEW e \in DOMAIN timers' PROVE Spaced(e)' \/ ToDispatch(e)'
    BY DEF SpacedOrPending
  <2>1. CASE e = t.event
    <3>1. CASE Due(t)
      BY <1>3, <1>7, <2>1, <3>1 DEF ToDispatch, Fires, IsFire
    <3>2. CASE ~Due(t)
      BY <1>4, <1>6, <2>1, <3>2 DEF Spaced
    <3> QED
      BY <3>1, <3>2
  <2>2. CASE e # t.event
    <3>1. e \in DOMAIN timers /\ timers'[e] = timers[e]
      BY <1>6, <2>2
    <3>2. Spaced(e) \/ ToDispatch(e)
      BY <1>5, <3>1 DEF Spacing, SpacedOrPending
    <3>3. CASE Spaced(e)
      BY <3>1, <3>3 DEF Spaced
    <3>4. CASE ToDispatch(e)
      <4>1. PICK i \in 1..Len(queue) : Fires(queue[i], e)
        BY <1>5, <3>4 DEF ToDispatch, Fires, IsFire
      <4>2. i \in 1..Len(queue') /\ queue'[i] = queue[i]
        BY <1>7
      <4> QED
        BY <4>1, <4>2 DEF ToDispatch, Fires, IsFire
    <3> QED
      BY <3>2, <3>3, <3>4
  <2> QED
    BY <2>1, <2>2
<1>11. SpacedAtRest' /\ WalkSpaced'
  BY <1>5 DEF SpacedAtRest, WalkSpaced
<1> QED
  BY <1>8, <1>9, <1>10, <1>11 DEF Spacing

\* dispatch_event: the timer of the event is spaced again.
LEMMA DispatchFireSpacing ==
  ASSUME TypeOK, Spacing, DispatchFire
  PROVE  Spacing'
<1>1. /\ queue' = queue /\ cur' = NoEntry /\ pc = "dispatch" /\ pc' = "drain"
      /\ visit' = visit /\ now' = now /\ IsFire(cur) /\ Reschedule(cur.event)
  BY DEF DispatchFire, IsFire
<1> PICK d : d = cur.event
  OBVIOUS
<1> DEFINE next == NextFireTime(timers[d].interval, timers[d].last, now)
<1>2. DOMAIN timers' = DOMAIN timers
  BY <1>1 DEF Reschedule
<1>3. ASSUME NEW e \in DOMAIN timers
      PROVE  /\ timers'[e].last = timers[e].last
             /\ timers'[e].interval = timers[e].interval
             /\ timers'[e].next = IF e = d THEN next ELSE timers[e].next
  <2>1. timers[e] \in Timer
    BY <1>3 DEF TypeOK
  <2>2. CASE e = d
    <3>1. timers'[e] = [timers[e] EXCEPT !.next = next]
      BY <1>1, <1>3, <2>2 DEF Reschedule
    <3> HIDE DEF next
    <3> QED
      BY <2>1, <2>2, <3>1 DEF Timer
  <2>3. CASE e # d
    <3>1. timers'[e] = timers[e]
      BY <1>1, <1>3, <2>3 DEF Reschedule
    <3> QED
      BY <2>3, <3>1
  <2> QED
    BY <2>2, <2>3
<1>4. d \in DOMAIN timers => Spaced(d)'
  <2> SUFFICES ASSUME d \in DOMAIN timers, timers[d].last # Never
               PROVE  next >= timers[d].last + timers[d].interval
    BY <1>3 DEF Spaced
  <2>1. /\ timers[d].interval \in Nat /\ timers[d].last \in Nat /\ now \in Nat
        /\ timers[d].last <= now
    BY IntervalsAssumption, BoundsAssumption DEF TypeOK, Timer, Spacing, LastPast
  <2> QED
    BY <2>1, NextFireTimeSpaced
<1>5. SpacedOrPending'
  <2> SUFFICES ASSUME NEW e \in DOMAIN timers, e # d PROVE Spaced(e)' \/ ToDispatch(e)'
    BY <1>2, <1>4 DEF SpacedOrPending
  <2>1. Spaced(e) \/ ToDispatch(e)
    BY <1>1 DEF Spacing, SpacedOrPending
  <2>2. Spaced(e) => Spaced(e)'
    BY <1>3 DEF Spaced
  <2>3. ToDispatch(e) => ToDispatch(e)'
    BY <1>1 DEF ToDispatch, Fires, IsFire
  <2> QED
    BY <2>1, <2>2, <2>3
<1>6. LastPast' /\ QueuedUnfired'
  BY <1>1, <1>2, <1>3 DEF Spacing, LastPast, QueuedUnfired, Unfired, NoEntry
<1>7. SpacedAtRest' /\ WalkSpaced'
  BY <1>1 DEF SpacedAtRest, WalkSpaced
<1> QED
  BY <1>5, <1>6, <1>7 DEF Spacing

\* pop: the entry moves from the queue to the dispatch.
LEMMA PopSpacing ==
  ASSUME TypeOK, Spacing, Pop
  PROVE  Spacing'
<1>1. /\ pc = "drain" /\ pc' = "dispatch" /\ cur' = queue[1]
      /\ timers' = timers /\ now' = now
      /\ Len(queue) \in Nat \ {0} /\ Len(queue') = Len(queue) - 1
      /\ \A i \in 1..Len(queue') : queue'[i] = queue[i + 1]
  BY DEF Pop, TypeOK
<1>2. QueuedUnfired'
  BY <1>1 DEF Spacing, QueuedUnfired, Unfired
<1>3. ASSUME NEW e, ToDispatch(e) PROVE ToDispatch(e)'
  <2>1. PICK i \in 1..Len(queue) : Fires(queue[i], e)
    BY <1>1, <1>3 DEF ToDispatch
  <2>2. CASE i = 1
    BY <1>1, <2>1, <2>2 DEF ToDispatch, Fires, IsFire
  <2>3. CASE i # 1
    <3>1. i - 1 \in 1..Len(queue') /\ queue'[i - 1] = queue[i]
      BY <1>1, <2>3
    <3> QED
      BY <2>1, <3>1 DEF ToDispatch, Fires, IsFire
  <2> QED
    BY <2>2, <2>3
<1>4. SpacedOrPending'
  BY <1>1, <1>3 DEF Spacing, SpacedOrPending, Spaced
<1>5. LastPast' /\ SpacedAtRest' /\ WalkSpaced'
  BY <1>1 DEF Spacing, LastPast, SpacedAtRest, WalkSpaced
<1> QED
  BY <1>2, <1>4, <1>5 DEF Spacing

LEMMA SpacingNext == TypeOK /\ Spacing /\ [Next]_vars => Spacing'
<1> SUFFICES ASSUME TypeOK, Spacing, [Next]_vars PROVE Spacing'
  OBVIOUS
<1>1. ASSUME NEW c \in Callers, CallerNext(c) PROVE Spacing'
  BY <1>1, CallerSpacing
<1>2. CASE ForeignWakeup \/ Tick \/ UNCHANGED vars
  BY <1>2, IdleSpacing, BoundsAssumption DEF ForeignWakeup, Tick, vars, TypeOK
<1>3. ASSUME queue' = queue, cur' = cur, timers' = timers, visit' = visit, now' = now,
             pc # "dispatch", pc # "raised"
      PROVE  LastPast' /\ QueuedUnfired' /\ SpacedOrPending'
  BY <1>3 DEF Spacing, LastPast, QueuedUnfired, SpacedOrPending, Spaced, Unfired,
              ToDispatch, Fires, IsFire
<1>4. CASE TestStopped \/ FiredTimers
  <2>1. LastPast' /\ QueuedUnfired' /\ SpacedOrPending'
    BY <1>3, <1>4 DEF TestStopped, FiredTimers
  <2>2. SpacedAtRest' /\ WalkSpaced'
    BY <1>4 DEF TestStopped, FiredTimers, Spacing, SpacedAtRest, WalkSpaced, Spaced
  <2> QED
    BY <2>1, <2>2 DEF Spacing
<1>5. CASE Drained
  <2>1. /\ pc = "drain" /\ pc' = "test" /\ queue = <<>> /\ timers' = timers
        /\ LastPast' /\ QueuedUnfired' /\ SpacedOrPending'
    BY <1>3, <1>5 DEF Drained
  <2>2. \A e \in DOMAIN timers : Spaced(e)
    BY <2>1 DEF Spacing, SpacedOrPending, ToDispatch
  <2> QED
    BY <2>1, <2>2 DEF Spacing, SpacedAtRest, WalkSpaced, Spaced
<1>6. CASE WaitToRun
  <2>1. /\ pc = "select" /\ pc' = "fire_timers"
        /\ queue' = queue /\ cur' = cur /\ now' = now
        /\ DOMAIN timers' \subseteq DOMAIN timers
        /\ \A e \in DOMAIN timers' : timers'[e] = timers[e] /\ ~Finished(timers[e])
        /\ visit' = DOMAIN timers'
    BY <1>6 DEF WaitToRun, Prune
  <2>2. \A e \in DOMAIN timers' : Spaced(e)'
    BY <2>1 DEF Spacing, SpacedAtRest, Spaced
  <2>3. LastPast' /\ QueuedUnfired'
    BY <2>1 DEF Spacing, LastPast, QueuedUnfired, Unfired
  <2>4. WalkSpaced'
    BY <2>1, <2>2 DEF WalkSpaced, Finished
  <2> QED
    BY <2>1, <2>2, <2>3, <2>4 DEF Spacing, SpacedOrPending, SpacedAtRest
<1>7. ASSUME NEW e \in Events, FireTimer(e) PROVE Spacing'
  BY <1>7, FireTimerSpacing
<1>8. CASE Pop
  BY <1>8, PopSpacing
<1>9. CASE DispatchOn
  <2>1. /\ pc = "dispatch" /\ pc' = "drain" /\ cur.what = "on" /\ cur' = NoEntry
        /\ queue' = queue /\ timers' = timers /\ now' = now
    BY <1>9 DEF DispatchOn
  <2> QED
    BY <2>1 DEF Spacing, LastPast, QueuedUnfired, SpacedOrPending, SpacedAtRest, WalkSpaced,
                Spaced, Unfired, ToDispatch, Fires, IsFire, NoEntry
<1>10. CASE DispatchSetTimer
  BY <1>10, SetTimerSpacing
<1>11. CASE DispatchFire
  BY <1>11, DispatchFireSpacing
<1>12. CASE DispatchForce
  <2>1. pc' = "raised" /\ cur' = NoEntry /\ queue' = queue /\ timers' = timers /\ now' = now
    BY <1>12 DEF DispatchForce
  <2> QED
    BY <2>1 DEF Spacing, LastPast, QueuedUnfired, SpacedOrPending, SpacedAtRest, WalkSpaced,
                Unfired, NoEntry
<1> QED
  BY <1>1, <1>2, <1>4, <1>5, <1>6, <1>7, <1>8, <1>9, <1>10, <1>11, <1>12 DEF Next, LoopNext

\* A firing by the walk is that of a timer that was left by prune_timers and
\* spaced when the walk began.
LEMMA FiringsSpaced ==
  ASSUME TypeOK, Spacing, [Next]_vars, NEW e \in Events,
         FiresTimer(e), timers[e].last # Never
  PROVE  timers[e].repeat /\ now >= timers[e].last + timers[e].interval
<1>1. /\ e \in DOMAIN timers /\ timers[e] \in Timer /\ pc = "fire_timers"
      /\ queue' # queue
  BY DEF FiresTimer, TypeOK
<1>2. FireTimer(e)
  <2>1. ASSUME NEW c \in Callers, CallerNext(c) PROVE FALSE
    <3>1. PICK x : queue' = Append(queue, x) /\ x.what \in {"fire", "on", "set_timer"}
      <4> DEFINE Appends == \E x : queue' = Append(queue, x)
                                   /\ x.what \in {"fire", "on", "set_timer"}
      <4>1. ASSUME NEW d \in Events, Fire(c, d) PROVE Appends
        BY <4>1 DEF Fire, Append1
      <4>2. ASSUME NEW d \in Events, NEW h \in Handlers, On(c, d, h) PROVE Appends
        BY <4>2 DEF On, Append1
      <4>3. ASSUME NEW d \in Events, NEW i \in Intervals, NEW r \in BOOLEAN,
                   SetTimerCall(c, d, i, r)
            PROVE  Appends
        <5>1. PICK t : t = NewTimer(d, i, r)
          OBVIOUS
        <5>2. queue' = Append(queue, [what |-> "set_timer", timer |-> t])
          BY <4>3, <5>1 DEF SetTimerCall, Append1
        <5> QED
          BY <5>2
      <4>4. ~(Stop(c) \/ Wakeup(c))
        BY <1>1 DEF Stop, Wakeup
      <4> QED
        BY <2>1, <4>1, <4>2, <4>3, <4>4 DEF CallerNext
    <3>2. queue'[Len(queue')] = x
      BY <3>1 DEF TypeOK
    <3> QED
      BY <3>1, <3>2 DEF FiresTimer
  <2>2. \E d \in Events : FireTimer(d)
    BY <1>1, <2>1 DEF Next, LoopNext, vars, ForeignWakeup, Tick, TestStopped, WaitToRun,
       FiredTimers, Drained, Pop, DispatchOn, DispatchSetTimer, DispatchFire, DispatchForce
  <2>3. PICK d \in Events : FireTimer(d)
    BY <2>2
  <2>4. queue' = Append(queue, TimerFires(timers[d])) /\ timers[d].event = d
    BY <1>1, <2>3 DEF FireTimer, TypeOK
  <2>5. queue'[Len(queue')] = TimerFires(timers[d])
    BY <2>4 DEF TypeOK
  <2>6. d = e
    BY <2>4, <2>5 DEF FiresTimer, TimerFires
  <2> QED
    BY <2>3, <2>6
<1>3. Due(timers[e]) /\ e \in visit
  BY <1>1, <1>2 DEF FireTimer
<1>4. Spaced(e) /\ ~Finished(timers[e])
  BY <1>1, <1>3 DEF Spacing, WalkSpaced
<1>5. /\ now \in Int /\ timers[e].next \in Int
      /\ timers[e].last \in Int /\ timers[e].interval \in Int
  BY <1>1, IntervalsAssumption, BoundsAssumption DEF TypeOK, Timer, Never
<1> QED
  BY <1>1, <1>3, <1>4, <1>5 DEF Spaced, Finished, Due, Timer

LEMMA SpacingInvariant == Spec => []Spacing
<1>1. Init => Spacing
  BY DEF Init, Spacing, LastPast, QueuedUnfired, SpacedOrPending, SpacedAtRest, WalkSpaced,
         Unfired, NoEntry
<1> QED
  BY <1>1, SpacingNext, TypeCorrect, PTL DEF Spec

\* The walk over the timers never fires one twice within its interval.
THEOREM TimerSpacingHolds == Spec => TimerSpacing
<1>1. TypeOK /\ Spacing /\ [Next]_vars
        => [\A e \in Events :
              FiresTimer(e) /\ timers[e].last # Never
                => timers[e].repeat /\ now >= timers[e].last + timers[e].interval]_vars
  BY FiringsSpaced
<1> QED
  BY <1>1, SpacingInvariant, TypeCorrect, PTL DEF Spec, TimerSpacing

\* A timer that has fired is not left behind: until its next firing is an interval
\* away its event is on the queue or being dispatched, and when the loop is back at
\* its test, asleep or has returned, no such timer is left.  Without this a timer
\* would stay due, and the loop would fire it at every turn; it is what
\* DueTimerFires rests on (fire_timer, reschedule_timer_for_event).
FiredTimersMoveOn ==
  /\ pc # "raised" => \A e \in DOMAIN timers : Spaced(e) \/ ToDispatch(e)
  /\ pc \in {"test", "select", "returned"} => \A e \in DOMAIN timers : Spaced(e)

THEOREM FiredTimersMoveOnHolds == Spec => []FiredTimersMoveOn
<1>1. Spacing => FiredTimersMoveOn
  BY DEF Spacing, SpacedOrPending, SpacedAtRest, FiredTimersMoveOn
<1> QED
  BY <1>1, SpacingInvariant, PTL
=============================================================================
