------------------------ MODULE ThreadProfilerProofs ------------------------
(***************************************************************************)
(* Theorems about ThreadProfiler.  What the profiler promises is that      *)
(* something happens (SubscribedIsPolled, PollersEnd, ProfileEnds), which  *)
(* TLC checks; what is proved here, for every number of starts, is the     *)
(* invariant each of the three rests on: there is always somebody left who *)
(* can make it happen.                                                     *)
(***************************************************************************)
EXTENDS ThreadProfiler, TLAPS

Active(p) == poller[p] \notin {"unborn", "ended"}

\* The thread is where it will see to it that the service runs.
Starting(t) == pc[t] \in {"starting", "spawning"}

\* A stop of the service is between its two assignments on one thread only, and
\* meanwhile nobody is subscribed, since subscribing waits for the lock.
LockOnce ==
  /\ \A t, u \in Threads : (pc[t] = "halting" /\ pc[u] = "halting") => t = u
  /\ Locked => ~subscribed

\* A subscribed profile whose service does not run has a thread on its way to
\* start it: the test of @running and what follows it are not one step.
Serviced == subscribed /\ ~running => \E t \in Threads : Starting(t)

\* A running service has a polling thread that will set the loop up, or one that
\* polls and the flag that keeps it; unless its start came between the two
\* assignments of a stop.
RunningPolls ==
  running /\ ~crossed =>
    \/ \E p \in Pollers : poller[p] = "born"
    \/ (should_run /\ \E p \in Pollers : Active(p))

\* What SubscribedIsPolled rests on: for a subscribed profile there is always
\* somebody who polls, will poll, or will start the service (backtrace_service.rb
\* subscribe and start, worker_loop.rb run).
SomebodyPolls ==
  subscribed /\ ~crossed =>
    \/ \E t \in Threads : Starting(t)
    \/ \E p \in Pollers : poller[p] = "born"
    \/ (should_run /\ \E p \in Pollers : Active(p))

\* What PollersEnd rests on: once the service was stopped, every polling thread has
\* ended or meets a cleared flag that no other thread is about to set again
\* (backtrace_service.rb stop, worker_loop.rb stop and setup).
PollersTold ==
  ~running /\ ~Locked /\ ~stopMissed =>
    \/ \A p \in Pollers : ~Active(p)
    \/ (~should_run /\ \A p \in Pollers : poller[p] # "born")

\* What ProfileEnds rests on: until the agent shuts down a subscribed profile has
\* the time it was started at, by which harvests find it due, or the worker is
\* just about to set it (thread_profiler_session.rb start, harvest and past_time?).
Timed ==
  subscribed /\ pc[Shutdown] = "idle" =>
    started_at \/ pc[Worker] \in {"starting", "spawning", "started"}

\* The harvest that clears the time is one whose stop has unsubscribed the profile.
Unsubscribed ==
  pc[Shutdown] = "idle" /\ pc[Worker] \in {"halting", "stopped", "reading"} => ~subscribed

\* The inductive invariant.
Inv ==
  /\ TypeOK /\ LockOnce /\ Serviced /\ RunningPolls
  /\ PollersTold /\ Unsubscribed /\ Timed

-----------------------------------------------------------------------------
(* The steps *)

\* The actions of Next, for the case splits below.
LEMMA Actions ==
  ASSUME Next
  PROVE  \/ Begin \/ BeforeShutdown \/ DurationPasses
         \/ \E t \in Threads :
              \/ HandleStart(t) \/ CommandsDone(t) \/ Abandon(t)
              \/ \E report \in BOOLEAN : HandleStop(t, report)
              \/ Harvest(t) \/ HarvestSession(t)
              \/ Subscribe(t) \/ Start(t) \/ Spawn(t) \/ SetStartedAt(t)
              \/ StopIfRunning(t) \/ Take(t) \/ Unsubscribe(t) \/ Halt(t) \/ Stopped(t)
         \/ \E p \in Pollers : Setup(p) \/ KeepRunning(p) \/ WakeUp(p) \/ Poll(p)
  BY DEF Next, ThreadStep, HarvestStep, StartStep, StopStep, PollerStep

\* What a thread remembers of the call it makes.
Calls == [report_data : BOOLEAN, after : {"commands", "reading"}]

\* A call of stop is well formed, and so is none.
LEMMA CallTypes ==
  /\ \A report \in BOOLEAN, p \in {"commands", "reading"} :
       [report_data |-> report, after |-> p] \in Calls
  /\ NoCall \in Calls
  BY DEF Calls, NoCall

\* The two calls that report do so with TRUE.
LEMMA ReportingCallTypes ==
  ASSUME NEW p \in {"commands", "reading"}
  PROVE  [report_data |-> TRUE, after |-> p] \in Calls
  <1>1. TRUE \in BOOLEAN
    OBVIOUS
  <1> QED
    BY ONLY <1>1, p \in {"commands", "reading"}, CallTypes, Zenon

\* The variables keep their types.
LEMMA TypeStep == TypeOK /\ [Next]_vars => TypeOK'
  <1> SUFFICES ASSUME TypeOK, [Next]_vars PROVE TypeOK'
    OBVIOUS
  <1> USE DEF TypeOK, Goto, vars, serviceVars, sessionVars, history, Calls
  <1>1. CASE Begin
    BY <1>1 DEF Begin
  <1>2. CASE BeforeShutdown
    <2>1. CASE subscribed
      BY <1>2, <2>1, ReportingCallTypes DEF BeforeShutdown, CallStop
    <2>2. CASE ~subscribed
      BY <1>2, <2>2 DEF BeforeShutdown
    <2> QED
      BY <2>1, <2>2
  <1>3. CASE DurationPasses
    BY <1>3 DEF DurationPasses
  <1>4. ASSUME NEW t \in Threads, HandleStart(t) PROVE TypeOK'
    BY <1>4, BoundAssumption DEF HandleStart
  <1>5. ASSUME NEW t \in Threads, CommandsDone(t) PROVE TypeOK'
    BY <1>5 DEF CommandsDone
  <1>6. ASSUME NEW t \in Threads, Abandon(t) PROVE TypeOK'
    BY <1>6 DEF Abandon, Finish
  <1>7. ASSUME NEW t \in Threads, NEW report \in BOOLEAN, HandleStop(t, report)
        PROVE  TypeOK'
    BY <1>7 DEF HandleStop, CallStop
  <1>8. ASSUME NEW t \in Threads, Harvest(t) PROVE TypeOK'
    <2>1. CASE ReadyToHarvest
      BY <1>8, <2>1, ReportingCallTypes DEF Harvest, CallStop
    <2>2. CASE ~ReadyToHarvest
      BY <1>8, <2>2 DEF Harvest, Finish
    <2> QED
      BY <2>1, <2>2
  <1>9. ASSUME NEW t \in Threads, HarvestSession(t) PROVE TypeOK'
    BY <1>9 DEF HarvestSession, Finish
  <1>10. ASSUME NEW t \in Threads, Subscribe(t) PROVE TypeOK'
    BY <1>10 DEF Subscribe, Locked
  <1>11. ASSUME NEW t \in Threads, Start(t) PROVE TypeOK'
    BY <1>11 DEF Start
  <1>12. ASSUME NEW t \in Threads, Spawn(t) PROVE TypeOK'
    BY <1>12 DEF Spawn
  <1>13. ASSUME NEW t \in Threads, SetStartedAt(t) PROVE TypeOK'
    BY <1>13 DEF SetStartedAt
  <1>14. ASSUME NEW t \in Threads, StopIfRunning(t) PROVE TypeOK'
    <2>1. CASE subscribed
      BY <1>14, <2>1 DEF StopIfRunning
    <2>2. CASE ~subscribed
      BY <1>14, <2>2, CallTypes DEF StopIfRunning, GoOn
    <2> QED
      BY <2>1, <2>2
  <1>15. ASSUME NEW t \in Threads, Take(t) PROVE TypeOK'
    BY <1>15 DEF Take, Locked
  <1>16. ASSUME NEW t \in Threads, Unsubscribe(t) PROVE TypeOK'
    BY <1>16 DEF Unsubscribe, Locked
  <1>17. ASSUME NEW t \in Threads, Halt(t) PROVE TypeOK'
    BY <1>17 DEF Halt
  <1>18. ASSUME NEW t \in Threads, Stopped(t) PROVE TypeOK'
    BY <1>18 DEF Stopped, GoOn, NoCall
  <1>19. ASSUME NEW p \in Pollers, Setup(p) PROVE TypeOK'
    BY <1>19 DEF Setup, Advance
  <1>20. ASSUME NEW p \in Pollers, KeepRunning(p) PROVE TypeOK'
    BY <1>20 DEF KeepRunning, Advance
  <1>21. ASSUME NEW p \in Pollers, WakeUp(p) PROVE TypeOK'
    BY <1>21 DEF WakeUp, Advance
  <1>22. ASSUME NEW p \in Pollers, Poll(p) PROVE TypeOK'
    BY <1>22 DEF Poll, Locked, Advance
  <1>23. CASE UNCHANGED vars
    BY <1>23
  <1> QED
    BY ONLY <1>1, <1>2, <1>3, <1>4, <1>5, <1>6, <1>7, <1>8, <1>9, <1>10, <1>11,
      <1>12, <1>13, <1>14, <1>15, <1>16, <1>17, <1>18, <1>19, <1>20, <1>21, <1>22,
      <1>23, Actions, [Next]_vars

\* A stop of the service begins, and a profile is subscribed, under the lock.
LEMMA LockStep == TypeOK /\ LockOnce /\ [Next]_vars => LockOnce'
  <1> SUFFICES ASSUME TypeOK /\ LockOnce, [Next]_vars PROVE LockOnce'
    OBVIOUS
  <1> USE DEF TypeOK, Goto, vars, serviceVars, sessionVars, history, LockOnce, Locked
  <1>1. ASSUME NEW t \in Threads, Subscribe(t) PROVE LockOnce'
    BY <1>1 DEF Subscribe
  <1>2. ASSUME NEW t \in Threads, Unsubscribe(t) PROVE LockOnce'
    BY <1>2 DEF Unsubscribe
  <1>3. ASSUME NEW t \in Threads, Halt(t) PROVE LockOnce'
    BY <1>3 DEF Halt
  <1>4. CASE Begin \/ BeforeShutdown \/ DurationPasses \/ UNCHANGED vars
    BY <1>4 DEF Begin, BeforeShutdown, CallStop, DurationPasses
  <1>5. ASSUME NEW t \in Threads,
               \/ HandleStart(t) \/ CommandsDone(t) \/ Abandon(t)
               \/ (\E report \in BOOLEAN : HandleStop(t, report)) \/ Harvest(t)
               \/ HarvestSession(t) \/ Start(t) \/ Spawn(t) \/ SetStartedAt(t)
               \/ StopIfRunning(t) \/ Take(t) \/ Stopped(t)
        PROVE  LockOnce'
    BY <1>5
      DEF HandleStart, CommandsDone, Abandon, Finish, HandleStop, CallStop, Harvest,
          ReadyToHarvest, HarvestSession, Start, Spawn, SetStartedAt, StopIfRunning,
          GoOn, NoCall, Take, Stopped
  <1>6. ASSUME NEW p \in Pollers, Setup(p) \/ KeepRunning(p) \/ WakeUp(p) \/ Poll(p)
        PROVE  LockOnce'
    BY <1>6 DEF Setup, Advance, KeepRunning, WakeUp, Poll
  <1> QED
    BY ONLY <1>1, <1>2, <1>3, <1>4, <1>5, <1>6, Actions, [Next]_vars

\* Only a stop clears @running, and it has unsubscribed the profile; a thread leaves
\* the way to the start when the service runs.
LEMMA ServicedStep == TypeOK /\ Serviced /\ [Next]_vars => Serviced'
  <1> SUFFICES ASSUME TypeOK /\ Serviced, [Next]_vars PROVE Serviced'
    OBVIOUS
  <1> USE DEF TypeOK, Goto, vars, serviceVars, sessionVars, history, Serviced,
              Starting
  <1>1. ASSUME NEW t \in Threads, Subscribe(t) PROVE Serviced'
    BY <1>1 DEF Subscribe, Locked
  <1>2. ASSUME NEW t \in Threads, Start(t) PROVE Serviced'
    BY <1>2 DEF Start
  <1>3. ASSUME NEW t \in Threads, Spawn(t) PROVE Serviced'
    BY <1>3 DEF Spawn
  <1>4. ASSUME NEW t \in Threads, Unsubscribe(t) PROVE Serviced'
    BY <1>4 DEF Unsubscribe, Locked
  <1>5. CASE Begin \/ BeforeShutdown \/ DurationPasses \/ UNCHANGED vars
    BY <1>5 DEF Begin, BeforeShutdown, CallStop, Locked, DurationPasses
  <1>6. ASSUME NEW t \in Threads,
               \/ HandleStart(t) \/ CommandsDone(t) \/ Abandon(t)
               \/ (\E report \in BOOLEAN : HandleStop(t, report)) \/ Harvest(t)
               \/ HarvestSession(t) \/ SetStartedAt(t) \/ StopIfRunning(t)
               \/ Take(t) \/ Halt(t) \/ Stopped(t)
        PROVE  Serviced'
    BY <1>6
      DEF HandleStart, Locked, CommandsDone, Abandon, Finish, HandleStop, CallStop,
          Harvest, ReadyToHarvest, HarvestSession, SetStartedAt, StopIfRunning, GoOn,
          NoCall, Take, Halt, Stopped
  <1>7. ASSUME NEW p \in Pollers, Setup(p) \/ KeepRunning(p) \/ WakeUp(p) \/ Poll(p)
        PROVE  Serviced'
    BY <1>7 DEF Setup, Advance, KeepRunning, WakeUp, Poll, Locked
  <1> QED
    BY ONLY <1>1, <1>2, <1>3, <1>4, <1>5, <1>6, <1>7, Actions, [Next]_vars

\* A polling thread ends when it finds the flag cleared, and only a stop clears it.
LEMMA RunningStep == TypeOK /\ RunningPolls /\ [Next]_vars => RunningPolls'
  <1> SUFFICES ASSUME TypeOK /\ RunningPolls, [Next]_vars PROVE RunningPolls'
    OBVIOUS
  <1> USE DEF TypeOK, Goto, vars, serviceVars, sessionVars, history, RunningPolls,
              Active
  <1>1. ASSUME NEW t \in Threads, Spawn(t) PROVE RunningPolls'
    BY <1>1 DEF Spawn
  <1>2. ASSUME NEW t \in Threads, Unsubscribe(t) PROVE RunningPolls'
    BY <1>2 DEF Unsubscribe, Locked
  <1>3. ASSUME NEW t \in Threads, Halt(t) PROVE RunningPolls'
    BY <1>3 DEF Halt
  <1>4. ASSUME NEW p \in Pollers, Setup(p) PROVE RunningPolls'
    BY <1>4 DEF Setup, Advance
  <1>5. ASSUME NEW p \in Pollers, KeepRunning(p) PROVE RunningPolls'
    BY <1>5 DEF KeepRunning, Advance
  <1>6. CASE Begin \/ BeforeShutdown \/ DurationPasses \/ UNCHANGED vars
    BY <1>6 DEF Begin, BeforeShutdown, CallStop, Locked, DurationPasses
  <1>7. ASSUME NEW t \in Threads,
               \/ HandleStart(t) \/ CommandsDone(t) \/ Abandon(t)
               \/ (\E report \in BOOLEAN : HandleStop(t, report)) \/ Harvest(t)
               \/ HarvestSession(t) \/ Subscribe(t) \/ Start(t)
               \/ SetStartedAt(t) \/ StopIfRunning(t) \/ Take(t) \/ Stopped(t)
        PROVE  RunningPolls'
    BY <1>7
      DEF HandleStart, Locked, CommandsDone, Abandon, Finish, HandleStop, CallStop,
          Harvest, ReadyToHarvest, HarvestSession, Subscribe, Start, SetStartedAt,
          StopIfRunning, GoOn, NoCall, Take, Stopped
  <1>8. ASSUME NEW p \in Pollers, WakeUp(p) \/ Poll(p) PROVE RunningPolls'
    BY <1>8 DEF WakeUp, Advance, Poll, Locked
  <1> QED
    BY ONLY <1>1, <1>2, <1>3, <1>4, <1>5, <1>6, <1>7, <1>8, Actions, [Next]_vars

\* The flag is set by the setup of a polling thread that a start created.
LEMMA ToldStep == TypeOK /\ LockOnce /\ PollersTold /\ [Next]_vars => PollersTold'
  <1> SUFFICES ASSUME TypeOK /\ LockOnce /\ PollersTold, [Next]_vars PROVE PollersTold'
    OBVIOUS
  <1> USE DEF TypeOK, Goto, vars, serviceVars, sessionVars, history, LockOnce,
              PollersTold, Locked, Active
  <1>1. ASSUME NEW t \in Threads, Spawn(t) PROVE PollersTold'
    BY <1>1 DEF Spawn
  <1>2. ASSUME NEW t \in Threads, Unsubscribe(t) PROVE PollersTold'
    BY <1>2 DEF Unsubscribe
  <1>3. ASSUME NEW t \in Threads, Halt(t) PROVE PollersTold'
    BY <1>3 DEF Halt
  <1>4. ASSUME NEW p \in Pollers, Setup(p) PROVE PollersTold'
    BY <1>4 DEF Setup, Advance
  <1>5. ASSUME NEW p \in Pollers, KeepRunning(p) PROVE PollersTold'
    BY <1>5 DEF KeepRunning, Advance
  <1>6. CASE Begin \/ BeforeShutdown \/ DurationPasses \/ UNCHANGED vars
    BY <1>6 DEF Begin, BeforeShutdown, CallStop, DurationPasses
  <1>7. ASSUME NEW t \in Threads,
               \/ HandleStart(t) \/ CommandsDone(t) \/ Abandon(t)
               \/ (\E report \in BOOLEAN : HandleStop(t, report)) \/ Harvest(t)
               \/ HarvestSession(t) \/ Subscribe(t) \/ Start(t)
               \/ SetStartedAt(t) \/ StopIfRunning(t) \/ Take(t) \/ Stopped(t)
        PROVE  PollersTold'
    BY <1>7
      DEF HandleStart, CommandsDone, Abandon, Finish, HandleStop, CallStop, Harvest,
          ReadyToHarvest, HarvestSession, Subscribe, Start, SetStartedAt,
          StopIfRunning, GoOn, NoCall, Take, Stopped
  <1>8. ASSUME NEW p \in Pollers, WakeUp(p) \/ Poll(p) PROVE PollersTold'
    BY <1>8 DEF WakeUp, Advance, Poll
  <1> QED
    BY ONLY <1>1, <1>2, <1>3, <1>4, <1>5, <1>6, <1>7, <1>8, Actions, [Next]_vars

\* A harvest reads the profile after a stop, or when there was nothing to stop.
LEMMA UnsubscribedStep ==
  TypeOK /\ LockOnce /\ Unsubscribed /\ [Next]_vars => Unsubscribed'
  <1> SUFFICES ASSUME TypeOK /\ LockOnce /\ Unsubscribed, [Next]_vars PROVE Unsubscribed'
    OBVIOUS
  <1> USE DEF TypeOK, Goto, vars, serviceVars, sessionVars, history, LockOnce,
              Locked, Unsubscribed, Threads
  <1>1. CASE BeforeShutdown
    BY <1>1, ThreadsAssumption DEF BeforeShutdown, CallStop
  <1>2. ASSUME NEW t \in Threads, Subscribe(t) PROVE Unsubscribed'
    BY <1>2, ThreadsAssumption DEF Subscribe
  <1>3. ASSUME NEW t \in Threads, StopIfRunning(t) PROVE Unsubscribed'
    BY <1>3, ThreadsAssumption DEF StopIfRunning, GoOn, NoCall
  <1>4. ASSUME NEW t \in Threads, Unsubscribe(t) PROVE Unsubscribed'
    BY <1>4, ThreadsAssumption DEF Unsubscribe
  <1>5. ASSUME NEW t \in Threads, Halt(t) PROVE Unsubscribed'
    BY <1>5, ThreadsAssumption DEF Halt
  <1>6. ASSUME NEW t \in Threads, Stopped(t) PROVE Unsubscribed'
    BY <1>6, ThreadsAssumption DEF Stopped, GoOn, NoCall
  <1>7. CASE Begin \/ DurationPasses \/ UNCHANGED vars
    BY <1>7, ThreadsAssumption DEF Begin, DurationPasses
  <1>8. ASSUME NEW t \in Threads,
               \/ HandleStart(t) \/ CommandsDone(t) \/ Abandon(t)
               \/ (\E report \in BOOLEAN : HandleStop(t, report)) \/ Harvest(t)
               \/ HarvestSession(t) \/ Start(t) \/ Spawn(t) \/ SetStartedAt(t)
               \/ Take(t)
        PROVE  Unsubscribed'
    BY <1>8, ThreadsAssumption
      DEF HandleStart, CommandsDone, Abandon, Finish, HandleStop, CallStop, Harvest,
          ReadyToHarvest, HarvestSession, Start, Spawn, SetStartedAt, Take
  <1>9. ASSUME NEW p \in Pollers, Setup(p) \/ KeepRunning(p) \/ WakeUp(p) \/ Poll(p)
        PROVE  Unsubscribed'
    BY <1>9, ThreadsAssumption DEF Setup, Advance, KeepRunning, WakeUp, Poll
  <1> QED
    BY ONLY <1>1, <1>2, <1>3, <1>4, <1>5, <1>6, <1>7, <1>8, <1>9, Actions,
      [Next]_vars

\* The time is cleared by a harvest that has unsubscribed the profile.
LEMMA TimedStep == TypeOK /\ Unsubscribed /\ Timed /\ [Next]_vars => Timed'
  <1> SUFFICES ASSUME TypeOK /\ Unsubscribed /\ Timed, [Next]_vars PROVE Timed'
    OBVIOUS
  <1> USE DEF TypeOK, Goto, vars, serviceVars, sessionVars, history, Unsubscribed,
              Timed, Threads
  <1>1. CASE BeforeShutdown
    BY <1>1, ThreadsAssumption DEF BeforeShutdown, CallStop, Locked
  <1>2. ASSUME NEW t \in Threads, HarvestSession(t) PROVE Timed'
    BY <1>2, ThreadsAssumption DEF HarvestSession, Finish
  <1>3. ASSUME NEW t \in Threads, Subscribe(t) PROVE Timed'
    BY <1>3, ThreadsAssumption DEF Subscribe, Locked
  <1>4. ASSUME NEW t \in Threads, Start(t) PROVE Timed'
    BY <1>4, ThreadsAssumption DEF Start
  <1>5. ASSUME NEW t \in Threads, Spawn(t) PROVE Timed'
    BY <1>5, ThreadsAssumption DEF Spawn
  <1>6. ASSUME NEW t \in Threads, SetStartedAt(t) PROVE Timed'
    BY <1>6, ThreadsAssumption DEF SetStartedAt
  <1>7. CASE Begin \/ DurationPasses \/ UNCHANGED vars
    BY <1>7, ThreadsAssumption DEF Begin, DurationPasses
  <1>8. ASSUME NEW t \in Threads,
               \/ HandleStart(t) \/ CommandsDone(t) \/ Abandon(t)
               \/ (\E report \in BOOLEAN : HandleStop(t, report)) \/ Harvest(t)
               \/ StopIfRunning(t) \/ Take(t) \/ Unsubscribe(t) \/ Halt(t)
               \/ Stopped(t)
        PROVE  Timed'
    BY <1>8, ThreadsAssumption
      DEF HandleStart, Locked, CommandsDone, Abandon, Finish, HandleStop, CallStop,
          Harvest, ReadyToHarvest, StopIfRunning, GoOn, NoCall, Take, Unsubscribe,
          Halt, Stopped
  <1>9. ASSUME NEW p \in Pollers, Setup(p) \/ KeepRunning(p) \/ WakeUp(p) \/ Poll(p)
        PROVE  Timed'
    BY <1>9, ThreadsAssumption DEF Setup, Advance, KeepRunning, WakeUp, Poll, Locked
  <1> QED
    BY ONLY <1>1, <1>2, <1>3, <1>4, <1>5, <1>6, <1>7, <1>8, <1>9, Actions,
      [Next]_vars

-----------------------------------------------------------------------------
(* The theorems *)

LEMMA InitInv == Init => Inv
  <1> SUFFICES ASSUME Init PROVE Inv
    OBVIOUS
  <1> USE DEF Init
  <1>1. TypeOK
    <2>1. call \in [Threads -> Calls]
      BY CallTypes
    <2>2. starts \in 0..MaxStarts
      BY BoundAssumption
    <2> QED
      BY <2>1, <2>2 DEF TypeOK, Calls
  <1>2. LockOnce /\ Serviced /\ RunningPolls /\ PollersTold /\ Unsubscribed /\ Timed
    BY DEF LockOnce, Locked, Serviced, RunningPolls, PollersTold, Active, Unsubscribed,
           Timed, Threads
  <1> QED
    BY <1>1, <1>2 DEF Inv

LEMMA NextInv == Inv /\ [Next]_vars => Inv'
  BY TypeStep, LockStep, ServicedStep, RunningStep, ToldStep, UnsubscribedStep, TimedStep
  DEF Inv

\* Every step keeps the inductive invariant.
THEOREM Invariance == Spec => []Inv
  BY InitInv, NextInv, PTL DEF Spec

\* The variables have their types, whatever the number of starts.
THEOREM TypeCorrect == Spec => []TypeOK
  <1>1. Inv => TypeOK
    BY DEF Inv
  <1> QED
    BY <1>1, Invariance, PTL

\* There is always somebody to sample the profile that is subscribed, although the
\* service is started by a test and a later assignment, on two threads, and all the
\* polling threads share one flag: what is missing to SubscribedIsPolled is fairness.
THEOREM SubscribedHasPoller == Spec => []SomebodyPolls
  <1>1. Inv => SomebodyPolls
    BY DEF Inv, Serviced, RunningPolls, SomebodyPolls
  <1> QED
    BY <1>1, Invariance, PTL

\* A stop reaches the polling threads of every earlier start, for none of them sets
\* the flag again: what is missing to PollersEnd is fairness.
THEOREM StopReachesPollers == Spec => []PollersTold
  <1>1. Inv => PollersTold
    BY DEF Inv
  <1> QED
    BY <1>1, Invariance, PTL

\* No profile is left without the time its end is computed from, whatever commands
\* and harvests come in between: what is missing to ProfileEnds is fairness.
THEOREM ProfileIsTimed == Spec => []Timed
  <1>1. Inv => Timed
    BY DEF Inv
  <1> QED
    BY <1>1, Invariance, PTL
=============================================================================
