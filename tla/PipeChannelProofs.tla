-------------------------- MODULE PipeChannelProofs -------------------------
(***************************************************************************)
(* Proofs about PipeChannel, for any processes, pipe capacity and number   *)
(* of frames, in layers, each of which uses those before: the types and    *)
(* who listens (Typed), the children about to be forked and the pipes the  *)
(* listener knows of (Registering), who may write (Turns), the order of    *)
(* what is written (Framing), and where the listener is in it (InStep).    *)
(***************************************************************************)
EXTENDS PipeChannel, SequenceTheorems, TLAPS

USE DEF mainVars, tables, ends, writing, reading, history

\* The last steps of a process, whatever ends it.
Leave(p) == pc[p] # "unborn" /\ Gone(p)

\* The disjuncts of Next, with a crash, an exit and a failed greeting as one.
LEMMA NextCases ==
  ASSUME Next
  PROVE  \/ \E p \in Procs : \/ StartListener(p) \/ Wakeup(p) \/ Fork(p) \/ Leave(p)
                             \/ CleanUpPipes(p) \/ Select(p) \/ SelectTimesOut(p)
                             \/ ReadFrame(p) \/ ReadGarbage(p) \/ ReadCutShort(p)
                             \/ CloseAtEOF(p) \/ ReadWake(p)
         \/ \E p \in Procs : \E c \in Channels : RegisterPipe(p, c) \/ ReadLength(p, c)
         \/ \E c \in Channels : \/ SkipAfterFork(c) \/ InstallPipeService(c)
                                \/ StopEventLoop(c) \/ WorkerEnds(c) \/ JoinTimesOut(c)
         \/ \E c \in Channels : \E t \in Threads :
              WriteLength(c, t) \/ WriteData(c, t) \/ BrokenPipe(c, t)
<1>1. \A c \in Channels : Exit(c) \/ GreetingFails(c) => Leave(c)
  BY DEF Exit, GreetingFails, Leave
<1>2. \A p \in Procs : Crash(p) => Leave(p)
  BY DEF Crash, Leave
<1>3. Channels \subseteq Procs /\ Main \in Threads /\ Worker \in Threads
  BY DEF Channels, Threads
<1> QED
  BY <1>1, <1>2, <1>3 DEF Next, ListenerStep, ChildStep, WorkerStep

----------------------------------------------------------------------------
(* Types and roles *)

\* Only the first process has a listener: the others inherit @started.
RootListens ==
  /\ \A c \in Channels : listener[c] = "none" /\ (pc[c] = "unborn" \/ c \in started)
  /\ Root \notin started => listener[Root] = "none"
  /\ Wake \in ready[Root] => wake > 0

\* A listener that has begun with a pipe has read something from it.
Begins ==
  \A p \in Procs :
    /\ listener[p] \in {"body", "eof"} => cur[p] \in Channels
    /\ listener[p] = "body" => at[cur[p]] > 0

Typed == TypeOK /\ RootListens /\ Begins

LEMMA BegunIsNatural ==
  ASSUME TypeOK, NEW c \in Channels
  PROVE  /\ Begun(c) \in Nat
         /\ \A t \in Threads : begun[c][t] < MaxFrames[c][t] => Begun(c) + 1 \in Numbers
<1>1. Main \in Threads /\ Worker \in Threads /\ Threads = {Main, Worker}
  BY DEF Threads
<1>2. /\ begun[c][Main] \in Nat /\ begun[c][Worker] \in Nat
      /\ begun[c][Main] <= MaxFrames[c][Main] /\ begun[c][Worker] <= MaxFrames[c][Worker]
  BY <1>1 DEF TypeOK
<1>3. MaxFrames[c][Main] \in Nat /\ MaxFrames[c][Worker] \in Nat
  BY BoundsAssumption DEF Main, Worker
<1>4. ASSUME NEW t \in Threads, begun[c][t] < MaxFrames[c][t]
      PROVE  Begun(c) + 1 \in 1..(MaxFrames[c][Main] + MaxFrames[c][Worker])
  <2>1. CASE t = Main
    BY <1>2, <1>3, <1>4, <2>1 DEF Begun
  <2>2. CASE t = Worker
    BY <1>2, <1>3, <1>4, <2>2 DEF Begun
  <2> QED
    BY <1>1, <2>1, <2>2
<1>5. \A n : n \in 1..(MaxFrames[c][Main] + MaxFrames[c][Worker]) => n \in Numbers
  BY DEF Numbers
<1> QED
  BY <1>2, <1>4, <1>5 DEF Begun

LEMMA InitTyped == Init => Typed
<1> SUFFICES ASSUME Init PROVE Typed
  OBVIOUS
<1>1. Root \in Procs
  BY ProcsAssumption
<1>2. \A c \in Channels : \A t \in Threads : 0 <= MaxFrames[c][t]
  BY BoundsAssumption DEF Threads, Main, Worker
<1>3. TypeOK
  <2>1. stream \in [Channels -> Seq(Tokens)] /\ at \in [Channels -> Nat]
    BY DEF Init
  <2>2. \A c \in Channels : at[c] <= Len(stream[c])
    BY DEF Init
  <2>3. connectState \in [Procs -> {"connected", "pending", "disconnected"}]
    BY DEF Init
  <2>4. /\ pc \in [Procs -> Stages] /\ kid \in [Procs -> Procs]
        /\ listener \in [Procs -> ListenerStages] /\ cur \in [Procs -> Procs]
    BY <1>1 DEF Init, Stages, ListenerStages
  <2>5. /\ begun \in [Channels -> [Threads -> Nat]]
        /\ \A c \in Channels : \A t \in Threads : begun[c][t] <= MaxFrames[c][t]
        /\ half \in [Channels -> [Threads -> {0} \cup Numbers]]
    BY <1>2 DEF Init
  <2> QED
    BY <2>1, <2>2, <2>3, <2>4, <2>5 DEF Init, TypeOK
<1>4. RootListens
  BY <1>1 DEF Init, RootListens, Channels, Wake
<1>5. Begins
  BY DEF Init, Begins
<1> QED
  BY <1>3, <1>4, <1>5 DEF Typed

\* A process is a channel or the first; who has a thread of its own is a process.
LEMMA Roles ==
  /\ Root \in Procs /\ Root \notin Channels
  /\ Channels \subseteq Procs /\ \A p \in Procs : p = Root \/ p \in Channels
  /\ Main \in Threads /\ Worker \in Threads /\ Main # Worker
  /\ \A t \in Threads : t = Main \/ t = Worker
BY ProcsAssumption DEF Channels, Threads, Main, Worker

\* Reading goes no further than what was written.
LEMMA Advance ==
  ASSUME TypeOK, NEW c \in Channels, Unread(c) > 0, Consume(c)
  PROVE  at' \in [Channels -> Nat] /\ \A d \in Channels : at'[d] <= Len(stream[d])
<1>1. /\ at \in [Channels -> Nat] /\ \A d \in Channels : at[d] <= Len(stream[d])
      /\ \A d \in Channels : Len(stream[d]) \in Nat
  BY DEF TypeOK
<1>2. at[c] + 1 <= Len(stream[c])
  BY <1>1 DEF Unread
<1> QED
  BY <1>1, <1>2 DEF Consume

LEMMA TypeStep ==
  ASSUME Typed, Next
  PROVE  TypeOK'
<1> USE Roles DEF Goto, ListenerGoto
<1>1. ASSUME NEW p \in Procs, StartListener(p) \/ Wakeup(p) PROVE TypeOK'
  <2>1. CASE StartListener(p)
    BY <2>1 DEF StartListener, Typed, TypeOK, ListenerStages
  <2>2. CASE Wakeup(p)
    BY <2>2 DEF Wakeup, Typed, TypeOK, Stages
  <2> QED
    BY <1>1, <2>1, <2>2
<1>2. ASSUME NEW p \in Procs, Fork(p) PROVE TypeOK'
  BY ZenonT(60), <1>2 DEF Fork, Inherited, Typed, TypeOK, Stages
<1>3. ASSUME NEW p \in Procs, Leave(p) PROVE TypeOK'
  BY <1>3 DEF Leave, Gone, Close, Typed, TypeOK, Stages, ListenerStages
<1>4. ASSUME NEW p \in Procs, CleanUpPipes(p) PROVE TypeOK'
  BY <1>4 DEF CleanUpPipes, Close, Typed, TypeOK, ListenerStages
<1>5. ASSUME NEW p \in Procs, Select(p) \/ SelectTimesOut(p) PROVE TypeOK'
  <2>1. CASE Select(p)
    <3>1. ReadableNow(p) \in SUBSET Procs
      BY DEF ReadableNow, Wake, Typed, TypeOK
    <3> QED
      BY <2>1, <3>1 DEF Select, Typed, TypeOK, ListenerStages
  <2>2. CASE SelectTimesOut(p)
    BY <2>2 DEF SelectTimesOut, Typed, TypeOK, ListenerStages
  <2> QED
    BY <1>5, <2>1, <2>2
<1>6. ASSUME NEW p \in Procs, ReadFrame(p) \/ ReadGarbage(p) \/ ReadCutShort(p) PROVE TypeOK'
  <2>1. /\ listener[p] = "body" /\ cur[p] \in Channels /\ at[cur[p]] > 0
        /\ stream[cur[p]][at[cur[p]]] \in Tokens
    BY <1>6 DEF ReadFrame, ReadGarbage, ReadCutShort, Typed, TypeOK, Begins
  <2>2. stream[cur[p]][at[cur[p]]].n \in Numbers
    BY <2>1 DEF Tokens
  <2>3. CASE ReadFrame(p)
    <3>1. Unread(cur[p]) > 0 /\ Consume(cur[p])
      BY <2>3 DEF ReadFrame, IsNext
    <3>2. at' \in [Channels -> Nat] /\ \A d \in Channels : at'[d] <= Len(stream[d])
      BY <2>1, <3>1, Advance DEF Typed
    <3> QED
      BY <2>1, <2>2, <2>3, <3>2 DEF ReadFrame, Typed, TypeOK, ListenerStages
  <2>4. CASE ReadGarbage(p)
    <3>1. Unread(cur[p]) > 0 /\ Consume(cur[p])
      BY <2>4 DEF ReadGarbage
    <3>2. at' \in [Channels -> Nat] /\ \A d \in Channels : at'[d] <= Len(stream[d])
      BY <2>1, <3>1, Advance DEF Typed
    <3> QED
      BY <2>1, <2>4, <3>2 DEF ReadGarbage, Typed, TypeOK, ListenerStages
  <2>5. CASE ReadCutShort(p)
    BY <2>5 DEF ReadCutShort, Typed, TypeOK, ListenerStages
  <2> QED
    BY <1>6, <2>3, <2>4, <2>5
<1>7. ASSUME NEW p \in Procs, CloseAtEOF(p) PROVE TypeOK'
  BY SMTT(30), <1>7 DEF CloseAtEOF, Close, Typed, TypeOK, ListenerStages
<1>8. ASSUME NEW p \in Procs, ReadWake(p) PROVE TypeOK'
  <2>1. p = Root
    BY <1>8 DEF ReadWake, Typed, RootListens
  <2> QED
    BY <1>8, <2>1 DEF ReadWake, Wake, Typed, RootListens, TypeOK, ListenerStages
<1>9. ASSUME NEW p \in Procs, NEW c \in Channels, RegisterPipe(p, c) PROVE TypeOK'
  BY <1>9 DEF RegisterPipe, Typed, TypeOK, Stages
<1>10. ASSUME NEW p \in Procs, NEW c \in Channels, ReadLength(p, c) PROVE TypeOK'
  <2>1. at' \in [Channels -> Nat] /\ \A d \in Channels : at'[d] <= Len(stream[d])
    <3>1. CASE Unread(c) > 0
      BY <1>10, <3>1, Advance DEF ReadLength, Typed
    <3>2. CASE ~(Unread(c) > 0)
      BY <1>10, <3>2 DEF ReadLength, Typed, TypeOK
    <3> QED
      BY <3>1, <3>2
  <2>2. listener' \in [Procs -> ListenerStages]
    <3>1. \E there \in {"body", "eof"} : listener' = [listener EXCEPT ![p] = there]
      BY <1>10 DEF ReadLength
    <3> QED
      BY <3>1 DEF Typed, TypeOK, ListenerStages
  <2> QED
    BY <1>10, <2>1, <2>2 DEF ReadLength, Typed, TypeOK
<1>11. ASSUME NEW c \in Channels, SkipAfterFork(c) \/ StopEventLoop(c) \/ JoinTimesOut(c)
       PROVE  TypeOK'
  BY ZenonT(60), <1>11 DEF SkipAfterFork, StopEventLoop, JoinTimesOut, Typed, TypeOK, Stages
<1>12. ASSUME NEW c \in Channels, InstallPipeService(c) \/ WorkerEnds(c) PROVE TypeOK'
  <2>1. CASE InstallPipeService(c)
    <3>1. /\ readEnd' \in [Channels -> SUBSET Procs] /\ writeEnd' \in [Channels -> SUBSET Procs]
          /\ connectState' \in [Procs -> {"connected", "pending", "disconnected"}]
          /\ working' \subseteq Channels
      <4>1. CASE connectState[c] = "connected"
        BY <2>1, <4>1 DEF InstallPipeService, Typed, TypeOK
      <4>2. CASE connectState[c] # "connected"
        <5>1. Close(c, {c}) /\ connectState' = [connectState EXCEPT ![c] = "disconnected"]
              /\ working' = working
          BY <2>1, <4>2 DEF InstallPipeService
        <5>2. readEnd' \in [Channels -> SUBSET Procs] /\ writeEnd' \in [Channels -> SUBSET Procs]
          BY <5>1 DEF Close, Typed, TypeOK
        <5> QED
          BY <5>1, <5>2 DEF Typed, TypeOK
      <4> QED
        BY <4>1, <4>2
    <3>2. pc' \in [Procs -> Stages]
      BY <2>1 DEF InstallPipeService, Typed, TypeOK, Stages
    <3> QED
      BY <2>1, <3>1, <3>2 DEF InstallPipeService, Typed, TypeOK
  <2>2. CASE WorkerEnds(c)
    BY <2>2 DEF WorkerEnds, Typed, TypeOK, Stages
  <2> QED
    BY <1>12, <2>1, <2>2
<1>13. ASSUME NEW c \in Channels, NEW t \in Threads, WriteLength(c, t) PROVE TypeOK'
  <2>1. begun[c][t] < MaxFrames[c][t] /\ Begun(c) + 1 \in Numbers
    <3>1. begun[c][t] \in Nat /\ begun[c][t] <= MaxFrames[c][t] /\ MaxFrames[c][t] \in Nat
      BY BoundsAssumption DEF Typed, TypeOK, Threads, Main, Worker
    <3>2. begun[c][t] < MaxFrames[c][t]
      BY <1>13, <3>1 DEF WriteLength
    <3> QED
      BY <3>2, BegunIsNatural DEF Typed
  <2>2. [n |-> Begun(c) + 1, part |-> "length"] \in Tokens
    BY <2>1 DEF Tokens
  <2>3. /\ stream' \in [Channels -> Seq(Tokens)]
        /\ \A d \in Channels : at[d] <= Len(stream'[d])
    BY <1>13, <2>2 DEF WriteLength, Write, Typed, TypeOK
  <2>4. /\ begun' \in [Channels -> [Threads -> Nat]]
        /\ \A d \in Channels : \A u \in Threads : begun'[d][u] <= MaxFrames[d][u]
    <3>1. \A d \in Channels : \A u \in Threads : MaxFrames[d][u] \in Nat
      BY BoundsAssumption DEF Threads, Main, Worker
    <3> QED
      BY <1>13, <2>1, <3>1 DEF WriteLength, Typed, TypeOK
  <2>5. half' \in [Channels -> [Threads -> {0} \cup Numbers]]
    BY <1>13, <2>1 DEF WriteLength, Typed, TypeOK
  <2> QED
    BY <1>13, <2>3, <2>4, <2>5 DEF WriteLength, Typed, TypeOK, Stages
<1>14. ASSUME NEW c \in Channels, NEW t \in Threads, WriteData(c, t) PROVE TypeOK'
  <2>1. half[c][t] \in Numbers
    BY <1>14 DEF WriteData, Typed, TypeOK
  <2>2. [n |-> half[c][t], part |-> "data"] \in Tokens
    BY <2>1 DEF Tokens
  <2>3. /\ stream' \in [Channels -> Seq(Tokens)]
        /\ \A d \in Channels : at[d] <= Len(stream'[d])
    BY <1>14, <2>2 DEF WriteData, Write, Typed, TypeOK
  <2>4. half' \in [Channels -> [Threads -> {0} \cup Numbers]]
    BY <1>14 DEF WriteData, Typed, TypeOK
  <2> QED
    BY <1>14, <2>1, <2>3, <2>4 DEF WriteData, Typed, TypeOK
<1>15. ASSUME NEW c \in Channels, NEW t \in Threads, BrokenPipe(c, t) PROVE TypeOK'
  BY <1>15 DEF BrokenPipe, Typed, TypeOK
<1> QED
  BY <1>1, <1>2, <1>3, <1>4, <1>5, <1>6, <1>7, <1>8, <1>9, <1>10, <1>11, <1>12, <1>13,
     <1>14, <1>15, NextCases

\* pc and started alone decide who inherits a listener; only Root's wakes up.
LEMMA RootListensStep ==
  ASSUME Typed, Next
  PROVE  RootListens'
<1> USE Roles DEF Goto, ListenerGoto
<1>1. ASSUME NEW p \in Procs, StartListener(p) PROVE RootListens'
  BY <1>1 DEF StartListener, CanFork, Typed, TypeOK, RootListens, Stages, ListenerStages
<1>2. ASSUME NEW p \in Procs, Wakeup(p) PROVE RootListens'
  BY <1>2 DEF Wakeup, Typed, TypeOK, RootListens
<1>3. ASSUME NEW p \in Procs, Fork(p) PROVE RootListens'
  BY <1>3 DEF Fork, Typed, TypeOK, RootListens
<1>4. ASSUME NEW p \in Procs, Leave(p) PROVE RootListens'
  BY <1>4 DEF Leave, Gone, Typed, TypeOK, RootListens
<1>5. ASSUME NEW p \in Procs,
             \/ CleanUpPipes(p) \/ Select(p) \/ SelectTimesOut(p) \/ ReadFrame(p) \/ ReadGarbage(p)
             \/ ReadCutShort(p) \/ CloseAtEOF(p) \/ ReadWake(p) \/ \E c \in Channels : ReadLength(p, c)
      PROVE  RootListens'
  <2>1. p = Root
    BY <1>5 DEF CleanUpPipes, Select, SelectTimesOut, ReadFrame, ReadGarbage, ReadCutShort,
                CloseAtEOF, ReadWake, ReadLength, Typed, RootListens
  <2>2. /\ UNCHANGED <<pc, started>>
        /\ \E there : listener' = [listener EXCEPT ![Root] = there]
    BY <1>5, <2>1 DEF CleanUpPipes, Select, SelectTimesOut, ReadFrame, ReadGarbage, ReadCutShort,
                CloseAtEOF, ReadWake, ReadLength
  <2>3. \A c \in Channels : listener'[c] = listener[c]
    BY <2>2 DEF Typed, TypeOK
  <2>4. Wake \in ready'[Root] => wake' > 0
    <3>1. CASE Select(p)
      BY <2>1, <3>1 DEF Select, ReadableNow, Wake, Typed, TypeOK
    <3>2. CASE ReadWake(p)
      BY <2>1, <3>2 DEF ReadWake, Typed, TypeOK
    <3>3. CASE \E c \in Channels : ReadLength(p, c)
      BY <2>1, <3>3 DEF ReadLength, Typed, TypeOK, RootListens
    <3> QED
      BY <1>5, <3>1, <3>2, <3>3 DEF CleanUpPipes, SelectTimesOut, ReadFrame, ReadGarbage,
         ReadCutShort, CloseAtEOF, Typed, RootListens
  <2>5. Root \in started
    <3>1. listener[Root] # "none"
      BY <1>5, <2>1 DEF CleanUpPipes, Select, SelectTimesOut, ReadFrame, ReadGarbage, ReadCutShort,
                CloseAtEOF, ReadWake, ReadLength
    <3> QED
      BY <3>1 DEF Typed, RootListens
  <2> QED
    BY <2>2, <2>3, <2>4, <2>5 DEF Typed, RootListens
<1>6. ASSUME NEW p \in Procs, NEW c \in Channels, RegisterPipe(p, c) PROVE RootListens'
  BY <1>6 DEF RegisterPipe, CanFork, Typed, TypeOK, RootListens
<1>7. ASSUME NEW c \in Channels,
             \/ SkipAfterFork(c) \/ InstallPipeService(c) \/ StopEventLoop(c)
             \/ WorkerEnds(c) \/ JoinTimesOut(c)
      PROVE  RootListens'
  BY <1>7 DEF SkipAfterFork, InstallPipeService, StopEventLoop, WorkerEnds, JoinTimesOut,
              Typed, TypeOK, RootListens
<1>8. ASSUME NEW c \in Channels, NEW t \in Threads,
             WriteLength(c, t) \/ WriteData(c, t) \/ BrokenPipe(c, t)
      PROVE  RootListens'
  BY <1>8 DEF WriteLength, WriteData, BrokenPipe, Typed, TypeOK, RootListens
<1> QED
  BY <1>1, <1>2, <1>3, <1>4, <1>5, <1>6, <1>7, <1>8, NextCases

\* The place of a listener, and the pipe it reads, change together.
LEMMA BeginsStep ==
  ASSUME Typed, Next
  PROVE  Begins'
<1> USE Roles DEF Goto, ListenerGoto
<1>1. ASSUME NEW p \in Procs, NEW c \in Channels, ReadLength(p, c) PROVE Begins'
  <2>1. CASE Unread(c) > 0
    <3>1. /\ Consume(c) /\ listener' = [listener EXCEPT ![p] = "body"]
          /\ cur' = [cur EXCEPT ![p] = c]
      BY <1>1, <2>1 DEF ReadLength
    <3>2. at'[c] > 0 /\ \A d \in Channels : at[d] > 0 => at'[d] > 0
      BY <3>1 DEF Consume, Typed, TypeOK
    <3>3. \A q \in Procs : q # p => cur'[q] = cur[q] /\ listener'[q] = listener[q]
      BY <3>1 DEF Typed, TypeOK
    <3>4. cur'[p] = c
      BY <3>1 DEF Typed, TypeOK
    <3> QED
      BY <3>2, <3>3, <3>4 DEF Typed, Begins
  <2>2. CASE ~(Unread(c) > 0)
    BY <1>1, <2>2 DEF ReadLength, Typed, TypeOK, Begins
  <2> QED
    BY <2>1, <2>2
<1>2. ASSUME NEW p \in Procs, ReadFrame(p) \/ ReadGarbage(p) PROVE Begins'
  <2>1. Consume(cur[p]) /\ UNCHANGED cur
    BY <1>2 DEF ReadFrame, ReadGarbage
  <2>2. \A d \in Channels : at[d] > 0 => at'[d] > 0
    BY <2>1 DEF Consume, Typed, TypeOK
  <2>3. \E there \in {"body", "eof"} : listener' = [listener EXCEPT ![p] = there]
    BY <1>2 DEF ReadFrame, ReadGarbage
  <2>4. listener[p] = "body"
    BY <1>2 DEF ReadFrame, ReadGarbage
  <2> QED
    BY <2>1, <2>2, <2>3, <2>4 DEF Typed, TypeOK, Begins
<1>3. ASSUME NEW p \in Procs,
             \/ CleanUpPipes(p) \/ Select(p) \/ SelectTimesOut(p)
             \/ ReadCutShort(p) \/ CloseAtEOF(p) \/ ReadWake(p)
      PROVE  Begins'
  <2>1. UNCHANGED <<cur, at>>
    BY <1>3 DEF CleanUpPipes, Select, SelectTimesOut, ReadCutShort, CloseAtEOF, ReadWake
  <2>2. \E there : /\ listener' = [listener EXCEPT ![p] = there]
                   /\ there # "body" /\ (there = "eof" => listener[p] = "body")
    BY <1>3 DEF CleanUpPipes, Select, SelectTimesOut, ReadCutShort, CloseAtEOF, ReadWake
  <2> QED
    BY <2>1, <2>2 DEF Typed, TypeOK, Begins
<1>4. ASSUME NEW p \in Procs, StartListener(p) \/ Wakeup(p) \/ Fork(p) \/ Leave(p) PROVE Begins'
  BY <1>4 DEF StartListener, Wakeup, Fork, Leave, Gone, Typed, TypeOK, Begins
<1>5. ASSUME NEW p \in Procs, NEW c \in Channels, RegisterPipe(p, c) PROVE Begins'
  BY <1>5 DEF RegisterPipe, Typed, Begins
<1>6. ASSUME NEW c \in Channels,
             \/ SkipAfterFork(c) \/ InstallPipeService(c) \/ StopEventLoop(c)
             \/ WorkerEnds(c) \/ JoinTimesOut(c)
      PROVE  Begins'
  BY <1>6 DEF SkipAfterFork, InstallPipeService, StopEventLoop, WorkerEnds, JoinTimesOut,
              Typed, Begins
<1>7. ASSUME NEW c \in Channels, NEW t \in Threads,
             WriteLength(c, t) \/ WriteData(c, t) \/ BrokenPipe(c, t)
      PROVE  Begins'
  BY <1>7 DEF WriteLength, WriteData, BrokenPipe, Typed, Begins
<1> QED
  BY <1>1, <1>2, <1>3, <1>4, <1>5, <1>6, <1>7, NextCases

THEOREM TypedInvariant == Spec => []Typed
<1>1. Typed /\ [Next]_vars => Typed'
  <2>1. CASE Typed /\ Next
    BY <2>1, TypeStep, RootListensStep, BeginsStep DEF Typed
  <2>2. CASE Typed /\ UNCHANGED vars
    BY <2>2 DEF vars, Typed, TypeOK, RootListens, Begins
  <2> QED
    BY <2>1, <2>2
<1> QED
  BY <1>1, InitTyped, PTL DEF Spec

\* Every variable has its type, and the listener reads no further than was
\* written, whatever the processes that fork, linger, are killed or exit.
THEOREM TypeCorrectness == Spec => []TypeOK
BY TypedInvariant, PTL DEF Typed

----------------------------------------------------------------------------
(* A channel whose child is not there yet *)

Pending(p) == pc[p] \in {"registered", "forking"}

\* Nothing was written to it or read from it, and no thread uses it.
Fresh ==
  \A c \in Channels : pc[c] = "unborn" =>
    /\ stream[c] = <<>> /\ at[c] = 0 /\ \A t \in Threads : begun[c][t] = 0 /\ half[c][t] = 0
    /\ c \notin working /\ c \notin timedOut /\ c \notin joinTimedOut

\* Who is about to fork a child holds both ends of its pipe, and nobody else is
\* about to fork it.
KidsWait ==
  \A p \in Procs : Pending(p) =>
    /\ kid[p] \in Channels /\ pc[kid[p]] = "unborn" /\ kid[p] \in registered[p]
    /\ p \in readEnd[kid[p]] /\ p \in writeEnd[kid[p]]
    /\ \A q \in Procs : Pending(q) /\ kid[q] = kid[p] => q = p

RootsUnborn ==
  \A c \in registered[Root] : pc[c] = "unborn" => Pending(Root) /\ kid[Root] = c

\* The listener reads only pipes that it holds open, of children it has forked.
Watching ==
  /\ listener[Root] \in {"select", "merge", "body", "eof"} => watch[Root] \subseteq registered[Root]
  /\ listener[Root] = "select" => \A c \in watch[Root] : Root \in readEnd[c]
  /\ listener[Root] \in {"merge", "body", "eof"} =>
       \A c \in ready[Root] \ {Wake} : c \in watch[Root] /\ pc[c] # "unborn" /\ Root \in readEnd[c]
  /\ listener[Root] \in {"body", "eof"} =>
       /\ cur[Root] \in watch[Root] \ ready[Root] /\ pc[cur[Root]] # "unborn"
       /\ Root \in readEnd[cur[Root]]

\* Nobody else can read it.
HeldByParent ==
  \A c \in Channels : pc[c] = "unborn" => \A p \in readEnd[c] : Pending(p) /\ kid[p] = c

Registering == Fresh /\ KidsWait /\ RootsUnborn /\ Watching /\ HeldByParent

\* The listening is all Root's.
LEMMA ListenerIsRoot ==
  ASSUME Typed, NEW p \in Procs,
         \/ CleanUpPipes(p) \/ Select(p) \/ SelectTimesOut(p) \/ ReadFrame(p) \/ ReadGarbage(p)
         \/ ReadCutShort(p) \/ CloseAtEOF(p) \/ ReadWake(p) \/ \E c \in Channels : ReadLength(p, c)
  PROVE  p = Root
BY Roles DEF CleanUpPipes, Select, SelectTimesOut, ReadFrame, ReadGarbage, ReadCutShort,
             CloseAtEOF, ReadWake, ReadLength, Typed, RootListens

LEMMA FreshStep ==
  ASSUME Typed, Registering, Next
  PROVE  Fresh'
<1> USE Roles DEF Goto, ListenerGoto
<1>1. ASSUME NEW p \in Procs, StartListener(p) \/ Select(p) \/ SelectTimesOut(p) \/ ReadCutShort(p)
                              \/ CloseAtEOF(p) \/ ReadWake(p)
      PROVE  Fresh'
  BY <1>1 DEF StartListener, Select, SelectTimesOut, ReadCutShort, CloseAtEOF, ReadWake,
              Registering, Fresh
<1>2. ASSUME NEW p \in Procs, Wakeup(p) \/ Fork(p) PROVE Fresh'
  <2>1. /\ UNCHANGED <<stream, at, begun, half, working, timedOut, joinTimedOut>>
        /\ \A c \in Channels : pc'[c] = "unborn" => pc[c] = "unborn"
    BY <1>2 DEF Wakeup, Fork, Typed, TypeOK
  <2> QED
    BY <2>1 DEF Registering, Fresh
<1>3. ASSUME NEW p \in Procs, Leave(p) PROVE Fresh'
  BY <1>3 DEF Leave, Gone, Typed, TypeOK, Registering, Fresh
<1>4. ASSUME NEW p \in Procs, CleanUpPipes(p) PROVE Fresh'
  BY <1>4 DEF CleanUpPipes, Registering, Fresh
<1>5. ASSUME NEW p \in Procs, ReadFrame(p) \/ ReadGarbage(p) PROVE Fresh'
  <2>1. Consume(cur[p]) /\ p = Root /\ listener[p] = "body"
    BY <1>5, ListenerIsRoot DEF ReadFrame, ReadGarbage
  <2>2. pc[cur[p]] # "unborn"
    BY <2>1 DEF Registering, Watching
  <2> QED
    BY <1>5, <2>1, <2>2 DEF ReadFrame, ReadGarbage, Consume, Typed, TypeOK, Registering, Fresh
<1>6. ASSUME NEW p \in Procs, NEW c \in Channels, RegisterPipe(p, c) PROVE Fresh'
  BY <1>6 DEF RegisterPipe, Typed, TypeOK, Registering, Fresh
<1>7. ASSUME NEW p \in Procs, NEW c \in Channels, ReadLength(p, c) PROVE Fresh'
  <2>1. p = Root /\ listener[p] = "merge" /\ c \in ready[p] \ {Wake}
    BY <1>7, ListenerIsRoot DEF ReadLength
  <2>2. pc[c] # "unborn"
    BY <2>1 DEF Registering, Watching
  <2> QED
    BY <1>7, <2>2 DEF ReadLength, Consume, Typed, TypeOK, Registering, Fresh
<1>8. ASSUME NEW c \in Channels,
             \/ SkipAfterFork(c) \/ InstallPipeService(c) \/ StopEventLoop(c)
             \/ WorkerEnds(c) \/ JoinTimesOut(c)
      PROVE  Fresh'
  BY <1>8 DEF SkipAfterFork, InstallPipeService, StopEventLoop, WorkerEnds, JoinTimesOut,
              Typed, TypeOK, Registering, Fresh
<1>9. ASSUME NEW c \in Channels, NEW t \in Threads, WriteLength(c, t) \/ WriteData(c, t) \/ BrokenPipe(c, t)
      PROVE  Fresh'
  <2>1. pc[c] # "unborn"
    BY <1>9 DEF WriteLength, WriteData, BrokenPipe, MayBegin, Registering, Fresh
  <2> QED
    <3>1. /\ UNCHANGED <<at, working, timedOut, joinTimedOut>>
          /\ \A d \in Channels : d # c => /\ stream'[d] = stream[d] /\ begun'[d] = begun[d]
                                          /\ half'[d] = half[d] /\ pc'[d] = pc[d]
      BY <1>9 DEF WriteLength, WriteData, BrokenPipe, Write, Typed, TypeOK
    <3>2. pc'[c] # "unborn"
      BY <1>9, <2>1 DEF WriteLength, WriteData, BrokenPipe, Typed, TypeOK
    <3> QED
      BY <3>1, <3>2 DEF Registering, Fresh
<1> QED
  BY <1>1, <1>2, <1>3, <1>4, <1>5, <1>6, <1>7, <1>8, <1>9, NextCases

\* The end of a pipe closes no other.
LEMMA ClosesOnlyItsPipe ==
  ASSUME NEW p \in Procs, CloseAtEOF(p)
  PROVE  /\ AtEOF(cur[p]) \/ UNCHANGED ends
         /\ \A d \in Channels : d # cur[p] => readEnd'[d] = readEnd[d] /\ writeEnd'[d] = writeEnd[d]
<1>1. /\ AtEOF(cur[p]) \/ UNCHANGED ends
      /\ Close(p, {cur[p]}) \/ UNCHANGED ends
  BY DEF CloseAtEOF
<1>2. \A S : S \ {} = S
  OBVIOUS
<1> QED
  BY <1>1, <1>2 DEF Close

LEMMA KidsWaitStep ==
  ASSUME Typed, Registering, Next
  PROVE  KidsWait'
<1> USE Roles DEF Goto, ListenerGoto
<1>1. ASSUME NEW p \in Procs, StartListener(p) \/ Select(p) \/ SelectTimesOut(p) \/ ReadCutShort(p)
                              \/ ReadWake(p) \/ ReadFrame(p) \/ ReadGarbage(p)
      PROVE  KidsWait'
  BY <1>1 DEF StartListener, Select, SelectTimesOut, ReadCutShort, ReadFrame, ReadGarbage, ReadWake,
              Registering, KidsWait, Pending
<1>2. ASSUME NEW p \in Procs, Wakeup(p) PROVE KidsWait'
  BY <1>2 DEF Wakeup, Typed, TypeOK, Registering, KidsWait, Pending
<1>3. ASSUME NEW p \in Procs, Fork(p) PROVE KidsWait'
  <2>1. Pending(p) /\ kid[p] \in Channels /\ pc[kid[p]] = "unborn"
    BY <1>3 DEF Fork, Registering, KidsWait, Pending
  <2>2. \A q \in Procs : Pending(q)' => /\ q # p /\ q # kid[p] /\ Pending(q)
                                        /\ kid'[q] = kid[q] /\ registered'[q] = registered[q]
    BY <1>3, <2>1 DEF Fork, Typed, TypeOK, Pending
  <2>3. \A d \in Channels : readEnd[d] \subseteq readEnd'[d] /\ writeEnd[d] \subseteq writeEnd'[d]
    BY <1>3 DEF Fork, Inherited
  <2>4. \A q \in Procs : Pending(q)' => kid[q] # kid[p]
    BY <2>1, <2>2 DEF Registering, KidsWait
  <2>5. \A d \in Channels : d # kid[p] /\ pc[d] = "unborn" => pc'[d] = "unborn"
    BY <1>3, <2>1 DEF Fork, Typed, TypeOK, Pending
  <2> QED
    BY <2>2, <2>3, <2>4, <2>5 DEF Registering, KidsWait
<1>4. ASSUME NEW p \in Procs, Leave(p) PROVE KidsWait'
  <2>1. \A q \in Procs : Pending(q)' => /\ q # p /\ Pending(q) /\ registered'[q] = registered[q]
    BY <1>4 DEF Leave, Gone, Typed, TypeOK, Pending
  <2>2. \A d \in Channels : \A q \in Procs :
          q # p => (q \in readEnd[d] => q \in readEnd'[d]) /\ (q \in writeEnd[d] => q \in writeEnd'[d])
    BY <1>4 DEF Leave, Gone, Close
  <2>3. UNCHANGED kid /\ \A d \in Channels : pc[d] = "unborn" => pc'[d] = "unborn"
    BY <1>4 DEF Leave, Gone, Typed, TypeOK
  <2> QED
    BY <2>1, <2>2, <2>3 DEF Registering, KidsWait
<1>5. ASSUME NEW p \in Procs, CleanUpPipes(p) PROVE KidsWait'
  <2>1. PICK T \in SUBSET {c \in registered[p] \cap Lingering : p \in readEnd[c] /\ pc[c] # "unborn"} :
          /\ Close(p, T)
          /\ registered' = [registered EXCEPT ![p] = {c \in @ \ T : p \in readEnd[c]}]
    BY <1>5 DEF CleanUpPipes
  <2>2. UNCHANGED <<pc, kid>> /\ \A q \in Procs : Pending(q)' = Pending(q)
    BY <1>5 DEF CleanUpPipes, Pending
  <2>3. \A d \in Channels : pc[d] = "unborn" =>
          \A q \in Procs : (q \in readEnd[d] => q \in readEnd'[d]) /\ (q \in writeEnd[d] => q \in writeEnd'[d])
    BY <2>1 DEF Close
  <2>4. \A d \in Channels : pc[d] = "unborn" =>
          \A q \in Procs : d \in registered[q] /\ q \in readEnd[d] => d \in registered'[q]
    BY <2>1 DEF Typed, TypeOK
  <2> QED
    BY <2>2, <2>3, <2>4 DEF Registering, KidsWait
<1>6. ASSUME NEW p \in Procs, CloseAtEOF(p) PROVE KidsWait'
  <2>1. p = Root /\ cur[p] \in Channels /\ pc[cur[p]] # "unborn"
    BY <1>6, ListenerIsRoot DEF CloseAtEOF, Typed, Begins, Registering, Watching
  <2>2. \A d \in Channels : pc[d] = "unborn" => readEnd'[d] = readEnd[d] /\ writeEnd'[d] = writeEnd[d]
    BY <1>6, <2>1, ClosesOnlyItsPipe
  <2>3. UNCHANGED <<pc, kid, registered>>
    BY <1>6 DEF CloseAtEOF
  <2> QED
    BY <2>2, <2>3 DEF Registering, KidsWait, Pending
<1>7. ASSUME NEW p \in Procs, NEW c \in Channels, RegisterPipe(p, c) PROVE KidsWait'
  <2>1. /\ pc[p] = "running" /\ pc[c] = "unborn" /\ p # c
        /\ pc' = [pc EXCEPT ![p] = "registered"] /\ kid' = [kid EXCEPT ![p] = c]
        /\ \A q \in Procs : c \notin registered[q]
    BY <1>7 DEF RegisterPipe, CanFork
  <2>2. /\ p \in readEnd'[c] /\ p \in writeEnd'[c] /\ c \in registered'[p]
        /\ \A d \in Channels \ {c} : readEnd'[d] = readEnd[d] /\ writeEnd'[d] = writeEnd[d]
        /\ \A q \in Procs : registered[q] \subseteq registered'[q]
    BY <1>7 DEF RegisterPipe, Typed, TypeOK
  <2>3. \A q \in Procs : Pending(q)' <=> q = p \/ Pending(q)
    BY <2>1 DEF Pending, Typed, TypeOK
  <2>4. \A q \in Procs : q # p /\ Pending(q) => kid'[q] = kid[q] /\ kid[q] # c
    BY <2>1 DEF Registering, KidsWait, Typed, TypeOK
  <2>5. kid'[p] = c /\ pc'[c] = "unborn" /\ ~Pending(p)
    BY <2>1 DEF Typed, TypeOK, Pending
  <2>6. \A d \in Channels : pc[d] = "unborn" => pc'[d] = "unborn"
    BY <2>1 DEF Typed, TypeOK
  <2> QED
    BY <2>2, <2>3, <2>4, <2>5, <2>6 DEF Registering, KidsWait
<1>8. ASSUME NEW p \in Procs, NEW c \in Channels, ReadLength(p, c) PROVE KidsWait'
  <2>1. p = Root /\ pc[c] # "unborn"
    BY <1>8, ListenerIsRoot DEF ReadLength, Registering, Watching
  <2>2. \A d \in Channels : pc[d] = "unborn" => writeEnd'[d] = writeEnd[d]
    BY <1>8, <2>1 DEF ReadLength, Typed, TypeOK
  <2>3. UNCHANGED <<pc, kid, registered, readEnd>>
    BY <1>8 DEF ReadLength
  <2> QED
    BY <2>2, <2>3 DEF Registering, KidsWait, Pending
<1>9. ASSUME NEW c \in Channels,
             \/ SkipAfterFork(c) \/ StopEventLoop(c) \/ WorkerEnds(c) \/ JoinTimesOut(c)
      PROVE  KidsWait'
  <2>1. pc[c] # "unborn" /\ ~Pending(c)
        /\ \E there \in Stages : pc' = [pc EXCEPT ![c] = there] /\ there \notin {"unborn", "registered", "forking"}
    <3>1. CASE WorkerEnds(c)
      <4>1. pc[c] \in {"joining", "flushing"} /\ (pc' = [pc EXCEPT ![c] = "flushing"] \/ pc' = pc)
        BY <3>1 DEF WorkerEnds
      <4>2. pc' = [pc EXCEPT ![c] = "flushing"] \/ pc' = [pc EXCEPT ![c] = pc[c]]
        BY <4>1 DEF Typed, TypeOK
      <4> QED
        BY <4>1, <4>2 DEF Pending, Stages
    <3>2. CASE SkipAfterFork(c) \/ StopEventLoop(c) \/ JoinTimesOut(c)
      BY <3>2 DEF SkipAfterFork, StopEventLoop, JoinTimesOut, Pending, Stages
    <3> QED
      BY <1>9, <3>1, <3>2
  <2>2. UNCHANGED <<kid, registered, readEnd, writeEnd>>
    BY <1>9 DEF SkipAfterFork, StopEventLoop, WorkerEnds, JoinTimesOut
  <2> QED
    BY <2>1, <2>2 DEF Pending, Typed, TypeOK, Registering, KidsWait
<1>10. ASSUME NEW c \in Channels, InstallPipeService(c) PROVE KidsWait'
  <2>1. /\ pc[c] = "greeting" /\ pc' = [pc EXCEPT ![c] = "running"]
        /\ UNCHANGED <<kid, registered>>
    BY <1>10 DEF InstallPipeService
  <2>2. \A d \in Channels : \A q \in Procs :
          q # c => (q \in readEnd[d] => q \in readEnd'[d]) /\ (q \in writeEnd[d] => q \in writeEnd'[d])
    BY <1>10 DEF InstallPipeService, Close
  <2> QED
    BY <2>1, <2>2 DEF Pending, Typed, TypeOK, Registering, KidsWait
<1>11. ASSUME NEW c \in Channels, NEW t \in Threads, WriteLength(c, t) \/ WriteData(c, t) \/ BrokenPipe(c, t)
       PROVE  KidsWait'
  <2>1. pc[c] # "unborn"
    BY <1>11 DEF WriteLength, WriteData, BrokenPipe, MayBegin, Registering, Fresh
  <2>2. UNCHANGED <<kid, registered, writeEnd>>
        /\ \A d \in Channels : d # c => readEnd'[d] = readEnd[d]
    BY <1>11 DEF WriteLength, WriteData, BrokenPipe, Typed, TypeOK
  <2>3. UNCHANGED pc \/ (pc[c] = "forked" /\ pc' = [pc EXCEPT ![c] = "greeting"])
    BY <1>11 DEF WriteLength, WriteData, BrokenPipe
  <2> QED
    BY ZenonT(60), <2>1, <2>2, <2>3 DEF Pending, Typed, TypeOK, Registering, KidsWait
<1> QED
  BY <1>1, <1>2, <1>3, <1>4, <1>5, <1>6, <1>7, <1>8, <1>9, <1>10, <1>11, NextCases

LEMMA RootsUnbornStep ==
  ASSUME Typed, Registering, Next
  PROVE  RootsUnborn'
<1> USE Roles DEF Goto, ListenerGoto
<1>1. ASSUME NEW p \in Procs, StartListener(p) \/ Select(p) \/ SelectTimesOut(p) \/ ReadCutShort(p)
                              \/ ReadWake(p) \/ ReadFrame(p) \/ ReadGarbage(p) \/ CloseAtEOF(p)
      PROVE  RootsUnborn'
  BY <1>1 DEF StartListener, Select, SelectTimesOut, ReadCutShort, ReadFrame, ReadGarbage, ReadWake,
              CloseAtEOF, Registering, RootsUnborn, Pending
<1>2. ASSUME NEW p \in Procs, Wakeup(p) PROVE RootsUnborn'
  BY <1>2 DEF Wakeup, Typed, TypeOK, Registering, RootsUnborn, Pending
<1>3. ASSUME NEW p \in Procs, Fork(p) PROVE RootsUnborn'
  <2>1. Pending(p) /\ kid[p] \in Channels /\ pc[kid[p]] = "unborn"
    BY <1>3 DEF Fork, Registering, KidsWait, Pending
  <2>2. /\ registered'[Root] = registered[Root]
        /\ \A c \in Channels : pc'[c] = "unborn" => pc[c] = "unborn" /\ c # kid[p]
        /\ p # Root => kid'[Root] = kid[Root] /\ (Pending(Root) => Pending(Root)')
    BY <1>3, <2>1 DEF Fork, Typed, TypeOK, Pending
  <2> QED
    BY <2>2 DEF Typed, TypeOK, Registering, RootsUnborn
<1>4. ASSUME NEW p \in Procs, Leave(p) PROVE RootsUnborn'
  <2>1. /\ p = Root => registered'[Root] = {}
        /\ p # Root => registered'[Root] = registered[Root] /\ pc'[Root] = pc[Root]
        /\ kid' = kid /\ \A c \in Channels : pc'[c] = "unborn" => pc[c] = "unborn"
    BY <1>4 DEF Leave, Gone, Typed, TypeOK
  <2> QED
    BY <2>1 DEF Typed, TypeOK, Registering, RootsUnborn, Pending
<1>5. ASSUME NEW p \in Procs, CleanUpPipes(p) PROVE RootsUnborn'
  <2>1. registered'[Root] \subseteq registered[Root] /\ UNCHANGED <<pc, kid>>
    BY <1>5 DEF CleanUpPipes, Typed, TypeOK
  <2> QED
    BY <2>1 DEF Registering, RootsUnborn, Pending
<1>6. ASSUME NEW p \in Procs, NEW c \in Channels, RegisterPipe(p, c) PROVE RootsUnborn'
  <2>1. CASE p = Root
    <3>1. pc'[Root] = "registered" /\ kid'[Root] = c /\ registered'[Root] = registered[Root] \cup {c}
      BY <1>6, <2>1 DEF RegisterPipe, Typed, TypeOK
    <3>2. pc[Root] = "running" /\ \A d \in Channels : pc'[d] = pc[d]
      BY <1>6, <2>1 DEF RegisterPipe, CanFork, Typed, TypeOK
    <3> QED
      BY <3>1, <3>2 DEF Pending, Typed, TypeOK, Registering, RootsUnborn
  <2>2. CASE p # Root
    BY <1>6, <2>2 DEF RegisterPipe, Pending, Typed, TypeOK, Registering, RootsUnborn
  <2> QED
    BY <2>1, <2>2
<1>7. ASSUME NEW p \in Procs, NEW c \in Channels, ReadLength(p, c) PROVE RootsUnborn'
  BY <1>7 DEF ReadLength, Registering, RootsUnborn, Pending
<1>8. ASSUME NEW c \in Channels,
             \/ SkipAfterFork(c) \/ InstallPipeService(c) \/ StopEventLoop(c)
             \/ WorkerEnds(c) \/ JoinTimesOut(c)
             \/ \E t \in Threads : WriteLength(c, t) \/ WriteData(c, t) \/ BrokenPipe(c, t)
      PROVE  RootsUnborn'
  <2>1. /\ UNCHANGED <<registered, kid>> /\ pc'[Root] = pc[Root]
        /\ \A d \in Channels : pc'[d] = "unborn" => pc[d] = "unborn"
    BY <1>8 DEF SkipAfterFork, InstallPipeService, StopEventLoop, WorkerEnds, JoinTimesOut,
                WriteLength, WriteData, BrokenPipe, Typed, TypeOK
  <2> QED
    BY <2>1 DEF Pending, Typed, TypeOK, Registering, RootsUnborn
<1> QED
  BY <1>1, <1>2, <1>3, <1>4, <1>5, <1>6, <1>7, <1>8, NextCases

\* A pipe that is readable belongs to a child that was forked.
LEMMA ReadableBorn ==
  ASSUME Typed, Registering, NEW c \in registered[Root], Readable(c)
  PROVE  pc[c] # "unborn"
<1> SUFFICES ASSUME pc[c] = "unborn" PROVE FALSE
  OBVIOUS
<1>1. c \in Channels /\ Root \in Procs
  BY Roles DEF Typed, TypeOK
<1>2. Unread(c) = 0
  BY <1>1 DEF Unread, Registering, Fresh
<1>3. Root \in writeEnd[c]
  BY <1>1 DEF Registering, RootsUnborn, KidsWait
<1> QED
  BY <1>2, <1>3 DEF Readable, AtEOF

\* Whoever else moves, the listener keeps its pipes.
LEMMA WatchingKept ==
  ASSUME Typed, Registering, UNCHANGED <<listener, watch, ready, cur>>,
         registered[Root] \subseteq registered'[Root],
         \A c \in registered[Root] : Root \in readEnd[c] => Root \in readEnd'[c],
         \A c \in Channels : pc[c] # "unborn" => pc'[c] # "unborn"
  PROVE  Watching'
BY Roles DEF Typed, TypeOK, Registering, Watching

LEMMA WatchingStep ==
  ASSUME Typed, Registering, Next
  PROVE  Watching'
<1> USE Roles DEF Goto, ListenerGoto
<1>1. ASSUME NEW p \in Procs, Wakeup(p) \/ Fork(p) PROVE Watching'
  <2>1. p \in Procs /\ (Fork(p) => kid[p] \in Channels /\ pc[kid[p]] = "unborn")
    BY DEF Fork, Registering, KidsWait, Pending
  <2>2. registered'[Root] = registered[Root]
    BY <1>1, <2>1 DEF Wakeup, Fork, Typed, TypeOK
  <2>3. \A c \in Channels : Root \in readEnd[c] => Root \in readEnd'[c]
    BY <1>1 DEF Wakeup, Fork, Inherited
  <2>4. \A c \in Channels : pc[c] # "unborn" => pc'[c] # "unborn"
    BY <1>1 DEF Wakeup, Fork, Typed, TypeOK
  <2> QED
    BY <1>1, <2>2, <2>3, <2>4, WatchingKept DEF Wakeup, Fork, Typed, TypeOK
<1>2. ASSUME NEW p \in Procs, StartListener(p) PROVE Watching'
  <2>1. p = Root
    BY <1>2 DEF StartListener, CanFork, Typed, RootListens
  <2> QED
    BY <1>2, <2>1 DEF StartListener, Typed, TypeOK, Watching
<1>3. ASSUME NEW p \in Procs, Leave(p) PROVE Watching'
  <2>1. CASE p = Root
    BY <1>3, <2>1 DEF Leave, Gone, Typed, TypeOK, Watching
  <2>2. CASE p # Root
    <3>1. /\ listener' = listener /\ UNCHANGED <<watch, ready, cur>>
          /\ registered'[Root] = registered[Root]
      <4>1. listener[p] = "none"
        BY <2>2 DEF Typed, RootListens
      <4> QED
        BY <1>3, <2>2, <4>1 DEF Leave, Gone, Typed, TypeOK
    <3>2. \A c \in Channels : Root \in readEnd[c] => Root \in readEnd'[c]
      BY <1>3, <2>2 DEF Leave, Gone, Close
    <3>3. \A c \in Channels : pc[c] # "unborn" => pc'[c] # "unborn"
      BY <1>3 DEF Leave, Gone, Typed, TypeOK
    <3> QED
      BY <3>1, <3>2, <3>3, WatchingKept DEF Typed, TypeOK
  <2> QED
    BY <2>1, <2>2
<1>4. ASSUME NEW p \in Procs, CleanUpPipes(p) PROVE Watching'
  <2>1. p = Root
    BY <1>4, ListenerIsRoot
  <2>2. PICK T \in SUBSET {c \in registered[p] \cap Lingering : p \in readEnd[c] /\ pc[c] # "unborn"} :
          /\ Close(p, T)
          /\ registered' = [registered EXCEPT ![p] = {c \in @ \ T : p \in readEnd[c]}]
    BY <1>4 DEF CleanUpPipes
  <2>3. watch'[Root] = registered'[Root] /\ listener'[Root] = "select"
    BY <1>4, <2>1 DEF CleanUpPipes, Typed, TypeOK
  <2>4. \A c \in registered'[Root] : Root \in readEnd'[c]
    BY <2>1, <2>2 DEF Close, Typed, TypeOK
  <2> QED
    BY <2>3, <2>4 DEF Watching
<1>5. ASSUME NEW p \in Procs, Select(p) PROVE Watching'
  <2>1. p = Root /\ listener[p] = "select"
    BY <1>5, ListenerIsRoot DEF Select
  <2>2. /\ ready'[Root] = ReadableNow(Root) /\ listener'[Root] = "merge"
        /\ UNCHANGED <<watch, registered, readEnd, pc>>
    BY <1>5, <2>1 DEF Select, Typed, TypeOK
  <2>3. \A c \in ready'[Root] \ {Wake} : c \in watch[Root] /\ Readable(c)
    BY <2>2 DEF ReadableNow
  <2>4. watch[Root] \subseteq registered[Root] /\ \A c \in watch[Root] : Root \in readEnd[c]
    BY <2>1 DEF Registering, Watching
  <2> QED
    BY <2>1, <2>2, <2>3, <2>4, ReadableBorn DEF Watching
<1>6. ASSUME NEW p \in Procs, SelectTimesOut(p) \/ ReadWake(p) PROVE Watching'
  <2>1. p = Root
    BY <1>6, ListenerIsRoot
  <2> QED
    BY <1>6, <2>1 DEF SelectTimesOut, ReadWake, Typed, TypeOK, Watching
<1>7. ASSUME NEW p \in Procs, NEW c \in Channels, ReadLength(p, c) PROVE Watching'
  <2>1. p = Root /\ listener[p] = "merge" /\ c \in ready[p] \ {Wake}
    BY <1>7, ListenerIsRoot DEF ReadLength
  <2>2. /\ ready'[Root] = ready[Root] \ {c} /\ cur'[Root] = c /\ listener'[Root] \in {"body", "eof"}
        /\ UNCHANGED <<watch, registered, readEnd, pc>>
    BY <1>7, <2>1 DEF ReadLength, Typed, TypeOK
  <2> QED
    BY <2>1, <2>2 DEF Registering, Watching
<1>8. ASSUME NEW p \in Procs, ReadFrame(p) \/ ReadGarbage(p) \/ ReadCutShort(p) PROVE Watching'
  <2>1. p = Root /\ listener[p] = "body"
    BY <1>8, ListenerIsRoot DEF ReadFrame, ReadGarbage, ReadCutShort
  <2>2. /\ listener'[Root] \in {"body", "eof"}
        /\ UNCHANGED <<ready, cur, watch, registered, readEnd, pc>>
    BY <1>8, <2>1 DEF ReadFrame, ReadGarbage, ReadCutShort, Typed, TypeOK
  <2> QED
    BY <2>1, <2>2 DEF Registering, Watching
<1>9. ASSUME NEW p \in Procs, CloseAtEOF(p) PROVE Watching'
  <2>1. p = Root /\ listener[p] = "eof"
    BY <1>9, ListenerIsRoot DEF CloseAtEOF
  <2>2. /\ listener'[Root] = "merge"
        /\ UNCHANGED <<ready, cur, watch, registered, pc>>
    BY <1>9, <2>1 DEF CloseAtEOF, Typed, TypeOK
  <2>3. \A d \in Channels : d # cur[Root] => readEnd'[d] = readEnd[d]
    BY <1>9, <2>1, ClosesOnlyItsPipe
  <2> QED
    BY <2>1, <2>2, <2>3 DEF Typed, TypeOK, Registering, Watching
<1>10. ASSUME NEW p \in Procs, NEW c \in Channels, RegisterPipe(p, c) PROVE Watching'
  <2>1. /\ UNCHANGED <<listener, watch, ready, cur>>
        /\ registered[Root] \subseteq registered'[Root] /\ c \notin registered[Root]
        /\ \A d \in Channels : d # c => readEnd'[d] = readEnd[d]
    BY <1>10 DEF RegisterPipe, Typed, TypeOK
  <2>2. \A d \in Channels : pc[d] # "unborn" => pc'[d] # "unborn"
    BY <1>10 DEF RegisterPipe, Typed, TypeOK
  <2> QED
    BY <2>1, <2>2, WatchingKept DEF Typed, TypeOK
<1>11. ASSUME NEW c \in Channels,
              \/ SkipAfterFork(c) \/ InstallPipeService(c) \/ StopEventLoop(c)
              \/ WorkerEnds(c) \/ JoinTimesOut(c)
              \/ \E t \in Threads : WriteLength(c, t) \/ WriteData(c, t) \/ BrokenPipe(c, t)
       PROVE  Watching'
  <2>1. UNCHANGED <<listener, watch, ready, cur, registered>>
    BY <1>11 DEF SkipAfterFork, InstallPipeService, StopEventLoop, WorkerEnds, JoinTimesOut,
                WriteLength, WriteData, BrokenPipe
  <2>2. \A d \in Channels : pc[d] # "unborn" => pc'[d] # "unborn"
    BY <1>11 DEF SkipAfterFork, InstallPipeService, StopEventLoop, WorkerEnds, JoinTimesOut,
                WriteLength, WriteData, BrokenPipe, Typed, TypeOK
  <2>3. \A d \in Channels : Root \in readEnd[d] => Root \in readEnd'[d]
    BY <1>11 DEF SkipAfterFork, InstallPipeService, StopEventLoop, WorkerEnds, JoinTimesOut,
                WriteLength, WriteData, BrokenPipe, Close, Typed, TypeOK
  <2> QED
    BY <2>1, <2>2, <2>3, WatchingKept DEF Typed, TypeOK
<1> QED
  BY <1>1, <1>2, <1>3, <1>4, <1>5, <1>6, <1>7, <1>8, <1>9, <1>10, <1>11, NextCases

LEMMA HeldByParentStep ==
  ASSUME Typed, Registering, Next
  PROVE  HeldByParent'
<1> USE Roles DEF Goto, ListenerGoto
<1>1. ASSUME NEW p \in Procs, Fork(p) PROVE HeldByParent'
  <2>1. Pending(p) /\ kid[p] \in Channels /\ pc[kid[p]] = "unborn"
    BY <1>1 DEF Fork, Registering, KidsWait, Pending
  <2>2. \A c \in Channels : pc'[c] = "unborn" => pc[c] = "unborn" /\ c # kid[p]
    BY <1>1, <2>1 DEF Fork, Typed, TypeOK
  <2>3. \A c \in Channels : pc'[c] = "unborn" => p \notin readEnd[c] /\ readEnd'[c] = readEnd[c]
    BY <1>1, <2>2 DEF Fork, Inherited, Registering, HeldByParent
  <2>4. \A q \in Procs : Pending(q) /\ q # p => Pending(q)' /\ kid'[q] = kid[q]
    BY <1>1, <2>1 DEF Fork, Typed, TypeOK, Pending
  <2> QED
    BY <2>2, <2>3, <2>4 DEF Typed, TypeOK, Registering, HeldByParent
<1>2. ASSUME NEW p \in Procs, Leave(p) PROVE HeldByParent'
  <2>1. \A c \in Channels : readEnd'[c] = readEnd[c] \ {p}
    BY <1>2 DEF Leave, Gone, Close
  <2> QED
    BY <1>2, <2>1 DEF Leave, Gone, Typed, TypeOK, Pending, Registering, HeldByParent
<1>3. ASSUME NEW p \in Procs, NEW c \in Channels, RegisterPipe(p, c) PROVE HeldByParent'
  <2>1. /\ pc[p] = "running" /\ pc' = [pc EXCEPT ![p] = "registered"] /\ kid' = [kid EXCEPT ![p] = c]
        /\ readEnd' = [readEnd EXCEPT ![c] = {p}]
    BY <1>3 DEF RegisterPipe, CanFork
  <2> QED
    BY <2>1 DEF Typed, TypeOK, Pending, Registering, HeldByParent
<1>4. ASSUME NEW p \in Procs,
             \/ StartListener(p) \/ Wakeup(p) \/ CleanUpPipes(p) \/ Select(p) \/ SelectTimesOut(p)
             \/ ReadFrame(p) \/ ReadGarbage(p) \/ ReadCutShort(p) \/ CloseAtEOF(p) \/ ReadWake(p)
             \/ \E c \in Channels : ReadLength(p, c)
      PROVE  HeldByParent'
  <2>1. \A d \in Channels : readEnd'[d] \subseteq readEnd[d]
    BY <1>4 DEF StartListener, Wakeup, CleanUpPipes, Select, SelectTimesOut, ReadFrame, ReadGarbage,
                ReadCutShort, CloseAtEOF, ReadWake, ReadLength, Close
  <2>2. /\ kid' = kid /\ \A q \in Procs : Pending(q)' = Pending(q)
        /\ \A d \in Channels : pc'[d] = "unborn" => pc[d] = "unborn"
    BY <1>4 DEF StartListener, Wakeup, CleanUpPipes, Select, SelectTimesOut, ReadFrame, ReadGarbage,
                ReadCutShort, CloseAtEOF, ReadWake, ReadLength, Pending, Typed, TypeOK
  <2> QED
    BY <2>1, <2>2 DEF Typed, TypeOK, Registering, HeldByParent
<1>5. ASSUME NEW c \in Channels,
             \/ SkipAfterFork(c) \/ InstallPipeService(c) \/ StopEventLoop(c)
             \/ WorkerEnds(c) \/ JoinTimesOut(c)
             \/ \E t \in Threads : WriteLength(c, t) \/ WriteData(c, t) \/ BrokenPipe(c, t)
      PROVE  HeldByParent'
  <2>1. \A d \in Channels : readEnd'[d] \subseteq readEnd[d]
    BY <1>5 DEF SkipAfterFork, InstallPipeService, StopEventLoop, WorkerEnds, JoinTimesOut,
                WriteLength, WriteData, BrokenPipe, Close, Typed, TypeOK
  <2>2. /\ kid' = kid /\ \A q \in Procs : Pending(q) => Pending(q)'
        /\ \A d \in Channels : pc'[d] = "unborn" => pc[d] = "unborn"
    BY <1>5 DEF SkipAfterFork, InstallPipeService, StopEventLoop, WorkerEnds, JoinTimesOut,
                WriteLength, WriteData, BrokenPipe, Pending, Typed, TypeOK
  <2> QED
    BY <2>1, <2>2 DEF Typed, TypeOK, Registering, HeldByParent
<1> QED
  BY <1>1, <1>2, <1>3, <1>4, <1>5, NextCases

THEOREM RegisteringInvariant == Spec => []Registering
<1>1. Init => Registering
  <2> SUFFICES ASSUME Init PROVE Registering
    OBVIOUS
  <2>1. Fresh /\ KidsWait
    BY DEF Init, Fresh, KidsWait, Pending
  <2>2. RootsUnborn /\ Watching
    BY Roles DEF Init, RootsUnborn, Watching
  <2>3. HeldByParent
    BY DEF Init, HeldByParent
  <2> QED
    BY <2>1, <2>2, <2>3 DEF Registering
<1>2. Typed /\ Registering /\ [Next]_vars => Registering'
  <2>1. CASE Typed /\ Registering /\ Next
    BY <2>1, FreshStep, KidsWaitStep, RootsUnbornStep, WatchingStep, HeldByParentStep DEF Registering
  <2>2. CASE Registering /\ UNCHANGED vars
    BY <2>2 DEF vars, Registering, Fresh, KidsWait, RootsUnborn, Watching, HeldByParent,
           Pending
  <2> QED
    BY <2>1, <2>2
<1> QED
  BY <1>1, <1>2, TypedInvariant, PTL DEF Spec

----------------------------------------------------------------------------
(* The listener neither misses a pipe nor gives one up *)

LEMMA NoticedStep ==
  ASSUME Typed, Registering, RegistrationNoticed, Next
  PROVE  RegistrationNoticed'
<1> USE Roles DEF Goto, ListenerGoto
<1>1. SUFFICES ASSUME listener'[Root] = "select",
                      NEW c \in registered'[Root] \ watch'[Root],
                      ~(wake' > 0), pc'[Root] # "registered"
               PROVE  FALSE
  <2>1. \A p \in Procs : listener'[p] = "select" => p = Root
    BY RootListensStep DEF RootListens
  <2> QED
    BY <1>1, <2>1 DEF RegistrationNoticed
<1>2. ~(listener[Root] = "select" /\ wake' = wake /\ c \in registered[Root] \ watch[Root]
        /\ pc[Root] # "registered")
  BY <1>1 DEF RegistrationNoticed
<1>3. ASSUME NEW p \in Procs,
             \/ StartListener(p) \/ CleanUpPipes(p) \/ Select(p) \/ SelectTimesOut(p) \/ ReadFrame(p)
             \/ ReadGarbage(p) \/ ReadCutShort(p) \/ CloseAtEOF(p) \/ ReadWake(p)
             \/ \E d \in Channels : ReadLength(p, d)
      PROVE  FALSE
  <2>1. p = Root
    BY <1>3, ListenerIsRoot DEF StartListener, CanFork, Typed, RootListens
  <2> QED
    BY <1>1, <1>3, <2>1 DEF StartListener, CleanUpPipes, Select, SelectTimesOut, ReadFrame, ReadGarbage,
       ReadCutShort, CloseAtEOF, ReadWake, ReadLength, Typed, TypeOK
<1>4. ASSUME NEW p \in Procs, Wakeup(p) PROVE FALSE
  BY <1>1, <1>4 DEF Wakeup, Typed, TypeOK
<1>5. ASSUME NEW p \in Procs, Fork(p) PROVE FALSE
  <2>1. kid[p] \in Channels
    BY <1>5 DEF Fork, Registering, KidsWait, Pending
  <2> QED
    BY <1>1, <1>2, <1>5, <2>1 DEF Fork, Typed, TypeOK
<1>6. ASSUME NEW p \in Procs, Leave(p) PROVE FALSE
  <2>1. p # Root
    BY <1>1, <1>6 DEF Leave, Gone, Typed, TypeOK
  <2> QED
    BY <1>1, <1>2, <1>6, <2>1 DEF Leave, Gone, Typed, TypeOK
<1>7. ASSUME NEW p \in Procs, NEW d \in Channels, RegisterPipe(p, d) PROVE FALSE
  BY <1>1, <1>2, <1>7 DEF RegisterPipe, Typed, TypeOK
<1>8. ASSUME NEW d \in Channels,
             \/ SkipAfterFork(d) \/ InstallPipeService(d) \/ StopEventLoop(d)
             \/ WorkerEnds(d) \/ JoinTimesOut(d)
             \/ \E t \in Threads : WriteLength(d, t) \/ WriteData(d, t) \/ BrokenPipe(d, t)
      PROVE  FALSE
  BY <1>1, <1>2, <1>8 DEF SkipAfterFork, InstallPipeService, StopEventLoop, WorkerEnds, JoinTimesOut,
     WriteLength, WriteData, BrokenPipe, Typed, TypeOK
<1> QED
  BY <1>3, <1>4, <1>5, <1>6, <1>7, <1>8, NextCases

\* The wake pipe and the order of registering and waking up make up for the copy of
\* the pipes that the listener selects on (register_pipe, wakeup, the listener's loop).
THEOREM RegistrationIsNoticed == Spec => []RegistrationNoticed
<1>1. Init => RegistrationNoticed
  BY DEF Init, RegistrationNoticed
<1>2. Typed /\ Registering /\ RegistrationNoticed /\ [Next]_vars => RegistrationNoticed'
  <2>1. CASE Typed /\ Registering /\ RegistrationNoticed /\ Next
    BY <2>1, NoticedStep
  <2>2. CASE RegistrationNoticed /\ UNCHANGED vars
    BY <2>2 DEF vars, RegistrationNoticed
  <2> QED
    BY <2>1, <2>2
<1> QED
  BY <1>1, <1>2, TypedInvariant, RegisteringInvariant, PTL DEF Spec

\* A process loses the reading end of another's pipe only by its exit, by the
\* time-out, or at the end of what was written (Pipe#close and its callers).
THEOREM NothingIsCutOff == Spec => NothingCutOff
<1> DEFINE Kept == \A p \in Procs : \A c \in Channels :
                     /\ p \in readEnd[c] /\ p \notin readEnd'[c]
                     /\ p # c /\ pc'[p] # "exited" /\ c \notin timedOut'
                     => Unread(c) = 0 /\ writeEnd[c] = {}
<1>1. Typed /\ Registering /\ Next => Kept
  <2> SUFFICES ASSUME Typed, Registering, Next, NEW q \in Procs, NEW d \in Channels,
                      q \in readEnd[d], q \notin readEnd'[d], q # d, pc'[q] # "exited", d \notin timedOut'
               PROVE  Unread(d) = 0 /\ writeEnd[d] = {}
    OBVIOUS
  <2> USE Roles DEF Goto, ListenerGoto
  <2>1. ASSUME NEW p \in Procs, Leave(p) PROVE FALSE
    BY <2>1 DEF Leave, Gone, Close, Typed, TypeOK
  <2>2. ASSUME NEW p \in Procs, CleanUpPipes(p) PROVE FALSE
    BY <2>2 DEF CleanUpPipes, Close, Typed, TypeOK
  <2>3. ASSUME NEW p \in Procs, CloseAtEOF(p) PROVE Unread(d) = 0 /\ writeEnd[d] = {}
    BY <2>3, ClosesOnlyItsPipe DEF AtEOF
  <2>4. ASSUME NEW p \in Procs, NEW c \in Channels, RegisterPipe(p, c) PROVE FALSE
    <3>1. c = d /\ pc[c] = "unborn" /\ \A r \in Procs : c \notin registered[r]
      BY <2>4 DEF RegisterPipe, Typed, TypeOK
    <3>2. Pending(q) /\ kid[q] = c
      BY <3>1 DEF Registering, HeldByParent
    <3> QED
      BY <3>1, <3>2 DEF Registering, KidsWait
  <2>5. ASSUME NEW p \in Procs,
               \/ StartListener(p) \/ Wakeup(p) \/ Fork(p) \/ Select(p) \/ SelectTimesOut(p)
               \/ ReadFrame(p) \/ ReadGarbage(p) \/ ReadCutShort(p) \/ ReadWake(p)
               \/ \E c \in Channels : ReadLength(p, c)
        PROVE  FALSE
    BY <2>5 DEF StartListener, Wakeup, Fork, Inherited, Select, SelectTimesOut, ReadFrame, ReadGarbage,
       ReadCutShort, ReadWake, ReadLength
  <2>6. ASSUME NEW c \in Channels,
               \/ SkipAfterFork(c) \/ InstallPipeService(c) \/ StopEventLoop(c)
               \/ WorkerEnds(c) \/ JoinTimesOut(c)
               \/ \E t \in Threads : WriteLength(c, t) \/ WriteData(c, t) \/ BrokenPipe(c, t)
        PROVE  FALSE
    BY <2>6 DEF SkipAfterFork, InstallPipeService, StopEventLoop, WorkerEnds, JoinTimesOut,
       WriteLength, WriteData, BrokenPipe, Close, Typed, TypeOK
  <2> QED
    BY <2>1, <2>2, <2>3, <2>4, <2>5, <2>6, NextCases
<1>2. UNCHANGED vars => Kept
  BY DEF vars
<1>3. Typed /\ Registering /\ [Next]_vars => [Kept]_vars
  BY <1>1
<1>4. [][Kept]_vars => NothingCutOff
  BY DEF NothingCutOff
<1> QED
  BY <1>3, <1>4, TypedInvariant, RegisteringInvariant, PTL DEF Spec

----------------------------------------------------------------------------
(* Who writes: a child's main thread and its worker take turns *)

\* The worker of a child that flushes has outlived the join.
WorkerElsewhere ==
  \A c \in working : \/ pc[c] \in {"running", "registered", "forking", "joining"}
                     \/ pc[c] = "flushing" /\ c \in joinTimedOut

\* A thread in the middle of a frame is one that writes, and can.
HalfWritten ==
  \A c \in Channels :
    /\ half[c][Main] # 0 => pc[c] \in {"greeting", "flushing"}
    /\ half[c][Worker] # 0 => c \in working
    /\ pc[c] = "forked" \/ half[c][Main] # 0 \/ half[c][Worker] # 0 => c \in writeEnd[c]

Turns == WorkerElsewhere /\ HalfWritten

LEMMA TurnsStep ==
  ASSUME Typed, Registering, Turns, Next
  PROVE  Turns'
<1> USE Roles DEF Goto, ListenerGoto, Turns
<1>1. ASSUME NEW p \in Procs,
             \/ StartListener(p) \/ Select(p) \/ SelectTimesOut(p) \/ ReadFrame(p) \/ ReadGarbage(p)
             \/ ReadCutShort(p) \/ ReadWake(p)
      PROVE  Turns'
  BY <1>1 DEF StartListener, Select, SelectTimesOut, ReadFrame, ReadGarbage, ReadCutShort, ReadWake,
              WorkerElsewhere, HalfWritten
<1>2. ASSUME NEW p \in Procs,
             CleanUpPipes(p) \/ CloseAtEOF(p) \/ \E c \in Channels : ReadLength(p, c)
      PROVE  Turns'
  <2>1. p = Root
    BY <1>2, ListenerIsRoot
  <2>2. UNCHANGED <<pc, working, joinTimedOut, half>>
    BY <1>2 DEF CleanUpPipes, CloseAtEOF, ReadLength
  <2>3. \A c \in Channels : c \in writeEnd[c] => c \in writeEnd'[c]
    <3>1. CASE CleanUpPipes(p) \/ CloseAtEOF(p)
      <4>1. (\E C : Close(p, C)) \/ UNCHANGED ends
        BY <3>1 DEF CleanUpPipes, CloseAtEOF
      <4> QED
        BY <2>1, <4>1 DEF Close
    <3>2. ASSUME NEW c \in Channels, ReadLength(p, c)
          PROVE  \A d \in Channels : d \in writeEnd[d] => d \in writeEnd'[d]
      BY <2>1, <3>2 DEF ReadLength, Typed, TypeOK
    <3> QED
      BY <1>2, <3>1, <3>2
  <2> QED
    BY <2>2, <2>3 DEF WorkerElsewhere, HalfWritten
<1>3. ASSUME NEW p \in Procs, Wakeup(p) \/ Fork(p) \/ \E c \in Channels : RegisterPipe(p, c)
      PROVE  Turns'
  <2>1. /\ pc[p] \in {"running", "registered", "forking"}
        /\ pc'[p] \in {"running", "registered", "forking"}
        /\ UNCHANGED <<working, joinTimedOut, half>>
    BY <1>3 DEF Wakeup, Fork, RegisterPipe, CanFork, Registering, KidsWait, Pending, Typed, TypeOK
  <2>2. CASE Fork(p)
    <3>1. Pending(p) /\ kid[p] \in Channels /\ pc[kid[p]] = "unborn" /\ p \in writeEnd[kid[p]]
      BY <2>2 DEF Fork, Registering, KidsWait, Pending
    <3>2. \A c \in Channels : c # p /\ c # kid[p] => pc'[c] = pc[c]
      BY <2>2, <3>1 DEF Fork, Typed, TypeOK
    <3>3. kid[p] \notin working /\ half[kid[p]][Main] = 0 /\ half[kid[p]][Worker] = 0
      BY <3>1 DEF Registering, Fresh
    <3>4. kid[p] \in writeEnd'[kid[p]] /\ \A c \in Channels : c \in writeEnd[c] => c \in writeEnd'[c]
      BY <2>2, <3>1 DEF Fork, Inherited
    <3>5. pc'[kid[p]] = "forked"
      BY <2>2, <3>1 DEF Fork, Typed, TypeOK
    <3> QED
      BY <2>1, <3>2, <3>3, <3>4, <3>5 DEF Typed, TypeOK, WorkerElsewhere, HalfWritten
  <2>3. CASE Wakeup(p)
    BY <2>1, <2>3 DEF Wakeup, Typed, TypeOK, WorkerElsewhere, HalfWritten
  <2>4. ASSUME NEW c \in Channels, RegisterPipe(p, c) PROVE Turns'
    <3>1. /\ \A d \in Channels : d # p => pc'[d] = pc[d]
          /\ \A d \in Channels : d # c => writeEnd'[d] = writeEnd[d]
          /\ pc[c] = "unborn" /\ pc'[c] = "unborn"
      BY <2>4 DEF RegisterPipe, CanFork, Typed, TypeOK
    <3>2. half[c][Main] = 0 /\ half[c][Worker] = 0
      BY <3>1 DEF Registering, Fresh
    <3> QED
      BY <2>1, <3>1, <3>2 DEF Typed, TypeOK, WorkerElsewhere, HalfWritten
  <2> QED
    BY <1>3, <2>2, <2>3, <2>4
<1>4. ASSUME NEW p \in Procs, Leave(p) PROVE Turns'
  <2>1. /\ p \notin working' /\ working' \subseteq working
        /\ p \in Channels => half'[p][Main] = 0 /\ half'[p][Worker] = 0 /\ pc'[p] = "exited"
        /\ \A c \in Channels : c # p => pc'[c] = pc[c] /\ half'[c] = half[c] /\ (c \in working => c \in working')
        /\ \A c \in Channels : c # p /\ c \in writeEnd[c] => c \in writeEnd'[c]
        /\ UNCHANGED joinTimedOut
    BY <1>4 DEF Leave, Gone, Close, Typed, TypeOK
  <2> QED
    BY <2>1 DEF Typed, TypeOK, WorkerElsewhere, HalfWritten
<1>5. ASSUME NEW c \in Channels, SkipAfterFork(c) \/ StopEventLoop(c) \/ JoinTimesOut(c) PROVE Turns'
  <2>1. /\ UNCHANGED <<working, half, writeEnd>>
        /\ \A d \in Channels : d # c => pc'[d] = pc[d]
        /\ joinTimedOut \subseteq joinTimedOut'
    BY <1>5 DEF SkipAfterFork, StopEventLoop, JoinTimesOut, Typed, TypeOK
  <2>2. /\ pc[c] \in {"forked", "running", "joining"} /\ pc'[c] \in {"running", "joining", "flushing"}
        /\ c \in working => pc'[c] \in {"running", "joining"} \/ c \in joinTimedOut'
    BY <1>5 DEF SkipAfterFork, StopEventLoop, JoinTimesOut, Typed, TypeOK
  <2> QED
    BY <2>1, <2>2 DEF Typed, TypeOK, WorkerElsewhere, HalfWritten
<1>6. ASSUME NEW c \in Channels, InstallPipeService(c) PROVE Turns'
  <2>1. /\ pc[c] = "greeting" /\ pc'[c] = "running" /\ half[c][Main] = 0
        /\ \A d \in Channels : d # c => pc'[d] = pc[d]
        /\ working \subseteq working' /\ working' \subseteq working \cup {c}
        /\ UNCHANGED <<half, joinTimedOut>>
        /\ \A d \in Channels : d # c /\ d \in writeEnd[d] => d \in writeEnd'[d]
    BY <1>6 DEF InstallPipeService, Close, Typed, TypeOK
  <2>2. half[c][Worker] = 0
    BY <2>1 DEF WorkerElsewhere, HalfWritten
  <2> QED
    BY <2>1, <2>2 DEF Typed, TypeOK, WorkerElsewhere, HalfWritten
<1>7. ASSUME NEW c \in Channels, WorkerEnds(c) PROVE Turns'
  <2>1. /\ half[c][Worker] = 0 /\ pc[c] \in {"joining", "flushing"}
        /\ \A d \in Channels : d # c => pc'[d] = pc[d]
        /\ pc'[c] \in {"joining", "flushing"} /\ working' = working \ {c}
        /\ UNCHANGED <<half, joinTimedOut, writeEnd>>
        /\ pc[c] = "flushing" => pc'[c] = "flushing"
    BY <1>7 DEF WorkerEnds, Typed, TypeOK
  <2> QED
    BY <2>1 DEF Typed, TypeOK, WorkerElsewhere, HalfWritten
<1>8. ASSUME NEW c \in Channels, NEW t \in Threads, WriteLength(c, t) PROVE Turns'
  <2>1. /\ MayBegin(c, t) /\ UNCHANGED <<working, writeEnd, joinTimedOut>>
        /\ \A d \in Channels : d # c => pc'[d] = pc[d] /\ half'[d] = half[d]
        /\ \A u \in Threads : u # t => half'[c][u] = half[c][u]
        /\ pc'[c] = IF pc[c] = "forked" THEN "greeting" ELSE pc[c]
    BY <1>8 DEF WriteLength, Typed, TypeOK
  <2>2. c \in writeEnd[c] /\ (t = Main => pc[c] \in {"forked", "flushing"}) /\ (t = Worker => c \in working)
    BY <2>1 DEF MayBegin, HalfWritten
  <2> QED
    BY <2>1, <2>2 DEF Typed, TypeOK, WorkerElsewhere, HalfWritten
<1>9. ASSUME NEW c \in Channels, NEW t \in Threads, WriteData(c, t) \/ BrokenPipe(c, t) PROVE Turns'
  <2>1. /\ UNCHANGED <<pc, working, writeEnd, joinTimedOut>>
        /\ \A d \in Channels : d # c => half'[d] = half[d]
        /\ \A u \in Threads : half'[c][u] = half[c][u] \/ half'[c][u] = 0
    BY <1>9 DEF WriteData, BrokenPipe, Typed, TypeOK
  <2> QED
    BY <2>1 DEF Typed, TypeOK, WorkerElsewhere, HalfWritten
<1> QED
  BY <1>1, <1>2, <1>3, <1>4, <1>5, <1>6, <1>7, <1>8, <1>9, NextCases

THEOREM TurnsInvariant == Spec => []Turns
<1>1. Init => Turns
  BY Roles DEF Init, Turns, WorkerElsewhere, HalfWritten
<1>2. Typed /\ Registering /\ Turns /\ [Next]_vars => Turns'
  <2>1. CASE Typed /\ Registering /\ Turns /\ Next
    BY <2>1, TurnsStep
  <2>2. CASE Turns /\ UNCHANGED vars
    BY <2>2 DEF vars, Turns, WorkerElsewhere, HalfWritten
  <2> QED
    BY <2>1, <2>2
<1> QED
  BY <1>1, <1>2, TypedInvariant, RegisteringInvariant, PTL DEF Spec

----------------------------------------------------------------------------
(* What is written *)

InOrder(c, n) == \A k \in 1..n : stream[c][k] = Part(k)
Whole(c) == InOrder(c, Len(stream[c]))

\* A pipe that may be written to, now or once its child is there.
Open(c) == pc[c] # "exited" /\ (pc[c] = "unborn" \/ readEnd[c] # {})

\* As long as its framing was kept, an open pipe has all frames that were begun,
\* and a thread that has half-written one has half-written the last.
LastFrame ==
  \A c \in Channels : Whole(c) /\ Open(c) =>
    \/ /\ Len(stream[c]) = 2 * Begun(c)
       /\ \A t \in Threads : half[c][t] = 0
    \/ /\ Len(stream[c]) = 2 * Begun(c) - 1
       /\ \E t \in Threads : half[c][t] = Begun(c) /\ \A u \in Threads \ {t} : half[c][u] = 0

\* What follows complete frames is the length of the next.
LengthNext ==
  \A c \in Channels : \A k \in 1..Len(stream[c]) :
    k % 2 = 1 /\ InOrder(c, k - 1) => stream[c][k] = Part(k)

DataSent ==
  \A c \in Channels : \A k \in 1..Len(stream[c]) :
    stream[c][k].part = "data" => stream[c][k].n \in sent[c]

Framing == LastFrame /\ LengthNext /\ DataSent /\ FramesIntact

LEMMA OddBeforeEven ==
  ASSUME NEW l \in Nat, NEW b \in Nat, l = 2 * b - 1
  PROVE  (l + 1) % 2 # 1
<1>1. l + 1 = 2 * b /\ (2 * b) % 2 = 0
  OBVIOUS
<1> QED
  BY <1>1

\* Threads that write in turn do not write at once.
LEMMA OneWrites ==
  ASSUME Typed, Turns, NEW c \in Channels, c \notin joinTimedOut,
         NEW t \in Threads, MayBegin(c, t) \/ half[c][t] # 0
  PROVE  \A u \in Threads \ {t} : half[c][u] = 0
BY Roles DEF MayBegin, Turns, WorkerElsewhere, HalfWritten, Typed, TypeOK

\* A stream with one more part.
LEMMA Appended ==
  ASSUME TypeOK, NEW c \in Channels, NEW n \in Numbers, NEW part \in {"length", "data"},
         Write(c, n, part)
  PROVE  /\ Len(stream[c]) \in Nat
         /\ Len(stream'[c]) = Len(stream[c]) + 1
         /\ \A k \in 1..Len(stream[c]) : stream'[c][k] = stream[c][k]
         /\ stream'[c][Len(stream[c]) + 1] = [n |-> n, part |-> part]
         /\ \A d \in Channels \ {c} : stream'[d] = stream[d]
<1>1. stream[c] \in Seq(Tokens) /\ [n |-> n, part |-> part] \in Tokens
  BY DEF TypeOK, Tokens
<1>2. stream' = [stream EXCEPT ![c] = Append(stream[c], [n |-> n, part |-> part])]
  BY DEF Write
<1> QED
  BY <1>1, <1>2 DEF TypeOK

LEMMA OrderOfAppended ==
  ASSUME NEW c \in Channels, Len(stream[c]) \in Nat, Len(stream'[c]) = Len(stream[c]) + 1,
         \A k \in 1..Len(stream[c]) : stream'[c][k] = stream[c][k]
  PROVE  /\ \A n \in 0..Len(stream[c]) : InOrder(c, n)' <=> InOrder(c, n)
         /\ Whole(c)' <=> Whole(c) /\ stream'[c][Len(stream[c]) + 1] = Part(Len(stream[c]) + 1)
<1>1. ASSUME NEW n \in 0..Len(stream[c]) PROVE InOrder(c, n)' <=> InOrder(c, n)
  <2>1. \A k \in 1..n : k \in 1..Len(stream[c])
    OBVIOUS
  <2> QED
    BY <2>1 DEF InOrder, Part
<1>2. Whole(c)' <=> \A k \in 1..(Len(stream[c]) + 1) : stream'[c][k] = Part(k)
  BY DEF Whole, InOrder, Part
<1>3. \A k \in 1..(Len(stream[c]) + 1) : k \in 1..Len(stream[c]) \/ k = Len(stream[c]) + 1
  OBVIOUS
<1>4. 1..Len(stream[c]) \subseteq 1..(Len(stream[c]) + 1) /\ Len(stream[c]) + 1 \in 1..(Len(stream[c]) + 1)
  OBVIOUS
<1> QED
  BY <1>1, <1>2, <1>3, <1>4 DEF Whole, InOrder

LEMMA WriteLengthKeepsFraming ==
  ASSUME Typed, Registering, Turns, Framing, NEW c \in Channels, NEW t \in Threads, WriteLength(c, t)
  PROVE  Framing'
<1> USE Roles
<1> DEFINE s == stream[c]
           L == Len(stream[c])
           B == Begun(c)
<1>1. /\ MayBegin(c, t) /\ half[c][t] = 0 /\ B + 1 \in Numbers /\ Write(c, B + 1, "length")
      /\ half' = [half EXCEPT ![c][t] = B + 1] /\ begun' = [begun EXCEPT ![c][t] = @ + 1]
      /\ UNCHANGED <<sent, joinTimedOut>>
  <2>1. begun[c][t] < MaxFrames[c][t]
    BY BoundsAssumption DEF WriteLength, Typed, TypeOK, Threads, Main, Worker
  <2> QED
    BY <2>1, BegunIsNatural DEF WriteLength, Typed
<1>2. /\ L \in Nat /\ B \in Nat
      /\ Len(stream'[c]) = L + 1 /\ \A k \in 1..L : stream'[c][k] = stream[c][k]
      /\ stream'[c][L + 1] = [n |-> B + 1, part |-> "length"]
      /\ \A d \in Channels \ {c} : stream'[d] = stream[d]
  BY <1>1, Appended, BegunIsNatural DEF Typed
<1>3. Begun(c)' = B + 1 /\ \A d \in Channels \ {c} : Begun(d)' = Begun(d)
  <2>1. begun[c][Main] \in Nat /\ begun[c][Worker] \in Nat
    BY DEF Typed, TypeOK
  <2>2. CASE t = Main
    BY <1>1, <2>1, <2>2 DEF Begun, Typed, TypeOK
  <2>3. CASE t = Worker
    BY <1>1, <2>1, <2>3 DEF Begun, Typed, TypeOK
  <2> QED
    BY <2>2, <2>3
<1>4. /\ \A d \in Channels \ {c} : half'[d] = half[d] /\ (Open(d)' <=> Open(d))
      /\ half'[c][t] = B + 1 /\ \A u \in Threads \ {t} : half'[c][u] = half[c][u]
  BY <1>1 DEF WriteLength, Goto, Open, Typed, TypeOK
<1>5. Open(c)
  <2>1. pc[c] # "exited"
    BY <1>1 DEF MayBegin, Turns, WorkerElsewhere
  <2>2. readEnd[c] # {}
    BY DEF WriteLength, Typed, TypeOK
  <2> QED
    BY <2>1, <2>2 DEF Open
<1>6. Whole(c) /\ L = 2 * B => [n |-> B + 1, part |-> "length"] = Part(L + 1)
  BY <1>2 DEF Part
<1>7. L = 2 * B - 1 => [n |-> B + 1, part |-> "length"] # Part(L + 1)
  <2>1. (2 * B) % 2 = 0
    BY <1>2
  <2>2. L = 2 * B - 1 => L + 1 = 2 * B
    BY <1>2
  <2>3. L = 2 * B - 1 => Part(L + 1).part = "data"
    BY <2>1, <2>2 DEF Part
  <2> QED
    BY <2>3
<1>8. /\ \A n \in 0..L : InOrder(c, n)' <=> InOrder(c, n)
      /\ Whole(c)' <=> Whole(c) /\ stream'[c][L + 1] = Part(L + 1)
      /\ \A d \in Channels \ {c} : /\ Whole(d)' <=> Whole(d)
                                   /\ \A n : InOrder(d, n)' <=> InOrder(d, n)
  BY ZenonT(60), <1>2, OrderOfAppended DEF Whole, InOrder, Part
<1>9. LastFrame'
  <2>1. ASSUME Whole(c)', Open(c)'
        PROVE  /\ Len(stream'[c]) = 2 * (B + 1) - 1
               /\ half'[c][t] = B + 1 /\ \A u \in Threads \ {t} : half'[c][u] = 0
    <3>1. L = 2 * B /\ \A u \in Threads : half[c][u] = 0
      BY <1>2, <1>5, <1>7, <1>8, <2>1 DEF Framing, LastFrame
    <3>2. \A u \in Threads \ {t} : half'[c][u] = 0
      BY <1>4, <3>1
    <3>3. Len(stream'[c]) = 2 * (B + 1) - 1
      BY <1>2, <3>1
    <3> QED
      BY <1>4, <3>2, <3>3
  <2>2. ASSUME NEW d \in Channels, Whole(d)', Open(d)'
        PROVE  \/ /\ Len(stream'[d]) = 2 * Begun(d)'
                  /\ \A u \in Threads : half'[d][u] = 0
               \/ /\ Len(stream'[d]) = 2 * Begun(d)' - 1
                  /\ \E u \in Threads : half'[d][u] = Begun(d)' /\ \A v \in Threads \ {u} : half'[d][v] = 0
    <3>1. CASE d = c
      BY <1>3, <2>1, <2>2, <3>1
    <3>2. CASE d # c
      <4>1. Whole(d) /\ Open(d) /\ stream'[d] = stream[d] /\ Begun(d)' = Begun(d) /\ half'[d] = half[d]
        BY <1>2, <1>3, <1>4, <1>8, <2>2, <3>2
      <4> QED
        BY <4>1 DEF Framing, LastFrame
    <3> QED
      BY <3>1, <3>2
  <2> QED
    BY <2>2 DEF LastFrame, Begun
<1>10. LengthNext'
  <2>1. ASSUME (L + 1) % 2 = 1, InOrder(c, L)
        PROVE  [n |-> B + 1, part |-> "length"] = Part(L + 1)
    <3>1. Whole(c)
      BY <2>1 DEF Whole
    <3>2. L = 2 * B \/ L = 2 * B - 1
      BY <1>5, <3>1 DEF Framing, LastFrame
    <3>3. L # 2 * B - 1
      BY <1>2, <2>1, OddBeforeEven
    <3> QED
      BY <1>6, <3>1, <3>2, <3>3
  <2>2. ASSUME NEW k \in 1..(L + 1), k % 2 = 1, InOrder(c, k - 1)'
        PROVE  stream'[c][k] = Part(k)
    <3>1. CASE k = L + 1
      BY <1>2, <1>8, <2>1, <2>2, <3>1
    <3>2. CASE k \in 1..L
      <4>1. k - 1 \in 0..L
        BY <1>2, <3>2
      <4>2. InOrder(c, k - 1)
        BY <1>8, <2>2, <4>1
      <4> QED
        BY <1>2, <2>2, <3>2, <4>2 DEF Framing, LengthNext
    <3> QED
      BY <1>2, <3>1, <3>2
  <2>3. ASSUME NEW d \in Channels \ {c}, NEW k \in 1..Len(stream'[d]), k % 2 = 1, InOrder(d, k - 1)'
        PROVE  stream'[d][k] = Part(k)
    BY <1>2, <1>8, <2>3 DEF Framing, LengthNext
  <2> QED
    BY <1>2, <2>2, <2>3 DEF LengthNext, Part
<1>11. DataSent'
  BY <1>1, <1>2 DEF Framing, DataSent
<1>12. FramesIntact'
  <2>1. ASSUME c \notin joinTimedOut PROVE Whole(c)'
    <3>1. Whole(c)
      BY <2>1 DEF Framing, FramesIntact, Whole, InOrder
    <3>2. \A u \in Threads : half[c][u] = 0
      BY <1>1, <2>1, OneWrites
    <3>3. L = 2 * B
      <4>1. L = 2 * B - 1 => FALSE
        <5>1. ASSUME L = 2 * B - 1 PROVE B # 0
          BY <1>2, <5>1
        <5> QED
          BY <1>2, <1>5, <3>1, <3>2, <5>1 DEF Framing, LastFrame
      <4> QED
        BY <1>2, <1>5, <3>1, <4>1 DEF Framing, LastFrame
    <3> QED
      BY <1>2, <1>6, <1>8, <3>1, <3>3
  <2>2. ASSUME NEW d \in Channels \ joinTimedOut PROVE Whole(d)'
    <3>1. Whole(d)
      BY DEF Framing, FramesIntact, Whole, InOrder
    <3> QED
      BY <1>8, <2>1, <3>1
  <2> QED
    BY <1>1, <2>2 DEF FramesIntact, Whole, InOrder, Part
<1> QED
  BY <1>9, <1>10, <1>11, <1>12 DEF Framing

LEMMA WriteDataKeepsFraming ==
  ASSUME Typed, Registering, Turns, Framing, NEW c \in Channels, NEW t \in Threads, WriteData(c, t)
  PROVE  Framing'
<1> USE Roles
<1> DEFINE L == Len(stream[c])
           B == Begun(c)
           n == half[c][t]
<1>1. /\ n # 0 /\ n \in Numbers /\ Write(c, n, "data")
      /\ half' = [half EXCEPT ![c][t] = 0]
      /\ sent' = [sent EXCEPT ![c] = @ \cup {n}]
      /\ UNCHANGED <<pc, begun, readEnd, joinTimedOut>>
  BY DEF WriteData, Typed, TypeOK
<1>2. /\ L \in Nat /\ B \in Nat
      /\ Len(stream'[c]) = L + 1 /\ \A k \in 1..L : stream'[c][k] = stream[c][k]
      /\ stream'[c][L + 1] = [n |-> n, part |-> "data"]
      /\ \A d \in Channels \ {c} : stream'[d] = stream[d]
  BY <1>1, Appended, BegunIsNatural DEF Typed
<1>3. \A d \in Channels : (Open(d)' <=> Open(d)) /\ Begun(d)' = Begun(d)
  BY <1>1 DEF Open, Begun
<1>4. /\ \A d \in Channels \ {c} : half'[d] = half[d]
      /\ half'[c][t] = 0 /\ \A u \in Threads \ {t} : half'[c][u] = half[c][u]
  BY <1>1 DEF Typed, TypeOK
<1>5. Open(c)
  <2>1. pc[c] # "exited" /\ readEnd[c] # {}
    BY <1>1 DEF WriteData, Turns, HalfWritten, WorkerElsewhere
  <2> QED
    BY <2>1 DEF Open
<1>6. L = 2 * B - 1 /\ n = B => [n |-> n, part |-> "data"] = Part(L + 1)
  <2>1. (2 * B) % 2 = 0 /\ (2 * B) \div 2 = B
    BY <1>2
  <2>2. L = 2 * B - 1 => L + 1 = 2 * B
    BY <1>2
  <2> QED
    BY <2>1, <2>2 DEF Part
<1>7. Whole(c) => L = 2 * B - 1 /\ n = B /\ \A u \in Threads \ {t} : half[c][u] = 0
  BY <1>1, <1>5 DEF Framing, LastFrame
<1>8. /\ \A m \in 0..L : InOrder(c, m)' <=> InOrder(c, m)
      /\ Whole(c)' <=> Whole(c) /\ stream'[c][L + 1] = Part(L + 1)
      /\ \A d \in Channels \ {c} : /\ Whole(d)' <=> Whole(d)
                                   /\ \A m : InOrder(d, m)' <=> InOrder(d, m)
  BY ZenonT(60), <1>2, OrderOfAppended DEF Whole, InOrder, Part
<1>9. LastFrame'
  <2>1. ASSUME NEW d \in Channels, Whole(d)', Open(d)'
        PROVE  \/ /\ Len(stream'[d]) = 2 * Begun(d)'
                  /\ \A u \in Threads : half'[d][u] = 0
               \/ /\ Len(stream'[d]) = 2 * Begun(d)' - 1
                  /\ \E u \in Threads : half'[d][u] = Begun(d)' /\ \A v \in Threads \ {u} : half'[d][v] = 0
    <3>1. CASE d = c
      <4>1. \A u \in Threads : half'[c][u] = 0
        BY <1>4, <1>7, <1>8, <2>1, <3>1
      <4>2. Len(stream'[c]) = 2 * B
        <5>1. L = 2 * B - 1
          BY <1>7, <1>8, <2>1, <3>1
        <5> QED
          BY <1>2, <5>1
      <4> QED
        BY <1>3, <3>1, <4>1, <4>2
    <3>2. CASE d # c
      <4>1. Whole(d) /\ Open(d) /\ stream'[d] = stream[d] /\ Begun(d)' = Begun(d) /\ half'[d] = half[d]
        BY <1>2, <1>3, <1>4, <1>8, <2>1, <3>2
      <4> QED
        BY <4>1 DEF Framing, LastFrame
    <3> QED
      BY <3>1, <3>2
  <2> QED
    BY <2>1 DEF LastFrame, Begun
<1>10. LengthNext'
  <2>1. ASSUME (L + 1) % 2 = 1, InOrder(c, L) PROVE FALSE
    <3>1. L = 2 * B - 1
      BY <1>7, <2>1 DEF Whole
    <3> QED
      BY <1>2, <2>1, <3>1, OddBeforeEven
  <2>2. ASSUME NEW k \in 1..(L + 1), k % 2 = 1, InOrder(c, k - 1)'
        PROVE  stream'[c][k] = Part(k)
    <3>1. CASE k = L + 1
      BY <1>2, <1>8, <2>1, <2>2, <3>1
    <3>2. CASE k \in 1..L
      <4>1. k - 1 \in 0..L
        BY <1>2, <3>2
      <4>2. InOrder(c, k - 1)
        BY <1>8, <2>2, <4>1
      <4> QED
        BY <1>2, <2>2, <3>2, <4>2 DEF Framing, LengthNext
    <3> QED
      BY <1>2, <3>1, <3>2
  <2>3. ASSUME NEW d \in Channels \ {c}, NEW k \in 1..Len(stream'[d]), k % 2 = 1, InOrder(d, k - 1)'
        PROVE  stream'[d][k] = Part(k)
    BY <1>2, <1>8, <2>3 DEF Framing, LengthNext
  <2> QED
    BY <1>2, <2>2, <2>3 DEF LengthNext, Part
<1>11. DataSent'
  <2>1. sent'[c] = sent[c] \cup {n} /\ \A d \in Channels \ {c} : sent'[d] = sent[d]
    BY <1>1 DEF Typed, TypeOK
  <2>2. ASSUME NEW k \in 1..(L + 1), stream'[c][k].part = "data"
        PROVE  stream'[c][k].n \in sent'[c]
    <3>1. CASE k = L + 1
      BY <1>2, <2>1, <3>1
    <3>2. CASE k \in 1..L
      BY <1>2, <2>1, <2>2, <3>2 DEF Framing, DataSent
    <3> QED
      BY <1>2, <3>1, <3>2
  <2> QED
    BY <1>2, <2>1, <2>2 DEF Framing, DataSent
<1>12. FramesIntact'
  <2>1. ASSUME NEW d \in Channels \ joinTimedOut PROVE Whole(d)'
    <3>1. Whole(d)
      BY DEF Framing, FramesIntact, Whole, InOrder
    <3> QED
      BY <1>2, <1>6, <1>7, <1>8, <3>1
  <2> QED
    BY <1>1, <2>1 DEF FramesIntact, Whole, InOrder, Part
<1> QED
  BY <1>9, <1>10, <1>11, <1>12 DEF Framing

\* What neither writes nor opens a pipe leaves the framing alone; what a thread
\* has half-written it may give up only with the pipe.
LEMMA OthersKeepFraming ==
  ASSUME Typed, Framing,
         UNCHANGED <<stream, begun, sent>>, joinTimedOut \subseteq joinTimedOut',
         \A c \in Channels : Open(c)' => Open(c) /\ half'[c] = half[c]
  PROVE  Framing'
<1>1. \A c \in Channels : /\ Whole(c)' <=> Whole(c)
                          /\ \A m : InOrder(c, m)' <=> InOrder(c, m)
                          /\ Begun(c)' = Begun(c)
  BY DEF Whole, InOrder, Part, Begun
<1>2. LastFrame'
  <2>1. ASSUME NEW c \in Channels, Whole(c)', Open(c)'
        PROVE  \/ /\ Len(stream'[c]) = 2 * Begun(c)'
                  /\ \A u \in Threads : half'[c][u] = 0
               \/ /\ Len(stream'[c]) = 2 * Begun(c)' - 1
                  /\ \E u \in Threads : half'[c][u] = Begun(c)' /\ \A v \in Threads \ {u} : half'[c][v] = 0
    <3>1. Whole(c) /\ Open(c) /\ half'[c] = half[c] /\ stream'[c] = stream[c] /\ Begun(c)' = Begun(c)
      BY <1>1, <2>1
    <3> QED
      BY <3>1 DEF Framing, LastFrame
  <2> QED
    BY <2>1 DEF LastFrame, Begun
<1>3. LengthNext'
  BY <1>1 DEF Framing, LengthNext, Part
<1>4. DataSent'
  BY DEF Framing, DataSent
<1>5. FramesIntact'
  BY DEF Framing, FramesIntact, Part
<1> QED
  BY <1>2, <1>3, <1>4, <1>5 DEF Framing

LEMMA FramingStep ==
  ASSUME Typed, Registering, Turns, Framing, Next
  PROVE  Framing'
<1> USE Roles DEF Goto, ListenerGoto
<1>1. ASSUME NEW c \in Channels, NEW t \in Threads, WriteLength(c, t) \/ WriteData(c, t)
      PROVE  Framing'
  BY <1>1, WriteLengthKeepsFraming, WriteDataKeepsFraming
<1>2. ASSUME NEW p \in Procs,
             \/ StartListener(p) \/ Wakeup(p) \/ Select(p) \/ SelectTimesOut(p)
             \/ ReadFrame(p) \/ ReadGarbage(p) \/ ReadCutShort(p) \/ ReadWake(p)
      PROVE  Framing'
  <2>1. /\ UNCHANGED <<stream, begun, sent, joinTimedOut, half, readEnd>>
        /\ \A c \in Channels : pc'[c] = pc[c] \/ (pc[c] = "registered" /\ pc'[c] = "forking")
    BY <1>2 DEF StartListener, Wakeup, Select, SelectTimesOut, ReadFrame, ReadGarbage, ReadCutShort,
                ReadWake, Typed, TypeOK
  <2> QED
    BY <2>1, OthersKeepFraming DEF Open
<1>3. ASSUME NEW p \in Procs, CleanUpPipes(p) \/ CloseAtEOF(p) \/ \E c \in Channels : ReadLength(p, c)
      PROVE  Framing'
  <2>1. /\ UNCHANGED <<stream, begun, sent, joinTimedOut, half, pc>>
        /\ (\E C : Close(p, C)) \/ readEnd' = readEnd
    BY <1>3 DEF CleanUpPipes, CloseAtEOF, ReadLength
  <2>2. \A c \in Channels : readEnd'[c] \subseteq readEnd[c]
    BY <2>1 DEF Close
  <2> QED
    BY <2>1, <2>2, OthersKeepFraming DEF Open
<1>4. ASSUME NEW p \in Procs, Fork(p) PROVE Framing'
  <2>1. UNCHANGED <<stream, begun, sent, joinTimedOut, half>>
    BY <1>4 DEF Fork
  <2>2. Pending(p) /\ kid[p] \in Channels /\ pc[kid[p]] = "unborn"
    BY <1>4 DEF Fork, Registering, KidsWait, Pending
  <2>3. \A c \in Channels : c # kid[p] => pc'[c] = pc[c] \/ (pc[c] = "forking" /\ pc'[c] = "running")
    BY <1>4, <2>2 DEF Fork, Typed, TypeOK
  <2>4. \A c \in Channels : readEnd'[c] # {} => readEnd[c] # {}
    BY <1>4 DEF Fork, Inherited
  <2> QED
    BY <2>1, <2>2, <2>3, <2>4, OthersKeepFraming DEF Open
<1>5. ASSUME NEW p \in Procs, Leave(p) PROVE Framing'
  <2>1. /\ UNCHANGED <<stream, begun, sent, joinTimedOut>>
        /\ \A c \in Channels : IF c = p THEN pc'[c] = "exited"
                                        ELSE pc'[c] = pc[c] /\ half'[c] = half[c]
        /\ \A c \in Channels : readEnd'[c] \subseteq readEnd[c]
    BY <1>5 DEF Leave, Gone, Close, Typed, TypeOK
  <2> QED
    BY <2>1, OthersKeepFraming DEF Open
<1>6. ASSUME NEW p \in Procs, NEW c \in Channels, RegisterPipe(p, c) PROVE Framing'
  <2>1. /\ UNCHANGED <<stream, begun, sent, joinTimedOut, half>>
        /\ pc[c] = "unborn" /\ \A d \in Channels : d # c => readEnd'[d] = readEnd[d]
        /\ \A d \in Channels : pc'[d] = pc[d] \/ (pc[d] = "running" /\ pc'[d] = "registered")
    BY <1>6 DEF RegisterPipe, CanFork, Typed, TypeOK
  <2> QED
    BY <2>1, OthersKeepFraming DEF Open
<1>7. ASSUME NEW c \in Channels,
             \/ SkipAfterFork(c) \/ InstallPipeService(c) \/ StopEventLoop(c) \/ WorkerEnds(c)
             \/ JoinTimesOut(c)
      PROVE  Framing'
  <2>1. /\ UNCHANGED <<stream, begun, sent, half>>
        /\ joinTimedOut \subseteq joinTimedOut'
    BY <1>7 DEF SkipAfterFork, InstallPipeService, StopEventLoop, WorkerEnds, JoinTimesOut
  <2>2. \A d \in Channels : pc'[d] = pc[d] \/ pc[d] \in {"forked", "greeting", "running", "joining"}
    BY <1>7 DEF SkipAfterFork, InstallPipeService, StopEventLoop, WorkerEnds, JoinTimesOut, Typed, TypeOK
  <2>3. readEnd' = readEnd \/ Close(c, {c})
    BY <1>7 DEF SkipAfterFork, InstallPipeService, StopEventLoop, WorkerEnds, JoinTimesOut
  <2>4. \A d \in Channels : readEnd'[d] \subseteq readEnd[d]
    BY <2>3 DEF Close
  <2>5. \A d \in Channels : pc'[d] = "unborn" => pc[d] = "unborn"
    BY <1>7 DEF SkipAfterFork, InstallPipeService, StopEventLoop, WorkerEnds, JoinTimesOut, Typed, TypeOK
  <2> QED
    BY <2>1, <2>2, <2>4, <2>5, OthersKeepFraming DEF Open
<1>8. ASSUME NEW c \in Channels, NEW t \in Threads, BrokenPipe(c, t) PROVE Framing'
  <2>1. /\ UNCHANGED <<stream, begun, sent, joinTimedOut, pc, readEnd>>
        /\ readEnd[c] = {} /\ \A d \in Channels : d # c => half'[d] = half[d]
    BY <1>8 DEF BrokenPipe, Typed, TypeOK
  <2>2. pc[c] # "unborn"
    <3>1. half[c][Main] # 0 \/ half[c][Worker] # 0
      BY <1>8 DEF BrokenPipe
    <3> QED
      BY <3>1 DEF Turns, HalfWritten, WorkerElsewhere
  <2> QED
    BY <2>1, <2>2, OthersKeepFraming DEF Open
<1> QED
  BY <1>1, <1>2, <1>3, <1>4, <1>5, <1>6, <1>7, <1>8, NextCases

THEOREM FramingInvariant == Spec => []Framing
<1>1. Init => Framing
  <2> SUFFICES ASSUME Init PROVE Framing
    OBVIOUS
  <2>1. \A c \in Channels : stream[c] = <<>> /\ Begun(c) = 0 /\ \A t \in Threads : half[c][t] = 0
    BY Roles DEF Init, Begun
  <2> QED
    BY <2>1 DEF Framing, LastFrame, LengthNext, DataSent, FramesIntact
<1>2. Typed /\ Registering /\ Turns /\ Framing /\ [Next]_vars => Framing'
  <2>1. CASE Typed /\ Registering /\ Turns /\ Framing /\ Next
    BY <2>1, FramingStep
  <2>2. CASE Typed /\ Framing /\ UNCHANGED vars
    BY <2>2, OthersKeepFraming DEF vars, Open
  <2> QED
    BY <2>1, <2>2
<1> QED
  BY <1>1, <1>2, TypedInvariant, RegisteringInvariant, TurnsInvariant, PTL DEF Spec

\* The frames of a channel stay whole unless a join of its worker timed out:
\* until then the child's threads write in turn, although no lock makes them.
THEOREM FramesStayIntact == Spec => []FramesIntact
BY FramingInvariant, PTL DEF Framing

----------------------------------------------------------------------------
(* Where the listener is in a stream *)

\* It has read half a frame of a pipe only while it reads the other half, or
\* finds that there is none and closes the pipe.
HalfRead(c) ==
  \/ listener[Root] = "body" /\ cur[Root] = c
  \/ listener[Root] = "eof" /\ cur[Root] = c /\ AtEOF(c)
  \/ Root \notin readEnd[c]

\* As long as the framing was not lost, what it has read are frames.
StepOf(c) ==
  /\ InOrder(c, at[c]) /\ received[c] = at[c] \div 2
  /\ at[c] % 2 = 1 => HalfRead(c)
  /\ listener[Root] = "body" /\ cur[Root] = c => at[c] % 2 = 1

InStep == /\ \A c \in Channels \ garbled : StepOf(c)
          /\ \A c \in timedOut : Root \notin readEnd[c]

LEMMA Halves ==
  ASSUME NEW n \in Nat
  PROVE  /\ n % 2 = 0 \/ n % 2 = 1
         /\ n % 2 = 0 => (n + 1) % 2 = 1 /\ (n + 1) \div 2 = n \div 2
         /\ n % 2 = 1 => (n + 1) % 2 = 0 /\ (n + 1) \div 2 = n \div 2 + 1
OBVIOUS

\* Steps that read nothing leave the listener in step.
LEMMA OthersKeepStep ==
  ASSUME Typed, InStep,
         UNCHANGED <<at, cur, garbled, timedOut, received>>,
         listener'[Root] = "body" => listener[Root] = "body",
         \A c \in Channels : \A k \in 1..at[c] : stream'[c][k] = stream[c][k],
         \A c \in Channels : at[c] > 0 /\ HalfRead(c) => HalfRead(c)',
         \A c \in timedOut : Root \notin readEnd'[c]
  PROVE  InStep'
<1>1. ASSUME NEW c \in Channels \ garbled PROVE StepOf(c)'
  <2>1. StepOf(c) /\ at'[c] = at[c] /\ at[c] \in Nat /\ cur'[Root] = cur[Root] /\ received'[c] = received[c]
    BY DEF InStep, Typed, TypeOK
  <2>2. InOrder(c, at[c])'
    BY <2>1 DEF StepOf, InOrder, Part
  <2>3. at[c] % 2 = 1 => HalfRead(c)'
    <3>1. at[c] % 2 = 1 => at[c] > 0
      BY <2>1
    <3> QED
      BY <2>1, <3>1 DEF StepOf
  <2> QED
    BY <2>1, <2>2, <2>3 DEF StepOf
<1> QED
  BY <1>1 DEF InStep

\* A pipe that is at its end stays there.
LEMMA WritersHoldTheirEnd ==
  ASSUME Typed, Registering, Turns, NEW c \in Channels, NEW t \in Threads,
         WriteLength(c, t) \/ WriteData(c, t)
  PROVE  /\ c \in writeEnd[c]
         /\ \A d \in Channels : \A k \in 1..at[d] : stream'[d][k] = stream[d][k]
         /\ \A d \in Channels \ {c} : stream'[d] = stream[d]
<1> USE Roles
<1>1. c \in writeEnd[c]
  <2>1. MayBegin(c, t) \/ half[c][t] # 0
    BY DEF WriteLength, WriteData
  <2> QED
    BY <2>1 DEF MayBegin, Turns, HalfWritten
<1>2. \E n \in Numbers : \E part \in {"length", "data"} : Write(c, n, part)
  <2>1. CASE WriteLength(c, t)
    <3>1. begun[c][t] \in Nat /\ begun[c][t] < MaxFrames[c][t]
      BY <2>1 DEF WriteLength, Typed, TypeOK
    <3>2. Begun(c) + 1 \in Numbers
      BY <3>1, BegunIsNatural DEF Typed
    <3> QED
      BY <2>1, <3>2 DEF WriteLength
  <2>2. CASE WriteData(c, t)
    <3>1. half[c][t] \in Numbers
      BY <2>2 DEF WriteData, Typed, TypeOK
    <3> QED
      BY <2>2, <3>1 DEF WriteData
  <2> QED
    BY <2>1, <2>2
<1>3. /\ \A k \in 1..Len(stream[c]) : stream'[c][k] = stream[c][k]
      /\ \A d \in Channels \ {c} : stream'[d] = stream[d]
      /\ Len(stream[c]) \in Nat
  BY <1>2, Appended DEF Typed
<1>4. \A k \in 1..at[c] : k \in 1..Len(stream[c])
  <2>1. at[c] \in Nat /\ at[c] <= Len(stream[c])
    BY DEF Typed, TypeOK
  <2> QED
    BY <1>3, <2>1
<1> QED
  BY <1>1, <1>3, <1>4

LEMMA ChildrenKeepStep ==
  ASSUME Typed, Registering, Turns, InStep, NEW c \in Channels,
         \/ SkipAfterFork(c) \/ InstallPipeService(c) \/ StopEventLoop(c) \/ WorkerEnds(c) \/ JoinTimesOut(c)
         \/ \E t \in Threads : WriteLength(c, t) \/ WriteData(c, t) \/ BrokenPipe(c, t)
  PROVE  InStep'
<1> USE Roles DEF Goto, ListenerGoto
<1>1. ASSUME UNCHANGED <<at, cur, garbled, timedOut, received, listener>>,
             \A d \in Channels : readEnd'[d] \subseteq readEnd[d],
             \A d \in Channels : AtEOF(d) => AtEOF(d)',
             \A d \in Channels : \A k \in 1..at[d] : stream'[d][k] = stream[d][k]
      PROVE  InStep'
  <2>1. \A d \in Channels : HalfRead(d) => HalfRead(d)'
    BY <1>1 DEF HalfRead
  <2>2. \A d \in timedOut : Root \notin readEnd'[d]
    BY <1>1 DEF InStep, Typed, TypeOK
  <2> QED
    BY <1>1, <2>1, <2>2, OthersKeepStep
<1>2. CASE \/ SkipAfterFork(c) \/ InstallPipeService(c) \/ StopEventLoop(c) \/ WorkerEnds(c)
           \/ JoinTimesOut(c) \/ \E t \in Threads : BrokenPipe(c, t)
  <2>1. /\ UNCHANGED <<at, cur, garbled, timedOut, received, listener, stream>>
        /\ Close(c, {c}) \/ UNCHANGED ends
    BY <1>2 DEF SkipAfterFork, InstallPipeService, StopEventLoop, WorkerEnds, JoinTimesOut, BrokenPipe
  <2>2. \A d \in Channels : readEnd'[d] \subseteq readEnd[d] /\ writeEnd'[d] \subseteq writeEnd[d]
    BY <2>1 DEF Close
  <2>3. \A d \in Channels : AtEOF(d) => AtEOF(d)'
    BY <2>1, <2>2 DEF AtEOF, Unread
  <2> QED
    BY <1>1, <2>1, <2>2, <2>3
<1>3. ASSUME NEW t \in Threads, WriteLength(c, t) \/ WriteData(c, t) PROVE InStep'
  <2>1. /\ c \in writeEnd[c]
        /\ \A d \in Channels : \A k \in 1..at[d] : stream'[d][k] = stream[d][k]
        /\ \A d \in Channels \ {c} : stream'[d] = stream[d]
    BY <1>3, WritersHoldTheirEnd
  <2>2. /\ UNCHANGED <<at, cur, garbled, timedOut, received, listener, writeEnd>>
        /\ \A d \in Channels : readEnd'[d] \subseteq readEnd[d]
    <3>1. CASE WriteLength(c, t)
      BY <3>1 DEF WriteLength, Typed, TypeOK
    <3>2. CASE WriteData(c, t)
      BY <3>2 DEF WriteData
    <3> QED
      BY <1>3, <3>1, <3>2
  <2>3. \A d \in Channels : AtEOF(d) => AtEOF(d)'
    BY <2>1, <2>2 DEF AtEOF, Unread
  <2> QED
    BY <1>1, <2>1, <2>2, <2>3
<1> QED
  BY <1>2, <1>3

LEMMA ForkersKeepStep ==
  ASSUME Typed, Registering, InStep, NEW p \in Procs,
         \/ StartListener(p) \/ Wakeup(p) \/ Fork(p) \/ Leave(p)
         \/ \E c \in Channels : RegisterPipe(p, c)
  PROVE  InStep'
<1> USE Roles DEF Goto, ListenerGoto
<1>1. /\ \A c \in timedOut : Root \notin readEnd[c] /\ pc[c] # "unborn" /\ c \in Channels
      /\ \A c \in Channels : at[c] > 0 => pc[c] # "unborn"
  BY DEF InStep, Registering, Fresh, Typed, TypeOK
<1>2. UNCHANGED <<at, cur, garbled, timedOut, received, stream>>
  BY DEF StartListener, Wakeup, Fork, Leave, Gone, RegisterPipe
<1>3. ASSUME listener'[Root] = "body" => listener[Root] = "body",
             \A c \in Channels : pc[c] # "unborn" /\ Root \notin readEnd[c] => Root \notin readEnd'[c],
             \A c \in Channels : at[c] > 0 /\ HalfRead(c) => HalfRead(c)'
      PROVE  InStep'
  <2>1. \A c \in timedOut : Root \notin readEnd'[c]
    BY <1>1, <1>3
  <2> QED
    BY <1>2, <1>3, <2>1, OthersKeepStep
<1>4. CASE StartListener(p) \/ Wakeup(p)
  <2>1. /\ UNCHANGED <<readEnd, writeEnd>>
        /\ listener'[Root] = listener[Root] \/ (listener[Root] = "none" /\ listener'[Root] = "top")
    <3>1. Root \notin started => listener[Root] = "none"
      BY DEF Typed, RootListens
    <3>2. CASE StartListener(p)
      BY <3>1, <3>2 DEF StartListener, Typed, TypeOK
    <3>3. CASE Wakeup(p)
      BY <3>3 DEF Wakeup
    <3> QED
      BY <1>4, <3>2, <3>3
  <2>2. \A c \in Channels : HalfRead(c) => HalfRead(c)'
    BY <1>2, <2>1 DEF HalfRead, AtEOF, Unread
  <2> QED
    BY <1>3, <2>1, <2>2
<1>5. CASE Fork(p)
  <2>1. listener' = listener /\ kid[p] \in Channels
    BY <1>5 DEF Fork, Registering, KidsWait, Pending
  <2>2. \A c \in Channels : /\ Root \notin readEnd[c] => Root \notin readEnd'[c]
                            /\ writeEnd[c] = {} => writeEnd'[c] = {}
    BY <1>5, <2>1 DEF Fork, Inherited
  <2>3. \A c \in Channels : HalfRead(c) => HalfRead(c)'
    BY <1>2, <2>1, <2>2 DEF HalfRead, AtEOF, Unread
  <2> QED
    BY <1>3, <2>1, <2>2, <2>3
<1>6. CASE Leave(p)
  <2>1. \A c \in Channels : /\ readEnd'[c] \subseteq readEnd[c] /\ writeEnd'[c] \subseteq writeEnd[c]
                            /\ p \notin readEnd'[c]
    BY <1>6 DEF Leave, Gone, Close
  <2>2. listener'[Root] = IF p = Root THEN "none" ELSE listener[Root]
    BY <1>6 DEF Leave, Gone, Typed, TypeOK
  <2>3. \A c \in Channels : HalfRead(c) => HalfRead(c)'
    BY <1>2, <2>1, <2>2 DEF HalfRead, AtEOF, Unread
  <2> QED
    BY <1>3, <2>1, <2>2, <2>3
<1>7. ASSUME NEW c \in Channels, RegisterPipe(p, c) PROVE InStep'
  <2>1. /\ listener' = listener /\ pc[c] = "unborn"
        /\ \A d \in Channels : d # c => readEnd'[d] = readEnd[d] /\ writeEnd'[d] = writeEnd[d]
    BY <1>7 DEF RegisterPipe, Typed, TypeOK
  <2>2. \A d \in Channels : at[d] > 0 /\ HalfRead(d) => HalfRead(d)'
    BY <1>1, <1>2, <2>1 DEF HalfRead, AtEOF, Unread
  <2> QED
    BY <1>3, <2>1, <2>2
<1> QED
  BY <1>4, <1>5, <1>6, <1>7

\* The listener between two reads.
LEMMA WaitingKeepsStep ==
  ASSUME Typed, Registering, InStep, NEW p \in Procs,
         CleanUpPipes(p) \/ Select(p) \/ SelectTimesOut(p) \/ ReadWake(p)
  PROVE  InStep'
<1> USE Roles DEF Goto, ListenerGoto
<1>1. p = Root
  BY ListenerIsRoot
<1>2. /\ UNCHANGED <<at, cur, garbled, received, stream>>
      /\ listener[Root] # "body" /\ listener[Root] # "eof" /\ listener'[Root] # "body"
  BY <1>1 DEF CleanUpPipes, Select, SelectTimesOut, ReadWake, Typed, TypeOK
<1>3. /\ \A c \in Channels : readEnd'[c] \subseteq readEnd[c]
      /\ \A c \in timedOut' : c \in timedOut \/ Root \notin readEnd'[c]
  <2>1. CASE CleanUpPipes(p)
    BY <1>1, <2>1 DEF CleanUpPipes, Close, Typed, TypeOK
  <2>2. CASE Select(p) \/ SelectTimesOut(p) \/ ReadWake(p)
    BY <2>2 DEF Select, SelectTimesOut, ReadWake
  <2> QED
    BY <2>1, <2>2
<1>4. ASSUME NEW c \in Channels \ garbled PROVE StepOf(c)'
  <2>1. StepOf(c)
    BY DEF InStep
  <2>2. InOrder(c, at[c])' <=> InOrder(c, at[c])
    BY <1>2 DEF InOrder, Part
  <2> QED
    BY <1>2, <1>3, <2>1, <2>2 DEF StepOf, HalfRead
<1>5. timedOut \subseteq Channels
  BY DEF Typed, TypeOK
<1> QED
  BY <1>2, <1>3, <1>4, <1>5 DEF InStep

LEMMA ReadingKeepsStep ==
  ASSUME Typed, Registering, Framing, InStep, NEW p \in Procs,
         \/ ReadFrame(p) \/ ReadGarbage(p) \/ ReadCutShort(p) \/ CloseAtEOF(p)
         \/ \E c \in Channels : ReadLength(p, c)
  PROVE  InStep'
<1> USE Roles DEF Goto, ListenerGoto
<1>1. p = Root
  BY ListenerIsRoot
<1>2. UNCHANGED <<stream, timedOut>>
  BY DEF ReadFrame, ReadGarbage, ReadCutShort, CloseAtEOF, ReadLength
<1>3. /\ timedOut \subseteq Channels /\ garbled \subseteq Channels
      /\ \A c \in Channels : at[c] \in Nat /\ Len(stream[c]) \in Nat /\ at[c] <= Len(stream[c])
  BY DEF Typed, TypeOK
<1>4. \A c \in Channels : \A n : InOrder(c, n)' <=> InOrder(c, n)
  BY <1>2 DEF InOrder, Part
<1>5. CASE ReadFrame(p)
  <2> DEFINE c == cur[Root]
             n == stream[c][at[c]].n
  <2>1. /\ listener[Root] = "body" /\ c \in Channels \ garbled /\ IsNext(c, n, "data") /\ Consume(c)
        /\ received' = [received EXCEPT ![c] = n] /\ listener'[Root] = "eof"
        /\ UNCHANGED <<ends, cur, garbled>>
    BY <1>1, <1>5 DEF ReadFrame, Typed, TypeOK, Begins
  <2>2. StepOf(c) /\ at[c] % 2 = 1 /\ at[c] > 0
    BY <2>1 DEF InStep, StepOf, Typed, Begins
  <2>3. at'[c] = at[c] + 1 /\ at[c] + 1 <= Len(stream[c])
    BY <1>3, <2>1 DEF Consume, IsNext, Unread, Typed, TypeOK
  <2>4. n = at[c] \div 2 + 1
    <3>1. stream[c][at[c]] = Part(at[c])
      BY <1>3, <2>1, <2>2 DEF StepOf, InOrder
    <3> QED
      BY <1>3, <2>1, <2>2, <3>1, Halves DEF Part
  <2>5. stream[c][at[c] + 1] = Part(at[c] + 1)
    <3>1. /\ at[c] \in Nat
          /\ (at[c] + 1) % 2 = 0 /\ (at[c] + 1) \div 2 = at[c] \div 2 + 1
      BY <1>3, <2>1, <2>2, Halves
    <3>2. Part(at[c] + 1) = [n |-> at[c] \div 2 + 1, part |-> "data"]
      BY <3>1 DEF Part
    <3>3. stream[c][at[c] + 1] = [n |-> n, part |-> "data"]
      BY <2>1 DEF IsNext
    <3> HIDE DEF n
    <3> QED
      BY <2>4, <3>2, <3>3
  <2>6. InOrder(c, at[c] + 1)
    BY SMTT(30), <1>3, <2>1, <2>2, <2>5 DEF StepOf, InOrder
  <2>7. StepOf(c)'
    <3>1. received'[c] = at'[c] \div 2 /\ at'[c] % 2 = 0
      <4>1. (at[c] + 1) % 2 = 0 /\ (at[c] + 1) \div 2 = at[c] \div 2 + 1
        BY <1>3, <2>1, <2>2, Halves
      <4>2. received'[c] = n
        BY <2>1 DEF Typed, TypeOK
      <4> QED
        BY <2>3, <2>4, <4>1, <4>2
    <3> QED
      BY <1>4, <2>1, <2>3, <2>6, <3>1 DEF StepOf
  <2>8. ASSUME NEW d \in Channels \ garbled, d # c PROVE StepOf(d)'
    <3>1. StepOf(d) /\ at'[d] = at[d] /\ received'[d] = received[d]
      BY <2>1, <2>8 DEF InStep, Consume, Typed, TypeOK
    <3> QED
      BY <1>4, <2>1, <2>8, <3>1 DEF StepOf, HalfRead
  <2> QED
    BY <1>2, <2>1, <2>7, <2>8 DEF InStep
<1>6. CASE ReadGarbage(p)
  <2> DEFINE c == cur[Root]
  <2>1. /\ listener[Root] = "body" /\ c \in Channels /\ Consume(c) /\ garbled' = garbled \cup {c}
        /\ UNCHANGED <<ends, cur, received>>
    BY <1>1, <1>6 DEF ReadGarbage, Typed, TypeOK, Begins
  <2>2. ASSUME NEW d \in Channels \ garbled, d # c PROVE StepOf(d)'
    <3>1. StepOf(d) /\ at'[d] = at[d]
      BY <2>1, <2>2 DEF InStep, Consume, Typed, TypeOK
    <3> QED
      BY <1>4, <2>1, <2>2, <3>1 DEF StepOf, HalfRead
  <2> QED
    BY <1>2, <2>1, <2>2 DEF InStep
<1>7. CASE ReadCutShort(p)
  <2>1. /\ listener[Root] = "body" /\ AtEOF(cur[Root]) /\ listener'[Root] = "eof"
        /\ UNCHANGED <<ends, cur, received, garbled, at>>
    BY <1>1, <1>7 DEF ReadCutShort, Typed, TypeOK
  <2>2. ASSUME NEW d \in Channels \ garbled PROVE StepOf(d)'
    <3>1. StepOf(d)
      BY DEF InStep
    <3>2. HalfRead(d) => HalfRead(d)'
      BY <1>2, <2>1 DEF HalfRead, AtEOF, Unread
    <3> QED
      BY <1>4, <2>1, <3>1, <3>2 DEF StepOf
  <2> QED
    BY <1>2, <2>1, <2>2 DEF InStep
<1>8. CASE CloseAtEOF(p)
  <2> DEFINE c == cur[Root]
  <2>1. /\ listener[Root] = "eof" /\ listener'[Root] = "merge"
        /\ IF AtEOF(c) THEN Close(Root, {c}) ELSE UNCHANGED ends
        /\ UNCHANGED <<cur, received, garbled, at>>
    BY <1>1, <1>8 DEF CloseAtEOF, Typed, TypeOK
  <2>2. /\ \A d \in Channels : readEnd'[d] \subseteq readEnd[d]
        /\ AtEOF(c) /\ c \in Channels => Root \notin readEnd'[c]
    BY <2>1 DEF Close
  <2>3. ASSUME NEW d \in Channels \ garbled PROVE StepOf(d)'
    <3>1. StepOf(d)
      BY DEF InStep
    <3>2. HalfRead(d) => HalfRead(d)'
      BY <2>1, <2>2 DEF HalfRead
    <3> QED
      BY <1>4, <2>1, <3>1, <3>2 DEF StepOf
  <2> QED
    BY <1>2, <1>3, <2>1, <2>2, <2>3 DEF InStep
<1>9. ASSUME NEW c \in Channels, ReadLength(p, c) PROVE InStep'
  <2>1. /\ listener[Root] = "merge" /\ c \in ready[Root] \ {Wake} /\ cur'[Root] = c
        /\ UNCHANGED <<readEnd, received, garbled>>
        /\ IF Unread(c) > 0 THEN Consume(c) /\ listener'[Root] = "body"
                            ELSE UNCHANGED at /\ listener'[Root] = "eof"
    BY <1>1, <1>9 DEF ReadLength, Typed, TypeOK
  <2>2. Root \in readEnd[c]
    BY <2>1 DEF Registering, Watching
  <2>3. ASSUME NEW d \in Channels \ garbled, d # c PROVE StepOf(d)'
    <3>1. StepOf(d) /\ at'[d] = at[d]
      BY <2>1, <2>3 DEF InStep, Consume, Typed, TypeOK
    <3> QED
      BY <1>4, <2>1, <2>3, <3>1 DEF StepOf, HalfRead
  <2>4. ASSUME c \notin garbled PROVE StepOf(c)'
    <3>1. StepOf(c) /\ at[c] % 2 = 0
      BY <1>3, <2>1, <2>2, <2>4, Halves DEF InStep, StepOf, HalfRead
    <3>2. CASE Unread(c) > 0
      <4>1. at'[c] = at[c] + 1 /\ at[c] + 1 <= Len(stream[c]) /\ listener'[Root] = "body"
        BY <1>3, <2>1, <3>2 DEF Consume, Unread, Typed, TypeOK
      <4>2. (at[c] + 1) % 2 = 1 /\ (at[c] + 1) \div 2 = at[c] \div 2
        BY <1>3, <3>1, Halves
      <4>3. stream[c][at[c] + 1] = Part(at[c] + 1)
        <5>1. at[c] + 1 \in 1..Len(stream[c]) /\ (at[c] + 1) - 1 = at[c]
          BY <1>3, <4>1
        <5> QED
          BY <3>1, <4>2, <5>1 DEF StepOf, Framing, LengthNext
      <4>4. InOrder(c, at[c] + 1)
        BY <1>3, <3>1, <4>3 DEF StepOf, InOrder
      <4> QED
        BY <1>4, <2>1, <3>1, <4>1, <4>2, <4>4 DEF StepOf, HalfRead
    <3>3. CASE ~(Unread(c) > 0)
      BY <1>3, <1>4, <2>1, <3>1, <3>3 DEF StepOf
    <3> QED
      BY <3>2, <3>3
  <2> QED
    BY <1>2, <2>1, <2>3, <2>4 DEF InStep
<1> QED
  BY <1>5, <1>6, <1>7, <1>8, <1>9

THEOREM InStepInvariant == Spec => []InStep
<1>1. Init => InStep
  <2> SUFFICES ASSUME Init PROVE InStep
    OBVIOUS
  <2>1. timedOut = {} /\ \A c \in Channels : at[c] = 0 /\ received[c] = 0 /\ 0 % 2 = 0 /\ 0 \div 2 = 0
    BY DEF Init
  <2>2. listener[Root] = "none"
    BY Roles DEF Init
  <2> QED
    BY <2>1, <2>2 DEF InStep, StepOf, InOrder
<1>2. Typed /\ Registering /\ Turns /\ Framing /\ InStep /\ [Next]_vars => InStep'
  <2>1. CASE Typed /\ Registering /\ Turns /\ Framing /\ InStep /\ Next
    BY <2>1, ChildrenKeepStep, ForkersKeepStep, WaitingKeepsStep, ReadingKeepsStep, NextCases
  <2>2. CASE InStep /\ UNCHANGED vars
    BY <2>2 DEF vars, InStep, StepOf, HalfRead, InOrder, AtEOF, Unread, Part
  <2> QED
    BY <2>1, <2>2
<1> QED
  BY <1>1, <1>2, TypedInvariant, RegisteringInvariant, TurnsInvariant, FramingInvariant, PTL DEF Spec

----------------------------------------------------------------------------
(* The refinement *)

LEMMA DeliveredInit == Init => Delivered!Init
BY DEF Init, Delivered!Init, Cut

LEMMA DeliveredStep ==
  ASSUME Typed, Registering, Framing, InStep, Next
  PROVE  Delivered!Next \/ UNCHANGED Delivered!vars
<1> USE Roles DEF Goto, ListenerGoto
<1> DEFINE Stutters == UNCHANGED <<sent, received, garbled, timedOut>>
<1>1. Stutters => UNCHANGED Delivered!vars
  BY DEF Delivered!vars, Cut
<1>2. ASSUME NEW p \in Procs, ReadFrame(p) PROVE Delivered!Next
  <2> DEFINE c == cur[p]
             n == stream[c][at[c]].n
  <2>1. p = Root /\ c \in Channels
    BY <1>2, ListenerIsRoot DEF ReadFrame, Typed, Begins
  <2>2. /\ listener[Root] = "body" /\ c \notin garbled /\ IsNext(c, n, "data")
        /\ received' = [received EXCEPT ![c] = n]
        /\ UNCHANGED <<sent, garbled, timedOut>>
    BY <1>2, <2>1 DEF ReadFrame
  <2>3. at[c] \in Nat /\ at[c] > 0 /\ Len(stream[c]) \in Nat
    BY <2>1, <2>2 DEF Typed, TypeOK, Begins
  <2>4. at[c] % 2 = 1 /\ InOrder(c, at[c]) /\ received[c] = at[c] \div 2
    BY <2>1, <2>2 DEF InStep, StepOf
  <2>5. n = received[c] + 1
    <3>1. stream[c][at[c]] = Part(at[c])
      BY <2>3, <2>4 DEF InOrder
    <3> QED
      BY SMTT(30), <2>3, <2>4, <3>1, Halves DEF Part
  <2>6. n \in sent[c]
    <3>1. at[c] + 1 \in 1..Len(stream[c])
      BY <2>1, <2>2, <2>3 DEF IsNext, Unread
    <3>2. stream[c][at[c] + 1].part = "data" /\ stream[c][at[c] + 1].n = n
      BY <2>2 DEF IsNext
    <3> QED
      BY <2>1, <3>1, <3>2 DEF Framing, DataSent
  <2>7. c \notin Cut
    <3>1. Root \in readEnd[c]
      BY <2>1, <2>2 DEF Registering, Watching
    <3> QED
      BY <2>1, <2>2, <3>1 DEF InStep, Cut
  <2>8. Delivered!Receive(c)
    BY <2>2, <2>5, <2>6, <2>7 DEF Delivered!Receive, Cut
  <2> QED
    BY <2>1, <2>8 DEF Delivered!Next
<1>3. ASSUME NEW p \in Procs, ReadGarbage(p) \/ CleanUpPipes(p) PROVE Delivered!Next
  <2>1. UNCHANGED <<sent, received>>
    BY <1>3 DEF ReadGarbage, CleanUpPipes
  <2>2. \E C \in SUBSET Channels : Cut' = Cut \cup C
    <3>1. CASE ReadGarbage(p)
      <4>1. cur[p] \in Channels /\ garbled' = garbled \cup {cur[p]} /\ timedOut' = timedOut
        BY <3>1 DEF ReadGarbage, Typed, Begins
      <4>2. Cut' = Cut \cup {cur[p]} /\ {cur[p]} \in SUBSET Channels
        BY <4>1 DEF Cut
      <4> QED
        BY <4>2
    <3>2. CASE CleanUpPipes(p)
      <4>1. PICK T \in SUBSET {c \in registered[p] \cap Lingering : p \in readEnd[c] /\ pc[c] # "unborn"} :
              timedOut' = timedOut \cup T
        BY <3>2 DEF CleanUpPipes
      <4>2. T \in SUBSET Channels /\ garbled' = garbled
        BY <3>2, ProcsAssumption DEF CleanUpPipes
      <4>3. Cut' = Cut \cup T
        BY <4>1, <4>2 DEF Cut
      <4> QED
        BY <4>2, <4>3
    <3> QED
      BY <1>3, <3>1, <3>2
  <2> QED
    BY <2>1, <2>2 DEF Delivered!Next, Delivered!Cut
<1>4. ASSUME NEW c \in Channels, NEW t \in Threads, WriteData(c, t)
      PROVE  Delivered!Next \/ Stutters
  <2> DEFINE n == half[c][t]
  <2>1. /\ n \in Numbers /\ sent' = [sent EXCEPT ![c] = @ \cup {n}]
        /\ UNCHANGED <<received, garbled, timedOut>>
    BY <1>4 DEF WriteData, Typed, TypeOK
  <2>2. CASE n \in sent[c]
    <3>1. sent' = sent
      BY <2>1, <2>2 DEF Typed, TypeOK
    <3> QED
      BY <2>1, <3>1
  <2>3. CASE n \notin sent[c]
    <3>1. Delivered!Send(c, n)
      BY <2>1, <2>3 DEF Delivered!Send, Cut
    <3> QED
      BY <2>1, <3>1 DEF Delivered!Next
  <2> QED
    BY <2>2, <2>3
<1>5. ASSUME NEW p \in Procs, \/ StartListener(p) \/ Wakeup(p) \/ Fork(p) \/ Leave(p) \/ Select(p)
                              \/ SelectTimesOut(p) \/ ReadCutShort(p) \/ CloseAtEOF(p) \/ ReadWake(p)
      PROVE  Stutters
  BY <1>5 DEF StartListener, Wakeup, Fork, Leave, Gone, Select, SelectTimesOut, ReadCutShort,
              CloseAtEOF, ReadWake
<1>6. ASSUME NEW p \in Procs, NEW c \in Channels, RegisterPipe(p, c) \/ ReadLength(p, c)
      PROVE  Stutters
  BY <1>6 DEF RegisterPipe, ReadLength
<1>7. ASSUME NEW c \in Channels,
             \/ SkipAfterFork(c) \/ InstallPipeService(c) \/ StopEventLoop(c) \/ WorkerEnds(c)
             \/ JoinTimesOut(c) \/ \E t \in Threads : WriteLength(c, t) \/ BrokenPipe(c, t)
      PROVE  Stutters
  BY <1>7 DEF SkipAfterFork, InstallPipeService, StopEventLoop, WorkerEnds, JoinTimesOut,
              WriteLength, BrokenPipe
<1> QED
  BY <1>1, <1>2, <1>3, <1>4, <1>5, <1>6, <1>7, NextCases

\* The listener of the parent receives the complete frames of every child one
\* by one, in the order in which they were begun, none twice and none skipped,
\* until the framing is lost or the pipe times out: PipeChannel implements Channel.
THEOREM PipeIsAChannel == Spec => ChannelSpec
<1>1. Typed /\ Registering /\ Framing /\ InStep /\ [Next]_vars => [Delivered!Next]_(Delivered!vars)
  <2>1. CASE Typed /\ Registering /\ Framing /\ InStep /\ Next
    BY <2>1, DeliveredStep
  <2>2. CASE UNCHANGED vars
    BY <2>2 DEF vars, Delivered!vars, Cut
  <2> QED
    BY <2>1, <2>2
<1> QED
  BY <1>1, DeliveredInit, TypedInvariant, RegisteringInvariant, FramingInvariant, InStepInvariant,
     PTL DEF Spec, ChannelSpec, Delivered!Spec

----------------------------------------------------------------------------
(* What the abstract channel promises, carried over                         *)

\* The abstract channel's own invariant: a frame that was received, and every
\* frame before it, had been written completely.
WholeAndInTurn ==
  /\ sent \in [Channels -> SUBSET Numbers]
  /\ received \in [Channels -> Nat]
  /\ \A c \in Channels : \A n \in 1..received[c] : n \in sent[c]

LEMMA WholeAndInTurnInit == Delivered!Init => WholeAndInTurn
BY DEF Delivered!Init, WholeAndInTurn

LEMMA WholeAndInTurnStep ==
  ASSUME WholeAndInTurn, [Delivered!Next]_(Delivered!vars)
  PROVE  WholeAndInTurn'
<1> USE DEF WholeAndInTurn
<1>1. CASE UNCHANGED Delivered!vars
  BY <1>1 DEF Delivered!vars
<1>2. ASSUME NEW c \in Channels, Delivered!Receive(c) PROVE WholeAndInTurn'
  <2>1. /\ sent' = sent /\ received[c] + 1 \in sent[c]
        /\ received' = [received EXCEPT ![c] = @ + 1]
    BY <1>2 DEF Delivered!Receive
  <2>2. received' \in [Channels -> Nat]
    BY <2>1
  <2>3. ASSUME NEW d \in Channels, NEW n \in 1..received'[d] PROVE n \in sent[d]
    <3>1. CASE d = c
      BY <2>1, <2>3, <3>1
    <3>2. CASE d # c
      BY <2>1, <2>3, <3>2
    <3> QED
      BY <3>1, <3>2
  <2> QED
    BY <2>1, <2>2, <2>3
<1>3. ASSUME NEW c \in Channels, NEW n \in Numbers, Delivered!Send(c, n) PROVE WholeAndInTurn'
  BY <1>3 DEF Delivered!Send
<1>4. ASSUME NEW C \in SUBSET Channels, Delivered!Cut(C) PROVE WholeAndInTurn'
  BY <1>4 DEF Delivered!Cut
<1> QED
  BY <1>1, <1>2, <1>3, <1>4 DEF Delivered!Next

\* What a listener has merged of a child is an unbroken run of frames the child
\* wrote whole, from its first on.  The argument is about Channel alone: the
\* refinement carries it to the ends, lengths and bytes of PipeChannel.
ReceivedWhole == \A c \in Channels : 1..received[c] \subseteq sent[c]

THEOREM ReceivedWholeHolds == Spec => []ReceivedWhole
<1>1. WholeAndInTurn /\ [Delivered!Next]_(Delivered!vars) => WholeAndInTurn'
  BY WholeAndInTurnStep
<1>2. WholeAndInTurn => ReceivedWhole
  BY DEF WholeAndInTurn, ReceivedWhole
<1> QED
  BY <1>1, <1>2, WholeAndInTurnInit, PipeIsAChannel, PTL DEF ChannelSpec, Delivered!Spec
=============================================================================
