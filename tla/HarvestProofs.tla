---------------------------- MODULE HarvestProofs ---------------------------
(***************************************************************************)
(* Proofs about Harvest, for any events, containers, capacities and plans. *)
(* The inductive invariant adds to the properties that a thread has a      *)
(* payload only during a request for a container, or once it read a thread *)
(* profile (Carrying), that what is held was recorded (HeldRecorded), and  *)
(* where data the collector already has may still be (ReceivedKnown).      *)
(***************************************************************************)
EXTENDS Harvest, FiniteSetTheorems, TLAPS

Sending == {"request", "answer"}
InSession == {"session", "clearing"}
Stopping == {"stopping", "stopped"}
Between == {"idle", "step", "restarting", "reconnecting", "joining", "ended"}

Carrying ==
  \A t \in Threads :
    /\ pc[t] \notin Between => todo[t] # <<>>
    /\ pc[t] \in Sending => Target(t) \in Containers
    /\ pc[t] \in InSession => Target(t) \in Profiles
    /\ pc[t] \notin Sending \cup {"clearing"} => payload[t] = {}

HeldRecorded ==
  /\ \A c \in Containers : buffer[c] \subseteq recorded
  /\ \A t \in Threads : payload[t] \subseteq recorded
  /\ finished \subseteq recorded
  /\ received \subseteq recorded

\* What the collector has and may be sent again.
Explained == unanswered \cup shared

ReceivedKnown ==
  /\ \A c \in Containers : buffer[c] \cap received \subseteq Explained
  /\ finished \cap received \subseteq Explained
  /\ \A t \in Threads :
       IF pc[t] = "answer" THEN payload[t] \subseteq received
       ELSE payload[t] \cap received \subseteq Explained

----------------------------------------------------------------------------
(* Containers *)

\* What a container keeps is a part of what it was given, within its capacity,
\* and all of it unless the container is full (the capacity= of the buffers).
LEMMA KeptFits ==
  ASSUME NEW c \in Containers, NEW S, IsFiniteSet(S), NEW K \in Kept(c, S)
  PROVE  /\ K \subseteq S
         /\ IsFiniteSet(K)
         /\ Cardinality(K) <= Capacity[c]
         /\ S \ K # {} => Cardinality(K) = Capacity[c]
<1>1. K \subseteq S
  BY DEF Kept
<1>2. IsFiniteSet(K) /\ Cardinality(K) \in Nat /\ Capacity[c] \in Nat
  BY <1>1, FS_Subset, FS_CardinalityType, CapacityAssumption
<1>3. CASE Cardinality(S) <= Capacity[c]
  BY <1>2, <1>3 DEF Kept
<1>4. CASE ~(Cardinality(S) <= Capacity[c])
  BY <1>1, <1>2, <1>4 DEF Kept
<1> QED
  BY <1>3, <1>4

\* merge! leaves in the container a part of what it held and was given; what is
\* missing overflowed a full container, or is the payload of a thread profile.
LEMMA MergeOutcome ==
  ASSUME TypeOK, Carrying, NEW t \in Threads, pc[t] \in Sending, Merge(t)
  PROVE  \E K :
           /\ buffer' = [buffer EXCEPT ![Target(t)] = K]
           /\ K \subseteq buffer[Target(t)] \cup payload[t]
           /\ IsFiniteSet(K) /\ Cardinality(K) <= Capacity[Target(t)]
           /\ \/ /\ Target(t) \in Profiles /\ K = buffer[Target(t)]
                 /\ discarded' = discarded \cup OnlyWith(t)
                 /\ overflowed' = overflowed
              \/ /\ Target(t) \notin Profiles
                 /\ overflowed' = overflowed \cup ((buffer[Target(t)] \cup payload[t]) \ K)
                 /\ (buffer[Target(t)] \cup payload[t]) \ K # {} => Cardinality(K) = Capacity[Target(t)]
                 /\ discarded' = discarded
<1> DEFINE c == Target(t)
           all == buffer[c] \cup payload[t]
<1>1. c \in Containers /\ IsFiniteSet(buffer[c]) /\ IsFiniteSet(payload[t])
  BY DEF Carrying, TypeOK
<1>2. IsFiniteSet(all)
  BY <1>1, FS_Union
<1>3. CASE c \in Profiles
  <2>1. buffer' = buffer /\ buffer = [buffer EXCEPT ![c] = buffer[c]]
    BY <1>1, <1>3 DEF Merge, TypeOK
  <2>2. Cardinality(buffer[c]) <= Capacity[c]
    BY <1>1 DEF TypeOK
  <2>3. discarded' = discarded \cup OnlyWith(t) /\ overflowed' = overflowed
    BY <1>3 DEF Merge
  <2> QED
    BY <1>1, <1>3, <2>1, <2>2, <2>3
<1>4. CASE c \notin Profiles
  <2>1. PICK K \in Kept(c, all) : /\ buffer' = [buffer EXCEPT ![c] = K]
                                  /\ overflowed' = overflowed \cup (all \ K)
    BY <1>4 DEF Merge
  <2>2. discarded' = discarded
    BY <1>4 DEF Merge
  <2>3. /\ K \subseteq all /\ IsFiniteSet(K)
        /\ Cardinality(K) <= Capacity[c]
        /\ all \ K # {} => Cardinality(K) = Capacity[c]
    BY <1>1, <1>2, KeptFits
  <2> QED
    BY <1>4, <2>1, <2>2, <2>3
<1> QED
  BY <1>3, <1>4

\* record adds a fresh event to a container, which stays within its capacity.
LEMMA RecordOutcome ==
  ASSUME TypeOK, NEW c \in Containers, NEW e \in Events, Record(c, e)
  PROVE  \E K :
           /\ buffer' = [buffer EXCEPT ![c] = K]
           /\ K \subseteq buffer[c] \cup {e}
           /\ IsFiniteSet(K) /\ Cardinality(K) <= Capacity[c]
           /\ overflowed' = overflowed \cup ((buffer[c] \cup {e}) \ K)
           /\ (buffer[c] \cup {e}) \ K # {} => Cardinality(K) = Capacity[c]
<1>1. IsFiniteSet(buffer[c] \cup {e})
  BY FS_AddElement DEF TypeOK
<1>2. PICK K \in Kept(c, buffer[c] \cup {e}) :
        /\ buffer' = [buffer EXCEPT ![c] = K]
        /\ overflowed' = overflowed \cup ((buffer[c] \cup {e}) \ K)
  BY DEF Record
<1>3. /\ K \subseteq buffer[c] \cup {e} /\ IsFiniteSet(K)
      /\ Cardinality(K) <= Capacity[c]
      /\ (buffer[c] \cup {e}) \ K # {} => Cardinality(K) = Capacity[c]
  BY <1>1, KeptFits
<1> QED
  BY <1>2, <1>3

----------------------------------------------------------------------------
(* Type correctness *)

\* Where the plans stand, for any step that does not touch the containers.
Shape ==
  /\ payload \in [Threads -> SUBSET Events]
  /\ \A t \in Threads : IsFiniteSet(payload[t])
  /\ todo \in [Threads -> Seq(Steps)]
  /\ pc \in [Threads -> PCs]
  /\ attempts \in [Threads -> 0..(MaxAttempts - 1)]

Fits ==
  /\ buffer \in [Containers -> SUBSET Events]
  /\ \A c \in Containers : IsFiniteSet(buffer[c]) /\ Cardinality(buffer[c]) <= Capacity[c]

Modes == connectState \in {"connected", "pending", "disconnected"} /\ loopStopped \in BOOLEAN

Past ==
  /\ recorded \subseteq Events /\ received \subseteq Events /\ duplicated \subseteq Events
  /\ unanswered \subseteq Events /\ overflowed \subseteq Events /\ discarded \subseteq Events

Profiling ==
  /\ finished \subseteq Events /\ IsFiniteSet(finished) /\ shared \subseteq Events
  /\ subscribed \in BOOLEAN /\ started \in BOOLEAN

LEMMA TypeParts == TypeOK <=> Shape /\ Fits /\ Modes /\ Past /\ Profiling
BY DEF TypeOK, Shape, Fits, Modes, Past, Profiling

\* A container that is emptied still fits.
LEMMA EmptyFits ==
  ASSUME Fits,
         NEW Emptied \in SUBSET Containers,
         buffer' = [c \in Containers |-> IF c \in Emptied THEN {} ELSE buffer[c]]
  PROVE  Fits'
<1>1. IsFiniteSet({}) /\ Cardinality({}) = 0 /\ \A c \in Containers : 0 <= Capacity[c]
  BY FS_EmptySet, CapacityAssumption
<1> QED
  BY <1>1 DEF Fits

\* Advancing a plan with something left, or abandoning it, keeps the shape.
LEMMA AdvanceShape ==
  ASSUME Shape, NEW t \in Threads, todo[t] # <<>>, Advance(t), attempts' = attempts
  PROVE  Shape'
<1>1. Tail(todo[t]) \in Seq(Steps)
  BY DEF Shape
<1>2. IsFiniteSet({})
  BY FS_EmptySet
<1> QED
  BY <1>1, <1>2 DEF Shape, Advance, Goto, PCs

LEMMA AbandonShape ==
  ASSUME Shape, NEW t \in Threads, NEW there \in PCs, Abandon(t, there), attempts' = attempts
  PROVE  Shape'
<1>1. <<>> \in Seq(Steps) /\ IsFiniteSet({})
  BY FS_EmptySet
<1> QED
  BY <1>1 DEF Shape, Abandon, Goto

LEMMA GotoShape ==
  ASSUME Shape, NEW t \in Threads, NEW there \in PCs, Goto(t, there),
         payload' = payload, todo' = todo, attempts' = attempts
  PROVE  Shape'
BY DEF Shape, Goto

\* merge! keeps the types and the capacities.
LEMMA MergeTypes ==
  ASSUME TypeOK, Carrying, NEW t \in Threads, pc[t] \in Sending, Merge(t), attempts' = attempts
  PROVE  Shape' /\ Fits' /\ overflowed' \subseteq Events /\ discarded' \subseteq Events
<1>1. Target(t) \in Containers /\ todo[t] # <<>>
  BY DEF Carrying, Sending, Between
<1>2. Shape'
  BY <1>1, AdvanceShape, TypeParts DEF Merge
<1>3. PICK K : /\ buffer' = [buffer EXCEPT ![Target(t)] = K]
               /\ K \subseteq buffer[Target(t)] \cup payload[t]
               /\ IsFiniteSet(K) /\ Cardinality(K) <= Capacity[Target(t)]
               /\ \/ discarded' = discarded \cup OnlyWith(t) /\ overflowed' = overflowed
                  \/ /\ overflowed' = overflowed \cup ((buffer[Target(t)] \cup payload[t]) \ K)
                     /\ discarded' = discarded
  BY MergeOutcome
<1>4. buffer[Target(t)] \subseteq Events /\ payload[t] \subseteq Events
  BY <1>1 DEF TypeOK
<1>5. Fits'
  BY <1>1, <1>3, <1>4 DEF TypeOK, Fits
<1>6. overflowed' \subseteq Events /\ discarded' \subseteq Events
  BY <1>3, <1>4 DEF TypeOK, OnlyWith
<1> QED
  BY <1>2, <1>5, <1>6

\* The rescue of relay_request keeps the types, retry or merge!.
LEMMA RetryTypes ==
  ASSUME TypeOK, Carrying, NEW t \in Threads, pc[t] \in Sending, RetryOrMerge(t)
  PROVE  Shape' /\ Fits' /\ overflowed' \subseteq Events /\ discarded' \subseteq Events
<1>1. CASE attempts[t] + 1 < MaxAttempts
  <2>0. attempts \in [Threads -> 0..(MaxAttempts - 1)]
    BY DEF TypeOK
  <2>1. attempts[t] + 1 \in 0..(MaxAttempts - 1)
    BY <1>1, <2>0 DEF MaxAttempts
  <2>2. Shape'
    BY <1>1, <2>1, TypeParts DEF RetryOrMerge, Shape, Goto, PCs
  <2> QED
    BY <1>1, <2>2 DEF RetryOrMerge, TypeOK, Fits
<1>2. CASE ~(attempts[t] + 1 < MaxAttempts)
  BY <1>2, MergeTypes DEF RetryOrMerge
<1> QED
  BY <1>1, <1>2

\* Every action keeps the types, given that a request has a container.
LEMMA TypeStep ==
  ASSUME TypeOK, Carrying, [Next]_vars
  PROVE  TypeOK'
<1> USE DEF threadVars, agentVars, sessionVars, history
<1>0. Shape /\ Fits /\ Modes /\ Past /\ Profiling
  BY TypeParts
<1> SUFFICES Shape' /\ Fits' /\ Modes' /\ Past' /\ Profiling'
  BY DEF TypeOK, Shape, Fits, Modes, Past, Profiling
<1>1. ASSUME NEW c \in Containers, Reset(c) PROVE Shape' /\ Fits' /\ Modes' /\ Past' /\ Profiling'
  <2>1. Fits'
    BY <1>0, <1>1, EmptyFits, {c} \in SUBSET Containers,
       buffer' = [d \in Containers |-> IF d \in {c} THEN {} ELSE buffer[d]] DEF Reset, Fits
  <2> QED
    BY <1>0, <1>1, <2>1 DEF Reset, Shape, Fits, Modes, Past, Profiling
<1>2. ASSUME NEW c \in Containers, NEW e \in Events, Record(c, e)
      PROVE  Shape' /\ Fits' /\ Modes' /\ Past' /\ Profiling'
  <2>1. PICK K : /\ buffer' = [buffer EXCEPT ![c] = K]
                 /\ K \subseteq buffer[c] \cup {e}
                 /\ IsFiniteSet(K) /\ Cardinality(K) <= Capacity[c]
                 /\ overflowed' = overflowed \cup ((buffer[c] \cup {e}) \ K)
    BY <1>2, RecordOutcome
  <2>2. Fits'
    BY <1>0, <2>1 DEF Fits
  <2>3. Past'
    BY <1>0, <1>2, <2>1 DEF Past, Fits, Record
  <2> QED
    BY <1>0, <1>2, <2>2, <2>3 DEF Record, Shape, Modes, Profiling
<1>3. ASSUME NEW t \in Threads, PlanStep(t) PROVE Shape' /\ Fits' /\ Modes' /\ Past' /\ Profiling'
  <2>1. CASE RoundEnds(t)
    BY <1>0, <2>1, GotoShape DEF RoundEnds, PCs, Fits, Modes, Past, Profiling
  <2>2. CASE OpenSession(t) \/ CommandsHandled(t)
    BY <1>0, <2>2, AdvanceShape DEF OpenSession, CommandsHandled, At, Fits, Modes, Past, Profiling
  <2>3. CASE SessionFails(t)
    BY <1>0, <2>3, AbandonShape DEF SessionFails, PCs, Fits, Modes, Past, Profiling
  <2>4. ASSUME NEW c \in Containers, HarvestContainer(t, c) PROVE Shape' /\ Fits' /\ Modes' /\ Past' /\ Profiling'
    <3>1. Fits'
      BY <1>0, <2>4, EmptyFits, {c} \in SUBSET Containers,
         buffer' = [d \in Containers |-> IF d \in {c} THEN {} ELSE buffer[d]] DEF HarvestContainer, Fits
    <3>2. 0 \in 0..(MaxAttempts - 1)
      BY DEF MaxAttempts
    <3>3. buffer[c] \in SUBSET Events /\ IsFiniteSet(buffer[c])
      BY <1>0 DEF Fits
    <3>4. Shape'
      BY <1>0, <2>4, <3>2, <3>3 DEF HarvestContainer, Shape, Goto, PCs
    <3> QED
      BY <1>0, <2>4, <3>1, <3>4 DEF HarvestContainer, Modes, Past, Profiling
  <2>5. ASSUME NEW c \in Containers, HarvestNothing(t, c) PROVE Shape' /\ Fits' /\ Modes' /\ Past' /\ Profiling'
    BY <1>0, <2>5, AdvanceShape DEF HarvestNothing, At, Fits, Modes, Past, Profiling
  <2>6. ASSUME NEW c \in Containers, HarvestFails(t, c) PROVE Shape' /\ Fits' /\ Modes' /\ Past' /\ Profiling'
    <3>1. Fits'
      BY <1>0, <2>6, EmptyFits, {c} \in SUBSET Containers,
         buffer' = [d \in Containers |-> IF d \in {c} THEN {} ELSE buffer[d]] DEF HarvestFails, Fits
    <3>2. Shape'
      BY <1>0, <2>6, AdvanceShape DEF HarvestFails, At
    <3> QED
      BY <1>0, <2>6, <3>1, <3>2 DEF HarvestFails, Fits, Modes, Past, Profiling
  <2> QED
    BY <1>3, <2>1, <2>2, <2>3, <2>4, <2>5, <2>6 DEF PlanStep
<1>4. ASSUME NEW t \in Threads, RequestStep(t) PROVE Shape' /\ Fits' /\ Modes' /\ Past' /\ Profiling'
  <2>0. pc[t] \in Sending /\ todo[t] # <<>> /\ payload[t] \subseteq Events
    BY <1>0, <1>4 DEF RequestStep, Rejected, Unavailable, ConnectionFails, CollectorTakes, Accepted,
                      AnswerLost, AnswerUnreadable, Sending, Between, Carrying, Shape
  <2>1. CASE Rejected(t)
    BY <1>0, <2>0, <2>1, AdvanceShape DEF Rejected, OnlyWith, Fits, Modes, Past, Profiling
  <2>2. CASE Unavailable(t)
    BY <1>0, <2>0, <2>2, MergeTypes DEF Unavailable, Modes, Past, Profiling
  <2>3. CASE ConnectionFails(t)
    BY <1>0, <2>0, <2>3, RetryTypes DEF ConnectionFails, Modes, Past, Profiling
  <2>4. CASE CollectorTakes(t)
    BY <1>0, <2>0, <2>4, GotoShape DEF CollectorTakes, PCs, Fits, Modes, Past, Profiling
  <2>5. CASE Accepted(t)
    BY <1>0, <2>0, <2>5, AdvanceShape DEF Accepted, Fits, Modes, Past, Profiling
  <2>6. CASE AnswerLost(t)
    BY <1>0, <2>0, <2>6, RetryTypes DEF AnswerLost, Modes, Past, Profiling
  <2>7. CASE AnswerUnreadable(t)
    BY <1>0, <2>0, <2>7, MergeTypes DEF AnswerUnreadable, Modes, Past, Profiling
  <2> QED
    BY <1>4, <2>1, <2>2, <2>3, <2>4, <2>5, <2>6, <2>7 DEF RequestStep
<1>5. ASSUME NEW t \in Threads, OrderStep(t) PROVE Shape' /\ Fits' /\ Modes' /\ Past' /\ Profiling'
  <2>0. payload[t] \subseteq Events
    BY <1>0 DEF Shape
  <2>1. CASE ToldToRestart(t)
    BY <1>0, <2>0, <2>1, AbandonShape DEF ToldToRestart, OnlyWith, PCs, Fits, Modes, Past, Profiling
  <2>2. CASE ToldToDisconnect(t)
    BY <1>0, <2>0, <2>2, AbandonShape DEF ToldToDisconnect, OnlyWith, PCs, Fits, Modes, Past, Profiling
  <2> QED
    BY <1>5, <2>1, <2>2 DEF OrderStep
<1>6. CASE WorkerStep
  <2>0. Worker \in Threads
    BY DEF Threads
  <2>1. ASSUME NEW plan \in Plans, StartRound(plan) PROVE Shape' /\ Fits' /\ Modes' /\ Past' /\ Profiling'
    BY <1>0, <2>0, <2>1, PlansAssumption DEF StartRound, Goto, PCs, Shape, Fits, Modes, Past, Profiling
  <2>2. CASE LoopEnds
    BY <1>0, <2>0, <2>2, GotoShape DEF LoopEnds, PCs, Fits, Modes, Past, Profiling
  <2>3. CASE HandleForceRestart
    <3>1. Fits'
      BY <1>0, <2>3, EmptyFits, Containers \ Profiles \in SUBSET Containers,
         buffer' = [d \in Containers |-> IF d \in Containers \ Profiles THEN {} ELSE buffer[d]]
         DEF HandleForceRestart
    <3>2. Shape'
      BY <1>0, <2>0, <2>3, GotoShape DEF HandleForceRestart, PCs
    <3>3. UNION {buffer[c] : c \in Containers \ Profiles} \subseteq Events
      BY <1>0 DEF Fits
    <3> QED
      BY <1>0, <2>3, <3>1, <3>2, <3>3 DEF HandleForceRestart, Modes, Past, Profiling
  <2>4. CASE Reconnect
    BY <1>0, <2>0, <2>4, GotoShape DEF Reconnect, PCs, Fits, Modes, Past, Profiling
  <2>5. CASE StayAway
    BY <1>0, <2>0, <2>5, GotoShape DEF StayAway, PCs, Fits, Modes, Past, Profiling
  <2> QED
    BY <1>6, <2>1, <2>2, <2>3, <2>4, <2>5 DEF WorkerStep
<1>7. CASE ShutdownStep
  <2>0. Shutter \in Threads
    BY DEF Threads
  <2>1. CASE Shutdown
    BY <1>0, <2>0, <2>1, GotoShape DEF Shutdown, PCs, Fits, Modes, Past, Profiling
  <2>2. CASE GracefulDisconnect
    BY <1>0, <2>0, <2>2, PlansAssumption DEF GracefulDisconnect, Goto, PCs, Shape, Fits, Modes, Past, Profiling
  <2> QED
    BY <1>7, <2>1, <2>2 DEF ShutdownStep
<1>8. CASE UNCHANGED vars
  BY <1>0, <1>8 DEF vars, Shape, Fits, Modes, Past, Profiling
<1>9. ASSUME NEW t \in Threads, SessionStep(t) PROVE Shape' /\ Fits' /\ Modes' /\ Past' /\ Profiling'
  <2>1. ASSUME NEW c \in Profiles, ReadyToHarvest(t, c) PROVE Shape' /\ Fits' /\ Modes' /\ Past' /\ Profiling'
    BY <1>0, <2>1, GotoShape DEF ReadyToHarvest, PCs, Fits, Modes, Past, Profiling
  <2>2. ASSUME NEW c \in Profiles, TakeProfile(t, c) \/ Unsubscribe(t, c)
        PROVE  Shape' /\ Fits' /\ Modes' /\ Past' /\ Profiling'
    <3>1. c \in Containers /\ {c} \in SUBSET Containers
      BY ContainersAssumption
    <3>2. /\ buffer' = [buffer EXCEPT ![c] = {}]
          /\ UNCHANGED <<payload, todo, attempts>>
          /\ \E there \in PCs : Goto(t, there)
      BY <2>2 DEF TakeProfile, Unsubscribe, PCs
    <3>3. Shape'
      BY <1>0, <3>2, GotoShape
    <3>4. Fits'
      BY <1>0, <3>1, <3>2, EmptyFits,
         buffer' = [d \in Containers |-> IF d \in {c} THEN {} ELSE buffer[d]] DEF Fits
    <3>5. buffer[c] \subseteq Events /\ IsFiniteSet(buffer[c]) /\ IsFiniteSet({})
      BY <1>0, <3>1, FS_EmptySet DEF Fits
    <3>6. Past' /\ Profiling' /\ Modes'
      BY <1>0, <2>2, <3>5 DEF TakeProfile, Unsubscribe, Past, Profiling, Modes
    <3> QED
      BY <3>3, <3>4, <3>6
  <2>3. CASE ReadProfile(t)
    <3>1. 0 \in 0..(MaxAttempts - 1)
      BY DEF MaxAttempts
    <3>2. Shape'
      BY <1>0, <2>3, <3>1 DEF ReadProfile, Shape, Profiling, Goto, PCs
    <3> QED
      BY <1>0, <2>3, <3>2 DEF ReadProfile, Fits, Modes, Past, Profiling
  <2>4. CASE ClearProfile(t)
    <3>1. todo[t] # <<>> /\ IsFiniteSet({})
      BY <2>4, FS_EmptySet DEF ClearProfile, Carrying, Between
    <3>2. Shape'
      BY <1>0, <2>4, <3>1, GotoShape, AdvanceShape DEF ClearProfile, PCs
    <3> QED
      BY <1>0, <2>4, <3>1, <3>2 DEF ClearProfile, Fits, Modes, Past, Profiling
  <2> QED
    BY <1>9, <2>1, <2>2, <2>3, <2>4 DEF SessionStep
<1>10. ASSUME NEW t \in Threads, CommandStep(t) PROVE Shape' /\ Fits' /\ Modes' /\ Past' /\ Profiling'
  <2>1. CASE StartProfile(t)
    BY <1>0, <2>1 DEF StartProfile, Shape, Fits, Modes, Past, Profiling
  <2>2. CASE StopProfile(t)
    BY <1>0, <2>2, GotoShape DEF StopProfile, PCs, Fits, Modes, Past, Profiling
  <2> QED
    BY <1>10, <2>1, <2>2 DEF CommandStep
<1> QED
  BY <1>1, <1>2, <1>3, <1>4, <1>5, <1>6, <1>7, <1>8, <1>9, <1>10 DEF Next, AppStep

----------------------------------------------------------------------------
(* Payloads *)

\* A thread has a payload only from the harvest of a container to the end of
\* the request for it, which is still the first entry of its plan; and so is the
\* profile container for a thread inside the profiler's session.
LEMMA CarryingStep ==
  ASSUME TypeOK, Carrying, [Next]_vars
  PROVE  Carrying'
<1> USE DEF threadVars, sessionVars, Sending, InSession, Stopping, Between
<1>0. /\ payload \in [Threads -> SUBSET Events]
      /\ todo \in [Threads -> Seq(Steps)]
      /\ pc \in [Threads -> PCs]
  BY DEF TypeOK
<1>1. ASSUME NEW t \in Threads, Advance(t) PROVE Carrying'
  BY <1>0, <1>1 DEF Advance, Goto, Carrying, Target
<1>2. ASSUME NEW t \in Threads, NEW there \in {"step", "restarting", "ended"}, Abandon(t, there)
      PROVE  Carrying'
  BY <1>0, <1>2 DEF Abandon, Goto, Carrying, Target
<1>3. ASSUME NEW t \in Threads, NEW there \in Between, pc[t] \in Between, Goto(t, there),
             payload' = payload, \A u \in Threads : u # t => todo'[u] = todo[u]
      PROVE  Carrying'
  BY <1>0, <1>3 DEF Goto, Carrying, Target
<1>4. ASSUME NEW t \in Threads, pc[t] \in Sending, RetryOrMerge(t) PROVE Carrying'
  <2>1. CASE Goto(t, "request") /\ payload' = payload /\ todo' = todo
    BY <1>0, <1>4, <2>1 DEF Goto, Carrying, Target
  <2> QED
    BY <1>1, <1>4, <2>1 DEF RetryOrMerge, Merge
<1>5. CASE AppStep
  BY <1>5 DEF AppStep, Reset, Record, Carrying, Target
<1>6. ASSUME NEW t \in Threads, PlanStep(t) PROVE Carrying'
  <2>1. CASE RoundEnds(t)
    BY <1>3, <2>1 DEF RoundEnds, PCs
  <2>2. CASE OpenSession(t) \/ CommandsHandled(t)
    BY <1>1, <2>2 DEF OpenSession, CommandsHandled
  <2>3. CASE SessionFails(t)
    BY <1>2, <2>3 DEF SessionFails
  <2>4. ASSUME NEW c \in Containers, HarvestContainer(t, c) PROVE Carrying'
    BY <1>0, <2>4 DEF HarvestContainer, At, Goto, Carrying, Target
  <2>5. ASSUME NEW c \in Containers, HarvestNothing(t, c) \/ HarvestFails(t, c) PROVE Carrying'
    BY <1>1, <2>5 DEF HarvestNothing, HarvestFails
  <2> QED
    BY <1>6, <2>1, <2>2, <2>3, <2>4, <2>5 DEF PlanStep
<1>7. ASSUME NEW t \in Threads, RequestStep(t) PROVE Carrying'
  <2>1. CASE Rejected(t) \/ Unavailable(t) \/ Accepted(t) \/ AnswerUnreadable(t)
    BY <1>1, <2>1 DEF Rejected, Unavailable, Accepted, AnswerUnreadable, Merge
  <2>2. CASE ConnectionFails(t) \/ AnswerLost(t)
    BY <1>4, <2>2 DEF ConnectionFails, AnswerLost
  <2>3. CASE CollectorTakes(t)
    BY <1>0, <2>3 DEF CollectorTakes, Goto, Carrying, Target
  <2> QED
    BY <1>7, <2>1, <2>2, <2>3 DEF RequestStep
<1>8. ASSUME NEW t \in Threads, OrderStep(t) PROVE Carrying'
  BY <1>2, <1>8 DEF OrderStep, ToldToRestart, ToldToDisconnect
<1>9. CASE WorkerStep \/ ShutdownStep
  <2>1. Worker \in Threads /\ Shutter \in Threads
    BY DEF Threads
  <2>2. ASSUME NEW plan \in Plans, StartRound(plan) PROVE Carrying'
    BY <1>0, <2>1, <2>2 DEF StartRound, Goto, Carrying, Target
  <2>3. CASE LoopEnds \/ HandleForceRestart \/ Reconnect \/ StayAway
    BY <1>3, <2>1, <2>3 DEF LoopEnds, HandleForceRestart, Reconnect, StayAway, PCs
  <2>4. CASE Shutdown
    BY <1>3, <2>1, <2>4 DEF Shutdown, PCs
  <2>5. CASE GracefulDisconnect
    BY <1>0, <2>1, <2>5 DEF GracefulDisconnect, Goto, Carrying, Target
  <2> QED
    BY <1>9, <2>2, <2>3, <2>4, <2>5 DEF WorkerStep, ShutdownStep
<1>10. CASE UNCHANGED vars
  BY <1>10 DEF vars, Carrying, Target
<1>11. ASSUME NEW t \in Threads, SessionStep(t) PROVE Carrying'
  <2>1. ASSUME NEW c \in Profiles, ReadyToHarvest(t, c) PROVE Carrying'
    BY <1>0, <2>1 DEF ReadyToHarvest, At, Goto, Carrying, Target
  <2>2. ASSUME NEW c \in Profiles, TakeProfile(t, c) PROVE Carrying'
    BY <1>0, <2>2 DEF TakeProfile, Goto, Carrying, Target
  <2>3. ASSUME NEW c \in Profiles, Unsubscribe(t, c) PROVE Carrying'
    BY <1>0, <2>3 DEF Unsubscribe, Goto, Carrying, Target
  <2>4. CASE ReadProfile(t)
    BY <1>0, <2>4 DEF ReadProfile, Goto, Carrying, Target
  <2>5. CASE ClearProfile(t)
    <3>1. CASE Goto(t, "request") /\ UNCHANGED <<payload, todo>>
      BY <1>0, <2>5, <3>1, ContainersAssumption DEF ClearProfile, Goto, Carrying, Target
    <3> QED
      BY <1>1, <2>5, <3>1 DEF ClearProfile
  <2> QED
    BY <1>11, <2>1, <2>2, <2>3, <2>4, <2>5 DEF SessionStep
<1>12. ASSUME NEW t \in Threads, CommandStep(t) PROVE Carrying'
  <2>1. CASE StartProfile(t)
    BY <2>1 DEF StartProfile, Carrying, Target
  <2>2. CASE StopProfile(t)
    BY <1>0, <2>2 DEF StopProfile, At, Goto, Carrying, Target
  <2> QED
    BY <1>12, <2>1, <2>2 DEF CommandStep
<1> QED
  BY <1>5, <1>6, <1>7, <1>8, <1>9, <1>10, <1>11, <1>12 DEF Next

----------------------------------------------------------------------------
(* Custody *)

Custody == ExclusiveCustody /\ HeldRecorded

\* There are two threads.
LEMMA OtherThread ==
  ASSUME NEW t \in Threads
  PROVE  Other(t) \in Threads /\ Other(t) # t /\ \A u \in Threads : u # t => u = Other(t)
BY DEF Other, Threads, Worker, Shutter

\* What both threads carry is a profile that one read before the other's clear.
LEMMA BothCarry ==
  ASSUME ExclusiveCustody, NEW t \in Threads, NEW u \in Threads, u # t
  PROVE  /\ payload[t] \cap payload[u] \subseteq shared
         /\ payload[t] \cap payload[u] # {} => Target(t) \in Profiles /\ Target(u) \in Profiles
<1>1. CASE t = Worker
  BY <1>1 DEF ExclusiveCustody, Threads
<1>2. CASE t = Shutter
  BY <1>2 DEF ExclusiveCustody, Threads
<1> QED
  BY <1>1, <1>2 DEF Threads

\* No holder of data gains any, and a payload stays where it is in the plan.
Shrinks ==
  /\ \A c \in Containers : buffer'[c] \subseteq buffer[c]
  /\ \A t \in Threads : payload'[t] \subseteq payload[t]
  /\ finished' \subseteq finished
  /\ shared \subseteq shared'
  /\ \A t \in Threads : payload'[t] # {} => todo'[t] = todo[t]
  /\ \A t \in Threads : pc[t] = "clearing" => \/ pc'[t] = "clearing"
                                              \/ payload'[t] = {} \/ finished' = {}

LEMMA ShrinkCustody ==
  ASSUME Custody, Shrinks, recorded' = recorded, received' \subseteq recorded
  PROVE  Custody'
<1>1. Worker \in Threads /\ Shutter \in Threads
  BY DEF Threads
<1>2. HeldRecorded'
  BY DEF Custody, Shrinks, HeldRecorded
<1>3. \A c, d \in Containers : c # d => buffer'[c] \cap buffer'[d] = {}
  BY DEF Custody, Shrinks, ExclusiveCustody
<1>4. \A c \in Containers : buffer'[c] \cap (finished' \cup InHands') = {}
  BY <1>1 DEF Custody, Shrinks, ExclusiveCustody, InHands
<1>5. \A t \in Threads : finished' \cap payload'[t] # {} => pc'[t] = "clearing"
  BY DEF Custody, Shrinks, ExclusiveCustody
<1>6. ASSUME payload'[Worker] \cap payload'[Shutter] # {}
      PROVE  /\ payload'[Worker] \cap payload'[Shutter] \subseteq shared'
             /\ Target(Worker)' \in Profiles /\ Target(Shutter)' \in Profiles
  BY <1>1, <1>6 DEF Custody, Shrinks, ExclusiveCustody, Target
<1> QED
  BY <1>2, <1>3, <1>4, <1>5, <1>6 DEF Custody, ExclusiveCustody

\* merge! moves the payload of a thread to a container, unless it is a profile.
LEMMA MergeCustody ==
  ASSUME TypeOK, Carrying, Custody, NEW t \in Threads, pc[t] \in Sending, Merge(t),
         recorded' = recorded, received' = received, UNCHANGED sessionVars
  PROVE  Custody'
<1>1. Target(t) \in Containers
  BY DEF Carrying
<1>2. PICK K : /\ buffer' = [buffer EXCEPT ![Target(t)] = K]
               /\ K \subseteq buffer[Target(t)] \cup payload[t]
               /\ Target(t) \in Profiles => K = buffer[Target(t)]
  BY MergeOutcome
<1>3. /\ payload' = [payload EXCEPT ![t] = {}]
      /\ todo' = [todo EXCEPT ![t] = Tail(@)]
      /\ pc' = [pc EXCEPT ![t] = "step"]
  BY DEF Merge, Advance, Goto
<1>4. /\ \A c \in Containers : buffer'[c] = IF c = Target(t) THEN K ELSE buffer[c]
      /\ \A u \in Threads : payload'[u] = IF u = t THEN {} ELSE payload[u]
      /\ \A u \in Threads : u # t => todo'[u] = todo[u] /\ pc'[u] = pc[u]
      /\ finished' = finished /\ shared' = shared
  BY <1>2, <1>3 DEF TypeOK, sessionVars
<1>5. CASE Target(t) \in Profiles
  <2>1. Shrinks
    BY <1>1, <1>2, <1>4, <1>5 DEF Shrinks
  <2> QED
    BY <2>1, ShrinkCustody DEF Custody, HeldRecorded
<1>6. CASE Target(t) \notin Profiles
  <2>1. /\ \A c \in Containers, u \in Threads : buffer[c] \cap payload[u] = {}
        /\ \A c \in Containers : buffer[c] \cap finished = {}
    BY DEF Custody, ExclusiveCustody, InHands, Threads
  <2>2. /\ \A u \in Threads : u # t => payload[u] \cap payload[t] = {}
        /\ finished \cap payload[t] = {}
    BY <1>6, BothCarry DEF Custody, ExclusiveCustody, Sending
  <2>3. \A c, d \in Containers : c # d => buffer'[c] \cap buffer'[d] = {}
    BY <1>1, <1>2, <1>4, <2>1 DEF Custody, ExclusiveCustody
  <2>4. \A c \in Containers : buffer'[c] \cap (finished' \cup InHands') = {}
    BY <1>1, <1>2, <1>4, <2>1, <2>2 DEF InHands, Threads
  <2>5. \A u \in Threads : finished' \cap payload'[u] # {} => pc'[u] = "clearing"
    BY <1>4 DEF Custody, ExclusiveCustody
  <2>6. payload'[Worker] \cap payload'[Shutter] = {}
    BY <1>4, <2>2 DEF Threads
  <2>7. HeldRecorded'
    BY <1>1, <1>2, <1>4 DEF Custody, HeldRecorded
  <2> QED
    BY <2>3, <2>4, <2>5, <2>6, <2>7 DEF Custody, ExclusiveCustody
<1> QED
  BY <1>5, <1>6

\* Every action keeps what is held apart, and recorded.
LEMMA CustodyStep ==
  ASSUME TypeOK, Carrying, Custody, [Next]_vars
  PROVE  Custody'
<1> USE DEF threadVars, agentVars, sessionVars, history
<1>0. /\ buffer \in [Containers -> SUBSET Events]
      /\ payload \in [Threads -> SUBSET Events]
      /\ todo \in [Threads -> Seq(Steps)] /\ pc \in [Threads -> PCs]
      /\ received \subseteq recorded
  BY DEF TypeOK, Custody, HeldRecorded
<1>1. ASSUME Shrinks, recorded' = recorded, received' = received PROVE Custody'
  BY <1>0, <1>1, ShrinkCustody
<1>2. ASSUME NEW t \in Threads, Advance(t) \/ \E there : Abandon(t, there),
             \A c \in Containers : buffer'[c] \subseteq buffer[c],
             finished' \subseteq finished, shared' = shared
      PROVE  Shrinks
  BY <1>0, <1>2 DEF Advance, Abandon, Goto, Shrinks
<1>11. ASSUME NEW t \in Threads, pc[t] # "clearing" \/ finished' = {}, \E there : Goto(t, there), payload' = payload,
             \A u \in Threads : payload[u] # {} => todo'[u] = todo[u],
             \A c \in Containers : buffer'[c] \subseteq buffer[c],
             finished' \subseteq finished, shared' = shared
      PROVE  Shrinks
  BY <1>0, <1>11 DEF Goto, Shrinks
<1>3. ASSUME NEW t \in Threads, pc[t] \in Sending, RetryOrMerge(t), recorded' = recorded, received' = received,
             UNCHANGED sessionVars
      PROVE  Custody'
  <2>1. CASE Goto(t, "request") /\ UNCHANGED <<buffer, payload, todo>>
    BY <1>1, <1>3, <1>11, <2>1 DEF Sending
  <2> QED
    BY <1>3, <2>1, MergeCustody DEF RetryOrMerge
<1>4. ASSUME NEW c \in Containers, Reset(c) PROVE Custody'
  BY <1>0, <1>1, <1>4 DEF Reset, Shrinks
<1>5. ASSUME NEW c \in Containers, NEW e \in Events, Record(c, e) PROVE Custody'
  <2>1. PICK K : buffer' = [buffer EXCEPT ![c] = K] /\ K \subseteq buffer[c] \cup {e}
    BY <1>5, RecordOutcome
  <2>2. \A d \in Containers : buffer'[d] = IF d = c THEN K ELSE buffer[d]
    BY <1>0, <2>1
  <2>3. e \notin recorded /\ recorded' = recorded \cup {e} /\ payload' = payload /\ received' = received
    BY <1>5 DEF Record
  <2>4. /\ \A d \in Containers : e \notin buffer[d]
        /\ \A t \in Threads : e \notin payload[t]
        /\ e \notin finished
    BY <2>3 DEF Custody, HeldRecorded
  <2>7. UNCHANGED <<finished, shared, todo, pc>>
    BY <1>5 DEF Record
  <2>5. HeldRecorded'
    BY <2>1, <2>2, <2>3, <2>7 DEF Custody, HeldRecorded
  <2>6. ExclusiveCustody'
    <3>1. Worker \in Threads /\ Shutter \in Threads
      BY DEF Threads
    <3>2. \A d, f \in Containers : d # f => buffer'[d] \cap buffer'[f] = {}
      BY <2>1, <2>2, <2>4 DEF Custody, ExclusiveCustody
    <3>3. \A d \in Containers : buffer'[d] \cap (finished' \cup InHands') = {}
      BY <2>1, <2>2, <2>3, <2>4, <2>7, <3>1 DEF Custody, ExclusiveCustody, InHands
    <3> QED
      BY <2>3, <2>7, <3>2, <3>3 DEF Custody, ExclusiveCustody, Target
  <2> QED
    BY <2>5, <2>6 DEF Custody
<1>6. ASSUME NEW t \in Threads, PlanStep(t) PROVE Custody'
  <2>1. CASE RoundEnds(t)
    BY <1>1, <1>11, <2>1 DEF RoundEnds
  <2>2. CASE OpenSession(t) \/ CommandsHandled(t) \/ SessionFails(t)
    BY <1>1, <1>2, <2>2 DEF OpenSession, CommandsHandled, SessionFails
  <2>3. ASSUME NEW c \in Containers, HarvestContainer(t, c) PROVE Custody'
    <3>1. /\ \A d \in Containers : buffer'[d] = IF d = c THEN {} ELSE buffer[d]
          /\ \A u \in Threads : payload'[u] = IF u = t THEN buffer[c] ELSE payload[u]
          /\ recorded' = recorded /\ received' = received
          /\ \A u \in Threads : u # t => pc'[u] = pc[u]
          /\ UNCHANGED <<finished, shared, todo>>
      BY <1>0, <2>3 DEF HarvestContainer, Goto
    <3>2. HeldRecorded'
      BY <3>1 DEF Custody, HeldRecorded
    <3>3. ExclusiveCustody'
      <4>1. Worker # Shutter /\ Threads = {Worker, Shutter}
        BY DEF Worker, Shutter, Threads
      <4>2. \A d, f \in Containers : d # f => buffer'[d] \cap buffer'[f] = {}
        BY <3>1 DEF Custody, ExclusiveCustody
      <4>3. \A d \in Containers : buffer'[d] \cap (finished' \cup InHands') = {}
        BY <3>1, <4>1 DEF Custody, ExclusiveCustody, InHands
      <4>4. payload'[Worker] \cap payload'[Shutter] = {}
        BY <3>1, <4>1 DEF Custody, ExclusiveCustody, InHands
      <4>5. \A u \in Threads : finished' \cap payload'[u] # {} => pc'[u] = "clearing"
        BY <3>1 DEF Custody, ExclusiveCustody
      <4> QED
        BY <4>2, <4>3, <4>4, <4>5 DEF ExclusiveCustody
    <3> QED
      BY <3>2, <3>3 DEF Custody
  <2>4. ASSUME NEW c \in Containers, HarvestNothing(t, c) PROVE Custody'
    BY <1>1, <1>2, <2>4 DEF HarvestNothing
  <2>5. ASSUME NEW c \in Containers, HarvestFails(t, c) PROVE Custody'
    BY <1>0, <1>1, <1>2, <2>5 DEF HarvestFails
  <2> QED
    BY <1>6, <2>1, <2>2, <2>3, <2>4, <2>5 DEF PlanStep
<1>7. ASSUME NEW t \in Threads, RequestStep(t) PROVE Custody'
  <2>1. CASE Rejected(t) \/ Accepted(t)
    BY <1>1, <1>2, <2>1 DEF Rejected, Accepted
  <2>2. CASE Unavailable(t) \/ AnswerUnreadable(t)
    BY <2>2, MergeCustody DEF Unavailable, AnswerUnreadable, Sending
  <2>3. CASE ConnectionFails(t) \/ AnswerLost(t)
    BY <1>3, <2>3 DEF ConnectionFails, AnswerLost, Sending
  <2>4. CASE CollectorTakes(t)
    <3>1. Shrinks
      BY <1>11, <2>4 DEF CollectorTakes
    <3> QED
      BY <2>4, <3>1, ShrinkCustody DEF CollectorTakes, Custody, HeldRecorded
  <2> QED
    BY <1>7, <2>1, <2>2, <2>3, <2>4 DEF RequestStep
<1>8. ASSUME NEW t \in Threads, OrderStep(t) PROVE Custody'
  BY <1>1, <1>2, <1>8 DEF OrderStep, ToldToRestart, ToldToDisconnect
<1>9. CASE WorkerStep \/ ShutdownStep
  <2>1. Worker \in Threads /\ Shutter \in Threads
    BY DEF Threads
  <2>2. ASSUME NEW plan \in Plans, StartRound(plan) PROVE Custody'
    <3>1. payload[Worker] = {}
      BY <2>1, <2>2 DEF StartRound, Carrying, Sending
    <3> QED
      BY <1>0, <1>1, <1>11, <2>1, <2>2, <3>1 DEF StartRound
  <2>3. CASE HandleForceRestart
    <3>1. \A c \in Containers : buffer'[c] \subseteq buffer[c]
      BY <2>3 DEF HandleForceRestart
    <3> QED
      BY <1>1, <1>11, <2>1, <2>3, <3>1 DEF HandleForceRestart
  <2>4. CASE LoopEnds \/ Reconnect \/ StayAway \/ Shutdown
    BY <1>1, <1>11, <2>1, <2>4 DEF LoopEnds, Reconnect, StayAway, Shutdown
  <2>5. CASE GracefulDisconnect
    <3>1. payload[Shutter] = {}
      BY <2>1, <2>5 DEF GracefulDisconnect, Carrying, Sending
    <3> QED
      BY <1>0, <1>1, <1>11, <2>1, <2>5, <3>1 DEF GracefulDisconnect
  <2> QED
    BY <1>9, <2>2, <2>3, <2>4, <2>5 DEF WorkerStep, ShutdownStep
<1>10. CASE UNCHANGED vars
  BY <1>1, <1>10 DEF vars, Shrinks
<1>12. ASSUME NEW t \in Threads, SessionStep(t) PROVE Custody'
  <2>0. \A c \in Profiles : c \in Containers
    BY ContainersAssumption
  <2>1. ASSUME NEW c \in Profiles, ReadyToHarvest(t, c) PROVE Custody'
    BY <1>1, <1>11, <2>1 DEF ReadyToHarvest, At
  <2>2. ASSUME NEW c \in Profiles, TakeProfile(t, c) PROVE Custody'
    <3>1. /\ \A d \in Containers : buffer'[d] = IF d = c THEN {} ELSE buffer[d]
          /\ finished' = buffer[c]
          /\ UNCHANGED <<payload, todo, shared, recorded, received>>
      BY <1>0, <2>2 DEF TakeProfile
    <3>2. \A u \in Threads : buffer[c] \cap payload[u] = {}
      BY <2>0 DEF Custody, ExclusiveCustody, InHands, Threads
    <3>3. HeldRecorded'
      BY <2>0, <3>1 DEF Custody, HeldRecorded
    <3>4. \A d \in Containers : buffer'[d] \cap (finished' \cup InHands') = {}
      BY <2>0, <3>1 DEF Custody, ExclusiveCustody, InHands
    <3>5. \A d, f \in Containers : d # f => buffer'[d] \cap buffer'[f] = {}
      BY <3>1 DEF Custody, ExclusiveCustody
    <3> QED
      BY <3>1, <3>2, <3>3, <3>4, <3>5 DEF Custody, ExclusiveCustody, Target
  <2>3. ASSUME NEW c \in Profiles, Unsubscribe(t, c) PROVE Custody'
    <3>1. /\ \A d \in Containers : buffer'[d] \subseteq buffer[d]
          /\ finished' \subseteq finished
      BY <1>0, <2>3 DEF Unsubscribe
    <3> QED
      BY <1>1, <1>11, <2>3, <3>1 DEF Unsubscribe
  <2>4. CASE ReadProfile(t)
    <3>1. /\ \A u \in Threads : payload'[u] = IF u = t THEN finished ELSE payload[u]
          /\ \A u \in Threads : pc'[u] = IF u = t THEN "clearing" ELSE pc[u]
          /\ shared' = shared \cup (finished \cap payload[Other(t)])
          /\ UNCHANGED <<buffer, todo, finished, recorded, received>>
      BY <1>0, <2>4 DEF ReadProfile, Goto
    <3>2. HeldRecorded'
      BY <3>1 DEF Custody, HeldRecorded
    <3>3. Threads = {Worker, Shutter} /\ Other(t) \in Threads /\ Other(t) # t
          /\ {t, Other(t)} = Threads
      BY OtherThread DEF Threads
    <3>4. \A d \in Containers : buffer'[d] \cap (finished' \cup InHands') = {}
      BY <3>1, <3>3 DEF Custody, ExclusiveCustody, InHands
    <3>5. \A u \in Threads : finished' \cap payload'[u] # {} => pc'[u] = "clearing"
      BY <3>1 DEF Custody, ExclusiveCustody
    <3>6. payload'[Worker] \cap payload'[Shutter] = finished \cap payload[Other(t)]
      BY <3>1, <3>3
    <3>7. ASSUME finished \cap payload[Other(t)] # {}
          PROVE  Target(t) \in Profiles /\ Target(Other(t)) \in Profiles
      BY <2>4, <3>3, <3>7 DEF ReadProfile, Carrying, InSession, Custody, ExclusiveCustody
    <3>8. payload'[Worker] \cap payload'[Shutter] # {}
            => Target(Worker)' \in Profiles /\ Target(Shutter)' \in Profiles
      BY <3>1, <3>3, <3>6, <3>7 DEF Target
    <3> QED
      BY <3>1, <3>2, <3>4, <3>5, <3>6, <3>8 DEF Custody, ExclusiveCustody
  <2>5. CASE ClearProfile(t)
    <3>1. finished' = {} /\ UNCHANGED <<buffer, shared, recorded, received>>
      BY <2>5 DEF ClearProfile
    <3>2. CASE Goto(t, "request") /\ UNCHANGED <<payload, todo>>
      BY <1>1, <1>11, <3>1, <3>2
    <3> QED
      BY <1>1, <1>2, <2>5, <3>1, <3>2 DEF ClearProfile
  <2> QED
    BY <1>12, <2>1, <2>2, <2>3, <2>4, <2>5 DEF SessionStep
<1>13. ASSUME NEW t \in Threads, CommandStep(t) PROVE Custody'
  <2>1. CASE StartProfile(t)
    BY <1>1, <2>1 DEF StartProfile, Shrinks
  <2>2. CASE StopProfile(t)
    BY <1>1, <1>11, <2>2 DEF StopProfile, At
  <2> QED
    BY <1>13, <2>1, <2>2 DEF CommandStep
<1> QED
  BY <1>4, <1>5, <1>6, <1>7, <1>8, <1>9, <1>10, <1>12, <1>13 DEF Next, AppStep

----------------------------------------------------------------------------
(* Duplicates *)

Repeats == ReceivedKnown /\ DuplicatesExplained

\* No holder of data gains any, and no request is under way that was not.
LEMMA ShrinkRepeats ==
  ASSUME Repeats, received' = received, duplicated' = duplicated,
         \A c \in Containers : buffer'[c] \subseteq buffer[c],
         \A t \in Threads : payload'[t] \subseteq payload[t],
         finished' \subseteq finished,
         unanswered \subseteq unanswered', shared \subseteq shared',
         \A t \in Threads : pc'[t] = pc[t] \/ (pc[t] # "answer" /\ pc'[t] # "answer")
                                           \/ payload'[t] = {}
  PROVE  Repeats'
<1>1. /\ \A c \in Containers : buffer'[c] \cap received' \subseteq Explained'
      /\ finished' \cap received' \subseteq Explained'
  BY DEF Repeats, ReceivedKnown, Explained
<1>2. ASSUME NEW t \in Threads
      PROVE  IF pc'[t] = "answer" THEN payload'[t] \subseteq received'
             ELSE payload'[t] \cap received' \subseteq Explained'
  BY <1>2 DEF Repeats, ReceivedKnown, Explained
<1> QED
  BY <1>1, <1>2 DEF Repeats, ReceivedKnown, DuplicatesExplained, Explained

\* merge! of data the collector may have is of data that may be sent again.
LEMMA MergeRepeats ==
  ASSUME TypeOK, Carrying, Repeats, NEW t \in Threads, pc[t] \in Sending, Merge(t),
         received' = received, duplicated' = duplicated, UNCHANGED sessionVars,
         unanswered \subseteq unanswered',
         payload[t] \cap received \subseteq Explained'
  PROVE  Repeats'
<1>0. Explained \subseteq Explained' /\ finished' = finished /\ shared' = shared
  BY DEF Explained, sessionVars
<1>1. Target(t) \in Containers
  BY DEF Carrying
<1>2. PICK K : /\ buffer' = [buffer EXCEPT ![Target(t)] = K]
               /\ K \subseteq buffer[Target(t)] \cup payload[t]
  BY MergeOutcome
<1>3. /\ \A c \in Containers : buffer'[c] = IF c = Target(t) THEN K ELSE buffer[c]
      /\ \A u \in Threads : payload'[u] = IF u = t THEN {} ELSE payload[u]
      /\ \A u \in Threads : u # t => pc'[u] = pc[u]
  BY <1>2 DEF TypeOK, Merge, Advance, Goto
<1>4. /\ \A c \in Containers : buffer'[c] \cap received' \subseteq Explained'
      /\ finished' \cap received' \subseteq Explained'
  BY <1>0, <1>1, <1>2, <1>3 DEF Repeats, ReceivedKnown
<1>5. ASSUME NEW u \in Threads
      PROVE  IF pc'[u] = "answer" THEN payload'[u] \subseteq received'
             ELSE payload'[u] \cap received' \subseteq Explained'
  BY <1>0, <1>3, <1>5 DEF Repeats, ReceivedKnown
<1> QED
  BY <1>0, <1>4, <1>5 DEF Repeats, ReceivedKnown, DuplicatesExplained, Explained

\* Every action keeps duplicates among the unanswered and the profiles read twice.
LEMMA RepeatsStep ==
  ASSUME TypeOK, Carrying, Custody, Repeats, [Next]_vars
  PROVE  Repeats'
<1> USE DEF threadVars, agentVars, sessionVars, history
<1>0. /\ buffer \in [Containers -> SUBSET Events]
      /\ payload \in [Threads -> SUBSET Events]
      /\ pc \in [Threads -> PCs]
  BY DEF TypeOK
<1>1. ASSUME NEW t \in Threads, Advance(t) \/ \E there : Abandon(t, there)
      PROVE  /\ \A u \in Threads : payload'[u] \subseteq payload[u]
             /\ \A u \in Threads : pc'[u] = pc[u] \/ payload'[u] = {}
  BY <1>0, <1>1 DEF Advance, Abandon, Goto
<1>2. ASSUME NEW t \in Threads, NEW there \in PCs \ {"answer"}, pc[t] # "answer", Goto(t, there),
             payload' = payload
      PROVE  /\ \A u \in Threads : payload'[u] \subseteq payload[u]
             /\ \A u \in Threads : pc'[u] = pc[u] \/ (pc[u] # "answer" /\ pc'[u] # "answer")
  BY <1>0, <1>2 DEF Goto
<1>3. ASSUME NEW t \in Threads, pc[t] \in Sending, RetryOrMerge(t),
             received' = received, duplicated' = duplicated,
             unanswered \subseteq unanswered', payload[t] \cap received \subseteq Explained',
             UNCHANGED sessionVars
      PROVE  Repeats'
  <2>1. CASE Goto(t, "request") /\ buffer' = buffer /\ payload' = payload
    <3>1. \A u \in Threads : pc'[u] = IF u = t THEN "request" ELSE pc[u]
      BY <1>0, <2>1 DEF Goto
    <3>4. Explained \subseteq Explained'
      BY <1>3 DEF Explained
    <3>2. /\ \A c \in Containers : buffer'[c] \cap received' \subseteq Explained'
          /\ finished' \cap received' \subseteq Explained'
      BY <1>3, <2>1, <3>4 DEF Repeats, ReceivedKnown
    <3>3. ASSUME NEW u \in Threads
          PROVE  IF pc'[u] = "answer" THEN payload'[u] \subseteq received'
                 ELSE payload'[u] \cap received' \subseteq Explained'
      BY <1>3, <2>1, <3>1, <3>3, <3>4 DEF Repeats, ReceivedKnown
    <3> QED
      BY <1>3, <3>2, <3>3 DEF Repeats, ReceivedKnown, DuplicatesExplained, Explained
  <2> QED
    BY <1>3, <2>1, MergeRepeats DEF RetryOrMerge
<1>4. ASSUME NEW c \in Containers, Reset(c) PROVE Repeats'
  BY <1>0, <1>4, ShrinkRepeats DEF Reset
<1>5. ASSUME NEW c \in Containers, NEW e \in Events, Record(c, e) PROVE Repeats'
  <2>1. PICK K : buffer' = [buffer EXCEPT ![c] = K] /\ K \subseteq buffer[c] \cup {e}
    BY <1>5, RecordOutcome
  <2>2. \A d \in Containers : buffer'[d] = IF d = c THEN K ELSE buffer[d]
    BY <1>0, <2>1
  <2>3. e \notin received
    BY <1>5 DEF Record, Custody, HeldRecorded
  <2>4. UNCHANGED <<payload, pc, finished, shared, received, duplicated, unanswered>>
    BY <1>5 DEF Record
  <2>5. \A d \in Containers : buffer'[d] \cap received' \subseteq Explained'
    BY <2>1, <2>2, <2>3, <2>4 DEF Repeats, ReceivedKnown, Explained
  <2> QED
    BY <2>4, <2>5 DEF Repeats, ReceivedKnown, DuplicatesExplained, Explained
<1>6. ASSUME NEW t \in Threads, PlanStep(t) PROVE Repeats'
  <2>1. CASE RoundEnds(t)
    BY <1>2, <2>1, ShrinkRepeats DEF RoundEnds, PCs
  <2>2. CASE OpenSession(t) \/ CommandsHandled(t) \/ SessionFails(t)
    BY <1>1, <2>2, ShrinkRepeats DEF OpenSession, CommandsHandled, SessionFails
  <2>3. ASSUME NEW c \in Containers, HarvestContainer(t, c) PROVE Repeats'
    <3>1. /\ \A d \in Containers : buffer'[d] = IF d = c THEN {} ELSE buffer[d]
          /\ \A u \in Threads : payload'[u] = IF u = t THEN buffer[c] ELSE payload[u]
          /\ \A u \in Threads : pc'[u] = IF u = t THEN "request" ELSE pc[u]
          /\ UNCHANGED <<finished, shared, received, duplicated, unanswered>>
      BY <1>0, <2>3 DEF HarvestContainer, Goto
    <3>2. \A d \in Containers : buffer'[d] \cap received' \subseteq Explained'
      BY <3>1 DEF Repeats, ReceivedKnown, Explained
    <3>3. ASSUME NEW u \in Threads
          PROVE  IF pc'[u] = "answer" THEN payload'[u] \subseteq received'
                 ELSE payload'[u] \cap received' \subseteq Explained'
      BY <3>1, <3>3 DEF Repeats, ReceivedKnown, Explained
    <3> QED
      BY <3>1, <3>2, <3>3 DEF Repeats, ReceivedKnown, DuplicatesExplained, Explained
  <2>4. ASSUME NEW c \in Containers, HarvestNothing(t, c) PROVE Repeats'
    BY <1>1, <2>4, ShrinkRepeats DEF HarvestNothing
  <2>5. ASSUME NEW c \in Containers, HarvestFails(t, c) PROVE Repeats'
    BY <1>0, <1>1, <2>5, ShrinkRepeats DEF HarvestFails
  <2> QED
    BY <1>6, <2>1, <2>2, <2>3, <2>4, <2>5 DEF PlanStep
<1>7. ASSUME NEW t \in Threads, RequestStep(t) PROVE Repeats'
  <2>1. CASE Rejected(t) \/ Accepted(t)
    BY <1>1, <2>1, ShrinkRepeats DEF Rejected, Accepted
  <2>2. CASE Unavailable(t) \/ ConnectionFails(t)
    <3>1. payload[t] \cap received \subseteq Explained /\ Explained' = Explained
      BY <2>2 DEF Unavailable, ConnectionFails, Repeats, ReceivedKnown, Explained
    <3> QED
      BY <1>3, <2>2, <3>1, MergeRepeats DEF Unavailable, ConnectionFails, Sending
  <2>3. CASE AnswerLost(t) \/ AnswerUnreadable(t)
    BY <1>3, <2>3, MergeRepeats DEF AnswerLost, AnswerUnreadable, Sending, Explained
  <2>4. CASE CollectorTakes(t)
    <3>1. /\ received' = received \cup payload[t]
          /\ duplicated' = duplicated \cup (payload[t] \cap received)
          /\ \A u \in Threads : pc'[u] = IF u = t THEN "answer" ELSE pc[u]
          /\ UNCHANGED <<buffer, payload, finished, shared, unanswered>>
      BY <1>0, <2>4 DEF CollectorTakes, Goto
    <3>2. payload[t] \cap received \subseteq Explained
      BY <2>4 DEF CollectorTakes, Repeats, ReceivedKnown
    <3>3. /\ \A c \in Containers : buffer[c] \cap payload[t] = {}
          /\ finished \cap payload[t] = {}
          /\ \A u \in Threads : u # t => payload[u] \cap payload[t] \subseteq Explained
      BY <2>4, BothCarry DEF CollectorTakes, Custody, ExclusiveCustody, InHands, Threads, Explained
    <3>4. /\ \A c \in Containers : buffer'[c] \cap received' \subseteq Explained'
          /\ finished' \cap received' \subseteq Explained'
      BY <3>1, <3>3 DEF Repeats, ReceivedKnown, Explained
    <3>5. ASSUME NEW u \in Threads
          PROVE  IF pc'[u] = "answer" THEN payload'[u] \subseteq received'
                 ELSE payload'[u] \cap received' \subseteq Explained'
      BY <3>1, <3>3, <3>5 DEF Repeats, ReceivedKnown, Explained
    <3> QED
      BY <3>1, <3>2, <3>4, <3>5 DEF Repeats, ReceivedKnown, DuplicatesExplained, Explained
  <2> QED
    BY <1>7, <2>1, <2>2, <2>3, <2>4 DEF RequestStep
<1>8. ASSUME NEW t \in Threads, OrderStep(t) PROVE Repeats'
  BY <1>1, <1>8, ShrinkRepeats DEF OrderStep, ToldToRestart, ToldToDisconnect
<1>9. CASE WorkerStep \/ ShutdownStep
  <2>1. Worker \in Threads /\ Shutter \in Threads
    BY DEF Threads
  <2>2. ASSUME NEW plan \in Plans, StartRound(plan) PROVE Repeats'
    BY <1>2, <2>1, <2>2, ShrinkRepeats DEF StartRound, PCs
  <2>3. CASE LoopEnds \/ Reconnect \/ StayAway
    BY <1>2, <2>1, <2>3, ShrinkRepeats DEF LoopEnds, Reconnect, StayAway, PCs
  <2>4. CASE HandleForceRestart
    <3>1. \A c \in Containers : buffer'[c] \subseteq buffer[c]
      BY <2>4 DEF HandleForceRestart
    <3> QED
      BY <1>2, <2>1, <2>4, <3>1, ShrinkRepeats DEF HandleForceRestart, PCs
  <2>5. CASE Shutdown \/ GracefulDisconnect
    BY <1>2, <2>1, <2>5, ShrinkRepeats DEF Shutdown, GracefulDisconnect, PCs
  <2> QED
    BY <1>9, <2>2, <2>3, <2>4, <2>5 DEF WorkerStep, ShutdownStep
<1>10. CASE UNCHANGED vars
  BY <1>10, ShrinkRepeats DEF vars
<1>11. ASSUME NEW t \in Threads, SessionStep(t) PROVE Repeats'
  <2>0. \A c \in Profiles : c \in Containers
    BY ContainersAssumption
  <2>1. ASSUME NEW c \in Profiles, ReadyToHarvest(t, c) PROVE Repeats'
    BY <1>2, <2>1, ShrinkRepeats DEF ReadyToHarvest, At, PCs
  <2>2. ASSUME NEW c \in Profiles, TakeProfile(t, c) PROVE Repeats'
    <3>1. /\ \A d \in Containers : buffer'[d] = IF d = c THEN {} ELSE buffer[d]
          /\ \A u \in Threads : pc'[u] = IF u = t THEN "stopped" ELSE pc[u]
          /\ pc[t] = "stopping" /\ finished' = buffer[c]
          /\ UNCHANGED <<payload, shared, received, duplicated, unanswered>>
      BY <1>0, <2>2 DEF TakeProfile, Goto
    <3>2. /\ \A d \in Containers : buffer'[d] \cap received' \subseteq Explained'
          /\ finished' \cap received' \subseteq Explained'
      BY <2>0, <3>1 DEF Repeats, ReceivedKnown, Explained
    <3>3. ASSUME NEW u \in Threads
          PROVE  IF pc'[u] = "answer" THEN payload'[u] \subseteq received'
                 ELSE payload'[u] \cap received' \subseteq Explained'
      BY <3>1, <3>3 DEF Repeats, ReceivedKnown, Explained
    <3> QED
      BY <3>1, <3>2, <3>3 DEF Repeats, ReceivedKnown, DuplicatesExplained, Explained
  <2>3. ASSUME NEW c \in Profiles, Unsubscribe(t, c) PROVE Repeats'
    <3>1. /\ \A d \in Containers : buffer'[d] \subseteq buffer[d]
          /\ finished' \subseteq finished
      BY <1>0, <2>3 DEF Unsubscribe
    <3> QED
      BY <1>2, <2>3, <3>1, ShrinkRepeats DEF Unsubscribe, PCs
  <2>4. CASE ReadProfile(t)
    <3>1. /\ \A u \in Threads : payload'[u] = IF u = t THEN finished ELSE payload[u]
          /\ \A u \in Threads : pc'[u] = IF u = t THEN "clearing" ELSE pc[u]
          /\ shared \subseteq shared'
          /\ UNCHANGED <<buffer, finished, received, duplicated, unanswered>>
      BY <1>0, <2>4 DEF ReadProfile, Goto
    <3>2. /\ \A d \in Containers : buffer'[d] \cap received' \subseteq Explained'
          /\ finished' \cap received' \subseteq Explained'
      BY <3>1 DEF Repeats, ReceivedKnown, Explained
    <3>3. ASSUME NEW u \in Threads
          PROVE  IF pc'[u] = "answer" THEN payload'[u] \subseteq received'
                 ELSE payload'[u] \cap received' \subseteq Explained'
      BY <3>1, <3>3 DEF Repeats, ReceivedKnown, Explained
    <3> QED
      BY <3>1, <3>2, <3>3 DEF Repeats, ReceivedKnown, DuplicatesExplained, Explained
  <2>5. CASE ClearProfile(t)
    <3>1. finished' \subseteq finished /\ UNCHANGED <<buffer, shared, received, duplicated, unanswered>>
      BY <2>5 DEF ClearProfile
    <3>2. CASE Goto(t, "request") /\ payload' = payload
      BY <1>2, <2>5, <3>1, <3>2, ShrinkRepeats DEF ClearProfile, PCs
    <3> QED
      BY <1>1, <2>5, <3>1, <3>2, ShrinkRepeats DEF ClearProfile
  <2> QED
    BY <1>11, <2>1, <2>2, <2>3, <2>4, <2>5 DEF SessionStep
<1>12. ASSUME NEW t \in Threads, CommandStep(t) PROVE Repeats'
  <2>1. CASE StartProfile(t)
    BY <2>1, ShrinkRepeats DEF StartProfile
  <2>2. CASE StopProfile(t)
    BY <1>2, <2>2, ShrinkRepeats DEF StopProfile, At, PCs
  <2> QED
    BY <1>12, <2>1, <2>2 DEF CommandStep
<1> QED
  BY <1>4, <1>5, <1>6, <1>7, <1>8, <1>9, <1>10, <1>11, <1>12 DEF Next, AppStep

----------------------------------------------------------------------------
(* Theorems *)

IInv == TypeOK /\ Carrying /\ Custody /\ Repeats

LEMMA Invariance == Spec => []IInv
<1>1. ASSUME Init PROVE IInv
  <2>1. IsFiniteSet({}) /\ Cardinality({}) = 0
    BY FS_EmptySet
  <2>2. TypeOK
    <3>1. buffer \in [Containers -> SUBSET Events] /\ payload \in [Threads -> SUBSET Events]
      BY <1>1 DEF Init
    <3>2. \A c \in Containers : IsFiniteSet(buffer[c]) /\ Cardinality(buffer[c]) <= Capacity[c]
      BY <1>1, <2>1, CapacityAssumption DEF Init
    <3>3. \A t \in Threads : IsFiniteSet(payload[t])
      BY <1>1, <2>1 DEF Init
    <3>4. todo \in [Threads -> Seq(Steps)]
      <4>1. <<>> \in Seq(Steps)
        OBVIOUS
      <4> QED
        BY <1>1, <4>1 DEF Init
    <3>5. pc \in [Threads -> PCs] /\ attempts \in [Threads -> 0..(MaxAttempts - 1)]
      BY <1>1 DEF Init, PCs, MaxAttempts
    <3> QED
      BY <1>1, <2>1, <3>1, <3>2, <3>3, <3>4, <3>5 DEF Init, TypeOK
  <2> QED
    BY <1>1, <2>2 DEF Init, IInv, Carrying, Sending, InSession, Between,
                      Custody, ExclusiveCustody, InHands, HeldRecorded, Repeats, ReceivedKnown, DuplicatesExplained, Threads
<1>2. IInv /\ [Next]_vars => IInv'
  BY TypeStep, CarryingStep, CustodyStep, RepeatsStep DEF IInv
<1> QED
  BY <1>1, <1>2, PTL DEF Spec

\* The variables keep their types and no container exceeds its capacity,
\* whatever is recorded or merged back, and however often.
THEOREM TypeCorrect == Spec => []TypeOK
BY Invariance, PTL DEF IInv

\* An event is never in two containers, or in a container and a thread's hands:
\* what the worker and the shutdown harvest is theirs alone, except a profile that
\* one read before the other cleared it (ThreadProfilerSession#harvest).
THEOREM ExclusiveCustodyHolds == Spec => []ExclusiveCustody
BY Invariance, PTL DEF IInv, Custody

\* The collector receives an event twice only after it took the event and the
\* agent got no answer it could read, or when both threads read the profile the
\* event is in before it was cleared.
THEOREM DuplicatesExplainedHold == Spec => []DuplicatesExplained
BY Invariance, PTL DEF IInv, Repeats

----------------------------------------------------------------------------
(* The harvests implement Delivery *)

\* Only finitely many events were ever recorded.
LEMMA RecordedFinite ==
  ASSUME IsFiniteSet(recorded), [Next]_vars
  PROVE  IsFiniteSet(recorded')
<1> USE DEF history
<1>1. ASSUME NEW c \in Containers, NEW e \in Events, Record(c, e) PROVE IsFiniteSet(recorded')
  BY <1>1, FS_AddElement DEF Record
<1>2. ASSUME NEW c \in Containers, Reset(c) PROVE recorded' = recorded
  BY <1>2 DEF Reset
<1>3. ASSUME NEW t \in Threads, PlanStep(t) PROVE recorded' = recorded
  BY <1>3 DEF PlanStep, RoundEnds, OpenSession, SessionFails, CommandsHandled, HarvestContainer,
              HarvestNothing, HarvestFails
<1>4. ASSUME NEW t \in Threads, RequestStep(t) PROVE recorded' = recorded
  BY <1>4 DEF RequestStep, Rejected, Unavailable, ConnectionFails, CollectorTakes, Accepted,
              AnswerLost, AnswerUnreadable
<1>5. ASSUME NEW t \in Threads, OrderStep(t) PROVE recorded' = recorded
  BY <1>5 DEF OrderStep, ToldToRestart, ToldToDisconnect
<1>6. CASE WorkerStep \/ ShutdownStep
  BY <1>6 DEF WorkerStep, StartRound, LoopEnds, HandleForceRestart, Reconnect, StayAway,
              ShutdownStep, Shutdown, GracefulDisconnect
<1>7. CASE UNCHANGED vars
  BY <1>7 DEF vars
<1>8. ASSUME NEW t \in Threads, SessionStep(t) \/ CommandStep(t) PROVE recorded' = recorded
  BY <1>8 DEF SessionStep, ReadyToHarvest, TakeProfile, Unsubscribe, ReadProfile, ClearProfile,
              CommandStep, StartProfile, StopProfile
<1> QED
  BY <1>1, <1>2, <1>3, <1>4, <1>5, <1>6, <1>7, <1>8 DEF Next, AppStep

\* Held, by its elements.
LEMMA HeldElements ==
  ASSUME NEW x
  PROVE  /\ x \in Held <=> \/ \E c \in Containers : x \in buffer[c]
                           \/ x \in finished
                           \/ \E t \in Threads : x \in payload[t]
         /\ x \in Held' <=> \/ \E c \in Containers : x \in buffer'[c]
                            \/ x \in finished'
                            \/ \E t \in Threads : x \in payload'[t]
BY DEF Held, InBuffers, InHands, Threads

\* What a container holds is nowhere else.
LEMMA BufferApart ==
  ASSUME Custody, NEW c \in Containers
  PROVE  /\ \A d \in Containers : d # c => buffer[d] \cap buffer[c] = {}
         /\ buffer[c] \cap finished = {}
         /\ \A t \in Threads : buffer[c] \cap payload[t] = {}
BY DEF Custody, ExclusiveCustody, InHands, Threads

\* A full container is room enough.
LEMMA RoomEnough ==
  ASSUME NEW c \in Containers, NEW K, K \subseteq buffer'[c], IsFiniteSet(Held'),
         Held' \subseteq Events, Cardinality(K) = Capacity[c]
  PROVE  Held' \in Plenty
<1>1. K \subseteq Held'
  BY HeldElements
<1>2. IsFiniteSet(K) /\ Cardinality(K) <= Cardinality(Held')
  BY <1>1, FS_Subset
<1>3. Cardinality(K) \in Nat /\ Cardinality(Held') \in Nat
  BY <1>2, FS_CardinalityType
<1>4. Cardinality(Held') >= Least
  BY <1>2, <1>3, CapacityAssumption
<1> QED
  BY <1>4 DEF Plenty

\* What leaves Held when a payload is let go, or a container emptied.
LEMMA LetGo ==
  ASSUME TypeOK, Custody, NEW t \in Threads, buffer' = buffer, finished' = finished,
         pc[t] # "clearing", payload' = [payload EXCEPT ![t] = {}]
  PROVE  OnlyWith(t) \subseteq Held /\ Held' = Held \ OnlyWith(t)
<1>1. \A u \in Threads : payload'[u] = IF u = t THEN {} ELSE payload[u]
  BY DEF TypeOK
<1>2. /\ \A c \in Containers : buffer[c] \cap payload[t] = {}
      /\ finished \cap payload[t] = {}
  BY BufferApart DEF Custody, ExclusiveCustody
<1>3. OnlyWith(t) \subseteq Held
  BY HeldElements DEF OnlyWith
<1>4. ASSUME NEW x PROVE x \in Held' <=> x \in Held /\ x \notin OnlyWith(t)
  BY <1>1, <1>2, OtherThread, HeldElements DEF OnlyWith
<1> QED
  BY <1>3, <1>4

LEMMA EmptyOut ==
  ASSUME TypeOK, Custody, NEW Emptied \in SUBSET Containers,
         buffer' = [c \in Containers |-> IF c \in Emptied THEN {} ELSE buffer[c]],
         finished' = finished,
         \A t \in Threads : payload'[t] = payload[t]
  PROVE  LET gone == UNION {buffer[c] : c \in Emptied}
         IN  gone \subseteq Held /\ Held' = Held \ gone
<1> DEFINE gone == UNION {buffer[c] : c \in Emptied}
<1>1. \A c \in Containers, d \in Emptied : c \notin Emptied => buffer[c] \cap buffer[d] = {}
  BY BufferApart
<1>2. \A d \in Emptied : buffer[d] \cap finished = {} /\ \A t \in Threads : buffer[d] \cap payload[t] = {}
  BY BufferApart
<1>3. gone \subseteq Held
  BY HeldElements
<1>4. ASSUME NEW x PROVE x \in Held' <=> x \in Held /\ x \notin gone
  BY <1>1, <1>2, HeldElements
<1> QED
  BY <1>3, <1>4

\* A merge! that keeps K loses the rest, and nothing else.
LEMMA MergeLoses ==
  ASSUME TypeOK, Custody, NEW t \in Threads, NEW c \in Containers, NEW K,
         pc[t] # "clearing", Target(t) \notin Profiles,
         K \subseteq buffer[c] \cup payload[t],
         buffer' = [buffer EXCEPT ![c] = K], finished' = finished,
         payload' = [payload EXCEPT ![t] = {}]
  PROVE  LET lost == (buffer[c] \cup payload[t]) \ K
         IN  lost \subseteq Held /\ Held' = Held \ lost
<1> DEFINE lost == (buffer[c] \cup payload[t]) \ K
<1>1. /\ \A d \in Containers : buffer'[d] = IF d = c THEN K ELSE buffer[d]
      /\ \A u \in Threads : payload'[u] = IF u = t THEN {} ELSE payload[u]
  BY DEF TypeOK
<1>2. /\ \A d \in Containers : d # c => buffer[d] \cap buffer[c] = {}
      /\ \A d \in Containers, u \in Threads : buffer[d] \cap payload[u] = {}
      /\ buffer[c] \cap finished = {}
  BY BufferApart
<1>5. finished \cap payload[t] = {} /\ \A u \in Threads : u # t => payload[u] \cap payload[t] = {}
  BY BothCarry DEF Custody, ExclusiveCustody
<1>3. lost \subseteq Held
  BY HeldElements
<1>4. ASSUME NEW x PROVE x \in Held' <=> x \in Held /\ x \notin lost
  BY <1>1, <1>2, <1>5, HeldElements
<1> QED
  BY <1>3, <1>4

\* merge! sheds what a full container cannot keep, or discards a profile.
LEMMA MergeSheds ==
  ASSUME TypeOK, Carrying, Custody, IsFiniteSet(Held'), Held' \subseteq Events,
         NEW t \in Threads, pc[t] \in Sending, Merge(t), UNCHANGED sessionVars,
         recorded' = recorded, received' = received
  PROVE  D!Next
<1> DEFINE c == Target(t)
<1>1. c \in Containers /\ pc[t] # "clearing" /\ finished' = finished
  BY DEF Carrying, Sending, sessionVars
<1>2. PICK K :
        /\ buffer' = [buffer EXCEPT ![c] = K]
        /\ K \subseteq buffer[c] \cup payload[t]
        /\ IsFiniteSet(K) /\ Cardinality(K) <= Capacity[c]
        /\ \/ /\ c \in Profiles /\ K = buffer[c]
              /\ discarded' = discarded \cup OnlyWith(t)
              /\ overflowed' = overflowed
           \/ /\ c \notin Profiles
              /\ overflowed' = overflowed \cup ((buffer[c] \cup payload[t]) \ K)
              /\ (buffer[c] \cup payload[t]) \ K # {} => Cardinality(K) = Capacity[c]
              /\ discarded' = discarded
  BY MergeOutcome
<1> DEFINE lost == (buffer[c] \cup payload[t]) \ K
<1>3. payload' = [payload EXCEPT ![t] = {}]
  BY DEF Merge, Advance
<1>4. CASE K = buffer[c] /\ discarded' = discarded \cup OnlyWith(t) /\ overflowed' = overflowed
  <2>1. buffer' = buffer
    BY <1>1, <1>2, <1>4 DEF TypeOK
  <2>2. OnlyWith(t) \subseteq Held /\ Held' = Held \ OnlyWith(t)
    BY <1>1, <1>3, <2>1, LetGo
  <2>3. D!Discard
    BY <1>4, <2>2 DEF D!Discard
  <2> QED
    BY <2>3 DEF D!Next
<1>5. CASE /\ c \notin Profiles
           /\ overflowed' = overflowed \cup lost
           /\ lost # {} => Cardinality(K) = Capacity[c]
           /\ discarded' = discarded
  <2>0. lost \subseteq Held /\ Held' = Held \ lost
    BY <1>1, <1>2, <1>3, <1>5, MergeLoses
  <2>1. K \subseteq buffer'[c]
    BY <1>1, <1>2 DEF TypeOK
  <2>2. lost # {} => Held' \in Plenty
    BY <1>1, <1>5, <2>1, RoomEnough
  <2>3. D!Shed
    BY <1>5, <2>0, <2>2 DEF D!Shed, D!Overflow
  <2> QED
    BY <2>3 DEF D!Next
<1> QED
  BY <1>2, <1>4, <1>5

\* Every action is one of Delivery's, or invisible to it.
LEMMA DeliveryStep ==
  ASSUME IInv, IInv', IsFiniteSet(recorded'), [Next]_vars
  PROVE  [D!Next]_(D!vars)
<1> USE DEF threadVars, agentVars, sessionVars, history
<1>0. TypeOK /\ Carrying /\ Custody
  BY DEF IInv
<1>1. IsFiniteSet(Held') /\ Held' \subseteq Events
  <2>1. HeldRecorded' /\ recorded' \subseteq Events
    BY DEF IInv, Custody, TypeOK
  <2>2. Held' \subseteq recorded'
    BY <2>1, HeldElements DEF HeldRecorded
  <2> QED
    BY <2>1, <2>2, FS_Subset
<1>2. ASSUME buffer' = buffer, payload' = payload, finished' = finished,
             UNCHANGED <<recorded, received, overflowed, discarded>>
      PROVE  [D!Next]_(D!vars)
  BY <1>2 DEF D!vars, Held, InBuffers, InHands
<1>3. ASSUME NEW t \in Threads, buffer' = buffer, payload' = [payload EXCEPT ![t] = {}],
             finished' = finished, pc[t] # "clearing",
             UNCHANGED <<recorded, received, overflowed>>,
             \/ discarded' = discarded \cup OnlyWith(t)
             \/ discarded' = discarded /\ payload[t] \subseteq received
      PROVE  [D!Next]_(D!vars)
  <2>1. OnlyWith(t) \subseteq Held /\ Held' = Held \ OnlyWith(t)
    BY <1>0, <1>3, LetGo
  <2>2. OnlyWith(t) \subseteq payload[t]
    BY DEF OnlyWith
  <2> QED
    BY <1>3, <2>1, <2>2 DEF D!Next, D!Discard, D!Release
<1>4. ASSUME NEW Emptied \in SUBSET Containers,
             buffer' = [c \in Containers |-> IF c \in Emptied THEN {} ELSE buffer[c]],
             \A t \in Threads : payload'[t] = payload[t], finished' = finished,
             discarded' = discarded \cup UNION {buffer[c] : c \in Emptied},
             UNCHANGED <<recorded, received, overflowed>>
      PROVE  [D!Next]_(D!vars)
  <2> DEFINE gone == UNION {buffer[c] : c \in Emptied}
  <2>1. gone \subseteq Held /\ Held' = Held \ gone
    BY <1>0, <1>4, EmptyOut
  <2>2. D!Discard
    BY <1>4, <2>1 DEF D!Discard
  <2> QED
    BY <2>2 DEF D!Next
<1>5. ASSUME NEW t \in Threads, pc[t] \in Sending, RetryOrMerge(t),
             UNCHANGED <<recorded, received>>, UNCHANGED sessionVars
      PROVE  [D!Next]_(D!vars)
  BY <1>0, <1>1, <1>2, <1>5, MergeSheds DEF RetryOrMerge
<1>6. ASSUME NEW c \in Containers, Reset(c) PROVE [D!Next]_(D!vars)
  <2>1. /\ buffer' = [d \in Containers |-> IF d \in {c} THEN {} ELSE buffer[d]]
        /\ UNION {buffer[d] : d \in {c}} = buffer[c]
        /\ {c} \in SUBSET Containers
    BY <1>0, <1>6 DEF Reset, TypeOK
  <2> QED
    BY <1>4, <1>6, <2>1 DEF Reset
<1>7. ASSUME NEW c \in Containers, NEW e \in Events, Record(c, e) PROVE [D!Next]_(D!vars)
  <2>1. PICK K :
          /\ buffer' = [buffer EXCEPT ![c] = K]
          /\ K \subseteq buffer[c] \cup {e}
          /\ overflowed' = overflowed \cup ((buffer[c] \cup {e}) \ K)
          /\ (buffer[c] \cup {e}) \ K # {} => Cardinality(K) = Capacity[c]
    BY <1>0, <1>7, RecordOutcome
  <2> DEFINE lost == (buffer[c] \cup {e}) \ K
  <2>2. /\ e \notin recorded /\ recorded' = recorded \cup {e}
        /\ UNCHANGED <<payload, finished, received, discarded>>
    BY <1>7 DEF Record
  <2>3. \A d \in Containers : buffer'[d] = IF d = c THEN K ELSE buffer[d]
    BY <1>0, <2>1 DEF TypeOK
  <2>4. /\ \A d \in Containers : d # c => buffer[d] \cap buffer[c] = {}
        /\ \A t \in Threads : payload[t] \cap buffer[c] = {}
        /\ buffer[c] \cap finished = {} /\ e \notin finished
        /\ \A d \in Containers : e \notin buffer[d]
        /\ \A t \in Threads : e \notin payload[t]
    BY <1>0, <2>2, BufferApart DEF Custody, HeldRecorded
  <2>5. lost \subseteq Held \cup {e}
    BY HeldElements
  <2>6. ASSUME NEW x PROVE x \in Held' <=> x \in Held \cup {e} /\ x \notin lost
    BY <2>1, <2>2, <2>3, <2>4, HeldElements
  <2>7. Held' = (Held \cup {e}) \ lost
    BY <2>6
  <2>8. lost # {} => Held' \in Plenty
    BY <1>1, <2>1, <2>3, RoomEnough
  <2>9. D!Record(e)
    BY <2>1, <2>2, <2>5, <2>7, <2>8 DEF D!Record, D!Overflow
  <2> QED
    BY <2>9 DEF D!Next
<1>8. ASSUME NEW t \in Threads, PlanStep(t) PROVE [D!Next]_(D!vars)
  <2>0. pc[t] = "step" => payload[t] = {}
    BY <1>0 DEF Carrying, Sending
  <2>1. ASSUME pc[t] = "step", Advance(t) \/ Abandon(t, "step") PROVE payload' = payload
    BY <1>0, <2>0, <2>1 DEF Advance, Abandon, TypeOK
  <2>2. CASE RoundEnds(t)
    BY <1>2, <2>2 DEF RoundEnds
  <2>3. CASE OpenSession(t) \/ CommandsHandled(t) \/ SessionFails(t)
    BY <1>2, <2>1, <2>3 DEF OpenSession, CommandsHandled, SessionFails, At
  <2>4. ASSUME NEW c \in Containers, HarvestContainer(t, c) PROVE [D!Next]_(D!vars)
    <3>1. /\ \A d \in Containers : buffer'[d] = IF d = c THEN {} ELSE buffer[d]
          /\ \A u \in Threads : payload'[u] = IF u = t THEN buffer[c] ELSE payload[u]
          /\ UNCHANGED history /\ finished' = finished
      BY <1>0, <2>4 DEF HarvestContainer, TypeOK
    <3>2. payload[t] = {}
      BY <2>0, <2>4 DEF HarvestContainer, At
    <3>3. ASSUME NEW x PROVE x \in Held' <=> x \in Held
      BY <3>1, <3>2, HeldElements
    <3>4. Held' = Held
      BY <3>3
    <3> QED
      BY <3>1, <3>4 DEF D!vars
  <2>5. ASSUME NEW c \in Containers, HarvestNothing(t, c) PROVE [D!Next]_(D!vars)
    BY <1>2, <2>1, <2>5 DEF HarvestNothing, At
  <2>6. ASSUME NEW c \in Containers, HarvestFails(t, c) PROVE [D!Next]_(D!vars)
    <3>1. /\ buffer' = [d \in Containers |-> IF d \in {c} THEN {} ELSE buffer[d]]
          /\ UNION {buffer[d] : d \in {c}} = buffer[c]
          /\ {c} \in SUBSET Containers
      BY <1>0, <2>6 DEF HarvestFails, TypeOK
    <3>2. payload' = payload
      BY <2>1, <2>6 DEF HarvestFails, At
    <3> QED
      BY <1>4, <2>6, <3>1, <3>2 DEF HarvestFails
  <2> QED
    BY <1>8, <2>2, <2>3, <2>4, <2>5, <2>6 DEF PlanStep
<1>9. ASSUME NEW t \in Threads, RequestStep(t) PROVE [D!Next]_(D!vars)
  <2>1. CASE Rejected(t)
    BY <1>3, <2>1 DEF Rejected, Advance
  <2>2. CASE Unavailable(t) \/ AnswerUnreadable(t)
    BY <1>0, <1>1, <2>2, MergeSheds DEF Unavailable, AnswerUnreadable, Sending
  <2>3. CASE ConnectionFails(t) \/ AnswerLost(t)
    BY <1>5, <2>3 DEF ConnectionFails, AnswerLost, Sending
  <2>4. CASE CollectorTakes(t)
    <3>1. payload[t] \subseteq Held /\ Held' = Held
      BY <2>4, HeldElements DEF CollectorTakes, Held, InBuffers, InHands
    <3>2. D!Deliver
      BY <2>4, <3>1 DEF CollectorTakes, D!Deliver
    <3> QED
      BY <3>2 DEF D!Next
  <2>5. CASE Accepted(t)
    <3>1. payload[t] \subseteq received
      BY <2>5 DEF Accepted, IInv, Repeats, ReceivedKnown
    <3> QED
      BY <1>3, <2>5, <3>1 DEF Accepted, Advance
  <2> QED
    BY <1>9, <2>1, <2>2, <2>3, <2>4, <2>5 DEF RequestStep
<1>10. ASSUME NEW t \in Threads, OrderStep(t) PROVE [D!Next]_(D!vars)
  BY <1>3, <1>10 DEF OrderStep, ToldToRestart, ToldToDisconnect, Abandon, Asking, At
<1>11. CASE WorkerStep \/ ShutdownStep
  <2>1. CASE HandleForceRestart
    <3>1. buffer' = [d \in Containers |-> IF d \in Containers \ Profiles THEN {} ELSE buffer[d]]
      BY <2>1 DEF HandleForceRestart
    <3> QED
      BY <1>4, <2>1, <3>1, Containers \ Profiles \in SUBSET Containers DEF HandleForceRestart
  <2>2. CASE ~HandleForceRestart
    BY <1>2, <1>11, <2>2 DEF WorkerStep, StartRound, LoopEnds, Reconnect, StayAway,
                             ShutdownStep, Shutdown, GracefulDisconnect
  <2> QED
    BY <2>1, <2>2
<1>12. CASE UNCHANGED vars
  BY <1>2, <1>12 DEF vars
<1>13. ASSUME NEW t \in Threads, SessionStep(t) PROVE [D!Next]_(D!vars)
  <2>0. (\A c \in Profiles : c \in Containers) /\ \A x : x \in InHands <=> \E u \in Threads : x \in payload[u]
    BY ContainersAssumption DEF InHands, Threads
  <2>1. ASSUME NEW c \in Profiles, ReadyToHarvest(t, c) PROVE [D!Next]_(D!vars)
    BY <1>2, <2>1 DEF ReadyToHarvest
  <2>2. ASSUME NEW c \in Profiles, TakeProfile(t, c) PROVE [D!Next]_(D!vars)
    <3>1. /\ \A d \in Containers : buffer'[d] = IF d = c THEN {} ELSE buffer[d]
          /\ finished' = buffer[c]
          /\ discarded' = discarded \cup (finished \ InHands)
          /\ UNCHANGED <<payload, recorded, received, overflowed>>
      BY <1>0, <2>2 DEF TakeProfile, TypeOK
    <3>2. finished \ InHands \subseteq Held
      BY HeldElements
    <3>3. ASSUME NEW x PROVE x \in Held' <=> x \in Held /\ x \notin finished \ InHands
      <4>1. x \in finished => \A d \in Containers : x \notin buffer[d]
        BY <1>0, BufferApart
      <4> QED
        BY <2>0, <3>1, <4>1, HeldElements
    <3>4. Held' = Held \ (finished \ InHands)
      BY <3>3
    <3>5. D!Discard
      BY <3>1, <3>2, <3>4 DEF D!Discard
    <3> QED
      BY <3>5 DEF D!Next
  <2>3. ASSUME NEW c \in Profiles, Unsubscribe(t, c) PROVE [D!Next]_(D!vars)
    <3> DEFINE gone == buffer[c] \cup ((finished \ finished') \ InHands)
    <3>1. /\ \A d \in Containers : buffer'[d] = IF d = c THEN {} ELSE buffer[d]
          /\ finished' \subseteq finished
          /\ discarded' = discarded \cup gone
          /\ UNCHANGED <<payload, recorded, received, overflowed>>
      BY <1>0, <2>3 DEF Unsubscribe, TypeOK
    <3>2. gone \subseteq Held
      BY <2>0, HeldElements
    <3>3. ASSUME NEW x PROVE x \in Held' <=> x \in Held /\ x \notin gone
      <4>1. /\ x \in buffer[c] => /\ \A d \in Containers : d # c => x \notin buffer[d]
                                 /\ x \notin finished /\ \A u \in Threads : x \notin payload[u]
            /\ x \in finished => \A d \in Containers : x \notin buffer[d]
        BY <1>0, <2>0, BufferApart
      <4> QED
        BY <2>0, <3>1, <4>1, HeldElements
    <3>4. Held' = Held \ gone
      BY <3>3
    <3>5. D!Discard
      BY <3>1, <3>2, <3>4 DEF D!Discard
    <3> QED
      BY <3>5 DEF D!Next
  <2>4. CASE ReadProfile(t)
    <3>1. /\ \A u \in Threads : payload'[u] = IF u = t THEN finished ELSE payload[u]
          /\ UNCHANGED <<buffer, finished>> /\ UNCHANGED history
      BY <1>0, <2>4 DEF ReadProfile, TypeOK
    <3>2. payload[t] = {}
      BY <1>0, <2>4 DEF ReadProfile, Carrying, Sending
    <3>3. ASSUME NEW x PROVE x \in Held' <=> x \in Held
      BY <3>1, <3>2, HeldElements
    <3>4. Held' = Held
      BY <3>3
    <3> QED
      BY <3>1, <3>4 DEF D!vars
  <2>5. CASE ClearProfile(t)
    <3>1. /\ finished' = {}
          /\ discarded' = discarded \cup (finished \ InHands)
          /\ UNCHANGED <<buffer, recorded, received, overflowed>>
      BY <2>5 DEF ClearProfile
    <3>2. \A u \in Threads : payload'[u] = payload[u]
      BY <1>0, <2>5 DEF ClearProfile, Advance, TypeOK
    <3>3. finished \ InHands \subseteq Held
      BY HeldElements
    <3>4. ASSUME NEW x PROVE x \in Held' <=> x \in Held /\ x \notin finished \ InHands
      <4>1. x \in finished => \A d \in Containers : x \notin buffer[d]
        BY <1>0, BufferApart
      <4> QED
        BY <2>0, <3>1, <3>2, <4>1, HeldElements
    <3>5. Held' = Held \ (finished \ InHands)
      BY <3>4
    <3>6. D!Discard
      BY <3>1, <3>3, <3>5 DEF D!Discard
    <3> QED
      BY <3>6 DEF D!Next
  <2> QED
    BY <1>13, <2>1, <2>2, <2>3, <2>4, <2>5 DEF SessionStep
<1>14. ASSUME NEW t \in Threads, CommandStep(t) PROVE [D!Next]_(D!vars)
  BY <1>2, <1>14 DEF CommandStep, StartProfile, StopProfile
<1> QED
  BY <1>6, <1>7, <1>8, <1>9, <1>10, <1>11, <1>12, <1>13, <1>14 DEF Next, AppStep

\* Whatever the threads do and the network loses, the harvests keep the promise
\* of Delivery: no recorded event vanishes.
THEOREM ImplementsDelivery == Spec => DeliverySpec
<1>1. Init => D!Init
  BY DEF Init, D!Init, Held, InBuffers, InHands, Threads
<1>2. Init => IsFiniteSet(recorded)
  BY FS_EmptySet DEF Init
<1>3. IsFiniteSet(recorded) /\ [Next]_vars => IsFiniteSet(recorded)'
  BY RecordedFinite
<1>4. Spec => []IsFiniteSet(recorded)
  BY <1>2, <1>3, PTL DEF Spec
<1>5. IInv /\ IInv' /\ IsFiniteSet(recorded)' /\ [Next]_vars => [D!Next]_(D!vars)
  BY DeliveryStep
<1> QED
  BY <1>1, <1>4, <1>5, Invariance, PTL DEF Spec, DeliverySpec, D!Spec

\* An event that was recorded and is nowhere any more was delivered, shed by a
\* full buffer, or discarded.
THEOREM NoRecordedEventVanishes == Spec => []D!Accounted
<1>1. D!Init => D!Accounted
  BY DEF D!Init, D!Accounted
<1>2. D!Accounted /\ [D!Next]_(D!vars) => D!Accounted'
  <2> SUFFICES ASSUME D!Accounted, [D!Next]_(D!vars) PROVE D!Accounted'
    OBVIOUS
  <2>1. ASSUME NEW e \in Events, D!Record(e) PROVE D!Accounted'
    BY <2>1 DEF D!Record, D!Overflow, D!Accounted
  <2>2. CASE D!Deliver
    BY <2>2 DEF D!Deliver, D!Accounted
  <2>3. CASE D!Release
    BY <2>3 DEF D!Release, D!Accounted
  <2>4. CASE D!Shed
    BY <2>4 DEF D!Shed, D!Overflow, D!Accounted
  <2>5. CASE D!Discard
    BY <2>5 DEF D!Discard, D!Accounted
  <2>6. CASE UNCHANGED D!vars
    BY <2>6 DEF D!vars, D!Accounted
  <2> QED
    BY <2>1, <2>2, <2>3, <2>4, <2>5, <2>6 DEF D!Next
<1>3. D!Spec => []D!Accounted
  BY <1>1, <1>2, PTL DEF D!Spec
<1> QED
  BY <1>3, ImplementsDelivery DEF DeliverySpec
=============================================================================
