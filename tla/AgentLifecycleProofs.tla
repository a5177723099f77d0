------------------------ MODULE AgentLifecycleProofs ------------------------
(***************************************************************************)
(* Proofs about AgentLifecycle, for any tree of processes and any number   *)
(* of threads: the type invariant, the three safety invariants the runs    *)
(* check, and that a rejected agent stays away.                            *)
(***************************************************************************)
EXTENDS AgentLifecycle, TLAPS

\* What a step may do to the program counters.
LEMMA GotoType ==
  ASSUME pc \in [Procs -> [Threads -> PCs]],
         NEW p \in Procs, NEW t \in Threads, NEW there \in PCs, Goto(p, t, there)
  PROVE  pc' \in [Procs -> [Threads -> PCs]]
BY DEF Goto

\* In the initial state every field has its type.
LEMMA InitTypes == Init => TypeOK
BY LifecycleAssumption
   DEF Init, TypeOK, PCs, Resting, Booting, Starting, Working, Modes

\* A caller's step keeps the types.
LEMMA CallerTypes ==
  ASSUME TypeOK, NEW p \in Procs, NEW t \in Callers, CallerStep(p, t)
  PROVE  TypeOK'
<1> t \in Threads /\ Return(t) \in PCs
  BY DEF Threads, Callers, Return, PCs, Resting
<1>1. CASE SetupAndStartAgent(p, t)
  BY <1>1, GotoType
     DEF SetupAndStartAgent, TypeOK, PCs, Starting
<1>2. CASE ForegroundReply(p, t)
  <2>1. pc' \in [Procs -> [Threads -> PCs]]
    BY <1>2, GotoType DEF ForegroundReply, TypeOK, PCs, Starting
  <2>2. stopped' \in [Procs -> SUBSET Workers]
    BY <1>2 DEF ForegroundReply, TypeOK, StopEventLoop
  <2>3. started' \in [Procs -> BOOLEAN]
    BY <1>2 DEF ForegroundReply, TypeOK
  <2>4. connectState' \in [Procs -> {"pending", "connected", "disconnected"}]
    BY <1>2 DEF ForegroundReply, TypeOK, ConnectSucceeds, Disconnect
  <2>5. agentRun' \in [Procs -> Procs \cup {Nobody}]
    BY <1>2 DEF ForegroundReply, TypeOK, ConnectSucceeds, Disconnect
  <2>6. connectedPid' \in [Procs -> Procs \cup {Nobody}]
    BY <1>2 DEF ForegroundReply, TypeOK, ConnectSucceeds, Disconnect
  <2> QED
    BY <1>2, <2>1, <2>2, <2>3, <2>4, <2>5, <2>6 DEF ForegroundReply, TypeOK
<1>3. CASE StartWorkerThread(p, t)
  <2> PICK w \in Workers :
         /\ pc' = [pc EXCEPT ![p][w] = "connect", ![p][t] = Return(t)]
         /\ options' = [options EXCEPT ![p][w] = options[p][t], ![p][t] = "plain"]
         /\ workerThread' = [workerThread EXCEPT ![p] = w]
    BY <1>3 DEF StartWorkerThread
  <2>1. w \in Threads /\ "connect" \in PCs /\ "plain" \in Modes
    BY DEF Threads, PCs, Working, Modes
  <2>2. pc' \in [Procs -> [Threads -> PCs]]
    BY <2>1 DEF TypeOK
  <2>3. options' \in [Procs -> [Threads -> Modes]]
    BY ZenonT(60), <2>1 DEF TypeOK
  <2> QED BY <1>3, <2>2, <2>3 DEF StartWorkerThread, TypeOK
<1> QED BY <1>1, <1>2, <1>3 DEF CallerStep

\* A request thread's step keeps the types.
LEMMA RequestTypes ==
  ASSUME TypeOK, NEW p \in Procs, NEW r \in Requests, RequestStep(p, r)
  PROVE  TypeOK'
<1> r \in Threads /\ {"checked", "claimed", "idle", "setup"} \subseteq PCs
  BY DEF Threads, Callers, PCs, Resting, Starting
<1>1. CASE OnTransaction(p, r)
  BY <1>1, GotoType DEF OnTransaction, TypeOK, Modes
<1>2. ASSUME NEW mode \in AfterForkModes, CallAfterFork(p, r, mode) PROVE TypeOK'
  BY <1>2, GotoType, LifecycleAssumption DEF CallAfterFork, TypeOK, Modes
<1>3. CASE NeedsAfterForkWork(p, r)
  <2>1. pc' \in [Procs -> [Threads -> PCs]]
    BY <1>3, GotoType DEF NeedsAfterForkWork, TypeOK
  <2>2. options' \in [Procs -> [Threads -> Modes]]
    <3>1. options' = options \/ options' = [options EXCEPT ![p][r] = "plain"]
      <4>1. CASE MayRestart(p)
        BY <1>3, <4>1, Zenon DEF NeedsAfterForkWork
      <4>2. CASE ~MayRestart(p)
        BY <1>3, <4>2, Zenon DEF NeedsAfterForkWork
      <4> QED BY <4>1, <4>2
    <3>2. CASE options' = options
      BY <3>2 DEF TypeOK
    <3>3. CASE options' = [options EXCEPT ![p][r] = "plain"]
      BY <3>3 DEF TypeOK, Modes
    <3> QED BY <3>1, <3>2, <3>3
  <2> QED BY <1>3, <2>1, <2>2 DEF NeedsAfterForkWork, TypeOK
<1>4. CASE AfterFork(p, r)
  BY ZenonT(60), <1>4, GotoType DEF AfterFork, TypeOK, InstallPipeService, DropBufferedData
<1> QED BY <1>1, <1>2, <1>3, <1>4 DEF RequestStep

\* A worker thread's step keeps the types.
LEMMA WorkerTypes ==
  ASSUME TypeOK, NEW p \in Procs, NEW w \in Workers, WorkerStep(p, w)
  PROVE  TypeOK'
<1> w \in Threads /\ Working \cup {"ended"} \subseteq PCs
  BY DEF Threads, PCs
<1> USE DEF TypeOK, Working
<1>1. CASE Connect(p, w)
  BY <1>1, GotoType DEF Connect
<1>2. CASE WakeUp(p, w)
  BY <1>2, GotoType DEF WakeUp
<1>3. CASE CheckConnection(p, w)
  <2>1. pc' \in [Procs -> [Threads -> PCs]]
    BY <1>3, GotoType DEF CheckConnection
  <2>2. stopped' \in [Procs -> SUBSET Workers]
    <3>1. stopped' = stopped \/ stopped' = [stopped EXCEPT ![p] = stopped[p] \ {w}]
      BY <1>3, Zenon DEF CheckConnection
    <3>2. CASE stopped' = stopped
      BY <3>2
    <3>3. CASE stopped' = [stopped EXCEPT ![p] = stopped[p] \ {w}]
      <4>1. stopped[p] \ {w} \in SUBSET Workers
        OBVIOUS
      <4> QED BY <3>3, <4>1
    <3> QED BY <3>1, <3>2, <3>3
  <2>3. eventLoop' \in [Procs -> Workers \cup {Nobody}]
    <3>1. eventLoop' = eventLoop \/ eventLoop' = [eventLoop EXCEPT ![p] = w]
      BY <1>3 DEF CheckConnection
    <3> QED BY <3>1
  <2> QED BY <1>3, <2>1, <2>2, <2>3 DEF CheckConnection
<1>4. CASE EventLoopStops(p, w)
  BY <1>4, GotoType DEF EventLoopStops
<1>5. CASE Harvest(p, w)
  BY <1>5, GotoType DEF Harvest
<1>6. CASE ConnectOk(p, w)
  BY <1>6, GotoType DEF ConnectOk, ConnectSucceeds
<1>7. CASE ConnectRejected(p, w)
  BY <1>7, GotoType DEF ConnectRejected, Disconnect
<1>8. CASE ConnectUnrecoverable(p, w)
  <2>1. pc' \in [Procs -> [Threads -> PCs]]
    BY <1>8, GotoType DEF ConnectUnrecoverable
  <2>2. stopped' \in [Procs -> SUBSET Workers]
    BY SMTT(30), <1>8 DEF ConnectUnrecoverable, StopEventLoop
  <2>3. started' \in [Procs -> BOOLEAN]
    BY <1>8 DEF ConnectUnrecoverable
  <2> QED BY <1>8, <2>1, <2>2, <2>3 DEF ConnectUnrecoverable, Disconnect
<1>9. CASE ConnectFails(p, w)
  BY <1>9, GotoType, LifecycleAssumption DEF ConnectFails, NoteConnectFailure
<1>10. CASE HarvestDone(p, w)
  BY <1>10, GotoType DEF HarvestDone
<1>11. CASE ForceRestart(p, w)
  BY <1>11, GotoType DEF ForceRestart, HandleForceRestart, DropBufferedData
<1>12. CASE ForceDisconnect(p, w)
  BY <1>12, GotoType DEF ForceDisconnect, Disconnect
<1> QED
  BY <1>1, <1>2, <1>3, <1>4, <1>5, <1>6, <1>7, <1>8, <1>9, <1>10, <1>11, <1>12
     DEF WorkerStep, ConnectReply, HarvestReply

\* A step of the Main thread, other than fork, keeps the types.
LEMMA MainTypes ==
  ASSUME TypeOK, NEW p \in Procs, MainStep(p)
  PROVE  TypeOK'
<1> Main \in Threads /\ Resting \cup Booting \subseteq PCs
  BY DEF Threads, Callers, PCs
<1> USE DEF TypeOK, Resting, Booting
<1>1. CASE Start(p)
  BY <1>1, GotoType DEF Start
<1>2. CASE Shutdown(p)
  BY <1>2, GotoType DEF Shutdown, StopEventLoop
<1>3. CASE JoinReturns(p)
  BY <1>3, GotoType DEF JoinReturns
<1>4. CASE JoinTimeout(p)
  BY <1>4, GotoType DEF JoinTimeout
<1>5. CASE GracefulDisconnect(p)
  BY <1>5, GotoType DEF GracefulDisconnect
<1>6. CASE FinishShutdown(p)
  BY <1>6, GotoType DEF FinishShutdown
<1> QED BY <1>1, <1>2, <1>3, <1>4, <1>5, <1>6 DEF MainStep

\* A fork keeps the types.
LEMMA ForkTypes ==
  ASSUME TypeOK, NEW p \in Procs, NEW q \in Procs, Fork(p, q)
  PROVE  TypeOK'
BY DEF Fork, TypeOK, PCs, Resting, Return

\* Every step keeps the types.
LEMMA NextTypes == TypeOK /\ [Next]_vars => TypeOK'
<1> SUFFICES ASSUME TypeOK, [Next]_vars PROVE TypeOK'
  OBVIOUS
<1>1. CASE UNCHANGED vars
  BY <1>1 DEF vars, TypeOK
<1>2. CASE Next
  BY <1>2, CallerTypes, RequestTypes, WorkerTypes, MainTypes, ForkTypes DEF Next
<1> QED BY <1>1, <1>2

\* Type correctness of the agent's state in every process.
THEOREM TypeCorrect == Spec => []TypeOK
<1>1. Init => TypeOK
  BY InitTypes
<1>2. TypeOK /\ [Next]_vars => TypeOK'
  BY NextTypes
<1> QED BY <1>1, <1>2, PTL DEF Spec

----------------------------------------------------------------------------
(* What the parent buffered is not sent again *)

\* A caller on its way to creating a worker, or about to boot.
Entered == {"boot", "booting", "setup", "foreground", "starting"}

\* While a process holds its parent's data no worker exists in it and no
\* caller is past the point where after_fork drops the data.
DropsFirst ==
  \A p \in Procs : inherited[p] =>
    /\ \A w \in Workers : pc[p][w] = "free"
    /\ \A t \in Callers : pc[p][t] \notin Entered

\* A thread that moves keeps DropsFirst when it was no unborn worker and does
\* not enter the path to a worker with the data still there.
LEMMA MoveDropsFirst ==
  ASSUME TypeOK, DropsFirst,
         NEW p \in Procs, NEW t \in Threads, NEW there, Goto(p, t, there),
         inherited' = inherited \/ DropBufferedData(p),
         t \in Workers => pc[p][t] # "free",
         t \in Callers /\ there \in Entered => pc[p][t] \in Entered \/ DropBufferedData(p)
  PROVE  DropsFirst'
<1> SUFFICES ASSUME NEW q \in Procs, inherited'[q]
             PROVE  /\ \A w \in Workers : pc'[q][w] = "free"
                    /\ \A u \in Callers : pc'[q][u] \notin Entered
  BY DEF DropsFirst
<1>1. inherited[q] /\ ~(q = p /\ DropBufferedData(p))
  BY DEF DropBufferedData, TypeOK
<1>2. CASE q # p
  BY <1>1, <1>2 DEF DropsFirst, Goto, TypeOK
<1>3. CASE q = p
  <2>1. t \notin Workers
    BY <1>1, <1>3 DEF DropsFirst
  <2>2. t \in Callers /\ pc[p][t] \notin Entered /\ there \notin Entered
    BY <1>1, <1>3, <2>1 DEF DropsFirst, Threads
  <2>3. \A u \in Threads : pc'[p][u] = IF u = t THEN there ELSE pc[p][u]
    BY DEF Goto, TypeOK
  <2> QED BY <1>1, <1>3, <2>1, <2>2, <2>3 DEF DropsFirst, Threads
<1> QED BY <1>2, <1>3

\* DropsFirst is inductive.
LEMMA NextDropsFirst == TypeOK /\ DropsFirst /\ [Next]_vars => DropsFirst'
<1> SUFFICES ASSUME TypeOK, DropsFirst, [Next]_vars PROVE DropsFirst'
  OBVIOUS
<1>0. CASE UNCHANGED vars
  BY <1>0 DEF vars, DropsFirst
<1>1. ASSUME NEW p \in Procs, MainStep(p) PROVE DropsFirst'
  <2> Main \in Threads /\ Main \notin Workers /\ Main \in Callers
    BY LifecycleAssumption DEF Threads, Callers
  <2>1. inherited' = inherited
    BY <1>1 DEF MainStep, Start, Shutdown, JoinReturns, JoinTimeout, GracefulDisconnect,
                FinishShutdown
  <2>2. \/ Goto(p, Main, "booting") /\ pc[p][Main] = "boot"
        \/ \E there \in {"running", "joining", "flushing", "reverting", "stopped"} :
              Goto(p, Main, there)
    BY <1>1 DEF MainStep, Start, Shutdown, JoinReturns, JoinTimeout, GracefulDisconnect,
                FinishShutdown
  <2> QED BY <2>1, <2>2, MoveDropsFirst DEF Entered
<1>2. ASSUME NEW p \in Procs, NEW q \in Procs, Fork(p, q) PROVE DropsFirst'
  BY <1>2, LifecycleAssumption DEF Fork, DropsFirst, TypeOK, Entered, Threads, Callers, Return
<1>3. ASSUME NEW p \in Procs, NEW t \in Callers, CallerStep(p, t) PROVE DropsFirst'
  <2> t \in Threads /\ t \notin Workers
    BY LifecycleAssumption DEF Threads, Callers
  <2>1. CASE SetupAndStartAgent(p, t) \/ ForegroundReply(p, t)
    <3>1. inherited' = inherited /\ pc[p][t] \in Entered
      BY <2>1 DEF SetupAndStartAgent, ForegroundReply, Entered
    <3>2. \E there : Goto(p, t, there)
      BY <2>1 DEF SetupAndStartAgent, ForegroundReply
    <3> QED BY <3>1, <3>2, MoveDropsFirst
  <2>2. CASE StartWorkerThread(p, t)
    <3>1. ~inherited[p] /\ inherited' = inherited
      BY <2>2 DEF StartWorkerThread, DropsFirst, Entered
    <3>2. \A q \in Procs : q # p => pc'[q] = pc[q]
      BY <2>2 DEF StartWorkerThread, TypeOK
    <3> QED BY <3>1, <3>2 DEF DropsFirst
  <2> QED BY <1>3, <2>1, <2>2 DEF CallerStep
<1>4. ASSUME NEW p \in Procs, NEW r \in Requests, RequestStep(p, r) PROVE DropsFirst'
  <2> r \in Threads /\ r \notin Workers /\ r \in Callers
    BY LifecycleAssumption DEF Threads, Callers
  <2>1. CASE AfterFork(p, r)
    BY <2>1, MoveDropsFirst DEF AfterFork
  <2>2. CASE ~AfterFork(p, r)
    <3>1. inherited' = inherited
      BY <1>4, <2>2 DEF RequestStep, OnTransaction, CallAfterFork, NeedsAfterForkWork
    <3>2. \E there \in {"checked", "claimed", "idle"} : Goto(p, r, there)
      BY <1>4, <2>2 DEF RequestStep, OnTransaction, CallAfterFork, NeedsAfterForkWork
    <3> QED BY <3>1, <3>2, MoveDropsFirst DEF Entered
  <2> QED BY <2>1, <2>2
<1>5. ASSUME NEW p \in Procs, NEW w \in Workers, WorkerStep(p, w) PROVE DropsFirst'
  <2> w \in Threads /\ w \notin Callers
    BY LifecycleAssumption DEF Threads, Callers
  <2> USE DEF WorkerStep, Connect, WakeUp, CheckConnection, EventLoopStops, Harvest,
              ConnectReply, ConnectOk, ConnectRejected, ConnectUnrecoverable, ConnectFails,
              Contacting, HarvestReply, HarvestDone, ForceRestart, ForceDisconnect
  <2>1. inherited' = inherited \/ DropBufferedData(p)
    BY <1>5 DEF HandleForceRestart
  <2>2. pc[p][w] # "free"
    BY <1>5
  <2>3. \E there : Goto(p, w, there)
    BY <1>5
  <2> QED BY <2>1, <2>2, <2>3, MoveDropsFirst
<1> QED BY <1>0, <1>1, <1>2, <1>3, <1>4, <1>5 DEF Next

\* The worker of a forked child never transmits data its parent recorded.
THEOREM ParentsDataNotResentHolds == Spec => []ParentsDataNotResent
<1>1. Init => DropsFirst
  BY DEF Init, DropsFirst
<1>2. TypeOK /\ DropsFirst /\ [Next]_vars => DropsFirst'
  BY NextDropsFirst
<1>3. DropsFirst => ParentsDataNotResent
  BY DEF DropsFirst, ParentsDataNotResent
<1> QED BY <1>1, <1>2, <1>3, TypeCorrect, PTL DEF Spec

----------------------------------------------------------------------------
(* A forced child harvests under its own run *)

\* A worker told to reconnect that is past its connect either belongs to a
\* process with a run of its own, or is about to find out it is not connected.
OwnRun ==
  \A p \in Procs : \A w \in Workers :
    /\ pc[p][w] \in {"checkConnection", "loop", "harvesting"}
    /\ options[p][w] = "force"
    /\ service[p] = "collector"
    /\ agentRun[p] # p
    => pc[p][w] = "checkConnection" /\ connectState[p] # "connected"

\* A step within one process keeps OwnRun when the process only becomes
\* connected to the collector with its own run, and the moving thread does
\* not enter the loop otherwise.
LEMMA MoveOwnRun ==
  ASSUME TypeOK, OwnRun,
         NEW p \in Procs, NEW t \in Threads, NEW there, Goto(p, t, there),
         \A q \in Procs : \A w \in Workers : options'[q][w] = options[q][w],
         \A q \in Procs : service'[q] = "collector" => service[q] = "collector",
         \A q \in Procs : agentRun[q] = q => agentRun'[q] = q,
         \A q \in Procs : /\ connectState'[q] = "connected"
                          /\ service'[q] = "collector"
                          /\ agentRun'[q] # q
                          => connectState[q] = "connected",
         /\ t \in Workers
         /\ there \in {"checkConnection", "loop", "harvesting"}
         /\ options[p][t] = "force"
         /\ service'[p] = "collector"
         /\ agentRun'[p] # p
         => \/ pc[p][t] \in {"loop", "harvesting"}
            \/ there = "checkConnection" /\ connectState'[p] # "connected"
  PROVE  OwnRun'
<1>1. \A q \in Procs : \A w \in Workers :
        pc'[q][w] = IF q = p /\ w = t THEN there ELSE pc[q][w]
  BY DEF Goto, TypeOK, Threads
<1> QED BY <1>1 DEF OwnRun

\* OwnRun is inductive.
LEMMA NextOwnRun == TypeOK /\ OwnRun /\ [Next]_vars => OwnRun'
<1> SUFFICES ASSUME TypeOK, OwnRun, [Next]_vars PROVE OwnRun'
  OBVIOUS
<1>0. CASE UNCHANGED vars
  BY <1>0 DEF vars, OwnRun
<1>1. ASSUME NEW p \in Procs, MainStep(p) PROVE OwnRun'
  <2> Main \in Threads /\ Main \notin Workers
    BY LifecycleAssumption DEF Threads, Callers
  <2>1. /\ options' = options
        /\ agentRun' = agentRun
        /\ connectState' = connectState
        /\ \A q \in Procs : service'[q] = "collector" => service[q] = "collector"
        /\ \E there : Goto(p, Main, there)
    BY <1>1 DEF MainStep, Start, Shutdown, JoinReturns, JoinTimeout, GracefulDisconnect,
                FinishShutdown, TypeOK
  <2> QED BY <2>1, MoveOwnRun
<1>2. ASSUME NEW p \in Procs, NEW q \in Procs, Fork(p, q) PROVE OwnRun'
  <2>1. \A w \in Workers : pc'[q][w] = "free"
    BY <1>2 DEF Fork, TypeOK, Threads
  <2>2. \A x \in Procs \ {q} : /\ pc'[x] = pc[x]
                               /\ options'[x] = options[x]
                               /\ service'[x] = service[x]
                               /\ agentRun'[x] = agentRun[x]
                               /\ connectState'[x] = connectState[x]
    BY <1>2 DEF Fork, TypeOK
  <2> QED BY <2>1, <2>2 DEF OwnRun
<1>3. ASSUME NEW p \in Procs, NEW t \in Callers, CallerStep(p, t) PROVE OwnRun'
  <2> t \in Threads /\ t \notin Workers
    BY LifecycleAssumption DEF Threads, Callers
  <2>1. CASE SetupAndStartAgent(p, t)
    <3>1. \E there : Goto(p, t, there)
      BY <2>1 DEF SetupAndStartAgent
    <3> QED BY <2>1, <3>1, MoveOwnRun DEF SetupAndStartAgent
  <2>2. CASE ForegroundReply(p, t)
    <3>1. \A q \in Procs : agentRun[q] = q => agentRun'[q] = q
      BY <2>2 DEF ForegroundReply, ConnectSucceeds, Disconnect, TypeOK
    <3>2. \A q \in Procs : /\ connectState'[q] = "connected"
                           /\ service'[q] = "collector"
                           /\ agentRun'[q] # q
                           => connectState[q] = "connected"
      BY <2>2 DEF ForegroundReply, ConnectSucceeds, Disconnect, TypeOK
    <3> QED BY <2>2, <3>1, <3>2, MoveOwnRun DEF ForegroundReply
  <2>3. CASE StartWorkerThread(p, t)
    <3>0. PICK w \in Workers :
           /\ pc' = [pc EXCEPT ![p][w] = "connect", ![p][t] = Return(t)]
           /\ options' = [options EXCEPT ![p][w] = options[p][t], ![p][t] = "plain"]
      BY <2>3 DEF StartWorkerThread
    <3>1. \A q \in Procs : \A v \in Workers :
            IF q = p /\ v = w THEN pc'[q][v] = "connect"
            ELSE pc'[q][v] = pc[q][v] /\ options'[q][v] = options[q][v]
      BY <3>0 DEF TypeOK, Threads
    <3>2. service' = service /\ agentRun' = agentRun /\ connectState' = connectState
      BY <2>3 DEF StartWorkerThread
    <3> QED BY <3>1, <3>2 DEF OwnRun
  <2> QED BY <1>3, <2>1, <2>2, <2>3 DEF CallerStep
<1>4. ASSUME NEW p \in Procs, NEW r \in Requests, RequestStep(p, r) PROVE OwnRun'
  <2> r \in Threads /\ r \notin Workers
    BY LifecycleAssumption DEF Threads, Callers
  <2>1. \E there : Goto(p, r, there)
    BY <1>4 DEF RequestStep, OnTransaction, CallAfterFork, NeedsAfterForkWork, AfterFork
  <2>2. agentRun' = agentRun
    BY <1>4 DEF RequestStep, OnTransaction, CallAfterFork, NeedsAfterForkWork, AfterFork
  <2>3. \A q \in Procs : \A w \in Workers : options'[q][w] = options[q][w]
    <3>1. options' = options \/ \E m : options' = [options EXCEPT ![p][r] = m]
      BY <1>4 DEF RequestStep, OnTransaction, CallAfterFork, NeedsAfterForkWork, AfterFork
    <3> QED BY SMTT(30), <3>1 DEF TypeOK, Threads
  <2>4. \/ service' = service /\ connectState' = connectState
        \/ InstallPipeService(p)
    BY <1>4 DEF RequestStep, OnTransaction, CallAfterFork, NeedsAfterForkWork, AfterFork
  <2>5. \A q \in Procs : service'[q] = "collector" => service[q] = "collector"
    BY <2>4 DEF InstallPipeService, TypeOK
  <2>6. \A q \in Procs : connectState'[q] = "connected" => connectState[q] = "connected"
    BY <2>4 DEF InstallPipeService, TypeOK
  <2> QED BY <2>1, <2>2, <2>3, <2>5, <2>6, MoveOwnRun
<1>5. ASSUME NEW p \in Procs, NEW w \in Workers, WorkerStep(p, w) PROVE OwnRun'
  <2> w \in Threads
    BY DEF Threads
  <2>1. options' = options /\ service' = service
    BY <1>5 DEF WorkerStep, Connect, WakeUp, CheckConnection, EventLoopStops, Harvest,
                ConnectReply, ConnectOk, ConnectRejected, ConnectUnrecoverable, ConnectFails,
                HarvestReply, HarvestDone, ForceRestart, ForceDisconnect
  <2>2. CASE ConnectOk(p, w)
    <3>1. \A q \in Procs : agentRun[q] = q => agentRun'[q] = q
      BY <2>2 DEF ConnectOk, ConnectSucceeds, TypeOK
    <3>2. \A q \in Procs : /\ connectState'[q] = "connected"
                           /\ service'[q] = "collector"
                           /\ agentRun'[q] # q
                           => connectState[q] = "connected"
      BY <2>2 DEF ConnectOk, ConnectSucceeds, TypeOK
    <3>3. service'[p] = "collector" => agentRun'[p] = p
      BY <2>1, <2>2 DEF ConnectOk, ConnectSucceeds, TypeOK
    <3>4. Goto(p, w, "checkConnection")
      BY <2>2 DEF ConnectOk
    <3> QED BY <2>1, <3>1, <3>2, <3>3, <3>4, MoveOwnRun
  <2>3. CASE ConnectRejected(p, w) \/ ConnectUnrecoverable(p, w) \/ ForceDisconnect(p, w)
    <3>1. agentRun' = agentRun /\ connectState' = [connectState EXCEPT ![p] = "disconnected"]
      BY <2>3 DEF ConnectRejected, ConnectUnrecoverable, ForceDisconnect, Disconnect
    <3>2. Goto(p, w, "checkConnection") \/ Goto(p, w, "ended")
      BY <2>3 DEF ConnectRejected, ConnectUnrecoverable, ForceDisconnect
    <3>3. /\ connectState'[p] = "disconnected"
          /\ \A q \in Procs : connectState'[q] = "connected" => connectState[q] = "connected"
      BY <3>1 DEF TypeOK
    <3> QED BY <2>1, <3>1, <3>2, <3>3, MoveOwnRun
  <2>4. CASE ForceRestart(p, w)
    <3>1. agentRun' = agentRun /\ connectState' = [connectState EXCEPT ![p] = "pending"]
      BY <2>4 DEF ForceRestart, HandleForceRestart
    <3>2. \A q \in Procs : connectState'[q] = "connected" => connectState[q] = "connected"
      BY <3>1 DEF TypeOK
    <3>3. Goto(p, w, "restarting")
      BY <2>4 DEF ForceRestart
    <3> QED BY <2>1, <3>1, <3>2, <3>3, MoveOwnRun
  <2>5. CASE CheckConnection(p, w)
    <3>1. agentRun' = agentRun /\ connectState' = connectState
      BY <2>5 DEF CheckConnection
    <3>2. \/ Goto(p, w, "loop") /\ connectState[p] = "connected"
          \/ Goto(p, w, "ended")
      BY <2>5 DEF CheckConnection
    <3>3. pc[p][w] = "checkConnection"
      BY <2>5 DEF CheckConnection
    <3> QED BY <2>1, <3>1, <3>2, <3>3, MoveOwnRun DEF OwnRun
  <2>6. CASE Connect(p, w)
    <3>1. agentRun' = agentRun /\ connectState' = connectState
      BY <2>6 DEF Connect
    <3>2. \/ Goto(p, w, "contacting")
          \/ Goto(p, w, "checkConnection") /\ options[p][w] # "force"
      BY <2>6 DEF Connect, ShouldConnect
    <3> QED BY <2>1, <3>1, <3>2, MoveOwnRun
  <2>7. CASE \/ WakeUp(p, w) \/ EventLoopStops(p, w) \/ Harvest(p, w) \/ HarvestDone(p, w)
             \/ ConnectFails(p, w)
    <3>1. agentRun' = agentRun /\ connectState' = connectState
      BY <2>7 DEF WakeUp, EventLoopStops, Harvest, HarvestDone, ConnectFails
    <3>2. \/ Goto(p, w, "connect") \/ Goto(p, w, "ended") \/ Goto(p, w, "retrying")
          \/ pc[p][w] \in {"loop", "harvesting"} /\ \E there : Goto(p, w, there)
      BY <2>7 DEF WakeUp, EventLoopStops, Harvest, HarvestDone, ConnectFails
    <3> QED BY <2>1, <3>1, <3>2, MoveOwnRun
  <2> QED
    BY <1>5, <2>2, <2>3, <2>4, <2>5, <2>6, <2>7 DEF WorkerStep, ConnectReply, HarvestReply
<1> QED BY <1>0, <1>1, <1>2, <1>3, <1>4, <1>5 DEF Next

\* A child that was told to reconnect never harvests under its parent's run.
THEOREM OwnRunWhenForcedHolds == Spec => []OwnRunWhenForced
<1>1. Init => OwnRun
  BY DEF Init, OwnRun, Threads, Callers
<1>2. TypeOK /\ OwnRun /\ [Next]_vars => OwnRun'
  BY NextOwnRun
<1>3. OwnRun => OwnRunWhenForced
  BY DEF OwnRun, OwnRunWhenForced
<1> QED BY <1>1, <1>2, <1>3, TypeCorrect, PTL DEF Spec

----------------------------------------------------------------------------
(* One worker *)

\* A caller that will create a worker, or a worker that was created.
Starter(p, t) == IF t \in Workers THEN pc[p][t] # "free" ELSE pc[p][t] \in Booting \cup Starting

\* Where only the winner of @after_fork_lock can start the agent: in a child, and
\* in any process whose transactions wait for the end of boot.
Alone(p) == EarlyRequests = FALSE \/ p # Root

\* Of the callers on their way to start a worker and the workers there are two at
\* most, Main and the request thread that won the lock while Main was booting, and
\* one where that cannot happen.  A request thread or a worker is among them only
\* once the process is marked as started.
FewStarters ==
  \A p \in Procs :
    /\ \A a, b, c \in Threads :
         Starter(p, a) /\ Starter(p, b) /\ Starter(p, c) => a = b \/ b = c \/ a = c
    /\ Alone(p) => \A a, b \in Threads : Starter(p, a) /\ Starter(p, b) => a = b
    /\ \A t \in Callers : pc[p][t] \in Starting => startingPid[p] = p
    /\ \A w \in Workers : pc[p][w] # "free" => startingPid[p] = p
    /\ \A r \in Requests : pc[p][r] \notin Booting
    /\ p # Root => pc[p][Main] \notin Booting \cup Starting
    /\ EarlyRequests = FALSE /\ pc[p][Main] \in Booting \cup Starting
         => \A r \in Requests : pc[p][r] = "idle"

\* A step that makes nobody a starter, and moves a request thread only after
\* boot, if it has to wait for that, keeps FewStarters.
LEMMA MoveFewStarters ==
  ASSUME TypeOK, FewStarters,
         NEW p \in Procs, NEW t \in Threads, NEW there, Goto(p, t, there),
         startingPid' = startingPid \/ startingPid' = [startingPid EXCEPT ![p] = p],
         t \in Workers => pc[p][t] # "free",
         t \in Callers /\ there \in Booting \cup Starting => pc[p][t] \in Booting \cup Starting,
         t \in Callers /\ there \in Starting => startingPid'[p] = p,
         t \in Requests => there \notin Booting,
         t \in Requests /\ EarlyRequests = FALSE => pc[p][Main] \notin Booting \cup Starting
  PROVE  FewStarters'
<1> Requests \subseteq Callers /\ Callers \subseteq Threads /\ Workers \subseteq Threads
  BY DEF Callers, Threads
<1> Main \in Callers /\ Main \notin Requests /\ \A u \in Callers : u \notin Workers
  BY LifecycleAssumption DEF Callers
<1>1. \A q \in Procs : \A u \in Threads :
        pc'[q][u] = IF q = p /\ u = t THEN there ELSE pc[q][u]
  BY DEF Goto, TypeOK
<1>2. \A q \in Procs : startingPid[q] = q => startingPid'[q] = q
  BY DEF TypeOK
<1> SUFFICES ASSUME NEW q \in Procs
             PROVE  /\ \A a, b, c \in Threads :
                         Starter(q, a)' /\ Starter(q, b)' /\ Starter(q, c)'
                           => a = b \/ b = c \/ a = c
                    /\ Alone(q) => \A a, b \in Threads :
                                     Starter(q, a)' /\ Starter(q, b)' => a = b
                    /\ \A u \in Callers : pc'[q][u] \in Starting => startingPid'[q] = q
                    /\ \A w \in Workers : pc'[q][w] # "free" => startingPid'[q] = q
                    /\ \A r \in Requests : pc'[q][r] \notin Booting
                    /\ q # Root => pc'[q][Main] \notin Booting \cup Starting
                    /\ EarlyRequests = FALSE /\ pc'[q][Main] \in Booting \cup Starting
                         => \A r \in Requests : pc'[q][r] = "idle"
  BY DEF FewStarters, Alone
<1>3. ASSUME NEW a \in Threads, Starter(q, a)' PROVE Starter(q, a)
  BY <1>1, <1>3 DEF Starter, Threads
<1>4. /\ \A a, b, c \in Threads :
           Starter(q, a)' /\ Starter(q, b)' /\ Starter(q, c)' => a = b \/ b = c \/ a = c
      /\ Alone(q) => \A a, b \in Threads : Starter(q, a)' /\ Starter(q, b)' => a = b
  BY <1>3 DEF FewStarters
<1>5. \A u \in Callers : pc'[q][u] \in Starting => startingPid'[q] = q
  BY <1>1, <1>2 DEF FewStarters
<1>6. \A w \in Workers : pc'[q][w] # "free" => startingPid'[q] = q
  BY <1>1, <1>2 DEF FewStarters
<1>7. \A r \in Requests : pc'[q][r] \notin Booting
  BY <1>1 DEF FewStarters
<1>8. q # Root => pc'[q][Main] \notin Booting \cup Starting
  BY <1>1 DEF FewStarters
<1>9. EarlyRequests = FALSE /\ pc'[q][Main] \in Booting \cup Starting
        => \A r \in Requests : pc'[q][r] = "idle"
  BY <1>1 DEF FewStarters
<1> QED BY <1>4, <1>5, <1>6, <1>7, <1>8, <1>9

\* start_worker_thread: the worker takes the place of the caller that creates it.
LEMMA WorkerFewStarters ==
  ASSUME TypeOK, FewStarters, NEW p \in Procs, NEW t \in Callers, StartWorkerThread(p, t)
  PROVE  FewStarters'
<1> USE DEF Booting, Starting
<1> t \in Threads /\ t \notin Workers /\ Callers \subseteq Threads
  BY LifecycleAssumption DEF Threads, Callers
<1>1. PICK w \in Workers : pc[p][w] = "free"
                      /\ pc' = [pc EXCEPT ![p][w] = "connect", ![p][t] = Return(t)]
  BY DEF StartWorkerThread
<1>2. startingPid' = startingPid /\ startingPid[p] = p /\ Starter(p, t) /\ w # t
  BY <1>1 DEF StartWorkerThread, FewStarters, Starter
<1>3. \A u \in Threads : pc'[p][u] = IF u = t THEN Return(t)
                                 ELSE IF u = w THEN "connect" ELSE pc[p][u]
  BY <1>1, <1>2 DEF TypeOK, Threads
<1>4. Return(t) \in {"running", "idle"} /\ (t \in Requests => Return(t) = "idle")
  BY LifecycleAssumption DEF Return
<1>5. ~Starter(p, t)'
  BY <1>3, <1>4 DEF Starter
<1>6. \A a \in Threads \ {w, t} : Starter(p, a)' => Starter(p, a)
  BY <1>3 DEF Starter
<1>7. ~Starter(p, w)
  BY <1>1 DEF Starter
<1>8. /\ \A a, b, c \in Threads :
           Starter(p, a)' /\ Starter(p, b)' /\ Starter(p, c)' => a = b \/ b = c \/ a = c
      /\ Alone(p) => \A a, b \in Threads : Starter(p, a)' /\ Starter(p, b)' => a = b
  <2> DEFINE of(a) == IF a = w THEN t ELSE a
  <2>1. \A a \in Threads : Starter(p, a)' => of(a) \in Threads /\ Starter(p, of(a))
    BY <1>2, <1>5, <1>6
  <2>2. \A a, b \in Threads : Starter(p, a)' /\ Starter(p, b)' /\ of(a) = of(b) => a = b
    BY <1>5
  <2> HIDE DEF of
  <2> QED BY <2>1, <2>2 DEF FewStarters
<1>9. \A u \in Callers : u # t => pc'[p][u] = pc[p][u]
  BY <1>3, LifecycleAssumption DEF Callers
<1>10. \A q \in Procs : q # p => pc'[q] = pc[q] /\ startingPid'[q] = startingPid[q]
  BY <1>1, <1>2 DEF TypeOK
<1> SUFFICES ASSUME NEW q \in Procs
             PROVE  /\ \A a, b, c \in Threads :
                         Starter(q, a)' /\ Starter(q, b)' /\ Starter(q, c)'
                           => a = b \/ b = c \/ a = c
                    /\ Alone(q) => \A a, b \in Threads :
                                     Starter(q, a)' /\ Starter(q, b)' => a = b
                    /\ \A u \in Callers : pc'[q][u] \in Starting => startingPid'[q] = q
                    /\ \A v \in Workers : pc'[q][v] # "free" => startingPid'[q] = q
                    /\ \A r \in Requests : pc'[q][r] \notin Booting
                    /\ q # Root => pc'[q][Main] \notin Booting \cup Starting
                    /\ EarlyRequests = FALSE /\ pc'[q][Main] \in Booting \cup Starting
                         => \A r \in Requests : pc'[q][r] = "idle"
  BY DEF FewStarters, Alone
<1>11. CASE q = p
  <2>1. Requests \subseteq Callers /\ Main \in Callers /\ Main \notin Requests
    BY LifecycleAssumption DEF Callers
  <2>2. /\ \A r \in Requests : pc'[p][r] \notin Booting
        /\ p # Root => pc'[p][Main] \notin Booting \cup Starting
    BY <1>3, <1>4, <1>9, <2>1 DEF FewStarters
  <2>3. EarlyRequests = FALSE /\ pc'[p][Main] \in Booting \cup Starting
          => \A r \in Requests : pc'[p][r] = "idle"
    BY <1>3, <1>4, <1>9, <2>1 DEF FewStarters
  <2> QED BY <1>2, <1>8, <1>11, <2>2, <2>3
<1>12. CASE q # p
  <2>1. \A a \in Threads : Starter(q, a)' <=> Starter(q, a)
    BY <1>10, <1>12 DEF Starter
  <2>2. pc'[q] = pc[q] /\ startingPid'[q] = startingPid[q]
    BY <1>10, <1>12
  <2> HIDE DEF Booting, Starting
  <2>3. /\ \A a, b, c \in Threads :
             Starter(q, a)' /\ Starter(q, b)' /\ Starter(q, c)' => a = b \/ b = c \/ a = c
        /\ Alone(q) => \A a, b \in Threads : Starter(q, a)' /\ Starter(q, b)' => a = b
    BY <2>1 DEF FewStarters
  <2>4. /\ \A u \in Callers : pc'[q][u] \in Starting => startingPid'[q] = q
        /\ \A v \in Workers : pc'[q][v] # "free" => startingPid'[q] = q
    BY <2>2 DEF FewStarters
  <2>5. /\ \A r \in Requests : pc'[q][r] \notin Booting
        /\ q # Root => pc'[q][Main] \notin Booting \cup Starting
        /\ EarlyRequests = FALSE /\ pc'[q][Main] \in Booting \cup Starting
             => \A r \in Requests : pc'[q][r] = "idle"
    BY <2>2 DEF FewStarters
  <2> QED BY <2>3, <2>4, <2>5
<1> QED BY <1>11, <1>12

\* needs_after_fork_work?: the request thread that marks the process joins Main at
\* most, which boots only in the first process.
LEMMA ClaimFewStarters ==
  ASSUME TypeOK, FewStarters, NEW p \in Procs, NEW r \in Requests,
         NeedsAfterForkWork(p, r), MayRestart(p)
  PROVE  FewStarters'
<1> USE DEF Booting, Starting
<1> r \in Threads /\ r \notin Workers /\ r \in Callers /\ r # Main
  BY LifecycleAssumption DEF Threads, Callers
<1>1. /\ Goto(p, r, "claimed") /\ startingPid' = [startingPid EXCEPT ![p] = p]
      /\ pc[p][r] = "checked" /\ startingPid[p] # p
  BY DEF NeedsAfterForkWork, MayRestart, NeedsRestart
<1>2. \A a \in Threads : Starter(p, a) => a = Main
  BY <1>1 DEF FewStarters, Starter, Threads, Callers
<1>3. Alone(p) => ~Starter(p, Main)
  BY <1>1, LifecycleAssumption DEF Alone, FewStarters, Starter
<1>4. \A u \in Threads : pc'[p][u] = IF u = r THEN "claimed" ELSE pc[p][u]
  BY <1>1 DEF Goto, TypeOK
<1>5. \A a \in Threads : Starter(p, a)' => a = r \/ (a = Main /\ Starter(p, Main))
  BY <1>2, <1>4 DEF Starter
<1>6. \A q \in Procs : q # p => pc'[q] = pc[q] /\ startingPid'[q] = startingPid[q]
  BY <1>1 DEF Goto, TypeOK
<1>7. startingPid'[p] = p
  BY <1>1 DEF TypeOK
<1>8. \A q \in Procs : q # p => \A a \in Threads : Starter(q, a)' <=> Starter(q, a)
  BY <1>6 DEF Starter
<1>9. /\ \A a, b, c \in Threads :
           Starter(p, a)' /\ Starter(p, b)' /\ Starter(p, c)' => a = b \/ b = c \/ a = c
      /\ Alone(p) => \A a, b \in Threads : Starter(p, a)' /\ Starter(p, b)' => a = b
  BY <1>3, <1>5
<1>10. /\ \A u \in Requests : pc'[p][u] \notin Booting
       /\ p # Root => pc'[p][Main] \notin Booting \cup Starting
       /\ EarlyRequests = FALSE => pc'[p][Main] \notin Booting \cup Starting
  <2>1. Main \in Threads /\ Main \notin Workers /\ pc'[p][Main] = pc[p][Main]
    BY <1>4, LifecycleAssumption DEF Threads, Callers
  <2>2. \A u \in Requests : pc'[p][u] \notin Booting
    BY <1>4 DEF FewStarters, Threads, Callers
  <2>3. Alone(p) => pc[p][Main] \notin Booting \cup Starting
    BY <1>3, <2>1 DEF Starter
  <2> QED BY <2>1, <2>2, <2>3 DEF Alone
<1> QED BY <1>6, <1>7, <1>8, <1>9, <1>10 DEF FewStarters, Alone

LEMMA NextFewStarters ==
  ASSUME TypeOK, FewStarters, [Next]_vars
  PROVE  FewStarters'
<1> USE DEF Booting, Starting
<1>0. CASE UNCHANGED vars
  BY <1>0 DEF vars, FewStarters, Starter, Alone
<1>1. ASSUME NEW p \in Procs, MainStep(p) PROVE FewStarters'
  <2> Main \in Threads /\ Main \notin Workers /\ Main \notin Requests /\ Main \in Callers
    BY LifecycleAssumption DEF Threads, Callers
  <2>1. startingPid' = startingPid
    BY <1>1 DEF MainStep, Start, Shutdown, JoinReturns, JoinTimeout, GracefulDisconnect,
                FinishShutdown
  <2>2. \/ Goto(p, Main, "booting") /\ pc[p][Main] = "boot"
        \/ \E there \in {"running", "joining", "flushing", "reverting", "stopped"} :
              Goto(p, Main, there)
    BY <1>1 DEF MainStep, Start, Shutdown, JoinReturns, JoinTimeout, GracefulDisconnect,
                FinishShutdown
  <2> QED BY <2>1, <2>2, MoveFewStarters
<1>2. ASSUME NEW p \in Procs, NEW q \in Procs, Fork(p, q) PROVE FewStarters'
  <2>1. \A x \in Procs \ {q} : pc'[x] = pc[x] /\ startingPid'[x] = startingPid[x]
    BY <1>2 DEF Fork, TypeOK
  <2>2. \A u \in Threads : pc'[q][u] \in {"free", "running", "idle"}
    BY <1>2 DEF Fork, TypeOK, Return
  <2>3. \A w \in Workers : pc'[q][w] = "free"
    BY <1>2 DEF Fork, TypeOK, Threads
  <2>4. \A a \in Threads : ~Starter(q, a)'
    BY <2>2, <2>3 DEF Starter
  <2>5. \A x \in Procs \ {q} : \A a \in Threads : Starter(x, a)' <=> Starter(x, a)
    BY <2>1 DEF Starter
  <2> QED
    BY <2>1, <2>2, <2>3, <2>4, <2>5 DEF FewStarters, Alone, Threads, Callers
<1>3. ASSUME NEW p \in Procs, NEW t \in Callers, CallerStep(p, t) PROVE FewStarters'
  <2> t \in Threads /\ t \notin Workers
    BY LifecycleAssumption DEF Threads, Callers
  <2>0. t \in Requests /\ EarlyRequests = FALSE => pc[p][Main] \notin Booting \cup Starting
    BY <1>3 DEF CallerStep, SetupAndStartAgent, ForegroundReply, StartWorkerThread, FewStarters
  <2>1. CASE SetupAndStartAgent(p, t)
    <3>1. /\ pc[p][t] \in Booting \cup Starting
          /\ startingPid' = [startingPid EXCEPT ![p] = p]
          /\ startingPid'[p] = p
      BY <2>1 DEF SetupAndStartAgent, TypeOK
    <3>2. \E there \in {"foreground", "starting"} : Goto(p, t, there)
      BY <2>1 DEF SetupAndStartAgent
    <3> QED BY <2>0, <3>1, <3>2, MoveFewStarters
  <2>2. CASE ForegroundReply(p, t)
    <3>1. /\ pc[p][t] = "foreground"
          /\ startingPid' = startingPid
          /\ startingPid[p] = p
          /\ Goto(p, t, "starting")
      BY <2>2 DEF ForegroundReply, FewStarters
    <3> QED BY <2>0, <3>1, MoveFewStarters
  <2>3. CASE StartWorkerThread(p, t)
    BY <2>3, WorkerFewStarters
  <2> QED BY <1>3, <2>1, <2>2, <2>3 DEF CallerStep
<1>4. ASSUME NEW p \in Procs, NEW r \in Requests, RequestStep(p, r) PROVE FewStarters'
  <2> r \in Threads /\ r \notin Workers /\ r \in Callers /\ r # Main
    BY LifecycleAssumption DEF Threads, Callers
  <2>0. EarlyRequests = FALSE => pc[p][Main] \notin Booting \cup Starting
    BY <1>4 DEF RequestStep, OnTransaction, CallAfterFork, NeedsAfterForkWork, AfterFork,
                FewStarters, Serving
  <2>1. CASE OnTransaction(p, r) \/ \E mode \in AfterForkModes : CallAfterFork(p, r, mode)
    <3>1. Goto(p, r, "checked") /\ startingPid' = startingPid
      BY <2>1 DEF OnTransaction, CallAfterFork
    <3> QED BY <2>0, <3>1, MoveFewStarters
  <2>2. CASE NeedsAfterForkWork(p, r) /\ ~MayRestart(p)
    <3>1. Goto(p, r, "idle") /\ startingPid' = [startingPid EXCEPT ![p] = p]
      BY <2>2 DEF NeedsAfterForkWork
    <3> QED BY <2>0, <3>1, MoveFewStarters
  <2>3. CASE NeedsAfterForkWork(p, r) /\ MayRestart(p)
    BY <2>3, ClaimFewStarters
  <2>4. CASE AfterFork(p, r)
    <3>1. /\ Goto(p, r, "setup") /\ pc[p][r] = "claimed" /\ startingPid' = startingPid
          /\ startingPid[p] = p
      BY <2>4 DEF AfterFork, FewStarters
    <3> QED BY <2>0, <3>1, MoveFewStarters
  <2> QED BY <1>4, <2>1, <2>2, <2>3, <2>4 DEF RequestStep
<1>5. ASSUME NEW p \in Procs, NEW w \in Workers, WorkerStep(p, w) PROVE FewStarters'
  <2> w \in Threads /\ w \notin Callers /\ w \notin Requests
    BY LifecycleAssumption DEF Threads, Callers
  <2> USE DEF WorkerStep, Connect, WakeUp, CheckConnection, EventLoopStops, Harvest,
              ConnectReply, ConnectOk, ConnectRejected, ConnectUnrecoverable, ConnectFails,
              Contacting, HarvestReply, HarvestDone, ForceRestart, ForceDisconnect
  <2>1. startingPid' = startingPid
    BY <1>5
  <2>2. pc[p][w] # "free"
    BY <1>5
  <2>3. \E there : Goto(p, w, there)
    BY <1>5
  <2> QED BY <2>1, <2>2, <2>3, MoveFewStarters
<1> QED BY <1>0, <1>1, <1>2, <1>3, <1>4, <1>5 DEF Next

LEMMA FewStartersInvariant == Spec => []FewStarters
<1>1. Init => FewStarters
  BY LifecycleAssumption
     DEF Init, FewStarters, Starter, Alone, Threads, Callers, Booting, Starting
<1>2. TypeOK /\ FewStarters /\ [Next]_vars => FewStarters'
  BY NextFewStarters
<1> QED BY <1>1, <1>2, TypeCorrect, PTL DEF Spec

\* After a fork, and in a booted process, however many request threads race
\* to restart the agent, there is never more than one live worker.
THEOREM OneWorkerPerProcessHolds ==
  ASSUME EarlyRequests = FALSE
  PROVE  Spec => []OneWorkerPerProcess
<1>1. FewStarters => OneWorkerPerProcess
  BY DEF FewStarters, OneWorkerPerProcess, Starter, Alone, Live, Working, Threads
<1> QED BY <1>1, FewStartersInvariant, PTL

\* A child never has two workers, whatever its parent was doing and however many
\* of its threads call after_fork: nobody boots there (needs_after_fork_work?).
OneWorkerPerChild ==
  \A p \in Procs \ {Root} : \A v, w \in Workers : Live(p, v) /\ Live(p, w) => v = w

THEOREM OneWorkerPerChildHolds == Spec => []OneWorkerPerChild
<1>1. FewStarters => OneWorkerPerChild
  BY DEF FewStarters, OneWorkerPerChild, Starter, Alone, Live, Working, Threads
<1> QED BY <1>1, FewStartersInvariant, PTL

\* Transactions that run while the first process boots can start the agent a second
\* time, against what start and after_fork each check, but never a third time: all
\* the request threads pass one lock.
NeverThreeWorkers ==
  \A p \in Procs : \A u, v, w \in Workers :
    Live(p, u) /\ Live(p, v) /\ Live(p, w) => u = v \/ v = w \/ u = w

THEOREM NeverThreeWorkersHolds == Spec => []NeverThreeWorkers
<1>1. FewStarters => NeverThreeWorkers
  BY DEF FewStarters, NeverThreeWorkers, Starter, Live, Working, Threads
<1> QED BY <1>1, FewStartersInvariant, PTL

----------------------------------------------------------------------------
(* A rejected agent stays away *)

\* Nobody connects in the foreground, Main is never told to reconnect, and a
\* process that was not forked yet has no state of its own.
Background ==
  \A p \in Procs :
    /\ \A t \in Callers : pc[p][t] # "foreground"
    /\ options[p][Main] # "force"
    /\ pc[p][Main] = "unborn" =>
         /\ connectState[p] = "pending"
         /\ \A r \in Requests : pc[p][r] = "idle"
         /\ \A w \in Workers : pc[p][w] = "free"

\* The collector turned the agent of p away, where only one thread can have
\* started it: a second one might be on its way to connect.
Rejected(p) == Alone(p) /\ connectState[p] = "disconnected"

\* Where a thread of a rejected agent may be: not in contact with the
\* collector, nor on the way there with :force_reconnect.
Harmless(p, t, place, mode) ==
  /\ t \in Workers =>
       /\ place \in {"free", "connect", "checkConnection", "ended"}
       /\ place = "connect" => mode # "force"
  /\ t \in Callers /\ place \in {"claimed", "setup", "starting"} => mode # "force"

Away ==
  \A p \in Procs : Rejected(p) =>
    \A t \in Threads : Harmless(p, t, pc[p][t], options[p][t])

\* What is needed of a step in which one thread of p moves: it disconnects
\* nobody, or p by the only starter there is, and the thread is harmless after.
LEMMA MoveAway ==
  ASSUME TypeOK, FewStarters, Away,
         NEW p \in Procs, NEW t \in Threads, NEW there, Goto(p, t, there),
         \A q \in Procs : \A u \in Threads :
            q # p \/ u # t => options'[q][u] = options[q][u],
         \A q \in Procs : connectState'[q] = "disconnected"
            => connectState[q] = "disconnected" \/ (q = p /\ Starter(p, t)),
         Rejected(p)' => Harmless(p, t, there, options'[p][t])
  PROVE  Away'
<1> USE DEF Rejected, Alone
<1> SUFFICES ASSUME NEW q \in Procs, Rejected(q)', NEW u \in Threads
             PROVE  Harmless(q, u, pc'[q][u], options'[q][u])
  BY DEF Away, Harmless
<1>1. pc'[q][u] = IF q = p /\ u = t THEN there ELSE pc[q][u]
  BY DEF Goto, TypeOK
<1>2. CASE q = p /\ u = t
  BY <1>1, <1>2 DEF Harmless
<1>3. CASE ~(q = p /\ u = t) /\ connectState[q] = "disconnected"
  <2>1. pc'[q][u] = pc[q][u] /\ options'[q][u] = options[q][u]
    BY <1>1, <1>3
  <2>2. Harmless(q, u, pc[q][u], options[q][u])
    BY <1>3 DEF Away
  <2> QED BY <2>1, <2>2
<1>4. CASE q = p /\ u # t /\ Starter(p, t)
  <2>1. ~Starter(p, u) /\ pc'[q][u] = pc[p][u]
    BY <1>1, <1>4 DEF FewStarters
  <2>2. u \in Workers => pc[p][u] = "free"
    BY <2>1 DEF Starter
  <2>3. u \in Callers => pc[p][u] \notin {"claimed", "setup", "starting"}
    BY <2>1, LifecycleAssumption DEF Starter, Starting, Callers
  <2> QED BY <1>4, <2>1, <2>2, <2>3, LifecycleAssumption DEF Harmless, Callers
<1> QED BY <1>2, <1>3, <1>4

\* Background is inductive without :sync_startup.
LEMMA NextBackground ==
  ASSUME SyncStartup = FALSE, TypeOK, Background, [Next]_vars
  PROVE  Background'
<1> Callers \subseteq Threads /\ Workers \subseteq Threads /\ Main \in Callers
    /\ Requests \subseteq Callers /\ Main \notin Requests /\ Main \notin Workers
  BY LifecycleAssumption DEF Threads, Callers
<1>0. CASE UNCHANGED vars
  BY <1>0 DEF vars, Background
<1>1. ASSUME NEW p \in Procs, MainStep(p) PROVE Background'
  <2>1. options' = options /\ connectState' = connectState
    BY <1>1 DEF MainStep, Start, Shutdown, JoinReturns, JoinTimeout, GracefulDisconnect,
                FinishShutdown
  <2>2. \E there \in {"booting", "running", "joining", "flushing", "reverting", "stopped"} :
           Goto(p, Main, there)
    BY <1>1 DEF MainStep, Start, Shutdown, JoinReturns, JoinTimeout, GracefulDisconnect,
                FinishShutdown
  <2> QED BY <2>1, <2>2 DEF Background, Goto, TypeOK
<1>2. ASSUME NEW p \in Procs, NEW q \in Procs, Fork(p, q) PROVE Background'
  <2>1. \A x \in Procs \ {q} : pc'[x] = pc[x] /\ connectState'[x] = connectState[x]
    BY <1>2 DEF Fork, TypeOK
  <2>2. \A u \in Threads : pc'[q][u] \in {"free", "running", "idle"}
    BY <1>2 DEF Fork, TypeOK, Return
  <2>3. options' = options
    BY <1>2 DEF Fork
  <2>4. \A x \in Procs \ {q} : pc'[x][Main] = "unborn" =>
         /\ connectState'[x] = "pending"
         /\ \A r \in Requests : pc'[x][r] = "idle"
         /\ \A w \in Workers : pc'[x][w] = "free"
    BY <2>1 DEF Background
  <2>5. pc'[q][Main] # "unborn" /\ \A t \in Callers : pc'[q][t] # "foreground"
    BY <2>2
  <2>6. \A x \in Procs \ {q} : \A t \in Callers : pc'[x][t] # "foreground"
    BY <2>1 DEF Background
  <2>7. \A x \in Procs : options'[x][Main] # "force"
    BY <2>3 DEF Background
  <2> QED BY <2>4, <2>5, <2>6, <2>7 DEF Background
<1>3. ASSUME NEW p \in Procs, NEW t \in Callers, CallerStep(p, t) PROVE Background'
  <2>1. CASE SetupAndStartAgent(p, t)
    <3>1. /\ Goto(p, t, "starting") /\ pc[p][t] \in {"booting", "setup"}
          /\ options' = options /\ connectState' = connectState
      BY <2>1 DEF SetupAndStartAgent
    <3>2. pc[p][Main] # "unborn"
      BY <3>1 DEF Background, Callers
    <3> QED BY <3>1, <3>2 DEF Background, Goto, TypeOK
  <2>2. CASE ForegroundReply(p, t)
    BY <2>2 DEF ForegroundReply, Background
  <2>3. CASE StartWorkerThread(p, t)
    <3>0. PICK w \in Workers :
           /\ pc' = [pc EXCEPT ![p][w] = "connect", ![p][t] = Return(t)]
           /\ options' = [options EXCEPT ![p][w] = options[p][t], ![p][t] = "plain"]
      BY <2>3 DEF StartWorkerThread
    <3>1. /\ connectState' = connectState /\ pc[p][t] = "starting"
          /\ Return(t) \in {"running", "idle"}
      BY <2>3 DEF StartWorkerThread, Return
    <3>2. pc[p][Main] # "unborn"
      BY <3>1 DEF Background, Callers
    <3>3. \A x \in Procs : \A u \in Callers :
            pc'[x][u] = IF x = p /\ u = t THEN Return(t) ELSE pc[x][u]
      BY <3>0, LifecycleAssumption DEF TypeOK, Callers
    <3>4. \A x \in Procs : x # p => pc'[x] = pc[x]
      BY <3>0 DEF TypeOK
    <3>5. \A x \in Procs : options'[x][Main] \in {options[x][Main], "plain"}
      BY <3>0 DEF TypeOK
    <3>6. pc'[p][Main] # "unborn"
      BY <3>1, <3>2, <3>3
    <3> QED BY <3>1, <3>3, <3>4, <3>5, <3>6 DEF Background
  <2> QED BY <1>3, <2>1, <2>2, <2>3 DEF CallerStep
<1>4. ASSUME NEW p \in Procs, NEW r \in Requests, RequestStep(p, r) PROVE Background'
  <2>1. \E there \in {"checked", "claimed", "idle", "setup"} : Goto(p, r, there)
    BY <1>4 DEF RequestStep, OnTransaction, CallAfterFork, NeedsAfterForkWork, AfterFork
  <2>2. options' = options \/ \E m : options' = [options EXCEPT ![p][r] = m]
    BY <1>4 DEF RequestStep, OnTransaction, CallAfterFork, NeedsAfterForkWork, AfterFork
  <2>3. pc[p][Main] # "unborn"
    BY <1>4 DEF RequestStep, OnTransaction, CallAfterFork, NeedsAfterForkWork, AfterFork,
                Serving, Background
  <2>4. connectState' = connectState \/ InstallPipeService(p)
    BY <1>4 DEF RequestStep, OnTransaction, CallAfterFork, NeedsAfterForkWork, AfterFork
  <2>5. \A q \in Procs : q # p => connectState'[q] = connectState[q]
    BY <2>4 DEF InstallPipeService, TypeOK
  <2>6. \A q \in Procs : options'[q][Main] = options[q][Main]
    <3>1. CASE options' = options
      BY <3>1
    <3>2. ASSUME NEW m, options' = [options EXCEPT ![p][r] = m]
          PROVE  \A q \in Procs : options'[q][Main] = options[q][Main]
      BY <3>2 DEF TypeOK
    <3> QED BY <2>2, <3>1, <3>2
  <2> QED BY <2>1, <2>3, <2>5, <2>6 DEF Background, Goto, TypeOK
<1>5. ASSUME NEW p \in Procs, NEW w \in Workers, WorkerStep(p, w) PROVE Background'
  <2> w \notin Callers
    BY LifecycleAssumption DEF Callers
  <2> USE DEF WorkerStep, Connect, WakeUp, CheckConnection, EventLoopStops, Harvest,
              ConnectReply, ConnectOk, ConnectRejected, ConnectUnrecoverable, ConnectFails,
              Contacting, HarvestReply, HarvestDone, ForceRestart, ForceDisconnect
  <2>1. options' = options /\ pc[p][w] # "free" /\ \E there : Goto(p, w, there)
    BY <1>5
  <2>2. connectState' = connectState \/ \E c : connectState' = [connectState EXCEPT ![p] = c]
    BY <1>5 DEF ConnectSucceeds, Disconnect, HandleForceRestart
  <2>3. pc[p][Main] # "unborn"
    BY <2>1 DEF Background
  <2>4. \A q \in Procs : q # p => connectState'[q] = connectState[q]
    BY <2>2 DEF TypeOK
  <2> QED BY <2>1, <2>3, <2>4 DEF Background, Goto, TypeOK
<1> QED BY <1>0, <1>1, <1>2, <1>3, <1>4, <1>5 DEF Next

\* Away is inductive, and a rejected agent is rejected after any step.
LEMMA NextAway ==
  ASSUME TypeOK, FewStarters, Background, Away, [Next]_vars
  PROVE  /\ Away'
         /\ \A q \in Procs : Rejected(q) => connectState'[q] = "disconnected"
<1> DEFINE Stays == \A q \in Procs : Rejected(q) => connectState'[q] = "disconnected"
<1> USE DEF Rejected, Alone
<1> Callers \subseteq Threads /\ Workers \subseteq Threads /\ Main \in Callers
    /\ Requests \subseteq Callers /\ Main \notin Requests /\ Main \notin Workers
  BY LifecycleAssumption DEF Threads, Callers
<1>0. CASE UNCHANGED vars
  BY <1>0 DEF vars, Away
<1>1. ASSUME NEW p \in Procs, MainStep(p) PROVE Away' /\ Stays
  <2>1. options' = options /\ connectState' = connectState
    BY <1>1 DEF MainStep, Start, Shutdown, JoinReturns, JoinTimeout, GracefulDisconnect,
                FinishShutdown
  <2>2. \E there \in {"booting", "running", "joining", "flushing", "reverting", "stopped"} :
           Goto(p, Main, there)
    BY <1>1 DEF MainStep, Start, Shutdown, JoinReturns, JoinTimeout, GracefulDisconnect,
                FinishShutdown
  <2> QED BY <2>1, <2>2, MoveAway DEF Harmless
<1>2. ASSUME NEW p \in Procs, NEW q \in Procs, Fork(p, q) PROVE Away' /\ Stays
  <2>1. \A x \in Procs \ {q} : pc'[x] = pc[x] /\ connectState'[x] = connectState[x]
    BY <1>2 DEF Fork, TypeOK
  <2>2. \A u \in Threads : /\ pc'[q][u] \in {"free", "running", "idle"}
                           /\ u \in Workers => pc'[q][u] = "free"
    BY <1>2 DEF Fork, TypeOK, Return
  <2>3. options' = options
    BY <1>2 DEF Fork
  <2>4. connectState[q] = "pending"
    BY <1>2 DEF Fork, Background
  <2>5. \A x \in Procs \ {q} : Rejected(x)' =>
          \A u \in Threads : Harmless(x, u, pc'[x][u], options'[x][u])
    BY <2>1, <2>3 DEF Away
  <2>6. \A u \in Threads : Harmless(q, u, pc'[q][u], options'[q][u])
    BY <2>2 DEF Harmless
  <2> QED BY <2>1, <2>4, <2>5, <2>6 DEF Away
<1>3. ASSUME NEW p \in Procs, NEW t \in Callers, CallerStep(p, t) PROVE Away' /\ Stays
  <2> t \in Threads /\ t \notin Workers
    BY LifecycleAssumption DEF Callers
  <2>1. CASE SetupAndStartAgent(p, t)
    <3>1. /\ pc[p][t] \in {"booting", "setup"}
          /\ \E there \in {"foreground", "starting"} : Goto(p, t, there)
          /\ options' = options /\ connectState' = connectState
      BY <2>1 DEF SetupAndStartAgent
    <3>2. Rejected(p) => options[p][t] # "force"
      <4>1. CASE t = Main
        BY <4>1 DEF Background
      <4>2. CASE t # Main
        <5>1. pc[p][t] = "setup"
          BY <3>1, <4>2 DEF FewStarters, Callers, Booting
        <5> QED BY <5>1 DEF Away, Harmless
      <4> QED BY <4>1, <4>2
    <3>3. Rejected(p)' =>
            \A there : Harmless(p, t, there, options'[p][t])
      BY <3>1, <3>2 DEF Harmless
    <3> QED BY <3>1, <3>3, MoveAway
  <2>2. CASE ForegroundReply(p, t)
    BY <2>2 DEF ForegroundReply, Background
  <2>3. CASE StartWorkerThread(p, t)
    <3>0. PICK w \in Workers :
           /\ pc' = [pc EXCEPT ![p][w] = "connect", ![p][t] = Return(t)]
           /\ options' = [options EXCEPT ![p][w] = options[p][t], ![p][t] = "plain"]
      BY <2>3 DEF StartWorkerThread
    <3>1. /\ connectState' = connectState /\ pc[p][t] = "starting"
          /\ Return(t) \in {"running", "idle"}
      BY <2>3 DEF StartWorkerThread, Return
    <3>2. SUFFICES ASSUME NEW q \in Procs, Rejected(q), NEW u \in Threads
                   PROVE  Harmless(q, u, pc'[q][u], options'[q][u])
      BY <3>1 DEF Away
    <3>3. Harmless(q, u, pc[q][u], options[q][u])
      BY <3>2 DEF Away
    <3>4. CASE q # p \/ u \notin {w, t}
      <4>1. pc'[q][u] = pc[q][u] /\ options'[q][u] = options[q][u]
        BY <3>0, <3>4 DEF TypeOK
      <4> QED BY <3>3, <4>1
    <3>5. CASE q = p /\ u = w
      <4>1. Harmless(p, t, "starting", options[p][t])
        BY <3>1, <3>2, <3>5 DEF Away
      <4>2. pc'[q][u] = "connect" /\ options'[q][u] = options[p][t]
        BY <3>0, <3>5 DEF TypeOK
      <4>3. options[p][t] # "force"
        BY <4>1 DEF Harmless
      <4> QED BY <3>5, <4>2, <4>3 DEF Harmless
    <3>6. CASE q = p /\ u = t
      <4>1. options'[q][u] = "plain"
        BY <3>0, <3>6 DEF TypeOK
      <4> QED BY <3>6, <4>1 DEF Harmless
    <3> QED BY <3>4, <3>5, <3>6
  <2> QED BY <1>3, <2>1, <2>2, <2>3 DEF CallerStep
<1>4. ASSUME NEW p \in Procs, NEW r \in Requests, RequestStep(p, r) PROVE Away' /\ Stays
  <2> r \in Threads /\ r \notin Workers
    BY LifecycleAssumption DEF Callers
  <2>1. CASE OnTransaction(p, r) \/ \E mode \in AfterForkModes : CallAfterFork(p, r, mode)
    <3>1. /\ Goto(p, r, "checked") /\ connectState' = connectState
          /\ \E m : options' = [options EXCEPT ![p][r] = m]
      BY <2>1 DEF OnTransaction, CallAfterFork
    <3>2. \A q \in Procs : \A u \in Threads :
            q # p \/ u # r => options'[q][u] = options[q][u]
      BY <3>1 DEF TypeOK
    <3>3. Harmless(p, r, "checked", options'[p][r])
      BY DEF Harmless
    <3> QED BY <3>1, <3>2, <3>3, MoveAway
  <2>2. CASE NeedsAfterForkWork(p, r)
    <3>1. /\ connectState' = connectState
          /\ \/ Goto(p, r, "claimed") /\ connectState[p] # "disconnected" /\ options' = options
             \/ Goto(p, r, "idle") /\ options' = [options EXCEPT ![p][r] = "plain"]
      <4>1. CASE MayRestart(p)
        BY <2>2, <4>1, Zenon DEF NeedsAfterForkWork, MayRestart
      <4>2. CASE ~MayRestart(p)
        BY <2>2, <4>2, Zenon DEF NeedsAfterForkWork
      <4> QED BY <4>1, <4>2
    <3>2. \A q \in Procs : \A u \in Threads :
            q # p \/ u # r => options'[q][u] = options[q][u]
      BY <3>1 DEF TypeOK
    <3>3. CASE Goto(p, r, "claimed") /\ connectState[p] # "disconnected"
      BY <3>1, <3>2, <3>3, MoveAway
    <3>4. CASE Goto(p, r, "idle")
      <4>1. Harmless(p, r, "idle", options'[p][r])
        BY DEF Harmless
      <4> QED BY <3>1, <3>2, <3>4, <4>1, MoveAway
    <3> QED BY <3>1, <3>3, <3>4
  <2>3. CASE AfterFork(p, r)
    <3>1. Goto(p, r, "setup") /\ pc[p][r] = "claimed" /\ options' = options
      BY <2>3 DEF AfterFork
    <3>2. CASE options[p][r] = "channel"
      <4>1. InstallPipeService(p)
        BY <2>3, <3>2 DEF AfterFork
      <4>2. Stays
        BY <4>1 DEF InstallPipeService, TypeOK
      <4>3. \A q \in Procs : connectState'[q] = "disconnected" =>
               connectState[q] = "disconnected" \/ q = p
        BY <4>1 DEF InstallPipeService, TypeOK
      <4>4. Starter(p, r)
        BY <3>1 DEF Starter, Starting
      <4>5. Harmless(p, r, "setup", options'[p][r])
        BY <3>1, <3>2 DEF Harmless
      <4> QED BY <3>1, <4>2, <4>3, <4>4, <4>5, MoveAway
    <3>3. CASE options[p][r] # "channel"
      <4>1. connectState' = connectState
        BY <2>3, <3>3 DEF AfterFork
      <4>2. Rejected(p) => Harmless(p, r, "claimed", options[p][r])
        BY <3>1 DEF Away
      <4>3. Rejected(p)' => Harmless(p, r, "setup", options'[p][r])
        BY <3>1, <4>1, <4>2 DEF Harmless
      <4> QED BY <3>1, <4>1, <4>3, MoveAway
    <3> QED BY <3>2, <3>3
  <2> QED BY <1>4, <2>1, <2>2, <2>3 DEF RequestStep
<1>5. ASSUME NEW p \in Procs, NEW w \in Workers, WorkerStep(p, w) PROVE Away' /\ Stays
  <2> w \in Threads /\ w \notin Callers
    BY LifecycleAssumption DEF Callers
  <2>0. /\ options' = options
        /\ Rejected(p) => Harmless(p, w, pc[p][w], options[p][w])
    BY <1>5 DEF Away, WorkerStep, Connect, WakeUp, CheckConnection, EventLoopStops, Harvest,
                ConnectReply, ConnectOk, ConnectRejected, ConnectUnrecoverable, ConnectFails,
                HarvestReply, HarvestDone, ForceRestart, ForceDisconnect
  <2>1. CASE ConnectRejected(p, w) \/ ConnectUnrecoverable(p, w) \/ ForceDisconnect(p, w)
    <3>1. /\ connectState' = [connectState EXCEPT ![p] = "disconnected"]
          /\ pc[p][w] # "free"
          /\ \E there \in {"checkConnection", "ended"} : Goto(p, w, there)
      BY <2>1 DEF ConnectRejected, ConnectUnrecoverable, ForceDisconnect, Disconnect, Contacting
    <3>2. Starter(p, w)
      BY <3>1 DEF Starter
    <3>3. /\ Stays
          /\ \A q \in Procs : connectState'[q] = "disconnected" =>
               connectState[q] = "disconnected" \/ q = p
      BY <3>1 DEF TypeOK
    <3>4. \A there \in {"checkConnection", "ended"} : Harmless(p, w, there, options'[p][w])
      BY DEF Harmless
    <3> QED BY <2>0, <3>1, <3>2, <3>3, <3>4, MoveAway
  <2>2. CASE \/ ConnectOk(p, w) \/ ConnectFails(p, w) \/ Harvest(p, w) \/ HarvestDone(p, w)
             \/ ForceRestart(p, w) \/ EventLoopStops(p, w) \/ WakeUp(p, w)
    <3>1. /\ pc[p][w] \in {"contacting", "loop", "harvesting", "retrying", "restarting"}
          /\ \E there : Goto(p, w, there)
          /\ \/ connectState' = connectState
             \/ connectState' = [connectState EXCEPT ![p] = "connected"]
             \/ connectState' = [connectState EXCEPT ![p] = "pending"]
      BY <2>2 DEF ConnectOk, ConnectFails, Harvest, HarvestDone, ForceRestart, EventLoopStops,
                  WakeUp, Contacting, ConnectSucceeds, HandleForceRestart
    <3>2. ~Rejected(p)
      BY <2>0, <3>1 DEF Harmless
    <3>3. /\ Stays /\ ~Rejected(p)'
          /\ \A q \in Procs : connectState'[q] = "disconnected"
                               => connectState[q] = "disconnected"
      BY <3>1, <3>2 DEF TypeOK
    <3> QED BY <2>0, <3>1, <3>3, MoveAway
  <2>3. CASE Connect(p, w)
    <3>1. /\ connectState' = connectState
          /\ pc[p][w] = "connect"
          /\ \/ Goto(p, w, "contacting") /\ ShouldConnect(p, options[p][w] = "force")
             \/ Goto(p, w, "checkConnection")
      BY <2>3 DEF Connect
    <3>2. Rejected(p) => ~ShouldConnect(p, options[p][w] = "force")
      BY <2>0, <3>1 DEF Harmless, ShouldConnect
    <3>3. Harmless(p, w, "checkConnection", options'[p][w])
      BY DEF Harmless
    <3> QED BY <2>0, <3>1, <3>2, <3>3, MoveAway
  <2>4. CASE CheckConnection(p, w)
    <3>1. /\ connectState' = connectState
          /\ \/ Goto(p, w, "loop") /\ connectState[p] = "connected"
             \/ Goto(p, w, "ended")
      BY <2>4 DEF CheckConnection
    <3>2. Harmless(p, w, "ended", options'[p][w])
      BY DEF Harmless
    <3> QED BY <2>0, <3>1, <3>2, MoveAway
  <2> QED BY <1>5, <2>1, <2>2, <2>3, <2>4 DEF WorkerStep, ConnectReply, HarvestReply
<1> QED BY <1>0, <1>1, <1>2, <1>3, <1>4, <1>5 DEF Next

\* A rejected agent stays rejected, provided nothing connects in the foreground.
LEMMA RejectionIsKept ==
  ASSUME SyncStartup = FALSE
  PROVE  Spec => [][\A p \in Procs : Rejected(p) => connectState'[p] = "disconnected"]_vars
<1>1. Init => Background /\ Away
  BY LifecycleAssumption DEF Init, Background, Away, Harmless, Rejected, Threads, Callers
<1>2. TypeOK /\ Background /\ [Next]_vars => Background'
  BY NextBackground
<1>3. TypeOK /\ FewStarters /\ Background /\ Away /\ [Next]_vars => Away'
  BY NextAway
<1>4. TypeOK /\ FewStarters /\ Background /\ Away /\ [Next]_vars
        => [\A p \in Procs : Rejected(p) => connectState'[p] = "disconnected"]_vars
  BY NextAway
<1> QED BY <1>1, <1>2, <1>3, <1>4, TypeCorrect, FewStartersInvariant, PTL DEF Spec

\* An agent the collector has turned away is not connected again, in its own
\* process or in one it forks, by any thread or after_fork.
THEOREM RejectedStaysAwayHolds ==
  ASSUME EarlyRequests = FALSE, SyncStartup = FALSE
  PROVE  Spec => RejectedStaysAway
<1>1. [\A p \in Procs : Rejected(p) => connectState'[p] = "disconnected"]_vars
        => [\A p \in Procs : connectState[p] = "disconnected"
                              => connectState'[p] = "disconnected"]_vars
  BY DEF Rejected, Alone
<1> QED BY <1>1, RejectionIsKept, PTL DEF RejectedStaysAway

\* In a child that holds also when transactions may run while the agent boots, for a
\* child's Main never boots: the second thread that could connect is not there.
RejectedChildStaysAway ==
  [][\A p \in Procs \ {Root} : connectState[p] = "disconnected"
                                => connectState'[p] = "disconnected"]_vars

THEOREM RejectedChildStaysAwayHolds ==
  ASSUME SyncStartup = FALSE
  PROVE  Spec => RejectedChildStaysAway
<1>1. [\A p \in Procs : Rejected(p) => connectState'[p] = "disconnected"]_vars
        => [\A p \in Procs \ {Root} : connectState[p] = "disconnected"
                                       => connectState'[p] = "disconnected"]_vars
  BY DEF Rejected, Alone
<1> QED BY <1>1, RejectionIsKept, PTL DEF RejectedChildStaysAway
=============================================================================
