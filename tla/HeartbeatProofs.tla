--------------------------- MODULE HeartbeatProofs ---------------------------
(***************************************************************************)
(* WorkersTracked of HeartbeatService, for either service and any number   *)
(* of workers.  run() and the ThreadManager know nothing of each other:    *)
(* the invariant says where the one thread that drives both is in each.    *)
(* Then the parts beside it: the HealthMonitor to which services report,   *)
(* the parser of /proc/meminfo, and what the two configurations make of    *)
(* one file.                                                               *)
(***************************************************************************)
EXTENDS MCHeartbeatService, ServiceApplicationProofs, Integers, SequenceTheorems,
        FiniteSetTheorems

\* The places of run() before any worker is started.
BeforeStart == {"config", "install", "initialize", "initialized"}

Started == pc \notin BeforeStart /\ runs = 1

\* A running worker is in threads_ or in the vector of the joinAll() in progress.
WorkersHeld ==
  \A w \in T!Running : w \in T!Elements(threads) \/ w \in T!Elements(joining[Main])

\* The manager joins where the service says it does, and nothing starts meanwhile.
JoinsInside ==
  /\ inJoin \subseteq {Main}
  /\ inJoin # {} => threads = <<>>
  /\ Main \notin inJoin => joining[Main] = <<>>
  /\ life = "alive" => (Main \in inJoin <=> body = "joining")
  /\ life = "stopping" => inJoin = {}
  /\ life = "joining" => Main \in inJoin
  /\ life # "alive" => pc \in {"exited", "killed"} /\ runs = 1
  /\ body # "enter" => pc \in {"stop", "deinitialize", "cleanup", "killed"}
  /\ body # "enter" /\ pc \in {"deinitialize", "cleanup"} => kind = "storage"
  /\ body = "joined" => T!Running = {}

\* What each place of run() says of the workers.
WorkersPlaced ==
  /\ runs = 0 => pc \in {"exited", "killed"}
  /\ ~Started => started = 0 /\ T!Running = {}
  /\ pc = "start" => state = "Starting"
  /\ pc = "cleanup" => exitCode = 5 \/ (exitCode = 4 /\ T!Running = {})
  /\ pc = "deinitialize" /\ kind = "sample" => T!Running = {}

ProcessInv ==
  /\ ProcessTypeOK
  /\ WorkersHeld
  /\ JoinsInside
  /\ WorkersPlaced
  /\ WorkersGoneWhenStopped
  /\ WorkersAccountedFor
-----------------------------------------------------------------------------
LEMMA InitHolds == ProcessInit => ProcessInv
<1> SUFFICES ASSUME ProcessInit PROVE ProcessInv
  OBVIOUS
<1>1. TypeOK
  BY InitEstablishes DEF ProcessInit, IInv
<1>2. T!Running = {}
  BY DEF ProcessInit, T!Init, T!Running
<1>3. ProcessTypeOK
  BY <1>1, HeartbeatsAssumption
  DEF ProcessTypeOK, ProcessInit, T!TypeOK, T!Init, T!Caller
<1>. QED
  BY <1>2, <1>3
  DEF ProcessInv, ProcessInit, Init, T!Init, T!Caller, WorkersHeld, JoinsInside,
      WorkersPlaced, Started, WorkersGoneWhenStopped, WorkersAccountedFor

\* The steps of run() and its environment, which leave the manager alone.
RunMoves ==
  \/ RunsOutsideService
  \/ ServiceInitialize
  \/ StartThrows
  \/ ServiceStart
  \/ ServiceStop
  \/ ServiceDeinitialize
  \/ EnvironmentActs

LEMMA RunMovesAreSteps == RunMoves => [Next]_vars
  BY DEF RunMoves, RunsOutsideService, ServiceInitialize, StartThrows, ServiceStart,
         ServiceStop, ServiceDeinitialize, EnvironmentActs, Next, RunStep,
         ServiceCallReturns, Result

LEMMA RunMovesPreserve ==
  ASSUME ProcessInv, RunMoves
  PROVE  ProcessInv'
<1>1. UNCHANGED threadVars
  BY DEF RunMoves, RunsOutsideService, ServiceInitialize, StartThrows, ServiceStart,
         ServiceStop, ServiceDeinitialize, EnvironmentActs
<1>2. /\ T!Running' = T!Running
      /\ UNCHANGED <<threads, joining, inJoin, life>>
  BY <1>1 DEF threadVars, T!Running
<1>3. WorkersHeld'
  BY <1>2 DEF ProcessInv, WorkersHeld, T!Elements
<1>4. T!TypeOK'
  BY <1>1 DEF threadVars, ProcessInv, ProcessTypeOK, T!TypeOK, T!Running, T!Caller
<1>5. TypeOK'
  BY RunMovesAreSteps, TypePreserved DEF ProcessInv, ProcessTypeOK
<1>6. /\ runs \in {0, 1}
      /\ Len(Heartbeats) \in Nat
  BY OneRunAssumption, HeartbeatsAssumption DEF ProcessInv, ProcessTypeOK, TypeOK
<1>. DEFINE Others == JoinsInside /\ WorkersPlaced /\ WorkersGoneWhenStopped /\ WorkersAccountedFor
            Service == /\ kind \in {"sample", "storage"}
                       /\ workerCount \in 0 .. Len(Heartbeats)
                       /\ started \in 0 .. workerCount
                       /\ body \in {"enter", "requested", "joining", "joined"}
<1>a. Service
  BY DEF ProcessInv, ProcessTypeOK
<1>b. Others
  BY DEF ProcessInv
<1> USE DEF JoinsInside, WorkersPlaced, WorkersGoneWhenStopped, WorkersAccountedFor, Started,
            BeforeStart
<1>7. CASE RunsOutsideService
  <2>1. Service'
    BY <1>a, <1>7 DEF RunsOutsideService, serviceVars
  <2>2. Others'
    BY <1>2, <1>6, <1>b, <1>7, OneRunAssumption
    DEF RunsOutsideService, serviceVars, BeginRun, LoadConfiguration, InstallHandlers,
        BeginStart, CheckShutdown, WakeUp, FailWith
  <2>. QED BY <1>3, <1>4, <1>5, <2>1, <2>2 DEF ProcessInv, ProcessTypeOK
<1>8. CASE ServiceInitialize
  <2>1. Service'
    BY <1>a, <1>b, <1>6, <1>8 DEF ServiceInitialize, InitializeReturns
  <2>2. Others'
    BY <1>2, <1>6, <1>b, <1>8 DEF ServiceInitialize, InitializeReturns, CleanUpThenFail
  <2>. QED BY <1>3, <1>4, <1>5, <2>1, <2>2 DEF ProcessInv, ProcessTypeOK
<1>9. CASE StartThrows \/ ServiceStart
  <2>1. Service'
    BY <1>a, <1>9 DEF StartThrows, ServiceStart, serviceVars
  <2>2. Others'
    BY <1>2, <1>6, <1>b, <1>9
    DEF StartThrows, ServiceStart, serviceVars, StartReturns, CleanUpThenFail
  <2>. QED BY <1>3, <1>4, <1>5, <2>1, <2>2 DEF ProcessInv, ProcessTypeOK
<1>10. CASE ServiceStop
  <2>1. Service'
    BY <1>a, <1>10 DEF ServiceStop
  <2>2. Others'
    BY <1>a, <1>2, <1>6, <1>b, <1>10 DEF ServiceStop, StopReturns
  <2>. QED BY <1>3, <1>4, <1>5, <2>1, <2>2 DEF ProcessInv, ProcessTypeOK
<1>11. CASE ServiceDeinitialize
  <2>1. Service'
    BY <1>a, <1>11 DEF ServiceDeinitialize
  <2>2. Others'
    BY <1>a, <1>2, <1>6, <1>b, <1>11
    DEF ServiceDeinitialize, DeinitializeReturns, CleanupReturns, FailWith
  <2>. QED BY <1>3, <1>4, <1>5, <2>1, <2>2 DEF ProcessInv, ProcessTypeOK
<1>12. CASE EnvironmentActs
  <2>1. Service'
    BY <1>a, <1>12 DEF EnvironmentActs, serviceVars
  <2>2. Others'
    BY <1>2, <1>6, <1>b, <1>12
    DEF EnvironmentActs, serviceVars, Environment, SignalArrives, SignalKills,
        ProgramRequestsShutdown
  <2>. QED BY <1>3, <1>4, <1>5, <2>1, <2>2 DEF ProcessInv, ProcessTypeOK
<1>. QED BY <1>7, <1>8, <1>9, <1>10, <1>11, <1>12 DEF RunMoves
-----------------------------------------------------------------------------
LEMMA HeldAfterAppend ==
  ASSUME NEW S, NEW s \in Seq(S), NEW e \in S
  PROVE  T!Elements(s) \cup {e} \subseteq T!Elements(Append(s, e))
<1>1. \A i \in 1 .. Len(s) : i \in 1 .. Len(Append(s, e)) /\ Append(s, e)[i] = s[i]
  OBVIOUS
<1>2. Len(s) + 1 \in 1 .. Len(Append(s, e)) /\ Append(s, e)[Len(s) + 1] = e
  OBVIOUS
<1>. QED BY <1>1, <1>2 DEF T!Elements

LEMMA HeldAfterTail ==
  ASSUME NEW S, NEW s \in Seq(S), s # <<>>
  PROVE  T!Elements(s) \subseteq T!Elements(Tail(s)) \cup {Head(s)}
<1>1. \A i \in 1 .. Len(s) : i = 1 \/ (/\ i - 1 \in 1 .. Len(Tail(s))
                                       /\ Tail(s)[i - 1] = s[i])
  OBVIOUS
<1>2. Head(s) = s[1]
  OBVIOUS
<1>. QED BY <1>1, <1>2 DEF T!Elements

LEMMA NoElements == T!Elements(<<>>) = {}
  BY DEF T!Elements

\* A step of the manager leaves run() and the configuration alone.
LEMMA Frame ==
  ASSUME ProcessInv, UNCHANGED <<vars, kind, workerCount>>, T!TypeOK',
         started' \in 0 .. workerCount, body' \in {"enter", "requested", "joining", "joined"}
  PROVE  ProcessTypeOK'
<1>1. TypeOK'
  BY TypePreserved DEF ProcessInv, ProcessTypeOK
<1>. QED BY <1>1 DEF ProcessInv, ProcessTypeOK

\* start() starts the next worker: it is in threads_, and nobody joins.
LEMMA StartPreserves ==
  ASSUME ProcessInv, StartWorker
  PROVE  ProcessInv'
<1>. DEFINE w == Heartbeats[started + 1]
<1>1. /\ started \in Nat /\ workerCount \in Nat /\ Len(Heartbeats) \in Nat
      /\ workerCount <= Len(Heartbeats) /\ started < workerCount
  BY HeartbeatsAssumption DEF StartWorker, ProcessInv, ProcessTypeOK
<1>2. w \in HeartbeatNames
  <2>1. started + 1 \in 1 .. Len(Heartbeats)
    BY <1>1
  <2>. QED BY <2>1 DEF HeartbeatNames
<1>3. /\ threads' = Append(threads, w)
      /\ status' = [status EXCEPT ![w] = "running"]
      /\ UNCHANGED <<stopRequested, joining, inJoin, awaited, asked, life>>
      /\ Main \notin inJoin /\ life = "alive"
  BY DEF StartWorker, T!StartThread, T!MayCall, ProcessInv, ProcessTypeOK, T!Running, Main,
         HeartbeatNames
<1>4. /\ UNCHANGED <<vars, kind, workerCount, body>>
      /\ UNCHANGED <<pc, runs, state, exitCode>>
      /\ started' = started + 1 /\ pc = "start"
  BY DEF StartWorker, vars, appVars
<1>. HIDE DEF w
<1>5. T!TypeOK'
  BY <1>2, <1>3 DEF ProcessInv, ProcessTypeOK, T!TypeOK, T!Caller
<1>6. ProcessTypeOK'
  <2>1. /\ started' \in 0 .. workerCount
        /\ body' \in {"enter", "requested", "joining", "joined"}
    BY <1>1, <1>4 DEF ProcessInv, ProcessTypeOK
  <2>. QED BY <1>4, <1>5, <2>1, Frame
<1>7. WorkersHeld'
  <2>1. T!Running' \subseteq T!Running \cup {w}
    BY <1>3 DEF T!Running, ProcessInv, ProcessTypeOK, T!TypeOK
  <2>2. T!Elements(threads) \cup {w} \subseteq T!Elements(threads')
    BY <1>2, <1>3, HeldAfterAppend DEF ProcessInv, ProcessTypeOK, T!TypeOK
  <2>3. T!Elements(joining'[Main]) = T!Elements(joining[Main])
    BY <1>3
  <2>. QED BY <2>1, <2>2, <2>3 DEF ProcessInv, WorkersHeld
<1>8. JoinsInside'
  BY <1>3, <1>4 DEF ProcessInv, JoinsInside
<1>9. WorkersPlaced'
  <2>1. runs = 1
    BY <1>4, OneRunAssumption DEF ProcessInv, ProcessTypeOK, TypeOK, WorkersPlaced
  <2>. QED BY <1>4, <2>1 DEF ProcessInv, WorkersPlaced, Started, BeforeStart
<1>10. WorkersGoneWhenStopped' /\ WorkersAccountedFor'
  BY <1>3, <1>4 DEF ProcessInv, WorkersPlaced, WorkersGoneWhenStopped, WorkersAccountedFor
<1>. QED BY <1>6, <1>7, <1>8, <1>9, <1>10 DEF ProcessInv

\* No other step starts a worker; what it leaves to be shown.
LEMMA FewerPreserve ==
  ASSUME ProcessInv, UNCHANGED <<vars, kind, workerCount, started>>,
         T!TypeOK', body' \in {"enter", "requested", "joining", "joined"},
         WorkersHeld', JoinsInside',
         T!Running' \subseteq T!Running,
         life' = "destroyed" => T!Running' = {}
  PROVE  ProcessInv'
<1>1. ProcessTypeOK'
  BY Frame DEF ProcessInv, ProcessTypeOK
<1>2. UNCHANGED <<pc, runs, state, exitCode>>
  BY DEF vars, appVars
<1>3. WorkersPlaced'
  BY <1>2 DEF ProcessInv, WorkersPlaced, Started, BeforeStart
<1>4. WorkersGoneWhenStopped' /\ WorkersAccountedFor'
  BY <1>2 DEF ProcessInv, WorkersGoneWhenStopped, WorkersAccountedFor
<1>. QED BY <1>1, <1>3, <1>4 DEF ProcessInv
-----------------------------------------------------------------------------
\* Raised flags move no thread.
LEMMA FlagsPreserve ==
  ASSUME ProcessInv, UNCHANGED <<vars, kind, workerCount, started>>, T!RaiseStopFlags,
         UNCHANGED <<threads, status, joining, inJoin, awaited>>,
         \/ /\ life' = life /\ Main \notin inJoin
            /\ pc = "stop" /\ body' = "requested"
         \/ /\ pc = "exited" /\ runs = MaxRuns
            /\ life = "alive" /\ life' = "stopping" /\ UNCHANGED body
  PROVE  ProcessInv'
<1>1. T!TypeOK'
  BY DEF ProcessInv, ProcessTypeOK, T!TypeOK, T!RaiseStopFlags, T!Running, T!Caller
<1>2. T!Running' = T!Running
  BY DEF T!Running
<1>3. WorkersHeld'
  BY <1>2 DEF ProcessInv, WorkersHeld
<1>4. JoinsInside'
  BY <1>2, OneRunAssumption DEF ProcessInv, JoinsInside, vars, appVars
<1>. QED
  BY <1>1, <1>2, <1>3, <1>4, FewerPreserve
  DEF ProcessInv, ProcessTypeOK, WorkersGoneWhenStopped

\* The whole of threads_ is in the local vector of the call, which was empty.
LEMMA TakePreserves ==
  ASSUME ProcessInv, UNCHANGED <<vars, kind, workerCount, started>>, T!TakeThreads(Main),
         Main \notin inJoin,
         \/ /\ life' = life /\ life = "alive" /\ body' = "joining"
            /\ pc \in {"stop", "deinitialize", "cleanup"}
            /\ pc \in {"deinitialize", "cleanup"} => kind = "storage"
         \/ /\ pc = "exited" /\ life = "stopping" /\ life' = "joining" /\ UNCHANGED body
  PROVE  ProcessInv'
<1>1. /\ threads' = <<>> /\ inJoin' = {Main}
      /\ T!Running' = T!Running
      /\ Main \in T!Caller
  BY DEF T!TakeThreads, T!Running, T!Caller, ProcessInv, JoinsInside
<1>2. joining'[Main] = threads
  BY <1>1 DEF T!TakeThreads, ProcessInv, ProcessTypeOK, T!TypeOK
<1>3. T!TypeOK'
  BY <1>1 DEF ProcessInv, ProcessTypeOK, T!TypeOK, T!TakeThreads, T!Running, T!Caller
<1>4. WorkersHeld'
  <2>1. T!Elements(joining[Main]) = {}
    BY NoElements DEF ProcessInv, JoinsInside
  <2>. QED BY <1>1, <1>2, <2>1 DEF ProcessInv, WorkersHeld
<1>5. JoinsInside'
  BY <1>1 DEF ProcessInv, JoinsInside, vars, appVars
<1>. QED
  BY <1>1, <1>3, <1>4, <1>5, FewerPreserve
  DEF ProcessInv, ProcessTypeOK, WorkersGoneWhenStopped

\* What leaves the vector has exited: a worker is never the thread in run().
LEMMA JoinPreserves ==
  ASSUME ProcessInv, UNCHANGED <<vars, kind, workerCount, started, body>>, T!JoinNext(Main)
  PROVE  ProcessInv'
<1>1. /\ Main \in inJoin /\ Main \in T!Caller
      /\ joining[Main] \in Seq(HeartbeatNames) \ {<<>>}
      /\ joining' = [joining EXCEPT ![Main] = Tail(@)]
      /\ UNCHANGED <<threads, status, stopRequested, inJoin, awaited, asked, life>>
      /\ T!Running' = T!Running
  BY DEF T!JoinNext, T!Running, T!Caller, ProcessInv, ProcessTypeOK, T!TypeOK
<1>2. Head(joining[Main]) \notin T!Running
  <2>1. Head(joining[Main]) \in HeartbeatNames
    BY <1>1
  <2>2. Main \notin HeartbeatNames
    BY HeartbeatsAssumption DEF Main, HeartbeatNames
  <2>. QED BY <2>1, <2>2 DEF T!JoinNext, T!Running
<1>3. joining'[Main] = Tail(joining[Main]) /\ Tail(joining[Main]) \in Seq(HeartbeatNames)
  BY <1>1 DEF ProcessInv, ProcessTypeOK, T!TypeOK
<1>4. T!TypeOK'
  BY <1>1, <1>3 DEF ProcessInv, ProcessTypeOK, T!TypeOK, T!Caller
<1>5. WorkersHeld'
  BY <1>1, <1>2, <1>3, HeldAfterTail DEF ProcessInv, WorkersHeld
<1>6. JoinsInside'
  BY <1>1 DEF ProcessInv, JoinsInside, vars, appVars
<1>. QED
  BY <1>1, <1>4, <1>5, <1>6, FewerPreserve
  DEF ProcessInv, ProcessTypeOK, WorkersGoneWhenStopped

\* Who leaves with an empty vector leaves no running worker behind.
LEMMA LeavePreserves ==
  ASSUME ProcessInv, UNCHANGED <<vars, kind, workerCount, started>>,
         Main \in inJoin, joining[Main] = <<>>, inJoin' = inJoin \ {Main},
         UNCHANGED <<threads, status, stopRequested, joining, awaited, asked>>,
         \/ life' = life /\ life = "alive" /\ body' = "joined"
         \/ life = "joining" /\ life' = "destroyed" /\ UNCHANGED body
  PROVE  ProcessInv'
<1>1. T!Running' = T!Running /\ threads = <<>> /\ inJoin' = {}
  BY DEF T!Running, ProcessInv, JoinsInside
<1>2. T!Running = {}
  BY <1>1, NoElements DEF ProcessInv, WorkersHeld
<1>3. T!TypeOK'
  BY <1>1 DEF ProcessInv, ProcessTypeOK, T!TypeOK, T!Running, T!Caller
<1>4. WorkersHeld'
  BY <1>1, <1>2 DEF WorkersHeld
<1>5. JoinsInside'
  BY <1>1, <1>2 DEF ProcessInv, JoinsInside, vars, appVars
<1>. QED
  BY <1>1, <1>2, <1>3, <1>4, <1>5, FewerPreserve DEF ProcessInv, ProcessTypeOK

\* A heartbeat loop that ends leaves every vector as it is.
LEMMA ExitPreserves ==
  ASSUME ProcessInv, NEW w \in HeartbeatNames, HeartbeatEnds(w)
  PROVE  ProcessInv'
<1>1. /\ status' = [status EXCEPT ![w] = "exited"]
      /\ UNCHANGED <<threads, stopRequested, joining, inJoin, awaited, asked, life>>
      /\ UNCHANGED <<vars, kind, workerCount, started, body>>
  BY DEF HeartbeatEnds, T!WorkerExits, serviceVars
<1>2. T!Running' \subseteq T!Running
  BY <1>1 DEF T!Running, ProcessInv, ProcessTypeOK, T!TypeOK
<1>3. T!TypeOK'
  BY <1>1 DEF ProcessInv, ProcessTypeOK, T!TypeOK, T!Caller
<1>4. WorkersHeld'
  BY <1>1, <1>2 DEF ProcessInv, WorkersHeld
<1>5. JoinsInside'
  BY <1>1, <1>2 DEF ProcessInv, JoinsInside, vars, appVars
<1>. QED
  BY <1>1, <1>2, <1>3, <1>4, <1>5, FewerPreserve
  DEF ProcessInv, ProcessTypeOK, WorkersGoneWhenStopped
-----------------------------------------------------------------------------
LEMMA ProcessStep ==
  ASSUME ProcessInv, [ProcessNext]_processVars
  PROVE  ProcessInv'
<1>1. CASE RunMoves
  BY <1>1, RunMovesPreserve
<1>2. CASE StartWorker
  BY <1>2, StartPreserves
<1>3. CASE StopRequestsStop
  BY <1>3, FlagsPreserve DEF StopRequestsStop, T!RequestStop, T!MayCall, T!Running,
     Main, HeartbeatNames
<1>4. CASE SampleStopJoins \/ StorageDeinitializeJoins
  <2>1. /\ JoinWorkers
        /\ \/ pc = "stop"
           \/ pc \in {"deinitialize", "cleanup"} /\ kind = "storage"
    BY <1>4 DEF SampleStopJoins, StorageDeinitializeJoins
  <2>2. life = "alive"
    BY <2>1 DEF ProcessInv, JoinsInside
  <2>3. CASE T!JoinAll(Main) /\ body' = "joining"
    BY <2>1, <2>2, <2>3, TakePreserves DEF JoinWorkers, T!JoinAll, T!MayCall
  <2>4. CASE T!JoinNext(Main) /\ UNCHANGED body
    BY <2>1, <2>4, JoinPreserves DEF JoinWorkers
  <2>5. CASE T!JoinReturns(Main) /\ body' = "joined"
    <3>1. pc \in {"stop", "deinitialize", "cleanup"}
      BY <2>1
    <3>. QED BY <2>1, <2>2, <2>5, <3>1, LeavePreserves DEF JoinWorkers, T!JoinReturns
  <2>. QED BY <2>1, <2>3, <2>4, <2>5 DEF JoinWorkers
<1>5. CASE DestroyService
  <2>1. pc = "exited" /\ runs = MaxRuns /\ UNCHANGED <<vars, kind, workerCount, started, body>>
    BY <1>5 DEF DestroyService, serviceVars
  <2>2. CASE T!DestructorRequestsStop
    BY <2>1, <2>2, FlagsPreserve DEF T!DestructorRequestsStop
  <2>3. CASE T!DestructorJoins
    BY <2>1, <2>3, TakePreserves DEF T!DestructorJoins, ProcessInv, JoinsInside
  <2>4. CASE T!JoinNext(Main)
    BY <2>1, <2>4, JoinPreserves
  <2>5. CASE T!DestructorReturns
    BY <2>1, <2>5, LeavePreserves DEF T!DestructorReturns, ProcessInv, JoinsInside
  <2>. QED BY <1>5, <2>2, <2>3, <2>4, <2>5 DEF DestroyService
<1>6. ASSUME NEW w \in HeartbeatNames, HeartbeatEnds(w)
      PROVE  ProcessInv'
  BY <1>6, ExitPreserves
<1>7. CASE UNCHANGED processVars
  BY <1>7
  DEF processVars, vars, appVars, signalVars, threadVars, serviceVars, ProcessInv,
      ProcessTypeOK, TypeOK, SignalTypeOK, T!TypeOK, T!Running, T!Caller, T!Elements,
      WorkersHeld, JoinsInside, WorkersPlaced, Started, WorkersGoneWhenStopped,
      WorkersAccountedFor
<1>. QED
  BY <1>1, <1>2, <1>3, <1>4, <1>5, <1>6, <1>7 DEF ProcessNext, MainStep, RunMoves

\* In either service, with any number of workers: none runs when the state is
\* Stopped or main() has returned, and one that runs after run() is reported.
THEOREM NoWorkerForgotten == ProcessSpec => []WorkersTracked
<1>1. ProcessInv => WorkersTracked
  BY DEF ProcessInv, WorkersTracked
<1>. QED BY <1>1, InitHolds, ProcessStep, PTL DEF ProcessSpec
-----------------------------------------------------------------------------
(* The monitor.  A snapshot is of the moment at which collect() copied the *)
(* reports and the paths: what has been read since is from the copies.     *)

Reports == [name : Name, state : State, healthy : BOOLEAN]
Moments == [services : Seq(Reports), root : Root, disk : Disk]
Snapshots == [services : Seq(Reports), cpu : Root \cup {None}, memory : Root \cup {None},
              disk : Disk \cup {None}]

HealthTypes ==
  /\ services \in Seq(Reports) /\ procRoot \in Root /\ diskPath \in Disk
  /\ step \in [Collector -> {"idle", "called", "cpu", "memory", "disk", "done"}]
  /\ snapshot \in [Collector -> Snapshots]
  /\ copied \in [Collector -> [root : Root, disk : Disk]]
  /\ errors \in [Collector -> SUBSET Health!Parts] /\ stale \in [Collector -> SUBSET Health!Parts]
  /\ during \in [Collector -> SUBSET Moments]
  /\ latest \in [Name -> State \cup {None}]
  /\ changes \in 0 .. MaxChanges

Listed ==
  /\ \A n \in Name : latest[n] # None => \E i \in DOMAIN services : services[i].name = n
  /\ \A i \in DOMAIN services : services[i] = Health!Health(services[i].name, latest[services[i].name])
  /\ \A i, j \in DOMAIN services : services[i].name = services[j].name => i = j

\* What collector c has got to, and the moment its copies are of.
Done(c) == CASE step[c] = "memory" -> {"cpu"}
             [] step[c] = "disk" -> {"cpu", "memory"}
             [] step[c] = "done" -> {"cpu", "memory", "disk"}
             [] OTHER -> {}
Copied(c) ==
  \E m \in during[c] : /\ snapshot[c].services = m.services
                       /\ copied[c].root = m.root /\ copied[c].disk = m.disk

Collecting(c) ==
  /\ step[c] # "idle" => errors[c] = stale[c] \cup (Health!Missing(snapshot[c]) \cap Done(c))
  /\ step[c] = "called" => Health!moment \in during[c]
  /\ step[c] \notin {"idle", "called"} => Copied(c)
  /\ snapshot[c].cpu \in (IF "cpu" \in Done(c) THEN {copied[c].root, None} ELSE {None})
  /\ snapshot[c].memory \in (IF "memory" \in Done(c) THEN {copied[c].root, None} ELSE {None})
  /\ snapshot[c].disk \in (IF "disk" \in Done(c) THEN {copied[c].disk, None} ELSE {None})

HealthInv == HealthTypes /\ Listed /\ \A c \in Collector : Collecting(c)

Places == /\ InitialRoot \in Root /\ InitialDisk \in Disk /\ None \notin Root \cup Disk \cup State
          /\ MaxChanges \in Nat

LEMMA InitHealth == Places /\ Health!Init => HealthInv
<1>. SUFFICES ASSUME Places, Health!Init PROVE HealthInv
  OBVIOUS
<1>. USE DEF Health!Init, Places
<1>1. HealthTypes
  <2>1. <<>> \in Seq(Reports)
    OBVIOUS
  <2>2. Health!EmptySnapshot \in Snapshots
    BY <2>1 DEF Snapshots, Health!EmptySnapshot
  <2>. QED BY <2>1, <2>2 DEF HealthTypes
<1>2. Listed
  BY DEF Listed
<1>3. ASSUME NEW c \in Collector PROVE Collecting(c)
  BY DEF Collecting, Done, Health!EmptySnapshot
<1>. QED BY <1>1, <1>2, <1>3 DEF HealthInv

(* The monitor changes: a collector that has not copied it yet may see it  *)
(* now, the others have their copies.                                      *)
LEMMA ChangeKeeps ==
  ASSUME HealthInv, Places, Health!Change,
         services' \in Seq(Reports), procRoot' \in Root, diskPath' \in Disk,
         latest' \in [Name -> State \cup {None}], Listed'
  PROVE  HealthInv'
<1>. USE DEF Health!Change, Health!collecting
<1>1. Health!moment' \in Moments
  BY DEF Health!moment, Moments
<1>2. during' \in [Collector -> SUBSET Moments]
  BY <1>1 DEF HealthInv, HealthTypes
<1>3. changes' \in 0 .. MaxChanges
  BY DEF HealthInv, HealthTypes, Places
<1>4. HealthTypes'
  BY <1>2, <1>3 DEF HealthInv, HealthTypes
<1>5. ASSUME NEW c \in Collector PROVE Collecting(c)'
  <2>1. during[c] \subseteq during'[c] /\ (step[c] = "called" => Health!moment' \in during'[c])
    OBVIOUS
  <2>2. Collecting(c)
    BY DEF HealthInv
  <2>3. Copied(c) => Copied(c)'
    BY <2>1 DEF Copied
  <2>. QED BY <2>1, <2>2, <2>3 DEF Collecting, Done
<1>. QED BY <1>4, <1>5 DEF HealthInv

LEMMA ReportKeeps ==
  ASSUME HealthInv, Places, Health!ReportService
  PROVE  HealthInv'
<1>1. PICK name \in Name, reported \in State :
        /\ services' = Health!Updated(Health!Health(name, reported))
        /\ latest' = [latest EXCEPT ![name] = reported]
        /\ procRoot' = procRoot /\ diskPath' = diskPath /\ Health!Change
  BY DEF Health!ReportService
<1>2. PICK r : r = Health!Health(name, reported)
  OBVIOUS
<1>3. r \in Reports /\ r.name = name /\ r = Health!Health(name, reported)
  BY <1>2 DEF Reports, Health!Health, Health!IsHealthy
<1>4. PICK places : places = {i \in DOMAIN services : services[i].name = name}
  OBVIOUS
<1>5. PICK n : n = Len(services)
  OBVIOUS
<1>6. services \in Seq(Reports) /\ n \in Nat /\ DOMAIN services = 1 .. n
  BY <1>5 DEF HealthInv, HealthTypes
<1>7. latest' \in [Name -> State \cup {None}] /\ latest'[name] = reported
      /\ \A m \in Name : m # name => latest'[m] = latest[m]
  BY <1>1 DEF HealthInv, HealthTypes
<1>8. \A i \in 1 .. n : services[i].name \in Name
  <2>1. \A i \in 1 .. n : services[i] \in Reports
    BY <1>6
  <2>. QED BY <2>1 DEF Reports
<1>9. ASSUME places = {} PROVE services' \in Seq(Reports) /\ Listed'
  <2>1. services' = Append(services, r)
    BY <1>1, <1>2, <1>3, <1>4, <1>9 DEF Health!Updated
  <2>2. services' \in Seq(Reports) /\ DOMAIN services' = 1 .. n + 1
        /\ services'[n + 1] = r /\ \A i \in 1 .. n : services'[i] = services[i]
    BY <1>3, <1>5, <1>6, <2>1
  <2>3. \A i \in 1 .. n : services[i].name # name /\ services[i].name \in Name
    BY <1>4, <1>6, <1>9, <1>8
  <2>4. ASSUME NEW m \in Name, latest'[m] # None
        PROVE  \E i \in DOMAIN services' : services'[i].name = m
    <3>1. CASE m = name
      BY <1>3, <1>6, <2>2, <3>1
    <3>2. CASE m # name
      BY <1>6, <1>7, <2>2, <2>4, <3>2 DEF HealthInv, Listed
    <3>. QED BY <3>1, <3>2
  <2>5. ASSUME NEW i \in DOMAIN services'
        PROVE  services'[i] = Health!Health(services'[i].name, latest'[services'[i].name])
    <3>1. CASE i = n + 1
      BY <1>3, <1>7, <2>2, <3>1
    <3>2. CASE i \in 1 .. n
      BY <1>6, <1>7, <2>2, <2>3, <3>2 DEF HealthInv, Listed
    <3>. QED BY <1>6, <2>2, <3>1, <3>2
  <2>6. ASSUME NEW i \in DOMAIN services', NEW j \in DOMAIN services',
               services'[i].name = services'[j].name
        PROVE  i = j
    BY <1>3, <1>6, <2>2, <2>3, <2>6 DEF HealthInv, Listed
  <2>. QED BY <2>2, <2>4, <2>5, <2>6 DEF Listed
<1>10. ASSUME places # {} PROVE services' \in Seq(Reports) /\ Listed'
  <2>1. PICK k \in 1 .. n : services[k].name = name
    BY <1>4, <1>6, <1>10
  <2>2. places = {k}
    BY <1>4, <1>6, <2>1 DEF HealthInv, Listed
  <2>3. Health!Min(places) = k
    <3>1. k \in Int
      BY <1>6
    <3>. QED BY <2>2, <3>1 DEF Health!Min
  <2>4. services' = [services EXCEPT ![k] = r]
    BY <1>1, <1>2, <1>3, <1>4, <1>10, <2>3 DEF Health!Updated
  <2>5. services' \in Seq(Reports) /\ DOMAIN services' = 1 .. n
        /\ services'[k] = r /\ \A i \in 1 .. n : i # k => services'[i] = services[i]
    BY <1>3, <1>5, <1>6, <2>4
  <2>6. \A i \in 1 .. n : services'[i].name = services[i].name
    BY <1>3, <2>1, <2>5
  <2>7. \A i \in 1 .. n : i # k => services[i].name # name /\ services[i].name \in Name
    BY <1>4, <1>6, <1>8, <2>2
  <2>8. ASSUME NEW m \in Name, latest'[m] # None
        PROVE  \E i \in DOMAIN services' : services'[i].name = m
    <3>1. CASE m = name
      BY <1>3, <2>5, <3>1
    <3>2. CASE m # name
      BY <1>6, <1>7, <2>5, <2>6, <2>8, <3>2 DEF HealthInv, Listed
    <3>. QED BY <3>1, <3>2
  <2>9. ASSUME NEW i \in DOMAIN services'
        PROVE  services'[i] = Health!Health(services'[i].name, latest'[services'[i].name])
    <3>1. CASE i = k
      BY <1>3, <1>7, <2>5, <3>1
    <3>2. CASE i # k
      BY <1>6, <1>7, <2>5, <2>7, <3>2 DEF HealthInv, Listed
    <3>. QED BY <3>1, <3>2
  <2>10. \A i, j \in DOMAIN services' : services'[i].name = services'[j].name => i = j
    BY <1>6, <2>5, <2>6 DEF HealthInv, Listed
  <2>. QED BY <2>5, <2>8, <2>9, <2>10 DEF Listed
<1>. QED BY <1>1, <1>7, <1>9, <1>10, ChangeKeeps DEF HealthInv, HealthTypes

(* A part is read, or its error noted.                                     *)
LEMMA OthersCollect ==
  ASSUME NEW c, Collecting(c), UNCHANGED Health!monitor, step'[c] = step[c],
         snapshot'[c] = snapshot[c], copied'[c] = copied[c], errors'[c] = errors[c],
         stale'[c] = stale[c], during'[c] = during[c]
  PROVE  Collecting(c)'
  BY DEF Collecting, Copied, Done, Health!monitor, Health!moment

LEMMA BeginCollectKeeps ==
  ASSUME HealthInv, NEW c \in Collector, Health!BeginCollect(c)
  PROVE  HealthInv'
<1>. USE DEF Health!BeginCollect, Health!monitor
<1>1. Health!moment \in Moments
  BY DEF HealthInv, HealthTypes, Health!moment, Moments
<1>2. Health!EmptySnapshot \in Snapshots
  BY DEF Snapshots, Health!EmptySnapshot
<1>3. PICK e \in SUBSET Health!Parts :
        stale' = [stale EXCEPT ![c] = e] /\ errors' = [errors EXCEPT ![c] = stale'[c]]
  BY DEF HealthInv, HealthTypes
<1>4. HealthTypes'
  BY <1>1, <1>2, <1>3 DEF HealthInv, HealthTypes
<1>5. Listed'
  BY DEF HealthInv, Listed
<1>6. Collecting(c)'
  BY <1>3 DEF HealthInv, HealthTypes, Collecting, Done, Health!EmptySnapshot, Health!moment
<1>7. ASSUME NEW d \in Collector, d # c PROVE Collecting(d)'
  BY <1>3, <1>7, OthersCollect DEF HealthInv, HealthTypes
<1>. QED BY <1>4, <1>5, <1>6, <1>7 DEF HealthInv

LEMMA CopyStateKeeps ==
  ASSUME HealthInv, NEW c \in Collector, Health!CopyState(c)
  PROVE  HealthInv'
<1>. USE DEF Health!CopyState, Health!monitor
<1>1. snapshot' \in [Collector -> Snapshots]
  <2>1. PICK s \in Snapshots : s = snapshot[c]
    BY DEF HealthInv, HealthTypes
  <2>2. [s EXCEPT !.services = services] \in Snapshots
    BY DEF Snapshots, HealthInv, HealthTypes
  <2>3. snapshot' = [snapshot EXCEPT ![c] = [s EXCEPT !.services = services]]
    BY <2>1
  <2>. QED BY <2>2, <2>3 DEF HealthInv, HealthTypes
<1>2. copied' \in [Collector -> [root : Root, disk : Disk]]
  BY DEF HealthInv, HealthTypes
<1>3. HealthTypes'
  BY <1>1, <1>2 DEF HealthInv, HealthTypes
<1>4. Listed'
  BY DEF HealthInv, Listed
<1>5. Collecting(c)'
  <2>1. /\ step'[c] = "cpu" /\ errors'[c] = errors[c] /\ stale'[c] = stale[c] /\ during'[c] = during[c]
        /\ snapshot'[c].services = services
        /\ snapshot'[c].cpu = snapshot[c].cpu /\ snapshot'[c].memory = snapshot[c].memory
        /\ snapshot'[c].disk = snapshot[c].disk
        /\ copied'[c].root = procRoot /\ copied'[c].disk = diskPath
    BY DEF HealthInv, HealthTypes, Snapshots
  <2>2. Collecting(c) /\ step[c] = "called" /\ Health!moment \in during[c]
    BY DEF HealthInv, Collecting
  <2>3. Copied(c)'
    BY <2>1, <2>2 DEF Copied, Health!moment
  <2>4. errors[c] = stale[c]
    BY <2>2 DEF Collecting, Done
  <2>. QED BY <2>1, <2>2, <2>3, <2>4 DEF Collecting, Done
<1>6. ASSUME NEW d \in Collector, d # c PROVE Collecting(d)'
  BY <1>6, OthersCollect DEF HealthInv, HealthTypes
<1>. QED BY <1>3, <1>4, <1>5, <1>6 DEF HealthInv

LEMMA ReadKeeps ==
  ASSUME HealthInv, Places, NEW c \in Collector,
         Health!ReadCpu(c) \/ Health!ReadMemory(c) \/ Health!ReadDisk(c)
  PROVE  HealthInv'
<1>1. PICK part \in Health!Parts, next \in {"memory", "disk", "done"},
           from \in {copied[c].root, copied[c].disk} :
        /\ Health!ReadPart(c, part, next, from)
        /\ \/ part = "cpu" /\ next = "memory" /\ from = copied[c].root
           \/ part = "memory" /\ next = "disk" /\ from = copied[c].root
           \/ part = "disk" /\ next = "done" /\ from = copied[c].disk
  BY DEF Health!ReadCpu, Health!ReadMemory, Health!ReadDisk, Health!Parts
<1>2. /\ step[c] = part /\ step' = [step EXCEPT ![c] = next]
      /\ \/ snapshot' = [snapshot EXCEPT ![c][part] = from] /\ errors' = errors
         \/ errors' = [errors EXCEPT ![c] = @ \cup {part}] /\ snapshot' = snapshot
      /\ UNCHANGED <<Health!monitor, copied, stale, during, latest, changes>>
  BY <1>1 DEF Health!ReadPart
<1>3. next \in {"memory", "disk", "done"} /\ from # None
      /\ from \in (IF part = "disk" THEN Disk ELSE Root)
  BY <1>1 DEF HealthInv, HealthTypes, Places
<1>4. PICK s \in Snapshots : s = snapshot[c]
  BY DEF HealthInv, HealthTypes
<1>5. [s EXCEPT ![part] = from] \in Snapshots
  BY <1>1, <1>3 DEF Snapshots
<1>6. snapshot' \in [Collector -> Snapshots]
  BY <1>2, <1>4, <1>5 DEF HealthInv, HealthTypes
<1>7. errors' \in [Collector -> SUBSET Health!Parts]
  BY <1>2 DEF HealthInv, HealthTypes
<1>8. HealthTypes'
  BY <1>2, <1>3, <1>6, <1>7 DEF HealthInv, HealthTypes, Health!monitor
<1>9. Listed'
  BY <1>2 DEF HealthInv, Listed, Health!monitor
<1>10. PICK t \in Snapshots : t = snapshot'[c]
  BY <1>6
<1>11. /\ step'[c] = next /\ copied'[c] = copied[c] /\ stale'[c] = stale[c] /\ during'[c] = during[c]
       /\ t.services = s.services
       /\ \A p \in Health!Parts : p # part => t[p] = s[p]
       /\ \/ t[part] = from /\ errors'[c] = errors[c]
          \/ t = s /\ errors'[c] = errors[c] \cup {part}
  BY <1>2, <1>4, <1>5, <1>10 DEF HealthInv, HealthTypes, Snapshots, Health!Parts
<1>12. Collecting(c)
  BY DEF HealthInv
<1>13. part \notin Done(c) /\ Done(c)' = Done(c) \cup {part} /\ Done(c) \subseteq Health!Parts
  BY <1>1, <1>2, <1>11 DEF Done, Health!Parts
<1>14. s[part] = None
  BY <1>1, <1>4, <1>12, <1>13 DEF Collecting
<1>15. errors'[c] = stale'[c] \cup (Health!Missing(t) \cap Done(c)')
  <2>1. errors[c] = stale[c] \cup (Health!Missing(s) \cap Done(c))
    BY <1>1, <1>2, <1>4, <1>12 DEF Collecting
  <2>2. PICK missing : missing = Health!Missing(s) \cap Done(c)
    OBVIOUS
  <2>3. /\ t[part] = None => Health!Missing(t) \cap (Done(c) \cup {part}) = missing \cup {part}
        /\ t[part] # None => Health!Missing(t) \cap (Done(c) \cup {part}) = missing
    BY <1>11, <1>13, <2>2 DEF Health!Missing
  <2>4. CASE t[part] = from /\ errors'[c] = errors[c]
    BY <1>3, <1>11, <1>13, <2>1, <2>2, <2>3, <2>4
  <2>5. CASE t = s /\ errors'[c] = errors[c] \cup {part}
    BY <1>11, <1>13, <1>14, <2>1, <2>2, <2>3, <2>5
  <2>. QED BY <1>11, <2>4, <2>5
<1>16. Collecting(c)'
  <2>1. Copied(c)'
    BY <1>1, <1>2, <1>4, <1>10, <1>11, <1>12 DEF Collecting, Copied
  <2>2. /\ t.cpu \in (IF "cpu" \in Done(c)' THEN {copied'[c].root, None} ELSE {None})
        /\ t.memory \in (IF "memory" \in Done(c)' THEN {copied'[c].root, None} ELSE {None})
        /\ t.disk \in (IF "disk" \in Done(c)' THEN {copied'[c].disk, None} ELSE {None})
    BY <1>1, <1>4, <1>11, <1>12, <1>13 DEF Collecting, Health!Parts
  <2>. QED BY <1>3, <1>10, <1>11, <1>15, <2>1, <2>2 DEF Collecting
<1>17. ASSUME NEW d \in Collector, d # c PROVE Collecting(d)'
  BY <1>2, <1>17, OthersCollect DEF HealthInv, HealthTypes
<1>. QED BY <1>8, <1>9, <1>16, <1>17 DEF HealthInv

LEMMA NextHealth == Places /\ HealthInv /\ [Health!Next]_(Health!vars) => HealthInv'
<1>. SUFFICES ASSUME Places, HealthInv, [Health!Next]_(Health!vars) PROVE HealthInv'
  OBVIOUS
<1>1. CASE Health!SetProcRoot \/ Health!SetDiskPath
  BY <1>1, ChangeKeeps DEF Health!SetProcRoot, Health!SetDiskPath, HealthInv, HealthTypes, Listed
<1>2. CASE Health!ReportService
  BY <1>2, ReportKeeps
<1>3. CASE Health!ClearServices
  <2>1. services' = <<>> /\ latest' = [n \in Name |-> None] /\ Health!Change
    BY <1>3 DEF Health!ClearServices
  <2>2. services' \in Seq(Reports) /\ Listed'
    BY <2>1 DEF Listed
  <2>. QED BY <1>3, <2>1, <2>2, ChangeKeeps DEF Health!ClearServices, HealthInv, HealthTypes
<1>4. ASSUME NEW c \in Collector,
             \/ Health!BeginCollect(c) \/ Health!CopyState(c)
             \/ Health!ReadCpu(c) \/ Health!ReadMemory(c) \/ Health!ReadDisk(c)
      PROVE  HealthInv'
  BY <1>4, BeginCollectKeeps, CopyStateKeeps, ReadKeeps
<1>5. CASE UNCHANGED Health!vars
  BY <1>5, OthersCollect DEF Health!vars, Health!monitor, Health!collecting, HealthInv, HealthTypes, Listed
<1>. QED BY <1>1, <1>2, <1>3, <1>4, <1>5 DEF Health!Next

LEMMA HealthIsTrue ==
  ASSUME HealthInv, Places, IsFiniteSet(Name)
  PROVE  Health!SnapshotsTrue
<1>1. PICK n : n = Len(services)
  OBVIOUS
<1>2. services \in Seq(Reports) /\ n \in Nat /\ DOMAIN services = 1 .. n
      /\ \A i \in 1 .. n : services[i] \in Reports
  BY <1>1 DEF HealthInv, HealthTypes
<1>3. Health!TypeOK
  <2>1. PICK f : f = [i \in 1 .. n |-> services[i].name]
    OBVIOUS
  <2>2. \A i \in 1 .. n : services[i].name \in Name
    BY <1>2 DEF Reports
  <2>3. f \in [1 .. n -> Name] /\ \A i, j \in 1 .. n : f[i] = f[j] => i = j
    BY <1>2, <2>1, <2>2 DEF HealthInv, Listed
  <2>4. f \in Injection(1 .. n, Name)
    BY <2>3 DEF Injection, IsInjective
  <2>5. Cardinality(1 .. n) = n
    BY <1>2, FS_Interval
  <2>6. n <= Cardinality(Name)
    BY <2>4, <2>5, FS_Injection
  <2>7. Health!Cardinality(Name) = Cardinality(Name)
    BY DEF Health!Cardinality, Cardinality
  <2>8. Len(services) <= Health!Cardinality(Name)
    BY <1>1, <2>6, <2>7
  <2>9. \A c \in Collector : /\ snapshot[c].cpu \in Root \cup {None}
                             /\ snapshot[c].memory \in Root \cup {None}
                             /\ snapshot[c].disk \in Disk \cup {None}
    BY DEF HealthInv, HealthTypes, Snapshots
  <2>. QED BY <2>8, <2>9 DEF HealthInv, HealthTypes, Health!TypeOK, Reports
<1>4. Health!SnapshotOfOneMoment
  <2>. SUFFICES ASSUME NEW c \in Collector, step[c] = "done"
                PROVE  \E m \in during[c] : /\ snapshot[c].services = m.services
                                            /\ snapshot[c].cpu \in {m.root, None}
                                            /\ snapshot[c].memory \in {m.root, None}
                                            /\ snapshot[c].disk \in {m.disk, None}
    BY DEF Health!SnapshotOfOneMoment
  <2>1. Collecting(c) /\ Done(c) = {"cpu", "memory", "disk"}
    BY DEF HealthInv, Done
  <2>2. Copied(c)
    BY <2>1 DEF Collecting
  <2>. QED BY <2>1, <2>2 DEF Collecting, Copied
<1>5. Health!LastReportsListed
  <2>1. \A i \in 1 .. n : services[i].name \in Name /\ services[i].state \in State
    BY <1>2 DEF Reports
  <2>2. ASSUME NEW i \in 1 .. n
        PROVE  /\ services[i].state = latest[services[i].name]
               /\ services[i].healthy = Health!IsHealthy(services[i].state)
    <3>1. services[i] = Health!Health(services[i].name, latest[services[i].name])
      BY <1>2 DEF HealthInv, Listed
    <3>. QED BY <3>1 DEF Health!Health
  <2>3. \A i \in 1 .. n : latest[services[i].name] # None
    BY <2>1, <2>2 DEF Places
  <2>4. \A m \in Name : latest[m] # None => \E i \in 1 .. n : services[i].name = m
    BY <1>2 DEF HealthInv, Listed
  <2>5. PICK reported : reported = {services[i] : i \in DOMAIN services}
    OBVIOUS
  <2>6. \A x \in {<<s.name, s.state>> : s \in reported} :
          x \in {<<m, latest[m]>> : m \in {l \in Name : latest[l] # None}}
    BY <1>2, <2>1, <2>2, <2>3, <2>5
  <2>7. \A x \in {<<m, latest[m]>> : m \in {l \in Name : latest[l] # None}} :
          x \in {<<s.name, s.state>> : s \in reported}
    BY <1>2, <2>2, <2>4, <2>5
  <2>8. {<<s.name, s.state>> : s \in reported}
          = {<<m, latest[m]>> : m \in {l \in Name : latest[l] # None}}
    BY <2>6, <2>7
  <2>. QED BY <1>2, <2>2, <2>5, <2>8 DEF Health!LastReportsListed, HealthInv, Listed
<1>6. Health!ErrorsNameMissingParts
  <2>. SUFFICES ASSUME NEW c \in Collector, step[c] = "done"
                PROVE  errors[c] = stale[c] \cup Health!Missing(snapshot[c])
    BY DEF Health!ErrorsNameMissingParts
  <2>1. errors[c] = stale[c] \cup (Health!Missing(snapshot[c]) \cap Done(c))
    BY DEF HealthInv, Collecting
  <2>2. Done(c) = Health!Parts /\ Health!Missing(snapshot[c]) \subseteq Health!Parts
    BY DEF Done, Health!Parts, Health!Missing
  <2>. QED BY <2>1, <2>2
<1>. QED BY <1>3, <1>4, <1>5, <1>6 DEF Health!SnapshotsTrue

\* A snapshot belongs to one moment of the monitor within the call, lists each
\* service once with its last report, and comes with an error for exactly what
\* it lacks: for any collectors, services and paths, however often they change.
THEOREM SnapshotsOfOneMoment ==
  ASSUME IsFiniteSet(Name), InitialRoot \in Root, InitialDisk \in Disk,
         None \notin Root \cup Disk \cup State, MaxChanges \in Nat
  PROVE  Health!Spec => []Health!SnapshotsTrue
<1>1. Places
  BY DEF Places
<1>2. HealthInv => Health!SnapshotsTrue
  BY <1>1, HealthIsTrue
<1>. QED BY <1>1, <1>2, InitHealth, NextHealth, PTL DEF Health!Spec
-----------------------------------------------------------------------------
(* The parser of /proc/meminfo.  Its place in the words of the file says   *)
(* whether a line without a unit has been passed: it is at a key as long   *)
(* as none has, and at a number, where it stops, after the first.          *)

HaveUnits(n) == \A i \in 1 .. n : lines[i].unit

AtKey(n) == position = Memory!WordAt(n, 1) /\ HaveUnits(n - 1)
AtNumber(n) ==
  /\ position = Memory!WordAt(n, 2) /\ n > 1 /\ n <= Len(lines)
  /\ HaveUnits(n - 2) /\ ~lines[n - 1].unit

\* The value of the last of the first n lines for a key.
NamedBy(key, n) == {i \in 1 .. n : lines[i].key = key}
LastOf(value, key, n) ==
  \/ NamedBy(key, n) = {} /\ value = Memory!NotFound
  \/ \E i \in NamedBy(key, n) : /\ \A j \in NamedBy(key, n) : j <= i
                                /\ value = lines[i].value

MemoryInv ==
  /\ Len(lines) \in Nat /\ Len(lines) <= MaxLines /\ lines \in [1 .. Len(lines) -> Memory!Line]
  /\ total \in Value \cup {Memory!NotFound} /\ available \in Value \cup {Memory!NotFound}
  /\ ended \in BOOLEAN
  /\ \E n \in 1 .. Len(lines) + 1 :
       /\ AtKey(n) \/ AtNumber(n)
       /\ LastOf(total, "MemTotal:", n - 1) /\ LastOf(available, "MemAvailable:", n - 1)
  /\ ended => ~Memory!CanExtract

LEMMA InitMemory == MaxLines \in Nat /\ Memory!Init => MemoryInv
<1>. SUFFICES ASSUME MaxLines \in Nat, Memory!Init PROVE MemoryInv
  OBVIOUS
<1>1. PICK m \in 0 .. MaxLines : lines \in [1 .. m -> Memory!Line]
  BY DEF Memory!Init, Memory!Texts
<1>2. Len(lines) = m
  BY <1>1
<1>3. AtKey(1) /\ LastOf(total, "MemTotal:", 1 - 1) /\ LastOf(available, "MemAvailable:", 1 - 1)
  BY DEF Memory!Init, AtKey, HaveUnits, LastOf, NamedBy
<1>4. 1 \in 1 .. Len(lines) + 1
  BY <1>1, <1>2
<1>5. \E n \in 1 .. Len(lines) + 1 :
        /\ AtKey(n) \/ AtNumber(n)
        /\ LastOf(total, "MemTotal:", n - 1) /\ LastOf(available, "MemAvailable:", n - 1)
  BY <1>3, <1>4
<1>6. /\ total \in Value \cup {Memory!NotFound} /\ available \in Value \cup {Memory!NotFound}
      /\ ended \in BOOLEAN /\ ~ended
  BY DEF Memory!Init
<1>7. Len(lines) \in Nat /\ Len(lines) <= MaxLines /\ lines \in [1 .. Len(lines) -> Memory!Line]
  BY <1>1, <1>2
<1>. QED BY <1>5, <1>6, <1>7 DEF MemoryInv

\* Where a round of the loop begins, and where it gets.
LEMMA Rounds ==
  ASSUME MemoryInv, NEW n \in 1 .. Len(lines) + 1, AtKey(n) \/ AtNumber(n)
  PROVE  IF AtKey(n) /\ n <= Len(lines) /\ (lines[n].unit \/ n < Len(lines))
         THEN /\ Memory!CanExtract /\ position.word = 1 /\ position.line = n
              /\ Memory!After(position).line = n
              /\ Memory!After(Memory!After(Memory!After(position)))
                   = IF lines[n].unit THEN Memory!WordAt(n + 1, 1) ELSE Memory!WordAt(n + 1, 2)
         ELSE ~Memory!CanExtract
<1>0. n \in Nat /\ n > 0 /\ Len(lines) \in Nat
  BY DEF MemoryInv
<1>1. ASSUME NEW i \in Nat, NEW w \in Nat
      PROVE  Memory!After(Memory!WordAt(i, w))
               = IF w < Memory!WordsOf(i) THEN Memory!WordAt(i, w + 1) ELSE Memory!WordAt(i + 1, 1)
  BY DEF Memory!After, Memory!WordAt
<1>2. \A i : Memory!WordsOf(i) = IF lines[i].unit THEN 3 ELSE 2
  BY DEF Memory!WordsOf
<1>3. CASE AtNumber(n)
  <2>1. position = Memory!WordAt(n, 2)
    BY <1>3 DEF AtNumber
  <2>2. Memory!After(position) \in {Memory!WordAt(n, 3), Memory!WordAt(n + 1, 1)}
    BY <1>0, <1>1, <2>1
  <2>3. Memory!After(position).word # 2
    BY <2>2 DEF Memory!WordAt
  <2>4. ~Memory!CanExtract
    BY <2>3 DEF Memory!CanExtract, Memory!IsNumber
  <2>5. ~AtKey(n)
    BY <2>1 DEF AtKey, Memory!WordAt
  <2>. QED BY <2>4, <2>5
<1>4. CASE AtKey(n)
  <2>1. position = Memory!WordAt(n, 1)
    BY <1>4 DEF AtKey
  <2>2. Memory!After(position) = Memory!WordAt(n, 2)
    BY <1>0, <1>1, <1>2, <2>1
  <2>3. Memory!After(Memory!After(position))
          = IF lines[n].unit THEN Memory!WordAt(n, 3) ELSE Memory!WordAt(n + 1, 1)
    BY <1>0, <1>1, <1>2, <2>2
  <2>4. Memory!After(Memory!After(Memory!After(position)))
          = IF lines[n].unit THEN Memory!WordAt(n + 1, 1) ELSE Memory!WordAt(n + 1, 2)
    <3>1. CASE lines[n].unit
      BY <1>0, <1>1, <1>2, <2>3, <3>1
    <3>2. CASE ~lines[n].unit
      BY <1>0, <1>1, <1>2, <2>3, <3>2
    <3>. QED BY <3>1, <3>2
  <2>5. Memory!CanExtract <=> n <= Len(lines) /\ (lines[n].unit \/ n < Len(lines))
    BY <1>0, <2>1, <2>2, <2>3 DEF Memory!CanExtract, Memory!IsNumber, Memory!IsWord, Memory!WordAt
  <2>6. position.word = 1 /\ position.line = n /\ Memory!After(position).line = n
    BY <2>1, <2>2 DEF Memory!WordAt
  <2>. QED BY <1>4, <2>4, <2>5, <2>6
<1>. QED BY <1>3, <1>4

LEMMA LastOfNext ==
  ASSUME NEW n \in Nat, n > 0, NEW value, NEW key, LastOf(value, key, n - 1),
         NEW then, then = IF lines[n].key = key THEN lines[n].value ELSE value
  PROVE  LastOf(then, key, n)
<1>1. CASE lines[n].key = key
  BY <1>1 DEF LastOf, NamedBy
<1>2. CASE lines[n].key # key
  <2>1. NamedBy(key, n) = NamedBy(key, n - 1)
    BY <1>2 DEF NamedBy
  <2>. QED BY <1>2, <2>1 DEF LastOf
<1>. QED BY <1>1, <1>2

LEMMA NextMemory == MemoryInv /\ [Memory!Next]_(Memory!vars) => MemoryInv'
<1>. SUFFICES ASSUME MemoryInv, [Memory!Next]_(Memory!vars) PROVE MemoryInv'
  OBVIOUS
<1>1. CASE Memory!EndLoop
  BY <1>1 DEF Memory!EndLoop, MemoryInv, AtKey, AtNumber, HaveUnits, LastOf, NamedBy, Memory!CanExtract,
     Memory!IsWord, Memory!IsNumber, Memory!After, Memory!WordsOf
<1>2. CASE UNCHANGED Memory!vars
  BY <1>2 DEF Memory!vars, MemoryInv, AtKey, AtNumber, HaveUnits, LastOf, NamedBy, Memory!CanExtract,
     Memory!IsWord, Memory!IsNumber, Memory!After, Memory!WordsOf
<1>3. CASE Memory!ReadEntry
  <2>1. PICK n \in 1 .. Len(lines) + 1 :
          /\ AtKey(n) \/ AtNumber(n)
          /\ LastOf(total, "MemTotal:", n - 1) /\ LastOf(available, "MemAvailable:", n - 1)
    BY DEF MemoryInv
  <2>2. Memory!CanExtract /\ ~ended
    BY <1>3 DEF Memory!ReadEntry
  <2>3. /\ AtKey(n) /\ n <= Len(lines) /\ (lines[n].unit \/ n < Len(lines))
        /\ position.word = 1 /\ position.line = n /\ Memory!After(position).line = n
        /\ Memory!After(Memory!After(Memory!After(position)))
             = IF lines[n].unit THEN Memory!WordAt(n + 1, 1) ELSE Memory!WordAt(n + 1, 2)
    BY <2>1, <2>2, Rounds
  <2>4. /\ total' = IF lines[n].key = "MemTotal:" THEN lines[n].value ELSE total
        /\ available' = IF lines[n].key = "MemAvailable:" THEN lines[n].value ELSE available
        /\ position' = IF lines[n].unit THEN Memory!WordAt(n + 1, 1) ELSE Memory!WordAt(n + 1, 2)
        /\ lines' = lines /\ ~ended'
    BY <1>3, <2>2, <2>3 DEF Memory!ReadEntry, Memory!KeyIs, Memory!ValueRead
  <2>5. n \in Nat /\ n > 0 /\ Len(lines) \in Nat /\ n <= Len(lines)
    BY <2>3 DEF MemoryInv
  <2>6. lines[n].value \in Value
    BY <2>5 DEF MemoryInv, Memory!Line
  <2>7. LastOf(total', "MemTotal:", n) /\ LastOf(available', "MemAvailable:", n)
    BY <2>1, <2>4, <2>5, LastOfNext
  <2>8. LastOf(total, "MemTotal:", (n + 1) - 1)' /\ LastOf(available, "MemAvailable:", (n + 1) - 1)'
    BY <2>4, <2>5, <2>7 DEF LastOf, NamedBy
  <2>9. (AtKey(n + 1) \/ AtNumber(n + 1))'
    BY <2>3, <2>4, <2>5 DEF AtKey, AtNumber, HaveUnits
  <2>10. \E k \in 1 .. Len(lines') + 1 :
           /\ (AtKey(k) \/ AtNumber(k))'
           /\ LastOf(total, "MemTotal:", k - 1)' /\ LastOf(available, "MemAvailable:", k - 1)'
    BY <2>4, <2>5, <2>8, <2>9
  <2>11. /\ total' \in Value \cup {Memory!NotFound} /\ available' \in Value \cup {Memory!NotFound}
         /\ lines' \in [1 .. Len(lines') -> Memory!Line] /\ Len(lines') \in Nat /\ Len(lines') <= MaxLines
    BY <2>4, <2>6 DEF MemoryInv
  <2>12. ended' \in BOOLEAN /\ ~ended'
    BY <1>3, <2>2 DEF Memory!ReadEntry, MemoryInv
  <2>. QED BY <2>10, <2>11, <2>12 DEF MemoryInv
<1>. QED BY <1>1, <1>2, <1>3 DEF Memory!Next

LEMMA LastValueIs ==
  ASSUME MemoryInv, NEW n \in Nat, n <= Len(lines), Memory!Readable = 1 .. n,
         NEW key, NEW value, LastOf(value, key, n)
  PROVE  value = Memory!LastValue(key)
<1>1. PICK S : S = {i \in Memory!Readable : lines[i].key = key}
  OBVIOUS
<1>2. S = NamedBy(key, n)
  BY <1>1 DEF NamedBy
<1>3. CASE S = {}
  BY <1>1, <1>2, <1>3 DEF LastOf, Memory!LastValue
<1>4. ASSUME NEW i \in S, \A j \in S : j <= i, value = lines[i].value
      PROVE  value = Memory!LastValue(key)
  <2>1. PICK m : m = CHOOSE x \in S : \A j \in S : j <= x
    OBVIOUS
  <2>2. m \in S /\ \A j \in S : j <= m
    BY <1>4, <2>1
  <2>3. m = i
    BY <1>2, <1>4, <2>2 DEF NamedBy
  <2>4. Memory!LastValue(key) = lines[m].value
    BY <1>1, <1>4, <2>1 DEF Memory!LastValue
  <2>. QED BY <1>4, <2>3, <2>4
<1>. QED BY <1>2, <1>3, <1>4 DEF LastOf

\* The share of memory in use: the difference is taken only when it is not
\* negative, and no remainder makes it larger.
LEMMA IsPercentage ==
  ASSUME Modulus \in Nat \ {0}, NEW all \in Nat, NEW free \in Nat
  PROVE  Memory!UsedPercent(all, free) \in 0 .. 100
<1>1. CASE all = 0 \/ free > all
  BY <1>1 DEF Memory!UsedPercent
<1>2. CASE all # 0 /\ free <= all
  <2>1. PICK d : d = all - free
    OBVIOUS
  <2>2. PICK r : r = d % Modulus
    OBVIOUS
  <2>3. r \in Nat /\ r <= d /\ d <= all /\ d \in Nat
    BY <1>2, <2>1, <2>2
  <2>4. PICK q : q = (r * 100) \div all
    OBVIOUS
  <2>5. q \in Int /\ all * q <= r * 100 /\ r * 100 < all * q + all
    BY <1>2, <2>3, <2>4
  <2>6. q <= 100
    BY <1>2, <2>3, <2>5
  <2>7. q >= 0
    BY <1>2, <2>3, <2>5
  <2>. QED BY <1>2, <2>1, <2>2, <2>4, <2>5, <2>6, <2>7 DEF Memory!UsedPercent
<1>. QED BY <1>1, <1>2

LEMMA MemoryIsTrue ==
  ASSUME Value \subseteq Nat, MaxLines \in Nat, Modulus \in Nat \ {0}, MemoryInv
  PROVE  Memory!MemoryTrue
<1>1. PICK n \in 1 .. Len(lines) + 1 :
        /\ AtKey(n) \/ AtNumber(n)
        /\ LastOf(total, "MemTotal:", n - 1) /\ LastOf(available, "MemAvailable:", n - 1)
  BY DEF MemoryInv
<1>2. n \in Nat /\ n > 0 /\ n - 1 \in Nat /\ n - 1 <= Len(lines) /\ Len(lines) \in Nat
  BY DEF MemoryInv
<1>3. Memory!TypeOK
  <2>1. lines \in Memory!Texts
    <3>1. PICK m : m = Len(lines)
      OBVIOUS
    <3>2. m \in 0 .. MaxLines /\ lines \in [1 .. m -> Memory!Line]
      BY <3>1 DEF MemoryInv
    <3>. QED BY <3>2 DEF Memory!Texts
  <2>2. position \in [line : 1 .. Len(lines) + 1, word : 1 .. 3]
    BY <1>1, <1>2 DEF AtKey, AtNumber, Memory!WordAt
  <2>. QED BY <2>1, <2>2 DEF MemoryInv, Memory!TypeOK
<1>4. Memory!NotMisread
  <2>. SUFFICES ASSUME ended PROVE /\ total = Memory!LastValue("MemTotal:")
                                   /\ available = Memory!LastValue("MemAvailable:")
    BY DEF Memory!NotMisread
  <2>1. ~(AtKey(n) /\ n <= Len(lines) /\ (lines[n].unit \/ n < Len(lines)))
    BY <1>1, Rounds DEF MemoryInv
  <2>2. DOMAIN lines = 1 .. Len(lines) /\ \A i \in 1 .. Len(lines) : lines[i].unit \in BOOLEAN
    BY DEF MemoryInv, Memory!Line
  <2>3. Memory!Readable = 1 .. n - 1
    <3>1. CASE AtNumber(n)
      <4>1. ASSUME NEW i \in 1 .. Len(lines), i > n - 1 PROVE i \notin Memory!Readable
        BY <1>2, <3>1, <4>1 DEF AtNumber, Memory!Readable
      <4>2. ASSUME NEW i \in 1 .. n - 1 PROVE i \in Memory!Readable
        <5>1. \A j \in 1 .. i - 1 : lines[j].unit
          BY <1>2, <3>1 DEF AtNumber, HaveUnits
        <5>2. i \in 1 .. Len(lines) /\ i < Len(lines)
          BY <1>2, <3>1 DEF AtNumber
        <5>. QED BY <2>2, <5>1, <5>2 DEF Memory!Readable
      <4>3. Memory!Readable \subseteq 1 .. Len(lines)
        BY <2>2 DEF Memory!Readable
      <4>4. ASSUME NEW i \in Memory!Readable PROVE i \in 1 .. n - 1
        <5>1. i \in 1 .. Len(lines)
          BY <4>3
        <5>. QED BY <1>2, <4>1, <5>1
      <4>. QED BY <4>2, <4>4
    <3>2. CASE AtKey(n)
      <4>1. ASSUME NEW i \in 1 .. Len(lines), i > n - 1 PROVE i \notin Memory!Readable
        BY <1>2, <2>1, <3>2, <4>1 DEF Memory!Readable
      <4>2. ASSUME NEW i \in 1 .. n - 1 PROVE i \in Memory!Readable
        <5>1. lines[i].unit /\ \A j \in 1 .. i - 1 : lines[j].unit
          BY <1>2, <3>2 DEF AtKey, HaveUnits
        <5>2. i \in 1 .. Len(lines)
          BY <1>2
        <5>. QED BY <2>2, <5>1, <5>2 DEF Memory!Readable
      <4>3. Memory!Readable \subseteq 1 .. Len(lines)
        BY <2>2 DEF Memory!Readable
      <4>4. ASSUME NEW i \in Memory!Readable PROVE i \in 1 .. n - 1
        <5>1. i \in 1 .. Len(lines)
          BY <4>3
        <5>. QED BY <1>2, <4>1, <5>1
      <4>. QED BY <4>2, <4>4
    <3>. QED BY <1>1, <3>1, <3>2
  <2>. QED BY <1>1, <1>2, <2>3, LastValueIs
<1>5. Memory!PercentOfTotal
  <2>. SUFFICES ASSUME Memory!Parsed PROVE Memory!UsedPercent(total, available) \in 0 .. 100
    BY DEF Memory!PercentOfTotal
  <2>1. total \in Nat /\ available \in Nat
    BY DEF MemoryInv, Memory!Parsed
  <2>. QED BY <2>1, IsPercentage
<1>. QED BY <1>3, <1>4, <1>5 DEF Memory!MemoryTrue

\* A text of meminfo that the parser accepts is not misread, and the share of
\* memory in use is a percentage: for any lines, with and without units.
THEOREM MeminfoIsTrue ==
  ASSUME Value \subseteq Nat, MaxLines \in Nat, Modulus \in Nat \ {0}
  PROVE  Memory!Spec => []Memory!MemoryTrue
<1>1. MemoryInv => Memory!MemoryTrue
  BY MemoryIsTrue
<1>. QED BY <1>1, InitMemory, NextMemory, PTL DEF Memory!Spec

\* What the monitor reports is true to the services, the paths and the files.
THEOREM HealthIsReportedTruly ==
  ASSUME IsFiniteSet(Name), InitialRoot \in Root, InitialDisk \in Disk,
         None \notin Root \cup Disk \cup State, MaxChanges \in Nat,
         Value \subseteq Nat, MaxLines \in Nat, Modulus \in Nat \ {0}
  PROVE  Health!Spec /\ Memory!Spec => []HealthTrue
BY SnapshotsOfOneMoment, MeminfoIsTrue, PTL DEF HealthTrue
-----------------------------------------------------------------------------
(* One file, read through the two implementations of IConfiguration.       *)

Files ==
  /\ Content \in [File -> Seq(Config!Lines)] /\ NoFile \notin File
  /\ NoText \notin Config!Text \cup {"true", "false"}

\* The lines of one key, in a collection and in the first n lines of a file.
Mine(pairs, k) == {i \in 1 .. Len(pairs) : pairs[i].key = k}
LinesOf(f, n, k) == {i \in 1 .. n : Content[f][i].kind = "pair" /\ Content[f][i].key = k}
IsLast(i, S) == i \in S /\ \A j \in S : j <= i

\* What has been collected is of the lines read so far, as far as each key goes.
Collected(r, k) ==
  \/ /\ Mine(parsed[r], k) = {}
     /\ cut[r] \/ LinesOf(onDisk, at[r] - 1, k) = {}
  \/ \E i \in Nat :
       /\ IsLast(i, Mine(parsed[r], k))
       /\ cut[r] \/ \E j \in Nat : /\ IsLast(j, LinesOf(onDisk, at[r] - 1, k))
                                   /\ parsed[r][i].value = Content[onDisk][j].value

\* A value that comes from a file is that of its last line for the key.
FromFile(r, k) ==
  source[r][k] # NoFile =>
    \E j \in Nat : /\ IsLast(j, LinesOf(source[r][k], Len(Content[source[r][k]]), k))
                   /\ values[r][k] = Content[source[r][k]][j].value

\* In a load: what is collected so far, and every line read so far parses.
Reading(r) ==
  at[r] > 0 =>
    /\ \A k \in Key : Collected(r, k)
    /\ cut[r] \/ \A i \in 1 .. at[r] - 1 : Content[onDisk][i].kind \in {"pair", "empty"}

ConfigInv ==
  /\ Config!TypeOK
  /\ parsed \in [Config!Reader -> Seq(Config!Lines)]
  /\ at \in [Config!Reader -> Nat]
  /\ \A r \in Config!Reader : Reading(r)
  /\ \A r \in Config!Reader : \A k \in Key : FromFile(r, k)
  /\ Config!MemoryFromOneFile

LEMMA LastIsOne ==
  ASSUME NEW S \in SUBSET Nat, NEW i, NEW j, IsLast(i, S), IsLast(j, S)
  PROVE  i <= j /\ j <= i /\ i = j
  BY DEF IsLast

\* The text of the last line, of those there are.
LEMMA LastTextIs ==
  ASSUME NEW s \in Seq(Config!Lines), NEW k \in Key, NEW old
  PROVE  /\ Mine(s, k) = {} => Config!LastText(s, k, old) = old
         /\ \A i \in Nat : IsLast(i, Mine(s, k)) => Config!LastText(s, k, old) = s[i].value
<1>1. Mine(s, k) = {} => Config!LastText(s, k, old) = old
  BY DEF Mine, Config!LastText
<1>2. ASSUME NEW i \in Nat, IsLast(i, Mine(s, k))
      PROVE  Config!LastText(s, k, old) = s[i].value
  <2>1. PICK S : S = Mine(s, k)
    OBVIOUS
  <2>2. S \subseteq Nat /\ i \in S /\ \A j \in S : j <= i
    BY <1>2, <2>1 DEF IsLast, Mine
  <2>3. PICK m : m = CHOOSE x \in S : \A j \in S : j <= x
    OBVIOUS
  <2>4. m \in S /\ \A j \in S : j <= m
    BY <2>2, <2>3
  <2>5. m = i
    BY <2>2, <2>4
  <2>6. Config!LastText(s, k, old) = s[m].value
    BY <2>1, <2>2, <2>3 DEF Config!LastText, Mine
  <2>. QED BY <2>5, <2>6
<1>. QED BY <1>1, <1>2

LEMMA InitConfig == Files /\ Config!Init => ConfigInv
<1>. SUFFICES ASSUME Files, Config!Init PROVE ConfigInv
  OBVIOUS
<1>1. Len(Content[onDisk]) \in Nat
  BY LenProperties DEF Files, Config!Init
<1>2. Config!TypeOK
  BY <1>1, EmptySeq DEF Files, Config!Init, Config!TypeOK, Config!Nothing
<1>3. Config!MemoryFromOneFile
  BY DEF Config!Init, Config!MemoryFromOneFile, Config!Reader
<1>. QED BY <1>2, <1>3, EmptySeq DEF Config!Init, ConfigInv, FromFile, Reading

(* What the other reader does, or a change of the store, leaves alone.     *)
LEMMA ReadingKept ==
  ASSUME NEW r, Reading(r),
         onDisk' = onDisk, parsed'[r] = parsed[r], at'[r] = at[r], cut'[r] = cut[r]
  PROVE  Reading(r)'
  BY DEF Reading, Collected, Mine, LinesOf, IsLast

LEMMA FromFileKept ==
  ASSUME NEW r, NEW k, FromFile(r, k),
         source'[r][k] = source[r][k], values'[r][k] = values[r][k]
  PROVE  FromFile(r, k)'
  BY DEF FromFile, LinesOf, IsLast

LEMMA NextLineTyped ==
  ASSUME Files, ConfigInv, NEW r \in Config!Reader, Config!HasLine(r)
  PROVE  /\ Config!NextLine(r) \in Config!Lines
         /\ at[r] \in Nat /\ at[r] > 0 /\ at[r] <= Len(Content[onDisk])
         /\ Len(Content[onDisk]) \in Nat
<1>1. onDisk \in File /\ at[r] \in Nat
  BY DEF ConfigInv, Config!TypeOK
<1>2. Content[onDisk] \in Seq(Config!Lines)
  BY <1>1 DEF Files
<1>3. Len(Content[onDisk]) \in Nat
  BY <1>2, LenProperties
<1>4. Content[onDisk][at[r]] \in Config!Lines
  BY <1>2, <1>3, ElementOfSeq DEF Config!HasLine
<1>. QED BY <1>1, <1>3, <1>4 DEF Config!HasLine, Config!NextLine

(* A line more of a collection, and of a file.                             *)
LEMMA MineAppended ==
  ASSUME NEW s \in Seq(Config!Lines), NEW e \in Config!Lines, NEW k
  PROVE  /\ e.key # k => Mine(Append(s, e), k) = Mine(s, k)
         /\ e.key = k => IsLast(Len(s) + 1, Mine(Append(s, e), k))
  BY AppendProperties, LenProperties DEF Mine, IsLast

LEMMA LinesOfNext ==
  ASSUME NEW f, NEW n \in Nat, n > 0, NEW k
  PROVE  /\ ~(Content[f][n].kind = "pair" /\ Content[f][n].key = k)
              => LinesOf(f, n, k) = LinesOf(f, n - 1, k)
         /\ Content[f][n].kind = "pair" /\ Content[f][n].key = k => IsLast(n, LinesOf(f, n, k))
  BY DEF LinesOf, IsLast

LEMMA BeginLoadKeeps ==
  ASSUME Files, ConfigInv, NEW r \in Config!Reader, Config!BeginLoad(r)
  PROVE  ConfigInv'
<1>. USE DEF Config!BeginLoad
<1>1. onDisk \in File /\ Len(Content[onDisk]) \in Nat
  BY LenProperties DEF Files, ConfigInv, Config!TypeOK
<1>2. Config!TypeOK'
  BY <1>1, EmptySeq DEF ConfigInv, Config!TypeOK
<1>3. parsed' \in [Config!Reader -> Seq(Config!Lines)] /\ at' \in [Config!Reader -> Nat]
  BY EmptySeq DEF ConfigInv
<1>4. parsed'[r] = <<>> /\ at'[r] = 1 /\ ~cut'[r]
  BY DEF ConfigInv, Config!TypeOK
<1>5. Reading(r)'
  BY <1>4 DEF Reading, Collected, Mine, LinesOf
<1>6. ASSUME NEW q \in Config!Reader, q # r PROVE Reading(q)'
  BY <1>6, ReadingKept DEF ConfigInv, Config!TypeOK
<1>7. ASSUME NEW q \in Config!Reader, NEW k \in Key PROVE FromFile(q, k)'
  BY FromFileKept DEF ConfigInv
<1>8. Config!MemoryFromOneFile'
  BY DEF ConfigInv, Config!MemoryFromOneFile
<1>. QED BY <1>2, <1>3, <1>5, <1>6, <1>7, <1>8 DEF ConfigInv

LEMMA ReadPairKeeps ==
  ASSUME Files, ConfigInv, NEW r \in Config!Reader, Config!ReadPair(r)
  PROVE  ConfigInv'
<1>. USE DEF Config!ReadPair
<1>1. PICK e : e = Config!NextLine(r)
  OBVIOUS
<1>2. PICK s : s = parsed[r]
  OBVIOUS
<1>3. PICK n : n = at[r]
  OBVIOUS
<1>4. PICK f : f = onDisk
  OBVIOUS
<1>5. /\ e \in Config!Lines /\ e = Content[f][n] /\ e.kind = "pair"
      /\ n \in Nat /\ n > 0 /\ n <= Len(Content[f]) /\ Len(Content[f]) \in Nat
      /\ s \in Seq(Config!Lines) /\ Len(s) <= n
  BY <1>1, <1>2, <1>3, <1>4, NextLineTyped DEF Config!NextLine, ConfigInv, Config!TypeOK
<1>6. /\ parsed' = [parsed EXCEPT ![r] = Append(s, e)] /\ at' = [at EXCEPT ![r] = n + 1]
      /\ onDisk' = f /\ values' = values /\ last' = last /\ source' = source /\ cut' = cut
  BY <1>1, <1>2, <1>3, <1>4
<1>7. Append(s, e) \in Seq(Config!Lines) /\ Len(Append(s, e)) = Len(s) + 1 /\ Len(s) \in Nat
      /\ Append(s, e)[Len(s) + 1] = e /\ \A i \in 1 .. Len(s) : Append(s, e)[i] = s[i]
  BY <1>5, AppendProperties, LenProperties
<1>8. /\ parsed' \in [Config!Reader -> Seq(Config!Lines)] /\ at' \in [Config!Reader -> Nat]
      /\ parsed'[r] = Append(s, e) /\ at'[r] = n + 1
  BY <1>5, <1>6, <1>7 DEF ConfigInv
<1>9. Config!TypeOK'
  <2>1. ASSUME NEW q \in Config!Reader
        PROVE  /\ parsed'[q] \in Seq(Config!Lines)
               /\ at'[q] \in 0 .. Len(Content[onDisk']) + 1
               /\ Len(parsed'[q]) <= at'[q]
    <3>1. CASE q = r
      BY <1>5, <1>6, <1>7, <1>8, <3>1
    <3>2. CASE q # r
      BY <1>4, <1>6, <3>2 DEF ConfigInv, Config!TypeOK
    <3>. QED BY <3>1, <3>2
  <2>. QED BY <1>4, <1>6, <2>1 DEF ConfigInv, Config!TypeOK
<1>10. ASSUME NEW k \in Key PROVE Collected(r, k)'
  <2>1. CASE e.key = k
    <3>1. IsLast(Len(s) + 1, Mine(Append(s, e), k)) /\ IsLast(n, LinesOf(f, n, k))
      BY <1>5, <2>1, MineAppended, LinesOfNext
    <3>2. IsLast(n, LinesOf(f, (n + 1) - 1, k))
      BY <1>5, <3>1
    <3>3. IsLast(Len(s) + 1, Mine(parsed[r], k))'
      BY <1>8, <3>1 DEF IsLast, Mine
    <3>4. IsLast(n, LinesOf(onDisk, at[r] - 1, k))'
      BY <1>6, <1>8, <3>2 DEF IsLast, LinesOf
    <3>. QED BY <1>5, <1>6, <1>7, <1>8, <3>3, <3>4 DEF Collected
  <2>2. CASE e.key # k
    <3>1. Mine(Append(s, e), k) = Mine(s, k) /\ LinesOf(f, n, k) = LinesOf(f, n - 1, k)
      BY <1>5, <2>2, MineAppended, LinesOfNext
    <3>2. LinesOf(f, (n + 1) - 1, k) = LinesOf(f, n - 1, k)
      BY <1>5, <3>1
    <3>3. Mine(parsed[r], k)' = Mine(parsed[r], k)
      BY <1>2, <1>8, <3>1 DEF Mine
    <3>4. LinesOf(onDisk, at[r] - 1, k)' = LinesOf(onDisk, at[r] - 1, k)
      BY <1>3, <1>4, <1>6, <1>8, <3>2 DEF LinesOf
    <3>5. Collected(r, k)
      BY <1>3, <1>5 DEF ConfigInv, Reading
    <3>6. ASSUME NEW i \in Nat, IsLast(i, Mine(parsed[r], k)) PROVE parsed'[r][i] = parsed[r][i]
      BY <1>2, <1>7, <1>8, <3>6 DEF IsLast, Mine
    <3>7. ASSUME NEW i \in Nat, IsLast(i, Mine(parsed[r], k))
          PROVE  IsLast(i, Mine(parsed[r], k))'
      BY <3>3, <3>7 DEF IsLast
    <3>8. ASSUME NEW j \in Nat, IsLast(j, LinesOf(onDisk, at[r] - 1, k))
          PROVE  IsLast(j, LinesOf(onDisk, at[r] - 1, k))'
      BY <3>4, <3>8 DEF IsLast
    <3>9. CASE Mine(parsed[r], k) = {} /\ (cut[r] \/ LinesOf(onDisk, at[r] - 1, k) = {})
      BY <1>6, <3>3, <3>4, <3>9 DEF Collected
    <3>10. ASSUME NEW i \in Nat, IsLast(i, Mine(parsed[r], k)), cut[r] PROVE Collected(r, k)'
      BY <1>6, <3>7, <3>10 DEF Collected
    <3>11. ASSUME NEW i \in Nat, IsLast(i, Mine(parsed[r], k)),
                  NEW j \in Nat, IsLast(j, LinesOf(onDisk, at[r] - 1, k)),
                  parsed[r][i].value = Content[onDisk][j].value
           PROVE  Collected(r, k)'
      <4>1. parsed'[r][i].value = Content[onDisk'][j].value
        BY <1>4, <1>6, <3>6, <3>11
      <4>. QED BY <3>7, <3>8, <3>11, <4>1 DEF Collected
    <3>. QED BY <3>5, <3>9, <3>10, <3>11 DEF Collected
  <2>. QED BY <2>1, <2>2
<1>11. Reading(r)'
  <2>1. cut[r] \/ \A i \in 1 .. n - 1 : Content[f][i].kind \in {"pair", "empty"}
    BY <1>3, <1>4, <1>5 DEF ConfigInv, Reading
  <2>2. cut[r] \/ \A i \in 1 .. (n + 1) - 1 : Content[f][i].kind \in {"pair", "empty"}
    BY <1>5, <2>1
  <2>. QED BY <1>6, <1>8, <1>10, <2>2 DEF Reading
<1>12. ASSUME NEW q \in Config!Reader, q # r PROVE Reading(q)'
  BY <1>4, <1>6, <1>12, ReadingKept DEF ConfigInv
<1>13. ASSUME NEW q \in Config!Reader, NEW k \in Key PROVE FromFile(q, k)'
  BY FromFileKept DEF ConfigInv
<1>14. Config!MemoryFromOneFile'
  BY DEF ConfigInv, Config!MemoryFromOneFile
<1>. QED BY <1>8, <1>9, <1>11, <1>12, <1>13, <1>14 DEF ConfigInv

LEMMA SkipLineKeeps ==
  ASSUME Files, ConfigInv, NEW r \in Config!Reader, Config!SkipLine(r)
  PROVE  ConfigInv'
<1>. USE DEF Config!SkipLine
<1>1. PICK n : n = at[r]
  OBVIOUS
<1>2. PICK f : f = onDisk
  OBVIOUS
<1>3. /\ Content[f][n].kind = "empty"
      /\ n \in Nat /\ n > 0 /\ n <= Len(Content[f]) /\ Len(Content[f]) \in Nat
  BY <1>1, <1>2, NextLineTyped DEF Config!NextLine
<1>4. /\ at' = [at EXCEPT ![r] = n + 1] /\ at'[r] = n + 1 /\ at' \in [Config!Reader -> Nat]
      /\ onDisk' = f /\ values' = values /\ parsed' = parsed
      /\ last' = last /\ source' = source /\ cut' = cut
  BY <1>1, <1>2, <1>3 DEF ConfigInv
<1>5. Config!TypeOK'
  <2>1. ASSUME NEW q \in Config!Reader
        PROVE  /\ parsed'[q] \in Seq(Config!Lines)
               /\ at'[q] \in 0 .. Len(Content[onDisk']) + 1
               /\ Len(parsed'[q]) <= at'[q]
    <3>1. /\ parsed[q] \in Seq(Config!Lines) /\ Len(parsed[q]) \in Nat
          /\ at[q] \in 0 .. Len(Content[f]) + 1 /\ Len(parsed[q]) <= at[q]
      BY <1>2, LenProperties DEF ConfigInv, Config!TypeOK
    <3>2. CASE q = r
      BY <1>1, <1>3, <1>4, <3>1, <3>2
    <3>3. CASE q # r
      BY <1>4, <3>1, <3>3 DEF ConfigInv
    <3>. QED BY <3>2, <3>3
  <2>. QED BY <1>2, <1>4, <2>1 DEF ConfigInv, Config!TypeOK
<1>6. ASSUME NEW k \in Key PROVE Collected(r, k)'
  <2>1. LinesOf(f, n, k) = LinesOf(f, n - 1, k)
    BY <1>3, LinesOfNext
  <2>2. LinesOf(f, (n + 1) - 1, k) = LinesOf(f, n - 1, k)
    BY <1>3, <2>1
  <2>3. LinesOf(onDisk, at[r] - 1, k)' = LinesOf(onDisk, at[r] - 1, k)
    BY <1>1, <1>2, <1>4, <2>2 DEF LinesOf
  <2>4. Collected(r, k)
    BY <1>1, <1>3 DEF ConfigInv, Reading
  <2>. QED BY <1>2, <1>4, <2>3, <2>4 DEF Collected, IsLast, Mine
<1>7. Reading(r)'
  <2>1. cut[r] \/ \A i \in 1 .. n - 1 : Content[f][i].kind \in {"pair", "empty"}
    BY <1>1, <1>2, <1>3 DEF ConfigInv, Reading
  <2>2. cut[r] \/ \A i \in 1 .. (n + 1) - 1 : Content[f][i].kind \in {"pair", "empty"}
    BY <1>3, <2>1
  <2>. QED BY <1>4, <1>6, <2>2 DEF Reading
<1>8. ASSUME NEW q \in Config!Reader, q # r PROVE Reading(q)'
  BY <1>2, <1>4, <1>8, ReadingKept DEF ConfigInv
<1>9. ASSUME NEW q \in Config!Reader, NEW k \in Key PROVE FromFile(q, k)'
  BY FromFileKept DEF ConfigInv
<1>10. Config!MemoryFromOneFile'
  BY DEF ConfigInv, Config!MemoryFromOneFile
<1>. QED BY <1>4, <1>5, <1>7, <1>8, <1>9, <1>10 DEF ConfigInv

(* A call that returns without having changed the values.                  *)
LEMMA ReturnKeeps ==
  ASSUME Files, ConfigInv, NEW r \in Config!Reader, NEW ok \in BOOLEAN,
         Config!LoadReturns(r, ok), UNCHANGED <<onDisk, values, source, cut>>
  PROVE  ConfigInv'
<1>. USE DEF Config!LoadReturns
<1>1. onDisk \in File /\ Len(Content[onDisk]) \in Nat
  BY LenProperties DEF Files, ConfigInv, Config!TypeOK
<1>2. Config!TypeOK'
  BY <1>1, EmptySeq DEF ConfigInv, Config!TypeOK
<1>3. parsed' \in [Config!Reader -> Seq(Config!Lines)] /\ at' \in [Config!Reader -> Nat]
  BY EmptySeq DEF ConfigInv
<1>4. Reading(r)'
  BY DEF ConfigInv, Reading
<1>5. ASSUME NEW q \in Config!Reader, q # r PROVE Reading(q)'
  BY <1>5, ReadingKept DEF ConfigInv
<1>6. ASSUME NEW q \in Config!Reader, NEW k \in Key PROVE FromFile(q, k)'
  BY FromFileKept DEF ConfigInv
<1>7. Config!MemoryFromOneFile'
  BY DEF ConfigInv, Config!MemoryFromOneFile
<1>. QED BY <1>2, <1>3, <1>4, <1>5, <1>6, <1>7 DEF ConfigInv

LEMMA ReadFailsKeeps ==
  ASSUME Files, ConfigInv, NEW r \in Config!Reader, Config!ReadFails(r)
  PROVE  ConfigInv'
<1>. USE DEF Config!ReadFails
<1>1. PICK end : end = Len(Content[onDisk])
  OBVIOUS
<1>2. at[r] \in Nat /\ at[r] > 0 /\ at[r] <= end /\ end \in Nat
  BY <1>1, NextLineTyped
<1>3. /\ at' = [at EXCEPT ![r] = end + 1] /\ at'[r] = end + 1 /\ at' \in [Config!Reader -> Nat]
      /\ cut' = [cut EXCEPT ![r] = TRUE] /\ cut'[r]
      /\ onDisk' = onDisk /\ values' = values /\ parsed' = parsed /\ last' = last /\ source' = source
  BY <1>1, <1>2 DEF ConfigInv, Config!TypeOK
<1>4. Config!TypeOK'
  <2>1. ASSUME NEW q \in Config!Reader
        PROVE  /\ parsed'[q] \in Seq(Config!Lines)
               /\ at'[q] \in 0 .. Len(Content[onDisk']) + 1
               /\ Len(parsed'[q]) <= at'[q]
    <3>1. /\ parsed[q] \in Seq(Config!Lines) /\ Len(parsed[q]) \in Nat
          /\ at[q] \in 0 .. end + 1 /\ Len(parsed[q]) <= at[q]
      BY <1>1, LenProperties DEF ConfigInv, Config!TypeOK
    <3>2. CASE q = r
      BY <1>1, <1>2, <1>3, <3>1, <3>2
    <3>3. CASE q # r
      BY <1>1, <1>3, <3>1, <3>3 DEF ConfigInv
    <3>. QED BY <3>2, <3>3
  <2>. QED BY <1>3, <2>1 DEF ConfigInv, Config!TypeOK
<1>5. Reading(r)'
  <2>1. ASSUME NEW k \in Key PROVE Collected(r, k)'
    <3>1. Collected(r, k)
      BY <1>2 DEF ConfigInv, Reading
    <3>. QED BY <1>3, <3>1 DEF Collected, Mine, IsLast
  <2>. QED BY <1>3, <2>1 DEF Reading
<1>6. ASSUME NEW q \in Config!Reader, q # r PROVE Reading(q)'
  BY <1>3, <1>6, ReadingKept DEF ConfigInv, Config!TypeOK
<1>7. ASSUME NEW q \in Config!Reader, NEW k \in Key PROVE FromFile(q, k)'
  BY FromFileKept DEF ConfigInv
<1>8. Config!MemoryFromOneFile'
  BY DEF ConfigInv, Config!MemoryFromOneFile
<1>. QED BY <1>3, <1>4, <1>5, <1>6, <1>7, <1>8 DEF ConfigInv

LEMMA StoreKeeps ==
  ASSUME Files, ConfigInv, NEW k \in Key,
         NEW text \in Config!Text \cup {"true", "false", NoText}, Config!Store(k, text)
  PROVE  ConfigInv'
<1>. USE DEF Config!Store
<1>1. Config!TypeOK'
  <2>1. values' \in [Config!Reader -> [Key -> Config!Text \cup {"true", "false", NoText}]]
    BY DEF ConfigInv, Config!TypeOK
  <2>2. source' \in [Config!Reader -> [Key -> File \cup {NoFile}]]
    BY DEF ConfigInv, Config!TypeOK
  <2>. QED BY <2>1, <2>2 DEF ConfigInv, Config!TypeOK
<1>2. ASSUME NEW q \in Config!Reader PROVE Reading(q)'
  BY ReadingKept DEF ConfigInv
<1>3. ASSUME NEW q \in Config!Reader, NEW l \in Key PROVE FromFile(q, l)'
  <2>1. CASE q = "database" /\ l = k
    BY <2>1 DEF FromFile, ConfigInv, Config!TypeOK
  <2>2. CASE ~(q = "database" /\ l = k)
    <3>1. source'[q][l] = source[q][l] /\ values'[q][l] = values[q][l]
      BY <2>2 DEF ConfigInv, Config!TypeOK
    <3>. QED BY <3>1, FromFileKept DEF ConfigInv
  <2>. QED BY <2>1, <2>2
<1>4. source'["memory"] = source["memory"]
  BY DEF ConfigInv, Config!TypeOK
<1>5. Config!MemoryFromOneFile'
  BY <1>4 DEF ConfigInv, Config!MemoryFromOneFile
<1>. QED BY <1>1, <1>2, <1>3, <1>5 DEF ConfigInv

LEMMA EditKeeps ==
  ASSUME Files, ConfigInv, NEW f \in File, Config!Edit(f)
  PROVE  ConfigInv'
<1>. USE DEF Config!Edit
<1>1. Len(Content[f]) \in Nat
  BY LenProperties DEF Files
<1>2. Config!TypeOK'
  BY <1>1 DEF ConfigInv, Config!TypeOK
<1>3. ASSUME NEW q \in Config!Reader PROVE Reading(q)'
  BY DEF Reading
<1>4. ASSUME NEW q \in Config!Reader, NEW k \in Key PROVE FromFile(q, k)'
  BY FromFileKept DEF ConfigInv
<1>5. Config!MemoryFromOneFile'
  BY DEF ConfigInv, Config!MemoryFromOneFile
<1>. QED BY <1>2, <1>3, <1>4, <1>5 DEF ConfigInv

(* A load that reaches the end: the values before it count only where the  *)
(* file says nothing, and there they stay what they were, or are nothing.  *)
LEMMA LoadSucceedsKeeps ==
  ASSUME Files, ConfigInv, NEW r \in Config!Reader, NEW old,
         \A k \in Key : old[k] \in Config!Text \cup {"true", "false", NoText},
         \A k \in Key : old[k] = NoText \/ (r = "database" /\ old[k] = values[r][k]),
         Config!LoadSucceeds(r, old)
  PROVE  ConfigInv'
<1>1. PICK s : s = parsed[r]
  OBVIOUS
<1>2. PICK f : f = onDisk
  OBVIOUS
<1>3. PICK end : end = Len(Content[f])
  OBVIOUS
<1>4. PICK new : new = [k \in Key |-> Config!LastText(s, k, old[k])]
  OBVIOUS
<1>5. PICK from : from =
        [k \in Key |-> IF \E i \in 1 .. Len(s) : s[i].key = k
                       THEN IF cut[r] THEN NoFile ELSE f
                       ELSE IF old[k] = NoText THEN NoFile ELSE source[r][k]]
  OBVIOUS
<1>6. /\ s \in Seq(Config!Lines) /\ Len(s) \in Nat
      /\ f \in File /\ end \in Nat /\ at[r] = end + 1
  BY <1>1, <1>2, <1>3, LenProperties DEF ConfigInv, Config!TypeOK, Files, Config!LoadSucceeds, Config!AtEnd
<1>7. /\ values' = [values EXCEPT ![r] = new] /\ source' = [source EXCEPT ![r] = from]
      /\ at' = [at EXCEPT ![r] = 0] /\ parsed' = [parsed EXCEPT ![r] = <<>>]
      /\ last' = [last EXCEPT ![r] = TRUE] /\ onDisk' = f /\ cut' = cut
  BY <1>1, <1>2, <1>4, <1>5 DEF Config!LoadSucceeds, Config!LoadReturns
<1>8. \A k \in Key : Collected(r, k)
  BY <1>6 DEF ConfigInv, Reading
<1>9. ASSUME NEW k \in Key, Mine(s, k) = {}
      PROVE  /\ new[k] = old[k]
             /\ from[k] = IF old[k] = NoText THEN NoFile ELSE source[r][k]
  <2>1. Config!LastText(s, k, old[k]) = old[k]
    BY <1>6, <1>9, LastTextIs
  <2>2. ~ \E i \in 1 .. Len(s) : s[i].key = k
    BY <1>9 DEF Mine
  <2>. QED BY <1>4, <1>5, <2>1, <2>2
<1>10. ASSUME NEW k \in Key, NEW i \in Nat, IsLast(i, Mine(s, k))
       PROVE  /\ new[k] = s[i].value
              /\ from[k] = IF cut[r] THEN NoFile ELSE f
              /\ s[i].value \in Config!Text \cup {NoText}
  <2>1. Config!LastText(s, k, old[k]) = s[i].value
    BY <1>6, <1>10, LastTextIs
  <2>2. i \in 1 .. Len(s) /\ s[i].key = k
    BY <1>10 DEF IsLast, Mine
  <2>3. s[i] \in Config!Lines
    BY <1>6, <2>2, ElementOfSeq
  <2>4. s[i].value \in Config!Text \cup {NoText}
    <3>1. CASE \E l \in Key, t \in Config!Text : s[i] = Config!Pair(l, t)
      BY <3>1 DEF Config!Pair
    <3>2. CASE \E is \in {"empty", "no_separator", "empty_key"} : s[i] = Config!OtherLine(is)
      <4>1. PICK is : s[i] = Config!OtherLine(is)
        BY <3>2
      <4>2. Config!OtherLine(is).value = NoText
        BY DEF Config!OtherLine
      <4>. QED BY <4>1, <4>2
    <3>. QED BY <2>3, <3>1, <3>2 DEF Config!Lines
  <2>. QED BY <1>4, <1>5, <2>1, <2>2, <2>4
<1>11. ASSUME NEW k \in Key
       PROVE  /\ new[k] \in Config!Text \cup {"true", "false", NoText}
              /\ from[k] \in File \cup {NoFile}
              /\ r = "memory" => from[k] \in {f, NoFile}
  <2>1. source[r][k] \in File \cup {NoFile}
    BY DEF ConfigInv, Config!TypeOK
  <2>2. CASE Mine(s, k) = {}
    BY <1>9, <2>1, <2>2
  <2>3. ASSUME NEW i \in Nat, IsLast(i, Mine(s, k)) PROVE <1>11!2
    BY <1>6, <1>10, <2>3
  <2>. QED BY <1>1, <1>8, <2>2, <2>3 DEF Collected
<1>12. new \in [Key -> Config!Text \cup {"true", "false", NoText}]
  BY <1>4, <1>11
<1>13. from \in [Key -> File \cup {NoFile}]
  BY <1>5, <1>11
<1>14. Config!TypeOK'
  <2>1. values' \in [Config!Reader -> [Key -> Config!Text \cup {"true", "false", NoText}]]
    BY <1>7, <1>12 DEF ConfigInv, Config!TypeOK
  <2>2. source' \in [Config!Reader -> [Key -> File \cup {NoFile}]]
    BY <1>7, <1>13 DEF ConfigInv, Config!TypeOK
  <2>3. last' \in [Config!Reader -> BOOLEAN] /\ cut' \in [Config!Reader -> BOOLEAN] /\ onDisk' \in File
    BY <1>6, <1>7 DEF ConfigInv, Config!TypeOK
  <2>4. ASSUME NEW q \in Config!Reader
        PROVE  /\ parsed'[q] \in Seq(Config!Lines)
               /\ at'[q] \in 0 .. Len(Content[onDisk']) + 1
               /\ Len(parsed'[q]) <= at'[q]
    <3>1. CASE q = r
      BY <1>3, <1>6, <1>7, <3>1, EmptySeq DEF ConfigInv
    <3>2. CASE q # r
      BY <1>2, <1>7, <3>2 DEF ConfigInv, Config!TypeOK
    <3>. QED BY <3>1, <3>2
  <2>. QED BY <2>1, <2>2, <2>3, <2>4 DEF Config!TypeOK
<1>15. parsed' \in [Config!Reader -> Seq(Config!Lines)] /\ at' \in [Config!Reader -> Nat] /\ at'[r] = 0
  BY <1>7, EmptySeq DEF ConfigInv
<1>16. Reading(r)'
  BY <1>15 DEF Reading
<1>17. ASSUME NEW q \in Config!Reader, q # r PROVE Reading(q)'
  BY <1>2, <1>7, <1>17, ReadingKept DEF ConfigInv
<1>18. values'[r] = new /\ source'[r] = from
  BY <1>7 DEF ConfigInv, Config!TypeOK
<1>19. ASSUME NEW k \in Key PROVE FromFile(r, k)'
  <2>1. CASE from[k] = NoFile
    BY <1>18, <2>1 DEF FromFile
  <2>2. ASSUME Mine(s, k) = {}, from[k] # NoFile PROVE FromFile(r, k)'
    <3>1. source'[r][k] = source[r][k] /\ values'[r][k] = values[r][k]
      BY <1>9, <1>18, <2>2
    <3>2. FromFile(r, k)
      BY DEF ConfigInv
    <3>. QED BY <3>1, <3>2, FromFileKept
  <2>3. ASSUME NEW i \in Nat, IsLast(i, Mine(s, k)), from[k] # NoFile,
               cut[r] \/ \E j \in Nat : /\ IsLast(j, LinesOf(f, at[r] - 1, k))
                                        /\ s[i].value = Content[f][j].value
        PROVE  FromFile(r, k)'
    <3>1. /\ ~cut[r] /\ from[k] = f /\ new[k] = s[i].value
      BY <1>10, <2>3
    <3>2. PICK j \in Nat : IsLast(j, LinesOf(f, at[r] - 1, k)) /\ s[i].value = Content[f][j].value
      BY <2>3, <3>1
    <3>3. at[r] - 1 = end
      BY <1>6
    <3>4. IsLast(j, LinesOf(f, Len(Content[f]), k))
      BY <1>3, <3>2, <3>3
    <3>5. IsLast(j, LinesOf(source'[r][k], Len(Content[source'[r][k]]), k))
      BY <1>18, <3>1, <3>4
    <3>6. values'[r][k] = Content[source'[r][k]][j].value
      BY <1>18, <3>1, <3>2
    <3>. QED BY <3>5, <3>6 DEF FromFile, IsLast, LinesOf
  <2>4. Collected(r, k)
    BY <1>8
  <2>. QED BY <1>1, <1>2, <2>1, <2>2, <2>3, <2>4 DEF Collected
<1>20. ASSUME NEW q \in Config!Reader, q # r, NEW k \in Key PROVE FromFile(q, k)'
  BY <1>7, <1>20, FromFileKept DEF ConfigInv
<1>21. Config!MemoryFromOneFile'
  <2>1. CASE r = "memory"
    BY <1>6, <1>11, <1>18, <2>1 DEF Config!MemoryFromOneFile
  <2>2. CASE r # "memory"
    <3>1. source'["memory"] = source["memory"]
      BY <1>7, <2>2 DEF ConfigInv, Config!TypeOK, Config!Reader
    <3>. QED BY <3>1 DEF ConfigInv, Config!MemoryFromOneFile
  <2>. QED BY <2>1, <2>2
<1>. QED BY <1>14, <1>15, <1>16, <1>17, <1>19, <1>20, <1>21 DEF ConfigInv

LEMMA CannotOpenKeeps ==
  ASSUME Files, ConfigInv, NEW r \in Config!Reader, Config!CannotOpen(r)
  PROVE  ConfigInv'
<1>1. last' \in [Config!Reader -> BOOLEAN] /\ UNCHANGED <<onDisk, values, parsed, at, source, cut>>
  BY DEF Config!CannotOpen, ConfigInv, Config!TypeOK
<1>2. Config!TypeOK' /\ Config!MemoryFromOneFile'
  BY <1>1 DEF ConfigInv, Config!TypeOK, Config!MemoryFromOneFile
<1>3. ASSUME NEW q \in Config!Reader PROVE Reading(q)'
  BY <1>1, ReadingKept DEF ConfigInv
<1>4. ASSUME NEW q \in Config!Reader, NEW k \in Key PROVE FromFile(q, k)'
  BY <1>1, FromFileKept DEF ConfigInv
<1>. QED BY <1>1, <1>2, <1>3, <1>4 DEF ConfigInv

LEMMA NextConfig == Files /\ ConfigInv /\ [Config!Next]_(Config!vars) => ConfigInv'
<1>. SUFFICES ASSUME Files, ConfigInv, [Config!Next]_(Config!vars) PROVE ConfigInv'
  OBVIOUS
<1>1. ASSUME NEW r \in Config!Reader, Config!BeginLoad(r) PROVE ConfigInv'
  BY <1>1, BeginLoadKeeps
<1>2. ASSUME NEW r \in Config!Reader, Config!ReadPair(r) PROVE ConfigInv'
  BY <1>2, ReadPairKeeps
<1>3. ASSUME NEW r \in Config!Reader, Config!SkipLine(r) PROVE ConfigInv'
  BY <1>3, SkipLineKeeps
<1>4. ASSUME NEW r \in Config!Reader, Config!RefuseLine(r) PROVE ConfigInv'
  BY <1>4, ReturnKeeps DEF Config!RefuseLine
<1>5. ASSUME NEW r \in Config!Reader, Config!ReadFails(r) PROVE ConfigInv'
  BY <1>5, ReadFailsKeeps
<1>6. CASE Config!Replace
  <2>1. \A k \in Key : Config!Nothing[k] = NoText
    BY DEF Config!Nothing
  <2>2. "memory" \in Config!Reader /\ Config!LoadSucceeds("memory", Config!Nothing)
    BY <1>6 DEF Config!Reader, Config!Replace
  <2>. QED BY <2>1, <2>2, LoadSucceedsKeeps
<1>7. CASE Config!Merge
  <2>1. "database" \in Config!Reader /\ Config!LoadSucceeds("database", values["database"])
    BY <1>7 DEF Config!Reader, Config!Merge
  <2>2. \A k \in Key : values["database"][k] \in Config!Text \cup {"true", "false", NoText}
    BY <2>1 DEF ConfigInv, Config!TypeOK
  <2>. QED BY <2>1, <2>2, LoadSucceedsKeeps
<1>8. CASE Config!MergeFails
  BY <1>8, ReturnKeeps DEF Config!MergeFails, Config!Reader
<1>9. ASSUME NEW k \in Key, NEW text \in Config!Text, Config!SetString(k, text) PROVE ConfigInv'
  BY <1>9, StoreKeeps DEF Config!SetString
<1>10. ASSUME NEW k \in Key, NEW n \in 0 .. 1, Config!SetInt(k, n) PROVE ConfigInv'
  BY <1>10, StoreKeeps DEF Config!SetInt, Config!Text
<1>11. ASSUME NEW k \in Key, NEW b \in BOOLEAN, Config!SetBool(k, b) PROVE ConfigInv'
  BY <1>11, StoreKeeps DEF Config!SetBool
<1>12. ASSUME NEW k \in Key, Config!RemoveKey(k) PROVE ConfigInv'
  BY <1>12, StoreKeeps DEF Config!RemoveKey
<1>13. ASSUME NEW f \in File, Config!Edit(f) PROVE ConfigInv'
  BY <1>13, EditKeeps
<1>14. ASSUME NEW r \in Config!Reader, Config!CannotOpen(r) PROVE ConfigInv'
  BY <1>14, CannotOpenKeeps
<1>15. ASSUME UNCHANGED Config!vars PROVE ConfigInv'
  <2>1. Config!TypeOK' /\ Config!MemoryFromOneFile'
    BY <1>15 DEF Config!vars, ConfigInv, Config!TypeOK, Config!MemoryFromOneFile
  <2>2. ASSUME NEW q \in Config!Reader PROVE Reading(q)'
    BY <1>15, ReadingKept DEF Config!vars, ConfigInv
  <2>3. ASSUME NEW q \in Config!Reader, NEW k \in Key PROVE FromFile(q, k)'
    BY <1>15, FromFileKept DEF Config!vars, ConfigInv
  <2>. QED BY <1>15, <2>1, <2>2, <2>3 DEF Config!vars, ConfigInv
<1>. QED BY <1>1, <1>2, <1>3, <1>4, <1>5, <1>6, <1>7, <1>8, <1>9, <1>10, <1>11, <1>12, <1>13, <1>14, <1>15
         DEF Config!Next

LEMMA ConfigInvSpec == ASSUME Files PROVE Config!Spec => []ConfigInv
BY InitConfig, NextConfig, PTL DEF Config!Spec

\* A read that fails leaves the getters their defaults.
LEMMA NothingRead == ASSUME Files, NEW k \in Key PROVE Config!FailsToDefault(k)
<1>1. Config!Found("database", k, FALSE) = NoText
  BY DEF Config!Found
<1>. QED BY <1>1 DEF Files, Config!FailsToDefault, Config!Has, Config!GetString, Config!GetInt,
         Config!GetBool, Config!Text

LEMMA BothAlike == Files /\ ConfigInv => Config!ConfiguredAlike
<1>. SUFFICES ASSUME ConfigInv, NEW k \in Key,
                     source["memory"][k] = source["database"][k], source["memory"][k] # NoFile
              PROVE  values["memory"][k] = values["database"][k]
  BY NothingRead DEF ConfigInv, Config!ConfiguredAlike, Config!SameAnswers, Config!AnswersAlike,
     Config!Found, Config!Has, Config!GetString, Config!GetInt, Config!GetBool
<1>1. FromFile("memory", k) /\ FromFile("database", k)
  BY DEF ConfigInv, Config!Reader
<1>2. PICK S : S = LinesOf(source["memory"][k], Len(Content[source["memory"][k]]), k)
  OBVIOUS
<1>3. PICK i \in Nat : IsLast(i, S) /\ values["memory"][k] = Content[source["memory"][k]][i].value
  BY <1>1, <1>2 DEF FromFile
<1>4. PICK j \in Nat : IsLast(j, S) /\ values["database"][k] = Content[source["memory"][k]][j].value
  BY <1>1, <1>2 DEF FromFile
<1>5. i = j
  BY <1>3, <1>4 DEF IsLast
<1>. QED BY <1>3, <1>4, <1>5

\* A key that both implementations have from one file is answered alike by every
\* getter of both, but for a read of the store that fails and is answered by the
\* default; and memory holds nothing older than the file loaded last: for any
\* keys and any files, with lines in any number and order.
THEOREM BothReadAlike ==
  ASSUME Content \in [File -> Seq(Config!Lines)], NoFile \notin File,
         NoText \notin Config!Text \cup {"true", "false"}
  PROVE  Config!Spec => []ConfiguredAlike
<1>1. Files
  BY DEF Files
<1>2. ConfigInv => Config!ConfiguredAlike
  BY <1>1, BothAlike
<1>. QED BY <1>1, <1>2, ConfigInvSpec, PTL DEF ConfiguredAlike

LEMMA LoadIsWhole ==
  ASSUME Files, ConfigInv, Config!Next, NEW r \in Config!Reader,
         at[r] # 0, values'[r] # values[r]
  PROVE  at'[r] = 0 /\ (Config!WellFormed(onDisk) \/ cut[r])
<1>1. ASSUME NEW q \in Config!Reader, NEW old, Config!LoadSucceeds(q, old)
      PROVE  at'[r] = 0 /\ (Config!WellFormed(onDisk) \/ cut[r])
  <2>1. q = r
    BY <1>1 DEF Config!LoadSucceeds, ConfigInv, Config!TypeOK
  <2>2. at'[r] = 0
    BY <1>1, <2>1 DEF Config!LoadSucceeds, Config!LoadReturns, ConfigInv
  <2>3. PICK end \in Nat : end = Len(Content[onDisk]) /\ at[r] = end + 1
    BY <1>1, <2>1, LenProperties DEF Config!LoadSucceeds, Config!AtEnd, Files, ConfigInv, Config!TypeOK
  <2>4. at[r] > 0 /\ at[r] - 1 = end
    BY <2>3
  <2>5. cut[r] \/ \A i \in 1 .. end : Content[onDisk][i].kind \in {"pair", "empty"}
    BY <2>4 DEF ConfigInv, Reading
  <2>. QED BY <2>2, <2>3, <2>5 DEF Config!WellFormed
<1>2. CASE Config!Replace \/ Config!Merge
  BY <1>1, <1>2 DEF Config!Replace, Config!Merge, Config!Reader
<1>3. ASSUME NEW k \in Key, NEW text, Config!Store(k, text) PROVE FALSE
  <2>1. r # "database"
    BY <1>3 DEF Config!Store
  <2>. QED BY <1>3, <2>1 DEF Config!Store, ConfigInv, Config!TypeOK
<1>4. \/ values' = values
      \/ Config!Replace \/ Config!Merge
      \/ \E k \in Key : \E text \in Config!Text \cup {"true", "false", NoText} : Config!Store(k, text)
  BY DEF Config!Next, Config!BeginLoad, Config!ReadPair, Config!SkipLine, Config!RefuseLine,
     Config!ReadFails, Config!CannotOpen, Config!MergeFails, Config!Edit, Config!SetString, Config!SetInt,
     Config!SetBool, Config!RemoveKey, Config!Text
<1>. QED BY <1>2, <1>3, <1>4

\* A load changes the values only when it returns, and only for a file that
\* parses to its last line, or that could not be read to its end.
THEOREM LoadsAreWhole ==
  ASSUME Content \in [File -> Seq(Config!Lines)], NoFile \notin File,
         NoText \notin Config!Text \cup {"true", "false"}
  PROVE  Config!Spec => WholeFilesOnly
<1>1. Files
  BY DEF Files
<1>2. ConfigInv /\ [Config!Next]_(Config!vars) =>
        [\A r \in Config!Reader :
           at[r] # 0 /\ values'[r] # values[r]
             => at'[r] = 0 /\ (Config!WellFormed(onDisk) \/ cut[r])]_(Config!vars)
  BY <1>1, LoadIsWhole
<1>. QED BY <1>1, <1>2, ConfigInvSpec, PTL DEF Config!Spec, Config!WholeFilesOnly, WholeFilesOnly
=============================================================================
