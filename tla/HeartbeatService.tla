-------------------------- MODULE HeartbeatService --------------------------
(***************************************************************************)
(* A whole service process: main() of sample_service and of                *)
(* storage_config_service, which run their heartbeat workers through a     *)
(* ThreadManager under a ServiceApplication.  This module composes the two *)
(* components: it says what the thread in run() does inside each operation *)
(* of the service, where ServiceApplication leaves any outcome open, and   *)
(* what the worker threads do, where ThreadManager does.                   *)
(* The two services differ in where they join: SampleService in stop(),    *)
(* StorageConfigService in deinitialize().                                 *)
(***************************************************************************)
EXTENDS ServiceApplication, Sequences

CONSTANT Heartbeats    \* the names of the workers, in the order they start

ASSUME HeartbeatsAssumption ==
  /\ Heartbeats \in Seq(STRING) \ {<<>>}
  /\ \A i \in 1 .. Len(Heartbeats) : Heartbeats[i] # "main"

\* main() calls run() once.
ASSUME OneRunAssumption == MaxRuns = 1

VARIABLES
  kind,          \* which of the two services this process runs
  workerCount,   \* workerCount_, read from the configuration
  started,       \* workers that start() has started
  body,          \* where the thread is inside the current operation
  threads, status, stopRequested, joining, inJoin, asked, awaited, life

threadVars ==
  <<threads, status, stopRequested, joining, inJoin, asked, awaited, life>>
serviceVars == <<kind, workerCount, started, body>>
processVars == <<vars, threadVars, serviceVars>>

Main == "main"
HeartbeatNames == {Heartbeats[i] : i \in 1..Len(Heartbeats)}

T == INSTANCE ThreadManager
       WITH Worker <- HeartbeatNames, NameOf <- [w \in HeartbeatNames |-> w],
            Client <- {Main}, Owner <- Main, WorkerOps <- {}

ProcessTypeOK ==
  /\ TypeOK
  /\ T!TypeOK
  /\ kind \in {"sample", "storage"}
  /\ workerCount \in 0..Len(Heartbeats)
  /\ started \in 0..workerCount
  /\ body \in {"enter", "requested", "joining", "joined"}

ProcessInit ==
  /\ Init
  /\ T!Init
  /\ kind \in {"sample", "storage"}
  /\ workerCount = 0
  /\ started = 0
  /\ body = "enter"
-----------------------------------------------------------------------------
(* What is common to both services.                                        *)

\* A step of run() outside the operations of the service.
RunsOutsideService ==
  /\ BeginRun \/ LoadConfiguration \/ (\E ok \in BOOLEAN : InstallHandlers(ok))
              \/ BeginStart \/ CheckShutdown \/ WakeUp
  /\ UNCHANGED <<threadVars, serviceVars>>

\* SampleService corrects a worker count below 1, StorageConfigService uses it
\* as it is; only the latter can fail, when its database does not open.
ServiceInitialize ==
  /\ \/ /\ InitializeReturns("true")
        /\ workerCount' \in (IF kind = "sample" THEN 1 ELSE 0)..Len(Heartbeats)
     \/ /\ kind = "storage"
        /\ InitializeReturns("false")
        /\ UNCHANGED workerCount
  /\ UNCHANGED <<kind, started, body, threadVars>>

StartWorker ==
  /\ pc = "start"
  /\ started < workerCount
  /\ T!StartThread(Main, Heartbeats[started + 1])
  /\ started' = started + 1
  /\ UNCHANGED <<vars, kind, workerCount, body>>

\* The std::thread of the next worker cannot be created.
StartThrows ==
  /\ started < workerCount
  /\ StartReturns("threw")
  /\ UNCHANGED <<threadVars, serviceVars>>

ServiceStart ==
  /\ started = workerCount
  /\ StartReturns("true")
  /\ UNCHANGED <<threadVars, serviceVars>>

\* threads_.joinAll() as a call made by one of the operations.
JoinWorkers ==
  /\ UNCHANGED <<vars, kind, workerCount, started>>
  /\ \/ T!JoinAll(Main) /\ body' = "joining"
     \/ T!JoinNext(Main) /\ UNCHANGED body
     \/ T!JoinReturns(Main) /\ body' = "joined"
-----------------------------------------------------------------------------
(* The operations the two services implement differently.                  *)

\* Mutant of StopRequestsStop: stop() goes straight to its next statement.
StopForgetsRequest ==
  /\ pc = "stop"
  /\ body = "enter"
  /\ body' = "requested"
  /\ UNCHANGED <<vars, threadVars, kind, workerCount, started>>

StopRequestsStop ==
  /\ pc = "stop"
  /\ body = "enter"
  /\ T!RequestStop(Main)
  /\ body' = "requested"
  /\ UNCHANGED <<vars, kind, workerCount, started>>

SampleStopJoins ==
  /\ kind = "sample"
  /\ pc = "stop"
  /\ body \in {"requested", "joining"}
  /\ JoinWorkers

ServiceStop ==
  /\ body = (IF kind = "sample" THEN "joined" ELSE "requested")
  /\ StopReturns("true")
  /\ body' = "enter"
  /\ UNCHANGED <<kind, workerCount, started, threadVars>>

StorageDeinitializeJoins ==
  /\ kind = "storage"
  /\ pc \in {"deinitialize", "cleanup"}
  /\ body \in {"enter", "joining"}
  /\ JoinWorkers

\* Mutant of ServiceDeinitialize: neither service joins in deinitialize().
DeinitializeWithoutJoin ==
  /\ body = "enter"
  /\ DeinitializeReturns("true") \/ CleanupReturns("true")
  /\ UNCHANGED <<kind, workerCount, started, body, threadVars>>

ServiceDeinitialize ==
  /\ kind = "storage" => body = "joined"
  /\ DeinitializeReturns("true") \/ CleanupReturns("true")
  /\ body' = "enter"
  /\ UNCHANGED <<kind, workerCount, started, threadVars>>
-----------------------------------------------------------------------------
\* A heartbeat loop ends only when it finds its flag raised.
HeartbeatEnds(w) ==
  /\ pc # "killed"
  /\ stopRequested[w]
  /\ T!WorkerExits(w)
  /\ UNCHANGED <<vars, serviceVars>>

\* main() returns from run() and destroys the service, its ThreadManager last.
DestroyService ==
  /\ pc = "exited"
  /\ runs = MaxRuns
  /\ \/ T!DestructorRequestsStop
     \/ T!DestructorJoins
     \/ T!JoinNext(Main)
     \/ T!DestructorReturns
  /\ UNCHANGED <<vars, serviceVars>>

EnvironmentActs ==
  /\ life # "destroyed"
  /\ Environment
  /\ UNCHANGED <<threadVars, serviceVars>>

MainStep ==
  \/ RunsOutsideService
  \/ ServiceInitialize
  \/ StartWorker
  \/ StartThrows
  \/ ServiceStart
  \/ StopRequestsStop
  \/ SampleStopJoins
  \/ ServiceStop
  \/ StorageDeinitializeJoins
  \/ ServiceDeinitialize
  \/ DestroyService

ProcessNext ==
  \/ MainStep
  \/ \E w \in HeartbeatNames : HeartbeatEnds(w)
  \/ EnvironmentActs

\* Both the main thread and the workers are scheduled.
ProcessFairness ==
  /\ WF_processVars(MainStep)
  /\ \A w \in HeartbeatNames : WF_processVars(HeartbeatEnds(w))

ProcessSpec == ProcessInit /\ [][ProcessNext]_processVars /\ ProcessFairness
-----------------------------------------------------------------------------
\* state() = Stopped, the exit code 0 and the end of main() each promise that
\* no worker runs any more: although run() knows nothing of threads and the
\* two services join them in different operations.
WorkersGoneWhenStopped ==
  (state = "Stopped" \/ life = "destroyed") => T!Running = {}

\* A worker runs only in a process whose start() is in progress, or succeeded,
\* or left workers behind when it failed: and then the failure is reported.
WorkersAccountedFor ==
  (T!Running # {} /\ pc = "exited") => (state = "Failed" /\ exitCode = 5)

\* Nobody loses sight of a worker.
WorkersTracked == ProcessTypeOK /\ WorkersGoneWhenStopped /\ WorkersAccountedFor

\* A process that was asked to stop once its service had started, and a
\* sample_service in any case, ends: main() returns with all workers joined.
ShutdownCompletes ==
  (requested /\ pc \in InRun /\ (kind = "sample" \/ returned["start"] = "true"))
     ~> (life = "destroyed" \/ pc = "killed")

\* "All worker threads must exit during service shutdown"
\* (ELAP_Phase1_HLD.md): a process whose service failed to start, or was asked
\* to stop, is not left with running workers for ever.
WorkersExitAtShutdown ==
  (pc \in {"cleanup", "stop", "deinitialize"})
     ~> (T!Running = {} \/ pc = "killed")
=============================================================================
