------------------------- MODULE ServiceApplication -------------------------
(***************************************************************************)
(* elap::service::ServiceApplication::run(): the thread that drives one    *)
(* IService through its lifecycle, against                                 *)
(*   - a service whose operations may succeed, fail or throw,              *)
(*   - a configuration file that may be absent, malformed or valid, and    *)
(*   - signals and programmatic shutdown requests that arrive at any       *)
(*     moment, before, between and after the steps of run().               *)
(* A process may call run() several times, on a new ServiceApplication or  *)
(* on one it has used before; the shutdown flag outlives both.             *)
(***************************************************************************)
EXTENDS SignalHandler, Naturals

CONSTANT MaxRuns       \* bound on the calls of run() in one process

ASSUME MaxRunsAssumption == MaxRuns \in Nat \ {0}

VARIABLES
  state,       \* state_: what state() returns to other threads
  pc,          \* where the thread in run() is
  config,      \* the file selectConfigPath picked for this run
  returned,    \* how each IService operation returned in this run
  calls,       \* how often each IService operation was called in this run
  exitCode,    \* what run() returned, or will return once it has cleaned up
  requested,   \* history: shutdown was requested since this run began
  runs         \* calls of run() so far

appVars == <<state, pc, config, returned, calls, exitCode, requested, runs>>
vars == <<signalVars, appVars>>

ServiceState == {"Created", "Initializing", "Initialized", "Starting",
                 "Running", "Stopping", "Stopped", "Failed"}
Operation == {"initialize", "start", "stop", "deinitialize"}
Result == {"not_called", "true", "false", "threw"}
ConfigFile == {"absent", "malformed", "valid"}
ConfigSelection == [explicit : BOOLEAN, file : ConfigFile]

\* "initialize", "start", "stop", "deinitialize": inside that service call.
\* "cleanup": inside the deinitialize() of a failure path.
\* "check" and "asleep": the two halves of the wait loop.
\* "killed": a signal found no handler and the kernel ended the process.
InRun == {"config", "install", "initialize", "initialized", "start",
          "check", "asleep", "stop", "deinitialize", "cleanup"}
ControlPoint == InRun \cup {"exited", "killed"}

TypeOK ==
  /\ SignalTypeOK
  /\ state \in ServiceState
  /\ pc \in ControlPoint
  /\ config \in ConfigSelection
  /\ returned \in [Operation -> Result]
  /\ calls \in [Operation -> Nat]
  /\ exitCode \in 0..7
  /\ requested \in BOOLEAN
  /\ runs \in 0..MaxRuns

Init ==
  /\ SignalInit
  /\ state = "Created"
  /\ pc = "exited"
  /\ config \in ConfigSelection
  /\ returned = [op \in Operation |-> "not_called"]
  /\ calls = [op \in Operation |-> 0]
  /\ exitCode = 0
  /\ requested = FALSE
  /\ runs = 0
-----------------------------------------------------------------------------
(* Steps of run().                                                         *)

\* Records the return of one service operation.
Return(op, result) ==
  /\ returned' = [returned EXCEPT ![op] = result]
  /\ calls' = [calls EXCEPT ![op] = @ + 1]

\* setState(Failed); return code.
FailWith(code) ==
  /\ state' = "Failed"
  /\ exitCode' = code
  /\ pc' = "exited"

\* The failure paths that call deinitialize() before they fail.
CleanUpThenFail(code) ==
  /\ exitCode' = code
  /\ pc' = "cleanup"
  /\ UNCHANGED state

\* Entry of run(): the pending request of an earlier run is discarded first.
BeginRun ==
  /\ pc = "exited"
  /\ runs < MaxRuns
  /\ ClearShutdownRequest
  /\ config' \in ConfigSelection
  /\ state' \in {"Created", state}
  /\ pc' = "config"
  /\ returned' = [op \in Operation |-> "not_called"]
  /\ calls' = [op \in Operation |-> 0]
  /\ exitCode' = 0
  /\ requested' = FALSE
  /\ runs' = runs + 1

\* loadFromFile fails alike on an absent and on a malformed file, and only a
\* path given with --config makes the failure fatal.
LoadConfiguration ==
  /\ pc = "config"
  /\ IF config.explicit /\ config.file # "valid"
     THEN FailWith(2)
     ELSE pc' = "install" /\ UNCHANGED <<state, exitCode>>
  /\ UNCHANGED <<signalVars, config, returned, calls, requested, runs>>

\* Mutant of InstallHandlers: the flag is cleared here, and not on entry.
InstallThenClear(ok) ==
  /\ pc = "install"
  /\ shutdownRequested' = FALSE
  /\ installed' = IF ok THEN Signals ELSE installed
  /\ \/ /\ ok
        /\ state' = "Initializing"
        /\ pc' = "initialize"
        /\ UNCHANGED exitCode
     \/ ~ok /\ FailWith(3)
  /\ UNCHANGED <<config, returned, calls, requested, runs>>

InstallHandlers(ok) ==
  /\ pc = "install"
  /\ Install(ok)
  /\ \/ /\ ok
        /\ state' = "Initializing"
        /\ pc' = "initialize"
        /\ UNCHANGED exitCode
     \/ ~ok /\ FailWith(3)
  /\ UNCHANGED <<config, returned, calls, requested, runs>>

\* Mutant of InitializeReturns: a service that returns false is not cleaned up.
InitializeFailsDirtily(result) ==
  /\ pc = "initialize"
  /\ Return("initialize", result)
  /\ \/ /\ result = "true"
        /\ state' = "Initialized"
        /\ pc' = "initialized"
        /\ UNCHANGED exitCode
     \/ result # "true" /\ FailWith(4)
  /\ UNCHANGED <<signalVars, config, requested, runs>>

\* A service that throws out of initialize() is not deinitialized; one that
\* returns false is.
InitializeReturns(result) ==
  /\ pc = "initialize"
  /\ Return("initialize", result)
  /\ \/ /\ result = "true"
        /\ state' = "Initialized"
        /\ pc' = "initialized"
        /\ UNCHANGED exitCode
     \/ result = "false" /\ CleanUpThenFail(4)
     \/ result = "threw" /\ FailWith(4)
  /\ UNCHANGED <<signalVars, config, requested, runs>>

BeginStart ==
  /\ pc = "initialized"
  /\ state' = "Starting"
  /\ pc' = "start"
  /\ UNCHANGED <<signalVars, config, returned, calls, exitCode, requested, runs>>

StartReturns(result) ==
  /\ pc = "start"
  /\ Return("start", result)
  /\ \/ /\ result = "true"
        /\ state' = "Running"
        /\ pc' = "check"
        /\ UNCHANGED exitCode
     \/ result # "true" /\ CleanUpThenFail(5)
  /\ UNCHANGED <<signalVars, config, requested, runs>>

\* The wait loop reads the flag, and sleeps on shutdownCv_ when it is clear.
\* The request can arrive between the two; nobody notifies the variable.
CheckShutdown ==
  /\ pc = "check"
  /\ IF shutdownRequested
     THEN state' = "Stopping" /\ pc' = "stop"
     ELSE pc' = "asleep" /\ UNCHANGED state
  /\ UNCHANGED <<signalVars, config, returned, calls, exitCode, requested, runs>>

\* wait_for returns after 250 ms (or spuriously).
WakeUp ==
  /\ pc = "asleep"
  /\ pc' = "check"
  /\ UNCHANGED <<signalVars, state, config, returned, calls, exitCode,
                 requested, runs>>

\* Mutant of StopReturns: no deinitialize() after a stop() that threw.
StopFailsDirtily(result) ==
  /\ pc = "stop"
  /\ Return("stop", result)
  /\ \/ /\ result = "true"
        /\ pc' = "deinitialize"
        /\ UNCHANGED <<state, exitCode>>
     \/ result = "threw" /\ FailWith(6)
  /\ UNCHANGED <<signalVars, config, requested, runs>>

StopReturns(result) ==
  /\ pc = "stop"
  /\ Return("stop", result)
  /\ \/ /\ result = "true"
        /\ pc' = "deinitialize"
        /\ UNCHANGED <<state, exitCode>>
     \/ result = "threw" /\ CleanUpThenFail(6)
  /\ UNCHANGED <<signalVars, config, requested, runs>>

DeinitializeReturns(result) ==
  /\ pc = "deinitialize"
  /\ Return("deinitialize", result)
  /\ \/ /\ result = "true"
        /\ state' = "Stopped"
        /\ exitCode' = 0
        /\ pc' = "exited"
     \/ result = "threw" /\ FailWith(7)
  /\ UNCHANGED <<signalVars, config, requested, runs>>

\* Mutant of CleanupReturns: the later failure takes over the exit code.
CleanupOverridesCode(result) ==
  /\ pc = "cleanup"
  /\ result \in {"true", "threw"}
  /\ Return("deinitialize", result)
  /\ FailWith(IF result = "threw" THEN 7 ELSE exitCode)
  /\ UNCHANGED <<signalVars, config, requested, runs>>

\* On a failure path an exception out of deinitialize() is logged and dropped:
\* the exit code stays that of the first failure.
CleanupReturns(result) ==
  /\ pc = "cleanup"
  /\ result \in {"true", "threw"}
  /\ Return("deinitialize", result)
  /\ FailWith(exitCode)
  /\ UNCHANGED <<signalVars, config, requested, runs>>
-----------------------------------------------------------------------------
(* The environment: signals, and other threads that ask for shutdown.      *)

SignalArrives(s) ==
  /\ pc # "killed"
  /\ HandleSignal(s)
  /\ requested' = TRUE
  /\ UNCHANGED <<state, pc, config, returned, calls, exitCode, runs>>

\* The default action of SIGINT and SIGTERM ends the process.
SignalKills(s) ==
  /\ pc # "killed"
  /\ s \notin installed
  /\ pc' = "killed"
  /\ UNCHANGED <<signalVars, state, config, returned, calls, exitCode,
                 requested, runs>>

ProgramRequestsShutdown ==
  /\ pc # "killed"
  /\ NotifyShutdownRequested
  /\ requested' = TRUE
  /\ UNCHANGED <<state, pc, config, returned, calls, exitCode, runs>>
-----------------------------------------------------------------------------
ServiceCallReturns ==
  \E result \in Result \ {"not_called"} :
    \/ InitializeReturns(result)
    \/ StartReturns(result)
    \/ StopReturns(result)
    \/ DeinitializeReturns(result)
    \/ CleanupReturns(result)

RunStep ==
  \/ LoadConfiguration
  \/ \E ok \in BOOLEAN : InstallHandlers(ok)
  \/ BeginStart
  \/ CheckShutdown
  \/ WakeUp
  \/ ServiceCallReturns

Environment ==
  \/ \E s \in Signals : SignalArrives(s) \/ SignalKills(s)
  \/ ProgramRequestsShutdown

Next == BeginRun \/ RunStep \/ Environment

\* The scheduler runs the thread in run(), its timed waits expire, and the
\* operations of the service return.  Nothing obliges anyone to signal.
Fairness == WF_vars(RunStep)

Spec == Init /\ [][Next]_vars /\ Fairness
-----------------------------------------------------------------------------
(* What run() promises.                                                    *)

\* stop() is called only on a service whose start() returned true, and only
\* once; start() only on one whose initialize() returned true.  The guards
\* live in different early returns of run().
CallOrder ==
  /\ calls["start"] > 0 => returned["initialize"] = "true"
  /\ calls["stop"] > 0 => returned["start"] = "true"
  /\ \A op \in Operation : calls[op] <= 1

\* Every service that initialize() did not throw out of is deinitialized
\* before run() returns, on every success and failure path; the others never.
DeinitializedUnlessThrown ==
  pc = "exited" =>
    (calls["deinitialize"] = 1 <=> returned["initialize"] \in {"true", "false"})

\* The exit code names the first operation that failed, whatever
\* deinitialize() did afterwards; 0 means that all four succeeded.
ExitCodeNamesFirstFailure ==
  (pc = "exited" /\ runs > 0) =>
    /\ (exitCode = 0) <=> (\A op \in Operation : returned[op] = "true")
    /\ (exitCode = 4) <=> (returned["initialize"] \in {"false", "threw"})
    /\ (exitCode = 5) <=> (returned["start"] \in {"false", "threw"})
    /\ (exitCode = 6) <=> (returned["stop"] = "threw")
    /\ (exitCode = 7) <=> (/\ returned["stop"] = "true"
                           /\ returned["deinitialize"] = "threw")
    /\ state = (IF exitCode = 0 THEN "Stopped" ELSE "Failed")

\* The service is stopped only because somebody asked for it during this very
\* run: a request left over from an earlier run() in the process, whose flag
\* is process-wide, does not count.
NoStaleShutdown ==
  (pc = "stop" \/ calls["stop"] > 0) => requested

\* A shutdown request made at any point of a run, while initialize() or
\* start() is still in progress included, ends that run: neither the clearing
\* of the flag nor the gap between check and sleep of the wait loop loses it.
ShutdownHonoured ==
  (requested /\ pc \in InRun) ~> (pc \in {"exited", "killed"})
-----------------------------------------------------------------------------
(* What the design document says of the same code.                         *)

\* "Invalid configuration prevents startup" (ELAP_Phase1_HLD.md, 9.5): no
\* service is started from a configuration file that does not parse.
InvalidConfigurationPreventsStartup ==
  config.file = "malformed" => calls["start"] = 0
=============================================================================
