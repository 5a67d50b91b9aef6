---------------------- MODULE ServiceApplicationProofs ----------------------
(***************************************************************************)
(* The safety properties of ServiceApplication, for any number of runs.    *)
(* What run() promises when it returns follows from what the position in   *)
(* run() says about the operations called so far (Position): each step is  *)
(* an operation returning, or a step between two of them.                  *)
(***************************************************************************)
EXTENDS ServiceRefinement, TLAPS

\* How the four operations have returned so far.
Outcome(i, s, t, d) ==
  /\ returned["initialize"] = i
  /\ returned["start"] = s
  /\ returned["stop"] = t
  /\ returned["deinitialize"] = d

NC == "not_called"

\* A call is counted exactly when its return is recorded.
CountedOnce(op) == calls[op] = IF returned[op] = NC THEN 0 ELSE 1

Counted ==
  /\ CountedOnce("initialize")
  /\ CountedOnce("start")
  /\ CountedOnce("stop")
  /\ CountedOnce("deinitialize")

\* In the part of run() that no failure has left yet.
Position ==
  /\ pc \in {"config", "install", "initialize"} => Outcome(NC, NC, NC, NC)
  /\ pc \in {"initialized", "start"} => Outcome("true", NC, NC, NC)
  /\ pc \in {"check", "asleep", "stop"} => Outcome("true", "true", NC, NC)
  /\ pc = "deinitialize" => Outcome("true", "true", "true", NC)

\* On a failure path the pending exit code is that of the operation that failed.
Cleanup ==
  pc = "cleanup" =>
    \/ exitCode = 4 /\ Outcome("false", NC, NC, NC)
    \/ exitCode = 5 /\ \/ Outcome("true", "false", NC, NC)
                       \/ Outcome("true", "threw", NC, NC)
    \/ exitCode = 6 /\ Outcome("true", "true", "threw", NC)

\* What deinitialize() did on a failure path changes nothing.
FailedAfter(i, s, t) ==
  Outcome(i, s, t, "true") \/ Outcome(i, s, t, "threw")

\* Outside of run(): never called yet, stopped, or failed in one of six ways.
Outside ==
  pc = "exited" =>
    \/ runs = 0 /\ Outcome(NC, NC, NC, NC)
    \/ /\ state = "Stopped"
       /\ exitCode = 0
       /\ Outcome("true", "true", "true", "true")
    \/ /\ state = "Failed"
       /\ \/ exitCode \in {2, 3} /\ Outcome(NC, NC, NC, NC)
          \/ exitCode = 4 /\ Outcome("threw", NC, NC, NC)
          \/ exitCode = 4 /\ FailedAfter("false", NC, NC)
          \/ exitCode = 5 /\ FailedAfter("true", "false", NC)
          \/ exitCode = 5 /\ FailedAfter("true", "threw", NC)
          \/ exitCode = 6 /\ FailedAfter("true", "true", "threw")
          \/ exitCode = 7 /\ Outcome("true", "true", "true", "threw")

\* Also true of a process that a signal has killed at some step.
Order ==
  /\ returned["start"] # NC => returned["initialize"] = "true"
  /\ returned["stop"] # NC => returned["start"] = "true"

IInv == TypeOK /\ Counted /\ Position /\ Cleanup /\ Outside /\ Order

\* The first state satisfies the inductive invariant.
LEMMA InitEstablishes == Init => IInv
<1> SUFFICES ASSUME Init PROVE IInv
  OBVIOUS
<1>n. runs \in 0..MaxRuns /\ exitCode \in 0..7 /\ calls \in [Operation -> Nat]
  BY MaxRunsAssumption DEF Init
<1>b. SignalTypeOK /\ requested \in BOOLEAN
  BY DEF Init, SignalInit, SignalTypeOK
<1>1. TypeOK
  BY <1>n, <1>b DEF Init, TypeOK, ServiceState, ControlPoint, Result
<1>2. Counted /\ Order
  BY DEF Init, Counted, CountedOnce, Order, Operation, NC
<1>3. Position /\ Cleanup /\ Outside
  BY DEF Init, Position, Cleanup, Outside, Outcome, Operation, NC
<1>4. QED
  BY <1>1, <1>2, <1>3 DEF IInv

\* Every step keeps the types.
LEMMA TypePreserved == TypeOK /\ [Next]_vars => TypeOK'
<1> USE MaxRunsAssumption
    DEF TypeOK, SignalTypeOK, ServiceState, ControlPoint, InRun, Operation, Result,
        signalVars
<1> SUFFICES ASSUME TypeOK, [Next]_vars
             PROVE  TypeOK'
  OBVIOUS
<1>1. CASE BeginRun
  <2>1. SignalTypeOK' /\ requested' \in BOOLEAN
    BY <1>1 DEF BeginRun, ClearShutdownRequest
  <2>2. runs' \in 0..MaxRuns /\ exitCode' \in 0..7
    BY <1>1 DEF BeginRun
  <2>3. QED
    BY <1>1, <2>1, <2>2 DEF BeginRun
<1>2. CASE LoadConfiguration
  BY <1>2 DEF LoadConfiguration, FailWith
<1>3. ASSUME NEW ok \in BOOLEAN, InstallHandlers(ok)
      PROVE  TypeOK'
  <2>1. SignalTypeOK'
    BY <1>3 DEF InstallHandlers, Install, Signals
  <2>2. /\ state' \in ServiceState
        /\ pc' \in ControlPoint
        /\ exitCode' \in 0..7
    BY <1>3 DEF InstallHandlers, FailWith
  <2>3. QED
    BY <1>3, <2>1, <2>2 DEF InstallHandlers
<1>4. CASE BeginStart
  BY <1>4 DEF BeginStart
<1>5. CASE CheckShutdown
  BY <1>5 DEF CheckShutdown
<1>6. CASE WakeUp
  BY <1>6 DEF WakeUp
<1>7. ASSUME NEW r \in Result \ {"not_called"}, InitializeReturns(r)
      PROVE  TypeOK'
  BY <1>7 DEF InitializeReturns, Return, CleanUpThenFail, FailWith
<1>8. ASSUME NEW r \in Result \ {"not_called"}, StartReturns(r)
      PROVE  TypeOK'
  BY <1>8 DEF StartReturns, Return, CleanUpThenFail
<1>9. ASSUME NEW r \in Result \ {"not_called"}, StopReturns(r)
      PROVE  TypeOK'
  BY <1>9 DEF StopReturns, Return, CleanUpThenFail
<1>10. ASSUME NEW r \in Result \ {"not_called"}, DeinitializeReturns(r)
       PROVE  TypeOK'
  BY <1>10 DEF DeinitializeReturns, Return, FailWith
<1>11. ASSUME NEW r \in Result \ {"not_called"}, CleanupReturns(r)
       PROVE  TypeOK'
  BY <1>11 DEF CleanupReturns, Return, FailWith
<1>12. CASE Environment
  BY <1>12 DEF Environment, SignalArrives, HandleSignal, SignalKills,
               ProgramRequestsShutdown, NotifyShutdownRequested
<1>13. CASE UNCHANGED vars
  BY <1>13 DEF vars, appVars
<1>14. QED
  BY <1>1, <1>2, <1>3, <1>4, <1>5, <1>6, <1>7, <1>8, <1>9, <1>10, <1>11, <1>12,
     <1>13 DEF Next, RunStep, ServiceCallReturns

\* Every step keeps what the position in run() says of the operations.
LEMMA StepPreserves == IInv /\ [Next]_vars => IInv'
<1> SUFFICES ASSUME IInv, [Next]_vars
             PROVE  IInv'
  OBVIOUS
<1>0. TypeOK'
  BY TypePreserved DEF IInv
<1> DEFINE Rest == Counted /\ Position /\ Cleanup /\ Outside /\ Order
<1>t. /\ returned \in [Operation -> Result]
      /\ calls \in [Operation -> Nat]
      /\ runs \in Nat
  BY MaxRunsAssumption DEF IInv, TypeOK
<1>r. Rest
  BY DEF IInv
<1> USE <1>t, <1>r
    DEF Counted, CountedOnce, Position, Cleanup, Outside, Order, Outcome,
        FailedAfter, Operation, Result, NC
<1>1. ASSUME BeginRun
      PROVE  Rest'
  BY <1>1 DEF BeginRun
<1>2. ASSUME LoadConfiguration
      PROVE  Rest'
  BY <1>2 DEF LoadConfiguration, FailWith
<1>3. ASSUME NEW ok \in BOOLEAN, InstallHandlers(ok)
      PROVE  Rest'
  BY <1>3 DEF InstallHandlers, FailWith
<1>4. ASSUME BeginStart
      PROVE  Rest'
  BY <1>4 DEF BeginStart
<1>5. ASSUME CheckShutdown
      PROVE  Rest'
  BY <1>5 DEF CheckShutdown
<1>6. ASSUME WakeUp
      PROVE  Rest'
  BY <1>6 DEF WakeUp
<1>7. ASSUME NEW r \in Result \ {"not_called"}, InitializeReturns(r)
      PROVE  Rest'
  BY <1>7 DEF InitializeReturns, Return, CleanUpThenFail, FailWith
<1>8. ASSUME NEW r \in Result \ {"not_called"}, StartReturns(r)
      PROVE  Rest'
  BY <1>8 DEF StartReturns, Return, CleanUpThenFail
<1>9. ASSUME NEW r \in Result \ {"not_called"}, StopReturns(r)
      PROVE  Rest'
  BY <1>9 DEF StopReturns, Return, CleanUpThenFail
<1>10. ASSUME NEW r \in Result \ {"not_called"}, DeinitializeReturns(r)
       PROVE  Rest'
  BY <1>10 DEF DeinitializeReturns, Return, FailWith
<1>11. ASSUME NEW r \in Result \ {"not_called"}, CleanupReturns(r)
       PROVE  Rest'
  BY <1>11 DEF CleanupReturns, Return, FailWith
<1>12. ASSUME Environment
       PROVE  Rest'
  BY <1>12 DEF Environment, SignalArrives, SignalKills, ProgramRequestsShutdown
<1>13. ASSUME UNCHANGED vars
       PROVE  Rest'
  BY <1>13 DEF vars, appVars
<1>14. Rest'
  BY <1>1, <1>2, <1>3, <1>4, <1>5, <1>6, <1>7, <1>8, <1>9, <1>10, <1>11, <1>12,
     <1>13 DEF Next, RunStep, ServiceCallReturns
<1>15. QED
  BY <1>0, <1>14 DEF IInv

\* The inductive invariant holds in every reachable state.
THEOREM Inductive == Spec => []IInv
  BY InitEstablishes, StepPreserves, PTL DEF Spec

\* The variables of run() and of SignalHandler keep their types.
THEOREM TypeCorrect == Spec => []TypeOK
  BY Inductive, PTL DEF IInv

\* stop() follows only a successful start(), start() only a successful
\* initialize(), and nothing is called twice in a run.
THEOREM CallsInOrder == Spec => []CallOrder
<1>1. IInv => CallOrder
  BY DEF IInv, TypeOK, Counted, CountedOnce, Order, CallOrder, Operation, NC
<1>2. QED
  BY <1>1, Inductive, PTL

\* Every failure path and the normal one deinitialize the service exactly once,
\* unless initialize() threw or was never called.
THEOREM DeinitializedOnce == Spec => []DeinitializedUnlessThrown
<1>1. IInv => DeinitializedUnlessThrown
  BY DEF IInv, Counted, CountedOnce, Outside, Outcome, FailedAfter, NC,
         DeinitializedUnlessThrown
<1>2. QED
  BY <1>1, Inductive, PTL

\* The exit code and the final state name the first operation that failed.
THEOREM ExitCodeCorrect == Spec => []ExitCodeNamesFirstFailure
<1>1. IInv => ExitCodeNamesFirstFailure
  <2>1. SUFFICES ASSUME Outside, pc = "exited", runs > 0, runs \in Nat
                 PROVE  ExitCodeNamesFirstFailure
    BY MaxRunsAssumption DEF IInv, TypeOK, ExitCodeNamesFirstFailure
  <2>2. ExitCodeNamesFirstFailure
    BY <2>1 DEF Outside, Outcome, FailedAfter, NC, Operation, ExitCodeNamesFirstFailure
  <2>3. QED
    BY <2>2
<1>2. QED
  BY <1>1, Inductive, PTL
-----------------------------------------------------------------------------
\* The process-wide flag is never up without a request of this run.
FlagIsOfThisRun == shutdownRequested => requested

StaleInv == IInv /\ FlagIsOfThisRun /\ NoStaleShutdown

LEMMA StaleInvPreserved == StaleInv /\ IInv' /\ [Next]_vars => StaleInv'
<1> SUFFICES ASSUME StaleInv, IInv', [Next]_vars
             PROVE  FlagIsOfThisRun' /\ NoStaleShutdown'
  BY DEF StaleInv
<1>1. FlagIsOfThisRun'
  BY DEF StaleInv, FlagIsOfThisRun, Next, RunStep, ServiceCallReturns,
         Environment, BeginRun, ClearShutdownRequest, LoadConfiguration,
         InstallHandlers, Install, InitializeReturns, BeginStart, StartReturns,
         CheckShutdown, WakeUp, StopReturns, DeinitializeReturns,
         CleanupReturns, SignalArrives, HandleSignal, SignalKills,
         ProgramRequestsShutdown, NotifyShutdownRequested, vars, signalVars,
         appVars
<1>2. NoStaleShutdown <=> (pc = "stop" \/ returned["stop"] # NC => requested)
  BY DEF StaleInv, IInv, TypeOK, Counted, CountedOnce, NoStaleShutdown, NC
<1>3. NoStaleShutdown' <=> ((pc = "stop" \/ returned["stop"] # NC) => requested)'
  BY DEF IInv, TypeOK, Counted, CountedOnce, NoStaleShutdown, NC
<1>4. ASSUME (pc = "stop" \/ returned["stop"] # NC)'
      PROVE  requested'
  <2> USE <1>4, <1>2 DEF StaleInv
  <2>t. returned \in [Operation -> Result]
    BY DEF IInv, TypeOK
  <2>1. CASE BeginRun
    BY <2>1 DEF BeginRun, Operation, NC
  <2>2. CASE CheckShutdown
    BY <2>2 DEF CheckShutdown, FlagIsOfThisRun, IInv, Position, Outcome
  <2>3. ASSUME NEW r \in Result \ {"not_called"}, StopReturns(r)
        PROVE  requested'
    BY <2>3 DEF StopReturns, CleanUpThenFail
  <2>4. ASSUME NEW r \in Result \ {"not_called"},
               InitializeReturns(r) \/ StartReturns(r) \/ DeinitializeReturns(r)
                 \/ CleanupReturns(r)
        PROVE  requested'
    <3>1. /\ returned'["stop"] = returned["stop"]
          /\ pc' # "stop"
          /\ requested' = requested
      BY <2>4, <2>t
      DEF InitializeReturns, StartReturns, DeinitializeReturns, CleanupReturns,
          Return, CleanUpThenFail, FailWith, Operation
    <3>2. QED
      BY <3>1
  <2>5. CASE LoadConfiguration \/ BeginStart \/ WakeUp
             \/ \E ok \in BOOLEAN : InstallHandlers(ok)
    <3>1. returned' = returned /\ pc' # "stop" /\ requested' = requested
      BY <2>5 DEF LoadConfiguration, BeginStart, WakeUp, InstallHandlers, FailWith
    <3>2. QED
      BY <3>1
  <2>6. CASE Environment
    <3>1. /\ returned' = returned
          /\ pc' \in {pc, "killed"}
          /\ requested => requested'
      BY <2>6 DEF Environment, SignalArrives, SignalKills, ProgramRequestsShutdown
    <3>2. QED
      BY <2>6, <3>1 DEF Environment, SignalArrives, SignalKills, ProgramRequestsShutdown
  <2>7. CASE UNCHANGED vars
    BY <2>7 DEF vars, appVars
  <2>8. QED
    BY <2>1, <2>2, <2>3, <2>4, <2>5, <2>6, <2>7 DEF Next, RunStep, ServiceCallReturns
<1>5. QED
  BY <1>1, <1>3, <1>4

\* A request of an earlier run of the process never stops the service of this one.
THEOREM NeverStoppedUnasked == Spec => []NoStaleShutdown
<1>1. Init => StaleInv
  <2>1. Init => FlagIsOfThisRun /\ NoStaleShutdown
    BY DEF Init, SignalInit, FlagIsOfThisRun, NoStaleShutdown, Operation
  <2>2. QED
    BY <2>1, InitEstablishes DEF StaleInv
<1>2. StaleInv => NoStaleShutdown
  BY DEF StaleInv
<1>3. QED
  BY <1>1, <1>2, StaleInvPreserved, Inductive, PTL DEF Spec
-----------------------------------------------------------------------------
\* The steps of run() are steps of the contract, or invisible to the service.
LEMMA StepSimulates ==
  IInv /\ NoStaleShutdown /\ NoStaleShutdown' /\ [Next]_vars
    => [C!ContractNext]_(C!contractVars)
<1> SUFFICES ASSUME IInv, NoStaleShutdown, NoStaleShutdown', [Next]_vars
             PROVE  [C!ContractNext]_(C!contractVars)
  OBVIOUS
<1> USE DEF NC, Operation, C!contractVars
<1>t. returned \in [Operation -> Result]
  BY DEF IInv, TypeOK
<1>1. CASE BeginRun
  <2>1. phaseBar \in C!Over
    BY <1>1 DEF BeginRun, phaseBar, IInv, Outside, Outcome, FailedAfter, C!Over
  <2>2. phaseBar' = "created" /\ requested' = FALSE
    BY <1>1 DEF BeginRun, phaseBar
  <2>3. QED
    BY <2>1, <2>2 DEF C!NewLife, C!ContractNext
<1>2. ASSUME NEW r \in Result \ {"not_called"}, InitializeReturns(r)
      PROVE  C!Initialize
  <2>1. phaseBar = "created"
    BY <1>2 DEF InitializeReturns, phaseBar, IInv, Position, Outcome
  <2>2. phaseBar' \in {"initialized", "refused", "abandoned"}
    BY <1>2, <1>t DEF InitializeReturns, Return, CleanUpThenFail, FailWith, phaseBar,
                IInv, Position, Outcome, Result
  <2>3. requested' = requested
    BY <1>2 DEF InitializeReturns
  <2>4. QED
    BY <2>1, <2>2, <2>3 DEF C!Initialize
<1>3. ASSUME NEW r \in Result \ {"not_called"}, StartReturns(r)
      PROVE  C!Start
  <2>1. phaseBar = "initialized"
    BY <1>3 DEF StartReturns, phaseBar, IInv, Position, Outcome
  <2>2. phaseBar' \in {"active", "refused"}
    BY <1>3, <1>t DEF StartReturns, Return, CleanUpThenFail, phaseBar,
                IInv, Position, Outcome, Result
  <2>3. requested' = requested
    BY <1>3 DEF StartReturns
  <2>4. QED
    BY <2>1, <2>2, <2>3 DEF C!Start
<1>4. ASSUME NEW r \in Result \ {"not_called"}, StopReturns(r)
      PROVE  C!Halt
  <2>1. phaseBar = "active" /\ requested
    BY <1>4 DEF StopReturns, phaseBar, IInv, Position, Outcome, NoStaleShutdown
  <2>2. phaseBar' = "halted"
    BY <1>4, <1>t DEF StopReturns, Return, CleanUpThenFail, phaseBar,
                IInv, Position, Outcome, Result
  <2>3. requested' = requested
    BY <1>4 DEF StopReturns
  <2>4. QED
    BY <2>1, <2>2, <2>3 DEF C!Halt
<1>5. ASSUME NEW r \in Result \ {"not_called"},
             DeinitializeReturns(r) \/ CleanupReturns(r)
      PROVE  C!Release
  <2>1. phaseBar \in {"halted", "refused"}
    BY <1>5 DEF DeinitializeReturns, CleanupReturns, phaseBar, IInv, Position,
                Cleanup, Outcome
  <2>2. phaseBar' = "released"
    BY <1>5, <1>t DEF DeinitializeReturns, CleanupReturns, Return, FailWith, phaseBar
  <2>3. requested' = requested
    BY <1>5 DEF DeinitializeReturns, CleanupReturns
  <2>4. QED
    BY <2>1, <2>2, <2>3 DEF C!Release
<1>6. CASE LoadConfiguration \/ BeginStart \/ CheckShutdown \/ WakeUp
           \/ \E ok \in BOOLEAN : InstallHandlers(ok)
  <2>1. /\ returned' = returned
        /\ requested' = requested
        /\ pc # "killed"
        /\ pc' # "killed"
    BY <1>6 DEF LoadConfiguration, BeginStart, CheckShutdown, WakeUp,
                InstallHandlers, FailWith
  <2>2. QED
    BY <2>1 DEF phaseBar
<1>7. CASE \E s \in Signals : SignalKills(s)
  <2>1. requested' = requested /\ pc # "killed" /\ pc' = "killed"
    BY <1>7 DEF SignalKills
  <2>2. phaseBar # "dead" /\ phaseBar' = "dead"
    BY <2>1 DEF phaseBar
  <2>3. QED
    BY <2>1, <2>2 DEF C!Die, C!ContractNext
<1>8. CASE ProgramRequestsShutdown \/ \E s \in Signals : SignalArrives(s)
  <2>1. /\ requested' = TRUE
        /\ pc # "killed"
        /\ pc' = pc
        /\ returned' = returned
    BY <1>8 DEF ProgramRequestsShutdown, SignalArrives
  <2>2. phaseBar # "dead" /\ phaseBar' = phaseBar
    BY <2>1 DEF phaseBar
  <2>3. QED
    BY <2>1, <2>2 DEF C!AskForShutdown, C!ContractNext
<1>9. CASE UNCHANGED vars
  BY <1>9 DEF vars, appVars, phaseBar
<1>10. QED
  BY <1>1, <1>2, <1>3, <1>4, <1>5, <1>6, <1>7, <1>8, <1>9
  DEF Next, RunStep, ServiceCallReturns, Environment, C!ContractNext

\* ServiceApplication implements the safety part of the contract of a service.
THEOREM ImplementsContractSafety == Spec => C!ContractSafety
<1>1. Init => C!ContractInit
  BY DEF Init, phaseBar, C!ContractInit, Operation
<1>2. QED
  BY <1>1, StepSimulates, Inductive, NeverStoppedUnasked, PTL
  DEF Spec, C!ContractSafety
=============================================================================
