-------------------------- MODULE ServiceContract --------------------------
(***************************************************************************)
(* What the author of an IService may rely on, whatever runs the service:  *)
(* in which order the four operations are called, that a service which     *)
(* became active is halted only on request and then surely, and that a     *)
(* service which was halted or refused to come up is surely released.      *)
(* There is no configuration, no signal, no wait loop and no exit code.    *)
(* ServiceApplication implements this contract.                            *)
(***************************************************************************)

VARIABLES
  phase,   \* where the service is in its life
  asked    \* whether shutdown has been asked for in this life

contractVars == <<phase, asked>>

\* Phases after which nothing more is called.
Over == {"created", "abandoned", "released"}

ContractInit == phase = "created" /\ asked = FALSE

\* A life may end before initialize() was called, and a new one begin.
NewLife ==
  /\ phase \in Over
  /\ phase' = "created"
  /\ asked' = FALSE

\* initialize() returns true, returns false, or throws.
Initialize ==
  /\ phase = "created"
  /\ phase' \in {"initialized", "refused", "abandoned"}
  /\ UNCHANGED asked

\* start() returns true, or it does not.
Start ==
  /\ phase = "initialized"
  /\ phase' \in {"active", "refused"}
  /\ UNCHANGED asked

\* stop() returns, or throws: the service counts as halted either way.
Halt ==
  /\ phase = "active"
  /\ asked
  /\ phase' = "halted"
  /\ UNCHANGED asked

\* deinitialize() returns or throws.
Release ==
  /\ phase \in {"halted", "refused"}
  /\ phase' = "released"
  /\ UNCHANGED asked

AskForShutdown ==
  /\ phase # "dead"
  /\ asked' = TRUE
  /\ UNCHANGED phase

\* The process is killed.
Die ==
  /\ phase # "dead"
  /\ phase' = "dead"
  /\ UNCHANGED asked

ContractNext ==
  \/ NewLife \/ Initialize \/ Start \/ Halt \/ Release
  \/ AskForShutdown \/ Die

EventuallyHalted == (phase = "active" /\ asked) ~> (phase \in {"halted", "dead"})
EventuallyReleased ==
  (phase \in {"halted", "refused"}) ~> (phase \in {"released", "dead"})

ContractSafety == ContractInit /\ [][ContractNext]_contractVars
Contract == ContractSafety /\ EventuallyHalted /\ EventuallyReleased
=============================================================================
