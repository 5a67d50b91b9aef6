------------------------- MODULE ServiceRefinement -------------------------
(***************************************************************************)
(* ServiceApplication implements ServiceContract.  The phase of the        *)
(* service is read off the results its operations have returned so far.    *)
(***************************************************************************)
EXTENDS ServiceApplication

phaseBar ==
  IF pc = "killed" THEN "dead"
  ELSE IF returned["deinitialize"] # "not_called" THEN "released"
  ELSE IF returned["stop"] # "not_called" THEN "halted"
  ELSE IF returned["start"] = "true" THEN "active"
  ELSE IF "false" \in {returned["initialize"], returned["start"]} THEN "refused"
  ELSE IF returned["start"] = "threw" THEN "refused"
  ELSE IF returned["initialize"] = "threw" THEN "abandoned"
  ELSE IF returned["initialize"] = "true" THEN "initialized"
  ELSE "created"

C == INSTANCE ServiceContract WITH phase <- phaseBar, asked <- requested

\* The service sees the calls of ServiceApplication as the contract has them:
\* in order, never halted unasked, never left halted or refused.
ImplementsContract == C!Contract
=============================================================================
