--------------------------- MODULE SignalHandler ---------------------------
(***************************************************************************)
(* elap::signals::SignalHandler: the process-wide shutdown flag and the    *)
(* two signal dispositions that set it.  The class has only static         *)
(* members, so there is one flag per process, shared by every              *)
(* ServiceApplication that runs in it.  Each operator below is one member  *)
(* function, as an action on the two variables; the modules that extend    *)
(* this one say which thread takes it and when.                            *)
(***************************************************************************)

VARIABLES
  shutdownRequested,   \* the atomic_bool shutdownRequested_
  installed            \* the signals whose disposition is handleSignal

signalVars == <<shutdownRequested, installed>>

Signals == {"SIGINT", "SIGTERM"}

SignalTypeOK ==
  /\ shutdownRequested \in BOOLEAN
  /\ installed \subseteq Signals

SignalInit ==
  /\ shutdownRequested = FALSE
  /\ installed = {}

\* install() sets SIGINT first and SIGTERM only when that succeeded, so a
\* failure leaves either nothing or SIGINT newly installed.
Install(ok) ==
  /\ IF ok THEN installed' = Signals
           ELSE installed' \in {installed, installed \cup {"SIGINT"}}
  /\ UNCHANGED shutdownRequested

\* Mutant of ClearShutdownRequest: the flag of the last run stays up.
KeepShutdownRequest == UNCHANGED signalVars

ClearShutdownRequest ==
  /\ shutdownRequested' = FALSE
  /\ UNCHANGED installed

NotifyShutdownRequested ==
  /\ shutdownRequested' = TRUE
  /\ UNCHANGED installed

\* The handler only stores the flag: it notifies no condition variable.
HandleSignal(s) ==
  /\ s \in installed
  /\ shutdownRequested' = TRUE
  /\ UNCHANGED installed
=============================================================================
