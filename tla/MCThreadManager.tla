-------------------------- MODULE MCThreadManager --------------------------
(***************************************************************************)
(* Model values for the runs of ThreadManager, and beside the manager the  *)
(* logger that its threads write to.  The two share no variable; each      *)
(* behaviour shows one of them while the other rests.                      *)
(***************************************************************************)
EXTENDS ThreadManager

CONSTANTS w1, w2, w3, owner, other

TwoWorkers == {w1, w2}
ThreeWorkers == {w1, w2, w3}
\* Two workers compete for one name.
Heartbeats == [w \in ThreeWorkers |-> IF w = w3 THEN "hb1" ELSE "hb0"]
OneClient == {owner}
TwoClients == {owner, other}
WorkersRequestStop == {"requestStop"}

CONSTANTS Thread, Logger, Levels, Texts, MaxLines, MaxTime, MaxSetBacks, None  \* see ConsoleLogger

VARIABLES
  shown,       \* which of the two this behaviour shows
  minimum, holder, call, written, stamp, stream, clock, lines, setBacks    \* see ConsoleLogger

logVars == <<minimum, holder, call, written, stamp, stream, clock, lines, setBacks>>

Log == INSTANCE ConsoleLogger

MCInit == Init /\ Log!Init /\ shown \in {"manager", "logger"}

ManagerShown(A) == shown = "manager" /\ A /\ UNCHANGED <<logVars, shown>>

MCNext ==
  \/ ManagerShown(Next)
  \/ shown = "logger" /\ Log!Next /\ UNCHANGED <<vars, shown>>

mcVars == <<vars, logVars, shown>>

\* The fairness of ThreadManager, where it is shown.
MCFairness ==
  /\ \A w \in Worker : WF_mcVars(ManagerShown(stopRequested[w] /\ WorkerExits(w)))
  /\ \A c \in Caller :
       WF_mcVars(ManagerShown(JoinNext(c))) /\ WF_mcVars(ManagerShown(JoinReturns(c)))
  /\ WF_mcVars(ManagerShown(DestructorJoins))
  /\ WF_mcVars(ManagerShown(DestructorReturns))

MCSpec == MCInit /\ [][MCNext]_mcVars /\ MCFairness

\* Threads log through two loggers while their levels and the clock are set: the
\* lines of a logger are whole, in the order of their times but for a clock set
\* back, and none is below the level once it is set.
LogReadable == Log!LogReadable
=============================================================================
