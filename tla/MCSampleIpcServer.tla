------------------------- MODULE MCSampleIpcServer -------------------------
(***************************************************************************)
(* The two halves of a service process: the calls that run() makes of any  *)
(* service, and the listener of sample_ipc_server with its clients from    *)
(* the return of start() on.  The two share no variable; each behaviour    *)
(* shows one while the other rests.                                        *)
(***************************************************************************)
EXTENDS ServiceRefinement, SampleIpcServer

CONSTANTS c1, c2

TwoClients == {c1, c2}
FirstClient == {c1}
OneByte == << <<"prefix", 1>> >>

\* The kernel's default buffers hold the longest reply, so that the timed send
\* of the listener never waits.  Where it does, see TimedSend.
ASSUME BufferAssumption == HeaderSize + MaxSize + Len(Prefix) <= Capacity

VARIABLE shown    \* "run" or "listener"

\* What rests has one initial state.
MCInit ==
  /\ Init /\ IpcInit /\ shown \in {"run", "listener"}
  /\ shown = "run" => \A c \in Client : request[c] = <<>>
  /\ shown = "listener" => config = [explicit |-> FALSE, file |-> "absent"]

RunShown(A) == shown = "run" /\ A /\ UNCHANGED <<ipcVars, shown>>
ListenerShown(A) == shown = "listener" /\ A /\ UNCHANGED <<vars, shown>>

MCNext == RunShown(Next) \/ ListenerShown(IpcNext)

mcVars == <<vars, ipcVars, shown>>

\* The fairness of the two, where each is shown.
MCFairness ==
  /\ WF_mcVars(RunShown(RunStep))
  /\ WF_mcVars(ListenerShown(ListenerStep)) /\ WF_mcVars(ListenerShown(StopStep))
  /\ \A c \in Polite : WF_mcVars(ListenerShown(ClientStep(c)))

MCSpec == MCInit /\ [][MCNext]_mcVars /\ MCFairness
=============================================================================
