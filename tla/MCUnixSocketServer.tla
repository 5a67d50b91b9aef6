------------------------ MODULE MCUnixSocketServer ------------------------
(***************************************************************************)
(* Servers on one path, and beside them a connection on which sends have a *)
(* timeout and more to place than the kernel buffers.  The two share no    *)
(* variable; each behaviour shows one while the other rests.               *)
(***************************************************************************)
EXTENDS UnixSocketServer, TimedSend

CONSTANTS s1, s2, s3, i1, i2, i3

TwoServers == {s1, s2}
ThreeServers == {s1, s2, s3}
ThreeInodes == {i1, i2, i3}

VARIABLE shown    \* "server" or "send"

\* What rests has one initial state.
MCInit ==
  /\ Init /\ SendInit /\ shown \in {"server", "send"}
  /\ shown = "send" => entry = NoInode

ServerShown(A) == shown = "server" /\ A /\ UNCHANGED <<timedVars, shown>>
SendShown(A) == shown = "send" /\ A /\ UNCHANGED <<vars, shown>>

\* Both ends of the connection have closed.
SendsOver == shown = "send" /\ isOpen[sender] = {} /\ UNCHANGED <<vars, timedVars, shown>>

MCNext == ServerShown(Next) \/ SendShown(SendNext) \/ SendsOver

mcVars == <<vars, timedVars, shown>>

\* The fairness of the servers, where they are shown.
MCFairness ==
  \A s \in Server : SF_mcVars(ServerShown(CallStep(s))) /\ WF_mcVars(ServerShown(Accept(s)))

MCSpec == MCInit /\ [][MCNext]_mcVars /\ MCFairness
=============================================================================
