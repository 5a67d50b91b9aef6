----------------------- MODULE UnixSocketServerProofs -----------------------
(***************************************************************************)
(* What UnixSocketServer guarantees for any number of processes and inode  *)
(* numbers, killed at any system call, as long as no two calls of listen() *)
(* and close() overlap.                                                    *)
(***************************************************************************)
EXTENDS UnixSocketServer, TLAPS

\* Every other process is out of listen() and close() and does not listen.
Alone(s) == \A t \in Server \ {s} : pc[t] = "closed"

\* From the system call that found the path free or stale until the next
\* server listens, and while a server gives its path up, no other one is there.
Undisturbed ==
  \A s \in Server :
    /\ Busy(s) => \A t \in Server \ {s} : ~Busy(t)
    /\ pc[s] \in {"unlink", "bind", "identify", "listen", "release", "remove"}
         => Alone(s)

\* What each step knows of the path.
PathKnown ==
  \A s \in Server :
    /\ pc[s] = "bind" => entry = NoInode
    /\ pc[s] \in {"identify", "listen", "listening"} =>
         bound[s] = entry /\ entry \in Inode
    /\ pc[s] \in {"listen", "listening"} => pathInode[s] = bound[s]
    /\ pc[s] # "unwind"

\* One server listens at most, and beside it others at most look at the path.
OneListener ==
  \A s \in Server :
    pc[s] = "listening" =>
      \A t \in Server \ {s} : pc[t] \in {"closed", "lstat", "probe"}

Calm == Undisturbed /\ PathKnown /\ OneListener

PcOK == pc \in [Server -> ControlState]

IInv ==
  /\ PcOK
  /\ bound \in [Server -> Inode \cup {NoInode}]
  /\ pathInode \in [Server -> Inode \cup {NoInode, File}]
  /\ entry \in Inode \cup {NoInode, File}
  /\ overlapped \/ Calm

LEMMA InitEstablishes == Init => IInv
<1> SUFFICES ASSUME Init PROVE IInv
  OBVIOUS
<1>1. /\ PcOK
      /\ bound \in [Server -> Inode \cup {NoInode}]
      /\ pathInode \in [Server -> Inode \cup {NoInode, File}]
      /\ entry \in Inode \cup {NoInode, File}
  BY DEF Init, PcOK, ControlState
<1>2. Calm
  BY DEF Init, Calm, Undisturbed, PathKnown, OneListener, Busy, InListen, InClose, Alone
<1>3. QED
  BY <1>1, <1>2 DEF IInv

\* The typing part of the invariant, which the proof of the rest builds on.
LEMMA TypesPreserved ==
  ASSUME IInv, [Next]_vars
  PROVE  /\ PcOK'
         /\ bound' \in [Server -> Inode \cup {NoInode}]
         /\ pathInode' \in [Server -> Inode \cup {NoInode, File}]
         /\ entry' \in Inode \cup {NoInode, File}
<1> USE DEF IInv, PcOK, ControlState, InListen, InClose, Goto, Released
<1> DEFINE Goal == /\ PcOK'
                   /\ bound' \in [Server -> Inode \cup {NoInode}]
                   /\ pathInode' \in [Server -> Inode \cup {NoInode, File}]
                   /\ entry' \in Inode \cup {NoInode, File}
<1>1. ASSUME NEW s \in Server,
             \/ BeginListen(s) \/ SocketFails(s) \/ LstatPath(s) \/ ProbeRefused(s)
             \/ UnlinkStale(s) \/ BindFails(s) \/ ListenSucceeds(s) \/ Accept(s)
             \/ ClientConnects(s)
      PROVE  Goal
  BY <1>1 DEF BeginListen, SocketFails, LstatPath, ProbeRefused, UnlinkStale,
              BindFails, ListenSucceeds, Accept, ClientConnects
<1>2. ASSUME NEW s \in Server, NEW t \in Server,
             ProbeConnects(s, t) \/ ProbeInterrupted(s, t)
      PROVE  Goal
  BY <1>2 DEF ProbeConnects, ProbeInterrupted
<1>3. ASSUME NEW s \in Server, Bind(s)
      PROVE  Goal
  BY <1>3 DEF Bind, FreeInode
<1>4. ASSUME NEW s \in Server,
             \/ LoadIdentity(s) \/ Unwind(s) \/ ListenFails(s) \/ BeginClose(s)
             \/ ComparePath(s) \/ RemovePath(s) \/ Crash(s)
      PROVE  Goal
  BY <1>4 DEF LoadIdentity, Unwind, ListenFails, BeginClose, ComparePath,
              RemovePath, Crash
<1>5. CASE UNCHANGED vars
  BY <1>5 DEF vars
<1>6. QED
  BY <1>1, <1>2, <1>3, <1>4, <1>5 DEF Next, CallStep

\* A process that drops its socket and leaves listen() or close() disturbs
\* nobody, if the path is then named by nobody or as before.
LEMMA ReleaseKeepsCalm ==
  ASSUME IInv, Calm, NEW s \in Server, Goto(s, "closed"),
         \A t \in Server \ {s} : bound'[t] = bound[t] /\ pathInode'[t] = pathInode[t],
         entry' = entry \/ (entry' = NoInode /\ Alone(s))
  PROVE  Calm'
<1> USE DEF IInv, PcOK, Goto, Calm
<1>1. pc'[s] = "closed" /\ \A t \in Server \ {s} : pc'[t] = pc[t]
  OBVIOUS
<1>2. Undisturbed'
  BY <1>1 DEF Undisturbed, Busy, InListen, InClose, Alone
<1>3. PathKnown'
  BY <1>1 DEF PathKnown, Alone
<1>4. OneListener'
  BY <1>1 DEF OneListener
<1>5. QED
  BY <1>2, <1>3, <1>4

\* A process that is alone in listen() or close() goes on alone.
LEMMA AloneKeepsCalm ==
  ASSUME IInv, Calm, NEW s \in Server, Alone(s), NEW where \in ControlState,
         Goto(s, where), where # "unwind",
         where = "bind" => entry' = NoInode,
         where \in {"identify", "listen", "listening"} =>
           bound'[s] = entry' /\ entry' \in Inode,
         where \in {"listen", "listening"} => pathInode'[s] = bound'[s]
  PROVE  Calm'
<1> USE DEF IInv, PcOK, Goto, Calm
<1>1. pc'[s] = where /\ \A t \in Server \ {s} : pc'[t] = "closed"
  BY DEF Alone
<1>2. Undisturbed'
  BY <1>1 DEF Undisturbed, Busy, InListen, InClose, Alone
<1>3. PathKnown'
  BY <1>1 DEF PathKnown
<1>4. OneListener'
  BY <1>1 DEF OneListener
<1>5. QED
  BY <1>2, <1>3, <1>4

\* listen(): each call of it that overlaps with no other keeps the invariant.
LEMMA ListenKeepsCalm ==
  ASSUME IInv, Calm, NEW s \in Server, ~overlapped',
         \/ BeginListen(s) \/ SocketFails(s) \/ LstatPath(s) \/ ProbeRefused(s)
         \/ \E t \in Server : ProbeConnects(s, t)
         \/ UnlinkStale(s) \/ Bind(s) \/ BindFails(s) \/ LoadIdentity(s)
         \/ Unwind(s) \/ ListenSucceeds(s) \/ ListenFails(s)
  PROVE  Calm'
<1>a. /\ Undisturbed
      /\ PathKnown
      /\ OneListener
      /\ PcOK
  BY DEF IInv, Calm
<1>b. \A t \in Server : pc[t] \in {"closed", "listening"} \/ Busy(t)
  BY <1>a DEF PcOK, ControlState, Busy
<1>c. \A t \in Server : pc[t] = "listening" => bound[t] = entry /\ entry \in Inode
  BY <1>a DEF PathKnown
<1>1. CASE BeginListen(s)
  <2>1. \A t \in Server \ {s} : ~Busy(t)
    BY <1>1 DEF BeginListen, NoteOverlap
  <2>2. /\ pc' = [pc EXCEPT ![s] = "lstat"]
        /\ UNCHANGED <<entry, bound, pathInode>>
    BY <1>1 DEF BeginListen, Goto
  <2>3. pc'[s] = "lstat" /\ \A t \in Server \ {s} : pc'[t] = pc[t]
    BY <2>2, <1>a DEF PcOK
  <2>4. Undisturbed'
    BY <2>1, <2>3, <1>b DEF Undisturbed, Busy, InListen, InClose
  <2>5. PathKnown' /\ OneListener'
    BY <2>2, <2>3, <1>a DEF PathKnown, OneListener
  <2>6. QED
    BY <2>4, <2>5 DEF Calm
<1>2. CASE SocketFails(s) \/ BindFails(s) \/ \E t \in Server : ProbeConnects(s, t)
  <2>1. /\ Goto(s, "closed")
        /\ entry' = entry
        /\ \A t \in Server \ {s} : bound'[t] = bound[t] /\ pathInode'[t] = pathInode[t]
    BY <1>2 DEF SocketFails, BindFails, ProbeConnects, Released, IInv
  <2>2. QED
    BY <2>1, ReleaseKeepsCalm
<1>3. CASE LstatPath(s)
  <2> USE <1>3 DEF LstatPath
  <2>0. UNCHANGED <<entry, bound, pathInode>> /\ pc[s] = "lstat"
    OBVIOUS
  <2>1. CASE entry = NoInode
    <3>1. Alone(s)
      BY <2>0, <2>1, <1>a, <1>b, <1>c, InodeAssumption
      DEF Alone, Undisturbed, Busy, InListen
    <3>2. Goto(s, "bind")
      BY <2>1, InodeAssumption DEF Goto
    <3>3. QED
      BY <2>0, <2>1, <3>1, <3>2, AloneKeepsCalm DEF ControlState, InListen
  <2>2. CASE entry = File
    <3>1. Goto(s, "closed")
      BY <2>2, InodeAssumption
    <3>2. QED
      BY <2>0, <3>1, ReleaseKeepsCalm
  <2>3. CASE entry \notin {NoInode, File}
    <3>1. pc'[s] = "probe" /\ \A t \in Server \ {s} : pc'[t] = pc[t]
      BY <2>3, <1>a DEF Goto, PcOK
    <3>2. Undisturbed'
      BY <2>0, <3>1, <1>a DEF Undisturbed, Busy, InListen, InClose, Alone
    <3>3. PathKnown' /\ OneListener'
      BY <2>0, <3>1, <1>a DEF PathKnown, OneListener
    <3>4. QED
      BY <3>2, <3>3 DEF Calm
  <2>4. QED
    BY <2>1, <2>2, <2>3
<1>4. CASE ProbeRefused(s)
  <2>1. Alone(s)
    BY <1>4, <1>a, <1>b, <1>c
    DEF ProbeRefused, Reached, Alone, Undisturbed, Busy, InListen
  <2>2. QED
    BY <1>4, <2>1, AloneKeepsCalm DEF ProbeRefused, ControlState, InListen
<1>5. CASE UnlinkStale(s)
  <2>1. Alone(s)
    BY <1>5, <1>a DEF UnlinkStale, Undisturbed
  <2>2. QED
    BY <1>5, <2>1, AloneKeepsCalm DEF UnlinkStale, ControlState, InListen
<1>6. CASE Bind(s)
  <2>1. Alone(s)
    BY <1>6, <1>a DEF Bind, Undisturbed
  <2>2. entry' \in Inode /\ bound'[s] = entry'
    BY <1>6 DEF Bind, FreeInode, IInv
  <2>3. Goto(s, "identify")
    BY <1>6 DEF Bind
  <2>4. QED
    BY <2>1, <2>2, <2>3, AloneKeepsCalm DEF ControlState, InListen
<1>7. CASE LoadIdentity(s)
  <2>1. Alone(s) /\ bound[s] = entry /\ entry \in Inode
    BY <1>7, <1>a DEF LoadIdentity, Undisturbed, PathKnown
  <2>2. /\ Goto(s, "listen")
        /\ UNCHANGED <<entry, bound>>
        /\ pathInode'[s] = entry
    BY <1>7, <2>1 DEF LoadIdentity, IInv
  <2>3. QED
    BY <2>1, <2>2, AloneKeepsCalm DEF ControlState, InListen
<1>8. CASE Unwind(s)
  BY <1>8, <1>a DEF Unwind, PathKnown
<1>9. CASE ListenSucceeds(s)
  <2>1. Alone(s) /\ bound[s] = entry /\ entry \in Inode /\ pathInode[s] = bound[s]
    BY <1>9, <1>a DEF ListenSucceeds, Undisturbed, PathKnown
  <2>2. QED
    BY <1>9, <2>1, AloneKeepsCalm DEF ListenSucceeds, ControlState
<1>10. CASE ListenFails(s)
  <2>1. Alone(s)
    BY <1>10, <1>a DEF ListenFails, Undisturbed
  <2>2. QED
    BY <1>10, <2>1, AloneKeepsCalm DEF ListenFails, ControlState, InClose
<1>11. QED
  BY <1>1, <1>2, <1>3, <1>4, <1>5, <1>6, <1>7, <1>8, <1>9, <1>10

\* close(), and the end of the process at any point.
LEMMA CloseKeepsCalm ==
  ASSUME IInv, Calm, NEW s \in Server, ~overlapped',
         BeginClose(s) \/ ComparePath(s) \/ RemovePath(s) \/ Crash(s)
  PROVE  Calm'
<1>a. Undisturbed /\ PathKnown /\ OneListener /\ PcOK
  BY DEF IInv, Calm
<1>1. CASE BeginClose(s)
  <2>1. \A t \in Server \ {s} : ~Busy(t)
    BY <1>1 DEF BeginClose, NoteOverlap
  <2>2. Alone(s)
    BY <1>1, <2>1, <1>a DEF BeginClose, OneListener, Alone, Busy, InListen
  <2>3. QED
    BY <1>1, <2>2, AloneKeepsCalm DEF BeginClose, ControlState, InClose
<1>2. ASSUME Released(s), entry' = entry \/ (entry' = NoInode /\ Alone(s))
      PROVE  Calm'
  BY <1>2, ReleaseKeepsCalm DEF Released, IInv
<1>3. CASE ComparePath(s)
  <2>1. Alone(s)
    BY <1>3, <1>a DEF ComparePath, Undisturbed
  <2>2. CASE entry = pathInode[s]
    BY <1>3, <2>1, <2>2, AloneKeepsCalm DEF ComparePath, ControlState, InClose
  <2>3. CASE entry # pathInode[s]
    BY <1>2, <1>3, <2>3 DEF ComparePath
  <2>4. QED
    BY <2>2, <2>3
<1>4. CASE RemovePath(s)
  <2>1. Alone(s)
    BY <1>4, <1>a DEF RemovePath, Undisturbed
  <2>2. QED
    BY <1>2, <1>4, <2>1 DEF RemovePath
<1>5. CASE Crash(s)
  BY <1>2, <1>5 DEF Crash
<1>6. QED
  BY <1>1, <1>3, <1>4, <1>5

LEMMA StepPreserves == IInv /\ [Next]_vars => IInv'
<1> SUFFICES ASSUME IInv, [Next]_vars, ~overlapped'
             PROVE  Calm'
  BY TypesPreserved DEF IInv
<1>1. ~overlapped
  BY DEF Next, CallStep, BeginListen, SocketFails, LstatPath, ProbeRefused,
         ProbeConnects, ProbeInterrupted, UnlinkStale, Bind, BindFails,
         LoadIdentity, Unwind, ListenSucceeds, ListenFails, BeginClose,
         ComparePath, RemovePath, Accept, ClientConnects, Crash, NoteOverlap, vars
<1>2. Calm
  BY <1>1 DEF IInv
<1>3. ASSUME UNCHANGED <<entry, pc, bound, pathInode>>
      PROVE  Calm'
  BY <1>2, <1>3 DEF Calm, Undisturbed, PathKnown, OneListener, Alone, Busy
<1>4. ASSUME NEW s \in Server, Accept(s) \/ ClientConnects(s)
      PROVE  Calm'
  BY <1>3, <1>4 DEF Accept, ClientConnects
<1>5. ASSUME NEW s \in Server, NEW t \in Server, ProbeInterrupted(s, t)
      PROVE  Calm'
  BY <1>5 DEF ProbeInterrupted
<1>6. CASE UNCHANGED vars
  BY <1>3, <1>6 DEF vars
<1>7. QED
  BY <1>2, <1>4, <1>5, <1>6, ListenKeepsCalm, CloseKeepsCalm DEF Next, CallStep
-----------------------------------------------------------------------------
THEOREM Inductive == Spec => []IInv
  BY InitEstablishes, StepPreserves, PTL DEF Spec

\* Before its bind() a process has no socket, no inode and no connection; this is
\* what the type invariant needs to be inductive.
Typed ==
  /\ TypeOK
  /\ \A s \in Server : pc[s] \in {"closed", "lstat", "probe", "unlink", "bind"} =>
       bound[s] = NoInode /\ pathInode[s] = NoInode /\ pending[s] = 0

LEMMA TypedStep == Typed /\ [Next]_vars => Typed'
<1> SUFFICES ASSUME Typed, [Next]_vars PROVE Typed'
  OBVIOUS
<1> USE BacklogAssumption
    DEF Typed, TypeOK, ControlState, InListen, InClose, Goto, Released, NoteOverlap
<1>1. ASSUME NEW s \in Server,
             \/ BeginListen(s) \/ SocketFails(s) \/ LstatPath(s) \/ ProbeRefused(s)
             \/ UnlinkStale(s) \/ BindFails(s) \/ ListenSucceeds(s)
      PROVE  Typed'
  BY <1>1 DEF BeginListen, SocketFails, LstatPath, ProbeRefused, UnlinkStale,
              BindFails, ListenSucceeds
<1>2. ASSUME NEW s \in Server, NEW t \in Server, ProbeInterrupted(s, t)
      PROVE  Typed'
  BY <1>2 DEF ProbeInterrupted
<1>3. ASSUME NEW s \in Server, NEW t \in Server, ProbeConnects(s, t)
      PROVE  Typed'
  <2>1. pending[t] + 1 \in 0..(Backlog + 1) /\ pc[t] = "listening"
    BY <1>3 DEF ProbeConnects, QueueFull, Reached
  <2>2. QED
    BY <1>3, <2>1 DEF ProbeConnects
<1>4. ASSUME NEW s \in Server, Accept(s) \/ ClientConnects(s)
      PROVE  Typed'
  <2>1. CASE Accept(s)
    <3>1. pending[s] - 1 \in 0..(Backlog + 1)
      BY <2>1 DEF Accept
    <3>2. QED
      BY <2>1, <3>1 DEF Accept
  <2>2. CASE ClientConnects(s)
    <3>1. pending[s] + 1 \in 0..(Backlog + 1)
      BY <2>2 DEF ClientConnects, QueueFull
    <3>2. QED
      BY <2>2, <3>1 DEF ClientConnects, Reached
  <2>3. QED
    BY <1>4, <2>1, <2>2
<1>5. ASSUME NEW s \in Server, Bind(s)
      PROVE  Typed'
  BY <1>5 DEF Bind, FreeInode
<1>6. ASSUME NEW s \in Server,
             \/ LoadIdentity(s) \/ Unwind(s) \/ ListenFails(s) \/ BeginClose(s)
             \/ ComparePath(s) \/ RemovePath(s) \/ Crash(s)
      PROVE  Typed'
  <2>1. 0 \in 0..(Backlog + 1)
    OBVIOUS
  <2>2. CASE LoadIdentity(s) \/ ListenFails(s)
    BY <2>2 DEF LoadIdentity, ListenFails
  <2>3. CASE BeginClose(s)
    BY <2>1, <2>3 DEF BeginClose
  <2>4. CASE Unwind(s) \/ RemovePath(s) \/ Crash(s)
    BY <2>1, <2>4 DEF Unwind, RemovePath, Crash
  <2>5. CASE ComparePath(s)
    BY <2>1, <2>5 DEF ComparePath
  <2>6. QED
    BY <1>6, <2>2, <2>3, <2>4, <2>5
<1>7. CASE UNCHANGED vars
  BY <1>7 DEF vars
<1>8. QED
  BY <1>1, <1>2, <1>3, <1>4, <1>5, <1>6, <1>7 DEF Next, CallStep

LEMMA TypesHold == Spec => []TypeOK
<1>1. Init => Typed
  <2>1. 0 \in 0..(Backlog + 1) /\ FALSE \in BOOLEAN
    BY BacklogAssumption
  <2>2. QED
    BY <2>1 DEF Init, Typed, TypeOK, ControlState
<1>2. Typed => TypeOK
  BY DEF Typed
<1>3. QED
  BY <1>1, <1>2, TypedStep, PTL DEF Spec

\* While no two calls overlap, a server that listens is the one its path leads
\* to, and the inode number it will compare the path with is that of its socket.
THEOREM NamesStayTrue == Spec => []NamesTrue
<1>1. IInv => ReachableUnlessOverlapped /\ OwnNameUnlessOverlapped
  BY DEF IInv, Calm, PathKnown, ReachableUnlessOverlapped, OwnNameUnlessOverlapped
<1>2. QED
  BY <1>1, Inductive, TypesHold, PTL DEF NamesTrue

\* No name that a killed server left behind keeps the next one from listening.
THEOREM StaleNameNoObstacle == Spec => RefusedForCause
<1> DEFINE Refused == \A s \in Server :
       (pc[s] \in InListen /\ (LstatPath(s) \/ BindFails(s) \/ Unwind(s))
                           /\ pc'[s] = "closed")
         => (overlapped \/ entry = File)
<1>1. ASSUME IInv, NEW s \in Server, ~overlapped,
             LstatPath(s) \/ BindFails(s) \/ Unwind(s), pc'[s] = "closed"
      PROVE  entry = File
  <2>1. PathKnown /\ PcOK
    BY <1>1 DEF IInv, Calm
  <2>2. ~BindFails(s) /\ ~Unwind(s)
    BY <2>1 DEF BindFails, Unwind, PathKnown
  <2>3. QED
    BY <1>1, <2>1, <2>2 DEF LstatPath, Goto, PcOK
<1>2. IInv => Refused
  BY <1>1
<1> HIDE DEF Refused
<1>3. IInv => [Refused]_vars
  BY <1>2
<1>4. Spec => [][Refused]_vars
  BY <1>3, Inductive, PTL
<1>5. QED
  BY <1>4 DEF RefusedForCause, Refused
=============================================================================
