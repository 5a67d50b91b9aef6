-------------------------- MODULE UnixSocketServer --------------------------
(***************************************************************************)
(* elap::ipc::UnixSocketServer: several processes that bind, listen on and *)
(* release the same socket path, one object in each.  listen() and close() *)
(* are sequences of system calls on a name that all of them share, so      *)
(* every system call is a step: between two of them any other process may  *)
(* act, or this one may be killed and leave its name behind.               *)
(* The path is one directory entry that holds an inode number.  The kernel *)
(* may give a freed number to the next socket that is bound.               *)
(***************************************************************************)
EXTENDS Naturals

CONSTANTS
  Server,     \* the processes
  Inode,      \* the inode numbers the file system gives out; a bound
  NoInode,    \* no such entry, or not bound
  File,       \* an entry that is not a socket
  Backlog     \* the backlog passed to ::listen()

ASSUME InodeAssumption == NoInode \notin Inode /\ File \notin Inode /\ File # NoInode
ASSUME BacklogAssumption == Backlog \in Nat

VARIABLES
  entry,        \* what the path names
  pc,           \* where each process is in listen() and close()
  bound,        \* the inode its socket is bound to
  pathInode,    \* pathInode_: the inode it will remove when it closes
  pending,      \* connections its listening socket has queued
  overlapped    \* history: two of these calls have run at the same time, or
                \* a probe of a live listener was cut off by a signal

vars == <<entry, pc, bound, pathInode, pending, overlapped>>

InListen == {"lstat", "probe", "unlink", "bind", "identify", "unwind", "listen"}
InClose == {"release", "remove"}
ControlState == {"closed", "listening"} \cup InListen \cup InClose

TypeOK ==
  /\ entry \in Inode \cup {NoInode, File}
  /\ pc \in [Server -> ControlState]
  /\ bound \in [Server -> Inode \cup {NoInode}]
  /\ pathInode \in [Server -> Inode \cup {NoInode, File}]
  /\ pending \in [Server -> 0..(Backlog + 1)]
  /\ overlapped \in BOOLEAN
  /\ \A s \in Server : pc[s] = "closed" => /\ bound[s] = NoInode
                                           /\ pathInode[s] = NoInode
                                           /\ pending[s] = 0

\* The path is free, or a file that is not a socket has it.
Init ==
  /\ entry \in {NoInode, File}
  /\ pc = [s \in Server |-> "closed"]
  /\ bound = [s \in Server |-> NoInode]
  /\ pathInode = [s \in Server |-> NoInode]
  /\ pending = [s \in Server |-> 0]
  /\ overlapped = FALSE
-----------------------------------------------------------------------------
Busy(s) == pc[s] \in InListen \cup InClose

\* The listening socket a connect() to the path would reach.
Reached(s) == pc[s] = "listening" /\ bound[s] = entry

QueueFull(s) == pending[s] > Backlog

Goto(s, where) == pc' = [pc EXCEPT ![s] = where]

\* Calls of listen() and close() note whether another one is under way.
NoteOverlap(s) ==
  overlapped' = (overlapped \/ \E t \in Server \ {s} : Busy(t))

\* The process has no socket and owns no path any more.
Released(s) ==
  /\ Goto(s, "closed")
  /\ bound' = [bound EXCEPT ![s] = NoInode]
  /\ pathInode' = [pathInode EXCEPT ![s] = NoInode]
  /\ pending' = [pending EXCEPT ![s] = 0]
-----------------------------------------------------------------------------
(* listen().  On a server that already listens it begins with close(), that *)
(* is, with the steps of the next section.                                 *)

BeginListen(s) ==
  /\ pc[s] = "closed"
  /\ Goto(s, "lstat")
  /\ NoteOverlap(s)
  /\ UNCHANGED <<entry, bound, pathInode, pending>>

\* The path is too long, or no socket is to be had for the server or for the
\* probe: listen() fails and nothing has happened.
SocketFails(s) ==
  /\ pc[s] \in {"lstat", "probe"}
  /\ Released(s)
  /\ UNCHANGED <<entry, overlapped>>

\* Mutant of LstatPath: a path that exists is taken to be in use.
LstatRefusesAny(s) ==
  /\ pc[s] = "lstat"
  /\ Goto(s, IF entry = NoInode THEN "bind" ELSE "closed")
  /\ UNCHANGED <<entry, bound, pathInode, pending, overlapped>>

\* removeStaleSocketPath() leaves alone what is not a socket.
LstatPath(s) ==
  /\ pc[s] = "lstat"
  /\ Goto(s, CASE entry = NoInode -> "bind"
               [] entry = File    -> "closed"
               [] OTHER           -> "probe")
  /\ UNCHANGED <<entry, bound, pathInode, pending, overlapped>>

\* socketHasActiveListener() connects.  The connection stays in the queue of
\* the listener it found, and this listen() fails.
ProbeConnects(s, t) ==
  /\ pc[s] = "probe"
  /\ Reached(t)
  /\ ~QueueFull(t)
  /\ pending' = [pending EXCEPT ![t] = @ + 1]
  /\ Goto(s, "closed")
  /\ UNCHANGED <<entry, bound, pathInode, overlapped>>

\* Mutant of ProbeRefused: no connection is tried, every socket counts as stale.
ProbeSkipped(s) ==
  /\ pc[s] = "probe"
  /\ Goto(s, "unlink")
  /\ UNCHANGED <<entry, bound, pathInode, pending, overlapped>>

\* Nobody listens on the socket that the path names, or it names none now.
ProbeRefused(s) ==
  /\ pc[s] = "probe"
  /\ \A t \in Server : ~Reached(t)
  /\ Goto(s, "unlink")
  /\ UNCHANGED <<entry, bound, pathInode, pending, overlapped>>

\* connect() blocks while the queue is full.  A signal ends it with EINTR,
\* which the probe takes for a refusal.
ProbeInterrupted(s, t) ==
  /\ pc[s] = "probe"
  /\ Reached(t)
  /\ QueueFull(t)
  /\ Goto(s, "unlink")
  /\ overlapped' = TRUE
  /\ UNCHANGED <<entry, bound, pathInode, pending>>

\* Mutant of UnlinkStale: instead of removing the name, look again.
LookAgain(s) ==
  /\ pc[s] = "unlink"
  /\ Goto(s, "lstat")
  /\ UNCHANGED <<entry, bound, pathInode, pending, overlapped>>

UnlinkStale(s) ==
  /\ pc[s] = "unlink"
  /\ entry' = NoInode
  /\ Goto(s, "bind")
  /\ UNCHANGED <<bound, pathInode, pending, overlapped>>

\* A number is free when neither the path nor an open socket holds its inode.
FreeInode == Inode \ ({entry} \cup {bound[t] : t \in Server})

Bind(s) ==
  /\ pc[s] = "bind"
  /\ entry = NoInode
  /\ \E i \in FreeInode :
       /\ entry' = i
       /\ bound' = [bound EXCEPT ![s] = i]
  /\ Goto(s, "identify")
  /\ UNCHANGED <<pathInode, pending, overlapped>>

BindFails(s) ==
  /\ pc[s] = "bind"
  /\ entry # NoInode
  /\ Goto(s, "closed")
  /\ UNCHANGED <<entry, bound, pathInode, pending, overlapped>>

\* loadSocketPathIdentity() asks the path, not the socket, for the inode.
LoadIdentity(s) ==
  /\ pc[s] = "identify"
  /\ IF entry \in Inode
     THEN pathInode' = [pathInode EXCEPT ![s] = entry] /\ Goto(s, "listen")
     ELSE Goto(s, "unwind") /\ UNCHANGED pathInode
  /\ UNCHANGED <<entry, bound, pending, overlapped>>

\* Without an identity listen() closes its socket and unlinks the path,
\* whatever it names by now.
Unwind(s) ==
  /\ pc[s] = "unwind"
  /\ entry' = NoInode
  /\ Released(s)
  /\ UNCHANGED overlapped

ListenSucceeds(s) ==
  /\ pc[s] = "listen"
  /\ Goto(s, "listening")
  /\ UNCHANGED <<entry, bound, pathInode, pending, overlapped>>

\* ::listen() fails: what follows is what close() does.
ListenFails(s) ==
  /\ pc[s] = "listen"
  /\ bound' = [bound EXCEPT ![s] = NoInode]
  /\ Goto(s, "release")
  /\ UNCHANGED <<entry, pathInode, pending, overlapped>>
-----------------------------------------------------------------------------
(* close(), also run by the destructor.                                    *)

\* ::close() of the listening socket: its inode number becomes free as soon
\* as the path does not name it any more.
BeginClose(s) ==
  /\ pc[s] = "listening"
  /\ bound' = [bound EXCEPT ![s] = NoInode]
  /\ pending' = [pending EXCEPT ![s] = 0]
  /\ Goto(s, "release")
  /\ NoteOverlap(s)
  /\ UNCHANGED <<entry, pathInode>>

\* unlinkOwnedSocketPath(): lstat, compare, unlink.
ComparePath(s) ==
  /\ pc[s] = "release"
  /\ IF entry = pathInode[s]
     THEN Goto(s, "remove") /\ UNCHANGED <<bound, pathInode, pending>>
     ELSE Released(s)
  /\ UNCHANGED <<entry, overlapped>>

RemovePath(s) ==
  /\ pc[s] = "remove"
  /\ entry' = NoInode
  /\ Released(s)
  /\ UNCHANGED overlapped
-----------------------------------------------------------------------------
(* The rest of the world.                                                  *)

\* accept() and tryAccept() of the service's own loop.
Accept(s) ==
  /\ pc[s] = "listening"
  /\ pending[s] > 0
  /\ pending' = [pending EXCEPT ![s] = @ - 1]
  /\ UNCHANGED <<entry, pc, bound, pathInode, overlapped>>

\* UnixSocketClient::connect() in some client.
ClientConnects(s) ==
  /\ Reached(s)
  /\ ~QueueFull(s)
  /\ pending' = [pending EXCEPT ![s] = @ + 1]
  /\ UNCHANGED <<entry, pc, bound, pathInode, overlapped>>

\* The kernel closes the socket of a killed process; the path stays.
Crash(s) ==
  /\ pc[s] # "closed"
  /\ Released(s)
  /\ UNCHANGED <<entry, overlapped>>
-----------------------------------------------------------------------------
CallStep(s) ==
  \/ LstatPath(s)
  \/ ProbeRefused(s)
  \/ \E t \in Server : ProbeConnects(s, t)
  \/ UnlinkStale(s)
  \/ Bind(s)
  \/ BindFails(s)
  \/ LoadIdentity(s)
  \/ Unwind(s)
  \/ ListenSucceeds(s)
  \/ ComparePath(s)
  \/ RemovePath(s)

Next ==
  \E s \in Server :
    \/ CallStep(s)
    \/ BeginListen(s)
    \/ SocketFails(s)
    \/ \E t \in Server : ProbeInterrupted(s, t)
    \/ ListenFails(s)
    \/ BeginClose(s)
    \/ Accept(s)
    \/ ClientConnects(s)
    \/ Crash(s)

\* System calls return, and a listening service accepts again and again, as
\* the loop of sample_ipc_server does; strongly, because a queue that clients
\* fill and the service drains is not full at every moment.
Fairness ==
  \A s \in Server : /\ SF_vars(CallStep(s))
                    /\ WF_vars(Accept(s))

Spec == Init /\ [][Next]_vars /\ Fairness
-----------------------------------------------------------------------------
\* While the calls of listen() and close() on the path have never overlapped,
\* a server that listens can be reached, wherever earlier servers were killed.
ReachableUnlessOverlapped ==
  \A s \in Server : (pc[s] = "listening" /\ ~overlapped) => bound[s] = entry

\* While they have not, a server that closes removes no name but its own: the
\* inode number it remembers still is that of its own socket.
OwnNameUnlessOverlapped ==
  \A s \in Server :
    (pc[s] \in {"listen", "listening"} /\ ~overlapped) => pathInode[s] = bound[s]

\* Every variable keeps its type and, while the calls have not overlapped, every
\* server that listens has the path and knows its own socket by it.
NamesTrue == TypeOK /\ ReachableUnlessOverlapped /\ OwnNameUnlessOverlapped

\* A listen() that no listener refuses and for which no system call runs out of
\* resources fails only on a file that is no socket, or in a race: whatever
\* names killed servers have left behind, the next server gets past them.
RefusedForCause ==
  [][\A s \in Server :
       (pc[s] \in InListen /\ (LstatPath(s) \/ BindFails(s) \/ Unwind(s))
                           /\ pc'[s] = "closed")
         => (overlapped \/ entry = File)]_vars

\* listen() comes to an end as long as whoever listens on the path accepts.
CallsReturn == \A s \in Server : Busy(s) ~> ~Busy(s)
-----------------------------------------------------------------------------
\* "Only remove a stale socket that the server can prove it owns", and the
\* inode is tracked "so cleanup cannot delete a replacement"
\* (ELAP_Implementation_Architecture_OOP_Review.md): a server that listens
\* keeps its name, whatever other servers do at the same time.
ListenerKeepsName ==
  \A s \in Server : pc[s] = "listening" => bound[s] = entry
=============================================================================
