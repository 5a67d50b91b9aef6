--------------------------- MODULE ThreadManager ---------------------------
(***************************************************************************)
(* elap::threading::ThreadManager: named worker threads that are asked to  *)
(* stop through a flag each, and joined.  Every step below is one critical *)
(* section of mutex_, one join, or the end of a worker; between them       *)
(*   - Client threads (one of them, Owner, destroys the manager) call      *)
(*     startThread, requestStop and joinAll in any order and at once,      *)
(*   - the worker functions do the same, as far as WorkerOps lets them.    *)
(* joinAll() moves the whole vector threads_ into a local one before it    *)
(* joins, so a thread that is being joined is no longer in threads_.       *)
(***************************************************************************)
EXTENDS Naturals, Sequences

CONSTANTS
  Worker,      \* the std::threads startThread() can create; a bound
  NameOf,      \* the name each of them is started under
  Client,      \* the other threads that call the manager
  Owner,       \* the client whose thread runs ~ThreadManager()
  WorkerOps    \* the operations the worker functions call on their manager

ASSUME OwnerAssumption == Owner \in Client
ASSUME ThreadsAssumption == Client \cap Worker = {}
ASSUME WorkerOpsAssumption ==
  WorkerOps \subseteq {"startThread", "requestStop", "joinAll"}

VARIABLES
  threads,         \* threads_: the managed threads, in the order they started
  status,          \* whether the thread's function has started and returned
  stopRequested,   \* its stop flag
  joining,         \* per thread in joinAll(): its local vector, joined so far cut
  inJoin,          \* the threads that are inside joinAll()
  asked,           \* history: the workers that ran during a requestStop()
  awaited,         \* history: the workers that joinAll() owes its caller to outwait
  life             \* of the manager: "alive", in its destructor, or after it

vars == <<threads, status, stopRequested, joining, inJoin, awaited, asked, life>>

Caller == Client \cup Worker

TypeOK ==
  /\ threads \in Seq(Worker)
  /\ status \in [Worker -> {"unborn", "running", "exited"}]
  /\ stopRequested \in [Worker -> BOOLEAN]
  /\ joining \in [Caller -> Seq(Worker)]
  /\ inJoin \subseteq Caller
  /\ awaited \in [Caller -> SUBSET Worker]
  /\ asked \subseteq Worker
  /\ life \in {"alive", "stopping", "joining", "destroyed", "terminated"}

Init ==
  /\ threads = <<>>
  /\ status = [w \in Worker |-> "unborn"]
  /\ stopRequested = [w \in Worker |-> FALSE]
  /\ joining = [c \in Caller |-> <<>>]
  /\ inJoin = {}
  /\ awaited = [c \in Caller |-> {}]
  /\ asked = {}
  /\ life = "alive"
-----------------------------------------------------------------------------
Elements(s) == {s[i] : i \in 1..Len(s)}

Running == {w \in Worker : status[w] = "running"}

\* Who may call op now: any client while the manager is alive (to use an
\* object while it is destroyed is outside the language), and a worker
\* function until the destructor has returned.
MayCall(c, op) ==
  /\ c \notin inJoin
  /\ \/ c \in Client /\ life = "alive"
     \/ /\ c \in Running
        /\ op \in WorkerOps
        /\ life \in {"alive", "stopping", "joining"}

\* A name already in threads_ is refused, and so is an empty function; when
\* std::thread cannot be created the exception leaves threads_ as it was.
\* None of these changes the state.
StartThread(c, w) ==
  /\ MayCall(c, "startThread")
  /\ status[w] = "unborn"
  /\ \A v \in Elements(threads) : NameOf[v] # NameOf[w]
  /\ threads' = Append(threads, w)
  /\ status' = [status EXCEPT ![w] = "running"]
  /\ UNCHANGED <<stopRequested, joining, inJoin, awaited, asked, life>>

RaiseStopFlags ==
  /\ stopRequested' =
       [w \in Worker |-> stopRequested[w] \/ w \in Elements(threads)]
  /\ asked' = asked \cup Running

RequestStop(c) ==
  /\ MayCall(c, "requestStop")
  /\ RaiseStopFlags
  /\ UNCHANGED <<threads, status, joining, inJoin, awaited, life>>

\* The workers that a joinAll() under way has taken and not joined yet.
HeldByOthers == UNION {Elements(joining[d]) : d \in inJoin}

\* Mutant of TakeThreads: the vector is copied and not swapped.
CopyThreads(c) ==
  /\ joining' = [joining EXCEPT ![c] = threads]
  /\ inJoin' = inJoin \cup {c}
  /\ awaited' = [awaited EXCEPT ![c] = Running \ (HeldByOthers \cup {c})]
  /\ UNCHANGED <<threads, status, stopRequested, asked>>

\* threads.swap(threads_), under the mutex.  The caller may expect every worker
\* that runs now to be waited for, but for the ones another joinAll() holds.
TakeThreads(c) ==
  /\ joining' = [joining EXCEPT ![c] = threads]
  /\ threads' = <<>>
  /\ inJoin' = inJoin \cup {c}
  /\ awaited' = [awaited EXCEPT ![c] = Running \ (HeldByOthers \cup {c})]
  /\ UNCHANGED <<status, stopRequested, asked>>

JoinAll(c) ==
  /\ MayCall(c, "joinAll")
  /\ TakeThreads(c)
  /\ UNCHANGED life

\* The next thread of the vector: a thread that finds itself there detaches
\* itself, any other one is waited for.
JoinNext(c) ==
  /\ c \in inJoin
  /\ joining[c] # <<>>
  /\ Head(joining[c]) # c => status[Head(joining[c])] = "exited"
  /\ joining' = [joining EXCEPT ![c] = Tail(@)]
  /\ UNCHANGED <<threads, status, stopRequested, inJoin, awaited, asked, life>>

\* Mutant of JoinReturns: it gives up on a thread that still runs.
JoinGivesUp(c) ==
  /\ c \in inJoin
  /\ c = Owner => life = "alive"
  /\ inJoin' = inJoin \ {c}
  /\ UNCHANGED <<threads, status, stopRequested, joining, awaited, asked, life>>

JoinReturns(c) ==
  /\ c \in inJoin
  /\ joining[c] = <<>>
  /\ c = Owner => life = "alive"
  /\ inJoin' = inJoin \ {c}
  /\ UNCHANGED <<threads, status, stopRequested, joining, awaited, asked, life>>

\* The worker function returns or throws; the thread ends either way.
WorkerExits(w) ==
  /\ status[w] = "running"
  /\ w \notin inJoin
  /\ status' = [status EXCEPT ![w] = "exited"]
  /\ UNCHANGED <<threads, stopRequested, joining, inJoin, awaited, asked, life>>
-----------------------------------------------------------------------------
(* ~ThreadManager(): requestStop(), joinAll(), and the end of the members. *)

\* Mutant of DestructorRequestsStop: the destructor only joins.
DestructorOnlyJoins ==
  /\ life = "alive"
  /\ inJoin \cap Client = {}
  /\ life' = "stopping"
  /\ UNCHANGED <<threads, status, stopRequested, joining, inJoin, awaited, asked>>

DestructorRequestsStop ==
  /\ life = "alive"
  /\ inJoin \cap Client = {}
  /\ RaiseStopFlags
  /\ life' = "stopping"
  /\ UNCHANGED <<threads, status, joining, inJoin, awaited>>

\* Mutant of DestructorJoins: the destructor only requests stop.
DestructorJoinsNobody ==
  /\ life = "stopping"
  /\ life' = "joining"
  /\ UNCHANGED <<threads, status, stopRequested, joining, inJoin, awaited, asked>>

DestructorJoins ==
  /\ life = "stopping"
  /\ TakeThreads(Owner)
  /\ life' = "joining"

\* A joinable std::thread left in threads_ would call std::terminate.
DestructorReturns ==
  /\ life = "joining"
  /\ joining[Owner] = <<>>
  /\ life' = IF threads = <<>> THEN "destroyed" ELSE "terminated"
  /\ inJoin' = inJoin \ {Owner}
  /\ UNCHANGED <<threads, status, stopRequested, joining, awaited, asked>>
-----------------------------------------------------------------------------
Next ==
  \/ \E c \in Caller, w \in Worker : StartThread(c, w)
  \/ \E c \in Caller : RequestStop(c) \/ JoinAll(c) \/ JoinNext(c) \/ JoinReturns(c)
  \/ \E w \in Worker : WorkerExits(w)
  \/ DestructorRequestsStop
  \/ DestructorJoins
  \/ DestructorReturns

\* A worker function returns some time after its flag was raised; that is its
\* contract, and all the manager asks of it.  Threads inside joinAll() and the
\* destructor are scheduled.  No thread is obliged to call anything.
Fairness ==
  /\ \A w \in Worker : WF_vars(stopRequested[w] /\ WorkerExits(w))
  /\ \A c \in Caller : WF_vars(JoinNext(c)) /\ WF_vars(JoinReturns(c))
  /\ WF_vars(DestructorJoins)
  /\ WF_vars(DestructorReturns)

Spec == Init /\ [][Next]_vars /\ Fairness
-----------------------------------------------------------------------------
\* A thread object is in one place: threads_, or the vector of one joinAll().
\* Were it in two it would be joined twice; a running thread that is in none
\* has been detached, and nobody can wait for it any more.
OneHolder ==
  /\ \A c \in Caller : Elements(threads) \cap Elements(joining[c]) = {}
  /\ \A c, d \in Caller :
       c # d => Elements(joining[c]) \cap Elements(joining[d]) = {}
  /\ \A w \in Running : \/ w \in Elements(threads)
                        \/ \E c \in inJoin : w \in Elements(joining[c])

\* When the destructor has returned no worker runs: each of them reads
\* logger_ and component_ of the manager as its last act.
NoWorkerOutlivesManager == life \in {"destroyed", "terminated"} => Running = {}

\* The destructor never destroys a joinable std::thread.
NeverTerminates == life # "terminated"

\* Destruction is clean: the last act of the manager leaves nothing that runs.
DestroyedClean == TypeOK /\ NoWorkerOutlivesManager /\ NeverTerminates

\* joinAll() returns only when the workers that ran at its call have exited, of
\* overlapping calls too: each one waits for all but what another one holds.
JoinAllWaits ==
  [][\A c \in Caller :
       JoinReturns(c) => \A w \in awaited[c] : status[w] = "exited"]_vars

\* Once the destructor has begun it comes to its end.
DestructionCompletes == (life # "alive") ~> (life = "destroyed")
-----------------------------------------------------------------------------
\* "Stop requests are propagated to workers" (ELAP_Phase1_HLD.md): requestStop()
\* raises the flag of every worker that is running.
StopReachesEveryWorker == \A w \in asked : stopRequested[w]
=============================================================================
