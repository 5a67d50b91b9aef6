------------------------ MODULE ThreadManagerProofs ------------------------
(***************************************************************************)
(* The safety properties of ThreadManager for any number of workers and    *)
(* clients, as long as the worker functions themselves do nothing to their *)
(* manager but requestStop(); and those of any number of loggers that any  *)
(* number of threads write to.                                             *)
(***************************************************************************)
EXTENDS MCThreadManager, SequenceTheorems, TLAPS

LEMMA ElementsEmpty == Elements(<<>>) = {}
  BY DEF Elements

LEMMA ElementsAppend ==
  ASSUME NEW S, NEW s \in Seq(S), NEW e \in S
  PROVE  /\ Append(s, e) \in Seq(S)
         /\ Elements(Append(s, e)) = Elements(s) \cup {e}
<1>1. Append(s, e) \in Seq(S)
  OBVIOUS
<1>2. ASSUME NEW x \in Elements(Append(s, e))
      PROVE  x \in Elements(s) \cup {e}
  BY <1>2 DEF Elements
<1>3. ASSUME NEW x \in Elements(s)
      PROVE  x \in Elements(Append(s, e))
  <2>1. PICK i \in 1..Len(s) : x = s[i]
    BY <1>3 DEF Elements
  <2>2. i \in 1..Len(Append(s, e)) /\ Append(s, e)[i] = x
    BY <2>1
  <2>3. QED
    BY <2>2 DEF Elements
<1>4. e \in Elements(Append(s, e))
  <2>1. Len(s) + 1 \in 1..Len(Append(s, e)) /\ Append(s, e)[Len(s) + 1] = e
    OBVIOUS
  <2>2. QED
    BY <2>1 DEF Elements
<1>5. QED
  BY <1>1, <1>2, <1>3, <1>4

LEMMA ElementsTail ==
  ASSUME NEW S, NEW s \in Seq(S), s # <<>>
  PROVE  /\ Head(s) \in S
         /\ Tail(s) \in Seq(S)
         /\ Elements(s) = {Head(s)} \cup Elements(Tail(s))
<1>1. Head(s) \in S /\ Tail(s) \in Seq(S) /\ Len(s) \in Nat \ {0}
  OBVIOUS
<1>2. ASSUME NEW x \in Elements(s), x # Head(s)
      PROVE  x \in Elements(Tail(s))
  <2>1. PICK i \in 1..Len(s) : x = s[i]
    BY <1>2 DEF Elements
  <2>2. i # 1
    BY <2>1, <1>2
  <2>3. i - 1 \in 1..Len(Tail(s)) /\ Tail(s)[i - 1] = x
    BY <2>1, <2>2, <1>1
  <2>4. QED
    BY <2>3 DEF Elements
<1>3. ASSUME NEW x \in Elements(Tail(s))
      PROVE  x \in Elements(s)
  <2>1. PICK i \in 1..Len(Tail(s)) : x = Tail(s)[i]
    BY <1>3 DEF Elements
  <2>2. i + 1 \in 1..Len(s) /\ s[i + 1] = x
    BY <2>1, <1>1
  <2>3. QED
    BY <2>2 DEF Elements
<1>4. Head(s) \in Elements(s)
  <2>1. 1 \in 1..Len(s) /\ s[1] = Head(s)
    BY <1>1
  <2>2. QED
    BY <2>1 DEF Elements
<1>5. QED
  BY <1>1, <1>2, <1>3, <1>4
-----------------------------------------------------------------------------
Types ==
  /\ threads \in Seq(Worker)
  /\ status \in [Worker -> {"unborn", "running", "exited"}]
  /\ joining \in [Caller -> Seq(Worker)]
  /\ inJoin \subseteq Client
  /\ awaited \in [Caller -> SUBSET Worker]
  /\ life \in {"alive", "stopping", "joining", "destroyed"}

\* In the destructor nobody but it joins, and after its swap threads_ is empty.
Destruction ==
  /\ life \in {"stopping", "destroyed"} => inJoin = {}
  /\ life = "joining" => inJoin = {Owner}
  /\ life \in {"joining", "destroyed"} => threads = <<>>

\* A local vector is empty outside joinAll().
NothingLeft == \A c \in Caller \ inJoin : joining[c] = <<>>

\* Only started threads are held anywhere.
HeldWereStarted ==
  /\ \A w \in Elements(threads) : status[w] # "unborn"
  /\ \A c \in Caller : \A w \in Elements(joining[c]) : status[w] # "unborn"

\* What joinAll() still owes its caller is still in its vector.
StillJoining ==
  \A c \in inJoin : \A w \in awaited[c] :
    /\ status[w] # "unborn"
    /\ status[w] = "running" => w \in Elements(joining[c])

IInv ==
  /\ Types
  /\ Destruction
  /\ NothingLeft
  /\ HeldWereStarted
  /\ StillJoining
  /\ OneHolder

\* The first state satisfies the inductive invariant.
LEMMA InitEstablishes == Init => IInv
  BY ElementsEmpty, OwnerAssumption
  DEF Init, IInv, Types, Destruction, NothingLeft, HeldWereStarted, StillJoining,
      OneHolder, Running, Caller

\* startThread() makes a thread that no vector held, and adds it to threads_.
LEMMA StartPreserves ==
  ASSUME WorkerOps \subseteq {"requestStop"}, IInv,
         NEW c \in Caller, NEW w \in Worker, StartThread(c, w)
  PROVE  IInv'
<1>1. life = "alive"
  BY DEF StartThread, MayCall
<1>2. /\ threads' \in Seq(Worker)
      /\ Elements(threads') = Elements(threads) \cup {w}
  BY ElementsAppend DEF IInv, Types, StartThread
<1>3. status[w] = "unborn" /\ status' = [status EXCEPT ![w] = "running"]
  BY DEF StartThread
<1>4. /\ UNCHANGED <<joining, inJoin, awaited, life>>
      /\ Running' = Running \cup {w}
  BY <1>3 DEF StartThread, Running, IInv, Types
<1>5. Types' /\ Destruction' /\ NothingLeft'
  BY <1>1, <1>2, <1>3, <1>4 DEF IInv, Types, Destruction, NothingLeft
<1>6. HeldWereStarted' /\ StillJoining'
  BY <1>2, <1>3, <1>4 DEF IInv, Types, HeldWereStarted, StillJoining
<1>7. \A d \in Caller : w \notin Elements(joining[d])
  BY <1>3 DEF IInv, HeldWereStarted
<1>8. OneHolder'
  <2>1. \A d \in Caller : Elements(threads') \cap Elements(joining'[d]) = {}
    BY <1>2, <1>4, <1>7 DEF IInv, OneHolder
  <2>2. \A v \in Running' : \/ v \in Elements(threads')
                            \/ \E d \in inJoin' : v \in Elements(joining'[d])
    BY <1>2, <1>4 DEF IInv, OneHolder
  <2>3. joining' = joining
    BY <1>4
  <2>4. QED
    BY <2>1, <2>2, <2>3 DEF IInv, OneHolder
<1>9. QED
  BY <1>5, <1>6, <1>8 DEF IInv

\* joinAll() moves the whole of threads_ to its caller, who held nothing.
LEMMA TakePreserves ==
  ASSUME IInv, NEW c \in Client, c \notin inJoin, TakeThreads(c),
         \/ life' = life /\ life = "alive"
         \/ life = "stopping" /\ life' = "joining" /\ c = Owner
  PROVE  IInv'
<1>1. c \in Caller
  BY DEF Caller
<1>2. /\ joining' = [joining EXCEPT ![c] = threads]
      /\ threads' = <<>>
      /\ inJoin' = inJoin \cup {c}
      /\ awaited' = [awaited EXCEPT ![c] = Running \ (HeldByOthers \cup {c})]
      /\ status' = status
      /\ Running' = Running
      /\ Running \subseteq Worker
  BY DEF TakeThreads, Running
<1>3. joining[c] = <<>> /\ Elements(joining[c]) = {} /\ Elements(threads') = {}
  BY <1>1, <1>2, ElementsEmpty DEF IInv, NothingLeft
<1>4. Elements(joining'[c]) = Elements(threads)
  BY <1>1, <1>2 DEF IInv, Types
<1>5. \A d \in Caller \ {c} : joining'[d] = joining[d] /\ awaited'[d] = awaited[d]
  BY <1>2 DEF IInv, Types
<1>6. Types'
  BY <1>1, <1>2 DEF IInv, Types
<1>7. Destruction' /\ NothingLeft'
  BY <1>1, <1>2, <1>5 DEF IInv, Types, Destruction, NothingLeft
<1>8. HeldWereStarted'
  BY <1>2, <1>3, <1>4, <1>5 DEF IInv, HeldWereStarted
<1>9. StillJoining'
  <2>1. awaited'[c] = Running \ (HeldByOthers \cup {c})
    BY <1>1, <1>2 DEF IInv, Types
  <2>2. Running \ HeldByOthers \subseteq Elements(threads)
    BY DEF IInv, OneHolder, HeldByOthers
  <2>3. ASSUME NEW w \in awaited'[c]
        PROVE  status[w] # "unborn" /\ w \in Elements(joining'[c])
    BY <2>1, <2>2, <2>3, <1>4 DEF Running
  <2>4. inJoin \subseteq Caller
    BY DEF IInv, Types, Caller
  <2>5. QED
    BY <1>2, <1>5, <2>3, <2>4 DEF IInv, StillJoining
<1>10. OneHolder'
  <2>1. \A w \in Running' : \E d \in inJoin' : w \in Elements(joining'[d])
    BY <1>1, <1>2, <1>3, <1>4, <1>5 DEF IInv, OneHolder, Types, Caller
  <2>2. QED
    BY <1>2, <1>3, <1>4, <1>5, <2>1 DEF IInv, OneHolder
<1>11. QED
  BY <1>6, <1>7, <1>8, <1>9, <1>10 DEF IInv

\* A join takes the head of the vector off, once that thread has exited; the
\* caller is no worker, so it never finds itself there.
LEMMA JoinPreserves ==
  ASSUME IInv, NEW c \in Caller, JoinNext(c)
  PROVE  IInv'
<1>1. c \in Client /\ c \in inJoin
  BY DEF JoinNext, IInv, Types
<1> DEFINE h == Head(joining[c])
<1>2. /\ h \in Worker
      /\ Tail(joining[c]) \in Seq(Worker)
      /\ Elements(joining[c]) = {h} \cup Elements(Tail(joining[c]))
  BY ElementsTail DEF JoinNext, IInv, Types
<1> HIDE DEF h
<1>3. status[h] = "exited"
  BY <1>1, <1>2, ThreadsAssumption DEF JoinNext, h
<1>4. /\ UNCHANGED <<threads, status, inJoin, awaited, life>>
      /\ joining' = [joining EXCEPT ![c] = Tail(@)]
      /\ Running' = Running
  BY DEF JoinNext, Running
<1>5. /\ Elements(joining[c]) = {h} \cup Elements(joining'[c])
      /\ \A d \in Caller \ {c} : joining'[d] = joining[d]
  BY <1>2, <1>4 DEF IInv, Types
<1>6. Types' /\ Destruction' /\ NothingLeft'
  BY <1>1, <1>2, <1>4, <1>5 DEF IInv, Types, Destruction, NothingLeft
<1>7. HeldWereStarted' /\ StillJoining'
  <2>1. HeldWereStarted'
    BY <1>4, <1>5 DEF IInv, HeldWereStarted
  <2>2. inJoin \subseteq Caller
    BY DEF IInv, Types, Caller
  <2>3. StillJoining'
    BY <1>3, <1>4, <1>5, <2>2 DEF IInv, StillJoining
  <2>4. QED
    BY <2>1, <2>3
<1>8. OneHolder'
  <2>1. \A d \in Caller : Elements(threads') \cap Elements(joining'[d]) = {}
    BY <1>4, <1>5 DEF IInv, OneHolder
  <2>2. \A d, e \in Caller :
          d # e => Elements(joining'[d]) \cap Elements(joining'[e]) = {}
    BY <1>4, <1>5 DEF IInv, OneHolder
  <2>3. \A v \in Running' : \/ v \in Elements(threads')
                            \/ \E d \in inJoin' : v \in Elements(joining'[d])
    <3> SUFFICES ASSUME NEW v \in Running, v \notin Elements(threads)
                 PROVE  \E d \in inJoin : v \in Elements(joining'[d])
      BY <1>4
    <3>1. PICK d \in inJoin : v \in Elements(joining[d])
      BY DEF IInv, OneHolder
    <3>2. v # h
      BY <1>3 DEF Running
    <3>3. d \in Caller
      BY DEF IInv, Types, Caller
    <3>4. QED
      BY <1>5, <3>1, <3>2, <3>3
  <2>4. QED
    BY <2>1, <2>2, <2>3 DEF OneHolder
<1>9. QED
  BY <1>6, <1>7, <1>8 DEF IInv

\* A thread that leaves joinAll() leaves an empty vector.
LEMMA LeavePreserves ==
  ASSUME IInv, NEW c \in Caller, c \in inJoin, joining[c] = <<>>,
         inJoin' = inJoin \ {c},
         UNCHANGED <<threads, status, joining, awaited>>,
         \/ life' = life /\ (c = Owner => life = "alive")
         \/ life = "joining" /\ life' = "destroyed" /\ c = Owner
  PROVE  IInv'
<1>1. Running' = Running
  BY DEF Running
<1>2. Elements(joining[c]) = {}
  BY ElementsEmpty
<1>3. Types'
  BY DEF IInv, Types
<1>4. Destruction'
  BY DEF IInv, Destruction
<1>5. NothingLeft' /\ HeldWereStarted' /\ StillJoining'
  BY DEF IInv, NothingLeft, HeldWereStarted, StillJoining
<1>6. OneHolder'
  BY <1>1, <1>2 DEF IInv, OneHolder
<1>7. QED
  BY <1>3, <1>4, <1>5, <1>6 DEF IInv

\* The end of a worker leaves every vector as it is.
LEMMA ExitPreserves ==
  ASSUME IInv, NEW w \in Worker, WorkerExits(w)
  PROVE  IInv'
<1>1. /\ UNCHANGED <<threads, joining, inJoin, awaited, life>>
      /\ status' = [status EXCEPT ![w] = "exited"]
      /\ status[w] = "running"
  BY DEF WorkerExits
<1>2. \A v \in Worker : /\ status'[v] = "running" => status[v] = "running"
                        /\ status[v] # "unborn" => status'[v] # "unborn"
  BY <1>1 DEF IInv, Types
<1>3. Running' \subseteq Running
  BY <1>2 DEF Running
<1>4. Types' /\ Destruction' /\ NothingLeft'
  BY <1>1 DEF IInv, Types, Destruction, NothingLeft
<1>5. /\ Elements(threads) \subseteq Worker
      /\ \A c \in Caller : Elements(joining[c]) \subseteq Worker
      /\ \A c \in inJoin : awaited[c] \subseteq Worker
  BY DEF IInv, Types, Elements, Caller
<1>6. HeldWereStarted' /\ StillJoining'
  BY <1>1, <1>2, <1>5 DEF IInv, HeldWereStarted, StillJoining
<1>7. OneHolder'
  BY <1>1, <1>3 DEF IInv, OneHolder
<1>8. QED
  BY <1>4, <1>6, <1>7 DEF IInv

\* Raising stop flags moves no thread.
LEMMA FlagsPreserve ==
  ASSUME IInv, UNCHANGED <<threads, status, joining, inJoin, awaited>>,
         \/ life' = life
         \/ life = "alive" /\ inJoin = {} /\ life' = "stopping"
  PROVE  IInv'
<1>1. Running' = Running
  BY DEF Running
<1>2. Types' /\ Destruction'
  BY DEF IInv, Types, Destruction
<1>3. NothingLeft' /\ HeldWereStarted' /\ StillJoining' /\ OneHolder'
  BY <1>1 DEF IInv, NothingLeft, HeldWereStarted, StillJoining, OneHolder
<1>4. QED
  BY <1>2, <1>3 DEF IInv

LEMMA StepPreserves ==
  ASSUME WorkerOps \subseteq {"requestStop"}, IInv, [Next]_vars
  PROVE  IInv'
<1>1. ASSUME NEW c \in Caller, NEW w \in Worker, StartThread(c, w)
      PROVE  IInv'
  BY <1>1, StartPreserves
<1>2. ASSUME NEW c \in Caller, RequestStop(c)
      PROVE  IInv'
  BY <1>2, FlagsPreserve DEF RequestStop
<1>3. ASSUME NEW c \in Caller, JoinAll(c)
      PROVE  IInv'
  <2>1. c \in Client /\ c \notin inJoin /\ life = "alive" /\ life' = life
    BY <1>3 DEF JoinAll, MayCall
  <2>2. QED
    BY <1>3, <2>1, TakePreserves DEF JoinAll
<1>4. ASSUME NEW c \in Caller, JoinNext(c)
      PROVE  IInv'
  BY <1>4, JoinPreserves
<1>5. ASSUME NEW c \in Caller, JoinReturns(c)
      PROVE  IInv'
  BY <1>5, LeavePreserves DEF JoinReturns
<1>6. ASSUME NEW w \in Worker, WorkerExits(w)
      PROVE  IInv'
  BY <1>6, ExitPreserves
<1>7. CASE DestructorRequestsStop
  <2>1. inJoin = {}
    BY <1>7 DEF DestructorRequestsStop, IInv, Types
  <2>2. QED
    BY <1>7, <2>1, FlagsPreserve DEF DestructorRequestsStop
<1>8. CASE DestructorJoins
  <2>1. Owner \notin inJoin
    BY <1>8 DEF DestructorJoins, IInv, Destruction
  <2>2. QED
    BY <1>8, <2>1, OwnerAssumption, TakePreserves DEF DestructorJoins
<1>9. CASE DestructorReturns
  <2>1. Owner \in inJoin /\ threads = <<>>
    BY <1>9 DEF DestructorReturns, IInv, Destruction
  <2>2. Owner \in Caller
    BY OwnerAssumption DEF Caller
  <2>3. QED
    BY <1>9, <2>1, <2>2, LeavePreserves DEF DestructorReturns
<1>10. CASE UNCHANGED vars
  BY <1>10, FlagsPreserve DEF vars
<1>11. QED
  BY <1>1, <1>2, <1>3, <1>4, <1>5, <1>6, <1>7, <1>8, <1>9, <1>10 DEF Next
-----------------------------------------------------------------------------
THEOREM Inductive ==
  ASSUME WorkerOps \subseteq {"requestStop"}
  PROVE  Spec => []IInv
<1>1. IInv /\ [Next]_vars => IInv'
  BY StepPreserves
<1>2. QED
  BY <1>1, InitEstablishes, PTL DEF Spec

\* Every running worker is held by threads_ or by exactly one joinAll().
THEOREM HolderUnique ==
  ASSUME WorkerOps \subseteq {"requestStop"}
  PROVE  Spec => []OneHolder
<1>1. IInv => OneHolder
  BY DEF IInv
<1>2. QED
  BY <1>1, Inductive, PTL

\* What the invariant leaves out keeps its type as well.
LEMMA FlagsTyped == Spec => [](stopRequested \in [Worker -> BOOLEAN] /\ asked \subseteq Worker)
<1> DEFINE T == stopRequested \in [Worker -> BOOLEAN] /\ asked \subseteq Worker
<1>1. Init => T
  BY DEF Init
<1>2. T /\ [Next]_vars => T'
  BY DEF Next, vars, StartThread, RequestStop, RaiseStopFlags, Running, JoinAll,
     TakeThreads, JoinNext, JoinReturns, WorkerExits, DestructorRequestsStop,
     DestructorJoins, DestructorReturns
<1>3. QED
  BY <1>1, <1>2, PTL DEF Spec

\* When the destructor has returned no worker runs, whatever was in progress
\* when it was called, and it never destroys a joinable std::thread.
THEOREM DestructionClean ==
  ASSUME WorkerOps \subseteq {"requestStop"}
  PROVE  Spec => []DestroyedClean
<1>1. IInv /\ stopRequested \in [Worker -> BOOLEAN] /\ asked \subseteq Worker => TypeOK
  BY DEF IInv, Types, TypeOK, Caller
<1>2. IInv => NeverTerminates
  BY DEF IInv, Types, NeverTerminates
<1>3. IInv => NoWorkerOutlivesManager
  BY <1>2, ElementsEmpty
  DEF IInv, Types, Destruction, OneHolder, NoWorkerOutlivesManager, NeverTerminates, Running
<1>4. QED
  BY <1>1, <1>2, <1>3, Inductive, FlagsTyped, PTL DEF DestroyedClean

\* joinAll() outwaits the workers it owes its caller, in every interleaving.
THEOREM JoinAllOutwaits ==
  ASSUME WorkerOps \subseteq {"requestStop"}
  PROVE  Spec => JoinAllWaits
<1>1. ASSUME IInv, NEW c \in Caller, JoinReturns(c), NEW w \in awaited[c]
      PROVE  status[w] = "exited"
  <2>1. c \in inJoin /\ Elements(joining[c]) = {}
    BY <1>1, ElementsEmpty DEF JoinReturns
  <2>2. w \in Worker
    BY <1>1 DEF IInv, Types
  <2>3. QED
    BY <1>1, <2>1, <2>2 DEF IInv, Types, StillJoining
<1> DEFINE Waits == \A c \in Caller :
                      JoinReturns(c) => \A w \in awaited[c] : status[w] = "exited"
<1>2. IInv => Waits
  BY <1>1
<1> HIDE DEF Waits
<1>3. IInv => [Waits]_vars
  BY <1>2
<1>4. Spec => [][Waits]_vars
  BY <1>3, Inductive, PTL
<1>5. QED
  BY <1>4 DEF JoinAllWaits, Waits
-----------------------------------------------------------------------------
(* The lines of the loggers, whichever threads log and set their levels.   *)

LogBounds ==
  /\ None \notin Thread
  /\ MaxLines \in Nat /\ MaxTime \in Nat /\ MaxSetBacks \in Nat

Piece == [line : 1 .. MaxLines, logger : Logger, piece : 1 .. 3, at : Log!Moment]
Streams == {"stdout", "stderr"}

\* The j-th piece of q is the last one of the logger.
Ends(q, logger, j) == Log!LastOf(q, Len(q), logger, j)

\* The lines of each logger are whole, the last one perhaps unfinished, and in
\* the order of their times.
Readable(q) ==
  /\ q \in Seq(Piece)
  /\ \A i \in 1 .. Len(q) : Log!GoesOn(q, i)
  /\ \A i, j \in 1 .. Len(q) :
       i < j /\ q[i].logger = q[j].logger => Log!InOrder(q[i].at, q[j].at)

\* What t has written of its line is the last its logger has in the stream.
Writes(t) ==
  LET q == stream[Log!StreamOf(call[t].level)] IN
  /\ Log!Holds(t) /\ Log!Shown(t)
  /\ Log!InOrder(call[t].at, stamp[t])
  /\ \E j \in 1 .. Len(q) : /\ Ends(q, call[t].logger, j)
                            /\ q[j].line = call[t].line
                            /\ q[j].piece = written[t]
                            /\ q[j].at = stamp[t]

HoldersCall ==
  \A l \in Logger : holder[l] # None => /\ call[holder[l]] # Log!NoCall
                                        /\ call[holder[l]].logger = l

CallsBegan == \A t \in Thread : call[t] # Log!NoCall => Log!InOrder(call[t].at, Log!Now)

\* A line that is not finished is the line of a thread that writes it.
OpenLines ==
  \A s \in Streams : \A l \in Logger : \A j \in 1 .. Len(stream[s]) :
    Ends(stream[s], l, j) /\ stream[s][j].piece # 3
      => \E t \in Thread : /\ written[t] > 0
                           /\ call[t].logger = l
                           /\ Log!StreamOf(call[t].level) = s

LogInv ==
  /\ Log!TypeOK
  /\ HoldersCall
  /\ CallsBegan
  /\ \A t \in Thread : written[t] > 0 => Writes(t)
  /\ \A s \in Streams :
       /\ Readable(stream[s])
       /\ \A i \in 1 .. Len(stream[s]) : Log!InOrder(stream[s][i].at, Log!Now)
  /\ OpenLines

LEMMA EndUnique ==
  ASSUME NEW q, NEW l, NEW i, NEW j, Ends(q, l, i), Ends(q, l, j), Len(q) \in Nat
  PROVE  i = j
  BY DEF Ends, Log!LastOf

\* What was in order with the clock stays so when the clock is set.
LEMMA OrderKept ==
  ASSUME LogBounds, Log!TypeOK, NEW m \in Log!Moment, Log!InOrder(m, Log!Now),
         NEW time \in 0 .. MaxTime, Log!SetClock(time)
  PROVE  Log!InOrder(m, Log!Now')
<1>1. /\ m.run \in Nat /\ m.time \in Nat /\ setBacks \in Nat /\ clock \in Nat /\ time \in Nat
      /\ m.run < setBacks \/ (m.run = setBacks /\ m.time <= clock)
  BY DEF LogBounds, Log!TypeOK, Log!Moment, Log!InOrder, Log!Now
<1>2. clock' = time /\ setBacks' = IF time < clock THEN setBacks + 1 ELSE setBacks
  BY DEF Log!SetClock
<1>3. m.run < setBacks' \/ (m.run = setBacks' /\ m.time <= clock')
  BY <1>1, <1>2
<1>. QED BY <1>3 DEF Log!InOrder, Log!Now

\* One piece more.
LEMMA ReadableAppend ==
  ASSUME LogBounds, NEW q, Readable(q), NEW e \in Piece,
         e.piece # 1 => \E j \in 1 .. Len(q) : Ends(q, e.logger, j),
         \A j \in 1 .. Len(q) : Ends(q, e.logger, j) =>
           \/ e.piece = 1 /\ q[j].piece = 3
           \/ e.line = q[j].line /\ e.piece = q[j].piece + 1 /\ e.at = q[j].at,
         \A i \in 1 .. Len(q) : q[i].logger = e.logger => Log!InOrder(q[i].at, e.at)
  PROVE  /\ Readable(Append(q, e))
         /\ Len(Append(q, e)) = Len(q) + 1 /\ Append(q, e)[Len(q) + 1] = e
         /\ \A i \in 1 .. Len(q) : Append(q, e)[i] = q[i]
         /\ Ends(Append(q, e), e.logger, Len(q) + 1)
         /\ \A l, j : l # e.logger /\ Ends(Append(q, e), l, j) => Ends(q, l, j)
<1>1. PICK n, r : n = Len(q) /\ r = Append(q, e)
  OBVIOUS
<1>2. /\ n \in Nat /\ r \in Seq(Piece) /\ Len(r) = n + 1
      /\ \A i \in 1 .. n : r[i] = q[i]
      /\ r[n + 1] = e
  BY <1>1, AppendProperties, LenProperties DEF Readable
<1>3. ASSUME NEW m \in 0 .. n, NEW l, NEW j
      PROVE  Log!LastOf(r, m, l, j) <=> Log!LastOf(q, m, l, j)
  BY <1>2 DEF Log!LastOf
<1>4. ASSUME NEW i \in 1 .. (n + 1) PROVE Log!GoesOn(r, i)
  <2>1. CASE i = n + 1
    <3>1. i - 1 = n /\ r[i] = e /\ n \in 0 .. n
      BY <1>2, <2>1
    <3>2. ASSUME NEW j \in 1 .. n, Log!LastOf(r, n, e.logger, j)
          PROVE  \/ e.piece = 1 /\ r[j].piece = 3
                 \/ e.line = r[j].line /\ e.piece = r[j].piece + 1 /\ e.at = r[j].at
      <4>1. Ends(q, e.logger, j)
        BY <1>1, <1>3, <3>1, <3>2 DEF Ends
      <4>. QED BY <4>1, <1>1, <1>2
    <3>3. e.piece = 1 \/ \E j \in 1 .. n : Log!LastOf(r, n, e.logger, j)
      BY <1>1, <1>3, <3>1 DEF Ends
    <3>. QED BY <3>1, <3>2, <3>3 DEF Log!GoesOn, Log!LastPiece
  <2>2. CASE i # n + 1
    <3>1. i \in 1 .. n /\ i - 1 \in 0 .. n /\ r[i] = q[i]
      BY <1>2, <2>2
    <3>2. Log!GoesOn(q, i)
      BY <1>1, <3>1 DEF Readable
    <3>3. \A j \in 1 .. (i - 1) : r[j] = q[j]
      BY <1>2, <3>1
    <3>. QED BY <1>3, <3>1, <3>2, <3>3 DEF Log!GoesOn
  <2>. QED BY <2>1, <2>2
<1>5. ASSUME NEW i \in 1 .. (n + 1), NEW j \in 1 .. (n + 1), i < j, r[i].logger = r[j].logger
      PROVE  Log!InOrder(r[i].at, r[j].at)
  <2>1. i \in 1 .. n /\ r[i] = q[i]
    BY <1>2, <1>5
  <2>2. CASE j = n + 1
    BY <1>1, <1>2, <1>5, <2>1, <2>2
  <2>3. CASE j # n + 1
    <3>1. j \in 1 .. n /\ r[j] = q[j]
      BY <1>2, <2>3
    <3>. QED BY <1>1, <1>5, <2>1, <3>1 DEF Readable
  <2>. QED BY <2>2, <2>3
<1>6. Readable(r)
  BY <1>2, <1>4, <1>5 DEF Readable
<1>7. Ends(r, e.logger, n + 1)
  <2>1. n + 1 \in 1 .. (n + 1) /\ \A k \in 1 .. (n + 1) : ~(k > n + 1)
    BY <1>2
  <2>. QED BY <1>2, <2>1 DEF Ends, Log!LastOf
<1>8. ASSUME NEW l, NEW j, l # e.logger, Ends(r, l, j) PROVE Ends(q, l, j)
  <2>1. j \in 1 .. (n + 1) /\ r[j].logger = l /\ \A k \in 1 .. (n + 1) : k > j => r[k].logger # l
    BY <1>2, <1>8 DEF Ends, Log!LastOf
  <2>2. j \in 1 .. n
    BY <1>2, <1>8, <2>1
  <2>3. \A k \in 1 .. n : k > j => q[k].logger # l
    BY <1>2, <2>1
  <2>. QED BY <1>1, <1>2, <2>1, <2>2, <2>3 DEF Ends, Log!LastOf
<1>. QED BY <1>1, <1>2, <1>6, <1>7, <1>8

LEMMA InitLog == LogBounds /\ Log!Init => LogInv
<1>. SUFFICES ASSUME LogBounds, Log!Init PROVE LogInv
  OBVIOUS
<1>1. Log!TypeOK
  <2>1. "Info" \in Log!Range(Log!LogLevel)
    BY DEF Log!Range, Log!LogLevel
  <2>2. Log!Origin \in Log!Moment
    BY DEF LogBounds, Log!Origin, Log!Moment
  <2>. QED BY <2>1, <2>2, EmptySeq DEF LogBounds, Log!Init, Log!TypeOK, Log!LastPiece
<1>2. \A s \in Streams : stream[s] = <<>> /\ Len(stream[s]) = 0 /\ Readable(stream[s])
  BY EmptySeq DEF Log!Init, Streams, Readable
<1>. QED BY <1>1, <1>2 DEF Log!Init, LogInv, HoldersCall, CallsBegan, OpenLines

LEMMA LogTypes ==
  ASSUME LogInv, NEW t \in Thread
  PROVE  /\ written[t] \in 0 .. 3
         /\ ~(written[t] > 0) <=> written[t] = 0
         /\ call[t] # Log!NoCall => /\ call[t].logger \in Logger /\ call[t].line \in 1 .. MaxLines
                                    /\ call[t].at \in Log!Moment
<1>1. written \in [Thread -> 0 .. 3]
  BY DEF LogInv, Log!TypeOK, Log!LastPiece
<1>2. call[t] \in {Log!NoCall} \cup [line : 1 .. MaxLines, logger : Logger, level : Levels,
                                     at : Log!Moment]
  BY DEF LogInv, Log!TypeOK
<1>3. written[t] \in 0 .. 3
  BY <1>1
<1>4. ~(written[t] > 0) <=> written[t] = 0
  BY <1>3
<1>. QED BY <1>2, <1>3, <1>4

\* Who writes has the mutex of its logger, and there is one.
LEMMA OneWriter ==
  ASSUME LogBounds, LogInv, NEW t \in Thread, written[t] > 0
  PROVE  /\ Writes(t) /\ call[t] # Log!NoCall /\ call[t].logger \in Logger
         /\ holder[call[t].logger] = t /\ t # None
<1>1. Writes(t)
  BY DEF LogInv
<1>2. call[t] # Log!NoCall /\ holder[call[t].logger] = t
  BY <1>1 DEF Writes, Log!Holds
<1>. QED BY <1>1, <1>2, LogTypes DEF LogBounds

\* The streams stay as they are: a thread that goes on with its line keeps what
\* it had, and one that does not has written the whole line or nothing.
LEMMA StreamsRest ==
  ASSUME LogBounds, LogInv, Log!TypeOK', HoldersCall', CallsBegan',
         stream' = stream, clock' = clock, setBacks' = setBacks,
         \A u \in Thread : written'[u] > 0 =>
           /\ written[u] = written'[u] /\ call'[u] = call[u] /\ stamp'[u] = stamp[u]
           /\ Log!Holds(u)' /\ Log!Shown(u)',
         \A u \in Thread : written[u] > 0 =>
           written[u] = 3 \/ (written'[u] > 0 /\ call'[u] = call[u])
  PROVE  LogInv'
<1>1. Log!Now' = Log!Now
  BY DEF Log!Now
<1>2. ASSUME NEW u \in Thread, written'[u] > 0 PROVE Writes(u)'
  <2>1. Writes(u) /\ call'[u] = call[u] /\ stamp'[u] = stamp[u] /\ written'[u] = written[u]
    BY <1>2 DEF LogInv
  <2>. QED BY <1>2, <2>1 DEF Writes
<1>3. OpenLines'
  <2>. SUFFICES ASSUME NEW s \in Streams, NEW l \in Logger, NEW j \in 1 .. Len(stream[s]),
                       Ends(stream[s], l, j), stream[s][j].piece # 3
                PROVE  \E t \in Thread : /\ written'[t] > 0 /\ call'[t].logger = l
                                         /\ Log!StreamOf(call'[t].level) = s
    BY DEF OpenLines
  <2>1. PICK t \in Thread : written[t] > 0 /\ call[t].logger = l /\ Log!StreamOf(call[t].level) = s
    BY DEF LogInv, OpenLines
  <2>2. written[t] # 3
    <3>1. PICK i \in 1 .. Len(stream[s]) : Ends(stream[s], l, i) /\ stream[s][i].piece = written[t]
      BY <2>1 DEF LogInv, Writes
    <3>2. Len(stream[s]) \in Nat
      BY LenProperties DEF LogInv, Readable
    <3>3. i = j
      BY <3>1, <3>2, EndUnique
    <3>. QED BY <3>1, <3>3
  <2>. QED BY <2>1, <2>2
<1>4. \A s \in Streams :
        /\ Readable(stream'[s])
        /\ \A i \in 1 .. Len(stream'[s]) : Log!InOrder(stream'[s][i].at, Log!Now')
  BY <1>1 DEF LogInv
<1>. QED BY <1>2, <1>3, <1>4 DEF LogInv

LEMMA BeginLogStep ==
  ASSUME LogBounds, LogInv, NEW t \in Thread, Log!BeginLog(t)
  PROVE  LogInv'
<1>1. PICK l \in Logger, level \in Levels :
        call' = [call EXCEPT ![t] = [line |-> lines + 1, logger |-> l, level |-> level, at |-> Log!Now]]
  BY DEF Log!BeginLog
<1>2. /\ call[t] = Log!NoCall /\ lines < MaxLines /\ lines' = lines + 1
      /\ UNCHANGED <<minimum, holder, written, stamp, stream, clock, setBacks>>
  BY DEF Log!BeginLog
<1>3. lines + 1 \in 1 .. MaxLines /\ lines + 1 # 0 /\ Log!Now \in Log!Moment
  BY <1>2 DEF LogBounds, LogInv, Log!TypeOK, Log!Now, Log!Moment
<1>4. /\ call'[t] = [line |-> lines + 1, logger |-> l, level |-> level, at |-> Log!Now]
      /\ \A u \in Thread \ {t} : call'[u] = call[u]
  BY <1>1 DEF LogInv, Log!TypeOK
<1>5. Log!TypeOK'
  BY <1>1, <1>2, <1>3 DEF LogBounds, LogInv, Log!TypeOK
<1>6. ~(written[t] > 0)
  BY <1>2, OneWriter
<1>7. HoldersCall'
  <2>. SUFFICES ASSUME NEW k \in Logger, holder'[k] # None
                PROVE  call'[holder'[k]] # Log!NoCall /\ call'[holder'[k]].logger = k
    BY DEF HoldersCall, Log!NoCall, Log!Origin
  <2>1. /\ holder'[k] = holder[k] /\ holder[k] \in Thread
        /\ call[holder[k]] # Log!NoCall /\ call[holder[k]].logger = k
    BY <1>2 DEF LogInv, HoldersCall, Log!TypeOK
  <2>2. holder[k] # t
    BY <1>2, <2>1
  <2>. QED BY <1>4, <2>1, <2>2
<1>8. CallsBegan'
  <2>1. Log!Now' = Log!Now /\ Log!InOrder(Log!Now, Log!Now)
    BY <1>2 DEF Log!Now, Log!InOrder, LogInv, Log!TypeOK
  <2>2. ASSUME NEW u \in Thread, call'[u] # Log!NoCall PROVE Log!InOrder(call'[u].at, Log!Now)
    BY <1>4, <2>1, <2>2 DEF LogInv, CallsBegan
  <2>. QED BY <2>1, <2>2 DEF CallsBegan, Log!NoCall, Log!Origin
<1>9. ASSUME NEW u \in Thread, written[u] > 0
      PROVE  call'[u] = call[u] /\ Log!Holds(u)' /\ Log!Shown(u)'
  <2>1. u # t /\ call'[u] = call[u]
    BY <1>4, <1>6, <1>9
  <2>2. Log!Holds(u) /\ Log!Shown(u)
    BY <1>9 DEF LogInv, Writes
  <2>. QED BY <1>2, <2>1, <2>2 DEF Log!Holds, Log!Shown, Log!NoCall, Log!Origin
<1>. QED BY <1>2, <1>5, <1>7, <1>8, <1>9, StreamsRest

LEMMA LockStep ==
  ASSUME LogBounds, LogInv, NEW t \in Thread, Log!Lock(t)
  PROVE  LogInv'
<1>1. /\ call[t] # Log!NoCall /\ holder[call[t].logger] = None
      /\ holder' = [holder EXCEPT ![call[t].logger] = t]
      /\ UNCHANGED <<minimum, call, written, stamp, stream, clock, lines, setBacks>>
  BY DEF Log!Lock
<1>2. call[t].logger \in Logger
  BY <1>1, LogTypes
<1>3. Log!TypeOK'
  BY <1>1, <1>2 DEF LogInv, Log!TypeOK
<1>4. HoldersCall'
  BY <1>1, <1>2 DEF LogInv, HoldersCall, Log!TypeOK, Log!NoCall, Log!Origin
<1>5. CallsBegan'
  BY <1>1 DEF LogInv, CallsBegan, Log!Now, Log!NoCall, Log!Origin
<1>6. ASSUME NEW u \in Thread, written[u] > 0 PROVE Log!Holds(u)' /\ Log!Shown(u)'
  <2>1. call[u].logger # call[t].logger /\ Writes(u)
    BY <1>1, <1>6, OneWriter
  <2>. QED BY <1>1, <1>2, <2>1 DEF Writes, Log!Holds, Log!Shown, Log!NoCall, Log!Origin,
           LogInv, Log!TypeOK
<1>. QED BY <1>1, <1>3, <1>4, <1>5, <1>6, StreamsRest

\* A call that returns has written all of its line, or nothing.
LEMMA ReturnLogStep ==
  ASSUME LogBounds, LogInv, NEW t \in Thread, Log!LeaveOut(t) \/ Log!FlushAndReturn(t)
  PROVE  LogInv'
<1>1. /\ Log!Holds(t) /\ (~Log!Shown(t) \/ written[t] = 3)
      /\ call' = [call EXCEPT ![t] = Log!NoCall]
      /\ written' = [written EXCEPT ![t] = 0]
      /\ stamp' = [stamp EXCEPT ![t] = Log!Origin]
      /\ holder' = [holder EXCEPT ![call[t].logger] = None]
      /\ UNCHANGED <<minimum, stream, clock, lines, setBacks>>
  BY DEF Log!LeaveOut, Log!FlushAndReturn, Log!Return, Log!LastPiece
<1>2. call[t].logger \in Logger /\ holder[call[t].logger] = t
  BY <1>1, LogTypes DEF Log!Holds
<1>3. /\ call'[t] = Log!NoCall /\ written'[t] = 0
      /\ \A u \in Thread \ {t} : /\ call'[u] = call[u] /\ written'[u] = written[u]
                                 /\ stamp'[u] = stamp[u]
      /\ \A l \in Logger \ {call[t].logger} : holder'[l] = holder[l]
      /\ holder'[call[t].logger] = None
  BY <1>1, <1>2 DEF LogInv, Log!TypeOK
<1>4. Log!TypeOK'
  <2>1. Log!Origin \in Log!Moment
    BY DEF LogBounds, Log!Origin, Log!Moment
  <2>. QED BY <1>1, <1>2, <2>1 DEF LogInv, Log!TypeOK, Log!LastPiece
<1>5. HoldersCall'
  <2>. SUFFICES ASSUME NEW l \in Logger, holder'[l] # None
                PROVE  call'[holder'[l]] # Log!NoCall /\ call'[holder'[l]].logger = l
    BY DEF HoldersCall, Log!NoCall, Log!Origin
  <2>1. l # call[t].logger /\ holder'[l] = holder[l] /\ call[holder[l]].logger = l
    BY <1>3 DEF LogInv, HoldersCall
  <2>2. holder[l] \in Thread \ {t} /\ call[holder[l]] # Log!NoCall
    BY <1>3, <2>1 DEF LogInv, HoldersCall, Log!TypeOK
  <2>. QED BY <1>3, <2>1, <2>2
<1>6. CallsBegan'
  <2>1. Log!Now' = Log!Now
    BY <1>1 DEF Log!Now
  <2>2. \A u \in Thread : call'[u] # Log!NoCall => Log!InOrder(call'[u].at, Log!Now)
    BY <1>3 DEF LogInv, CallsBegan
  <2>. QED BY <2>1, <2>2 DEF CallsBegan, Log!NoCall, Log!Origin
<1>7. ASSUME NEW u \in Thread, written[u] > 0, u # t
      PROVE  Log!Holds(u)' /\ Log!Shown(u)'
  <2>1. /\ call[u].logger # call[t].logger /\ Writes(u) /\ call'[u] = call[u]
        /\ call[u].logger \in Logger
    BY <1>2, <1>3, <1>7, OneWriter
  <2>. QED BY <1>1, <1>3, <2>1 DEF Writes, Log!Holds, Log!Shown, Log!NoCall, Log!Origin
<1>8. written[t] > 0 => written[t] = 3
  BY <1>1, OneWriter DEF Writes
<1>9. \A u \in Thread : written'[u] > 0 => u # t /\ written[u] > 0
  BY <1>3
<1>. QED BY <1>1, <1>3, <1>4, <1>5, <1>6, <1>7, <1>8, <1>9, StreamsRest

\* A piece goes on with the line of its thread, or begins one when its logger is
\* in the middle of none.
LEMMA WritePieceStep ==
  ASSUME LogBounds, LogInv, NEW t \in Thread, Log!WritePiece(t)
  PROVE  LogInv'
<1>1. PICK s, g, a, e : /\ s = Log!StreamOf(call[t].level)
                        /\ g = call[t].logger
                        /\ a = Log!StampOf(t)
                        /\ e = [line |-> call[t].line, logger |-> g, piece |-> written[t] + 1, at |-> a]
  OBVIOUS
<1>2. /\ Log!Holds(t) /\ Log!Shown(t) /\ written[t] < 3
      /\ written' = [written EXCEPT ![t] = @ + 1]
      /\ stamp' = [stamp EXCEPT ![t] = a]
      /\ stream' = [stream EXCEPT ![s] = Append(@, e)]
      /\ UNCHANGED <<minimum, holder, call, clock, lines, setBacks>>
  BY <1>1 DEF Log!WritePiece, Log!LastPiece
<1>3. /\ s \in Streams /\ written[t] \in 0 .. 2 /\ Log!Now \in Log!Moment /\ g \in Logger
      /\ call[t] # Log!NoCall /\ call[t].line \in 1 .. MaxLines /\ call[t].at \in Log!Moment
  <2>1. call[t] # Log!NoCall /\ written[t] \in 0 .. 3
    BY <1>2, LogTypes DEF Log!Holds
  <2>2. Log!Now \in Log!Moment
    BY DEF LogInv, Log!TypeOK, Log!Now, Log!Moment
  <2>. QED BY <2>1, <2>2, <1>1, <1>2, LogTypes DEF Log!StreamOf, Streams
<1>4. PICK q, n, r : q = stream[s] /\ n = Len(q) /\ r = Append(q, e)
  OBVIOUS
<1>5. /\ Readable(q) /\ n \in Nat /\ q \in Seq(Piece)
      /\ \A i \in 1 .. n : Log!InOrder(q[i].at, Log!Now)
  <2>1. Readable(q) /\ \A i \in 1 .. n : Log!InOrder(q[i].at, Log!Now)
    BY <1>3, <1>4 DEF LogInv
  <2>. QED BY <2>1, <1>4, LenProperties DEF Readable
<1>6. ASSUME NEW u \in Thread, u # t, written[u] > 0 PROVE call[u].logger # g
  BY <1>1, <1>2, <1>6, OneWriter DEF Log!Holds
<1>7. /\ e \in Piece /\ e.logger = g /\ e.line = call[t].line /\ e.piece = written[t] + 1
      /\ e.at = a /\ a \in Log!Moment
      /\ Log!InOrder(call[t].at, a) /\ Log!InOrder(a, Log!Now)
      /\ e.piece # 1 => \E j \in 1 .. n : Ends(q, e.logger, j)
      /\ \A j \in 1 .. n : Ends(q, e.logger, j) =>
           \/ e.piece = 1 /\ q[j].piece = 3
           \/ e.line = q[j].line /\ e.piece = q[j].piece + 1 /\ e.at = q[j].at
      /\ \A i \in 1 .. n : q[i].logger = e.logger => Log!InOrder(q[i].at, e.at)
  <2>1. CASE written[t] = 0
    <3>1. a = Log!Now /\ e.piece = 1 /\ e.at = Log!Now /\ e.logger = g /\ e \in Piece
      BY <1>1, <1>3, <2>1 DEF Log!StampOf, Piece
    <3>2. ASSUME NEW j \in 1 .. n, Ends(q, g, j) PROVE q[j].piece = 3
      <4>1. ~\E u \in Thread : written[u] > 0 /\ call[u].logger = g
        BY <1>6, <2>1
      <4>. QED BY <1>3, <1>4, <3>2, <4>1 DEF LogInv, OpenLines
    <3>3. Log!InOrder(call[t].at, a)
      BY <1>3, <3>1 DEF LogInv, CallsBegan
    <3>4. Log!InOrder(a, Log!Now)
      BY <1>3, <3>1 DEF Log!InOrder, Log!Moment
    <3>. QED BY <1>1, <1>3, <1>5, <2>1, <3>1, <3>2, <3>3, <3>4
  <2>2. CASE written[t] # 0
    <3>1. written[t] > 0 /\ Writes(t)
      BY <1>3, <2>2 DEF LogInv
    <3>2. PICK b \in 1 .. n : /\ Ends(q, g, b) /\ q[b].line = call[t].line
                              /\ q[b].piece = written[t] /\ q[b].at = stamp[t]
      BY <1>1, <1>4, <3>1 DEF Writes
    <3>3. q[b] \in Piece /\ q[b].logger = g
      BY <1>4, <1>5, <3>2, ElementOfSeq DEF Ends, Log!LastOf
    <3>4. /\ a = q[b].at /\ e.line = q[b].line /\ e.piece = q[b].piece + 1 /\ e.at = q[b].at
          /\ e.logger = g /\ e \in Piece /\ a \in Log!Moment
      BY <1>1, <1>3, <2>2, <3>2, <3>3 DEF Log!StampOf, Piece
    <3>5. Log!InOrder(call[t].at, a) /\ Log!InOrder(a, Log!Now)
      BY <1>5, <3>1, <3>2, <3>4 DEF Writes
    <3>6. ASSUME NEW j \in 1 .. n, Ends(q, g, j) PROVE j = b
      BY <1>4, <1>5, <3>2, <3>6, EndUnique
    <3>7. ASSUME NEW i \in 1 .. n, q[i].logger = g PROVE Log!InOrder(q[i].at, e.at)
      <4>1. ~(i > b)
        BY <1>4, <3>2, <3>7 DEF Ends, Log!LastOf
      <4>2. CASE i = b
        BY <3>3, <3>4, <4>2 DEF Log!InOrder, Piece, Log!Moment
      <4>3. CASE i < b
        BY <1>4, <1>5, <3>3, <3>4, <3>7, <4>3 DEF Readable
      <4>. QED BY <4>1, <4>2, <4>3
    <3>. QED BY <1>1, <3>2, <3>4, <3>5, <3>6, <3>7
  <2>. QED BY <2>1, <2>2
<1>8. /\ Readable(r) /\ Len(r) = n + 1 /\ r[n + 1] = e
      /\ \A i \in 1 .. n : r[i] = q[i]
      /\ Ends(r, g, n + 1)
      /\ \A l, j : l # g /\ Ends(r, l, j) => Ends(q, l, j)
  <2>1. /\ e.piece # 1 => \E j \in 1 .. Len(q) : Ends(q, e.logger, j)
        /\ \A j \in 1 .. Len(q) : Ends(q, e.logger, j) =>
             \/ e.piece = 1 /\ q[j].piece = 3
             \/ e.line = q[j].line /\ e.piece = q[j].piece + 1 /\ e.at = q[j].at
        /\ \A i \in 1 .. Len(q) : q[i].logger = e.logger => Log!InOrder(q[i].at, e.at)
    BY <1>4, <1>7
  <2>2. /\ Readable(Append(q, e))
        /\ Len(Append(q, e)) = Len(q) + 1 /\ Append(q, e)[Len(q) + 1] = e
        /\ \A i \in 1 .. Len(q) : Append(q, e)[i] = q[i]
        /\ Ends(Append(q, e), e.logger, Len(q) + 1)
        /\ \A l, j : l # e.logger /\ Ends(Append(q, e), l, j) => Ends(q, l, j)
    BY <1>5, <1>7, <2>1, ReadableAppend
  <2>. QED BY <1>4, <1>7, <2>2
<1>9. Log!Now' = Log!Now
  BY <1>2 DEF Log!Now
<1>10. /\ stream'[s] = r /\ \A x \in Streams \ {s} : stream'[x] = stream[x]
       /\ stream' \in [Streams -> Seq(Piece)]
  <2>1. r \in Seq(Piece)
    BY <1>8 DEF Readable
  <2>2. stream \in [Streams -> Seq(Piece)]
    BY DEF LogInv, Log!TypeOK, Log!LastPiece, Streams, Piece
  <2>. QED BY <1>2, <1>3, <1>4, <2>1, <2>2
<1>11. /\ written'[t] = written[t] + 1 /\ stamp'[t] = a
       /\ written' \in [Thread -> 0 .. 3] /\ stamp' \in [Thread -> Log!Moment]
       /\ \A u \in Thread \ {t} : written'[u] = written[u] /\ stamp'[u] = stamp[u]
  <2>1. written[t] + 1 \in 0 .. 3
    BY <1>3
  <2>2. stamp \in [Thread -> Log!Moment] /\ written \in [Thread -> 0 .. 3]
    BY DEF LogInv, Log!TypeOK, Log!LastPiece
  <2>. QED BY <1>2, <1>7, <2>1, <2>2
<1>12. Log!TypeOK'
  <2>1. stream' \in [{"stdout", "stderr"} ->
                     Seq([line : 1 .. MaxLines, logger : Logger, piece : 1 .. 3, at : Log!Moment])]
    BY <1>10 DEF Streams, Piece
  <2>. QED BY <1>2, <1>11, <2>1 DEF LogInv, Log!TypeOK, Log!LastPiece
<1>13. ASSUME NEW x \in Streams, NEW l \in Logger, NEW j \in 1 .. Len(stream[x]), x # s \/ l # g,
              Ends(stream[x], l, j)
       PROVE  /\ j \in 1 .. Len(stream'[x]) /\ Ends(stream'[x], l, j)
              /\ stream'[x][j] = stream[x][j]
  <2>1. CASE x # s
    BY <1>10, <1>13, <2>1
  <2>2. CASE x = s /\ l # g
    <3>1. /\ j \in 1 .. n /\ q[j].logger = l
          /\ \A k \in 1 .. n : k > j => q[k].logger # l
      BY <1>4, <1>13, <2>2 DEF Ends, Log!LastOf
    <3>2. \A k \in 1 .. (n + 1) : k > j => r[k].logger # l
      BY <1>5, <1>7, <1>8, <2>2, <3>1
    <3>3. j \in 1 .. (n + 1) /\ r[j] = q[j]
      BY <1>5, <1>8, <3>1
    <3>4. Ends(r, l, j) /\ j \in 1 .. Len(r)
      BY <1>8, <3>1, <3>2, <3>3 DEF Ends, Log!LastOf
    <3>5. stream'[x] = r /\ stream[x] = q
      BY <1>4, <1>10, <2>2
    <3>. QED BY <3>3, <3>4, <3>5
  <2>. QED BY <1>13, <2>1, <2>2
<1>14. ASSUME NEW u \in Thread, written'[u] > 0 PROVE Writes(u)'
  <2>1. CASE u = t
    <3>1. n + 1 \in 1 .. Len(r)
      BY <1>5, <1>8
    <3>2. Log!Holds(t)' /\ Log!Shown(t)' /\ call' = call
      BY <1>2 DEF Log!Holds, Log!Shown, Log!NoCall, Log!Origin
    <3>3. stream'[Log!StreamOf(call'[t].level)] = r /\ call'[t].logger = g
      BY <1>1, <1>10, <3>2
    <3>4. r[n + 1].line = call'[t].line /\ r[n + 1].piece = written'[t] /\ r[n + 1].at = stamp'[t]
      BY <1>7, <1>8, <1>11, <3>2
    <3>5. Log!InOrder(call'[t].at, stamp'[t])
      BY <1>7, <1>11, <3>2
    <3>6. \E j \in 1 .. Len(r) : /\ Ends(r, g, j) /\ r[j].line = call'[t].line
                                 /\ r[j].piece = written'[t] /\ r[j].at = stamp'[t]
      BY <1>8, <3>1, <3>4
    <3>. QED BY <2>1, <3>2, <3>3, <3>5, <3>6 DEF Writes
  <2>2. CASE u # t
    <3>1. written[u] > 0 /\ Writes(u) /\ call[u].logger # g /\ call[u].logger \in Logger
      BY <1>6, <1>11, <1>14, <2>2, OneWriter
    <3>2. PICK x : x = Log!StreamOf(call[u].level)
      OBVIOUS
    <3>3. x \in Streams
      BY <3>2 DEF Log!StreamOf, Streams
    <3>4. PICK j \in 1 .. Len(stream[x]) :
            /\ Ends(stream[x], call[u].logger, j) /\ stream[x][j].line = call[u].line
            /\ stream[x][j].piece = written[u] /\ stream[x][j].at = stamp[u]
      BY <3>1, <3>2 DEF Writes
    <3>5. /\ j \in 1 .. Len(stream'[x]) /\ Ends(stream'[x], call[u].logger, j)
          /\ stream'[x][j] = stream[x][j]
      BY <1>13, <3>1, <3>3, <3>4
    <3>6. Log!Holds(u)' /\ Log!Shown(u)' /\ call' = call
      BY <1>2, <3>1 DEF Writes, Log!Holds, Log!Shown, Log!NoCall, Log!Origin
    <3>7. stream'[Log!StreamOf(call'[u].level)] = stream'[x]
      BY <3>2, <3>6
    <3>8. written'[u] = written[u] /\ stamp'[u] = stamp[u] /\ Log!InOrder(call[u].at, stamp[u])
      BY <1>11, <2>2, <3>1 DEF Writes
    <3>. QED BY <3>4, <3>5, <3>6, <3>7, <3>8 DEF Writes
  <2>. QED BY <2>1, <2>2
<1>15. OpenLines'
  <2>. SUFFICES ASSUME NEW x \in Streams, NEW l \in Logger, NEW j \in 1 .. Len(stream'[x]),
                       Ends(stream'[x], l, j), stream'[x][j].piece # 3
                PROVE  \E u \in Thread : /\ written'[u] > 0 /\ call[u].logger = l
                                         /\ Log!StreamOf(call[u].level) = x
    BY <1>2 DEF OpenLines
  <2>1. CASE x = s /\ l = g
    BY <1>1, <1>3, <1>11, <2>1
  <2>2. CASE x # s \/ l # g
    <3>1. /\ Ends(stream[x], l, j) /\ j \in 1 .. Len(stream[x])
          /\ stream'[x][j] = stream[x][j]
      <4>1. CASE x # s
        BY <1>10, <4>1
      <4>2. CASE x = s
        <5>1. Ends(q, l, j)
          BY <1>8, <1>10, <2>2, <4>2
        <5>2. j \in 1 .. n
          BY <1>4, <5>1 DEF Ends, Log!LastOf
        <5>. QED BY <1>4, <1>8, <1>10, <4>2, <5>1, <5>2
      <4>. QED BY <4>1, <4>2
    <3>2. PICK u \in Thread : /\ written[u] > 0 /\ call[u].logger = l
                              /\ Log!StreamOf(call[u].level) = x
      BY <3>1 DEF LogInv, OpenLines
    <3>3. u # t
      BY <1>1, <2>2, <3>2
    <3>. QED BY <1>11, <3>2, <3>3
  <2>. QED BY <2>1, <2>2
<1>16. ASSUME NEW x \in Streams
       PROVE  /\ Readable(stream'[x])
              /\ \A i \in 1 .. Len(stream'[x]) : Log!InOrder(stream'[x][i].at, Log!Now')
  <2>1. CASE x = s
    <3>1. ASSUME NEW i \in 1 .. (n + 1) PROVE Log!InOrder(r[i].at, Log!Now)
      <4>1. CASE i = n + 1
        BY <1>7, <1>8, <4>1
      <4>2. CASE i # n + 1
        <5>1. i \in 1 .. n
          BY <1>5, <4>2
        <5>. QED BY <1>5, <1>8, <5>1
      <4>. QED BY <4>1, <4>2
    <3>. QED BY <1>8, <1>9, <1>10, <2>1, <3>1
  <2>2. CASE x # s
    BY <1>9, <1>10, <2>2 DEF LogInv
  <2>. QED BY <2>1, <2>2
<1>17. HoldersCall' /\ CallsBegan'
  BY <1>2, <1>9 DEF LogInv, HoldersCall, CallsBegan, Log!NoCall, Log!Origin
<1>. QED BY <1>12, <1>14, <1>15, <1>16, <1>17 DEF LogInv

\* The level changes only while nobody is in the middle of a line of the logger.
LEMMA ConfigureStep ==
  ASSUME LogBounds, LogInv, NEW l \in Logger, Log!ConfigureLogger(l)
  PROVE  LogInv'
<1>1. PICK text \in Texts :
        Log!ParseLogLevel(text) # None /\ Log!SetMinimumLevel(l, Log!ParseLogLevel(text))
  BY DEF Log!ConfigureLogger
<1>2. /\ holder[l] = None
      /\ minimum' = [minimum EXCEPT ![l] = Log!ParseLogLevel(text)]
      /\ UNCHANGED <<holder, call, written, stamp, stream, clock, lines, setBacks>>
  BY <1>1 DEF Log!SetMinimumLevel
<1>3. Log!ParseLogLevel(text) \in Log!Range(Log!LogLevel)
  <2>1. {"Trace", "Debug", "Info", "Warning", "Error", "Critical"} \subseteq Log!Range(Log!LogLevel)
    BY DEF Log!Range, Log!LogLevel
  <2>2. \A x \in DOMAIN Log!LevelOfText : Log!LevelOfText[x] \in
          {"Trace", "Debug", "Info", "Warning", "Error", "Critical"}
    BY DEF Log!LevelOfText
  <2>. QED BY <1>1, <2>1, <2>2 DEF Log!ParseLogLevel
<1>4. Log!TypeOK'
  BY <1>2, <1>3 DEF LogInv, Log!TypeOK
<1>5. HoldersCall' /\ CallsBegan'
  BY <1>2 DEF LogInv, HoldersCall, CallsBegan, Log!Now, Log!NoCall, Log!Origin
<1>6. ASSUME NEW u \in Thread, written[u] > 0 PROVE Log!Holds(u)' /\ Log!Shown(u)'
  <2>1. /\ call[u].logger # l /\ Writes(u) /\ call[u].logger \in Logger
    BY <1>2, <1>6, OneWriter
  <2>2. minimum'[call[u].logger] = minimum[call[u].logger]
    BY <1>2, <2>1 DEF LogInv, Log!TypeOK
  <2>. QED BY <1>2, <2>1, <2>2 DEF Writes, Log!Holds, Log!Shown, Log!NoCall, Log!Origin
<1>. QED BY <1>2, <1>4, <1>5, <1>6, StreamsRest

\* What was written stays, and no moment it shows comes to lie in the future.
LEMMA SetClockStep ==
  ASSUME LogBounds, LogInv, NEW time \in 0 .. MaxTime, Log!SetClock(time)
  PROVE  LogInv'
<1>1. /\ clock' = time
      /\ setBacks' = IF time < clock THEN setBacks + 1 ELSE setBacks
      /\ time < clock => setBacks < MaxSetBacks
      /\ UNCHANGED <<minimum, holder, call, written, stamp, stream, lines>>
  BY DEF Log!SetClock
<1>2. Log!TypeOK'
  <2>1. setBacks' \in 0 .. MaxSetBacks
    BY <1>1 DEF LogBounds, LogInv, Log!TypeOK
  <2>. QED BY <1>1, <2>1 DEF LogInv, Log!TypeOK
<1>3. HoldersCall'
  BY <1>1 DEF LogInv, HoldersCall, Log!NoCall, Log!Origin
<1>4. CallsBegan'
  <2>1. ASSUME NEW u \in Thread, call[u] # Log!NoCall PROVE Log!InOrder(call[u].at, Log!Now')
    <3>1. call[u].at \in Log!Moment /\ Log!InOrder(call[u].at, Log!Now)
      BY <2>1, LogTypes DEF LogInv, CallsBegan
    <3>. QED BY <3>1, OrderKept DEF LogInv
  <2>. QED BY <1>1, <2>1 DEF CallsBegan, Log!NoCall, Log!Origin
<1>5. ASSUME NEW s \in Streams
      PROVE  /\ Readable(stream'[s])
             /\ \A i \in 1 .. Len(stream'[s]) : Log!InOrder(stream'[s][i].at, Log!Now')
  <2>1. Readable(stream[s])
    BY DEF LogInv
  <2>2. ASSUME NEW i \in 1 .. Len(stream[s]) PROVE Log!InOrder(stream[s][i].at, Log!Now')
    <3>1. stream[s][i] \in Piece
      BY <2>1, <2>2, ElementOfSeq DEF Readable
    <3>2. stream[s][i].at \in Log!Moment
      BY <3>1 DEF Piece
    <3>3. Log!InOrder(stream[s][i].at, Log!Now)
      BY <2>2 DEF LogInv
    <3>. QED BY <3>2, <3>3, OrderKept DEF LogInv
  <2>. QED BY <1>1, <2>1, <2>2
<1>6. ASSUME NEW u \in Thread, written'[u] > 0 PROVE Writes(u)'
  <2>1. Writes(u)
    BY <1>1, <1>6 DEF LogInv
  <2>. QED BY <1>1, <2>1 DEF Writes, Log!Holds, Log!Shown, Log!NoCall, Log!Origin
<1>7. OpenLines'
  BY <1>1 DEF LogInv, OpenLines
<1>. QED BY <1>2, <1>3, <1>4, <1>5, <1>6, <1>7 DEF LogInv

\* Each logger's lines are whole and in the order of their times, but for a clock
\* set back, and none is shown below its level: for all threads, loggers, levels
\* and lines, with any number of loggers on the two streams.
THEOREM LogStaysReadable ==
  ASSUME None \notin Thread, MaxLines \in Nat, MaxTime \in Nat, MaxSetBacks \in Nat
  PROVE  Log!Spec => []LogReadable
<1>0. LogBounds
  BY DEF LogBounds
<1>1. LogInv => Log!LogReadable
  <2>. SUFFICES ASSUME LogInv PROVE Log!LogReadable
    OBVIOUS
  <2>1. /\ DOMAIN stream = Streams
        /\ \A s \in Streams : Readable(stream[s]) /\ DOMAIN stream[s] = 1 .. Len(stream[s])
    <3>1. DOMAIN stream = Streams
      BY DEF LogInv, Log!TypeOK, Streams
    <3>. QED BY <3>1, LenProperties DEF LogInv, Readable
  <2>2. Log!LinesWhole
    BY <2>1 DEF Readable, Log!LinesWhole
  <2>3. Log!TimesInOrder
    BY <2>1 DEF LogInv, Writes, Readable, Log!TimesInOrder
  <2>4. Log!NothingBelowMinimum
    BY DEF LogInv, Writes, Log!NothingBelowMinimum
  <2>. QED BY <2>2, <2>3, <2>4 DEF LogInv, Log!LogReadable
<1>2. LogInv /\ [Log!Next]_(Log!vars) => LogInv'
  <2>. SUFFICES ASSUME LogInv, [Log!Next]_(Log!vars) PROVE LogInv'
    OBVIOUS
  <2>1. CASE UNCHANGED Log!vars
    <3>1. Log!TypeOK' /\ HoldersCall' /\ CallsBegan'
      BY <2>1 DEF Log!vars, LogInv, Log!TypeOK, HoldersCall, CallsBegan, Log!Now,
             Log!NoCall, Log!Origin
    <3>2. ASSUME NEW u \in Thread, written[u] > 0 PROVE Log!Holds(u)' /\ Log!Shown(u)'
      BY <2>1, <3>2 DEF Log!vars, LogInv, Writes, Log!Holds, Log!Shown, Log!NoCall, Log!Origin
    <3>. QED BY <1>0, <2>1, <3>1, <3>2, StreamsRest DEF Log!vars
  <2>. QED BY <1>0, <2>1, BeginLogStep, LockStep, ReturnLogStep, WritePieceStep, ConfigureStep,
           SetClockStep DEF Log!Next, Log!LogStep
<1>3. Log!Init => LogInv
  BY <1>0, InitLog
<1>. QED BY <1>1, <1>2, <1>3, PTL DEF Log!Spec, LogReadable
=============================================================================
