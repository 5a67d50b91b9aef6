------------------------------ MODULE EventBus -----------------------------
(***************************************************************************)
(* elap::ipc::MessageQueueEventBus: events as messages of a POSIX queue,   *)
(* all sent with priority 0.  Events are numbered as the kernel takes them *)
(* (the numbering starts again when no queue holds any and nobody can tell *)
(* the difference).  An event of another process's queue handle on the     *)
(* same object is the same to everybody: receivers compete for it.         *)
(***************************************************************************)
EXTENDS Naturals, Sequences, IpcObject

CONSTANTS
  MaxEvents,      \* mq_maxmsg
  MaxNumber       \* bound: how many events a queue takes

ASSUME LimitsAssumption == MaxEvents \in Nat \ {0} /\ MaxNumber \in Nat

VARIABLES
  queue,      \* kernel: the messages of each object
  count,      \* how many events each queue has taken
  last        \* the number of the last event each process got on its handle

vars == <<objectVars, queue, count, last>>

TypeOK ==
  /\ ObjectTypeOK
  /\ queue \in [Object -> UNION {[1 .. n -> 1 .. MaxNumber] : n \in 0 .. MaxEvents}]
  /\ count \in [Object -> 0 .. MaxNumber]
  /\ last \in [Process -> 0 .. MaxNumber]

Init ==
  /\ ObjectInit
  /\ queue = [o \in Object |-> <<>>]
  /\ count = [o \in Object |-> 0]
  /\ last = [p \in Process |-> 0]
-----------------------------------------------------------------------------
\* A process is between calls, with a queue open.
HasQueue(p) == at[p] = "idle" /\ object[p] # NoObject /\ name[p] \notin Regions

\* Mutant of Publish: an event may be sent with a higher priority.
PublishUrgently(p) ==
  LET o == object[p] IN
  /\ HasQueue(p)
  /\ Len(queue[o]) < MaxEvents
  /\ count[o] < MaxNumber
  /\ queue' = [queue EXCEPT ![o] = <<count[o] + 1>> \o @]
  /\ count' = [count EXCEPT ![o] = @ + 1]
  /\ UNCHANGED <<objectVars, last>>

\* mq_send() waits while the queue is full; mq_timedsend() then fails, as a
\* message that is too long does at once: nothing is sent.
SendMessage(p) ==
  LET o == object[p] IN
  /\ HasQueue(p)
  /\ Len(queue[o]) < MaxEvents
  /\ count[o] < MaxNumber
  /\ queue' = [queue EXCEPT ![o] = Append(@, count[o] + 1)]
  /\ count' = [count EXCEPT ![o] = @ + 1]
  /\ UNCHANGED <<objectVars, last>>

\* mq_receive() waits while the queue is empty; mq_timedreceive() then fails.
ReceiveMessage(p) ==
  LET o == object[p] IN
  /\ HasQueue(p)
  /\ queue[o] # <<>>
  /\ last' = [last EXCEPT ![p] = Head(queue[o])]
  /\ queue' = [queue EXCEPT ![o] = Tail(@)]
  /\ UNCHANGED <<objectVars, count>>

\* Every event goes with priority 0; one that cannot be encoded does not go.
Publish(p) == SendMessage(p)

\* A message that does not decode is taken off the queue all the same, and lost.
Receive(p) == ReceiveMessage(p)

\* An object that nobody can reach any more goes with its messages.
Reachable(o) == (\E n \in Name : bound[n] = o) \/ (\E p \in Process : object[p] = o)

ObjectStep ==
  /\ ObjectNext
  /\ queue' = [o \in Object |-> IF Reachable(o)' THEN queue[o] ELSE <<>>]
  /\ count' = [o \in Object |-> IF Reachable(o)' THEN count[o] ELSE 0]
  /\ last' = [p \in Process |-> IF object'[p] = object[p] THEN last[p] ELSE 0]

Next == ObjectStep \/ \E p \in Process : Publish(p) \/ Receive(p)

Spec == Init /\ [][Next]_vars
-----------------------------------------------------------------------------
\* What a process receives on one handle comes in the order in which the
\* queue took it, whoever else publishes and receives: nothing in its queue is
\* older than the last event it got, and no event is given out twice.
EventsInOrder ==
  \A p \in Process :
    HasQueue(p) =>
      LET q == queue[object[p]] IN
      /\ \A i \in DOMAIN q : q[i] > last[p]
      /\ \A i, j \in DOMAIN q : i < j => q[i] < q[j]

\* The types, and both promises that IpcObject makes of names.
NamesKept == TypeOK /\ OwnerHoldsName /\ NamesAccountedFor
=============================================================================
