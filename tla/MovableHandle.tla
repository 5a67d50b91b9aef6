--------------------------- MODULE MovableHandle ---------------------------
(***************************************************************************)
(* The moves of the objects that own a descriptor: PosixMessageQueue,      *)
(* whose code the definitions follow, SharedMemoryRegion, and, without a   *)
(* name to remove, UnixSocketConnection, FileDevice and Database.  One     *)
(* thread of one process uses several objects; the kernel hands a closed   *)
(* descriptor's number out again, and another process may create names.    *)
(* What other processes do with an object's name is IpcObject.             *)
(***************************************************************************)
EXTENDS Naturals

CONSTANTS
  Object,      \* variables of the class
  Number,      \* the descriptor numbers the process may have
  Name,        \* valid names of queues
  NoNumber,    \* -1
  NoName       \* the empty string

ASSUME ValuesAssumption == NoNumber \notin Number /\ NoName \notin Name

VARIABLES
  alive,       \* the objects constructed and not destroyed
  number,      \* per object: descriptor_
  name,        \* per object: name_
  owner,       \* the objects with owner_
  target,      \* per number: the queue the kernel has open on it
  exists       \* the names there are

handleVars == <<alive, number, name, owner, target, exists>>

HandleTypeOK ==
  /\ alive \subseteq Object /\ owner \subseteq alive
  /\ number \in [Object -> Number \cup {NoNumber}]
  /\ name \in [Object -> Name \cup {NoName}]
  /\ target \in [Number -> Name \cup {NoName}]
  /\ exists \subseteq Name

HandleInit ==
  /\ alive = {} /\ owner = {}
  /\ number = [o \in Object |-> NoNumber]
  /\ name = [o \in Object |-> NoName]
  /\ target = [n \in Number |-> NoName]
  /\ exists \in SUBSET Name
-----------------------------------------------------------------------------
\* What close() leaves in the kernel, for the calls that begin with it.
TargetAfterClose(o) ==
  [n \in Number |-> IF n = number[o] THEN NoName ELSE target[n]]
ExistsAfterClose(o) == IF o \in owner THEN exists \ {name[o]} ELSE exists

Closed(o) ==
  /\ number' = [number EXCEPT ![o] = NoNumber]
  /\ name' = [name EXCEPT ![o] = NoName]
  /\ owner' = owner \ {o}
  /\ target' = TargetAfterClose(o)
  /\ exists' = ExistsAfterClose(o)

Construct(o) ==
  /\ o \notin alive
  /\ alive' = alive \cup {o}
  /\ UNCHANGED <<number, name, owner, target, exists>>

Close(o) ==
  /\ o \in alive
  /\ Closed(o)
  /\ UNCHANGED alive

Destroy(o) ==
  /\ o \in alive
  /\ Closed(o)
  /\ alive' = alive \ {o}

Opened(o, q, n) ==
  /\ TargetAfterClose(o)[n] = NoName
  /\ number' = [number EXCEPT ![o] = n]
  /\ name' = [name EXCEPT ![o] = q]
  /\ target' = [TargetAfterClose(o) EXCEPT ![n] = q]
  /\ UNCHANGED alive

Create(o, q) ==
  /\ o \in alive
  /\ q \notin ExistsAfterClose(o)
  /\ \E n \in Number : Opened(o, q, n)
  /\ owner' = owner \cup {o}
  /\ exists' = ExistsAfterClose(o) \cup {q}

Open(o, q) ==
  /\ o \in alive
  /\ q \in ExistsAfterClose(o)
  /\ \E n \in Number : Opened(o, q, n)
  /\ owner' = owner \ {o}
  /\ exists' = ExistsAfterClose(o)

\* create() or open() fails, on a name, for want of a descriptor, or since the
\* caller passed the object's own name(), which close() has cleared.
OpenFails(o) == Close(o)

\* Takes what the other has; close() of the other will find nothing.
Take(o, other) ==
  /\ number' = [number EXCEPT ![o] = number[other], ![other] = NoNumber]
  /\ name' = [name EXCEPT ![o] = name[other], ![other] = NoName]
  /\ owner' = IF other \in owner THEN (owner \ {other}) \cup {o} ELSE owner \ {o}

MoveConstruct(o, other) ==
  /\ o \notin alive /\ other \in alive
  /\ Take(o, other)
  /\ alive' = alive \cup {o}
  /\ UNCHANGED <<target, exists>>

\* Mutant of MoveAssign: what the object had is not closed.
MoveAssignOver(o, other) ==
  /\ {o, other} \subseteq alive
  /\ IF o = other THEN UNCHANGED <<number, name, owner>> ELSE Take(o, other)
  /\ UNCHANGED <<alive, target, exists>>

MoveAssign(o, other) ==
  /\ {o, other} \subseteq alive
  /\ \/ o = other /\ UNCHANGED <<number, name, owner, target, exists>>
     \/ /\ o # other
        /\ Take(o, other)
        /\ target' = TargetAfterClose(o)
        /\ exists' = ExistsAfterClose(o)
  /\ UNCHANGED alive

\* Another process creates a queue.
OtherCreates(q) ==
  /\ exists' = exists \cup {q}
  /\ UNCHANGED <<alive, number, name, owner, target>>

HandleNext ==
  \/ \E o \in Object :
       \/ Construct(o) \/ Close(o) \/ Destroy(o) \/ OpenFails(o)
       \/ \E q \in Name : Create(o, q) \/ Open(o, q)
       \/ \E other \in Object : MoveConstruct(o, other) \/ MoveAssign(o, other)
  \/ \E q \in Name : OtherCreates(q)

HandleSpec == HandleInit /\ [][HandleNext]_handleVars
-----------------------------------------------------------------------------
\* Whatever the objects are moved to and over, the process has no descriptor
\* that no object will close, none that two will close, and no object closes a
\* number that stands for something else by now.
HeldOnce ==
  /\ \A n \in Number : target[n] # NoName => \E o \in alive : number[o] = n
  /\ \A o, p \in Object : number[o] # NoNumber /\ number[o] = number[p] => o = p
  /\ \A o \in Object : number[o] # NoNumber => o \in alive /\ target[number[o]] = name[o]

\* The name a queue was created under is removed once: one object owns it,
\* through all moves, and until it closes the name is there.
OneOwner ==
  /\ \A o \in owner : name[o] \in exists
  /\ \A o, p \in owner : name[o] = name[p] => o = p

\* All of it: every descriptor and every name is released once.
ReleasedOnce == HandleTypeOK /\ HeldOnce /\ OneOwner

\* An assignment hands over all that the other has, even to itself.
MovedWhole ==
  [][\A o, other \in Object : MoveAssign(o, other) =>
       /\ number'[o] = number[other] /\ name'[o] = name[other]
       /\ o \in owner' <=> other \in owner
       /\ number[other] # NoNumber => target'[number[other]] = name[other]]_handleVars
=============================================================================
