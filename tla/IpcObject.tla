----------------------------- MODULE IpcObject -----------------------------
(***************************************************************************)
(* What elap::ipc::PosixMessageQueue and elap::ipc::SharedMemoryRegion     *)
(* have in common: a kernel object under a name, created with O_EXCL by an *)
(* owner, opened by others, and unlinked by the owner's close().  Every    *)
(* process has one handle at a time; create() and open() close it first.   *)
(* An object lives as long as it has a name or a handle.  Every system     *)
(* call that other processes can see is a step; while a call runs, the     *)
(* variables below stand for its local variables as well.                  *)
(***************************************************************************)
EXTENDS FiniteSets

CONSTANTS
  Process, Name, Object,
  Regions,        \* the names that are shared memory; the others are queues
  NoName, NoObject

ASSUME RegionsAssumption == Regions \subseteq Name
ASSUME NoNameAssumption == NoName \notin Name
ASSUME NoObjectAssumption == NoObject \notin Object

VARIABLES
  bound,      \* kernel: the object each name stands for
  sized,      \* kernel: the objects that have their size (a queue always has)
  object,     \* the descriptor each process has: descriptor_ or fd_
  name,       \* name_
  owner,      \* owner_
  at,         \* where each process is in create(), open() or close()
  disowned,   \* history: names taken from a living owner by unlink()
  abandoned   \* history: names whose owner was killed

objectVars == <<bound, sized, object, name, owner, at, disowned, abandoned>>

ObjectTypeOK ==
  /\ bound \in [Name -> Object \cup {NoObject}]
  /\ sized \subseteq Object
  /\ object \in [Process -> Object \cup {NoObject}]
  /\ name \in [Process -> Name \cup {NoName}]
  /\ owner \in [Process -> BOOLEAN]
  /\ at \in [Process -> {"idle", "sizing", "mapping", "failing", "measuring", "closing"}]
  /\ disowned \subseteq Name
  /\ abandoned \subseteq Name
  \* What a process can use is as large as it asked for.
  /\ \A p \in Process : at[p] = "idle" /\ object[p] # NoObject => object[p] \in sized

ObjectInit ==
  /\ bound = [n \in Name |-> NoObject]
  /\ sized = {}
  /\ object = [p \in Process |-> NoObject]
  /\ name = [p \in Process |-> NoName]
  /\ owner = [p \in Process |-> FALSE]
  /\ at = [p \in Process |-> "idle"]
  /\ disowned = {}
  /\ abandoned = {}
-----------------------------------------------------------------------------
Unused ==
  {o \in Object : (\A n \in Name : bound[n] # o) /\ (\A p \in Process : object[p] # o)}

Holds(p, o, n, isOwner) ==
  /\ object' = [object EXCEPT ![p] = o]
  /\ name' = [name EXCEPT ![p] = n]
  /\ owner' = [owner EXCEPT ![p] = isOwner]

Goto(p, where) == at' = [at EXCEPT ![p] = where]

Owners(n) == {p \in Process : owner[p] /\ name[p] = n}

\* A name is no longer disowned once the owners it was taken from are gone.
Settle(p) == disowned' = {n \in disowned : Owners(n) \ {p} # {}}

\* shm_unlink() and mq_unlink() go by the name, whatever it stands for now.
Unbind(n) == bound' = [bound EXCEPT ![n] = NoObject]

IsFree(p) == at[p] = "idle" /\ object[p] = NoObject
-----------------------------------------------------------------------------
(* create()                                                                *)

\* O_CREAT | O_EXCL: fails when the name is bound, by whomever it was left.
TakeName(p, n, o) ==
  /\ IsFree(p)
  /\ bound[n] = NoObject
  /\ o \in Unused
  /\ bound' = [bound EXCEPT ![n] = o]
  /\ Holds(p, o, n, TRUE)
  /\ abandoned' = abandoned \ {n}
  /\ UNCHANGED disowned

\* mq_open() makes a queue with its size; mq_getattr() on it does not fail.
CreateQueue(p, n) ==
  /\ n \notin Regions
  /\ \E o \in Object : TakeName(p, n, o) /\ sized' = sized \cup {o}
  /\ UNCHANGED at

\* shm_open() makes an empty region.
CreateRegion(p, n) ==
  /\ n \in Regions
  /\ \E o \in Object : TakeName(p, n, o) /\ sized' = sized \ {o}
  /\ Goto(p, "sizing")

Truncate(p) ==
  /\ at[p] = "sizing"
  /\ sized' = sized \cup {object[p]}
  /\ Goto(p, "mapping")
  /\ UNCHANGED <<bound, object, name, owner, disowned, abandoned>>

Map(p) ==
  /\ at[p] = "mapping"
  /\ Goto(p, "idle")
  /\ UNCHANGED <<bound, sized, object, name, owner, disowned, abandoned>>

\* Mutant of SizingFails: the new name stays behind.
SizingFailsDirtily(p) ==
  /\ at[p] \in {"sizing", "mapping"}
  /\ Goto(p, "idle")
  /\ Holds(p, NoObject, NoName, FALSE)
  /\ Settle(p)
  /\ UNCHANGED <<bound, sized, abandoned>>

\* ftruncate() or mmap() fails: close(), and then shm_unlink().
SizingFails(p) ==
  /\ at[p] \in {"sizing", "mapping"}
  /\ Goto(p, "failing")
  /\ object' = [object EXCEPT ![p] = NoObject]
  /\ UNCHANGED <<bound, sized, name, owner, disowned, abandoned>>
-----------------------------------------------------------------------------
(* open()                                                                  *)

FindName(p, n) ==
  /\ IsFree(p)
  /\ bound[n] # NoObject
  /\ Holds(p, bound[n], n, FALSE)
  /\ UNCHANGED <<bound, sized, disowned, abandoned>>

OpenQueue(p, n) == n \notin Regions /\ FindName(p, n) /\ UNCHANGED at

OpenRegion(p, n) == n \in Regions /\ FindName(p, n) /\ Goto(p, "measuring")

\* A region whose creator has not come to ftruncate() yet is refused.
Measure(p) ==
  /\ at[p] = "measuring"
  /\ object[p] \in sized
  /\ Goto(p, "idle")
  /\ UNCHANGED <<bound, sized, object, name, owner, disowned, abandoned>>

MeasureFails(p) ==
  /\ at[p] = "measuring"
  /\ Goto(p, "idle")
  /\ Holds(p, NoObject, NoName, FALSE)
  /\ UNCHANGED <<bound, sized, disowned, abandoned>>
-----------------------------------------------------------------------------
(* close() and unlink()                                                    *)

\* The descriptor goes first, the name after it.
Close(p) ==
  /\ at[p] = "idle"
  /\ object[p] # NoObject
  /\ IF owner[p]
     THEN /\ object' = [object EXCEPT ![p] = NoObject]
          /\ Goto(p, "closing")
          /\ UNCHANGED <<name, owner>>
     ELSE /\ Holds(p, NoObject, NoName, FALSE)
          /\ UNCHANGED at
  /\ UNCHANGED <<bound, sized, disowned, abandoned>>

UnlinkOwn(p) ==
  /\ at[p] \in {"closing", "failing"}
  /\ Unbind(name[p])
  /\ Goto(p, "idle")
  /\ Holds(p, NoObject, NoName, FALSE)
  /\ Settle(p)
  /\ UNCHANGED <<sized, abandoned>>

\* unlink() is open to every process that has the object; name_ stays.
Unlink(p) ==
  /\ at[p] = "idle"
  /\ object[p] # NoObject
  /\ Unbind(name[p])
  /\ owner' = [owner EXCEPT ![p] = FALSE]
  /\ IF Owners(name[p]) \subseteq {p} THEN Settle(p)
                                       ELSE disowned' = disowned \cup {name[p]}
  /\ abandoned' = abandoned \ {name[p]}
  /\ UNCHANGED <<sized, object, name, at>>

\* The process is killed: its descriptor goes, its name stays.
Kill(p) ==
  /\ object[p] # NoObject \/ at[p] # "idle"
  /\ abandoned' = IF owner[p] THEN abandoned \cup {name[p]} ELSE abandoned
  /\ Goto(p, "idle")
  /\ Holds(p, NoObject, NoName, FALSE)
  /\ Settle(p)
  /\ UNCHANGED <<bound, sized>>
-----------------------------------------------------------------------------
ObjectNext ==
  \E p \in Process :
    \/ \E n \in Name : \/ CreateQueue(p, n) \/ CreateRegion(p, n)
                       \/ OpenQueue(p, n) \/ OpenRegion(p, n)
    \/ Truncate(p) \/ Map(p) \/ SizingFails(p)
    \/ Measure(p) \/ MeasureFails(p)
    \/ Close(p) \/ UnlinkOwn(p) \/ Unlink(p) \/ Kill(p)
-----------------------------------------------------------------------------
\* The owner of an object holds its name for as long as it is the owner, to
\* the shm_unlink() or mq_unlink() of its close(), so that an owner never
\* removes a name that has become another's.  What breaks this is unlink() on
\* an object that has an owner: the owner's close() will later take the name
\* from whoever has created it anew.
OwnerHoldsName ==
  \A p \in Process :
    owner[p] /\ name[p] \notin disowned =>
      /\ bound[name[p]] # NoObject
      /\ object[p] # NoObject => bound[name[p]] = object[p]
      /\ \A q \in Process : owner[q] /\ name[q] = name[p] => q = p

\* A name that is still bound has an owner who will unbind it, whichever call
\* of a create() failed.  Only a process that is killed leaves a name that
\* makes every later create() fail.
NamesAccountedFor ==
  \A n \in Name :
    bound[n] # NoObject /\ n \notin abandoned \cup disowned => Owners(n) # {}
=============================================================================
