--------------------------- MODULE HealthMonitor ---------------------------
(***************************************************************************)
(* elap::health::HealthMonitor: services report their states and somebody  *)
(* points the monitor at other files, while collectors take snapshots.     *)
(* collect() copies what it needs under the mutex and reads the files      *)
(* without it.  What a locked section does is one step.                    *)
(***************************************************************************)
EXTENDS Naturals, Sequences, FiniteSets, FiniteSetsExt

CONSTANTS
  Collector,
  Name, State,       \* of services; State is a part of ServiceState
  Root, Disk,        \* directories that stand for /proc and paths of file systems
  InitialRoot, InitialDisk,    \* among Root and Disk
  MaxChanges,        \* bound: changes of the monitor
  None

VARIABLES
  services,              \* services_
  procRoot, diskPath,
  step,                  \* where each collector is in collect()
  snapshot,              \* what it has so far
  copied,                \* its copies of procRoot_ and diskPath_
  errors,                \* its caller's error string: the parts it names
  stale,                 \* history: the errors that were in it before the call
  during,                \* history: the moments of the monitor since the call began
  latest,                \* history: the last state each service reported
  changes                \* how often the monitor was changed

monitor == <<services, procRoot, diskPath>>
moment == [services |-> services, root |-> procRoot, disk |-> diskPath]
collecting == <<step, snapshot, copied, errors, stale>>
vars == <<monitor, collecting, during, latest, changes>>

IsHealthy(state) == state \in {"Initialized", "Starting", "Running"}
Health(name, state) == [name |-> name, state |-> state, healthy |-> IsHealthy(state)]
Parts == {"cpu", "memory", "disk"}
\* cpu and memory hold the directory they were read from, disk its path.
EmptySnapshot == [services |-> <<>>, cpu |-> None, memory |-> None, disk |-> None]
Missing(s) == {part \in Parts : s[part] = None}

TypeOK ==
  /\ services \in Seq([name : Name, state : State, healthy : BOOLEAN])
  /\ Len(services) <= Cardinality(Name)
  /\ procRoot \in Root /\ diskPath \in Disk
  /\ step \in [Collector -> {"idle", "called", "cpu", "memory", "disk", "done"}]
  /\ \A c \in Collector : /\ snapshot[c].cpu \in Root \cup {None}
                          /\ snapshot[c].memory \in Root \cup {None}
                          /\ snapshot[c].disk \in Disk \cup {None}
  /\ copied \in [Collector -> [root : Root, disk : Disk]]
  /\ errors \in [Collector -> SUBSET Parts] /\ stale \in [Collector -> SUBSET Parts]
  /\ latest \in [Name -> State \cup {None}]
  /\ changes \in 0 .. MaxChanges

Init ==
  /\ services = <<>>
  /\ procRoot = InitialRoot /\ diskPath = InitialDisk
  /\ step = [c \in Collector |-> "idle"]
  /\ snapshot = [c \in Collector |-> EmptySnapshot]
  /\ copied = [c \in Collector |-> [root |-> InitialRoot, disk |-> InitialDisk]]
  /\ errors = [c \in Collector |-> {}] /\ stale = [c \in Collector |-> {}]
  /\ during = [c \in Collector |-> {}]
  /\ latest = [n \in Name |-> None]
  /\ changes = 0
-----------------------------------------------------------------------------
Change ==
  /\ changes < MaxChanges
  /\ changes' = changes + 1
  /\ during' = [c \in Collector |-> IF step[c] = "called" THEN during[c] \cup {moment'} ELSE during[c]]
  /\ UNCHANGED collecting

SetProcRoot ==
  /\ procRoot' \in Root
  /\ UNCHANGED <<services, diskPath, latest>>
  /\ Change

SetDiskPath ==
  /\ diskPath' \in Disk
  /\ UNCHANGED <<services, procRoot, latest>>
  /\ Change

Updated(health) ==
  LET at == {i \in DOMAIN services : services[i].name = health.name}
  IN  IF at = {} THEN Append(services, health)
                 ELSE [services EXCEPT ![Min(at)] = health]

ReportService ==
  \E name \in Name, state \in State :
    /\ services' = Updated(Health(name, state))
    /\ latest' = [latest EXCEPT ![name] = state]
    /\ UNCHANGED <<procRoot, diskPath>>
    /\ Change

ClearServices ==
  /\ services' = <<>>
  /\ latest' = [n \in Name |-> None]
  /\ UNCHANGED <<procRoot, diskPath>>
  /\ Change

\* The caller passes a new string, or one a call before has written to.
BeginCollect(c) ==
  /\ step[c] \in {"idle", "done"}
  /\ step' = [step EXCEPT ![c] = "called"]
  /\ snapshot' = [snapshot EXCEPT ![c] = EmptySnapshot]
  /\ stale' \in {[stale EXCEPT ![c] = e] : e \in {{}, errors[c]}}
  /\ errors' = [errors EXCEPT ![c] = stale'[c]]
  /\ during' = [during EXCEPT ![c] = {moment}]
  /\ UNCHANGED <<monitor, copied, latest, changes>>

CopyState(c) ==
  /\ step[c] = "called"
  /\ step' = [step EXCEPT ![c] = "cpu"]
  /\ snapshot' = [snapshot EXCEPT ![c].services = services]
  /\ copied' = [copied EXCEPT ![c] = [root |-> procRoot, disk |-> diskPath]]
  /\ UNCHANGED <<monitor, errors, stale, during, latest, changes>>

\* Mutant of ReadPart: the paths are read again without the mutex.
ReadPartNow(c, part, next, source) ==
  /\ step[c] = part
  /\ step' = [step EXCEPT ![c] = next]
  /\ \/ /\ snapshot' = [snapshot EXCEPT ![c][part] = IF part = "disk" THEN diskPath ELSE procRoot]
        /\ UNCHANGED errors
     \/ /\ errors' = [errors EXCEPT ![c] = @ \cup {part}]
        /\ UNCHANGED snapshot
  /\ UNCHANGED <<monitor, copied, stale, during, latest, changes>>

\* The file is missing or is not what the parser accepts, or it is read.
ReadPart(c, part, next, source) ==
  /\ step[c] = part
  /\ step' = [step EXCEPT ![c] = next]
  /\ \/ /\ snapshot' = [snapshot EXCEPT ![c][part] = source]
        /\ UNCHANGED errors
     \/ /\ errors' = [errors EXCEPT ![c] = @ \cup {part}]
        /\ UNCHANGED snapshot
  /\ UNCHANGED <<monitor, copied, stale, during, latest, changes>>

ReadCpu(c) == ReadPart(c, "cpu", "memory", copied[c].root)
ReadMemory(c) == ReadPart(c, "memory", "disk", copied[c].root)
ReadDisk(c) == ReadPart(c, "disk", "done", copied[c].disk)

Next ==
  \/ SetProcRoot \/ SetDiskPath \/ ReportService \/ ClearServices
  \/ \E c \in Collector :
       BeginCollect(c) \/ CopyState(c) \/ ReadCpu(c) \/ ReadMemory(c) \/ ReadDisk(c)

Spec == Init /\ [][Next]_vars
-----------------------------------------------------------------------------
\* All a snapshot holds belongs to one moment of the monitor that lies within
\* the call, whoever changes the paths or reports while the files are read.
SnapshotOfOneMoment ==
  \A c \in Collector : step[c] = "done" =>
    \E m \in during[c] : /\ snapshot[c].services = m.services
                         /\ snapshot[c].cpu \in {m.root, None}
                         /\ snapshot[c].memory \in {m.root, None}
                         /\ snapshot[c].disk \in {m.disk, None}

\* Every service that reported since the list was cleared is listed once, with
\* its last state and the health of that state, in every snapshot of the list.
LastReportsListed ==
  /\ {<<s.name, s.state>> : s \in {services[i] : i \in DOMAIN services}}
       = {<<n, latest[n]>> : n \in {m \in Name : latest[m] # None}}
  /\ \A i, j \in DOMAIN services : services[i].name = services[j].name => i = j
  /\ \A i \in DOMAIN services : services[i].healthy = IsHealthy(services[i].state)

\* The error string names exactly the parts the snapshot lacks, after what the
\* caller left in it.
ErrorsNameMissingParts ==
  \A c \in Collector :
    step[c] = "done" => errors[c] = stale[c] \cup Missing(snapshot[c])

\* A snapshot is true to the monitor, however it changes meanwhile.
SnapshotsTrue ==
  TypeOK /\ SnapshotOfOneMoment /\ LastReportsListed /\ ErrorsNameMissingParts
=============================================================================
