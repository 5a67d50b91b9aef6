-------------------------- MODULE PersistentStore --------------------------
(***************************************************************************)
(* elap::storage::PersistentStore and the Database under it, as the        *)
(* threads of several processes use them on one file: a process has one    *)
(* store, that is, one SQLite connection, which its threads share.         *)
(* Every SQL statement is a step.  A statement may fail at any time, with  *)
(* the file locked by another process for longer than the busy timeout or  *)
(* for a reason of its own; SQLite then keeps the transaction the          *)
(* connection is in, or (disk full, I/O error, out of memory) rolls it     *)
(* back as a whole.                                                        *)
(***************************************************************************)
EXTENDS FiniteSets

CONSTANTS
  Process, Thread,
  ProcessOf,      \* the process each thread belongs to
  Key, Value,
  NoValue,        \* no row for this key
  NoProcess

ASSUME ProcessOfAssumption == ProcessOf \in [Thread -> Process]
ASSUME NoProcessAssumption == NoProcess \notin Process
ASSUME NoValueAssumption == NoValue \notin Value

VARIABLES
  disk,       \* what the file holds: the committed rows
  opened,     \* the processes whose store is open
  txn,        \* the process whose connection is in a transaction
  work,       \* the rows as that transaction sees them
  at,         \* where each thread is in an operation of the store
  op,         \* the rows this operation writes, and with what
  todo,       \* the keys putAll() has still to put
  mixed       \* history: the processes with a putAll() between whose statements
              \* those of another thread have come on their connection

vars == <<disk, opened, txn, work, at, op, todo, mixed>>

Rows == [Key -> Value \cup {NoValue}]
Write == [keys : SUBSET Key, value : Value \cup {NoValue}]
NoRows == [k \in Key |-> NoValue]
NoWrite == [keys |-> {}, value |-> NoValue]
InPutAll == {"writing", "rollback"}

TypeOK ==
  /\ disk \in Rows
  /\ opened \subseteq Process
  /\ txn \in opened \cup {NoProcess}
  /\ work \in Rows
  /\ at \in [Thread -> {"idle", "statement", "begin", "reading"} \cup InPutAll]
  /\ op \in [Thread -> Write]
  /\ \A t \in Thread : /\ todo[t] \subseteq op[t].keys
                       /\ at[t] # "idle" => ProcessOf[t] \in opened
  /\ mixed \subseteq Process

Init ==
  /\ disk = NoRows
  /\ opened = {}
  /\ txn = NoProcess
  /\ work = NoRows
  /\ at = [t \in Thread |-> "idle"]
  /\ op = [t \in Thread |-> NoWrite]
  /\ todo = [t \in Thread |-> {}]
  /\ mixed = {}
-----------------------------------------------------------------------------
Written(rows, ks, v) == [k \in Key |-> IF k \in ks THEN v ELSE rows[k]]

InTransaction(t) == txn = ProcessOf[t]

\* A thread of another process reads: its lock keeps others from committing.
ReadElsewhere(t) ==
  \E u \in Thread : ProcessOf[u] # ProcessOf[t] /\ at[u] = "reading"

\* A write on a connection that is in no transaction commits by itself.
CanCommit(t) == txn \in {NoProcess, ProcessOf[t]} /\ ~ReadElsewhere(t)

Sharers(t) == {u \in Thread \ {t} : ProcessOf[u] = ProcessOf[t] /\ at[u] \in InPutAll}

NoteMixing(t) ==
  mixed' = CASE Sharers(t) # {} -> mixed \cup {ProcessOf[t]}
             [] Sharers(t) = {} /\ at'[t] \in InPutAll -> mixed
             [] OTHER -> mixed \ {ProcessOf[t]}

Goto(t, where) == at' = [at EXCEPT ![t] = where]

Returns(t) ==
  /\ Goto(t, "idle")
  /\ op' = [op EXCEPT ![t] = NoWrite]
  /\ todo' = [todo EXCEPT ![t] = {}]

EndTransaction == txn' = NoProcess /\ work' = NoRows

\* A failed statement leaves the transaction alone, or takes it down.
MayRollBack(t) ==
  \/ UNCHANGED <<txn, work>>
  \/ InTransaction(t) /\ EndTransaction
-----------------------------------------------------------------------------
(* open() and close().                                                     *)

\* A store that cannot be opened, or whose schema cannot be made, stays closed.
Open(p) ==
  /\ p \notin opened
  /\ opened' = opened \cup {p}
  /\ UNCHANGED <<disk, txn, work, at, op, todo, mixed>>

\* A store is closed, or opened anew, by a process none of whose threads uses
\* it: nothing but the caller sees to that.
Close(p) ==
  /\ p \in opened
  /\ \A t \in Thread : ProcessOf[t] = p => at[t] = "idle"
  /\ opened' = opened \ {p}
  /\ UNCHANGED <<disk, txn, work, at, op, todo, mixed>>
-----------------------------------------------------------------------------
(* put(), putBlob(), remove() and clear(): one statement each.             *)

BeginStatement(t, ks, v) ==
  /\ at[t] = "idle"
  /\ ProcessOf[t] \in opened
  /\ op' = [op EXCEPT ![t] = [keys |-> ks, value |-> v]]
  /\ Goto(t, "statement")
  /\ UNCHANGED <<disk, opened, txn, work, todo, mixed>>

Put(t) == \E k \in Key, v \in Value : BeginStatement(t, {k}, v)
PutBlob(t) == \E k \in Key, v \in Value : BeginStatement(t, {k}, v)
Remove(t) == \E k \in Key : BeginStatement(t, {k}, NoValue)
Clear(t) == BeginStatement(t, Key, NoValue)

\* In the transaction of another thread the statement is a part of it.
Execute(t, ks) ==
  \/ /\ InTransaction(t)
     /\ work' = Written(work, ks, op[t].value)
     /\ UNCHANGED disk
  \/ /\ ~InTransaction(t)
     /\ CanCommit(t)
     /\ disk' = Written(disk, ks, op[t].value)
     /\ UNCHANGED work

StatementSucceeds(t) ==
  /\ at[t] = "statement"
  /\ Execute(t, op[t].keys)
  /\ Returns(t)
  /\ NoteMixing(t)
  /\ UNCHANGED <<opened, txn>>

StatementFails(t) ==
  /\ at[t] = "statement"
  /\ MayRollBack(t)
  /\ Returns(t)
  /\ NoteMixing(t)
  /\ UNCHANGED <<disk, opened>>
-----------------------------------------------------------------------------
(* putAll()                                                                *)

PutAll(t) ==
  /\ at[t] = "idle"
  /\ ProcessOf[t] \in opened
  /\ \E ks \in SUBSET Key, v \in Value :
       /\ op' = [op EXCEPT ![t] = [keys |-> ks, value |-> v]]
       /\ todo' = [todo EXCEPT ![t] = ks]
  /\ Goto(t, "begin")
  /\ UNCHANGED <<disk, opened, txn, work, mixed>>

\* A file with a line that does not parse is refused before anything is stored.
LoadFromFile(t) == PutAll(t)

\* BEGIN IMMEDIATE takes the write lock of the file at once.
BeginTransaction(t) ==
  /\ at[t] = "begin"
  /\ txn = NoProcess
  /\ txn' = ProcessOf[t]
  /\ work' = disk
  /\ Goto(t, "writing")
  /\ NoteMixing(t)
  /\ UNCHANGED <<disk, opened, op, todo>>

\* The file is locked, or another thread has this connection in a transaction.
BeginFails(t) ==
  /\ at[t] = "begin"
  /\ Returns(t)
  /\ UNCHANGED <<disk, opened, txn, work, mixed>>

\* Mutant of PutNext: the statements commit by themselves.
PutNextAlone(t) ==
  /\ at[t] = "writing"
  /\ ~ReadElsewhere(t)
  /\ \E k \in todo[t] :
       /\ disk' = Written(disk, {k}, op[t].value)
       /\ work' = Written(work, {k}, op[t].value)
       /\ todo' = [todo EXCEPT ![t] = @ \ {k}]
  /\ UNCHANGED <<opened, txn, at, op>>
  /\ NoteMixing(t)

\* put() of the next pair.  The pairs have different keys, and no property
\* depends on their order.
PutNext(t) ==
  /\ at[t] = "writing"
  /\ \E k \in todo[t] :
       /\ Execute(t, {k})
       /\ todo' = [todo EXCEPT ![t] = @ \ {k}]
  /\ UNCHANGED <<opened, txn, at, op>>
  /\ NoteMixing(t)

\* Mutant of PutFails: putAll() returns without ROLLBACK.
PutFailsAndReturns(t) ==
  /\ at[t] = "writing"
  /\ todo[t] # {}
  /\ MayRollBack(t)
  /\ Returns(t)
  /\ NoteMixing(t)
  /\ UNCHANGED <<disk, opened>>

PutFails(t) ==
  /\ at[t] = "writing"
  /\ todo[t] # {}
  /\ MayRollBack(t)
  /\ Goto(t, "rollback")
  /\ NoteMixing(t)
  /\ UNCHANGED <<disk, opened, op, todo>>

Commit(t) ==
  /\ at[t] = "writing"
  /\ todo[t] = {}
  /\ InTransaction(t)
  /\ CanCommit(t)
  /\ disk' = work
  /\ EndTransaction
  /\ Returns(t)
  /\ NoteMixing(t)
  /\ UNCHANGED opened

\* Mutant of CommitFails: putAll() returns without ROLLBACK.
CommitFailsAndReturns(t) ==
  /\ at[t] = "writing"
  /\ todo[t] = {}
  /\ MayRollBack(t)
  /\ Returns(t)
  /\ NoteMixing(t)
  /\ UNCHANGED <<disk, opened>>

\* COMMIT gives up while another process reads: the transaction is still open.
CommitFails(t) ==
  /\ at[t] = "writing"
  /\ todo[t] = {}
  /\ MayRollBack(t)
  /\ Goto(t, "rollback")
  /\ NoteMixing(t)
  /\ UNCHANGED <<disk, opened, op, todo>>

\* ROLLBACK fails when there is no transaction any more; nobody asks.
RollBack(t) ==
  /\ at[t] = "rollback"
  /\ IF InTransaction(t) THEN EndTransaction ELSE UNCHANGED <<txn, work>>
  /\ Returns(t)
  /\ NoteMixing(t)
  /\ UNCHANGED <<disk, opened>>
-----------------------------------------------------------------------------
(* get(), has(), getBlob() and keys() hold a read lock while they step     *)
(* through their rows.                                                     *)

BeginRead(t) ==
  /\ at[t] = "idle"
  /\ ProcessOf[t] \in opened
  /\ Goto(t, "reading")
  /\ UNCHANGED <<disk, opened, txn, work, op, todo, mixed>>

Get(t) == BeginRead(t)
GetBlob(t) == BeginRead(t)
Keys(t) == BeginRead(t)

EndRead(t) ==
  /\ at[t] = "reading"
  /\ Returns(t)
  /\ UNCHANGED <<disk, opened, txn, work, mixed>>

\* The process is killed: the next one to open the file finds a hot journal
\* and rolls back.
Crash(p) ==
  LET gone == {t \in Thread : ProcessOf[t] = p} IN
  /\ p \in opened
  /\ opened' = opened \ {p}
  /\ IF txn = p THEN EndTransaction ELSE UNCHANGED <<txn, work>>
  /\ at' = [t \in Thread |-> IF t \in gone THEN "idle" ELSE at[t]]
  /\ op' = [t \in Thread |-> IF t \in gone THEN NoWrite ELSE op[t]]
  /\ todo' = [t \in Thread |-> IF t \in gone THEN {} ELSE todo[t]]
  /\ mixed' = mixed \ {p}
  /\ UNCHANGED disk
-----------------------------------------------------------------------------
OperationStep(t) ==
  \/ StatementSucceeds(t) \/ StatementFails(t)
  \/ BeginTransaction(t) \/ BeginFails(t)
  \/ PutNext(t) \/ PutFails(t) \/ Commit(t) \/ CommitFails(t) \/ RollBack(t)
  \/ EndRead(t)

Next ==
  \/ \E p \in Process : Open(p) \/ Close(p) \/ Crash(p)
  \/ \E t \in Thread : \/ OperationStep(t)
                       \/ Put(t) \/ PutBlob(t) \/ Remove(t) \/ Clear(t)
                       \/ PutAll(t) \/ LoadFromFile(t)
                       \/ Get(t) \/ GetBlob(t) \/ Keys(t)

\* Statements return, at the latest when the busy timeout expires.
Fairness == \A t \in Thread : WF_vars(OperationStep(t))

Spec == Init /\ [][Next]_vars /\ Fairness
-----------------------------------------------------------------------------
\* What other processes and a restart see moves by whole operations: the file
\* takes all the keys of one putAll() (or of one put(), remove() or clear())
\* or none of them, whatever fails, locks or is killed in between.  A process
\* that lets a second thread use the store during a putAll() gives that up:
\* the connection has one transaction, and PersistentStore has no mutex.
BatchesWhole ==
  [][(mixed = {} /\ mixed' = {} /\ disk' # disk) =>
        \E t \in Thread : disk' = Written(disk, op[t].keys, op[t].value)]_vars

\* When no putAll() of a process runs, its connection is in no transaction: a
\* batch that failed at any statement, COMMIT included, leaves no lock behind
\* to refuse the other processes, and no writes for the next COMMIT to take.
NoTransactionLeftOpen ==
  \A t \in Thread :
    InTransaction(t) =>
      \E u \in Thread : ProcessOf[u] = ProcessOf[t] /\ at[u] \in InPutAll

\* Whoever takes the write lock gives it up, so the others' retries can succeed.
LockReleased == (txn # NoProcess) ~> (txn = NoProcess)
=============================================================================
