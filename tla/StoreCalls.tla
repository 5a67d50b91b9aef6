----------------------------- MODULE StoreCalls ------------------------------
(***************************************************************************)
(* PersistentStore with what its calls return: true or false for the       *)
(* writes, and for get(), has(), getBlob() and keys() the rows they step   *)
(* through, one sqlite3_step() at a time.                                  *)
(***************************************************************************)
EXTENDS PersistentStore

VARIABLES
  answer,     \* what the last call of each thread returned, and the rows it saw
  stepped     \* the rows a read has stepped through, and found; empty otherwise

callVars == <<disk, opened, txn, work, at, op, todo, mixed, answer, stepped>>

Answer(ok, seen) == [ok |-> ok, rows |-> seen]
Nothing == [k \in {} |-> NoValue]

CallsInit ==
  /\ Init
  /\ answer = [t \in Thread |-> Answer(FALSE, NoRows)]
  /\ stepped = [t \in Thread |-> Nothing]
-----------------------------------------------------------------------------
Replies(t, ok, seen) == answer' = [answer EXCEPT ![t] = Answer(ok, seen)]

\* A closed store refuses every call with "database is not open".
CallClosed(t) ==
  /\ ProcessOf[t] \notin opened
  /\ Replies(t, FALSE, NoRows)
  /\ UNCHANGED <<vars, stepped>>

Begins(t) ==
  /\ \/ Put(t) \/ PutBlob(t) \/ Remove(t) \/ Clear(t)
     \/ PutAll(t) \/ LoadFromFile(t)
     \/ Get(t) \/ GetBlob(t) \/ Keys(t)
  /\ UNCHANGED <<answer, stepped>>

Succeeds(t) ==
  /\ StatementSucceeds(t) \/ Commit(t)
  /\ Replies(t, TRUE, NoRows)
  /\ UNCHANGED stepped

Proceeds(t) ==
  /\ BeginTransaction(t) \/ PutNext(t) \/ PutFails(t) \/ CommitFails(t)
  /\ UNCHANGED <<answer, stepped>>

\* Mutant of Fails: putAll() returns what its ROLLBACK returns.
FailsUnlessRolledBack(t) ==
  /\ StatementFails(t) \/ BeginFails(t) \/ RollBack(t)
  /\ Replies(t, at[t] = "rollback" /\ InTransaction(t), NoRows)
  /\ UNCHANGED stepped

\* ROLLBACK succeeds or fails, putAll() has failed.
Fails(t) ==
  /\ StatementFails(t) \/ BeginFails(t) \/ RollBack(t)
  /\ Replies(t, FALSE, NoRows)
  /\ UNCHANGED stepped

\* The next row, as this connection sees it, is handed to the callback.
StepRow(t) ==
  /\ at[t] = "reading"
  /\ \E k \in Key \ DOMAIN stepped[t] :
       stepped' = [stepped EXCEPT ![t] =
         [j \in DOMAIN @ \cup {k} |->
            IF j \in DOMAIN @ THEN @[j] ELSE IF InTransaction(t) THEN work[k] ELSE disk[k]]]
  /\ UNCHANGED <<vars, answer>>

ReadReturns(t) ==
  /\ EndRead(t)
  /\ DOMAIN stepped[t] = Key
  /\ Replies(t, TRUE, stepped[t])
  /\ stepped' = [stepped EXCEPT ![t] = Nothing]

\* What an interrupted read had collected is dropped.
ReadFails(t) ==
  /\ EndRead(t)
  /\ Replies(t, FALSE, NoRows)
  /\ stepped' = [stepped EXCEPT ![t] = Nothing]

ProcessStep(p) ==
  \/ /\ Open(p) \/ Close(p)
     /\ UNCHANGED <<answer, stepped>>
  \/ /\ Crash(p)
     /\ answer' = [t \in Thread |-> IF ProcessOf[t] = p THEN Answer(FALSE, NoRows) ELSE answer[t]]
     /\ stepped' = [t \in Thread |-> IF ProcessOf[t] = p THEN Nothing ELSE stepped[t]]

CallStep(t) ==
  Succeeds(t) \/ Proceeds(t) \/ Fails(t) \/ StepRow(t) \/ ReadReturns(t) \/ ReadFails(t)

\* What the processes do when only these threads use their stores.
CallsOf(threads) ==
  \/ \E p \in Process : ProcessStep(p)
  \/ \E t \in threads : CallClosed(t) \/ Begins(t) \/ CallStep(t)

CallsSpec == CallsInit /\ [][CallsOf(Thread)]_callVars
-----------------------------------------------------------------------------
AtomicNoCall == [kind |-> "none", keys |-> {}, value |-> NoValue]

\* The call a thread is in, as its process's callers see it.
PendingCall(t) ==
  CASE at[t] = "idle" -> AtomicNoCall
    [] at[t] = "reading" -> [AtomicNoCall EXCEPT !.kind = "read"]
    [] OTHER -> [kind |-> "write", keys |-> op[t].keys, value |-> op[t].value]

Atomic == INSTANCE AtomicStore WITH
  Client <- Thread, rows <- disk, pending <- [t \in Thread |-> PendingCall(t)]

\* With one thread per process the store is atomic: a call that returned true
\* wrote all its keys, one that returned false wrote none, and what keys()
\* lists was in the file at one moment, whatever fails, is refused a lock or
\* is killed between the statements of a call.
AtomicStep == Atomic!Next \/ UNCHANGED Atomic!vars
=============================================================================
