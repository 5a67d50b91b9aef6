----------------------- MODULE PersistentStoreProofs -----------------------
(***************************************************************************)
(* The types, NoTransactionLeftOpen and BatchesWhole of PersistentStore    *)
(* for any number of processes, threads, keys and values; what StoreText   *)
(* keeps, for any strings without zero bytes; and StoreCalls implements    *)
(* AtomicStore, for any threads of which no two share a process.           *)
(***************************************************************************)
EXTENDS MCPersistentStore, SequenceTheorems, FiniteSetTheorems, TLAPS

Typing ==
  /\ TypeOK
  /\ todo \in [Thread -> SUBSET Key]
  /\ \A t \in Thread : at[t] \notin {"begin", "writing", "rollback"} => todo[t] = {}

\* An open transaction has a thread that will end it.
Held ==
  txn # NoProcess => \E u \in Thread : ProcessOf[u] = txn /\ at[u] \in InPutAll

\* Two batches on one connection are mixed.
SharedIsMixed ==
  \A t, u \in Thread :
    t # u /\ ProcessOf[t] = ProcessOf[u] /\ at[t] \in InPutAll /\ at[u] \in InPutAll
      => ProcessOf[t] \in mixed

\* A batch that has its connection for itself is in a transaction, which holds
\* the committed rows and what the batch has put so far.
BatchSoFar ==
  \A t \in Thread :
    /\ at[t] = "begin" => todo[t] = op[t].keys
    /\ at[t] = "writing" /\ ProcessOf[t] \notin mixed =>
         InTransaction(t) /\ work = Written(disk, op[t].keys \ todo[t], op[t].value)

Inv == Typing /\ Held /\ SharedIsMixed /\ BatchSoFar

USE ProcessOfAssumption, NoProcessAssumption, NoValueAssumption

\* The four shapes of a step: a thread goes on, begins, or a process does.
Starts(t) == Put(t) \/ PutBlob(t) \/ Remove(t) \/ Clear(t) \/ Get(t) \/ GetBlob(t) \/ Keys(t)
Batches(t) == PutAll(t) \/ LoadFromFile(t)

LEMMA NextShapes ==
  ASSUME [Next]_vars
  PROVE  \/ \E p \in Process : Open(p) \/ Close(p) \/ Crash(p)
         \/ \E t \in Thread : OperationStep(t) \/ Starts(t) \/ Batches(t)
         \/ UNCHANGED vars
  BY DEF Next, Starts, Batches

LEMMA StartsShape ==
  ASSUME Typing, NEW t \in Thread, Starts(t)
  PROVE  /\ at[t] = "idle" /\ ProcessOf[t] \in opened
         /\ \/ /\ at' = [at EXCEPT ![t] = "reading"] /\ op' = op
            \/ \E w \in Write : /\ at' = [at EXCEPT ![t] = "statement"]
                                /\ op' = [op EXCEPT ![t] = w]
         /\ UNCHANGED <<disk, opened, txn, work, todo, mixed>>
  BY DEF Starts, Put, PutBlob, Remove, Clear, Get, GetBlob, Keys, BeginStatement,
         BeginRead, Goto, Write, Typing, TypeOK

\* What NoteMixing leaves for the other batches of the connection.
LEMMA MixingOfOthers ==
  ASSUME Typing, NEW t \in Thread, NoteMixing(t), NEW u \in Thread, u # t,
         at[u] \in InPutAll, ProcessOf[u] \notin mixed'
  PROVE  ProcessOf[u] # ProcessOf[t] /\ ProcessOf[u] \notin mixed
<1>1. ProcessOf[u] # ProcessOf[t]
  <2>. SUFFICES ASSUME ProcessOf[u] = ProcessOf[t] PROVE FALSE
    OBVIOUS
  <2>1. u \in Sharers(t)
    BY DEF Sharers
  <2>. QED BY <2>1 DEF NoteMixing
<1>2. ProcessOf[u] \notin mixed
  BY <1>1 DEF NoteMixing
<1>. QED BY <1>1, <1>2

LEMMA MixingOfOwn ==
  ASSUME Typing, NEW t \in Thread, NoteMixing(t), at'[t] \in InPutAll,
         ProcessOf[t] \notin mixed'
  PROVE  Sharers(t) = {} /\ ProcessOf[t] \notin mixed
  BY DEF NoteMixing

LEMMA InitInv == Init => Inv
  BY DEF Init, Inv, Typing, TypeOK, Rows, NoRows, NoWrite, Write, Held, SharedIsMixed,
         BatchSoFar, InPutAll

LEMMA MixedTyped ==
  ASSUME Typing, NEW t \in Thread, NoteMixing(t)
  PROVE  mixed' \subseteq Process
  BY DEF Typing, TypeOK, NoteMixing

LEMMA WrittenTyped ==
  ASSUME NEW old \in Rows, NEW ks \in SUBSET Key, NEW v \in Value \cup {NoValue}
  PROVE  Written(old, ks, v) \in Rows
  BY DEF Written, Rows

LEMMA TypingStep == Inv /\ [Next]_vars => Typing'
<1>. SUFFICES ASSUME Inv, [Next]_vars PROVE Typing'
  OBVIOUS
<1>. USE DEF Typing, TypeOK, InPutAll
<1>1. ASSUME NEW p \in Process, Open(p) PROVE Typing'
  BY <1>1 DEF Inv, Open
<1>2. ASSUME NEW p \in Process, Close(p) PROVE Typing'
  <2>1. txn # p
    BY <1>2 DEF Inv, Held, Close
  <2>. QED BY <1>2, <2>1 DEF Inv, Close
<1>3. ASSUME NEW p \in Process, Crash(p) PROVE Typing'
  BY <1>3 DEF Inv, Crash, EndTransaction, NoRows, NoWrite, Rows, Write
<1>4. ASSUME NEW t \in Thread, Starts(t) PROVE Typing'
  BY <1>4, StartsShape DEF Inv
<1>5. ASSUME NEW t \in Thread, Batches(t) PROVE Typing'
  BY <1>5 DEF Inv, Batches, LoadFromFile, PutAll, Goto, Write
<1>6. ASSUME NEW t \in Thread, OperationStep(t) PROVE Typing'
  <2>. USE DEF Inv, Goto, Returns, EndTransaction, MayRollBack
  <2>. NoRows \in Rows /\ NoWrite \in Write
    BY DEF NoRows, Rows, NoWrite, Write
  <2>1. /\ op[t].keys \in SUBSET Key /\ op[t].value \in Value \cup {NoValue}
        /\ \A ks \in SUBSET Key : /\ Written(work, ks, op[t].value) \in Rows
                                  /\ Written(disk, ks, op[t].value) \in Rows
    <3>1. op[t] \in Write
      OBVIOUS
    <3>2. op[t].keys \in SUBSET Key /\ op[t].value \in Value \cup {NoValue}
      BY <3>1 DEF Write
    <3>. QED BY <3>2, WrittenTyped
  <2>2. CASE StatementSucceeds(t)
    <3>1. disk' \in Rows /\ work' \in Rows
      BY <2>1, <2>2 DEF StatementSucceeds, Execute
    <3>. QED BY <2>2, <3>1, MixedTyped DEF StatementSucceeds
  <2>3. CASE StatementFails(t)
    BY <2>3, MixedTyped DEF StatementFails
  <2>4. CASE BeginTransaction(t)
    BY <2>4, MixedTyped DEF BeginTransaction
  <2>5. CASE BeginFails(t) \/ EndRead(t)
    <3>1. Returns(t) /\ UNCHANGED <<disk, opened, txn, work, mixed>>
      BY <2>5 DEF BeginFails, EndRead
    <3>. QED BY <3>1
  <2>6. CASE PutNext(t)
    <3>1. PICK k \in todo[t] : Execute(t, {k}) /\ todo' = [todo EXCEPT ![t] = @ \ {k}]
      BY <2>6 DEF PutNext
    <3>2. {k} \in SUBSET Key
      BY <3>1
    <3>3. disk' \in Rows /\ work' \in Rows
      BY <2>1, <3>1, <3>2 DEF Execute
    <3>. QED BY <2>6, <3>1, <3>3, MixedTyped DEF PutNext
  <2>7. CASE PutFails(t) \/ CommitFails(t)
    BY <2>7, MixedTyped DEF PutFails, CommitFails
  <2>8. CASE Commit(t)
    BY <2>8, MixedTyped DEF Commit
  <2>9. CASE RollBack(t)
    BY <2>9, MixedTyped DEF RollBack
  <2>. QED BY <1>6, <2>2, <2>3, <2>4, <2>5, <2>6, <2>7, <2>8, <2>9 DEF OperationStep
<1>7. CASE UNCHANGED vars
  BY <1>7 DEF Inv, vars
<1>. QED BY <1>1, <1>2, <1>3, <1>4, <1>5, <1>6, <1>7, NextShapes

LEMMA HeldStep == Inv /\ [Next]_vars => Held'
<1>. SUFFICES ASSUME Inv, [Next]_vars PROVE Held'
  OBVIOUS
<1>. USE DEF Inv, Typing, TypeOK, Held, InPutAll
<1>1. ASSUME NEW p \in Process, Open(p) \/ Close(p) PROVE Held'
  BY <1>1 DEF Open, Close
<1>2. ASSUME NEW p \in Process, Crash(p) PROVE Held'
  BY <1>2 DEF Crash, EndTransaction
<1>3. ASSUME NEW t \in Thread, Starts(t) PROVE Held'
  BY <1>3, StartsShape
<1>4. ASSUME NEW t \in Thread, Batches(t) PROVE Held'
  BY <1>4 DEF Batches, LoadFromFile, PutAll, Goto
<1>5. ASSUME NEW t \in Thread, OperationStep(t) PROVE Held'
  <2>. USE DEF Goto, Returns, EndTransaction, MayRollBack
  <2>1. CASE StatementSucceeds(t) \/ StatementFails(t)
    BY <2>1 DEF StatementSucceeds, StatementFails
  <2>2. CASE BeginTransaction(t)
    BY <2>2 DEF BeginTransaction
  <2>3. CASE BeginFails(t) \/ EndRead(t)
    BY <2>3 DEF BeginFails, EndRead
  <2>4. CASE PutNext(t)
    BY <2>4 DEF PutNext
  <2>5. CASE PutFails(t) \/ CommitFails(t)
    BY <2>5 DEF PutFails, CommitFails
  <2>6. CASE Commit(t)
    BY <2>6 DEF Commit
  \* Another process's transaction has a thread of that process.
  <2>7. CASE RollBack(t)
    BY <2>7 DEF RollBack, InTransaction
  <2>. QED BY <1>5, <2>1, <2>2, <2>3, <2>4, <2>5, <2>6, <2>7 DEF OperationStep
<1>6. CASE UNCHANGED vars
  BY <1>6 DEF vars
<1>. QED BY <1>1, <1>2, <1>3, <1>4, <1>5, <1>6, NextShapes

\* A thread's step leaves the other threads where they are.
LEMMA OthersStay ==
  ASSUME Typing, NEW t \in Thread, OperationStep(t)
  PROVE  /\ \A u \in Thread \ {t} :
              at'[u] = at[u] /\ op'[u] = op[u] /\ todo'[u] = todo[u]
         /\ at'[t] \in InPutAll =>
              at[t] \in InPutAll \/ BeginTransaction(t)
  BY DEF OperationStep, StatementSucceeds, StatementFails, BeginTransaction, BeginFails,
         PutNext, PutFails, Commit, CommitFails, RollBack, EndRead, Returns, Goto,
         Typing, TypeOK, InPutAll

LEMMA Mixes ==
  ASSUME Typing, NEW t \in Thread, OperationStep(t)
  PROVE  NoteMixing(t) \/ (mixed' = mixed /\ at'[t] \notin InPutAll)
  BY DEF OperationStep, StatementSucceeds, StatementFails, BeginTransaction, BeginFails,
         PutNext, PutFails, Commit, CommitFails, RollBack, EndRead, Returns, Goto,
         Typing, TypeOK, InPutAll

LEMMA SharedStep == Inv /\ [Next]_vars => SharedIsMixed'
<1>. SUFFICES ASSUME Inv, [Next]_vars PROVE SharedIsMixed'
  OBVIOUS
<1>. USE DEF Inv, Typing, TypeOK, SharedIsMixed
<1>1. ASSUME NEW p \in Process, Open(p) \/ Close(p) PROVE SharedIsMixed'
  BY <1>1 DEF Open, Close
<1>2. ASSUME NEW p \in Process, Crash(p) PROVE SharedIsMixed'
  BY <1>2 DEF Crash, InPutAll
<1>3. ASSUME NEW t \in Thread, Starts(t) PROVE SharedIsMixed'
  BY <1>3, StartsShape DEF InPutAll
<1>4. ASSUME NEW t \in Thread, Batches(t) PROVE SharedIsMixed'
  BY <1>4 DEF Batches, LoadFromFile, PutAll, Goto, InPutAll
<1>5. ASSUME NEW t \in Thread, OperationStep(t) PROVE SharedIsMixed'
  <2>. SUFFICES ASSUME NEW u \in Thread, NEW w \in Thread, u # w,
                       ProcessOf[u] = ProcessOf[w],
                       at'[u] \in InPutAll, at'[w] \in InPutAll,
                       ProcessOf[u] \notin mixed'
                PROVE  FALSE
    BY DEF SharedIsMixed
  <2>1. CASE u # t /\ w # t
    <3>1. at[u] \in InPutAll /\ at[w] \in InPutAll
      BY <1>5, <2>1, OthersStay
    <3>2. ProcessOf[u] \in mixed
      BY <3>1
    <3>. QED BY <1>5, <2>1, <3>1, <3>2, MixingOfOthers, Mixes
  <2>2. ASSUME NEW v \in Thread, v # t, ProcessOf[v] = ProcessOf[t],
               at'[v] \in InPutAll, at'[t] \in InPutAll, ProcessOf[t] \notin mixed'
        PROVE  FALSE
    <3>1. at[v] \in InPutAll
      BY <1>5, <2>2, OthersStay
    <3>2. NoteMixing(t)
      BY <1>5, <2>2, Mixes
    <3>. QED BY <2>2, <3>1, <3>2, MixingOfOthers
  <2>. QED BY <2>1, <2>2
<1>6. CASE UNCHANGED vars
  BY <1>6 DEF vars
<1>. QED BY <1>1, <1>2, <1>3, <1>4, <1>5, <1>6, NextShapes

\* A thread of another process can neither commit nor end a transaction.
LEMMA OthersCannotWrite ==
  ASSUME Inv, NEW t \in Thread, OperationStep(t), NEW u \in Thread,
         InTransaction(u), ProcessOf[t] # ProcessOf[u]
  PROVE  UNCHANGED <<disk, txn, work>>
<1>1. ~InTransaction(t) /\ ~CanCommit(t) /\ txn # NoProcess
  BY DEF InTransaction, CanCommit
<1>2. ~BeginTransaction(t) /\ ~Commit(t) /\ ~StatementSucceeds(t) /\ ~PutNext(t)
  BY <1>1 DEF BeginTransaction, Commit, StatementSucceeds, PutNext, Execute
<1>3. StatementFails(t) \/ PutFails(t) \/ CommitFails(t) => UNCHANGED <<disk, txn, work>>
  BY <1>1 DEF StatementFails, PutFails, CommitFails, MayRollBack
<1>4. RollBack(t) \/ BeginFails(t) \/ EndRead(t) => UNCHANGED <<disk, txn, work>>
  BY <1>1 DEF RollBack, BeginFails, EndRead
<1>. QED BY <1>2, <1>3, <1>4 DEF OperationStep

\* The step of a batch that has its connection for itself, and stays in it.
LEMMA OwnBatchStep ==
  ASSUME Inv, NEW t \in Thread, OperationStep(t),
         at'[t] = "writing", ProcessOf[t] \notin mixed'
  PROVE  InTransaction(t)' /\ work' = Written(disk', op'[t].keys \ todo'[t], op'[t].value)
<1>. USE DEF Inv, Typing, TypeOK
<1>1. BeginTransaction(t) \/ PutNext(t)
  BY DEF OperationStep, StatementSucceeds, StatementFails, BeginFails, PutFails, Commit,
         CommitFails, RollBack, EndRead, Returns, Goto
<1>2. CASE BeginTransaction(t)
  <2>1. todo'[t] = op'[t].keys /\ work' = disk' /\ InTransaction(t)'
    BY <1>2 DEF BeginTransaction, BatchSoFar, InTransaction
  <2>2. Written(disk', {}, op'[t].value) = disk'
    BY <1>2 DEF BeginTransaction, Written, Rows
  <2>. QED BY <2>1, <2>2
<1>3. CASE PutNext(t)
  <2>1. at[t] = "writing" /\ NoteMixing(t) /\ op' = op /\ txn' = txn
    BY <1>3 DEF PutNext
  <2>2. ProcessOf[t] \notin mixed
    BY <2>1, MixingOfOwn DEF InPutAll
  <2>3. InTransaction(t) /\ work = Written(disk, op[t].keys \ todo[t], op[t].value)
    BY <2>1, <2>2 DEF BatchSoFar
  <2>4. PICK k \in todo[t] : Execute(t, {k}) /\ todo' = [todo EXCEPT ![t] = @ \ {k}]
    BY <1>3 DEF PutNext
  <2>5. disk' = disk /\ work' = Written(work, {k}, op[t].value)
    BY <2>3, <2>4 DEF Execute
  <2>6. op[t].keys \ todo'[t] = (op[t].keys \ todo[t]) \cup {k}
    BY <2>4
  <2>7. work' = Written(disk, op[t].keys \ todo'[t], op[t].value)
    BY <2>3, <2>5, <2>6 DEF Written
  <2>. QED BY <2>1, <2>3, <2>5, <2>7 DEF InTransaction
<1>. QED BY <1>1, <1>2, <1>3

LEMMA BatchStep == Inv /\ [Next]_vars => BatchSoFar'
<1>. SUFFICES ASSUME Inv, [Next]_vars PROVE BatchSoFar'
  OBVIOUS
<1>. USE DEF Inv, Typing, TypeOK
<1>1. ASSUME NEW p \in Process, Open(p) \/ Close(p) PROVE BatchSoFar'
  BY <1>1 DEF Open, Close, BatchSoFar, InTransaction
<1>2. ASSUME NEW p \in Process, Crash(p) PROVE BatchSoFar'
  BY <1>2 DEF Crash, BatchSoFar, InTransaction, EndTransaction
<1>3. ASSUME NEW t \in Thread, Starts(t) PROVE BatchSoFar'
  BY <1>3, StartsShape DEF BatchSoFar, InTransaction
<1>4. ASSUME NEW t \in Thread, Batches(t) PROVE BatchSoFar'
  <2>1. PICK ks \in SUBSET Key, v \in Value :
          /\ op' = [op EXCEPT ![t] = [keys |-> ks, value |-> v]]
          /\ todo' = [todo EXCEPT ![t] = ks]
    BY <1>4 DEF Batches, LoadFromFile, PutAll
  <2>2. at' = [at EXCEPT ![t] = "begin"] /\ UNCHANGED <<disk, txn, work, mixed>>
    BY <1>4 DEF Batches, LoadFromFile, PutAll, Goto
  <2>3. at'[t] = "begin" /\ op'[t].keys = ks /\ todo'[t] = ks
    BY <2>1, <2>2
  <2>4. \A u \in Thread \ {t} : at'[u] = at[u] /\ op'[u] = op[u] /\ todo'[u] = todo[u]
    BY <2>1, <2>2
  <2>5. ASSUME NEW u \in Thread
        PROVE  /\ at'[u] = "begin" => todo'[u] = op'[u].keys
               /\ at'[u] = "writing" /\ ProcessOf[u] \notin mixed' =>
                    /\ InTransaction(u)'
                    /\ work' = Written(disk', op'[u].keys \ todo'[u], op'[u].value)
    <3>1. CASE u = t
      BY <2>3, <3>1
    <3>2. CASE u # t
      BY <2>2, <2>4, <3>2 DEF BatchSoFar, InTransaction
    <3>. QED BY <3>1, <3>2
  <2>. QED BY <2>5 DEF BatchSoFar
<1>5. ASSUME NEW t \in Thread, OperationStep(t) PROVE BatchSoFar'
  <2>. SUFFICES ASSUME NEW u \in Thread
                PROVE  /\ at'[u] = "begin" => todo'[u] = op'[u].keys
                       /\ at'[u] = "writing" /\ ProcessOf[u] \notin mixed' =>
                            /\ InTransaction(u)'
                            /\ work' = Written(disk', op'[u].keys \ todo'[u], op'[u].value)
    BY DEF BatchSoFar
  <2>1. at'[t] # "begin"
    BY <1>5 DEF OperationStep, StatementSucceeds, StatementFails, BeginTransaction, BeginFails,
         PutNext, PutFails, Commit, CommitFails, RollBack, EndRead, Returns, Goto
  <2>2. CASE u = t
    BY <1>5, <2>1, <2>2, OwnBatchStep
  <2>3. CASE u # t
    <3>1. at'[u] = at[u] /\ op'[u] = op[u] /\ todo'[u] = todo[u]
      BY <1>5, <2>3, OthersStay
    <3>2. ASSUME at'[u] = "writing", ProcessOf[u] \notin mixed'
          PROVE  /\ InTransaction(u)'
                 /\ work' = Written(disk', op'[u].keys \ todo'[u], op'[u].value)
      <4>1. ProcessOf[u] \notin mixed
        BY <1>5, <2>3, <3>1, <3>2, Mixes, MixingOfOthers DEF InPutAll
      <4>2. InTransaction(u) /\ work = Written(disk, op[u].keys \ todo[u], op[u].value)
        BY <3>1, <3>2, <4>1 DEF BatchSoFar
      <4>3. UNCHANGED <<disk, txn, work>>
        <5>1. CASE NoteMixing(t)
          <6>1. ProcessOf[u] # ProcessOf[t]
            BY <2>3, <3>1, <3>2, <5>1, MixingOfOthers DEF InPutAll
          <6>. QED BY <1>5, <4>2, <6>1, OthersCannotWrite
        <5>2. CASE ~NoteMixing(t)
          BY <1>5, <5>2 DEF OperationStep, StatementSucceeds, StatementFails, BeginTransaction,
             BeginFails, PutNext, PutFails, Commit, CommitFails, RollBack, EndRead
        <5>. QED BY <5>1, <5>2
      <4>. QED BY <3>1, <4>2, <4>3 DEF InTransaction
    <3>. QED BY <3>1, <3>2 DEF BatchSoFar
  <2>. QED BY <2>2, <2>3
<1>6. CASE UNCHANGED vars
  BY <1>6 DEF vars, BatchSoFar, InTransaction
<1>. QED BY <1>1, <1>2, <1>3, <1>4, <1>5, <1>6, NextShapes

LEMMA InvHolds == Spec => []Inv
<1>1. Inv /\ [Next]_vars => Inv'
  BY TypingStep, HeldStep, SharedStep, BatchStep DEF Inv
<1>. QED BY <1>1, InitInv, PTL DEF Spec

\* For any processes, threads, keys and values: the types, and no connection
\* in a transaction once its batches have returned.
THEOREM StoreSafety == Spec => [](TypeOK /\ NoTransactionLeftOpen)
<1>1. Inv => TypeOK /\ NoTransactionLeftOpen
  BY DEF Inv, Typing, TypeOK, Held, NoTransactionLeftOpen, InTransaction
<1>. QED BY <1>1, InvHolds, PTL

\* As long as no batch shares its connection, the file moves by whole batches.
THEOREM FileMovesByBatches == Spec => BatchesWhole
<1>. DEFINE Step == (mixed = {} /\ mixed' = {} /\ disk' # disk) =>
                      \E t \in Thread : disk' = Written(disk, op[t].keys, op[t].value)
<1>1. Inv /\ [Next]_vars => Step
  <2>. SUFFICES ASSUME Inv, [Next]_vars, mixed = {}, disk' # disk
                PROVE  \E t \in Thread : disk' = Written(disk, op[t].keys, op[t].value)
    OBVIOUS
  <2>1. PICK t \in Thread : OperationStep(t)
    <3>1. ASSUME NEW t \in Thread, Starts(t) PROVE FALSE
      BY <3>1, StartsShape DEF Inv
    <3>. QED BY <3>1, NextShapes
         DEF Open, Close, Crash, Batches, LoadFromFile, PutAll, vars
  <2>2. StatementSucceeds(t) \/ PutNext(t) \/ Commit(t)
    BY <2>1 DEF OperationStep, StatementFails, BeginTransaction, BeginFails, PutFails,
       CommitFails, RollBack, EndRead
  <2>3. CASE StatementSucceeds(t)
    BY <2>3 DEF StatementSucceeds, Execute
  <2>4. CASE PutNext(t)
    BY <2>4 DEF PutNext, Execute, Inv, BatchSoFar
  <2>5. CASE Commit(t)
    <3>1. work = Written(disk, op[t].keys \ {}, op[t].value)
      BY <2>5 DEF Commit, Inv, BatchSoFar
    <3>. QED BY <2>5, <3>1 DEF Commit
  <2>. QED BY <2>2, <2>3, <2>4, <2>5
<1>2. Spec => [][Step]_vars
  BY <1>1, InvHolds, PTL DEF Spec
<1>. QED BY <1>2 DEF BatchesWhole
-----------------------------------------------------------------------------
(* The bytes of keys and values: TextsKept of StoreText for all keys and   *)
(* texts without zero bytes, all blobs, batches of any size and any limit  *)
(* on lengths.                                                             *)

\* What the callers of this repository pass: bytes, no zero in a key or text.
PlainText ==
  /\ Name \cup Text \cup Blob \subseteq Seq(Nat)
  /\ \A s \in Name \cup Text : Bytes!NulFree(s)

\* A C string is the whole of a string that has no zero byte.
LEMMA CStringWhole ==
  ASSUME NEW s \in Seq(Nat), Bytes!NulFree(s)
  PROVE  Bytes!CString(s) = s
<1>. DEFINE End(n) == /\ \A i \in 1 .. n : s[i] # 0
                      /\ n < Len(s) => s[n + 1] = 0
            m == CHOOSE n \in 0 .. Len(s) : End(n)
<1>1. Len(s) \in 0 .. Len(s) /\ End(Len(s))
  BY DEF Bytes!NulFree
<1>2. m \in 0 .. Len(s) /\ End(m)
  BY <1>1
<1>3. m = Len(s)
  <2>1. CASE m < Len(s)
    <3>1. m + 1 \in DOMAIN s
      BY <1>2, <2>1
    <3>. QED BY <3>1, <1>2, <2>1 DEF Bytes!NulFree
  <2>. QED BY <1>2, <2>1
<1>4. Bytes!CString(s) = SubSeq(s, 1, m)
  BY DEF Bytes!CString
<1>5. SubSeq(s, 1, Len(s)) = s
  OBVIOUS
<1>. QED BY <1>3, <1>4, <1>5

\* The rows are what was written, key for key and byte for byte.
RowsAreWritten == rows = written

LEMMA RowsStep ==
  ASSUME PlainText, RowsAreWritten, [Bytes!Next]_(Bytes!vars)
  PROVE  RowsAreWritten'
<1>1. \A s \in Name \cup Text : Bytes!CString(s) = s
  BY CStringWhole DEF PlainText
<1>2. ASSUME NEW k \in Name, NEW v \in Text, Bytes!Put(k, v)
      PROVE  RowsAreWritten'
  BY <1>1, <1>2 DEF Bytes!Put, RowsAreWritten
<1>3. ASSUME NEW k \in Name, NEW b \in Blob, Bytes!PutBlob(k, b)
      PROVE  RowsAreWritten'
  BY <1>3 DEF Bytes!PutBlob, RowsAreWritten
<1>4. ASSUME NEW pairs \in [1 .. BatchSize -> Name \X Text], Bytes!PutAll(pairs)
      PROVE  RowsAreWritten'
  <2>1. [i \in DOMAIN pairs |-> <<Bytes!CString(pairs[i][1]), Bytes!CString(pairs[i][2])>>] = pairs
    BY <1>1
  <2>. QED BY <1>4, <2>1 DEF Bytes!PutAll, RowsAreWritten
<1>5. ASSUME NEW k \in Name, Bytes!Remove(k)
      PROVE  RowsAreWritten'
  BY <1>1, <1>5 DEF Bytes!Remove, RowsAreWritten
<1>6. CASE Bytes!Clear
  BY <1>6 DEF Bytes!Clear, RowsAreWritten
<1>7. CASE UNCHANGED Bytes!vars
  BY <1>7 DEF Bytes!vars, RowsAreWritten
<1>. QED BY <1>2, <1>3, <1>4, <1>5, <1>6, <1>7 DEF Bytes!Next
-----------------------------------------------------------------------------
\* A set of numbers has a least.
LEMMA LeastNumber ==
  ASSUME NEW S \in SUBSET Nat, S # {}
  PROVE  \E n \in S : \A m \in S : n <= m
<1>1. PICK R : R = OpToRel(<, Nat)
  OBVIOUS
<1>2. IsWellFoundedOn(R, Nat)
  BY <1>1, NatLessThanWellFounded
<1>3. PICK n \in S : \A m \in S : <<m, n>> \notin R
  BY <1>2, WFMin
<1>4. \A m \in Nat : m < n => <<m, n>> \in R
  BY <1>1 DEF OpToRel
<1>5. \A m \in S : ~(m < n)
  BY <1>3, <1>4
<1>. QED BY <1>5

\* Of some places in a sequence one is the last.
LEMMA LastOfPlaces ==
  ASSUME NEW n \in Nat, NEW S \in SUBSET (1 .. n), S # {}
  PROVE  \E i \in S : \A j \in S : j <= i
<1>1. PICK D : D = {n - i : i \in S}
  OBVIOUS
<1>2. \A i \in S : n - i \in Nat /\ i \in Nat
  OBVIOUS
<1>3. D \subseteq Nat /\ D # {}
  BY <1>1, <1>2
<1>4. PICK m \in D : \A k \in D : m <= k
  BY <1>3, LeastNumber
<1>5. PICK i \in S : m = n - i
  BY <1>1, <1>4
<1>6. ASSUME NEW j \in S PROVE j <= i
  <2>1. n - i <= n - j
    BY <1>1, <1>4, <1>5
  <2>. QED BY <1>2, <2>1
<1>. QED BY <1>6

\* Two strings, the first places at which they differ and all before are equal.
LEMMA FirstDifference ==
  ASSUME NEW s \in Seq(Nat), NEW t \in Seq(Nat)
  PROVE  \E n \in Nat : /\ n <= Len(s) /\ n <= Len(t)
                        /\ \A i \in 1 .. n : s[i] = t[i]
                        /\ n < Len(s) /\ n < Len(t) => s[n + 1] # t[n + 1]
<1>1. PICK D : D = {n \in Nat : n = Len(s) \/ n = Len(t) \/ (n < Len(s) /\ n < Len(t) /\ s[n + 1] # t[n + 1])}
  OBVIOUS
<1>2. Len(s) \in D /\ Len(t) \in D /\ D \subseteq Nat
  BY <1>1, LenProperties
<1>3. PICK n \in D : \A m \in D : n <= m
  BY <1>2, LeastNumber
<1>4. n \in Nat /\ n <= Len(s) /\ n <= Len(t)
  BY <1>2, <1>3
<1>5. ASSUME NEW i \in 1 .. n PROVE s[i] = t[i]
  <2>1. PICK m \in Nat : m + 1 = i
    BY <1>4
  <2>2. m \notin D
    BY <1>2, <1>3, <1>4, <2>1
  <2>3. m < Len(s) /\ m < Len(t)
    BY <1>4, <2>1
  <2>. QED BY <1>1, <2>1, <2>2, <2>3
<1>6. n < Len(s) /\ n < Len(t) => s[n + 1] # t[n + 1]
  BY <1>1, <1>3, <1>4
<1>. QED BY <1>4, <1>5, <1>6

\* SQLite's collation orders the strings of bytes strictly and totally.
LEMMA BeforeStrict ==
  ASSUME NEW s \in Seq(Nat)
  PROVE  ~Bytes!Before(s, s)
<1>. SUFFICES ASSUME Bytes!Before(s, s) PROVE FALSE
  OBVIOUS
<1>1. PICK n \in 0 .. Len(s) : n < Len(s) /\ (n < Len(s) => s[n + 1] < s[n + 1])
  BY DEF Bytes!Before
<1>2. s[n + 1] \in Nat
  BY <1>1, LenProperties
<1>. QED BY <1>1, <1>2

LEMMA BeforeTotal ==
  ASSUME NEW s \in Seq(Nat), NEW t \in Seq(Nat), s # t
  PROVE  Bytes!Before(s, t) \/ Bytes!Before(t, s)
<1>1. Len(s) \in Nat /\ Len(t) \in Nat
  BY LenProperties
<1>2. PICK n \in Nat : /\ n <= Len(s) /\ n <= Len(t)
                       /\ \A i \in 1 .. n : s[i] = t[i]
                       /\ n < Len(s) /\ n < Len(t) => s[n + 1] # t[n + 1]
  BY FirstDifference
<1>3. CASE n < Len(s) /\ n < Len(t)
  <2>1. s[n + 1] \in Nat /\ t[n + 1] \in Nat /\ s[n + 1] # t[n + 1]
    BY <1>1, <1>2, <1>3
  <2>2. s[n + 1] < t[n + 1] \/ t[n + 1] < s[n + 1]
    BY <2>1
  <2>3. n \in 0 .. Len(s) /\ n \in 0 .. Len(t) /\ \A i \in 1 .. n : t[i] = s[i]
    BY <1>1, <1>2
  <2>. QED BY <1>2, <1>3, <2>2, <2>3 DEF Bytes!Before
<1>4. CASE n = Len(s) /\ n < Len(t)
  BY <1>1, <1>2, <1>4 DEF Bytes!Before
<1>5. CASE n < Len(s) /\ n = Len(t)
  <2>1. \A i \in 1 .. n : t[i] = s[i]
    BY <1>2
  <2>. QED BY <1>1, <1>2, <1>5, <2>1 DEF Bytes!Before
<1>6. CASE n = Len(s) /\ n = Len(t)
  <2>1. s = t
    BY <1>1, <1>2, <1>6, SeqEqual
  <2>. QED BY <2>1
<1>. QED BY <1>1, <1>2, <1>3, <1>4, <1>5, <1>6

LEMMA BeforeTransitive ==
  ASSUME NEW s \in Seq(Nat), NEW t \in Seq(Nat), NEW u \in Seq(Nat),
         Bytes!Before(s, t), Bytes!Before(t, u)
  PROVE  Bytes!Before(s, u)
<1>1. Len(s) \in Nat /\ Len(t) \in Nat /\ Len(u) \in Nat
  BY LenProperties
<1>2. PICK n \in 0 .. Len(s) : /\ n < Len(t) /\ \A i \in 1 .. n : s[i] = t[i]
                               /\ n < Len(s) => s[n + 1] < t[n + 1]
  BY DEF Bytes!Before
<1>3. PICK m \in 0 .. Len(t) : /\ m < Len(u) /\ \A i \in 1 .. m : t[i] = u[i]
                               /\ m < Len(t) => t[m + 1] < u[m + 1]
  BY DEF Bytes!Before
<1>4. n \in Nat /\ m \in Nat
  BY <1>1
<1>5. CASE n <= m
  <2>1. \A i \in 1 .. n : s[i] = u[i]
    BY <1>2, <1>3, <1>4, <1>5
  <2>2. ASSUME n < Len(s) PROVE s[n + 1] < u[n + 1]
    <3>1. s[n + 1] < t[n + 1] /\ s[n + 1] \in Nat /\ t[n + 1] \in Nat
      BY <1>1, <1>2, <1>4, <2>2
    <3>2. u[n + 1] \in Nat
      BY <1>1, <1>3, <1>4, <1>5
    <3>3. CASE n = m
      BY <1>2, <1>3, <3>1, <3>2, <3>3
    <3>4. CASE n < m
      <4>1. n + 1 \in 1 .. m
        BY <1>4, <3>4
      <4>. QED BY <1>3, <3>1, <4>1
    <3>. QED BY <1>4, <1>5, <3>3, <3>4
  <2>3. n < Len(u)
    BY <1>1, <1>3, <1>4, <1>5
  <2>. QED BY <2>1, <2>2, <2>3 DEF Bytes!Before
<1>6. CASE m < n
  <2>1. m \in 0 .. Len(s) /\ m < Len(s) /\ \A i \in 1 .. m : s[i] = u[i]
    BY <1>1, <1>2, <1>3, <1>4, <1>6
  <2>2. m + 1 \in 1 .. n
    BY <1>4, <1>6
  <2>3. s[m + 1] = t[m + 1] /\ t[m + 1] < u[m + 1]
    BY <1>1, <1>2, <1>3, <1>4, <1>6, <2>2
  <2>. QED BY <1>3, <2>1, <2>3 DEF Bytes!Before
<1>. QED BY <1>4, <1>5, <1>6

Strings(E) == IsFiniteSet(E) /\ E \subseteq Seq(Nat)
Greatest(x, E) == x \in E /\ \A y \in E : y # x => Bytes!Before(y, x)

\* Of finitely many strings one is the greatest.
LEMMA GreatestString ==
  ASSUME NEW D, Strings(D), D # {}
  PROVE  \E x : Greatest(x, D)
<1>. SUFFICES ASSUME \A x : ~Greatest(x, D) PROVE FALSE
  OBVIOUS
<1>1. PICK N : N = {n \in Nat : \E E \in SUBSET D : /\ E # {} /\ Cardinality(E) = n
                                                    /\ \A x : ~Greatest(x, E)}
  OBVIOUS
<1>2. \A E \in SUBSET D : Strings(E) /\ Cardinality(E) \in Nat
  BY FS_Subset, FS_CardinalityType DEF Strings
<1>3. N \subseteq Nat /\ Cardinality(D) \in N
  BY <1>1, <1>2
<1>4. PICK n \in N : \A m \in N : n <= m
  BY <1>3, LeastNumber
<1>5. PICK E \in SUBSET D : E # {} /\ Cardinality(E) = n /\ \A x : ~Greatest(x, E)
  BY <1>1, <1>4
<1>6. PICK x : x \in E
  BY <1>5
<1>7. PICK F : F = E \ {x}
  OBVIOUS
<1>8. F \in SUBSET D /\ Cardinality(F) = n - 1 /\ Cardinality(F) \in Nat
  BY <1>2, <1>5, <1>6, <1>7, FS_RemoveElement DEF Strings
<1>9. F # {}
  BY <1>5, <1>6, <1>7 DEF Greatest
<1>10. Cardinality(F) \notin N
  BY <1>3, <1>4, <1>8
<1>11. PICK y : Greatest(y, F)
  BY <1>1, <1>8, <1>9, <1>10
<1>12. x \in Seq(Nat) /\ y \in Seq(Nat) /\ x # y /\ y \in E /\ E \subseteq Seq(Nat)
  BY <1>2, <1>5, <1>6, <1>7, <1>11 DEF Greatest, Strings
<1>13. CASE Bytes!Before(x, y)
  <2>1. Greatest(y, E)
    BY <1>7, <1>11, <1>12, <1>13 DEF Greatest
  <2>. QED BY <1>5, <2>1
<1>14. CASE Bytes!Before(y, x)
  <2>1. ASSUME NEW z \in E, z # x PROVE Bytes!Before(z, x)
    <3>1. z \in F /\ z \in Seq(Nat)
      BY <1>7, <1>12, <2>1
    <3>2. z = y \/ Bytes!Before(z, y)
      BY <1>11, <3>1 DEF Greatest
    <3>. QED BY <1>12, <1>14, <3>1, <3>2, BeforeTransitive
  <2>2. Greatest(x, E)
    BY <1>6, <2>1 DEF Greatest
  <2>. QED BY <1>5, <2>2
<1>. QED BY <1>12, <1>13, <1>14, BeforeTotal

Lists(l, E) ==
  /\ l \in [1 .. Cardinality(E) -> E]
  /\ \A i, j \in 1 .. Cardinality(E) : i < j => Bytes!Before(l[i], l[j])

\* Finitely many strings can be listed in their order.
LEMMA ListingExists ==
  ASSUME NEW D, Strings(D)
  PROVE  \E l : Lists(l, D)
<1>. SUFFICES ASSUME \A l : ~Lists(l, D) PROVE FALSE
  OBVIOUS
<1>1. PICK N : N = {n \in Nat : \E E \in SUBSET D : Cardinality(E) = n /\ \A l : ~Lists(l, E)}
  OBVIOUS
<1>2. \A E \in SUBSET D : Strings(E) /\ Cardinality(E) \in Nat
  BY FS_Subset, FS_CardinalityType DEF Strings
<1>3. N \subseteq Nat /\ Cardinality(D) \in N
  BY <1>1, <1>2
<1>4. PICK n \in N : \A m \in N : n <= m
  BY <1>3, LeastNumber
<1>5. PICK E \in SUBSET D : Cardinality(E) = n /\ \A l : ~Lists(l, E)
  BY <1>1, <1>4
<1>6. E # {}
  <2>. SUFFICES ASSUME E = {} PROVE FALSE
    OBVIOUS
  <2>1. Cardinality(E) = 0
    BY FS_EmptySet
  <2>2. [i \in 1 .. 0 |-> {}] \in [1 .. 0 -> E]
    OBVIOUS
  <2>. QED BY <1>5, <2>1, <2>2 DEF Lists
<1>7. PICK x : Greatest(x, E)
  BY <1>2, <1>6, GreatestString
<1>8. PICK F : F = E \ {x}
  OBVIOUS
<1>9. F \in SUBSET D /\ Cardinality(F) = n - 1 /\ Cardinality(F) \in Nat /\ x \in E
  BY <1>2, <1>5, <1>7, <1>8, FS_RemoveElement DEF Strings, Greatest
<1>10. Cardinality(F) \notin N
  BY <1>3, <1>4, <1>9
<1>11. PICK l : Lists(l, F)
  BY <1>1, <1>9, <1>10
<1>12. PICK m \in Nat : m = Cardinality(F) /\ n = m + 1
  BY <1>3, <1>4, <1>9
<1>13. l \in [1 .. m -> F] /\ \A i, j \in 1 .. m : i < j => Bytes!Before(l[i], l[j])
  BY <1>11, <1>12 DEF Lists
<1>14. PICK k : k = [i \in 1 .. m + 1 |-> IF i = m + 1 THEN x ELSE l[i]]
  OBVIOUS
<1>15. k \in [1 .. m + 1 -> E] /\ k[m + 1] = x /\ \A i \in 1 .. m : k[i] = l[i] /\ k[i] \in F
  BY <1>8, <1>9, <1>13, <1>14
<1>16. ASSUME NEW i \in 1 .. m + 1, NEW j \in 1 .. m + 1, i < j PROVE Bytes!Before(k[i], k[j])
  <2>1. i \in 1 .. m
    BY <1>16
  <2>2. CASE j = m + 1
    BY <1>7, <1>8, <1>15, <2>1, <2>2 DEF Greatest
  <2>3. CASE j \in 1 .. m
    BY <1>13, <1>15, <1>16, <2>1, <2>3
  <2>. QED BY <2>2, <2>3
<1>17. Lists(k, E)
  BY <1>5, <1>12, <1>15, <1>16 DEF Lists
<1>. QED BY <1>5, <1>17

\* What is listed in order is listed once, and nothing is left out.
LEMMA ListingIsWhole ==
  ASSUME NEW D, Strings(D), NEW l, Lists(l, D)
  PROVE  {l[i] : i \in 1 .. Cardinality(D)} = D
<1>1. PICK n \in Nat : n = Cardinality(D)
  BY FS_CardinalityType DEF Strings
<1>2. l \in [1 .. n -> D] /\ \A i, j \in 1 .. n : i < j => Bytes!Before(l[i], l[j])
  BY <1>1 DEF Lists
<1>3. ASSUME NEW i \in 1 .. n, NEW j \in 1 .. n, l[i] = l[j] PROVE i = j
  <2>1. l[i] \in Seq(Nat)
    BY <1>2 DEF Strings
  <2>2. ~(i < j) /\ ~(j < i)
    BY <1>2, <1>3, <2>1, BeforeStrict
  <2>. QED BY <2>2
<1>4. l \in Injection(1 .. n, D)
  BY <1>2, <1>3 DEF Injection, IsInjective
<1>5. Cardinality(1 .. n) = n
  BY FS_Interval
<1>6. l \in Surjection(1 .. n, D)
  BY <1>1, <1>4, <1>5, FS_Injection DEF Strings
<1>7. \A d \in D : \E i \in 1 .. n : l[i] = d
  BY <1>6 DEF Surjection
<1>. QED BY <1>1, <1>2, <1>7

\* What callers have written: keys and values that they have, finitely many.
WrittenTypes ==
  /\ IsFiniteSet(DOMAIN written) /\ DOMAIN written \subseteq Name
  /\ \A k \in DOMAIN written : written[k] \in Blob \cup Text

Overrides(f, g, pairs) == g = Bytes!Override(f, pairs)

LEMMA OverrideTyped ==
  ASSUME NEW f, NEW g, NEW n \in Nat, NEW pairs \in [1 .. n -> Name \X (Blob \cup Text)],
         Overrides(f, g, pairs),
         IsFiniteSet(DOMAIN f), DOMAIN f \subseteq Name,
         \A k \in DOMAIN f : f[k] \in Blob \cup Text
  PROVE  /\ IsFiniteSet(DOMAIN g) /\ DOMAIN g \subseteq Name
         /\ \A k \in DOMAIN g : g[k] \in Blob \cup Text
<1>1. PICK N : N = {pairs[i][1] : i \in 1 .. n}
  OBVIOUS
<1>2. PICK h : h = [i \in 1 .. n |-> pairs[i][1]]
  OBVIOUS
<1>3. IsFiniteSet(N)
  <2>1. h \in Surjection(1 .. n, N)
    BY <1>1, <1>2 DEF Surjection
  <2>2. IsFiniteSet(1 .. n)
    BY FS_Interval
  <2>. QED BY <2>1, <2>2, FS_Surjection
<1>4. DOMAIN g = DOMAIN f \cup N
  BY <1>1 DEF Overrides, Bytes!Override
<1>5. N \subseteq Name
  BY <1>1
<1>6. IsFiniteSet(DOMAIN f \cup N)
  BY <1>3, FS_Union
<1>7. ASSUME NEW k \in DOMAIN g PROVE g[k] \in Blob \cup Text
  <2>. DEFINE P == {i \in DOMAIN pairs : pairs[i][1] = k}
  <2>1. P \in SUBSET (1 .. n) /\ P = {i \in 1 .. n : pairs[i][1] = k}
    OBVIOUS
  <2>2. g[k] = IF P = {} THEN f[k] ELSE pairs[CHOOSE i \in P : \A j \in P : j <= i][2]
    BY <1>7 DEF Overrides, Bytes!Override
  <2>. HIDE DEF P
  <2>3. CASE P = {}
    <3>1. k \in DOMAIN f
      BY <1>1, <1>4, <1>7, <2>1, <2>3
    <3>. QED BY <2>2, <2>3, <3>1
  <2>4. CASE P # {}
    <3>1. \E i \in P : \A j \in P : j <= i
      BY <2>1, <2>4, LastOfPlaces
    <3>2. PICK i \in P : g[k] = pairs[i][2]
      BY <2>2, <2>4, <3>1
    <3>. QED BY <2>1, <3>2
  <2>. QED BY <2>3, <2>4
<1>. QED BY <1>4, <1>5, <1>6, <1>7

LEMMA OneOverrides ==
  ASSUME WrittenTypes, NEW k \in Name, NEW v \in Blob \cup Text,
         written' = Bytes!Override(written, <<<<k, v>>>>)
  PROVE  WrittenTypes'
<1>1. PICK pairs, f, g : pairs = <<<<k, v>>>> /\ f = written /\ g = written'
  OBVIOUS
<1>2. pairs \in [1 .. 1 -> Name \X (Blob \cup Text)]
  BY <1>1
<1>3. Overrides(f, g, pairs)
  BY <1>1 DEF Overrides
<1>4. IsFiniteSet(DOMAIN f) /\ DOMAIN f \subseteq Name /\ \A x \in DOMAIN f : f[x] \in Blob \cup Text
  BY <1>1 DEF WrittenTypes
<1>. QED BY <1>1, <1>2, <1>3, <1>4, OverrideTyped DEF WrittenTypes

LEMMA WrittenStep ==
  ASSUME BatchSize \in Nat, WrittenTypes, [Bytes!Next]_(Bytes!vars)
  PROVE  WrittenTypes'
<1>1. ASSUME NEW k \in Name, NEW v \in Text, Bytes!Put(k, v) PROVE WrittenTypes'
  BY <1>1, OneOverrides DEF Bytes!Put
<1>2. ASSUME NEW k \in Name, NEW b \in Blob, Bytes!PutBlob(k, b) PROVE WrittenTypes'
  BY <1>2, OneOverrides DEF Bytes!PutBlob
<1>3. ASSUME NEW pairs \in [1 .. BatchSize -> Name \X Text], Bytes!PutAll(pairs) PROVE WrittenTypes'
  <2>1. PICK f, g : f = written /\ g = written'
    OBVIOUS
  <2>2. Overrides(f, g, pairs)
    BY <1>3, <2>1 DEF Bytes!PutAll, Overrides
  <2>3. pairs \in [1 .. BatchSize -> Name \X (Blob \cup Text)]
    OBVIOUS
  <2>4. IsFiniteSet(DOMAIN f) /\ DOMAIN f \subseteq Name /\ \A x \in DOMAIN f : f[x] \in Blob \cup Text
    BY <2>1 DEF WrittenTypes
  <2>. QED BY <2>1, <2>2, <2>3, <2>4, OverrideTyped DEF WrittenTypes
<1>4. ASSUME NEW k \in Name, Bytes!Remove(k) PROVE WrittenTypes'
  <2>1. written' = [x \in DOMAIN written \ {k} |-> written[x]]
    BY <1>4 DEF Bytes!Remove, Bytes!Without
  <2>2. IsFiniteSet(DOMAIN written \ {k})
    BY FS_RemoveElement DEF WrittenTypes
  <2>. QED BY <2>1, <2>2 DEF WrittenTypes
<1>5. CASE Bytes!Clear
  BY <1>5, FS_EmptySet DEF Bytes!Clear, Bytes!Empty, WrittenTypes
<1>6. CASE UNCHANGED Bytes!vars
  BY <1>6 DEF Bytes!vars, WrittenTypes
<1>. QED BY <1>1, <1>2, <1>3, <1>4, <1>5, <1>6 DEF Bytes!Next

LEMMA KeysInOrder ==
  ASSUME PlainText, RowsAreWritten, WrittenTypes
  PROVE  Bytes!KeysListed
<1>1. PICK D, n : D = DOMAIN rows /\ n = Cardinality(D)
  OBVIOUS
<1>2. Strings(D) /\ D = DOMAIN written /\ \A s \in D : Bytes!CString(s) = s
  BY <1>1, CStringWhole DEF PlainText, RowsAreWritten, WrittenTypes, Strings
<1>3. Bytes!Cardinality(D) = n
  BY <1>1 DEF Bytes!Cardinality, Cardinality
<1>4. PICK l : l = CHOOSE k \in [1 .. Bytes!Cardinality(D) -> D] :
                     \A i, j \in DOMAIN k : i < j => Bytes!Before(k[i], k[j])
  OBVIOUS
<1>5. \E k \in [1 .. n -> D] : \A i, j \in DOMAIN k : i < j => Bytes!Before(k[i], k[j])
  <2>1. PICK k : Lists(k, D)
    BY <1>2, ListingExists
  <2>. QED BY <1>1, <2>1 DEF Lists
<1>6. l \in [1 .. n -> D] /\ \A i, j \in DOMAIN l : i < j => Bytes!Before(l[i], l[j])
  BY <1>3, <1>4, <1>5
<1>7. Lists(l, D)
  BY <1>1, <1>6 DEF Lists
<1>8. {l[i] : i \in 1 .. n} = D
  BY <1>1, <1>2, <1>7, ListingIsWhole
<1>9. Bytes!Keys = l
  <2>1. Bytes!Keys = [i \in DOMAIN l |-> Bytes!CString(l[i])]
    BY <1>1, <1>4 DEF Bytes!Keys
  <2>2. \A i \in DOMAIN l : Bytes!CString(l[i]) = l[i]
    BY <1>2, <1>6
  <2>. QED BY <1>6, <2>1, <2>2
<1>. QED BY <1>2, <1>6, <1>8, <1>9 DEF Bytes!KeysListed

(* For all keys and texts without a zero byte, all blobs, batches of any   *)
(* size and any limit on lengths: every key reads back what its caller     *)
(* last wrote under it, no call on one key disturbs another, and keys()    *)
(* lists the keys, each once and in order.                                 *)
THEOREM PlainTextsAreKept ==
  ASSUME PlainText, BatchSize \in Nat
  PROVE  Bytes!Spec => []TextsKept
<1>1. \A s \in Name \cup Text : Bytes!CString(s) = s
  BY CStringWhole DEF PlainText
<1>2. Bytes!Init => RowsAreWritten /\ WrittenTypes
  BY FS_EmptySet DEF Bytes!Init, Bytes!Empty, RowsAreWritten, WrittenTypes
<1>3. RowsAreWritten /\ WrittenTypes /\ [Bytes!Next]_(Bytes!vars) => RowsAreWritten' /\ WrittenTypes'
  BY RowsStep, WrittenStep
<1>4. RowsAreWritten /\ WrittenTypes => Bytes!TextsKept
  <2>1. RowsAreWritten => Bytes!WrittenIsRead
    BY <1>1 DEF RowsAreWritten, Bytes!WrittenIsRead, Bytes!Has, Bytes!Get, Bytes!GetBlob
  <2>2. RowsAreWritten /\ WrittenTypes => Bytes!TypeOK
    BY <1>1 DEF RowsAreWritten, WrittenTypes, Bytes!TypeOK
  <2>. QED BY <2>1, <2>2, KeysInOrder DEF Bytes!TextsKept
<1>. QED BY <1>2, <1>3, <1>4, PTL DEF Bytes!Spec, TextsKept
-----------------------------------------------------------------------------
(* The calls of threads of which no two share a process: each takes effect *)
(* at once, or not at all.                                                 *)

OnePerProcess(T) == \A t, u \in T : ProcessOf[t] = ProcessOf[u] => t = u

\* The calls are statements of these threads alone, so no batch is mixed, and
\* the rows that a read has stepped through are still those of the file.
CallsInv(T) ==
  /\ Inv
  /\ mixed = {}
  /\ \A t \in Thread \ T : at[t] = "idle"
  /\ DOMAIN stepped = Thread
  /\ \A t \in Thread : \E ks \in SUBSET Key : stepped[t] = [k \in ks |-> disk[k]]
  /\ \A t \in Thread : at[t] # "reading" => stepped[t] = Nothing

\* A step of the calls is one of the statements, or leaves them alone.
LEMMA CallsAreStatements ==
  ASSUME NEW T \in SUBSET Thread, [CallsOf(T)]_callVars
  PROVE  [Next]_vars
<1>1. ASSUME NEW p \in Process, ProcessStep(p) PROVE Next
  BY <1>1 DEF ProcessStep, Next
<1>2. ASSUME NEW t \in T, CallClosed(t) PROVE UNCHANGED vars
  BY <1>2 DEF CallClosed
<1>3. ASSUME NEW t \in T, Begins(t) PROVE Next
  BY <1>3 DEF Begins, Next
<1>4. ASSUME NEW t \in T, CallStep(t) PROVE [Next]_vars
  BY <1>4 DEF CallStep, Succeeds, Proceeds, Fails, StepRow, ReadReturns, ReadFails,
              Next, OperationStep
<1>5. UNCHANGED callVars => UNCHANGED vars
  BY DEF callVars, vars
<1>. QED BY <1>1, <1>2, <1>3, <1>4, <1>5 DEF CallsOf

LEMMA InitCalls ==
  ASSUME NEW T \in SUBSET Thread, CallsInit
  PROVE  CallsInv(T)
<1>1. Inv /\ mixed = {} /\ \A t \in Thread : at[t] = "idle"
  BY InitInv DEF CallsInit, Init
<1>2. DOMAIN stepped = Thread /\ \A t \in Thread : stepped[t] = Nothing
  BY DEF CallsInit
<1>3. Nothing = [k \in {} |-> disk[k]]
  BY DEF Nothing
<1>. QED BY <1>1, <1>2, <1>3 DEF CallsInv

\* A thread that has its connection for itself is in a transaction only in a batch.
LEMMA OwnTransaction ==
  ASSUME NEW T \in SUBSET Thread, OnePerProcess(T), CallsInv(T), NEW t \in T, InTransaction(t)
  PROVE  at[t] \in InPutAll
<1>1. txn # NoProcess
  BY DEF InTransaction
<1>2. PICK u \in Thread : ProcessOf[u] = txn /\ at[u] \in InPutAll
  BY <1>1 DEF CallsInv, Inv, Held
<1>3. u \in T
  BY <1>2 DEF CallsInv, InPutAll
<1>. QED BY <1>2, <1>3 DEF InTransaction, OnePerProcess

LEMMA NothingShared ==
  ASSUME NEW T \in SUBSET Thread, OnePerProcess(T), CallsInv(T), NEW t \in T
  PROVE  Sharers(t) = {} /\ (NoteMixing(t) => mixed' = {})
<1>1. ASSUME NEW u \in Thread \ {t}, ProcessOf[u] = ProcessOf[t], at[u] \in InPutAll PROVE FALSE
  BY <1>1 DEF CallsInv, InPutAll, OnePerProcess
<1>2. Sharers(t) = {}
  BY <1>1 DEF Sharers
<1>. QED BY <1>2 DEF NoteMixing, CallsInv

\* What a thread's statement does to the file.
LEMMA DiskMoves ==
  ASSUME NEW T \in SUBSET Thread, OnePerProcess(T), CallsInv(T), NEW t \in T, OperationStep(t)
  PROVE  /\ StatementSucceeds(t) \/ Commit(t) =>
              disk' = Written(disk, op[t].keys, op[t].value) /\ ~ReadElsewhere(t)
         /\ ~StatementSucceeds(t) /\ ~Commit(t) => disk' = disk
<1>1. ASSUME StatementSucceeds(t)
      PROVE  disk' = Written(disk, op[t].keys, op[t].value) /\ ~ReadElsewhere(t)
  <2>1. ~InTransaction(t)
    BY <1>1, OwnTransaction DEF StatementSucceeds, InPutAll
  <2>. QED BY <1>1, <2>1 DEF StatementSucceeds, Execute, CanCommit
<1>2. ASSUME Commit(t)
      PROVE  disk' = Written(disk, op[t].keys, op[t].value) /\ ~ReadElsewhere(t)
  <2>1. at[t] = "writing" /\ todo[t] = {} /\ disk' = work /\ ~ReadElsewhere(t)
    BY <1>2 DEF Commit, CanCommit
  <2>2. work = Written(disk, op[t].keys \ todo[t], op[t].value)
    BY <2>1 DEF CallsInv, Inv, BatchSoFar
  <2>3. op[t].keys \ todo[t] = op[t].keys
    BY <2>1
  <2>. QED BY <2>1, <2>2, <2>3
<1>3. ASSUME PutNext(t) PROVE disk' = disk
  BY <1>3 DEF PutNext, Execute, CallsInv, Inv, BatchSoFar
<1>4. ~StatementSucceeds(t) /\ ~Commit(t) => disk' = disk
  BY <1>3 DEF OperationStep, StatementFails, BeginTransaction, BeginFails, PutFails,
              CommitFails, RollBack, EndRead
<1>. QED BY <1>1, <1>2, <1>4

\* Where the rows a thread has seen are those of ks, and stay so.
LEMMA SeenStays ==
  ASSUME NEW t \in Thread, \E ks \in SUBSET Key : stepped[t] = [k \in ks |-> disk[k]],
         stepped'[t] = stepped[t], disk' = disk \/ stepped[t] = Nothing
  PROVE  \E ks \in SUBSET Key : stepped'[t] = [k \in ks |-> disk'[k]]
<1>1. CASE disk' = disk
  BY <1>1
<1>2. CASE stepped[t] = Nothing
  <2>1. stepped'[t] = [k \in {} |-> disk'[k]]
    BY <1>2 DEF Nothing
  <2>. QED BY <2>1
<1>. QED BY <1>1, <1>2

LEMMA NothingSeen ==
  ASSUME NEW t \in Thread, stepped'[t] = Nothing
  PROVE  \E ks \in SUBSET Key : stepped'[t] = [k \in ks |-> disk'[k]]
<1>1. stepped'[t] = [k \in {} |-> disk'[k]]
  BY DEF Nothing
<1>. QED BY <1>1

\* A statement leaves a read of another thread its rows.
LEMMA StatementKeeps ==
  ASSUME NEW T \in SUBSET Thread, OnePerProcess(T), CallsInv(T), NEW t \in T, OperationStep(t),
         at[t] # "reading", UNCHANGED stepped
  PROVE  /\ mixed' = {}
         /\ \A u \in Thread \ T : at'[u] = "idle"
         /\ DOMAIN stepped' = Thread
         /\ \A u \in Thread : \E ks \in SUBSET Key : stepped'[u] = [k \in ks |-> disk'[k]]
         /\ \A u \in Thread : at'[u] # "reading" => stepped'[u] = Nothing
<1>1. mixed' = {}
  BY NothingShared, Mixes DEF CallsInv, Inv
<1>2. \A u \in Thread \ {t} : at'[u] = at[u]
  BY OthersStay DEF CallsInv, Inv
<1>3. at'[t] # "reading" /\ stepped[t] = Nothing
  BY DEF CallsInv, Inv, Typing, TypeOK, OperationStep, StatementSucceeds, StatementFails,
         BeginTransaction, BeginFails, PutNext, PutFails, Commit, CommitFails, RollBack,
         EndRead, Returns, Goto
<1>4. ASSUME NEW u \in Thread PROVE disk' = disk \/ stepped[u] = Nothing
  <2>1. CASE at[u] # "reading"
    BY <2>1 DEF CallsInv
  <2>2. CASE at[u] = "reading"
    <3>1. u \in T /\ u # t
      BY <2>2 DEF CallsInv
    <3>2. ProcessOf[u] # ProcessOf[t]
      BY <3>1 DEF OnePerProcess
    <3>3. ReadElsewhere(t)
      BY <2>2, <3>2 DEF ReadElsewhere
    <3>. QED BY <3>3, DiskMoves
  <2>. QED BY <2>1, <2>2
<1>5. ASSUME NEW u \in Thread PROVE \E ks \in SUBSET Key : stepped'[u] = [k \in ks |-> disk'[k]]
  <2>1. \E ks \in SUBSET Key : stepped[u] = [k \in ks |-> disk[k]]
    BY DEF CallsInv
  <2>. QED BY <1>4, <2>1, SeenStays
<1>6. ASSUME NEW u \in Thread, at'[u] # "reading" PROVE stepped'[u] = Nothing
  BY <1>2, <1>3, <1>6 DEF CallsInv
<1>7. \A u \in Thread \ T : at'[u] = "idle"
  BY <1>2 DEF CallsInv
<1>. QED BY <1>1, <1>5, <1>6, <1>7 DEF CallsInv

\* A read drops what it has seen, and writes nothing.
LEMMA ReadKeeps ==
  ASSUME NEW T \in SUBSET Thread, CallsInv(T), NEW t \in T, EndRead(t),
         stepped' = [stepped EXCEPT ![t] = Nothing]
  PROVE  /\ mixed' = {}
         /\ \A u \in Thread \ T : at'[u] = "idle"
         /\ DOMAIN stepped' = Thread
         /\ \A u \in Thread : \E ks \in SUBSET Key : stepped'[u] = [k \in ks |-> disk'[k]]
         /\ \A u \in Thread : at'[u] # "reading" => stepped'[u] = Nothing
<1>1. mixed' = mixed /\ disk' = disk /\ \A u \in Thread : u # t => at'[u] = at[u]
  BY DEF EndRead, Returns, Goto, CallsInv, Inv, Typing, TypeOK
<1>2. stepped'[t] = Nothing /\ DOMAIN stepped' = Thread
      /\ \A u \in Thread : u # t => stepped'[u] = stepped[u]
  BY DEF CallsInv
<1>3. ASSUME NEW u \in Thread PROVE \E ks \in SUBSET Key : stepped'[u] = [k \in ks |-> disk'[k]]
  <2>1. CASE u = t
    BY <1>2, <2>1, NothingSeen
  <2>2. CASE u # t
    BY <1>1, <1>2, <2>2 DEF CallsInv
  <2>. QED BY <2>1, <2>2
<1>4. ASSUME NEW u \in Thread, at'[u] # "reading" PROVE stepped'[u] = Nothing
  BY <1>1, <1>2, <1>4 DEF CallsInv
<1>. QED BY <1>1, <1>2, <1>3, <1>4 DEF CallsInv

\* A step through one more row.
LEMMA StepRowKeeps ==
  ASSUME NEW T \in SUBSET Thread, OnePerProcess(T), CallsInv(T), NEW t \in T, StepRow(t)
  PROVE  /\ DOMAIN stepped' = Thread
         /\ \A u \in Thread : \E ks \in SUBSET Key : stepped'[u] = [k \in ks |-> disk'[k]]
         /\ \A u \in Thread : at'[u] # "reading" => stepped'[u] = Nothing
<1>1. at[t] = "reading" /\ UNCHANGED vars
  BY DEF StepRow
<1>2. ~InTransaction(t)
  BY <1>1, OwnTransaction DEF InPutAll
<1>3. PICK ks \in SUBSET Key : stepped[t] = [k \in ks |-> disk[k]]
  BY DEF CallsInv
<1>4. PICK k \in Key \ DOMAIN stepped[t] :
        stepped' = [stepped EXCEPT ![t] =
          [j \in DOMAIN @ \cup {k} |->
             IF j \in DOMAIN @ THEN @[j] ELSE IF InTransaction(t) THEN work[k] ELSE disk[k]]]
  BY DEF StepRow
<1>5. PICK g : g = [j \in ks \cup {k} |-> disk[j]]
  OBVIOUS
<1>6. [j \in DOMAIN stepped[t] \cup {k} |->
         IF j \in DOMAIN stepped[t] THEN stepped[t][j]
         ELSE IF InTransaction(t) THEN work[k] ELSE disk[k]] = g
  BY <1>2, <1>3, <1>5
<1>7. stepped' = [stepped EXCEPT ![t] = g]
  BY <1>4, <1>6
<1>8. DOMAIN stepped' = Thread /\ stepped'[t] = g
      /\ \A u \in Thread : u # t => stepped'[u] = stepped[u]
  BY <1>7 DEF CallsInv
<1>9. disk' = disk /\ at' = at
  BY <1>1 DEF vars
<1>10. ks \cup {k} \in SUBSET Key
  OBVIOUS
<1>11. ASSUME NEW u \in Thread PROVE \E ls \in SUBSET Key : stepped'[u] = [j \in ls |-> disk'[j]]
  <2>1. CASE u = t
    BY <1>5, <1>8, <1>9, <1>10, <2>1
  <2>2. CASE u # t
    BY <1>8, <1>9, <2>2 DEF CallsInv
  <2>. QED BY <2>1, <2>2
<1>12. ASSUME NEW u \in Thread, at'[u] # "reading" PROVE stepped'[u] = Nothing
  BY <1>1, <1>8, <1>9, <1>12 DEF CallsInv
<1>. QED BY <1>8, <1>11, <1>12

LEMMA CallsStep ==
  ASSUME NEW T \in SUBSET Thread, OnePerProcess(T), CallsInv(T), [CallsOf(T)]_callVars
  PROVE  CallsInv(T)'
<1>1. Inv'
  BY CallsAreStatements, TypingStep, HeldStep, SharedStep, BatchStep DEF Inv, CallsInv
<1>. USE DEF CallsInv
<1>2. ASSUME NEW p \in Process, Open(p) \/ Close(p), UNCHANGED <<answer, stepped>> PROVE CallsInv(T)'
  BY <1>1, <1>2 DEF Open, Close
<1>3. ASSUME NEW p \in Process, Crash(p),
             stepped' = [t \in Thread |-> IF ProcessOf[t] = p THEN Nothing ELSE stepped[t]]
      PROVE  CallsInv(T)'
  <2>1. mixed' = {} /\ disk' = disk
    BY <1>3 DEF Crash
  <2>2. \A t \in Thread : at'[t] = (IF ProcessOf[t] = p THEN "idle" ELSE at[t])
    BY <1>3 DEF Crash
  <2>3. ASSUME NEW u \in Thread PROVE \E ks \in SUBSET Key : stepped'[u] = [k \in ks |-> disk'[k]]
    <3>1. CASE ProcessOf[u] = p
      BY <1>3, <3>1, NothingSeen
    <3>2. CASE ProcessOf[u] # p
      BY <1>3, <2>1, <3>2
    <3>. QED BY <3>1, <3>2
  <2>4. \A u \in Thread : at'[u] # "reading" => stepped'[u] = Nothing
    BY <1>3, <2>2
  <2>5. DOMAIN stepped' = Thread /\ \A u \in Thread \ T : at'[u] = "idle"
    BY <1>3, <2>2
  <2>. QED BY <1>1, <2>1, <2>3, <2>4, <2>5
<1>4. ASSUME NEW t \in T, CallClosed(t) PROVE CallsInv(T)'
  BY <1>1, <1>4 DEF CallClosed, vars
<1>5. ASSUME NEW t \in T, Begins(t) PROVE CallsInv(T)'
  <2>1. UNCHANGED <<disk, mixed, stepped>> /\ at[t] = "idle" /\ \A u \in Thread : u # t => at'[u] = at[u]
    <3>1. CASE Starts(t)
      BY <1>5, <3>1, StartsShape DEF Begins, Inv, Typing, TypeOK
    <3>2. CASE Batches(t)
      BY <1>5, <3>2 DEF Begins, Batches, LoadFromFile, PutAll, Goto, Inv, Typing, TypeOK
    <3>. QED BY <1>5, <3>1, <3>2 DEF Begins, Starts, Batches
  <2>2. stepped[t] = Nothing
    BY <2>1
  <2>3. \A u \in Thread : at'[u] # "reading" => stepped'[u] = Nothing
    BY <2>1, <2>2
  <2>. QED BY <1>1, <2>1, <2>3
<1>6. ASSUME NEW t \in T, Succeeds(t) \/ Proceeds(t) \/ Fails(t) PROVE CallsInv(T)'
  <2>1. OperationStep(t) /\ at[t] # "reading" /\ UNCHANGED stepped
    BY <1>6 DEF Succeeds, Proceeds, Fails, OperationStep, StatementSucceeds, StatementFails,
       BeginTransaction, BeginFails, PutNext, PutFails, Commit, CommitFails, RollBack
  <2>. QED BY <1>1, <2>1, StatementKeeps
<1>7. ASSUME NEW t \in T, ReadReturns(t) \/ ReadFails(t) PROVE CallsInv(T)'
  BY <1>1, <1>7, ReadKeeps DEF ReadReturns, ReadFails
<1>8. ASSUME NEW t \in T, StepRow(t) PROVE CallsInv(T)'
  <2>1. UNCHANGED vars
    BY <1>8 DEF StepRow
  <2>. QED BY <1>1, <1>8, <2>1, StepRowKeeps DEF vars
<1>9. CASE UNCHANGED callVars
  BY <1>1, <1>9 DEF callVars
<1>. QED BY <1>2, <1>3, <1>4, <1>5, <1>6, <1>7, <1>8, <1>9 DEF CallsOf, ProcessStep, CallStep

\* How the calls of AtomicStore move when one thread's does.
LEMMA PendingMoves ==
  ASSUME NEW t \in Thread, NEW w, PendingCall(t)' = w,
         \A u \in Thread : u # t => PendingCall(u)' = PendingCall(u)
  PROVE  [u \in Thread |-> PendingCall(u)]' = [[u \in Thread |-> PendingCall(u)] EXCEPT ![t] = w]
  OBVIOUS

LEMMA PendingStays ==
  ASSUME NEW u \in Thread, at'[u] = at[u], op'[u] = op[u]
  PROVE  PendingCall(u)' = PendingCall(u)
  BY DEF PendingCall

LEMMA NoCallWhenIdle ==
  ASSUME NEW u \in Thread
  PROVE  /\ at[u] = "idle" => PendingCall(u) = Atomic!NoCall
         /\ at'[u] = "idle" => PendingCall(u)' = Atomic!NoCall
  BY DEF PendingCall, AtomicNoCall, Atomic!NoCall

\* A thread begins a call: AtomicStore's Call.
LEMMA BeginsIsCall ==
  ASSUME NEW T \in SUBSET Thread, CallsInv(T), NEW t \in T, Begins(t)
  PROVE  Atomic!Call(t)
<1>. USE DEF CallsInv, Inv, Typing, TypeOK
<1>1. /\ at[t] = "idle" /\ disk' = disk /\ answer' = answer
      /\ \A u \in Thread : u # t => at'[u] = at[u] /\ op'[u] = op[u]
      /\ at'[t] \in {"statement", "reading", "begin"} /\ op'[t] \in Write
  <2>1. CASE Starts(t)
    BY <2>1, StartsShape DEF Begins
  <2>2. CASE Batches(t)
    <3>1. PICK ks \in SUBSET Key, v \in Value : op' = [op EXCEPT ![t] = [keys |-> ks, value |-> v]]
      BY <2>2 DEF Batches, LoadFromFile, PutAll
    <3>2. [keys |-> ks, value |-> v] \in Write
      BY DEF Write
    <3>. QED BY <2>2, <3>1, <3>2 DEF Begins, Batches, LoadFromFile, PutAll, Goto
  <2>. QED BY <2>1, <2>2 DEF Begins, Starts, Batches
<1>2. PICK w : w = PendingCall(t)'
  OBVIOUS
<1>3. w \in Atomic!WriteCalls \cup {Atomic!ReadCall}
  <2>1. CASE at'[t] = "reading"
    BY <1>2, <2>1 DEF PendingCall, AtomicNoCall, Atomic!ReadCall, Atomic!NoCall
  <2>2. CASE at'[t] # "reading"
    <3>1. w = [kind |-> "write", keys |-> op'[t].keys, value |-> op'[t].value]
      BY <1>1, <1>2, <2>2 DEF PendingCall
    <3>. QED BY <1>1, <3>1 DEF Write, Atomic!WriteCalls
  <2>. QED BY <2>1, <2>2
<1>4. \A u \in Thread : u # t => PendingCall(u)' = PendingCall(u)
  BY <1>1, PendingStays
<1>5. [u \in Thread |-> PendingCall(u)]' = [[u \in Thread |-> PendingCall(u)] EXCEPT ![t] = w]
  BY <1>2, <1>4, PendingMoves
<1>6. [u \in Thread |-> PendingCall(u)][t] = Atomic!NoCall
  BY <1>1, NoCallWhenIdle
<1>. QED BY <1>1, <1>3, <1>5, <1>6 DEF Atomic!Call

\* A thread that is idle after a step has returned.
LEMMA IdleHasReturned ==
  ASSUME NEW t \in Thread, at'[t] = "idle", NEW ok, NEW seen, Replies(t, ok, seen),
         \A u \in Thread : u # t => at'[u] = at[u] /\ op'[u] = op[u]
  PROVE  Atomic!Return(t, ok, seen)
<1>1. [u \in Thread |-> PendingCall(u)]'
        = [[u \in Thread |-> PendingCall(u)] EXCEPT ![t] = Atomic!NoCall]
  BY PendingMoves, PendingStays, NoCallWhenIdle
<1>. QED BY <1>1 DEF Replies, Answer, Atomic!Return, Atomic!Returned

LEMMA NoRowsEither == Atomic!NoRows = NoRows
  BY DEF Atomic!NoRows, NoRows

LEMMA SucceedsIsPerform ==
  ASSUME NEW T \in SUBSET Thread, OnePerProcess(T), CallsInv(T), NEW t \in T, Succeeds(t)
  PROVE  Atomic!Perform(t)
<1>1. OperationStep(t) /\ (StatementSucceeds(t) \/ Commit(t)) /\ Replies(t, TRUE, NoRows)
  BY DEF Succeeds, OperationStep
<1>2. disk' = Written(disk, op[t].keys, op[t].value)
  BY <1>1, DiskMoves
<1>3. at[t] \in {"statement", "writing"} /\ at'[t] = "idle"
  BY <1>1 DEF StatementSucceeds, Commit, Returns, Goto, CallsInv, Inv, Typing, TypeOK
<1>4. PendingCall(t) = [kind |-> "write", keys |-> op[t].keys, value |-> op[t].value]
  BY <1>3 DEF PendingCall
<1>5. \A u \in Thread : u # t => at'[u] = at[u] /\ op'[u] = op[u]
  BY <1>1, OthersStay DEF CallsInv, Inv
<1>6. Atomic!Return(t, TRUE, NoRows)
  BY <1>1, <1>3, <1>5, IdleHasReturned
<1>7. PICK f : f = [u \in Thread |-> PendingCall(u)]
  OBVIOUS
<1>8. f[t].kind = "write" /\ f[t].keys = op[t].keys /\ f[t].value = op[t].value
  BY <1>4, <1>7
<1>9. disk' = [k \in Key |-> IF k \in f[t].keys THEN f[t].value ELSE disk[k]]
  BY <1>2, <1>8 DEF Written
<1>. QED BY <1>6, <1>7, <1>8, <1>9, NoRowsEither DEF Atomic!Perform

LEMMA FailsIsRefuse ==
  ASSUME NEW T \in SUBSET Thread, OnePerProcess(T), CallsInv(T), NEW t \in T,
         Fails(t) \/ ReadFails(t)
  PROVE  Atomic!Refuse(t)
<1>1. OperationStep(t) /\ Replies(t, FALSE, NoRows)
      /\ (StatementFails(t) \/ BeginFails(t) \/ RollBack(t) \/ EndRead(t))
  BY DEF Fails, ReadFails, OperationStep
<1>2. at'[t] = "idle" /\ disk' = disk
  BY <1>1 DEF StatementFails, BeginFails, RollBack, EndRead, Returns, Goto, CallsInv, Inv,
              Typing, TypeOK
<1>3. \A u \in Thread : u # t => at'[u] = at[u] /\ op'[u] = op[u]
  BY <1>1, OthersStay DEF CallsInv, Inv
<1>. QED BY <1>1, <1>2, <1>3, IdleHasReturned, NoRowsEither DEF Atomic!Refuse

LEMMA ClosedIsRefuse ==
  ASSUME NEW T \in SUBSET Thread, CallsInv(T), NEW t \in T, CallClosed(t)
  PROVE  Atomic!Refuse(t)
<1>1. at[t] = "idle" /\ UNCHANGED vars /\ Replies(t, FALSE, NoRows)
  BY DEF CallClosed, CallsInv, Inv, Typing, TypeOK
<1>2. at'[t] = "idle" /\ disk' = disk /\ \A u \in Thread : at'[u] = at[u] /\ op'[u] = op[u]
  BY <1>1 DEF vars
<1>. QED BY <1>1, <1>2, IdleHasReturned, NoRowsEither DEF Atomic!Refuse

LEMMA ReadReturnsIsRead ==
  ASSUME NEW T \in SUBSET Thread, CallsInv(T), NEW t \in T, ReadReturns(t)
  PROVE  Atomic!Read(t)
<1>1. EndRead(t) /\ DOMAIN stepped[t] = Key /\ Replies(t, TRUE, stepped[t])
  BY DEF ReadReturns
<1>2. PICK ks \in SUBSET Key : stepped[t] = [k \in ks |-> disk[k]]
  BY DEF CallsInv
<1>3. stepped[t] = disk
  BY <1>1, <1>2 DEF CallsInv, Inv, Typing, TypeOK, Rows
<1>4. at[t] = "reading" /\ at'[t] = "idle" /\ disk' = disk
      /\ \A u \in Thread : u # t => at'[u] = at[u] /\ op'[u] = op[u]
  BY <1>1 DEF EndRead, Returns, Goto, CallsInv, Inv, Typing, TypeOK
<1>5. PendingCall(t).kind = "read"
  BY <1>4 DEF PendingCall, AtomicNoCall
<1>6. Atomic!Return(t, TRUE, disk)
  BY <1>1, <1>3, <1>4, IdleHasReturned
<1>7. [u \in Thread |-> PendingCall(u)][t] = PendingCall(t)
  OBVIOUS
<1>. QED BY <1>4, <1>5, <1>6, <1>7 DEF Atomic!Read

LEMMA CrashIsDie ==
  ASSUME Typing, NEW p \in Process, Crash(p),
         answer' = [t \in Thread |-> IF ProcessOf[t] = p THEN Answer(FALSE, NoRows) ELSE answer[t]]
  PROVE  Atomic!Die({t \in Thread : ProcessOf[t] = p})
<1>1. PICK cs \in SUBSET Thread : cs = {t \in Thread : ProcessOf[t] = p}
  OBVIOUS
<1>2. \A t \in Thread : /\ t \in cs => at'[t] = "idle"
                        /\ t \notin cs => at'[t] = at[t] /\ op'[t] = op[t]
  BY <1>1 DEF Crash
<1>3. ASSUME NEW t \in Thread
      PROVE  PendingCall(t)' = IF t \in cs THEN Atomic!NoCall ELSE PendingCall(t)
  BY <1>2, NoCallWhenIdle, PendingStays
<1>4. [t \in Thread |-> PendingCall(t)]'
        = [t \in Thread |-> IF t \in cs THEN Atomic!NoCall ELSE [u \in Thread |-> PendingCall(u)][t]]
  BY <1>3
<1>5. answer' = [t \in Thread |-> IF t \in cs THEN Atomic!Returned(FALSE, Atomic!NoRows)
                                  ELSE answer[t]]
  BY <1>1, NoRowsEither DEF Answer, Atomic!Returned
<1>6. disk' = disk
  BY DEF Crash
<1>. QED BY <1>1, <1>4, <1>5, <1>6 DEF Atomic!Die

\* The steps that nobody outside the process sees.
LEMMA HiddenSteps ==
  ASSUME NEW T \in SUBSET Thread, OnePerProcess(T), CallsInv(T),
         \/ \E p \in Process : (Open(p) \/ Close(p)) /\ UNCHANGED <<answer, stepped>>
         \/ \E t \in T : Proceeds(t) \/ StepRow(t)
         \/ UNCHANGED callVars
  PROVE  UNCHANGED Atomic!vars
<1>1. disk' = disk /\ answer' = answer
  <2>1. ASSUME NEW t \in T, Proceeds(t) PROVE disk' = disk /\ answer' = answer
    <3>1. OperationStep(t) /\ ~StatementSucceeds(t) /\ ~Commit(t)
      BY <2>1 DEF Proceeds, OperationStep, BeginTransaction, PutNext, PutFails, CommitFails,
         StatementSucceeds, Commit, Returns, Goto, CallsInv, Inv, Typing, TypeOK
    <3>. QED BY <2>1, <3>1, DiskMoves DEF Proceeds
  <2>. QED BY <2>1 DEF Open, Close, StepRow, vars, callVars
<1>2. ASSUME NEW u \in Thread PROVE PendingCall(u)' = PendingCall(u)
  <2>1. ASSUME NEW t \in T, Proceeds(t) PROVE PendingCall(u)' = PendingCall(u)
    <3>1. op' = op /\ at[t] \in {"begin", "writing"} /\ at'[t] \in {"writing", "rollback"}
          /\ (u # t => at'[u] = at[u])
      BY <2>1 DEF Proceeds, BeginTransaction, PutNext, PutFails, CommitFails, Goto, CallsInv,
         Inv, Typing, TypeOK
    <3>. QED BY <3>1 DEF PendingCall
  <2>2. ASSUME UNCHANGED <<at, op>> PROVE PendingCall(u)' = PendingCall(u)
    BY <2>2, PendingStays
  <2>. QED BY <2>1, <2>2 DEF Open, Close, StepRow, vars, callVars
<1>3. [u \in Thread |-> PendingCall(u)]' = [u \in Thread |-> PendingCall(u)]
  BY <1>2
<1>. QED BY <1>1, <1>3 DEF Atomic!vars

LEMMA CallsAtomic ==
  ASSUME NEW T \in SUBSET Thread, OnePerProcess(T), CallsInv(T), [CallsOf(T)]_callVars
  PROVE  AtomicStep
<1>1. ASSUME NEW p \in Process, ProcessStep(p) PROVE AtomicStep
  <2>1. CASE /\ Crash(p)
             /\ answer' = [t \in Thread |-> IF ProcessOf[t] = p THEN Answer(FALSE, NoRows)
                                            ELSE answer[t]]
    <3>1. Atomic!Die({t \in Thread : ProcessOf[t] = p})
      BY <2>1, CrashIsDie DEF CallsInv, Inv
    <3>2. {t \in Thread : ProcessOf[t] = p} \in SUBSET Thread
      OBVIOUS
    <3>. QED BY <3>1, <3>2 DEF AtomicStep, Atomic!Next
  <2>2. CASE (Open(p) \/ Close(p)) /\ UNCHANGED <<answer, stepped>>
    BY <2>2, HiddenSteps DEF AtomicStep
  <2>. QED BY <1>1, <2>1, <2>2 DEF ProcessStep
<1>2. ASSUME NEW t \in T, CallClosed(t) \/ Begins(t) PROVE AtomicStep
  BY <1>2, ClosedIsRefuse, BeginsIsCall DEF AtomicStep, Atomic!Next
<1>3. ASSUME NEW t \in T, Proceeds(t) \/ StepRow(t) PROVE AtomicStep
  BY <1>3, HiddenSteps DEF AtomicStep
<1>4. ASSUME NEW t \in T, Succeeds(t) \/ Fails(t) \/ ReadReturns(t) \/ ReadFails(t) PROVE AtomicStep
  BY <1>4, SucceedsIsPerform, FailsIsRefuse, ReadReturnsIsRead DEF AtomicStep, Atomic!Next
<1>5. CASE UNCHANGED callVars
  BY <1>5, HiddenSteps DEF AtomicStep
<1>. QED BY <1>1, <1>2, <1>3, <1>4, <1>5 DEF CallsOf, CallStep

(* For any processes, keys and values, and any threads of which no two     *)
(* share a process: a call that returned true wrote all its keys at once,  *)
(* one that returned false wrote none, and a read returns the rows of one  *)
(* moment, whatever fails, is refused a lock or is killed in between.      *)
THEOREM CallsImplementAtomicStore ==
  ASSUME CallThread \subseteq Thread, OnePerProcess(CallThread)
  PROVE  CallsInit /\ [][CallsOf(CallThread)]_callVars => Atomic!Spec /\ ImplementsAtomicStore
<1>1. CallsInit => CallsInv(CallThread)
  BY InitCalls
<1>2. CallsInv(CallThread) /\ [CallsOf(CallThread)]_callVars => CallsInv(CallThread)'
  BY CallsStep
<1>3. CallsInv(CallThread) /\ [CallsOf(CallThread)]_callVars => AtomicStep
  BY CallsAtomic
<1>4. CallsInit => Atomic!Init
  BY NoRowsEither, NoCallWhenIdle DEF CallsInit, Init, Answer, Atomic!Init, Atomic!Returned
<1>5. AtomicStep => [Atomic!Next]_(Atomic!vars)
  BY DEF AtomicStep
<1>6. AtomicStep => [shown = "calls" => AtomicStep]_mcVars
  OBVIOUS
<1>. QED BY <1>1, <1>2, <1>3, <1>4, <1>5, <1>6, PTL DEF Atomic!Spec, ImplementsAtomicStore
=============================================================================
