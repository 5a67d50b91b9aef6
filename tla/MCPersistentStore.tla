------------------------- MODULE MCPersistentStore -------------------------
(***************************************************************************)
(* The store seen in three ways, one in each behaviour: the statements of  *)
(* two processes, of which p1 lets two threads use its connection; the     *)
(* calls and results of one thread in each; and the bytes that a store     *)
(* keeps of keys and values.                                               *)
(***************************************************************************)
EXTENDS StoreCalls, Naturals, Sequences

CONSTANTS
  p1, p2, t1, t2, t3,
  CallThread,                               \* the threads whose calls are shown
  Name, Text, Blob, LengthLimit, BatchSize  \* see StoreText

MCProcessOf == [t \in Thread |-> IF t = t3 THEN p2 ELSE p1]

VARIABLES
  shown,            \* "statements", "calls" or "bytes"
  rows, written     \* see StoreText

textVars == <<rows, written>>

Bytes == INSTANCE StoreText WITH Key <- Name

\* Keys that begin one another, and the empty one; texts and blobs of every
\* length up to the limit, and one longer.
MCNames == {<<>>, <<1>>, <<1, 2>>, <<2>>}
MCTexts == {<<>>, <<2, 1>>, <<1, 1, 1>>}
MCBlobs == {<<>>, <<0>>, <<1, 0, 2>>, <<0, 0, 0, 0>>}

MCInit == CallsInit /\ Bytes!Init /\ shown \in {"statements", "calls", "bytes"}

StatementsShown(A) == shown = "statements" /\ A /\ UNCHANGED <<answer, stepped, textVars, shown>>
CallsShown(A) == shown = "calls" /\ A /\ UNCHANGED <<textVars, shown>>

MCNext ==
  \/ StatementsShown(Next)
  \/ CallsShown(CallsOf(CallThread))
  \/ shown = "bytes" /\ Bytes!Next /\ UNCHANGED <<callVars, shown>>

mcVars == <<callVars, textVars, shown>>

\* Statements return, at the latest when the busy timeout expires.
MCFairness ==
  \A t \in Thread :
    WF_mcVars(StatementsShown(OperationStep(t))) /\ WF_mcVars(CallsShown(CallStep(t)))

MCSpec == MCInit /\ [][MCNext]_mcVars /\ MCFairness

\* Every step of the statements of one thread per process is a step of the
\* atomic store, or leaves it alone.
ImplementsAtomicStore == [][shown = "calls" => AtomicStep]_mcVars

\* What was last written under a key is read back, and keys() lists the keys.
TextsKept == Bytes!TextsKept
=============================================================================
