----------------------------- MODULE AtomicStore -----------------------------
(***************************************************************************)
(* What PersistentStore promises its callers: a call takes effect at once, *)
(* on every key it names, between its beginning and its return, and        *)
(* returns true; or it has no effect, and returns false.  A read returns   *)
(* the rows of one moment.  A client may die at any time, and its call     *)
(* with it.                                                                *)
(***************************************************************************)
CONSTANTS Client, Key, Value, NoValue

VARIABLES
  rows,      \* what the store holds
  pending,   \* the call each client is in
  answer     \* what the last call of each client returned

vars == <<rows, pending, answer>>

Rows == [Key -> Value \cup {NoValue}]
NoRows == [k \in Key |-> NoValue]
NoCall == [kind |-> "none", keys |-> {}, value |-> NoValue]
ReadCall == [NoCall EXCEPT !.kind = "read"]
WriteCalls == [kind : {"write"}, keys : SUBSET Key, value : Value \cup {NoValue}]
Returned(ok, seen) == [ok |-> ok, rows |-> seen]

Init ==
  /\ rows = NoRows
  /\ pending = [c \in Client |-> NoCall]
  /\ answer = [c \in Client |-> Returned(FALSE, NoRows)]
-----------------------------------------------------------------------------
Call(c) ==
  /\ pending[c] = NoCall
  /\ \E w \in WriteCalls \cup {ReadCall} : pending' = [pending EXCEPT ![c] = w]
  /\ UNCHANGED <<rows, answer>>

Return(c, ok, seen) ==
  /\ pending' = [pending EXCEPT ![c] = NoCall]
  /\ answer' = [answer EXCEPT ![c] = Returned(ok, seen)]

Perform(c) ==
  /\ pending[c].kind = "write"
  /\ rows' = [k \in Key |-> IF k \in pending[c].keys THEN pending[c].value ELSE rows[k]]
  /\ Return(c, TRUE, NoRows)

Read(c) ==
  /\ pending[c].kind = "read"
  /\ Return(c, TRUE, rows)
  /\ UNCHANGED rows

Refuse(c) ==
  /\ Return(c, FALSE, NoRows)
  /\ UNCHANGED rows

Die(cs) ==
  /\ pending' = [c \in Client |-> IF c \in cs THEN NoCall ELSE pending[c]]
  /\ answer' = [c \in Client |-> IF c \in cs THEN Returned(FALSE, NoRows) ELSE answer[c]]
  /\ UNCHANGED rows

Next ==
  \/ \E c \in Client : Call(c) \/ Perform(c) \/ Read(c) \/ Refuse(c)
  \/ \E cs \in SUBSET Client : Die(cs)

Spec == Init /\ [][Next]_vars
=============================================================================
