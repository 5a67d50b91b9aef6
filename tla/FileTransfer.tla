---------------------------- MODULE FileTransfer ----------------------------
(***************************************************************************)
(* FileDevice::write() and read() of processes that have one character     *)
(* device open: the driver takes and gives as many bytes as it likes, a    *)
(* signal interrupts a call that has to wait, and the line may break.      *)
(***************************************************************************)
EXTENDS Naturals, Sequences

CONSTANTS
  Process,
  Size,          \* of a written buffer, in bytes
  MaxWrites,     \* bound: buffers written
  MaxInput,      \* bound: bytes that arrive
  MaxRead        \* the size of a read buffer

VARIABLES
  line,          \* the bytes the device has taken: [buffer, byte]
  input,         \* the number of bytes that have arrived
  given,         \* the number of bytes read from the device
  call,          \* what each process does, its buffer and how much is written
  results,       \* history: each buffer's write: "pending", "true" or "false"
  received,      \* history: the bytes the processes were given, in order
  broken         \* write() and read() fail

vars == <<line, input, given, call, results, received, broken>>

Idle == [op |-> "none", buffer |-> 0, written |-> 0]
Buffers == DOMAIN results

TypeOK ==
  /\ line \in Seq([buffer : Buffers, byte : 1 .. Size])
  /\ input \in 0 .. MaxInput /\ given \in 0 .. input
  /\ call \in [Process -> [op : {"none", "write", "read"}, buffer : {0} \cup Buffers,
                           written : 0 .. Size]]
  /\ results \in Seq({"pending", "true", "false"}) /\ Len(results) <= MaxWrites
  /\ received \in Seq(1 .. input)
  /\ broken \in BOOLEAN

Init ==
  /\ line = <<>> /\ input = 0 /\ given = 0
  /\ call = [p \in Process |-> Idle]
  /\ results = <<>> /\ received = <<>>
  /\ broken = FALSE
-----------------------------------------------------------------------------
Write(p) ==
  /\ call[p] = Idle
  /\ Len(results) < MaxWrites
  /\ results' = Append(results, "pending")
  /\ call' = [call EXCEPT ![p] = [op |-> "write", buffer |-> Len(results'), written |-> 0]]
  /\ UNCHANGED <<line, input, given, received, broken>>

Bytes(b, from, to) == [i \in 1 .. to - from + 1 |-> [buffer |-> b, byte |-> from + i - 1]]

Taken(p, n) ==
  line' = line \o Bytes(call[p].buffer, call[p].written + 1, call[p].written + n)

WriteTakes(p) ==
  /\ call[p].op = "write" /\ call[p].written < Size
  /\ ~broken
  /\ \E n \in 1 .. Size - call[p].written :
       Taken(p, n) /\ call' = [call EXCEPT ![p].written = @ + n]
  /\ UNCHANGED <<input, given, results, received, broken>>

WriteReturns(p, outcome) ==
  /\ results' = [results EXCEPT ![call[p].buffer] = outcome]
  /\ call' = [call EXCEPT ![p] = Idle]
  /\ UNCHANGED <<line, input, given, received, broken>>

WriteDone(p) == call[p].op = "write" /\ call[p].written = Size /\ WriteReturns(p, "true")

\* An error, or no byte taken.
WriteFails(p) ==
  /\ call[p].op = "write" /\ call[p].written < Size
  /\ WriteReturns(p, "false")

Read(p) ==
  /\ call[p] = Idle
  /\ call' = [call EXCEPT ![p].op = "read"]
  /\ UNCHANGED <<line, input, given, results, received, broken>>

ReadGives(p) ==
  /\ call[p].op = "read" /\ ~broken
  /\ \E n \in 1 .. MaxRead :
       /\ given + n <= input
       /\ given' = given + n
       /\ received' = received \o [i \in 1 .. n |-> given + i]
  /\ call' = [call EXCEPT ![p] = Idle]
  /\ UNCHANGED <<line, input, results, broken>>

\* The end of the file is no error: true, and no byte.  An error is false.
ReadGivesNothing(p) ==
  /\ call[p].op = "read" /\ broken
  /\ call' = [call EXCEPT ![p] = Idle]
  /\ UNCHANGED <<line, input, given, results, received, broken>>

\* Mutant of Interrupted: what was written before the signal is forgotten.
Restarted(p) ==
  /\ call[p].op = "write" /\ call[p].written < Size
  /\ call' = [call EXCEPT ![p].written = 0]
  /\ UNCHANGED <<line, input, given, results, received, broken>>

\* EINTR: the loop goes on where it was.
Interrupted(p) == call[p].op # "none" /\ UNCHANGED vars

Arrive ==
  /\ input < MaxInput
  /\ input' = input + 1
  /\ UNCHANGED <<line, given, call, results, received, broken>>

Break ==
  /\ broken' = TRUE
  /\ UNCHANGED <<line, input, given, call, results, received>>

Next ==
  \/ \E p \in Process :
       \/ Write(p) \/ WriteTakes(p) \/ WriteDone(p) \/ WriteFails(p)
       \/ Read(p) \/ ReadGives(p) \/ ReadGivesNothing(p) \/ Interrupted(p)
  \/ Arrive \/ Break

Spec == Init /\ [][Next]_vars
-----------------------------------------------------------------------------
\* However the driver splits the writes and other processes' bytes come between,
\* a write that returned true has put its buffer on the line, each byte once and
\* in order; one that returned false has put a beginning of it.
BuffersWritten ==
  \A b \in Buffers :
    LET places == {i \in DOMAIN line : line[i].buffer = b} IN
    /\ \A i, j \in places : i < j => line[i].byte < line[j].byte
    /\ \E n \in 0 .. Size : /\ {line[i].byte : i \in places} = 1 .. n
                            /\ results[b] = "true" => n = Size

\* The processes together are given the bytes that arrived, each once.
InputReadOnce == received = [i \in 1 .. given |-> i]

\* No byte is written or read twice, left out or out of order.
BytesTransferred == TypeOK /\ BuffersWritten /\ InputReadOnce
=============================================================================
