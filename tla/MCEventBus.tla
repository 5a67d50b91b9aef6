----------------------------- MODULE MCEventBus ----------------------------
(***************************************************************************)
(* Three processes with queues and regions, and beside them what the calls *)
(* on an open one do: messages with priorities and timeouts on a queue,    *)
(* the deadline of a call, and the bytes of a region.  The four share no   *)
(* variable; each behaviour shows one while the others rest.               *)
(***************************************************************************)
EXTENDS EventBus, MessageDeadline, TLC

CONSTANTS
  \* see MessageQueue
  Caller, Text, Events, TooLong, Priority, MaxMessages, MaxTurns, NoMessage,
  Copier,                            \* the processes of SharedBytes
  Backing, WordSize, MaxWrites       \* see SharedBytes

VARIABLES
  shown,       \* "names", "queue", "deadline" or "bytes"
  messages, taken, queueCall, timed, answer,    \* see MessageQueue
  mapped, memory, copy, copied, buffer, writes, known, alone    \* see SharedBytes

queueVars == <<messages, taken, queueCall, timed, answer>>
byteVars == <<mapped, memory, copy, copied, buffer, writes, known, alone>>

Queue == INSTANCE MessageQueue WITH queue <- messages, call <- queueCall

Bytes == INSTANCE SharedBytes WITH Process <- Copier, call <- copy

\* What rests has one initial state.
MCInit ==
  /\ Init /\ DeadlineInit /\ Queue!Init /\ Bytes!Init
  /\ shown \in {"names", "queue", "deadline", "bytes"}
  /\ shown # "deadline" => clock = TimeOf(0)

MCNext ==
  \/ shown = "names" /\ Next /\ UNCHANGED <<deadlineVars, queueVars, byteVars, shown>>
  \/ shown = "deadline" /\ DeadlineNext /\ UNCHANGED <<vars, queueVars, byteVars, shown>>
  \/ shown = "queue" /\ Queue!Next /\ UNCHANGED <<vars, deadlineVars, byteVars, shown>>
  \/ shown = "bytes" /\ Bytes!Next /\ UNCHANGED <<vars, deadlineVars, queueVars, shown>>

MCSpec == MCInit /\ [][MCNext]_<<vars, deadlineVars, queueVars, byteVars, shown>>

\* A queue with its callers is a channel that delivers each message once.
ImplementsChannel == Queue!ImplementsChannel

\* Readers of a region get what writers have finished, and nothing beyond it.
CopiesTrue == Bytes!CopiesTrue

\* No property tells one process, or one kernel object, from another.
Symmetry == Permutations(Process) \cup Permutations(Object)
=============================================================================
