---------------------------- MODULE MessageQueue ----------------------------
(***************************************************************************)
(* The calls of elap::ipc::PosixMessageQueue, and of MessageQueueEventBus  *)
(* above it, on one queue that several callers have open: with and without *)
(* a timeout, with priorities, interrupted by signals.  A message is of a  *)
(* few kinds: events, texts that are no encoded event, and texts longer    *)
(* than mq_msgsize.  The kernel keeps the queue sorted by priority.        *)
(***************************************************************************)
EXTENDS Naturals, Sequences, SequencesExt, FiniteSets

CONSTANTS
  Caller,
  Text, Events,      \* what may be sent, and which of it encodes an event
  TooLong,           \* the texts that exceed mq_msgsize
  Priority,
  MaxMessages,       \* mq_maxmsg
  MaxTurns,          \* bound: how many messages the queue takes
  NoMessage

VARIABLES
  queue,      \* kernel: the messages, in the order they will be received
  taken,      \* how many messages the queue has taken
  call,       \* the call each caller is in
  timed,      \* that call has a deadline
  answer      \* what the last call of each returned

vars == <<queue, taken, call, timed, answer>>

Message == [text : Text, priority : Priority, turn : 1 .. MaxTurns]
NoCall == [op |-> "none", text |-> NoMessage, priority |-> 0]
Answer(ok, text) == [ok |-> ok, text |-> text]

TypeOK ==
  /\ queue \in Seq(Message)
  /\ Len(queue) <= MaxMessages
  /\ \A i \in DOMAIN queue : queue[i].text \notin TooLong
  /\ taken \in 0 .. MaxTurns
  /\ call \in [Caller -> [op : {"none", "send", "receive", "receive_event"},
                          text : Text \cup {NoMessage}, priority : Priority]]
  /\ timed \in [Caller -> BOOLEAN]
  /\ answer \in [Caller -> [ok : BOOLEAN, text : Text \cup {NoMessage}]]

Init ==
  /\ queue = <<>>
  /\ taken = 0
  /\ call = [c \in Caller |-> NoCall]
  /\ timed = [c \in Caller |-> FALSE]
  /\ answer = [c \in Caller |-> Answer(FALSE, NoMessage)]
-----------------------------------------------------------------------------
Begin(c, d) ==
  /\ call[c] = NoCall
  /\ call' = [call EXCEPT ![c] = d]
  /\ \E b \in BOOLEAN : timed' = [timed EXCEPT ![c] = b]
  /\ answer' = [answer EXCEPT ![c] = Answer(FALSE, NoMessage)]
  /\ UNCHANGED <<queue, taken>>

\* Bound: every send that has begun may still get a turn.
TurnLeft == taken + Cardinality({c \in Caller : call[c].op = "send"}) < MaxTurns

SendMessage(c) ==
  /\ TurnLeft
  /\ \E text \in Text, p \in Priority :
       Begin(c, [op |-> "send", text |-> text, priority |-> p])

\* An event goes with priority 0, and may be one that has no encoding or too
\* long a one.
Publish(c) ==
  /\ TurnLeft
  /\ \E text \in Events \cup TooLong :
       Begin(c, [op |-> "send", text |-> text, priority |-> 0])

ReceiveMessage(c) == Begin(c, [NoCall EXCEPT !.op = "receive"])

Receive(c) == Begin(c, [NoCall EXCEPT !.op = "receive_event"])

Return(c, a) ==
  /\ call' = [call EXCEPT ![c] = NoCall]
  /\ timed' = [timed EXCEPT ![c] = FALSE]
  /\ answer' = [answer EXCEPT ![c] = a]

Fails(c) == Return(c, Answer(FALSE, NoMessage)) /\ UNCHANGED <<queue, taken>>

\* Behind those of the same and of higher priority.
Sorted(m) ==
  LET before == Cardinality({i \in DOMAIN queue : queue[i].priority >= m.priority})
  IN  InsertAt(queue, before + 1, m)

Taken(c) ==
  LET m == [text |-> call[c].text, priority |-> call[c].priority, turn |-> taken + 1] IN
  queue' = Sorted(m)

\* An event with an empty topic or a newline in it is not encoded; a message
\* that is too long is not handed to the kernel.
RefuseText(c) ==
  /\ call[c].op = "send"
  /\ call[c].text \in TooLong
  /\ Fails(c)

\* mq_send() and mq_timedsend() wait while the queue is full.
SendReturns(c) ==
  /\ call[c].op = "send"
  /\ call[c].text \notin TooLong
  /\ Len(queue) < MaxMessages
  /\ Taken(c)
  /\ taken' = taken + 1
  /\ Return(c, Answer(TRUE, NoMessage))

\* mq_receive() and mq_timedreceive() wait while the queue is empty.
ReceiveReturns(c) ==
  /\ call[c].op = "receive"
  /\ queue # <<>>
  /\ queue' = Tail(queue)
  /\ Return(c, Answer(TRUE, Head(queue).text))
  /\ UNCHANGED taken

\* The message is off the queue before it is decoded.
EventReturns(c) ==
  /\ call[c].op = "receive_event"
  /\ queue # <<>>
  /\ queue' = Tail(queue)
  /\ Return(c, IF Head(queue).text \in Events THEN Answer(TRUE, Head(queue).text)
                                              ELSE Answer(FALSE, NoMessage))
  /\ UNCHANGED taken

MustWait(c) ==
  \/ call[c].op = "send" /\ call[c].text \notin TooLong /\ Len(queue) = MaxMessages
  \/ call[c].op \in {"receive", "receive_event"} /\ queue = <<>>

\* ETIMEDOUT: only a call that would have to wait looks at its deadline.
TimesOut(c) ==
  /\ MustWait(c)
  /\ timed[c]
  /\ Fails(c)

\* Mutant of Interrupted: the call was about to succeed.
InterruptedLate(c) ==
  /\ call[c].op = "send"
  /\ Len(queue) < MaxMessages
  /\ Taken(c)
  /\ taken' = taken + 1
  /\ Return(c, Answer(FALSE, NoMessage))

\* EINTR: SignalHandler installs its handler without SA_RESTART, and the call
\* is not made again.
Interrupted(c) ==
  /\ MustWait(c)
  /\ Fails(c)

CallReturns(c) ==
  RefuseText(c) \/ SendReturns(c) \/ ReceiveReturns(c) \/ EventReturns(c) \/ TimesOut(c)

Next ==
  \E c \in Caller : \/ SendMessage(c) \/ Publish(c) \/ ReceiveMessage(c) \/ Receive(c)
                    \/ CallReturns(c) \/ Interrupted(c)

Spec == Init /\ [][Next]_vars
-----------------------------------------------------------------------------
Channel == INSTANCE MessageChannel WITH held <- Range(queue)

\* Senders and receivers may rely on the channel's promise: what was sent with
\* true is received once, in the order of priorities and turns; what was sent
\* with false, timed out, interrupted or refused, is not there, so that it can
\* be sent again without being received twice.
ImplementsChannel == Channel!ChannelSpec
=============================================================================
