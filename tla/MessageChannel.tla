--------------------------- MODULE MessageChannel ---------------------------
(***************************************************************************)
(* What a POSIX message queue promises its users: a bounded set of         *)
(* messages that each belong to one send that returned true, are given to  *)
(* one receive each, the highest priority first and among equals the       *)
(* oldest.  A call that returns false has changed nothing, but for a       *)
(* receive of events that met a message which is no event, and lost it.    *)
(***************************************************************************)
EXTENDS Naturals, FiniteSets

CONSTANTS Caller, Text, Events, Priority, MaxMessages, NoMessage

VARIABLES
  held,      \* the messages, with the number of their turn
  taken,     \* how many messages the channel has taken
  call,      \* the call each caller is in, and its message
  answer     \* what its last call returned, and received

channelVars == <<held, taken, call, answer>>

NoCall == [op |-> "none", text |-> NoMessage, priority |-> 0]
Calls == {NoCall} \cup [op : {"send"}, text : Text, priority : Priority]
         \cup {[NoCall EXCEPT !.op = op] : op \in {"receive", "receive_event"}}
Answer(ok, text) == [ok |-> ok, text |-> text]

ChannelInit ==
  /\ held = {}
  /\ taken = 0
  /\ call = [c \in Caller |-> NoCall]
  /\ answer = [c \in Caller |-> Answer(FALSE, NoMessage)]

Call(c) ==
  /\ call[c] = NoCall
  /\ \E d \in Calls : call' = [call EXCEPT ![c] = d]
  /\ answer' = [answer EXCEPT ![c] = Answer(FALSE, NoMessage)]
  /\ UNCHANGED <<held, taken>>

Return(c, a) ==
  /\ call' = [call EXCEPT ![c] = NoCall]
  /\ answer' = [answer EXCEPT ![c] = a]

Accept(c) ==
  /\ call[c].op = "send"
  /\ Cardinality(held) < MaxMessages
  /\ held' = held \cup {[text |-> call[c].text, priority |-> call[c].priority, turn |-> taken + 1]}
  /\ taken' = taken + 1
  /\ Return(c, Answer(TRUE, NoMessage))

\* The message whose turn it is.
IsNext(m) ==
  \A n \in held : n.priority < m.priority \/ (n.priority = m.priority /\ m.turn <= n.turn)

Deliver(c) ==
  \E m \in held :
    /\ IsNext(m)
    /\ held' = held \ {m}
    /\ \/ /\ call[c].op = "receive" \/ (call[c].op = "receive_event" /\ m.text \in Events)
          /\ Return(c, Answer(TRUE, m.text))
       \/ /\ call[c].op = "receive_event" /\ m.text \notin Events
          /\ Return(c, Answer(FALSE, NoMessage))
    /\ UNCHANGED taken

Refuse(c) ==
  /\ call[c] # NoCall
  /\ Return(c, Answer(FALSE, NoMessage))
  /\ UNCHANGED <<held, taken>>

ChannelNext == \E c \in Caller : Call(c) \/ Accept(c) \/ Deliver(c) \/ Refuse(c)

ChannelSpec == ChannelInit /\ [][ChannelNext]_channelVars
=============================================================================
