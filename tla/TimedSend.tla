----------------------------- MODULE TimedSend -----------------------------
(***************************************************************************)
(* The timed sendMessage() of UnixSocketConnection, and a receiver that    *)
(* reads when it likes: writeAll() waits for room with poll() and the rest *)
(* of the deadline, and then hands all the rest of the header, or of the   *)
(* payload, to a send() that blocks until the last byte fits.              *)
(***************************************************************************)
EXTENDS UnixSocketConnection

CONSTANTS
  PayloadSizes,     \* of the messages
  MaxMessages       \* bound: messages sent

VARIABLES
  step,        \* where the sender is in writeAll()
  chunk,       \* the bytes its send() has not placed yet
  expired,     \* the deadline of its call has passed
  results,     \* history: what each sendMessage() returned
  sizes,       \* history: the payload size of each message
  received     \* history: the messages the receiver got, as their bytes

timedVars == <<connectionVars, step, chunk, expired, results, sizes, received>>

\* One connection; its client end sends.
sender == CHOOSE one \in Client : TRUE
room == Len(wire[sender]["server"]) < Capacity
rest == unsent[sender]["client"]
Message(i) == [k \in 1 .. sizes[i] |-> <<"byte", i, k>>]

SendTypeOK ==
  /\ step \in {"idle", "poll", "send"}
  /\ chunk \in 0 .. Len(rest)
  /\ chunk > 0 <=> step = "send"
  /\ rest # <<>> => step # "idle"
  /\ expired \in BOOLEAN
  /\ results \in Seq({"pending", "true", "false"}) /\ Len(results) <= MaxMessages
  /\ sizes \in Seq(PayloadSizes) /\ Len(sizes) = Len(results)
  /\ Len(received) <= MaxMessages

SendInit ==
  /\ wire = Nothing /\ unsent = Nothing /\ got = Nothing
  /\ isOpen = [d \in Client |-> End]
  /\ step = "idle" /\ chunk = 0 /\ expired = FALSE
  /\ results = <<>> /\ sizes = <<>> /\ received = <<>>
-----------------------------------------------------------------------------
SendMessage ==
  /\ step = "idle" /\ "client" \in isOpen[sender]
  /\ Len(results) < MaxMessages
  /\ \E n \in PayloadSizes :
       /\ sizes' = Append(sizes, n)
       /\ unsent' = [unsent EXCEPT ![sender]["client"] =
                       Frame([k \in 1 .. n |-> <<"byte", Len(sizes'), k>>])]
  /\ results' = Append(results, "pending")
  /\ step' = "poll" /\ expired' = FALSE
  /\ UNCHANGED <<wire, got, isOpen, chunk, received>>

Expire ==
  /\ step # "idle"
  /\ expired' = TRUE
  /\ UNCHANGED <<connectionVars, step, chunk, results, sizes, received>>

\* POLLOUT, or the peer is gone.  Header and payload are two writeAll() calls.
PollReady ==
  /\ step = "poll"
  /\ room \/ "server" \notin isOpen[sender]
  /\ step' = "send"
  /\ LET payload == sizes[Len(sizes)] IN
     chunk' = IF Len(rest) > payload THEN Len(rest) - payload ELSE Len(rest)
  /\ UNCHANGED <<connectionVars, expired, results, sizes, received>>

Return(outcome) ==
  /\ step' = "idle" /\ chunk' = 0
  /\ results' = [results EXCEPT ![Len(results)] = outcome]

\* A caller whose send failed gives the connection up, as every program does.
GiveUp ==
  /\ Return("false")
  /\ CloseEnds({sender}, "client")
  /\ UNCHANGED <<expired, sizes, received>>

PollTimesOut == step = "poll" /\ expired /\ ~room /\ GiveUp

SendByte ==
  /\ step = "send"
  /\ PutByte(sender, "client")
  /\ \/ Len(rest) = 1 /\ Return("true")
     \/ /\ Len(rest) > 1
        /\ chunk' = chunk - 1
        /\ step' = IF chunk = 1 THEN "poll" ELSE "send"
        /\ UNCHANGED results
  /\ UNCHANGED <<expired, sizes, received>>

\* Mutant of Interrupted: the partial count is dropped.
RestartsFrame ==
  /\ step = "send" /\ ~room
  /\ step' = "poll" /\ chunk' = 0
  /\ unsent' = [unsent EXCEPT ![sender]["client"] = Frame(Message(Len(sizes)))]
  /\ UNCHANGED <<wire, got, isOpen, expired, results, sizes, received>>

\* A signal ends a send() that waits for room, with the bytes it has placed.
Interrupted ==
  /\ step = "send" /\ ~room
  /\ step' = "poll" /\ chunk' = 0
  /\ UNCHANGED <<connectionVars, expired, results, sizes, received>>

SendError == step = "send" /\ SendFails(sender, "client") /\ GiveUp

CloseClient ==
  /\ step = "idle" /\ "client" \in isOpen[sender]
  /\ CloseEnds({sender}, "client")
  /\ UNCHANGED <<step, chunk, expired, results, sizes, received>>
-----------------------------------------------------------------------------
Receive ==
  /\ "server" \in isOpen[sender]
  /\ TakeByte(sender, "server")
  /\ UNCHANGED <<step, chunk, expired, results, sizes, received>>

MessageReceived ==
  /\ Received(sender, "server")
  /\ received' = Append(received, Payload(sender, "server"))
  /\ got' = [got EXCEPT ![sender]["server"] = <<>>]
  /\ UNCHANGED <<wire, unsent, isOpen, step, chunk, expired, results, sizes>>

\* Refused, or the connection has ended, or the receiver has had enough.
ReceiverCloses ==
  /\ "server" \in isOpen[sender]
  /\ CloseEnds({sender}, "server")
  /\ UNCHANGED <<step, chunk, expired, results, sizes, received>>

SenderStep == PollReady \/ PollTimesOut \/ SendByte \/ Interrupted \/ SendError

SendNext ==
  \/ SendMessage \/ SenderStep \/ Expire \/ CloseClient
  \/ Receive \/ MessageReceived \/ ReceiverCloses

Waits == PollReady \/ PollTimesOut
Sends == SendByte \/ SendError

\* The sender runs and its deadline comes; no receiver need read.
SendFairness ==
  WF_timedVars(Waits) /\ WF_timedVars(Sends) /\ WF_timedVars(Expire)

SendSpec == SendInit /\ [][SendNext]_timedVars /\ SendFairness
-----------------------------------------------------------------------------
\* Whatever the order of polls, partial sends, signals and the receiver's
\* reads, the receiver gets a beginning of the messages, each whole; and none
\* of a call that returned false.
WholeMessagesInOrder ==
  \A i \in DOMAIN received :
    i \in DOMAIN results /\ results[i] # "false" /\ received[i] = Message(i)

\* Messages keep their bounds and their types.
SentTrue == SendTypeOK /\ WholeMessagesInOrder
-----------------------------------------------------------------------------
\* What the design document asks for: "deadline-aware send"
\* (ELAP_Implementation_Architecture_OOP_Review.md, line 107).  A send with a
\* timeout returns, once the time has passed.
TimedSendReturns == (step # "idle" /\ expired) ~> step = "idle"
=============================================================================
