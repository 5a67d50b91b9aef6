------------------------ MODULE UnixSocketConnection ------------------------
(***************************************************************************)
(* elap::ipc::UnixSocketConnection: framed messages over a stream socket.  *)
(* sendMessage() and receiveMessage() hide that the kernel takes and gives *)
(* bytes as it likes.  Each operator below is a step of one end of one     *)
(* connection; the modules that extend this one say which thread takes it. *)
(* Several bytes that move in one system call are as many steps here.      *)
(***************************************************************************)
EXTENDS Naturals, Sequences

CONSTANTS
  Client,      \* the clients, each of which opens one connection; a bound
  HeaderSize,  \* bytes of the encoded payload size
  Capacity,    \* bytes the kernel buffers for a receiver
  MaxSize      \* the maxSize that receiveMessage() is called with

ASSUME SizesAssumption ==
  HeaderSize \in Nat \ {0} /\ Capacity \in Nat \ {0} /\ MaxSize \in Nat

VARIABLES
  wire,     \* per connection and end: the bytes it can read
  unsent,   \* per connection and end: the rest of the frame it is sending
  got,      \* per connection and end: what it has read of the next frame
  isOpen    \* per connection: the ends that are open

connectionVars == <<wire, unsent, got, isOpen>>

End == {"client", "server"}
Other(e) == IF e = "client" THEN "server" ELSE "client"

\* Every header byte is as good as the size it is a part of.
Frame(payload) ==
  [i \in 1..HeaderSize |-> <<"size", Len(payload)>>] \o payload

Nothing == [c \in Client |-> [e \in End |-> <<>>]]

ConnectionInit ==
  /\ wire = Nothing
  /\ unsent = Nothing
  /\ got = Nothing
  /\ isOpen = [c \in Client |-> {}]
-----------------------------------------------------------------------------
\* writeAll() hands one more byte to the kernel.
PutByte(c, e) ==
  /\ isOpen[c] = End
  /\ unsent[c][e] # <<>>
  /\ Len(wire[c][Other(e)]) < Capacity
  /\ wire' = [wire EXCEPT ![c][Other(e)] = Append(@, Head(unsent[c][e]))]
  /\ unsent' = [unsent EXCEPT ![c][e] = Tail(@)]
  /\ UNCHANGED <<got, isOpen>>

\* EPIPE or ECONNRESET, MSG_NOSIGNAL: the peer has closed.
SendFails(c, e) == unsent[c][e] # <<>> /\ Other(e) \notin isOpen[c]

HeaderRead(c, e) == Len(got[c][e]) >= HeaderSize
SizeRead(c, e) == got[c][e][1][2]

\* receiveMessage() refuses a payload before it allocates storage for it.
TooLarge(c, e) == HeaderRead(c, e) /\ SizeRead(c, e) > MaxSize

Received(c, e) ==
  /\ HeaderRead(c, e)
  /\ ~TooLarge(c, e)
  /\ Len(got[c][e]) = HeaderSize + SizeRead(c, e)

\* The payload of a frame that has been received.
Payload(c, e) == SubSeq(got[c][e], HeaderSize + 1, Len(got[c][e]))

\* readAll() takes one more byte of the header, or of the payload of a frame
\* that is not too large.
TakeByte(c, e) ==
  /\ ~Received(c, e)
  /\ ~TooLarge(c, e)
  /\ wire[c][e] # <<>>
  /\ got' = [got EXCEPT ![c][e] = Append(@, Head(wire[c][e]))]
  /\ wire' = [wire EXCEPT ![c][e] = Tail(@)]
  /\ UNCHANGED <<unsent, isOpen>>

\* recv() returns 0, or the error the peer's close() has left.
PeerGone(c, e) == wire[c][e] = <<>> /\ Other(e) \notin isOpen[c] /\ ~Received(c, e)

\* Mutant of ReceiveTimesOut: the deadline is ignored.
ReceiveWithoutDeadline(c, e) == FALSE

\* waitForDescriptor() gives up only while there is nothing to read, at any
\* byte of the frame.
ReceiveTimesOut(c, e) == wire[c][e] = <<>> /\ ~Received(c, e) /\ ~TooLarge(c, e)

\* What has arrived and was not read is gone; what was sent is not.
CloseEnds(cs, e) ==
  /\ isOpen' = [c \in Client |-> IF c \in cs THEN isOpen[c] \ {e} ELSE isOpen[c]]
  /\ wire' = [c \in Client |->
                IF c \in cs THEN [wire[c] EXCEPT ![e] = <<>>] ELSE wire[c]]
  /\ unsent' = [c \in Client |->
                  IF c \in cs THEN [unsent[c] EXCEPT ![e] = <<>>] ELSE unsent[c]]
  /\ got' = [c \in Client |->
               IF c \in cs THEN [got[c] EXCEPT ![e] = <<>>] ELSE got[c]]
=============================================================================
