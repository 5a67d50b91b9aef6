-------------------------- MODULE SampleIpcServer --------------------------
(***************************************************************************)
(* The process of sample_ipc_server, from the return of start() on, and    *)
(* its clients:                                                            *)
(*   - the listener thread accepts a connection, reads one request, sends  *)
(*     one reply and closes, with a deadline on every operation;           *)
(*   - the main thread, in stop(), closes the server under the listener's  *)
(*     feet, asks the listener to stop and joins it;                       *)
(*   - clients connect, send and receive without deadlines, stall or die.  *)
(* fd_ is read by one thread and written by the other without a lock: each *)
(* read returns the value before or the value after the write.             *)
(***************************************************************************)
EXTENDS UnixSocketConnection

CONSTANTS
  NoClient,
  Prefix,    \* the bytes the reply puts before the request
  Polite     \* the clients that go on until they have an answer

ASSUME PoliteAssumption == Polite \subseteq Client /\ NoClient \notin Client
ASSUME PrefixAssumption == Prefix \in Seq({"prefix"} \X Nat)

VARIABLES
  fdSet,      \* fd_ holds the descriptor, and not -1
  fdOpen,     \* the descriptor is open
  named,      \* the path names the listening socket
  queue,      \* connections that wait to be accepted
  stopFlag,   \* the listener's stop flag
  listener,   \* where the listener thread is
  pollFdSet,  \* the pollfd holds the descriptor, and not -1
  current,    \* the client whose connection the listener holds
  main,       \* where the main thread is
  client,     \* where each client is
  request,    \* the payload each client sends
  answer,     \* the payload each client received
  served      \* history: the clients to whom a whole reply was sent

serverVars == <<fdSet, fdOpen, named, queue, stopFlag, listener, pollFdSet, current>>
clientVars == <<client, request, answer>>
ipcVars == <<connectionVars, serverVars, main, clientVars, served>>

\* Payloads of every size up to one byte more than the server takes.
Payloads(c) == {[i \in 1..n |-> <<c, i>>] : n \in 0..(MaxSize + 1)}

IpcTypeOK ==
  /\ \A c \in Client :
       /\ isOpen[c] \subseteq End
       /\ \A e \in End : Len(wire[c][e]) <= Capacity
       /\ request[c] \in Payloads(c)
       /\ Len(answer[c]) <= MaxSize
  /\ {fdSet, fdOpen, named, stopFlag, pollFdSet} \subseteq BOOLEAN
  /\ \A i, j \in 1..Len(queue) : queue[i] = queue[j] => i = j
  /\ current \in Client \cup {NoClient}
  /\ (current # NoClient) <=> (listener \in {"receive", "reply"})
  /\ listener \in {"check", "tryAccept", "fill", "poll", "polling", "accept",
                   "receive", "reply", "exited"}
  /\ main \in {"running", "closed", "forgot", "unlinked", "joining", "stopped"}
  /\ client \in [Client -> {"new", "sending", "receiving", "answered", "failed",
                            "killed"}]

IpcInit ==
  /\ ConnectionInit
  /\ fdSet = TRUE /\ fdOpen = TRUE /\ named = TRUE
  /\ queue = <<>>
  /\ stopFlag = FALSE
  /\ listener = "check"
  /\ pollFdSet = FALSE
  /\ current = NoClient
  /\ main = "running"
  /\ client = [c \in Client |-> "new"]
  /\ request \in [Client -> UNION {Payloads(c) : c \in Client}]
  /\ \A c \in Client : request[c] \in Payloads(c)
  /\ answer = [c \in Client |-> <<>>]
  /\ served = {}

Waiting == {queue[i] : i \in 1..Len(queue)}
-----------------------------------------------------------------------------
(* The listener thread.                                                    *)

CheckStop ==
  /\ listener = "check"
  /\ listener' = IF stopFlag THEN "exited" ELSE "tryAccept"
  /\ UNCHANGED <<connectionVars, fdSet, fdOpen, named, queue, stopFlag, pollFdSet,
                 current, main, clientVars, served>>

\* tryAccept() reads fd_ to test it, and once more for its pollfd.
TestListening ==
  /\ listener = "tryAccept"
  /\ listener' = IF fdSet THEN "fill" ELSE "check"
  /\ UNCHANGED <<connectionVars, fdSet, fdOpen, named, queue, stopFlag, pollFdSet,
                 current, main, clientVars, served>>

FillDescriptor ==
  /\ listener = "fill"
  /\ pollFdSet' = fdSet
  /\ listener' = "poll"
  /\ UNCHANGED <<connectionVars, fdSet, fdOpen, named, queue, stopFlag, current,
                 main, clientVars, served>>

\* poll() waits the whole timeout on a negative descriptor, and returns
\* POLLNVAL at once on one that is closed.
BeginPoll ==
  /\ listener = "poll"
  /\ listener' = CASE ~pollFdSet             -> "check"
                   [] pollFdSet /\ fdOpen    -> "polling"
                   [] pollFdSet /\ ~fdOpen   -> "accept"
  /\ UNCHANGED <<connectionVars, fdSet, fdOpen, named, queue, stopFlag, pollFdSet,
                 current, main, clientVars, served>>

\* The kernel frees a listening socket and resets what waits in its queue when
\* neither the descriptor nor a poll() holds it any more.
FreeSocket(held) ==
  IF held THEN UNCHANGED <<connectionVars, queue>>
          ELSE CloseEnds(Waiting, "server") /\ queue' = <<>>

PollReturns ==
  /\ listener = "polling"
  /\ listener' = IF queue # <<>> THEN "accept" ELSE "check"
  /\ FreeSocket(fdOpen)
  /\ UNCHANGED <<fdSet, fdOpen, named, stopFlag, pollFdSet, current, main,
                 clientVars, served>>

\* accept() tests fd_ and reads it again; a closed descriptor is an error that
\* is logged, and the loop goes on.
Accept ==
  /\ listener = "accept"
  /\ \/ /\ fdSet /\ fdOpen
        /\ queue # <<>>
        /\ current' = Head(queue)
        /\ queue' = Tail(queue)
        /\ listener' = "receive"
     \/ /\ ~(fdSet /\ fdOpen)
        /\ listener' = "check"
        /\ UNCHANGED <<current, queue>>
  /\ UNCHANGED <<connectionVars, fdSet, fdOpen, named, stopFlag, pollFdSet, main,
                 clientVars, served>>

ListenerReads ==
  /\ listener = "receive"
  /\ TakeByte(current, "server")
  /\ UNCHANGED <<serverVars, main, clientVars, served>>

ListenerReplies ==
  /\ listener = "receive"
  /\ Received(current, "server")
  /\ unsent' = [unsent EXCEPT ![current]["server"] =
                  Frame(Prefix \o Payload(current, "server"))]
  /\ listener' = "reply"
  /\ UNCHANGED <<wire, got, isOpen, fdSet, fdOpen, named, queue, stopFlag,
                 pollFdSet, current, main, clientVars, served>>

ListenerWrites ==
  /\ listener = "reply"
  /\ PutByte(current, "server")
  /\ UNCHANGED <<serverVars, main, clientVars, served>>

\* Mutant of EndIteration: the connection is not closed.
EndIterationOpen ==
  /\ UNCHANGED connectionVars
  /\ current' = NoClient
  /\ listener' = "check"
  /\ UNCHANGED <<fdSet, fdOpen, named, queue, stopFlag, pollFdSet, main, clientVars>>

\* The end of the loop's body destroys the connection.
EndIteration ==
  /\ CloseEnds({current}, "server")
  /\ current' = NoClient
  /\ listener' = "check"
  /\ UNCHANGED <<fdSet, fdOpen, named, queue, stopFlag, pollFdSet, main, clientVars>>

ReceiveFails ==
  /\ listener = "receive"
  /\ \/ PeerGone(current, "server")
     \/ TooLarge(current, "server")
     \/ ReceiveTimesOut(current, "server")
  /\ EndIteration
  /\ UNCHANGED served

\* Mutant of ReplySent: the reply counts as sent with its header.
ReplyHeaderSent ==
  /\ listener = "reply"
  /\ Len(unsent[current]["server"]) <= 1
  /\ served' = served \cup {current}
  /\ EndIteration

ReplySent ==
  /\ listener = "reply"
  /\ unsent[current]["server"] = <<>>
  /\ served' = served \cup {current}
  /\ EndIteration

ReplyFails ==
  /\ listener = "reply"
  /\ SendFails(current, "server")
  /\ EndIteration
  /\ UNCHANGED served

ListenerStep ==
  \/ CheckStop \/ TestListening \/ FillDescriptor \/ BeginPoll \/ PollReturns
  \/ Accept \/ ListenerReads \/ ListenerReplies \/ ListenerWrites
  \/ ReceiveFails \/ ReplySent \/ ReplyFails
-----------------------------------------------------------------------------
(* The main thread: stop() and the server's close().                       *)

CloseDescriptor ==
  /\ main = "running"
  /\ fdOpen' = FALSE
  /\ FreeSocket(listener = "polling")
  /\ main' = "closed"
  /\ UNCHANGED <<fdSet, named, stopFlag, listener, pollFdSet, current, clientVars,
                 served>>

ForgetDescriptor ==
  /\ main = "closed"
  /\ fdSet' = FALSE
  /\ main' = "forgot"
  /\ UNCHANGED <<connectionVars, fdOpen, named, queue, stopFlag, listener, pollFdSet,
                 current, clientVars, served>>

UnlinkPath ==
  /\ main = "forgot"
  /\ named' = FALSE
  /\ main' = "unlinked"
  /\ UNCHANGED <<connectionVars, fdSet, fdOpen, queue, stopFlag, listener, pollFdSet,
                 current, clientVars, served>>

\* Mutant of RequestStop: the flag is not raised.
RequestForgotten ==
  /\ main = "unlinked"
  /\ main' = "joining"
  /\ UNCHANGED <<connectionVars, serverVars, clientVars, served>>

RequestStop ==
  /\ main = "unlinked"
  /\ stopFlag' = TRUE
  /\ main' = "joining"
  /\ UNCHANGED <<connectionVars, fdSet, fdOpen, named, queue, listener, pollFdSet,
                 current, clientVars, served>>

JoinListener ==
  /\ main = "joining"
  /\ listener = "exited"
  /\ main' = "stopped"
  /\ UNCHANGED <<connectionVars, serverVars, clientVars, served>>

StopStep == ForgetDescriptor \/ UnlinkPath \/ RequestStop \/ JoinListener
-----------------------------------------------------------------------------
(* The clients: main() of sample_ipc_client.                               *)

ClientGoes(c, where) == client' = [client EXCEPT ![c] = where]

Connect(c) ==
  /\ client[c] = "new"
  /\ IF named /\ (fdOpen \/ listener = "polling")
     THEN /\ queue' = Append(queue, c)
          /\ isOpen' = [isOpen EXCEPT ![c] = End]
          /\ unsent' = [unsent EXCEPT ![c]["client"] = Frame(request[c])]
          /\ ClientGoes(c, "sending")
     ELSE ClientGoes(c, "failed") /\ UNCHANGED <<queue, isOpen, unsent>>
  /\ UNCHANGED <<wire, got, fdSet, fdOpen, named, stopFlag, listener, pollFdSet,
                 current, main, request, answer, served>>

ClientMoves(c) ==
  /\ \/ client[c] = "sending" /\ PutByte(c, "client") /\ UNCHANGED client
     \/ client[c] = "receiving" /\ TakeByte(c, "client") /\ UNCHANGED client
     \/ /\ client[c] = "sending"
        /\ unsent[c]["client"] = <<>>
        /\ ClientGoes(c, "receiving")
        /\ UNCHANGED connectionVars
  /\ UNCHANGED <<serverVars, main, request, answer, served>>

ClientAnswered(c) ==
  /\ client[c] = "receiving"
  /\ Received(c, "client")
  /\ answer' = [answer EXCEPT ![c] = Payload(c, "client")]
  /\ CloseEnds({c}, "client")
  /\ ClientGoes(c, "answered")
  /\ UNCHANGED <<serverVars, main, request, served>>

ClientFails(c) ==
  /\ \/ client[c] = "sending" /\ SendFails(c, "client")
     \/ /\ client[c] = "receiving"
        /\ PeerGone(c, "client") \/ TooLarge(c, "client")
  /\ CloseEnds({c}, "client")
  /\ ClientGoes(c, "failed")
  /\ UNCHANGED <<serverVars, main, request, answer, served>>

ClientKilled(c) ==
  /\ client[c] \in {"sending", "receiving"}
  /\ CloseEnds({c}, "client")
  /\ ClientGoes(c, "killed")
  /\ UNCHANGED <<serverVars, main, request, answer, served>>

ClientStep(c) == ClientMoves(c) \/ ClientAnswered(c) \/ ClientFails(c)
-----------------------------------------------------------------------------
IpcNext ==
  \/ ListenerStep
  \/ CloseDescriptor
  \/ StopStep
  \/ \E c \in Client : Connect(c) \/ ClientStep(c) \/ ClientKilled(c)

\* Both threads are scheduled, deadlines pass, and polite clients go on.  No
\* client need connect, and nobody need stop the service.
IpcFairness ==
  /\ WF_ipcVars(ListenerStep)
  /\ WF_ipcVars(StopStep)
  /\ \A c \in Polite : WF_ipcVars(ClientStep(c))

IpcSpec == IpcInit /\ [][IpcNext]_ipcVars /\ IpcFairness
-----------------------------------------------------------------------------
\* Whatever the kernel makes of the bytes, a client that gets an answer gets
\* the prefix and its own request, whole and in order.
AnswersEchoRequests ==
  \A c \in Client : client[c] = "answered" => answer[c] = Prefix \o request[c]

\* The server holds no connection but the one it serves and those that wait to
\* be accepted: every continue of the loop, and stop(), closes what it drops.
NoConnectionLeaks ==
  \A c \in Client : "server" \in isOpen[c] => c = current \/ c \in Waiting

\* A reply that sendMessage() has sent arrives although the server closes the
\* connection at once, unless the prefix makes it longer than the client takes.
SentRepliesArrive ==
  \A c \in served :
    client[c] = "failed" => Len(Prefix) + Len(request[c]) > MaxSize

\* Replies are true to their requests, and to what the sender was told.
RepliesTrue == IpcTypeOK /\ AnswersEchoRequests /\ SentRepliesArrive

\* A client that has connected and goes on comes back with an answer or an
\* error: other clients that stall cannot hold it up for ever, and neither can
\* a stop() at any moment, which closes the socket it waits on.
ClientsComeBack ==
  \A c \in Polite :
    client[c] \in {"sending", "receiving"}
      ~> client[c] \in {"answered", "failed", "killed"}

\* stop() returns: the listener finds its flag, whichever client keeps it busy
\* and however close() has changed the descriptor it was about to use.
StopCompletes == (main # "running") ~> (main = "stopped")
=============================================================================
