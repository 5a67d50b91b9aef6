----------------------- MODULE SampleIpcServerProofs -----------------------
(***************************************************************************)
(* The invariants of SampleIpcServer, for any number of clients, any       *)
(* buffer, header and payload size and any prefix of the replies.  What    *)
(* the kernel and the two ends hold of a frame - read, on the wire, not    *)
(* yet sent - always joins up to the frame, or to a beginning of it once   *)
(* its sender has closed: that is what the proof keeps.                    *)
(***************************************************************************)
EXTENDS SampleIpcServer, TimedSend, SequenceTheorems, TLAPS

\* Everything that can be on a wire: bytes of headers, of prefixes and of the
\* requests of clients, and those of the messages of TimedSend.
Byte == (({"size", "prefix"} \cup Client) \X Nat) \cup ({"byte"} \X Nat \X Nat)

\* The sequence s is a beginning of the sequence whole.
Starts(s, whole) == \E r \in Seq(Byte) : s \o r = whole
-----------------------------------------------------------------------------
(* Frames, and bytes that move from the head of one sequence to the end of *)
(* another.                                                                *)

\* A byte that is passed on leaves the two sequences the same when joined.
LEMMA ByteMoves ==
  ASSUME NEW S, NEW t \in Seq(S), NEW s \in Seq(S), s # <<>>
  PROVE  /\ Append(t, Head(s)) \in Seq(S)
         /\ Tail(s) \in Seq(S)
         /\ Len(Append(t, Head(s))) = Len(t) + 1
         /\ Append(t, Head(s)) \o Tail(s) = t \o s
<1>1. Head(s) \in S /\ Tail(s) \in Seq(S) /\ s = <<Head(s)>> \o Tail(s)
  BY HeadTailProperties
<1>2. Append(t, Head(s)) = t \o <<Head(s)>>
  BY <1>1, AppendIsConcat
<1>3. <<Head(s)>> \in Seq(S)
  BY <1>1
<1>4. (t \o <<Head(s)>>) \o Tail(s) = t \o (<<Head(s)>> \o Tail(s))
  BY <1>1, <1>3, ConcatAssociative
<1>. QED BY <1>1, <1>2, <1>4, AppendProperties

LEMMA PrefixIsBytes == Prefix \in Seq(Byte) /\ Len(Prefix) \in Nat
<1>1. Prefix \in Seq({"prefix"} \X Nat)
  BY PrefixAssumption
<1>2. {"prefix"} \X Nat \subseteq Byte
  BY DEF Byte
<1>. QED BY <1>1, <1>2, SeqMonotonic, LenProperties

\* A frame is a header, each byte of which tells the size, and the payload.
LEMMA FrameShape ==
  ASSUME NEW p \in Seq(Byte)
  PROVE  /\ Frame(p) \in Seq(Byte)
         /\ Len(Frame(p)) = HeaderSize + Len(p)
         /\ Frame(p)[1][2] = Len(p)
         /\ SubSeq(Frame(p), HeaderSize + 1, HeaderSize + Len(p)) = p
<1> DEFINE h == [i \in 1..HeaderSize |-> <<"size", Len(p)>>]
<1>1. HeaderSize \in Nat \ {0} /\ Len(p) \in Nat
  BY SizesAssumption, LenProperties
<1>2. h \in Seq(Byte) /\ Len(h) = HeaderSize
  BY <1>1 DEF Byte
<1>3. Frame(p) = h \o p
  BY DEF Frame
<1>4. h[1] = <<"size", Len(p)>>
  BY <1>1
<1>. HIDE DEF h
<1>5. Frame(p) \in Seq(Byte) /\ Len(Frame(p)) = HeaderSize + Len(p)
  BY <1>2, <1>3, ConcatProperties
<1>6. Frame(p)[1] = h[1]
  BY <1>1, <1>2, <1>3
<1>7. SubSeq(h \o p, HeaderSize + 1, HeaderSize + Len(p)) = p
  <2>1. CASE Len(p) = 0
    BY <2>1, <1>1, SubSeqEmpty, EmptySeq
  <2>2. CASE Len(p) # 0
    <3>1. SubSeq(h \o p, HeaderSize + 1, HeaderSize + Len(p)) = SubSeq(p, 1, Len(p))
      BY <2>2, <1>1, <1>2, SubSeqOfConcat2
    <3>. QED BY <3>1, SubSeqFull
  <2>. QED BY <2>1, <2>2
<1>8. Frame(p)[1][2] = Len(p)
  BY <1>4, <1>6
<1>. QED BY <1>3, <1>5, <1>7, <1>8

\* What a beginning of a frame says of the frame.
LEMMA StartOfFrame ==
  ASSUME NEW p \in Seq(Byte), NEW g \in Seq(Byte), NEW r \in Seq(Byte),
         g \o r = Frame(p)
  PROVE  /\ Len(g) <= HeaderSize + Len(p)
         /\ Len(g) >= HeaderSize => g[1][2] = Len(p)
         /\ Len(g) = HeaderSize + Len(p) => g = Frame(p) /\ r = <<>>
<1>1. HeaderSize \in Nat \ {0} /\ Len(p) \in Nat /\ Len(g) \in Nat /\ Len(r) \in Nat
  BY SizesAssumption, LenProperties
<1>2. Len(g) + Len(r) = HeaderSize + Len(p)
  <2>1. Len(g \o r) = Len(g) + Len(r)
    BY ConcatProperties
  <2>2. Len(Frame(p)) = HeaderSize + Len(p)
    BY FrameShape
  <2>. QED BY <2>1, <2>2
<1>3. Len(g) >= 1 => g[1] = Frame(p)[1]
  BY <1>1
<1>4. Len(r) = 0 => r = <<>> /\ g = Frame(p)
  BY ConcatEmptySeq, EmptySeq
<1>5. Frame(p)[1][2] = Len(p)
  BY FrameShape
<1>. QED BY <1>1, <1>2, <1>3, <1>4, <1>5

\* A beginning of a beginning is one.
LEMMA StartsShorter ==
  ASSUME NEW s \in Seq(Byte), NEW t \in Seq(Byte), NEW whole, Starts(s \o t, whole)
  PROVE  Starts(s, whole)
<1>1. PICK r \in Seq(Byte) : (s \o t) \o r = whole
  BY DEF Starts
<1>2. (s \o t) \o r = s \o (t \o r)
  BY ConcatAssociative
<1>3. t \o r \in Seq(Byte)
  BY ConcatProperties
<1>. QED BY <1>1, <1>2, <1>3 DEF Starts

\* The first of three joined sequences, and the size of all three.
LEMMA StartsThird ==
  ASSUME NEW g \in Seq(Byte), NEW w \in Seq(Byte), NEW u \in Seq(Byte),
         NEW whole, Starts((g \o w) \o u, whole)
  PROVE  /\ Starts(g, whole)
         /\ Len(g) + Len(w) + Len(u) <= Len(whole)
<1>1. g \o w \in Seq(Byte) /\ Len(g \o w) = Len(g) + Len(w)
  BY ConcatProperties
<1>2. Starts(g, whole)
  <2>1. Starts(g \o w, whole)
    BY <1>1, StartsShorter
  <2>. QED BY <2>1, StartsShorter
<1>3. PICK r \in Seq(Byte) : ((g \o w) \o u) \o r = whole
  BY DEF Starts
<1>4. (g \o w) \o u \in Seq(Byte) /\ Len((g \o w) \o u) = Len(g \o w) + Len(u)
  BY <1>1, ConcatProperties
<1>5. Len(whole) = Len((g \o w) \o u) + Len(r)
  BY <1>3, <1>4, ConcatProperties
<1>6. Len(g) \in Nat /\ Len(w) \in Nat /\ Len(u) \in Nat /\ Len(r) \in Nat
  BY LenProperties
<1>. QED BY <1>1, <1>2, <1>4, <1>5, <1>6
-----------------------------------------------------------------------------
(* Steps on a connection.                                                  *)

\* The sets of what moves between the ends, and of who can be where.
Bytes ==
  /\ wire \in [Client -> [End -> Seq(Byte)]]
  /\ unsent \in [Client -> [End -> Seq(Byte)]]
  /\ got \in [Client -> [End -> Seq(Byte)]]
  /\ isOpen \in [Client -> SUBSET End]

People ==
  /\ request \in [Client -> Seq(Byte)]
  /\ answer \in [Client -> Seq(Byte)]
  /\ queue \in Seq(Client)
  /\ served \subseteq Client

\* The step does nothing on the connection of d.
Untouched(d) ==
  /\ wire'[d] = wire[d] /\ unsent'[d] = unsent[d]
  /\ got'[d] = got[d] /\ isOpen'[d] = isOpen[d]

LEMMA Ends == End = {"client", "server"} /\ \A e \in End : Other(e) \in End /\ Other(e) # e
  BY DEF End, Other

LEMMA PutEffect ==
  ASSUME Bytes, NEW d \in Client, NEW e \in End, PutByte(d, e)
  PROVE  /\ Bytes'
         /\ \A o \in Client \ {d} : Untouched(o)
         /\ isOpen[d] = End /\ isOpen'[d] = End
         /\ got'[d] = got[d]
         /\ unsent[d][e] # <<>>
         /\ Len(wire[d][Other(e)]) < Capacity
         /\ Len(wire'[d][Other(e)]) = Len(wire[d][Other(e)]) + 1
         /\ wire'[d][e] = wire[d][e] /\ unsent'[d][Other(e)] = unsent[d][Other(e)]
         /\ wire'[d][Other(e)] \o unsent'[d][e] = wire[d][Other(e)] \o unsent[d][e]
<1> DEFINE f == Other(e)  w == wire[d][f]  u == unsent[d][e]
<1>1. f \in End /\ f # e
  BY Ends
<1>2. w \in Seq(Byte) /\ u \in Seq(Byte) /\ u # <<>>
  BY <1>1 DEF Bytes, PutByte
<1>3. wire' = [wire EXCEPT ![d] = [wire[d] EXCEPT ![f] = Append(w, Head(u))]]
  BY DEF PutByte, Bytes
<1>4. unsent' = [unsent EXCEPT ![d] = [unsent[d] EXCEPT ![e] = Tail(u)]]
  BY DEF PutByte, Bytes
<1>5. /\ Append(w, Head(u)) \in Seq(Byte) /\ Tail(u) \in Seq(Byte)
      /\ Len(Append(w, Head(u))) = Len(w) + 1
      /\ Append(w, Head(u)) \o Tail(u) = w \o u
  BY <1>2, ByteMoves
<1>6. /\ got' = got /\ isOpen' = isOpen /\ isOpen[d] = End /\ unsent[d][e] # <<>>
      /\ Len(wire[d][Other(e)]) < Capacity
  BY DEF PutByte
<1>. HIDE DEF w, u, f
<1>7. wire'[d][f] = Append(w, Head(u)) /\ unsent'[d][e] = Tail(u)
  BY <1>1, <1>3, <1>4 DEF Bytes
<1>8. wire'[d][e] = wire[d][e] /\ unsent'[d][f] = unsent[d][f]
  BY <1>1, <1>3, <1>4 DEF Bytes
<1>9. \A o \in Client \ {d} : Untouched(o)
  BY <1>3, <1>4, <1>6 DEF Untouched, Bytes
<1>10. Bytes'
  BY <1>1, <1>3, <1>4, <1>5, <1>6 DEF Bytes
<1>. QED BY <1>5, <1>6, <1>7, <1>8, <1>9, <1>10 DEF w, u, f

LEMMA TakeEffect ==
  ASSUME Bytes, NEW d \in Client, NEW e \in End, TakeByte(d, e)
  PROVE  /\ Bytes'
         /\ \A o \in Client \ {d} : Untouched(o)
         /\ isOpen'[d] = isOpen[d] /\ unsent'[d] = unsent[d]
         /\ got'[d][Other(e)] = got[d][Other(e)] /\ wire'[d][Other(e)] = wire[d][Other(e)]
         /\ Len(wire'[d][e]) < Len(wire[d][e])
         /\ got'[d][e] \o wire'[d][e] = got[d][e] \o wire[d][e]
<1> DEFINE f == Other(e)  w == wire[d][e]  g == got[d][e]
<1>1. f \in End /\ f # e
  BY Ends
<1>2. w \in Seq(Byte) /\ g \in Seq(Byte) /\ w # <<>>
  BY DEF Bytes, TakeByte
<1>3. got' = [got EXCEPT ![d] = [got[d] EXCEPT ![e] = Append(g, Head(w))]]
  BY DEF TakeByte, Bytes
<1>4. wire' = [wire EXCEPT ![d] = [wire[d] EXCEPT ![e] = Tail(w)]]
  BY DEF TakeByte, Bytes
<1>5. /\ Append(g, Head(w)) \in Seq(Byte) /\ Tail(w) \in Seq(Byte)
      /\ Append(g, Head(w)) \o Tail(w) = g \o w
  BY <1>2, ByteMoves
<1>6. unsent' = unsent /\ isOpen' = isOpen
  BY DEF TakeByte
<1>7. Len(Tail(w)) < Len(w)
  BY <1>2, HeadTailProperties, LenProperties
<1>. HIDE DEF w, g, f
<1>8. got'[d][e] = Append(g, Head(w)) /\ wire'[d][e] = Tail(w)
  BY <1>1, <1>3, <1>4 DEF Bytes
<1>9. got'[d][f] = got[d][f] /\ wire'[d][f] = wire[d][f]
  BY <1>1, <1>3, <1>4 DEF Bytes
<1>10. \A o \in Client \ {d} : Untouched(o)
  BY <1>3, <1>4, <1>6 DEF Untouched, Bytes
<1>11. Bytes'
  BY <1>1, <1>3, <1>4, <1>5, <1>6 DEF Bytes
<1>. QED BY <1>5, <1>6, <1>7, <1>8, <1>9, <1>10, <1>11 DEF w, g, f

LEMMA CloseEffect ==
  ASSUME Bytes, NEW ds, NEW e \in End, CloseEnds(ds, e)
  PROVE  /\ Bytes'
         /\ \A o \in Client \ ds : Untouched(o)
         /\ \A d \in ds \cap Client :
              LET f == Other(e) IN
              /\ isOpen'[d] = isOpen[d] \ {e}
              /\ wire'[d][e] = <<>> /\ unsent'[d][e] = <<>> /\ got'[d][e] = <<>>
              /\ wire'[d][f] = wire[d][f] /\ unsent'[d][f] = unsent[d][f]
              /\ got'[d][f] = got[d][f]
<1>1. Other(e) \in End /\ Other(e) # e /\ <<>> \in Seq(Byte)
  BY Ends, EmptySeq
<1>2. Bytes'
  BY <1>1 DEF Bytes, CloseEnds
<1>3. \A o \in Client \ ds : Untouched(o)
  BY DEF CloseEnds, Untouched
<1>4. ASSUME NEW d \in ds \cap Client, NEW f, f = Other(e)
      PROVE  /\ isOpen'[d] = isOpen[d] \ {e}
             /\ wire'[d][e] = <<>> /\ unsent'[d][e] = <<>> /\ got'[d][e] = <<>>
             /\ wire'[d][f] = wire[d][f] /\ unsent'[d][f] = unsent[d][f]
             /\ got'[d][f] = got[d][f]
  BY <1>1, <1>4 DEF Bytes, CloseEnds
<1>. QED BY <1>2, <1>3, <1>4
-----------------------------------------------------------------------------
(* Who holds which end.                                                    *)

\* The client's end is open while the client is at it, and the server's while
\* the connection waits to be accepted or is being served.
EndsHeld ==
  \A d \in Client :
    /\ "client" \in isOpen[d] <=> client[d] \in {"sending", "receiving"}
    /\ "server" \in isOpen[d] <=> d = current \/ d \in Waiting
    /\ client[d] = "new" => isOpen[d] = {}
    /\ d = current => d \notin Waiting

HoldInv == Bytes /\ People /\ IpcTypeOK /\ EndsHeld

LEMMA PayloadsAreBytes ==
  ASSUME NEW d \in Client, NEW p \in Payloads(d)
  PROVE  p \in Seq(Byte)
<1>1. PICK n \in 0..(MaxSize + 1) : p = [i \in 1..n |-> <<d, i>>]
  BY DEF Payloads
<1>2. n \in Nat /\ \A i \in 1..n : <<d, i>> \in Byte
  BY SizesAssumption DEF Byte
<1>. QED BY <1>1, <1>2

LEMMA InitHold == IpcInit => HoldInv
<1>. SUFFICES ASSUME IpcInit PROVE HoldInv
  OBVIOUS
<1>1. Bytes
  BY EmptySeq DEF IpcInit, ConnectionInit, Nothing, Bytes, End
<1>2. People
  <2>1. request \in [Client -> Seq(Byte)]
    BY PayloadsAreBytes DEF IpcInit
  <2>. QED BY <2>1, EmptySeq DEF IpcInit, People
<1>3. Waiting = {}
  BY DEF IpcInit, Waiting
<1>4. ASSUME NEW d \in Client
      PROVE  /\ isOpen[d] \subseteq End
             /\ \A e \in End : Len(wire[d][e]) <= Capacity
             /\ request[d] \in Payloads(d)
             /\ Len(answer[d]) <= MaxSize
  BY SizesAssumption DEF IpcInit, ConnectionInit, Nothing
<1>5. {fdSet, fdOpen, named, stopFlag, pollFdSet} \subseteq BOOLEAN
  BY Zenon DEF IpcInit
<1>51. \A i, j \in 1..Len(queue) : queue[i] = queue[j] => i = j
  BY EmptySeq DEF IpcInit
<1>6. IpcTypeOK
  BY <1>4, <1>5, <1>51 DEF IpcInit, IpcTypeOK
<1>7. EndsHeld
  BY <1>3, PoliteAssumption DEF IpcInit, ConnectionInit, EndsHeld
<1>. QED BY <1>1, <1>2, <1>6, <1>7 DEF HoldInv

\* A step that leaves queue, connections and clients alone.
Quiet ==
  \/ CheckStop \/ TestListening \/ FillDescriptor \/ BeginPoll
  \/ ForgetDescriptor \/ UnlinkPath \/ RequestStop \/ JoinListener

LEMMA QuietHold == HoldInv /\ Quiet => HoldInv'
<1>. SUFFICES ASSUME HoldInv, Quiet PROVE HoldInv'
  OBVIOUS
<1>1. /\ UNCHANGED <<connectionVars, queue, current, clientVars, served>>
      /\ (listener' = listener \/ {listener, listener'} \cap {"receive", "reply"} = {})
      /\ listener' \in {"check", "tryAccept", "fill", "poll", "polling", "accept",
                        "receive", "reply", "exited"}
      /\ {fdSet', fdOpen', named', stopFlag', pollFdSet'} \subseteq BOOLEAN
      /\ main' \in {"running", "closed", "forgot", "unlinked", "joining", "stopped"}
  BY DEF Quiet, CheckStop, TestListening, FillDescriptor, BeginPoll, ForgetDescriptor,
         UnlinkPath, RequestStop, JoinListener, HoldInv, IpcTypeOK, serverVars
<1>2. Bytes' /\ People'
  BY <1>1 DEF HoldInv, Bytes, People, connectionVars, clientVars
<1>3. IpcTypeOK'
  BY <1>1 DEF HoldInv, IpcTypeOK, connectionVars, clientVars
<1>4. EndsHeld'
  BY <1>1 DEF HoldInv, EndsHeld, Waiting, connectionVars, clientVars
<1>. QED BY <1>2, <1>3, <1>4 DEF HoldInv

\* The queue after its head is taken.
LEMMA HeadTaken ==
  ASSUME NEW q \in Seq(Client), q # <<>>,
         \A i, j \in 1..Len(q) : q[i] = q[j] => i = j
  PROVE  LET t == Tail(q) IN
         /\ t \in Seq(Client)
         /\ \A i, j \in 1..Len(t) : t[i] = t[j] => i = j
         /\ {t[i] : i \in 1..Len(t)} = {q[i] : i \in 1..Len(q)} \ {Head(q)}
         /\ Head(q) \in Client
         /\ Head(q) \in {q[i] : i \in 1..Len(q)}
<1> DEFINE t == Tail(q)
<1>1. /\ Len(q) \in Nat \ {0} /\ t \in Seq(Client) /\ Len(t) = Len(q) - 1
      /\ \A i \in 1..Len(t) : t[i] = q[i + 1]
      /\ Head(q) = q[1] /\ Head(q) \in Client
  BY HeadTailProperties, LenProperties, EmptySeq
<1>. HIDE DEF t
<1>2. \A i, j \in 1..Len(t) : t[i] = t[j] => i = j
  BY <1>1
<1>3. ASSUME NEW x \in {q[i] : i \in 1..Len(q)} \ {Head(q)}
      PROVE  x \in {t[i] : i \in 1..Len(t)}
  <2>1. PICK i \in 1..Len(q) : x = q[i]
    OBVIOUS
  <2>2. i # 1 /\ i - 1 \in 1..Len(t) /\ t[i - 1] = q[i]
    BY <1>1, <2>1
  <2>. QED BY <2>1, <2>2
<1>4. ASSUME NEW i \in 1..Len(t)
      PROVE  t[i] \in {q[k] : k \in 1..Len(q)} \ {Head(q)}
  <2>1. i + 1 \in 1..Len(q) /\ i + 1 # 1 /\ 1 \in 1..Len(q) /\ t[i] = q[i + 1]
    BY <1>1
  <2>. QED BY <1>1, <2>1
<1>. QED BY <1>1, <1>2, <1>3, <1>4 DEF t

\* The queue after a connection has joined it.
LEMMA TailJoined ==
  ASSUME NEW q \in Seq(Client), NEW d \in Client, d \notin {q[i] : i \in 1..Len(q)},
         \A i, j \in 1..Len(q) : q[i] = q[j] => i = j
  PROVE  LET t == Append(q, d) IN
         /\ t \in Seq(Client)
         /\ \A i, j \in 1..Len(t) : t[i] = t[j] => i = j
         /\ {t[i] : i \in 1..Len(t)} = {q[i] : i \in 1..Len(q)} \cup {d}
<1> DEFINE t == Append(q, d)
<1>1. /\ Len(q) \in Nat /\ t \in Seq(Client) /\ Len(t) = Len(q) + 1
      /\ \A i \in 1..Len(q) : t[i] = q[i]
      /\ t[Len(q) + 1] = d
  BY AppendProperties, LenProperties
<1>. HIDE DEF t
<1>2. \A i \in 1..Len(t) : i \in 1..Len(q) \/ i = Len(q) + 1
  BY <1>1
<1>3. \A i, j \in 1..Len(t) : t[i] = t[j] => i = j
  BY <1>1, <1>2
<1>4. 1..Len(t) = 1..Len(q) \cup {Len(q) + 1}
  BY <1>1
<1>5. {t[i] : i \in 1..Len(t)} = {q[i] : i \in 1..Len(q)} \cup {d}
  BY <1>1, <1>4
<1>. QED BY <1>1, <1>3, <1>5 DEF t

\* A payload that has been received is within the limit.
LEMMA PayloadWithin ==
  ASSUME Bytes, NEW d \in Client, NEW e \in End, Received(d, e)
  PROVE  Payload(d, e) \in Seq(Byte) /\ Len(Payload(d, e)) <= MaxSize
<1> DEFINE g == got[d][e]
<1>1. g \in Seq(Byte) /\ Len(g) \in Nat /\ HeaderSize \in Nat \ {0} /\ MaxSize \in Nat
  BY SizesAssumption, LenProperties DEF Bytes
<1>2. Len(g) >= HeaderSize /\ Len(g) = HeaderSize + g[1][2] /\ ~(g[1][2] > MaxSize)
  BY DEF Received, HeaderRead, TooLarge, SizeRead
<1>3. g[1] \in Byte
  BY <1>1, <1>2
<1>4. g[1][2] \in Nat
  BY <1>3 DEF Byte
<1>. HIDE DEF g
<1>5. \A i \in HeaderSize + 1 .. Len(g) : g[i] \in Byte
  BY <1>1
<1>6. /\ SubSeq(g, HeaderSize + 1, Len(g)) \in Seq(Byte)
      /\ Len(SubSeq(g, HeaderSize + 1, Len(g))) <= MaxSize
  BY <1>1, <1>2, <1>4, <1>5, SubSeqProperties
<1>. QED BY <1>6 DEF Payload, g

LEMMA AcceptHold == HoldInv /\ Accept => HoldInv'
<1>. SUFFICES ASSUME HoldInv, Accept PROVE HoldInv'
  OBVIOUS
<1>1. /\ UNCHANGED <<connectionVars, fdSet, fdOpen, named, stopFlag, pollFdSet, main,
                     clientVars, served>>
      /\ listener = "accept" /\ current = NoClient
  BY DEF Accept, HoldInv, IpcTypeOK
<1>2. Bytes'
  BY <1>1 DEF HoldInv, Bytes, connectionVars
<1>3. CASE /\ queue # <<>> /\ current' = Head(queue) /\ queue' = Tail(queue)
           /\ listener' = "receive"
  <2>1. /\ queue' \in Seq(Client)
        /\ \A i, j \in 1..Len(queue') : queue'[i] = queue'[j] => i = j
        /\ Waiting' = Waiting \ {current'}
        /\ current' \in Client /\ current' \in Waiting
    <3>1. /\ queue \in Seq(Client) /\ queue # <<>>
          /\ \A i, j \in 1..Len(queue) : queue[i] = queue[j] => i = j
      BY <1>3 DEF HoldInv, People, IpcTypeOK
    <3>2. /\ Tail(queue) \in Seq(Client)
          /\ \A i, j \in 1..Len(Tail(queue)) : Tail(queue)[i] = Tail(queue)[j] => i = j
          /\ {Tail(queue)[i] : i \in 1..Len(Tail(queue))} = Waiting \ {Head(queue)}
          /\ Head(queue) \in Client /\ Head(queue) \in Waiting
      BY <3>1, HeadTaken DEF Waiting
    <3>3. Waiting' = {Tail(queue)[i] : i \in 1..Len(Tail(queue))}
      BY <1>3 DEF Waiting
    <3>. QED BY <1>3, <3>2, <3>3
  <2>2. People'
    BY <1>1, <2>1 DEF HoldInv, People, clientVars
  <2>3. IpcTypeOK'
    BY <1>1, <1>3, <2>1, PoliteAssumption DEF HoldInv, IpcTypeOK, connectionVars, clientVars
  <2>4. EndsHeld'
    BY <1>1, <2>1, PoliteAssumption DEF HoldInv, EndsHeld, connectionVars, clientVars
  <2>. QED BY <1>2, <2>2, <2>3, <2>4 DEF HoldInv
<1>4. CASE listener' = "check" /\ UNCHANGED <<current, queue>>
  <2>1. People'
    BY <1>1, <1>4 DEF HoldInv, People, clientVars
  <2>2. IpcTypeOK'
    BY <1>1, <1>4 DEF HoldInv, IpcTypeOK, connectionVars, clientVars
  <2>3. EndsHeld'
    BY <1>1, <1>4 DEF HoldInv, EndsHeld, Waiting, connectionVars, clientVars
  <2>. QED BY <1>2, <2>1, <2>2, <2>3 DEF HoldInv
<1>. QED BY <1>3, <1>4 DEF Accept

\* What is left of the queue when the socket may be freed.
LEMMA FreeEffect ==
  ASSUME HoldInv, NEW held \in BOOLEAN, FreeSocket(held)
  PROVE  /\ Bytes'
         /\ \A d \in Client \ Waiting : Untouched(d)
         /\ \/ queue' = queue /\ \A d \in Client : Untouched(d)
            \/ queue' = <<>> /\ CloseEnds(Waiting, "server")
<1>1. CASE held
  BY <1>1 DEF FreeSocket, connectionVars, Untouched, HoldInv, Bytes
<1>2. CASE ~held
  BY <1>2, CloseEffect, Ends DEF FreeSocket, HoldInv
<1>. QED BY <1>1, <1>2

LEMMA DropHold == HoldInv /\ (PollReturns \/ CloseDescriptor) => HoldInv'
<1>. SUFFICES ASSUME HoldInv, PollReturns \/ CloseDescriptor PROVE HoldInv'
  OBVIOUS
<1>1. PICK held \in BOOLEAN : FreeSocket(held)
  <2>1. fdOpen \in BOOLEAN
    BY DEF HoldInv, IpcTypeOK
  <2>. QED BY <2>1 DEF PollReturns, CloseDescriptor
<1>2. /\ UNCHANGED <<fdSet, named, stopFlag, pollFdSet, current, clientVars, served>>
      /\ listener' = listener \/ {listener, listener'} \cap {"receive", "reply"} = {}
      /\ listener' \in {"check", "tryAccept", "fill", "poll", "polling", "accept",
                        "receive", "reply", "exited"}
      /\ fdOpen' \in BOOLEAN
      /\ main' \in {"running", "closed", "forgot", "unlinked", "joining", "stopped"}
  BY DEF PollReturns, CloseDescriptor, HoldInv, IpcTypeOK
<1>3. /\ Bytes'
      /\ \/ queue' = queue /\ \A d \in Client : Untouched(d)
         \/ queue' = <<>> /\ CloseEnds(Waiting, "server")
  BY <1>1, FreeEffect
<1>4. CASE queue' = queue /\ \A d \in Client : Untouched(d)
  <2>1. People'
    BY <1>2, <1>4 DEF HoldInv, People, clientVars
  <2>2. IpcTypeOK'
    BY <1>2, <1>4 DEF HoldInv, IpcTypeOK, clientVars, Untouched
  <2>3. EndsHeld'
    BY <1>2, <1>4 DEF HoldInv, EndsHeld, Waiting, clientVars, Untouched
  <2>. QED BY <1>3, <2>1, <2>2, <2>3 DEF HoldInv
<1>5. CASE queue' = <<>> /\ CloseEnds(Waiting, "server")
  <2>1. /\ Len(queue') = 0 /\ queue' \in Seq(Client) /\ Waiting' = {}
        /\ \A i, j \in 1..Len(queue') : queue'[i] = queue'[j] => i = j
    BY <1>5, EmptySeq DEF Waiting
  <2>2. /\ \A d \in Client \ Waiting : Untouched(d)
        /\ \A d \in Waiting \cap Client :
             /\ isOpen'[d] = isOpen[d] \ {"server"}
             /\ wire'[d]["server"] = <<>> /\ wire'[d]["client"] = wire[d]["client"]
    BY <1>5, CloseEffect, Ends DEF HoldInv, Other
  <2>3. People'
    BY <1>2, <2>1 DEF HoldInv, People, clientVars
  <2>4. ASSUME NEW d \in Client
        PROVE  /\ isOpen'[d] \subseteq End
               /\ \A e \in End : Len(wire'[d][e]) <= Capacity
    <3>1. Len(<<>>) <= Capacity
      BY SizesAssumption
    <3>. QED BY <2>2, <3>1, Ends DEF HoldInv, IpcTypeOK, Untouched
  <2>5. IpcTypeOK'
    BY <1>2, <2>1, <2>4 DEF HoldInv, IpcTypeOK, clientVars
  <2>6. EndsHeld'
    BY <1>2, <2>1, <2>2 DEF HoldInv, EndsHeld, clientVars, Untouched
  <2>. QED BY <1>3, <2>3, <2>5, <2>6 DEF HoldInv
<1>. QED BY <1>3, <1>4, <1>5

\* A byte moves, or the reply is made, on the connection of d.
LEMMA MoveHold ==
  ASSUME HoldInv, NEW d \in Client, Bytes',
         \A o \in Client \ {d} : Untouched(o),
         isOpen'[d] = isOpen[d],
         \A e \in End : Len(wire'[d][e]) <= Capacity,
         UNCHANGED <<fdSet, fdOpen, named, queue, stopFlag, pollFdSet, current, main,
                     clientVars, served>>,
         \/ listener' = listener
         \/ {listener, listener'} \subseteq {"receive", "reply"}
  PROVE  HoldInv'
<1>1. People'
  BY DEF HoldInv, People, clientVars
<1>2. \A o \in Client :
        /\ isOpen'[o] = isOpen[o]
        /\ \A e \in End : Len(wire'[o][e]) <= Capacity
  BY DEF Untouched, HoldInv, IpcTypeOK
<1>3. IpcTypeOK'
  BY <1>2 DEF HoldInv, IpcTypeOK, clientVars
<1>4. EndsHeld'
  BY <1>2 DEF HoldInv, EndsHeld, Waiting, clientVars
<1>. QED BY <1>1, <1>3, <1>4 DEF HoldInv

LEMMA PutWithin ==
  ASSUME HoldInv, NEW d \in Client, NEW e \in End, PutByte(d, e)
  PROVE  \A f \in End : Len(wire'[d][f]) <= Capacity
<1>1. /\ Len(wire[d][Other(e)]) < Capacity
      /\ Len(wire'[d][Other(e)]) = Len(wire[d][Other(e)]) + 1
      /\ wire'[d][e] = wire[d][e]
  BY PutEffect DEF HoldInv
<1>2. Len(wire[d][Other(e)]) \in Nat /\ Capacity \in Nat
  BY SizesAssumption, LenProperties, Ends DEF HoldInv, Bytes
<1>3. \A f \in End : f = e \/ f = Other(e)
  BY DEF End, Other
<1>. QED BY <1>1, <1>2, <1>3 DEF HoldInv, IpcTypeOK

LEMMA TakeWithin ==
  ASSUME HoldInv, NEW d \in Client, NEW e \in End, TakeByte(d, e)
  PROVE  \A f \in End : Len(wire'[d][f]) <= Capacity
<1>1. /\ Len(wire'[d][e]) < Len(wire[d][e])
      /\ wire'[d][Other(e)] = wire[d][Other(e)]
      /\ Bytes'
  BY TakeEffect DEF HoldInv
<1>2. Len(wire'[d][e]) \in Nat /\ Len(wire[d][e]) \in Nat /\ Capacity \in Nat
  BY <1>1, SizesAssumption, LenProperties DEF HoldInv, Bytes
<1>3. \A f \in End : f = e \/ f = Other(e)
  BY DEF End, Other
<1>4. Len(wire[d][e]) <= Capacity
  BY DEF HoldInv, IpcTypeOK
<1>5. Len(wire'[d][e]) <= Capacity
  BY <1>1, <1>2, <1>4
<1>. QED BY <1>1, <1>3, <1>5 DEF HoldInv, IpcTypeOK

\* The reply of the listener, when it has the whole request.
LEMMA ReplyEffect ==
  ASSUME Bytes, current \in Client, ListenerReplies
  PROVE  /\ Bytes'
         /\ \A o \in Client \ {current} : Untouched(o)
         /\ wire'[current] = wire[current] /\ got'[current] = got[current]
         /\ isOpen'[current] = isOpen[current]
         /\ unsent'[current]["client"] = unsent[current]["client"]
         /\ unsent'[current]["server"] = Frame(Prefix \o Payload(current, "server"))
<1> DEFINE f == Frame(Prefix \o Payload(current, "server"))
<1>1. f \in Seq(Byte)
  <2>1. Payload(current, "server") \in Seq(Byte)
    BY PayloadWithin DEF ListenerReplies, End
  <2>2. Prefix \o Payload(current, "server") \in Seq(Byte)
    BY <2>1, PrefixIsBytes, ConcatProperties
  <2>. QED BY <2>2, FrameShape
<1>2. /\ wire' = wire /\ got' = got /\ isOpen' = isOpen
      /\ unsent' = [unsent EXCEPT ![current] = [unsent[current] EXCEPT !["server"] = f]]
  BY DEF ListenerReplies, Bytes
<1>. HIDE DEF f
<1>. QED BY <1>1, <1>2 DEF Bytes, Untouched, End, f

LEMMA CurrentIsClient ==
  ASSUME HoldInv, listener \in {"receive", "reply"}
  PROVE  /\ current \in Client /\ "server" \in isOpen[current]
         /\ "server" \in End /\ "client" \in End
         /\ Other("server") = "client" /\ Other("client") = "server"
  BY PoliteAssumption DEF HoldInv, IpcTypeOK, EndsHeld, End, Other

LEMMA ListenerMovesHold ==
  HoldInv /\ (ListenerReads \/ ListenerWrites \/ ListenerReplies) => HoldInv'
<1>. SUFFICES ASSUME HoldInv, ListenerReads \/ ListenerWrites \/ ListenerReplies
              PROVE  HoldInv'
  OBVIOUS
<1>1. /\ current \in Client /\ "server" \in End /\ "client" \in End
      /\ listener \in {"receive", "reply"} /\ Bytes
  BY CurrentIsClient DEF ListenerReads, ListenerWrites, ListenerReplies, HoldInv
<1>2. CASE ListenerReads
  <2>1. TakeByte(current, "server") /\ UNCHANGED <<serverVars, main, clientVars, served>>
    BY <1>2 DEF ListenerReads
  <2>2. /\ Bytes' /\ \A o \in Client \ {current} : Untouched(o)
        /\ isOpen'[current] = isOpen[current]
        /\ \A e \in End : Len(wire'[current][e]) <= Capacity
    BY <1>1, <2>1, TakeEffect, TakeWithin
  <2>. QED BY <1>1, <2>1, <2>2, MoveHold DEF serverVars
<1>3. CASE ListenerWrites
  <2>1. PutByte(current, "server") /\ UNCHANGED <<serverVars, main, clientVars, served>>
    BY <1>3 DEF ListenerWrites
  <2>2. /\ Bytes' /\ \A o \in Client \ {current} : Untouched(o)
        /\ isOpen'[current] = isOpen[current]
        /\ \A e \in End : Len(wire'[current][e]) <= Capacity
    BY <1>1, <2>1, PutEffect, PutWithin
  <2>. QED BY <1>1, <2>1, <2>2, MoveHold DEF serverVars
<1>4. CASE ListenerReplies
  <2>1. /\ Bytes' /\ \A o \in Client \ {current} : Untouched(o)
        /\ isOpen'[current] = isOpen[current] /\ wire'[current] = wire[current]
    BY <1>1, <1>4, ReplyEffect
  <2>2. \A e \in End : Len(wire'[current][e]) <= Capacity
    BY <1>1, <2>1 DEF HoldInv, IpcTypeOK
  <2>3. /\ UNCHANGED <<fdSet, fdOpen, named, queue, stopFlag, pollFdSet, current, main,
                       clientVars, served>>
        /\ {listener, listener'} \subseteq {"receive", "reply"}
    BY <1>4 DEF ListenerReplies
  <2>. QED BY <1>1, <2>1, <2>2, <2>3, MoveHold
<1>. QED BY <1>2, <1>3, <1>4

\* Every end of an iteration closes the connection that was served.
LEMMA IterationEnds ==
  ASSUME HoldInv, ReceiveFails \/ ReplySent \/ ReplyFails
  PROVE  /\ EndIteration /\ listener \in {"receive", "reply"}
         /\ served' \in {served, served \cup {current}}
  BY DEF ReceiveFails, ReplySent, ReplyFails

LEMMA EndIterationHold ==
  HoldInv /\ (ReceiveFails \/ ReplySent \/ ReplyFails) => HoldInv'
<1>. SUFFICES ASSUME HoldInv, ReceiveFails \/ ReplySent \/ ReplyFails PROVE HoldInv'
  OBVIOUS
<1>1. /\ EndIteration /\ current \in Client /\ "server" \in End
      /\ Other("server") = "client" /\ Bytes
      /\ served' \in {served, served \cup {current}}
  BY IterationEnds, CurrentIsClient DEF HoldInv
<1>2. /\ UNCHANGED <<fdSet, fdOpen, named, queue, stopFlag, pollFdSet, main, clientVars>>
      /\ current' = NoClient /\ listener' = "check"
      /\ CloseEnds({current}, "server")
  BY <1>1 DEF EndIteration
<1>3. /\ Bytes'
      /\ \A o \in Client \ {current} : Untouched(o)
      /\ isOpen'[current] = isOpen[current] \ {"server"}
      /\ wire'[current]["server"] = <<>>
      /\ wire'[current]["client"] = wire[current]["client"]
  BY <1>1, <1>2, CloseEffect
<1>4. People'
  BY <1>1, <1>2 DEF HoldInv, People, clientVars
<1>5. ASSUME NEW d \in Client
      PROVE  isOpen'[d] \subseteq End /\ \A e \in End : Len(wire'[d][e]) <= Capacity
  <2>1. Len(<<>>) <= Capacity
    BY SizesAssumption
  <2>. QED BY <1>3, <2>1, Ends DEF HoldInv, IpcTypeOK, Untouched
<1>6. IpcTypeOK'
  BY <1>2, <1>5 DEF HoldInv, IpcTypeOK, clientVars
<1>7. EndsHeld'
  BY <1>1, <1>2, <1>3, PoliteAssumption DEF HoldInv, EndsHeld, Waiting, clientVars, Untouched
<1>. QED BY <1>3, <1>4, <1>6, <1>7 DEF HoldInv

LEMMA ConnectEffect ==
  ASSUME HoldInv, NEW d \in Client, Connect(d), named /\ (fdOpen \/ listener = "polling")
  PROVE  /\ Bytes'
         /\ \A o \in Client \ {d} : Untouched(o)
         /\ wire'[d] = wire[d] /\ got'[d] = got[d] /\ isOpen'[d] = End
         /\ unsent'[d]["client"] = Frame(request[d])
         /\ unsent'[d]["server"] = unsent[d]["server"]
<1> DEFINE f == Frame(request[d])
<1>1. f \in Seq(Byte)
  BY FrameShape DEF HoldInv, People
<1>2. /\ wire' = wire /\ got' = got /\ isOpen' = [isOpen EXCEPT ![d] = End]
      /\ unsent' = [unsent EXCEPT ![d] = [unsent[d] EXCEPT !["client"] = f]]
  BY DEF Connect, HoldInv, Bytes
<1>. HIDE DEF f
<1>. QED BY <1>1, <1>2 DEF HoldInv, Bytes, Untouched, End, f

LEMMA ConnectHold == ASSUME HoldInv, NEW d \in Client, Connect(d) PROVE HoldInv'
<1>1. /\ client[d] = "new"
      /\ UNCHANGED <<wire, got, fdSet, fdOpen, named, stopFlag, listener, pollFdSet,
                     current, main, request, answer, served>>
  BY DEF Connect
<1>2. d \notin Waiting /\ d # current /\ isOpen[d] = {}
  BY <1>1 DEF HoldInv, EndsHeld
<1>3. CASE named /\ (fdOpen \/ listener = "polling")
  <2>1. queue' = Append(queue, d) /\ client' = [client EXCEPT ![d] = "sending"]
    BY <1>3 DEF Connect, ClientGoes
  <2>2. /\ queue' \in Seq(Client)
        /\ \A i, j \in 1..Len(queue') : queue'[i] = queue'[j] => i = j
        /\ Waiting' = Waiting \cup {d}
    <3>1. /\ queue \in Seq(Client) /\ d \notin {queue[i] : i \in 1..Len(queue)}
          /\ \A i, j \in 1..Len(queue) : queue[i] = queue[j] => i = j
      BY <1>2 DEF HoldInv, People, IpcTypeOK, Waiting
    <3>2. LET t == Append(queue, d) IN
            /\ t \in Seq(Client)
            /\ \A i, j \in 1..Len(t) : t[i] = t[j] => i = j
            /\ {t[i] : i \in 1..Len(t)} = Waiting \cup {d}
      BY <3>1, TailJoined DEF Waiting
    <3>3. Waiting' = {Append(queue, d)[i] : i \in 1..Len(Append(queue, d))}
      BY <2>1 DEF Waiting
    <3>. QED BY <2>1, <3>2, <3>3
  <2>3. /\ Bytes'
        /\ \A o \in Client \ {d} : Untouched(o)
        /\ wire'[d] = wire[d] /\ isOpen'[d] = End
    BY <1>3, ConnectEffect
  <2>4. People'
    BY <1>1, <2>2 DEF HoldInv, People
  <2>5. IpcTypeOK'
    <3>1. ASSUME NEW o \in Client
          PROVE  isOpen'[o] \subseteq End /\ \A e \in End : Len(wire'[o][e]) <= Capacity
      BY <2>3 DEF HoldInv, IpcTypeOK, Untouched
    <3>2. client' \in [Client -> {"new", "sending", "receiving", "answered", "failed",
                                 "killed"}]
      BY <2>1 DEF HoldInv, IpcTypeOK
    <3>. QED BY <1>1, <2>2, <3>1, <3>2 DEF HoldInv, IpcTypeOK
  <2>6. EndsHeld'
    BY <1>1, <1>2, <2>1, <2>2, <2>3 DEF HoldInv, EndsHeld, IpcTypeOK, Untouched, End
  <2>. QED BY <2>3, <2>4, <2>5, <2>6 DEF HoldInv
<1>4. CASE ~(named /\ (fdOpen \/ listener = "polling"))
  <2>1. client' = [client EXCEPT ![d] = "failed"] /\ UNCHANGED <<connectionVars, queue>>
    BY <1>1, <1>4 DEF Connect, ClientGoes, connectionVars
  <2>2. Bytes' /\ People'
    BY <1>1, <2>1 DEF HoldInv, Bytes, People, connectionVars
  <2>3. IpcTypeOK'
    BY <1>1, <2>1 DEF HoldInv, IpcTypeOK, connectionVars
  <2>4. EndsHeld'
    BY <1>1, <1>2, <2>1 DEF HoldInv, EndsHeld, IpcTypeOK, Waiting, connectionVars
  <2>. QED BY <2>2, <2>3, <2>4 DEF HoldInv
<1>. QED BY <1>3, <1>4

\* A client has its answer, gives up or is killed.
Leaves(d) == ClientAnswered(d) \/ ClientFails(d) \/ ClientKilled(d)

LEMMA LeaveHold == ASSUME HoldInv, NEW d \in Client, Leaves(d) PROVE HoldInv'
<1>1. /\ UNCHANGED <<serverVars, main, request, served>>
      /\ client[d] \in {"sending", "receiving"}
      /\ CloseEnds({d}, "client")
      /\ \E where \in {"answered", "failed", "killed"} :
           client' = [client EXCEPT ![d] = where]
  BY DEF Leaves, ClientAnswered, ClientFails, ClientKilled, ClientGoes
<1>2. /\ Bytes'
      /\ \A o \in Client \ {d} : Untouched(o)
      /\ isOpen'[d] = isOpen[d] \ {"client"}
      /\ wire'[d]["client"] = <<>> /\ wire'[d]["server"] = wire[d]["server"]
  BY <1>1, CloseEffect, Ends DEF HoldInv, Other
<1>3. answer' \in [Client -> Seq(Byte)] /\ \A o \in Client : Len(answer'[o]) <= MaxSize
  <2>1. CASE ClientAnswered(d)
    <3>1. Payload(d, "client") \in Seq(Byte) /\ Len(Payload(d, "client")) <= MaxSize
      BY <2>1, PayloadWithin, Ends DEF ClientAnswered, HoldInv
    <3>. QED BY <2>1, <3>1 DEF ClientAnswered, HoldInv, People, IpcTypeOK
  <2>2. CASE ClientFails(d) \/ ClientKilled(d)
    BY <2>2 DEF ClientFails, ClientKilled, HoldInv, People, IpcTypeOK
  <2>. QED BY <2>1, <2>2 DEF Leaves
<1>4. People'
  BY <1>1, <1>3 DEF HoldInv, People, serverVars
<1>5. ASSUME NEW o \in Client
      PROVE  isOpen'[o] \subseteq End /\ \A e \in End : Len(wire'[o][e]) <= Capacity
  <2>1. Len(<<>>) <= Capacity
    BY SizesAssumption
  <2>. QED BY <1>2, <2>1, Ends DEF HoldInv, IpcTypeOK, Untouched
<1>6. IpcTypeOK'
  BY <1>1, <1>3, <1>5 DEF HoldInv, IpcTypeOK, serverVars
<1>7. EndsHeld'
  BY <1>1, <1>2 DEF HoldInv, EndsHeld, IpcTypeOK, Waiting, serverVars, Untouched
<1>. QED BY <1>2, <1>4, <1>6, <1>7 DEF HoldInv

LEMMA ClientMovesHold == ASSUME HoldInv, NEW d \in Client, ClientMoves(d) PROVE HoldInv'
<1>1. UNCHANGED <<serverVars, main, request, answer, served>> /\ Bytes /\ "client" \in End
  BY Ends DEF ClientMoves, HoldInv
<1>2. CASE PutByte(d, "client") /\ UNCHANGED client
  <2>1. /\ Bytes' /\ \A o \in Client \ {d} : Untouched(o)
        /\ isOpen'[d] = isOpen[d]
        /\ \A e \in End : Len(wire'[d][e]) <= Capacity
    BY <1>1, <1>2, PutEffect, PutWithin
  <2>. QED BY <1>1, <1>2, <2>1, MoveHold DEF serverVars, clientVars
<1>3. CASE TakeByte(d, "client") /\ UNCHANGED client
  <2>1. /\ Bytes' /\ \A o \in Client \ {d} : Untouched(o)
        /\ isOpen'[d] = isOpen[d]
        /\ \A e \in End : Len(wire'[d][e]) <= Capacity
    BY <1>1, <1>3, TakeEffect, TakeWithin
  <2>. QED BY <1>1, <1>3, <2>1, MoveHold DEF serverVars, clientVars
<1>4. CASE /\ client[d] = "sending" /\ client' = [client EXCEPT ![d] = "receiving"]
           /\ UNCHANGED connectionVars
  <2>1. Bytes' /\ People'
    BY <1>1, <1>4 DEF HoldInv, Bytes, People, connectionVars, serverVars
  <2>2. IpcTypeOK'
    BY <1>1, <1>4 DEF HoldInv, IpcTypeOK, connectionVars, serverVars
  <2>3. EndsHeld'
    BY <1>1, <1>4 DEF HoldInv, EndsHeld, IpcTypeOK, Waiting, connectionVars, serverVars
  <2>. QED BY <2>1, <2>2, <2>3 DEF HoldInv
<1>. QED BY <1>2, <1>3, <1>4 DEF ClientMoves, ClientGoes

LEMMA StepHold == HoldInv /\ [IpcNext]_ipcVars => HoldInv'
<1>. SUFFICES ASSUME HoldInv, [IpcNext]_ipcVars PROVE HoldInv'
  OBVIOUS
<1>1. CASE Quiet
  BY <1>1, QuietHold
<1>2. CASE Accept
  BY <1>2, AcceptHold
<1>3. CASE PollReturns \/ CloseDescriptor
  BY <1>3, DropHold
<1>4. CASE ListenerReads \/ ListenerWrites \/ ListenerReplies
  BY <1>4, ListenerMovesHold
<1>5. CASE ReceiveFails \/ ReplySent \/ ReplyFails
  BY <1>5, EndIterationHold
<1>6. ASSUME NEW d \in Client, Connect(d) PROVE HoldInv'
  BY <1>6, ConnectHold
<1>7. ASSUME NEW d \in Client, Leaves(d) PROVE HoldInv'
  BY <1>7, LeaveHold
<1>8. ASSUME NEW d \in Client, ClientMoves(d) PROVE HoldInv'
  BY <1>8, ClientMovesHold
<1>9. CASE UNCHANGED ipcVars
  <2>1. Bytes' /\ People'
    BY <1>9 DEF HoldInv, Bytes, People, ipcVars, connectionVars, serverVars, clientVars
  <2>2. IpcTypeOK'
    BY <1>9 DEF HoldInv, IpcTypeOK, ipcVars, connectionVars, serverVars, clientVars
  <2>3. EndsHeld'
    BY <1>9 DEF HoldInv, EndsHeld, Waiting, ipcVars, connectionVars, serverVars, clientVars
  <2>. QED BY <2>1, <2>2, <2>3 DEF HoldInv
<1>. QED BY <1>1, <1>2, <1>3, <1>4, <1>5, <1>6, <1>7, <1>8, <1>9
         DEF IpcNext, ListenerStep, StopStep, ClientStep, Quiet, Leaves

\* Whatever clients and kernel do and whenever the service is stopped, every
\* connection the server holds is the one it serves or waits to be accepted.
THEOREM ConnectionsAccountedFor == IpcSpec => []NoConnectionLeaks
<1>1. HoldInv => NoConnectionLeaks
  BY DEF HoldInv, EndsHeld, NoConnectionLeaks
<1>. QED BY <1>1, InitHold, StepHold, PTL DEF IpcSpec
-----------------------------------------------------------------------------
(* What the two ends and the kernel hold of a request and of its reply.    *)

\* The bytes of the request: those the server has read, those on the wire and
\* those the client has not sent; and the bytes of the reply, likewise.
Asked(d) == (got[d]["server"] \o wire[d]["server"]) \o unsent[d]["client"]
Replied(d) == (got[d]["client"] \o wire[d]["client"]) \o unsent[d]["server"]
Reply(d) == Frame(Prefix \o request[d])

Answering(d) == d = current /\ listener = "reply"

\* The prefix makes the reply longer than the client takes.
TooLong(d) == Len(Prefix) + Len(request[d]) > MaxSize

\* While an end is open, what it gets is a beginning of the frame meant for it,
\* and all of the reply once the listener has made it; before that there is
\* nothing of a reply, and after it nothing of the request is left to send.
Stream(d) ==
  /\ client[d] = "new" =>
       \A e \in End : wire[d][e] = <<>> /\ unsent[d][e] = <<>> /\ got[d][e] = <<>>
  /\ "server" \in isOpen[d] => Starts(Asked(d), Frame(request[d]))
  /\ "client" \in isOpen[d] => Starts(Replied(d), Reply(d))
  /\ "server" \in isOpen[d] /\ ~Answering(d) =>
       got[d]["client"] = <<>> /\ wire[d]["client"] = <<>>
  /\ ~Answering(d) => unsent[d]["server"] = <<>>
  /\ Answering(d) \/ d \in served =>
       /\ unsent[d]["client"] = <<>>
       /\ "client" \in isOpen[d] => Replied(d) = Reply(d)
  /\ d \in served => "server" \notin isOpen[d] /\ client[d] # "new"
  /\ client[d] = "failed" /\ ("server" \in isOpen[d] \/ d \in served) => TooLong(d)
  /\ client[d] = "answered" => answer[d] = Prefix \o request[d]

Streams == \A d \in Client : Stream(d)

LEMMA StreamsAreBytes ==
  ASSUME Bytes, People, NEW d \in Client
  PROVE  /\ \A e \in End : /\ wire[d][e] \in Seq(Byte) /\ unsent[d][e] \in Seq(Byte)
                           /\ got[d][e] \in Seq(Byte)
         /\ "server" \in End /\ "client" \in End
         /\ Other("server") = "client" /\ Other("client") = "server"
         /\ request[d] \in Seq(Byte) /\ Prefix \o request[d] \in Seq(Byte)
         /\ Len(Prefix \o request[d]) = Len(Prefix) + Len(request[d])
         /\ Frame(request[d]) \in Seq(Byte) /\ Reply(d) \in Seq(Byte)
<1>1. /\ \A e \in End : /\ wire[d][e] \in Seq(Byte) /\ unsent[d][e] \in Seq(Byte)
                        /\ got[d][e] \in Seq(Byte)
      /\ request[d] \in Seq(Byte)
  BY DEF Bytes, People
<1>2. /\ Prefix \o request[d] \in Seq(Byte)
      /\ Len(Prefix \o request[d]) = Len(Prefix) + Len(request[d])
  BY <1>1, PrefixIsBytes, ConcatProperties
<1>3. Frame(request[d]) \in Seq(Byte) /\ Frame(Prefix \o request[d]) \in Seq(Byte)
  BY <1>1, <1>2, FrameShape
<1>. QED BY <1>1, <1>2, <1>3 DEF Reply, End, Other

LEMMA Associative ==
  \A x, y, z \in Seq(Byte) : (x \o y) \o z = x \o (y \o z)
  BY ConcatAssociative

\* The step changes nothing for o.
Kept(o) ==
  /\ Untouched(o)
  /\ request' = request /\ client'[o] = client[o] /\ answer'[o] = answer[o]
  /\ o \in served' <=> o \in served
  /\ Answering(o)' <=> Answering(o)

LEMMA KeptStream == ASSUME NEW o, Stream(o), Kept(o) PROVE Stream(o)'
<1>1. Asked(o)' = Asked(o) /\ Replied(o)' = Replied(o) /\ Reply(o)' = Reply(o)
      /\ (TooLong(o)' <=> TooLong(o))
  BY DEF Kept, Untouched, Asked, Replied, Reply, TooLong
<1>. QED BY <1>1 DEF Kept, Untouched, Stream

LEMMA InitStreams == IpcInit => Streams
<1>. SUFFICES ASSUME IpcInit, NEW d \in Client PROVE Stream(d)
  BY DEF Streams
<1>1. /\ client[d] = "new" /\ isOpen[d] = {} /\ served = {}
      /\ \A e \in End : wire[d][e] = <<>> /\ unsent[d][e] = <<>> /\ got[d][e] = <<>>
      /\ listener = "check"
  BY DEF IpcInit, ConnectionInit, Nothing
<1>. QED BY <1>1 DEF Stream, Answering, End

\* What the server has received is the whole request, and there is no more of it.
LEMMA RequestWhole ==
  ASSUME HoldInv, NEW d \in Client, Stream(d), "server" \in isOpen[d],
         Received(d, "server")
  PROVE  /\ Payload(d, "server") = request[d]
         /\ unsent[d]["client"] = <<>>
<1> DEFINE g == got[d]["server"]  w == wire[d]["server"]  u == unsent[d]["client"]
           p == request[d]
<1>1. g \in Seq(Byte) /\ w \in Seq(Byte) /\ u \in Seq(Byte) /\ p \in Seq(Byte)
  BY StreamsAreBytes DEF HoldInv
<1>2. Starts((g \o w) \o u, Frame(p))
  BY DEF Stream, Asked
<1>3. Len(g) >= HeaderSize /\ Len(g) = HeaderSize + g[1][2]
  BY DEF Received, HeaderRead, SizeRead
<1>4. Payload(d, "server") = SubSeq(g, HeaderSize + 1, Len(g))
  BY DEF Payload
<1>. HIDE DEF g, w, u, p
<1>5. PICK r \in Seq(Byte) : g \o r = Frame(p)
  <2>1. Starts(g, Frame(p))
    BY <1>1, <1>2, StartsThird
  <2>. QED BY <2>1 DEF Starts
<1>6. g = Frame(p) /\ Len(g) = HeaderSize + Len(p)
  BY <1>1, <1>3, <1>5, StartOfFrame
<1>7. Len(g) + Len(w) + Len(u) <= Len(g)
  BY <1>1, <1>2, <1>6, StartsThird
<1>8. u = <<>>
  BY <1>1, <1>7, EmptySeq, LenProperties
<1>9. SubSeq(g, HeaderSize + 1, Len(g)) = p
  BY <1>1, <1>6, FrameShape
<1>. QED BY <1>4, <1>8, <1>9 DEF p, u

\* What a client has read of a reply.
LEMMA ReplyRead ==
  ASSUME HoldInv, NEW d \in Client, Stream(d), "client" \in isOpen[d]
  PROVE  LET g == got[d]["client"]
             p == Prefix \o request[d] IN
         /\ Len(g) >= HeaderSize => g[1][2] = Len(Prefix) + Len(request[d])
         /\ Received(d, "client") => Payload(d, "client") = p
<1> DEFINE g == got[d]["client"]  w == wire[d]["client"]  u == unsent[d]["server"]
           p == Prefix \o request[d]
<1>1. /\ g \in Seq(Byte) /\ w \in Seq(Byte) /\ u \in Seq(Byte) /\ p \in Seq(Byte)
      /\ Len(p) = Len(Prefix) + Len(request[d])
  BY StreamsAreBytes DEF HoldInv
<1>2. Starts((g \o w) \o u, Frame(p))
  BY DEF Stream, Replied, Reply
<1>3. Received(d, "client") => Len(g) >= HeaderSize /\ Len(g) = HeaderSize + g[1][2]
  BY DEF Received, HeaderRead, SizeRead
<1>4. Payload(d, "client") = SubSeq(g, HeaderSize + 1, Len(g))
  BY DEF Payload
<1>. HIDE DEF g, w, u, p
<1>5. PICK r \in Seq(Byte) : g \o r = Frame(p)
  <2>1. Starts(g, Frame(p))
    BY <1>1, <1>2, StartsThird
  <2>. QED BY <2>1 DEF Starts
<1>6. /\ Len(g) >= HeaderSize => g[1][2] = Len(p)
      /\ Len(g) = HeaderSize + Len(p) => g = Frame(p)
  BY <1>1, <1>5, StartOfFrame
<1>7. g = Frame(p) => SubSeq(g, HeaderSize + 1, HeaderSize + Len(p)) = p
  BY <1>1, FrameShape
<1>. QED BY <1>1, <1>3, <1>4, <1>6, <1>7 DEF g, p

\* A client whose receive fails although the whole reply is there finds it too
\* long.
LEMMA FailsOnTooLong ==
  ASSUME HoldInv, NEW d \in Client, Stream(d), ClientFails(d),
         "server" \in isOpen[d] \/ d \in served
  PROVE  TooLong(d)
<1>1. "client" \in isOpen[d]
  BY DEF ClientFails, HoldInv, EndsHeld
<1>2. TooLarge(d, "client") => TooLong(d)
  BY <1>1, ReplyRead DEF TooLarge, HeaderRead, SizeRead, TooLong
<1>3. CASE client[d] = "sending" /\ SendFails(d, "client")
  BY <1>3 DEF SendFails, Stream, Other
<1>4. CASE PeerGone(d, "client")
  <2>1. /\ d \in served /\ "server" \notin isOpen[d] /\ wire[d]["client"] = <<>>
        /\ ~Received(d, "client")
    BY <1>4 DEF PeerGone, Other
  <2>2. ~Answering(d)
    BY <2>1, CurrentIsClient DEF Answering
  <2>3. Replied(d) = Reply(d) /\ unsent[d]["server"] = <<>>
    BY <1>1, <2>1, <2>2 DEF Stream
  <2>4. /\ got[d]["client"] \in Seq(Byte) /\ Prefix \o request[d] \in Seq(Byte)
        /\ Len(Prefix \o request[d]) = Len(Prefix) + Len(request[d])
    BY StreamsAreBytes DEF HoldInv
  <2>5. got[d]["client"] = Frame(Prefix \o request[d])
    BY <2>1, <2>3, <2>4, ConcatEmptySeq DEF Replied, Reply
  <2>6. /\ Len(got[d]["client"]) = HeaderSize + Len(Prefix \o request[d])
        /\ got[d]["client"][1][2] = Len(Prefix \o request[d])
    BY <2>4, <2>5, FrameShape
  <2>7. Len(got[d]["client"]) >= HeaderSize
    BY <2>4, <2>6, SizesAssumption, LenProperties
  <2>8. TooLarge(d, "client")
    BY <2>1, <2>6, <2>7 DEF Received, HeaderRead, SizeRead
  <2>. QED BY <1>2, <2>8
<1>. QED BY <1>2, <1>3, <1>4 DEF ClientFails

\* A byte that moves between the two ends leaves both streams as they are.
LEMMA ByteMovesStream ==
  ASSUME HoldInv, NEW d \in Client, Stream(d), NEW e \in End,
         PutByte(d, e) \/ TakeByte(d, e),
         UNCHANGED <<listener, current, request, served>>,
         client'[d] = client[d], answer'[d] = answer[d]
  PROVE  /\ Stream(d)'
         /\ \A o \in Client \ {d} : client'[o] = client[o] /\ answer'[o] = answer[o]
                                      => Kept(o)
<1>1. /\ \A f \in End : /\ wire[d][f] \in Seq(Byte) /\ unsent[d][f] \in Seq(Byte)
                        /\ got[d][f] \in Seq(Byte)
      /\ "server" \in End /\ "client" \in End /\ e \in {"client", "server"}
      /\ Other("server") = "client" /\ Other("client") = "server"
  BY StreamsAreBytes DEF HoldInv, End
<1>2. Bytes' /\ \A o \in Client \ {d} : Untouched(o)
  BY PutEffect, TakeEffect DEF HoldInv
<1>3. \A f \in End : /\ wire'[d][f] \in Seq(Byte) /\ unsent'[d][f] \in Seq(Byte)
                     /\ got'[d][f] \in Seq(Byte)
  BY <1>2 DEF Bytes
<1>4. (Answering(d)' <=> Answering(d)) /\ Reply(d)' = Reply(d) /\ (TooLong(d)' <=> TooLong(d))
  BY DEF Answering, Reply, TooLong
<1>5. ASSUME PutByte(d, e) PROVE Stream(d)'
  <2>1. /\ isOpen[d] = End /\ isOpen'[d] = End /\ got'[d] = got[d]
        /\ unsent[d][e] # <<>>
        /\ wire'[d][e] = wire[d][e] /\ unsent'[d][Other(e)] = unsent[d][Other(e)]
        /\ wire'[d][Other(e)] \o unsent'[d][e] = wire[d][Other(e)] \o unsent[d][e]
    BY <1>5, PutEffect DEF HoldInv
  <2>2. CASE e = "client"
    <3> DEFINE g == got[d]["server"]  w == wire[d]["server"]  u == unsent[d]["client"]
               x == wire'[d]["server"]  v == unsent'[d]["client"]
    <3>1. /\ wire'[d]["client"] = wire[d]["client"] /\ u # <<>>
          /\ unsent'[d]["server"] = unsent[d]["server"]
          /\ x \o v = w \o u
          /\ got'[d]["server"] = g
      BY <1>1, <2>1, <2>2
    <3>2. /\ g \in Seq(Byte) /\ w \in Seq(Byte) /\ u \in Seq(Byte)
          /\ x \in Seq(Byte) /\ v \in Seq(Byte)
      BY <1>1, <1>3
    <3>3. Asked(d)' = (g \o x) \o v /\ Asked(d) = (g \o w) \o u
      BY <3>1 DEF Asked
    <3>. HIDE DEF g, w, u, x, v
    <3>4. Asked(d)' = Asked(d)
      <4>1. (g \o x) \o v = g \o (x \o v)
        BY <3>2, Associative, ZenonT(30)
      <4>2. (g \o w) \o u = g \o (w \o u)
        BY <3>2, Associative, ZenonT(30)
      <4>. QED BY <3>1, <3>3, <4>1, <4>2
    <3>5. Replied(d)' = Replied(d)
      BY <2>1, <3>1 DEF Replied
    <3>6. ~Answering(d) /\ d \notin served
      BY <3>1 DEF Stream, u
    <3>. QED BY <1>1, <1>4, <2>1, <3>1, <3>4, <3>5, <3>6 DEF Stream, u
  <2>3. CASE e = "server"
    <3> DEFINE g == got[d]["client"]  w == wire[d]["client"]  u == unsent[d]["server"]
               x == wire'[d]["client"]  v == unsent'[d]["server"]
    <3>1. /\ wire'[d]["server"] = wire[d]["server"] /\ u # <<>>
          /\ unsent'[d]["client"] = unsent[d]["client"]
          /\ x \o v = w \o u
          /\ got'[d]["client"] = g
      BY <1>1, <2>1, <2>3
    <3>2. /\ g \in Seq(Byte) /\ w \in Seq(Byte) /\ u \in Seq(Byte)
          /\ x \in Seq(Byte) /\ v \in Seq(Byte)
      BY <1>1, <1>3
    <3>3. Replied(d)' = (g \o x) \o v /\ Replied(d) = (g \o w) \o u
      BY <3>1 DEF Replied
    <3>. HIDE DEF g, w, u, x, v
    <3>4. Replied(d)' = Replied(d)
      <4>1. (g \o x) \o v = g \o (x \o v)
        BY <3>2, Associative, ZenonT(30)
      <4>2. (g \o w) \o u = g \o (w \o u)
        BY <3>2, Associative, ZenonT(30)
      <4>. QED BY <3>1, <3>3, <4>1, <4>2
    <3>5. Asked(d)' = Asked(d)
      BY <2>1, <3>1 DEF Asked
    <3>6. Answering(d) /\ client[d] # "new" /\ d \notin served
      BY <2>1, <3>1, <1>1 DEF Stream, u
    <3>7. /\ unsent[d]["client"] = <<>> /\ client'[d] # "new" /\ d \notin served'
          /\ (client'[d] = "failed" => TooLong(d)) /\ Answering(d)'
      BY <1>1, <1>4, <2>1, <3>6 DEF Stream
    <3>. QED BY <1>4, <2>1, <3>1, <3>4, <3>5, <3>6, <3>7 DEF Stream
  <2>. QED BY <2>2, <2>3, Zenon DEF End
<1>6. ASSUME TakeByte(d, e) PROVE Stream(d)'
  <2>1. /\ isOpen'[d] = isOpen[d] /\ unsent'[d] = unsent[d]
        /\ got'[d][Other(e)] = got[d][Other(e)] /\ wire'[d][Other(e)] = wire[d][Other(e)]
        /\ got'[d][e] \o wire'[d][e] = got[d][e] \o wire[d][e]
        /\ wire[d][e] # <<>>
    BY <1>6, TakeEffect, Zenon DEF HoldInv, TakeByte
  <2>2. client[d] # "new"
    BY <2>1 DEF Stream
  <2>3. CASE e = "server"
    <3>1. /\ got'[d]["server"] \o wire'[d]["server"] = got[d]["server"] \o wire[d]["server"]
          /\ got'[d]["client"] = got[d]["client"] /\ wire'[d]["client"] = wire[d]["client"]
      BY <1>1, <2>1, <2>3
    <3>2. Asked(d)' = Asked(d) /\ Replied(d)' = Replied(d)
      BY <2>1, <3>1 DEF Asked, Replied
    <3>. QED BY <1>4, <2>1, <2>2, <3>1, <3>2 DEF Stream
  <2>4. CASE e = "client"
    <3>1. /\ got'[d]["client"] \o wire'[d]["client"] = got[d]["client"] \o wire[d]["client"]
          /\ got'[d]["server"] = got[d]["server"] /\ wire'[d]["server"] = wire[d]["server"]
      BY <1>1, <2>1, <2>4
    <3>2. Asked(d)' = Asked(d) /\ Replied(d)' = Replied(d)
      BY <2>1, <3>1 DEF Asked, Replied
    <3>3. ~("server" \in isOpen[d] /\ ~Answering(d))
      BY <2>1, <2>4 DEF Stream
    <3>4. /\ isOpen'[d] = isOpen[d] /\ unsent'[d] = unsent[d]
          /\ request'[d] = request[d] /\ served' = served
      BY <2>1
    <3>5. ~("server" \in isOpen'[d] /\ ~Answering(d)')
      BY <1>4, <3>3, <3>4
    <3>6. Answering(d)' \/ d \in served' =>
            /\ unsent'[d]["client"] = <<>>
            /\ "client" \in isOpen'[d] => Replied(d)' = Reply(d)'
      BY <1>4, <3>2, <3>4 DEF Stream
    <3>. QED BY <1>4, <2>2, <3>2, <3>4, <3>5, <3>6 DEF Stream
  <2>. QED BY <2>3, <2>4, Zenon DEF End
<1>. QED BY <1>2, <1>5, <1>6 DEF Kept, Answering

\* The server's end of a connection closes, without or with a reply sent.
LEMMA ServerCloses ==
  ASSUME HoldInv, HoldInv', NEW d \in Client, Stream(d),
         NEW ds, d \in ds, CloseEnds(ds, "server"), "server" \in isOpen[d],
         ~Answering(d)', request' = request,
         client'[d] = client[d], answer'[d] = answer[d],
         d \in served' => Answering(d) /\ unsent[d]["server"] = <<>>
  PROVE  Stream(d)'
<1>1. /\ isOpen'[d] = isOpen[d] \ {"server"}
      /\ wire'[d]["server"] = <<>> /\ unsent'[d]["server"] = <<>> /\ got'[d]["server"] = <<>>
      /\ wire'[d]["client"] = wire[d]["client"] /\ got'[d]["client"] = got[d]["client"]
      /\ unsent'[d]["client"] = unsent[d]["client"]
  BY CloseEffect, StreamsAreBytes DEF HoldInv
<1>2. /\ got[d]["client"] \in Seq(Byte) /\ wire[d]["client"] \in Seq(Byte)
      /\ unsent[d]["server"] \in Seq(Byte)
      /\ got[d]["client"] \o wire[d]["client"] \in Seq(Byte)
  BY StreamsAreBytes, ConcatProperties DEF HoldInv
<1>3. Replied(d)' = got[d]["client"] \o wire[d]["client"]
  BY <1>1, <1>2, ConcatEmptySeq DEF Replied
<1>4. Reply(d)' = Reply(d) /\ (TooLong(d)' <=> TooLong(d)) /\ client[d] # "new"
  BY DEF Reply, TooLong, HoldInv, EndsHeld
<1>5. "client" \in isOpen[d] => Starts(Replied(d)', Reply(d))
  BY <1>2, <1>3, StartsShorter DEF Stream, Replied
<1>6. d \in served' => Replied(d)' = Replied(d)
  BY <1>2, <1>3, ConcatEmptySeq DEF Replied
<1>. QED BY <1>1, <1>4, <1>5, <1>6 DEF Stream

\* A client's end closes.
LEMMA LeaveStream ==
  ASSUME HoldInv, HoldInv', NEW d \in Client, Stream(d), Leaves(d)
  PROVE  Stream(d)' /\ \A o \in Client \ {d} : Kept(o)
<1>1. /\ UNCHANGED <<serverVars, main, request, served>>
      /\ client[d] \in {"sending", "receiving"}
      /\ CloseEnds({d}, "client")
      /\ \E where \in {"answered", "failed", "killed"} :
           client' = [client EXCEPT ![d] = where]
      /\ \A o \in Client \ {d} : answer'[o] = answer[o]
  BY DEF Leaves, ClientAnswered, ClientFails, ClientKilled, ClientGoes, HoldInv, People
<1>2. /\ isOpen'[d] = isOpen[d] \ {"client"}
      /\ wire'[d]["client"] = <<>> /\ unsent'[d]["client"] = <<>> /\ got'[d]["client"] = <<>>
      /\ wire'[d]["server"] = wire[d]["server"] /\ got'[d]["server"] = got[d]["server"]
      /\ unsent'[d]["server"] = unsent[d]["server"]
      /\ \A o \in Client \ {d} : Untouched(o)
  BY <1>1, CloseEffect, StreamsAreBytes DEF HoldInv
<1>3. /\ Reply(d)' = Reply(d) /\ (TooLong(d)' <=> TooLong(d))
      /\ \A o \in Client : Answering(o)' <=> Answering(o)
      /\ "client" \in isOpen[d]
  BY <1>1 DEF Reply, TooLong, Answering, serverVars, HoldInv, EndsHeld
<1>4. "server" \in isOpen[d] => Starts(Asked(d)', Frame(request[d]))
  <2>1. /\ got[d]["server"] \in Seq(Byte) /\ wire[d]["server"] \in Seq(Byte)
        /\ unsent[d]["client"] \in Seq(Byte)
        /\ got[d]["server"] \o wire[d]["server"] \in Seq(Byte)
    BY StreamsAreBytes, ConcatProperties DEF HoldInv
  <2>2. Asked(d)' = got[d]["server"] \o wire[d]["server"]
    BY <1>2, <2>1, ConcatEmptySeq DEF Asked
  <2>. QED BY <2>1, <2>2, StartsShorter DEF Stream, Asked
<1>5. /\ client'[d] \in {"answered", "failed", "killed"}
      /\ client'[d] = "failed" => ClientFails(d)
      /\ client'[d] = "answered" => answer'[d] = Payload(d, "client") /\ Received(d, "client")
  BY DEF Leaves, ClientAnswered, ClientFails, ClientKilled, ClientGoes, HoldInv, People, IpcTypeOK
<1>6. client'[d] = "answered" => answer'[d] = Prefix \o request[d]
  BY <1>3, <1>5, ReplyRead
<1>7. client'[d] = "failed" /\ ("server" \in isOpen[d] \/ d \in served) => TooLong(d)
  BY <1>5, FailsOnTooLong
<1>8. Stream(d)'
  BY <1>1, <1>2, <1>3, <1>4, <1>5, <1>6, <1>7 DEF Stream
<1>. QED BY <1>1, <1>2, <1>3, <1>8 DEF Kept, HoldInv, IpcTypeOK

\* The listener makes the reply.
LEMMA ReplyStream ==
  ASSUME HoldInv, HoldInv', NEW d \in Client, d = current, Stream(d), ListenerReplies
  PROVE  Stream(d)' /\ \A o \in Client \ {d} : Kept(o)
<1>1. /\ \A o \in Client \ {d} : Untouched(o)
      /\ wire'[d] = wire[d] /\ got'[d] = got[d] /\ isOpen'[d] = isOpen[d]
      /\ unsent'[d]["client"] = unsent[d]["client"]
      /\ unsent'[d]["server"] = Frame(Prefix \o Payload(d, "server"))
  BY ReplyEffect DEF HoldInv
<1>2. /\ listener = "receive" /\ listener' = "reply" /\ current' = d
      /\ Received(d, "server")
      /\ UNCHANGED <<clientVars, served>>
  BY DEF ListenerReplies
<1>3. "server" \in isOpen[d] /\ ~Answering(d) /\ Answering(d)'
  BY <1>2, CurrentIsClient DEF Answering
<1>4. Payload(d, "server") = request[d] /\ unsent[d]["client"] = <<>>
  BY <1>2, <1>3, RequestWhole
<1>5. /\ Reply(d)' = Reply(d) /\ (TooLong(d)' <=> TooLong(d)) /\ Asked(d)' = Asked(d)
      /\ request' = request /\ client' = client /\ answer' = answer
  BY <1>1, <1>2 DEF Reply, TooLong, Asked, clientVars
<1>6. got[d]["client"] = <<>> /\ wire[d]["client"] = <<>> /\ Reply(d) \in Seq(Byte)
  BY <1>3, StreamsAreBytes DEF Stream, HoldInv
<1>7. Replied(d)' = Reply(d)
  <2>1. Replied(d)' = (<<>> \o <<>>) \o Reply(d)
    BY <1>1, <1>4, <1>6 DEF Replied, Reply
  <2>2. <<>> \o <<>> = <<>> /\ <<>> \o Reply(d) = Reply(d)
    BY <1>6, ConcatEmptySeq, EmptySeq
  <2>. QED BY <2>1, <2>2
<1>8. Starts(Reply(d), Reply(d))
  BY <1>6, ConcatEmptySeq, EmptySeq DEF Starts
<1>9. client[d] # "new" /\ d \notin served
  BY <1>3 DEF HoldInv, EndsHeld, Stream
<1>10. Stream(d)'
  BY <1>1, <1>2, <1>3, <1>4, <1>5, <1>7, <1>8, <1>9 DEF Stream
<1>11. \A o \in Client \ {d} : Answering(o)' <=> Answering(o)
  BY <1>2 DEF Answering
<1>. QED BY <1>1, <1>2, <1>5, <1>10, <1>11 DEF Kept

\* A client connects, or is refused.
LEMMA ConnectStream ==
  ASSUME HoldInv, HoldInv', NEW d \in Client, Stream(d), Connect(d)
  PROVE  Stream(d)' /\ \A o \in Client \ {d} : Kept(o)
<1>1. /\ client[d] = "new" /\ isOpen[d] = {} /\ d \notin served
      /\ \A e \in End : wire[d][e] = <<>> /\ unsent[d][e] = <<>> /\ got[d][e] = <<>>
      /\ "server" \in End /\ "client" \in End
      /\ UNCHANGED <<wire, got, listener, current, request, answer, served>>
      /\ request[d] \in Seq(Byte) /\ Frame(request[d]) \in Seq(Byte) /\ Reply(d) \in Seq(Byte)
  BY StreamsAreBytes DEF Connect, HoldInv, EndsHeld, Stream
<1>2. /\ \A o \in Client : Answering(o)' <=> Answering(o)
      /\ ~Answering(d)
  BY <1>1, CurrentIsClient DEF Answering
<1>3. CASE named /\ (fdOpen \/ listener = "polling")
  <2>1. /\ \A o \in Client \ {d} : Untouched(o)
        /\ wire'[d] = wire[d] /\ got'[d] = got[d] /\ isOpen'[d] = End
        /\ unsent'[d]["client"] = Frame(request[d])
        /\ unsent'[d]["server"] = unsent[d]["server"]
    BY <1>3, ConnectEffect
  <2>2. client' = [client EXCEPT ![d] = "sending"]
    BY <1>3 DEF Connect, ClientGoes
  <2>3. <<>> \o <<>> = <<>> /\ <<>> \in Seq(Byte)
    BY ConcatEmptySeq, EmptySeq
  <2>4. Asked(d)' = Frame(request[d])
    <3>1. Asked(d)' = (<<>> \o <<>>) \o Frame(request[d])
      BY <1>1, <2>1 DEF Asked
    <3>2. <<>> \o Frame(request[d]) = Frame(request[d])
      BY <1>1, ConcatEmptySeq
    <3>. QED BY <2>3, <3>1, <3>2
  <2>5. Replied(d)' = <<>>
    BY <1>1, <2>1, <2>3 DEF Replied
  <2>6. Starts(Frame(request[d]), Frame(request[d])) /\ Starts(<<>>, Reply(d))
    BY <1>1, <2>3, ConcatEmptySeq DEF Starts
  <2>7. client'[d] = "sending" /\ Reply(d)' = Reply(d)
    BY <1>1, <2>2 DEF HoldInv, IpcTypeOK, Reply
  <2>8. Stream(d)'
    BY <1>1, <1>2, <2>1, <2>4, <2>5, <2>6, <2>7 DEF Stream
  <2>. QED BY <1>1, <1>2, <2>1, <2>2, <2>8 DEF Kept, HoldInv, IpcTypeOK
<1>4. CASE ~(named /\ (fdOpen \/ listener = "polling"))
  <2>1. client' = [client EXCEPT ![d] = "failed"] /\ UNCHANGED connectionVars
    BY <1>1, <1>4 DEF Connect, ClientGoes, connectionVars
  <2>2. client'[d] = "failed"
    BY <2>1 DEF HoldInv, IpcTypeOK
  <2>3. Stream(d)'
    BY <1>1, <1>2, <2>1, <2>2 DEF Stream, connectionVars
  <2>. QED BY <1>1, <1>2, <2>1, <2>3 DEF Kept, Untouched, connectionVars, HoldInv, IpcTypeOK
<1>. QED BY <1>3, <1>4

LEMMA ClientMovesStream ==
  ASSUME HoldInv, NEW d \in Client, Stream(d), ClientMoves(d)
  PROVE  Stream(d)' /\ \A o \in Client \ {d} : Kept(o)
<1>1. UNCHANGED <<serverVars, main, request, answer, served>> /\ "client" \in End
  BY DEF ClientMoves, End
<1>2. CASE (PutByte(d, "client") \/ TakeByte(d, "client")) /\ UNCHANGED client
  <2>1. /\ Stream(d)'
        /\ \A o \in Client \ {d} : client'[o] = client[o] /\ answer'[o] = answer[o]
                                     => Kept(o)
    BY <1>1, <1>2, ByteMovesStream DEF serverVars
  <2>. QED BY <1>1, <1>2, <2>1
<1>3. CASE /\ client[d] = "sending" /\ client' = [client EXCEPT ![d] = "receiving"]
           /\ UNCHANGED connectionVars
  <2>1. \A o \in Client : Untouched(o) /\ (Answering(o)' <=> Answering(o))
    BY <1>1, <1>3 DEF Untouched, Answering, connectionVars, serverVars
  <2>2. client'[d] = "receiving"
    BY <1>3 DEF HoldInv, IpcTypeOK
  <2>3. /\ Asked(d)' = Asked(d) /\ Replied(d)' = Replied(d) /\ Reply(d)' = Reply(d)
    BY <1>1, <1>3 DEF Asked, Replied, Reply, connectionVars
  <2>4. Stream(d)'
    BY <1>1, <1>3, <2>1, <2>2, <2>3 DEF Stream, Untouched
  <2>. QED BY <1>1, <1>3, <2>1, <2>4 DEF Kept, HoldInv, IpcTypeOK
<1>. QED BY <1>2, <1>3 DEF ClientMoves, ClientGoes

\* The end of an iteration, whatever it came to.
LEMMA EndIterationStream ==
  ASSUME HoldInv, HoldInv', Streams, ReceiveFails \/ ReplySent \/ ReplyFails
  PROVE  Streams'
<1>1. /\ current \in Client /\ "server" \in isOpen[current]
      /\ CloseEnds({current}, "server")
      /\ current' = NoClient /\ listener' = "check"
      /\ UNCHANGED clientVars /\ listener \in {"receive", "reply"}
  BY IterationEnds, CurrentIsClient DEF EndIteration
<1>2. \/ served' = served
      \/ /\ served' = served \cup {current}
         /\ listener = "reply" /\ unsent[current]["server"] = <<>>
  BY DEF ReceiveFails, ReplySent, ReplyFails
<1>3. PICK d \in Client : d = current
  BY <1>1
<1>4. \A o \in Client : ~Answering(o)' /\ (o # d => ~Answering(o))
  BY <1>1, <1>3 DEF Answering
<1>5. Stream(d)'
  <2>1. d \in served' => Answering(d) /\ unsent[d]["server"] = <<>>
    BY <1>1, <1>2, <1>3 DEF Answering, Streams, Stream
  <2>. QED BY <1>1, <1>3, <1>4, <2>1, ServerCloses DEF Streams, clientVars
<1>6. \A o \in Client \ {d} : Kept(o)
  <2>1. \A o \in Client \ {d} : Untouched(o)
    BY <1>1, <1>3, CloseEffect, Ends DEF HoldInv
  <2>. QED BY <1>1, <1>2, <1>3, <1>4, <2>1 DEF Kept, clientVars
<1>. QED BY <1>5, <1>6, KeptStream DEF Streams

\* The kernel may free the socket, with what waits in its queue.
LEMMA DropStream ==
  ASSUME HoldInv, HoldInv', Streams, PollReturns \/ CloseDescriptor
  PROVE  Streams'
<1>1. PICK held \in BOOLEAN : FreeSocket(held)
  <2>1. fdOpen \in BOOLEAN
    BY DEF HoldInv, IpcTypeOK
  <2>. QED BY <2>1 DEF PollReturns, CloseDescriptor
<1>2. /\ UNCHANGED <<current, clientVars, served>>
      /\ listener' = listener \/ {listener, listener'} \cap {"reply"} = {}
  BY DEF PollReturns, CloseDescriptor
<1>3. \A o \in Client : Answering(o)' <=> Answering(o)
  BY <1>2 DEF Answering
<1>4. /\ \A o \in Client \ Waiting : Untouched(o)
      /\ \/ \A o \in Client : Untouched(o)
         \/ CloseEnds(Waiting, "server")
  BY <1>1, FreeEffect
<1>5. ASSUME NEW o \in Client, Untouched(o) PROVE Stream(o)'
  BY <1>2, <1>3, <1>5, KeptStream DEF Kept, Streams, clientVars
<1>6. ASSUME NEW o \in Waiting \cap Client, CloseEnds(Waiting, "server") PROVE Stream(o)'
  <2>1. "server" \in isOpen[o] /\ o # current
    BY DEF HoldInv, EndsHeld
  <2>2. ~Answering(o)' /\ o \notin served'
    BY <1>2, <2>1 DEF Answering, Streams, Stream
  <2>. QED BY <1>2, <1>6, <2>1, <2>2, ServerCloses DEF Streams, clientVars
<1>. QED BY <1>4, <1>5, <1>6 DEF Streams

LEMMA ListenerMovesStream ==
  ASSUME HoldInv, HoldInv', Streams, ListenerReads \/ ListenerWrites \/ ListenerReplies
  PROVE  Streams'
<1>1. current \in Client /\ "server" \in End
  BY CurrentIsClient DEF ListenerReads, ListenerWrites, ListenerReplies
<1>2. PICK d \in Client : d = current
  BY <1>1
<1>3. CASE ListenerReads \/ ListenerWrites
  <2>1. /\ PutByte(d, "server") \/ TakeByte(d, "server")
        /\ UNCHANGED <<serverVars, clientVars, served>>
    BY <1>2, <1>3 DEF ListenerReads, ListenerWrites
  <2>2. Stream(d)' /\ \A o \in Client \ {d} : Kept(o)
    BY <1>1, <2>1, ByteMovesStream DEF Streams, serverVars, clientVars
  <2>. QED BY <2>2, KeptStream DEF Streams
<1>4. CASE ListenerReplies
  <2>1. Stream(d)' /\ \A o \in Client \ {d} : Kept(o)
    BY <1>2, <1>4, ReplyStream DEF Streams
  <2>. QED BY <2>1, KeptStream DEF Streams
<1>. QED BY <1>3, <1>4

LEMMA StepStreams ==
  ASSUME HoldInv, HoldInv', Streams, [IpcNext]_ipcVars
  PROVE  Streams'
<1>1. CASE Quiet \/ Accept \/ UNCHANGED ipcVars
  <2>1. /\ UNCHANGED <<connectionVars, clientVars, served>>
        /\ \/ UNCHANGED <<current, listener>>
           \/ listener # "reply" /\ listener' # "reply"
    <3>1. CASE Quiet
      BY <3>1 DEF Quiet, CheckStop, TestListening, FillDescriptor, BeginPoll,
                  ForgetDescriptor, UnlinkPath, RequestStop, JoinListener, serverVars
    <3>2. CASE Accept
      BY <3>2 DEF Accept
    <3>3. CASE UNCHANGED ipcVars
      BY <3>3 DEF ipcVars, serverVars
    <3>. QED BY <1>1, <3>1, <3>2, <3>3
  <2>2. \A o \in Client : Kept(o)
    BY <2>1 DEF Kept, Untouched, Answering, connectionVars, clientVars
  <2>. QED BY <2>2, KeptStream DEF Streams
<1>2. CASE PollReturns \/ CloseDescriptor
  BY <1>2, DropStream
<1>3. CASE ListenerReads \/ ListenerWrites \/ ListenerReplies
  BY <1>3, ListenerMovesStream
<1>4. CASE ReceiveFails \/ ReplySent \/ ReplyFails
  BY <1>4, EndIterationStream
<1>5. ASSUME NEW d \in Client, Connect(d) \/ Leaves(d) \/ ClientMoves(d)
      PROVE  Streams'
  <2>1. Stream(d)' /\ \A o \in Client \ {d} : Kept(o)
    BY <1>5, ConnectStream, LeaveStream, ClientMovesStream DEF Streams
  <2>. QED BY <2>1, KeptStream DEF Streams
<1>. QED BY <1>1, <1>2, <1>3, <1>4, <1>5
         DEF IpcNext, ListenerStep, StopStep, ClientStep, Quiet, Leaves

\* A client with an answer has the prefix and its own request; and a reply that
\* the listener has sent arrives, unless it is longer than the client takes:
\* whatever the sizes, the clients, the moment of stop() and the kernel's pieces.
THEOREM RepliesAreTrue == IpcSpec => []RepliesTrue
<1>1. HoldInv /\ Streams => RepliesTrue
  <2>. SUFFICES ASSUME HoldInv, Streams PROVE RepliesTrue
    OBVIOUS
  <2>1. AnswersEchoRequests
    BY DEF Streams, Stream, AnswersEchoRequests
  <2>2. SentRepliesArrive
    BY DEF Streams, Stream, SentRepliesArrive, TooLong, HoldInv, People
  <2>. QED BY <2>1, <2>2 DEF HoldInv, RepliesTrue
<1>2. IpcInit => HoldInv /\ Streams
  BY InitHold, InitStreams
<1>3. HoldInv /\ Streams /\ [IpcNext]_ipcVars => HoldInv' /\ Streams'
  BY StepHold, StepStreams
<1>. QED BY <1>1, <1>2, <1>3, PTL DEF IpcSpec
-----------------------------------------------------------------------------
(* Sends with a timeout, on a connection whose bytes are those of several  *)
(* messages.  TimedSend and SampleIpcServer take the steps of a connection *)
(* from the same module; the connections of the one are not those of the   *)
(* other, and no formula here is about both.                               *)

\* The payload of the i-th message, when it has s bytes.
PayloadOf(i, s) == [k \in 1..s |-> <<"byte", i, k>>]

\* The bytes all are the frames of messages with the sizes sz, one after the
\* other: the i-th ends before[i] bytes after the beginning.
Laid(all, before, sz) ==
  /\ all \in Seq(Byte)
  /\ before \in [0..Len(sz) -> 0..Len(all)]
  /\ before[0] = 0 /\ before[Len(sz)] = Len(all)
  /\ \A i \in 1..Len(sz) :
       /\ before[i] = before[i - 1] + (HeaderSize + sz[i])
       /\ SubSeq(all, before[i - 1] + 1, before[i]) = Frame(PayloadOf(i, sz[i]))

LEMMA PayloadOfBytes ==
  ASSUME NEW i \in Nat, NEW s \in Nat
  PROVE  PayloadOf(i, s) \in Seq(Byte) /\ Len(PayloadOf(i, s)) = s
<1>1. \A k \in 1..s : <<"byte", i, k>> \in Byte
  BY DEF Byte
<1>. QED BY <1>1 DEF PayloadOf

\* The same three, whichever two are joined first.
Grouped(x, y, z) == (x \o y) \o z = x \o (y \o z)

LEMMA Regrouped == \A x, y, z \in Seq(Byte) : Grouped(x, y, z)
<1>. SUFFICES ASSUME NEW x \in Seq(Byte), NEW y \in Seq(Byte), NEW z \in Seq(Byte)
              PROVE  Grouped(x, y, z)
  OBVIOUS
<1>. QED BY ConcatAssociative DEF Grouped

\* A piece in the middle of three joined ones.
LEMMA MiddlePiece ==
  ASSUME NEW a \in Seq(Byte), NEW b \in Seq(Byte), NEW d \in Seq(Byte), b # <<>>
  PROVE  SubSeq((a \o b) \o d, Len(a) + 1, Len(a) + Len(b)) = b
<1>1. /\ Len(a) \in Nat /\ Len(b) \in Nat \ {0} /\ a \o b \in Seq(Byte)
      /\ Len(a \o b) = Len(a) + Len(b)
  BY ConcatProperties, LenProperties, EmptySeq
<1>2. SubSeq((a \o b) \o d, Len(a) + 1, Len(a) + Len(b))
        = SubSeq(a \o b, Len(a) + 1, Len(a) + Len(b))
  BY <1>1, SubSeqOfConcat1
<1>3. SubSeq(a \o b, Len(a) + 1, Len(a) + Len(b)) = SubSeq(b, 1, Len(b))
  <2>1. (Len(a) + 1) - Len(a) = 1 /\ (Len(a) + Len(b)) - Len(a) = Len(b)
        /\ Len(a) + 1 \in Len(a) + 1 .. Len(a) + Len(b)
        /\ Len(a) + Len(b) \in Len(a) + 1 .. Len(a) + Len(b)
    BY <1>1
  <2>. QED BY <2>1, SubSeqOfConcat2
<1>. QED BY <1>2, <1>3, SubSeqFull

\* One more frame is laid after the others.
LEMMA LaidMore ==
  ASSUME NEW sz \in Seq(Nat), NEW s \in Nat, NEW all, NEW before, Laid(all, before, sz)
  PROVE  \E after :
           /\ Laid(all \o Frame(PayloadOf(Len(sz) + 1, s)), after, Append(sz, s))
           /\ \A i \in 0..Len(sz) : after[i] = before[i]
<1>. DEFINE m == Len(sz)
            more == Append(sz, s)
            new == Frame(PayloadOf(m + 1, s))
            joined == all \o new
            after == [i \in 0..(m + 1) |-> IF i = m + 1 THEN Len(joined) ELSE before[i]]
<1>1. HeaderSize \in Nat \ {0} /\ m \in Nat /\ Len(all) \in Nat /\ all \in Seq(Byte)
  BY SizesAssumption, LenProperties DEF Laid
<1>2. Len(more) = m + 1 /\ more[m + 1] = s /\ \A i \in 1..m : more[i] = sz[i]
  BY <1>1, AppendProperties
<1>3. new \in Seq(Byte) /\ Len(new) = HeaderSize + s
  <2>1. m + 1 \in Nat
    BY <1>1
  <2>2. PayloadOf(m + 1, s) \in Seq(Byte) /\ Len(PayloadOf(m + 1, s)) = s
    BY <2>1, PayloadOfBytes
  <2>. QED BY <2>2, FrameShape
<1>4. joined \in Seq(Byte) /\ Len(joined) = Len(all) + (HeaderSize + s)
  <2>. HIDE DEF new
  <2>. QED BY <1>1, <1>3, ConcatProperties
<1>. HIDE DEF new, more, joined
<1>5. /\ after \in [0..(m + 1) -> 0..Len(joined)]
      /\ after[m + 1] = Len(joined)
      /\ \A i \in 0..m : after[i] = before[i]
  BY <1>1, <1>4 DEF Laid
<1>. HIDE DEF after
<1>6. ASSUME NEW i \in 1..m
      PROVE  /\ after[i] = after[i - 1] + (HeaderSize + more[i])
             /\ SubSeq(joined, after[i - 1] + 1, after[i]) = Frame(PayloadOf(i, more[i]))
  <2>1. /\ after[i] = before[i] /\ after[i - 1] = before[i - 1] /\ more[i] = sz[i]
        /\ i \in 1..Len(sz) /\ i - 1 \in 0..Len(sz) /\ i \in 0..Len(sz) /\ sz[i] \in Nat
    <3>1. i \in 1..Len(sz) /\ i - 1 \in 0..m /\ i \in 0..m
      BY <1>1
    <3>2. sz[i] \in Nat
      BY <3>1
    <3>. QED BY <1>2, <1>5, <3>1, <3>2
  <2>2. /\ before[i] = before[i - 1] + (HeaderSize + sz[i])
        /\ SubSeq(all, before[i - 1] + 1, before[i]) = Frame(PayloadOf(i, sz[i]))
        /\ before[i] \in 0..Len(all) /\ before[i - 1] \in 0..Len(all)
    BY <2>1 DEF Laid
  <2>3. before[i - 1] + 1 \in 1..Len(all) /\ before[i] \in 1..Len(all)
    <3>1. ASSUME NEW x \in Nat, NEW y \in Nat, NEW z \in Nat, x = y + (HeaderSize + sz[i]),
                 x <= z
          PROVE  y + 1 \in 1..z /\ x \in 1..z
      BY <1>1, <2>1, <3>1
    <3>2. /\ before[i] \in Nat /\ before[i - 1] \in Nat /\ Len(all) \in Nat
          /\ before[i] <= Len(all)
      BY <1>1, <2>2
    <3>. QED BY <2>2, <3>1, <3>2
  <2>4. SubSeq(joined, before[i - 1] + 1, before[i]) = SubSeq(all, before[i - 1] + 1, before[i])
    BY <1>1, <1>3, <2>3, SubSeqOfConcat1 DEF joined
  <2>. QED BY <2>1, <2>2, <2>4
<1>7. /\ after[m + 1] = after[(m + 1) - 1] + (HeaderSize + more[m + 1])
      /\ SubSeq(joined, after[(m + 1) - 1] + 1, after[m + 1]) = new
  <2>1. after[(m + 1) - 1] = Len(all) /\ after[m + 1] = Len(all) + Len(new)
    <3>1. (m + 1) - 1 = m /\ m \in 0..m /\ before[m] = Len(all)
      BY <1>1 DEF Laid
    <3>. QED BY <1>3, <1>4, <1>5, <3>1
  <2>2. <<>> \in Seq(Byte) /\ joined \o <<>> = joined /\ new # <<>>
    BY <1>1, <1>3, <1>4, EmptySeq, ConcatEmptySeq
  <2>3. SubSeq(joined \o <<>>, Len(all) + 1, Len(all) + Len(new)) = new
    BY <1>1, <1>3, <2>2, MiddlePiece DEF joined
  <2>. QED BY <1>2, <1>3, <2>1, <2>2, <2>3
<1>8. \A i \in 1..(m + 1) :
        /\ after[i] = after[i - 1] + (HeaderSize + more[i])
        /\ SubSeq(joined, after[i - 1] + 1, after[i]) = Frame(PayloadOf(i, more[i]))
  <2>. SUFFICES ASSUME NEW i \in 1..(m + 1)
                PROVE  /\ after[i] = after[i - 1] + (HeaderSize + more[i])
                       /\ SubSeq(joined, after[i - 1] + 1, after[i])
                            = Frame(PayloadOf(i, more[i]))
    OBVIOUS
  <2>1. CASE i = m + 1
    BY <1>2, <1>7, <2>1 DEF new
  <2>2. CASE i # m + 1
    <3>1. i \in 1..m
      BY <1>1, <2>2
    <3>. QED BY <1>6, <3>1
  <2>. QED BY <2>1, <2>2
<1>9. after[0] = 0
  BY <1>1, <1>5 DEF Laid
<1>10. Laid(joined, after, more)
  BY <1>2, <1>4, <1>5, <1>8, <1>9 DEF Laid
<1>. QED BY <1>5, <1>10 DEF joined, more, new

\* The bytes d are those of the first n frames, g is read of the next one, and t
\* is ahead.
Reading(all, before, sz, n, d, g, t) ==
  /\ d \in Seq(Byte) /\ g \in Seq(Byte) /\ t \in Seq(Byte)
  /\ sz \in Seq(Nat) /\ n \in 0..Len(sz)
  /\ Laid(all, before, sz) /\ Len(d) = before[n]
  /\ (d \o g) \o t = all

\* What is read of a frame tells the size, and is the frame at its length.
Tells(before, sz, n, d, g, t) ==
  /\ n + 1 \in 1..Len(sz)
  /\ g[1][2] = sz[n + 1]
  /\ Len(g) = HeaderSize + sz[n + 1] =>
       /\ g = Frame(PayloadOf(n + 1, sz[n + 1]))
       /\ Len(d \o g) = before[n + 1]
       /\ n + 1 = Len(sz) => Len(t) = 0

LEMMA FrameRead ==
  ASSUME NEW sz, NEW n, NEW all, NEW before, NEW d, NEW g, NEW t,
         Reading(all, before, sz, n, d, g, t), Len(g) >= HeaderSize
  PROVE  Tells(before, sz, n, d, g, t)
<1>. SUFFICES
       ASSUME d \in Seq(Byte), g \in Seq(Byte), t \in Seq(Byte),
              sz \in Seq(Nat), n \in 0..Len(sz), Laid(all, before, sz),
              Len(d) = before[n], (d \o g) \o t = all
       PROVE  Tells(before, sz, n, d, g, t)
  BY DEF Reading
<1>1. /\ HeaderSize \in Nat \ {0} /\ Len(sz) \in Nat /\ n \in Nat /\ n <= Len(sz)
      /\ Len(g) \in Nat /\ Len(t) \in Nat /\ Len(d) \in Nat
      /\ g # <<>> /\ all \in Seq(Byte)
  BY SizesAssumption, LenProperties, EmptySeq DEF Laid
<1>2. Len(d \o g) = Len(d) + Len(g) /\ d \o g \in Seq(Byte)
  BY ConcatProperties
<1>3. Len(all) = (Len(d) + Len(g)) + Len(t)
  BY <1>2, ConcatProperties
<1>4. n < Len(sz)
  BY <1>1, <1>3 DEF Laid
<1>5. n + 1 \in 1..Len(sz) /\ (n + 1) - 1 = n
  BY <1>1, <1>4
<1>6. sz[n + 1] \in Nat
  BY <1>5
<1> DEFINE p == PayloadOf(n + 1, sz[n + 1])
<1>7. /\ before[n + 1] = before[n] + (HeaderSize + sz[n + 1])
      /\ SubSeq(all, before[n] + 1, before[n + 1]) = Frame(p)
      /\ before[n + 1] \in 0..Len(all)
  <2>1. n + 1 \in 0..Len(sz)
    BY <1>5
  <2>2. \A i \in 1..Len(sz) :
          /\ before[i] = before[i - 1] + (HeaderSize + sz[i])
          /\ SubSeq(all, before[i - 1] + 1, before[i]) = Frame(PayloadOf(i, sz[i]))
    BY DEF Laid
  <2>3. before[n + 1] \in 0..Len(all)
    BY <2>1 DEF Laid
  <2>. QED BY <1>5, <2>2, <2>3
<1>8. /\ Frame(p) \in Seq(Byte) /\ Len(Frame(p)) = HeaderSize + sz[n + 1]
      /\ Frame(p)[1][2] = sz[n + 1]
  <2>1. p \in Seq(Byte) /\ Len(p) = sz[n + 1]
    <3>1. n + 1 \in Nat
      BY <1>1
    <3>. QED BY <1>6, <3>1, PayloadOfBytes
  <2>. QED BY <2>1, FrameShape
<1>. HIDE DEF p
<1>9. g[1] = Frame(p)[1]
  <2>1. all[Len(d) + 1] = g[1]
    <3>1. (d \o g)[Len(d) + 1] = g[1]
      <4>1. Len(d) + 1 \in 1..(Len(d) + Len(g)) /\ ~(Len(d) + 1 <= Len(d))
            /\ (Len(d) + 1) - Len(d) = 1
        BY <1>1
      <4>2. \A i \in 1 .. Len(d) + Len(g) :
              (d \o g)[i] = IF i <= Len(d) THEN d[i] ELSE g[i - Len(d)]
        BY ConcatProperties
      <4>. QED BY <4>1, <4>2
    <3>2. ((d \o g) \o t)[Len(d) + 1] = (d \o g)[Len(d) + 1]
      <4>1. /\ Len(d) + 1 \in 1..(Len(d \o g) + Len(t))
            /\ Len(d) + 1 <= Len(d \o g)
        BY <1>1, <1>2
      <4>. QED BY <1>2, <4>1, ConcatProperties
    <3>. QED BY <3>1, <3>2
  <2>2. before[n] + 1 \in Nat /\ before[n + 1] \in Nat /\ before[n] + 1 <= before[n + 1]
    <3>1. before[n] = Len(d) /\ before[n + 1] = Len(d) + (HeaderSize + sz[n + 1])
      BY <1>7
    <3>2. ASSUME NEW x \in Nat, NEW y \in Nat
          PROVE  x + 1 \in Nat /\ x + (HeaderSize + y) \in Nat /\ x + 1 <= x + (HeaderSize + y)
      BY <1>1
    <3>. QED BY <1>1, <1>6, <3>1, <3>2
  <2>3. \A i \in before[n] + 1 .. before[n + 1] : all[i] \in Byte
    <3>1. before[n + 1] <= Len(all) /\ Len(all) \in Nat
      BY <1>1, <1>7
    <3>2. \A i \in 1..Len(all) : all[i] \in Byte
      BY <1>1
    <3>3. before[n] + 1 \in Nat \ {0}
      BY <1>1
    <3>. QED BY <2>2, <3>1, <3>2, <3>3
  <2>4. SubSeq(all, before[n] + 1, before[n + 1])[1] = all[before[n] + 1]
    <3>1. /\ before[n] + 1 \in Int /\ before[n + 1] \in Int
          /\ 1 \in 1..(before[n + 1] - (before[n] + 1) + 1)
          /\ (before[n] + 1) + 1 - 1 = before[n] + 1
      BY <2>2, <1>1
    <3>. QED BY <2>3, <3>1, SubSeqProperties
  <2>. QED BY <1>7, <2>1, <2>4
<1>10. Len(g) = HeaderSize + sz[n + 1] => g = Frame(p)
  <2>. SUFFICES ASSUME Len(g) = HeaderSize + sz[n + 1] PROVE g = Frame(p)
    OBVIOUS
  <2>1. SubSeq((d \o g) \o t, Len(d) + 1, Len(d) + Len(g)) = g
    BY <1>1, MiddlePiece
  <2>. QED BY <1>7, <2>1
<1>11. g[1][2] = sz[n + 1]
  BY <1>8, <1>9
<1>12. Len(g) = HeaderSize + sz[n + 1] => Len(d \o g) = before[n + 1]
  BY <1>1, <1>2, <1>7
<1>13. ASSUME Len(g) = HeaderSize + sz[n + 1], n + 1 = Len(sz) PROVE Len(t) = 0
  <2>1. Len(d \o g) = Len(all)
    BY <1>12, <1>13 DEF Laid
  <2>. QED BY <1>1, <1>2, <1>3, <2>1
<1>. QED BY <1>5, <1>10, <1>11, <1>12, <1>13 DEF p, Tells

\* Five joined sequences, joined another way.
SameJoined(d, g, w, u, r) ==
  /\ (d \o ((g \o w) \o u)) \o r = (d \o g) \o ((w \o u) \o r)
  /\ ((d \o g) \o (w \o u)) \o r = (d \o g) \o ((w \o u) \o r)
  /\ (w \o u) \o r \in Seq(Byte) /\ d \o g \in Seq(Byte)
  /\ Len((w \o u) \o r) = Len(w) + Len(u) + Len(r)

LEMMA Rejoined ==
  ASSUME NEW d \in Seq(Byte), NEW g \in Seq(Byte), NEW w \in Seq(Byte),
         NEW u \in Seq(Byte), NEW r \in Seq(Byte)
  PROVE  SameJoined(d, g, w, u, r)
<1>1. w \o u \in Seq(Byte) /\ d \o g \in Seq(Byte) /\ Len(w \o u) = Len(w) + Len(u)
  BY ConcatProperties
<1>2. (w \o u) \o r \in Seq(Byte) /\ Len((w \o u) \o r) = Len(w \o u) + Len(r)
  BY <1>1, ConcatProperties
<1>3. Grouped(g, w, u) /\ Grouped(d, g, w \o u) /\ Grouped(d \o g, w \o u, r)
  BY <1>1, Regrouped, Zenon
<1>4. /\ (g \o w) \o u = g \o (w \o u)
      /\ (d \o g) \o (w \o u) = d \o (g \o (w \o u))
      /\ ((d \o g) \o (w \o u)) \o r = (d \o g) \o ((w \o u) \o r)
  BY <1>3 DEF Grouped
<1>. QED BY <1>1, <1>2, <1>4 DEF SameJoined

\* What is on its way: read by the receiver, on the wire, not yet sent.
Coming ==
  (got[sender]["server"] \o wire[sender]["server"]) \o unsent[sender]["client"]

Failed == \E i \in DOMAIN results : results[i] = "false"

Told ==
  /\ Bytes /\ SendTypeOK
  /\ sender \in Client
  /\ received \in Seq(Seq(Byte)) /\ Len(received) <= Len(sizes)
  /\ \A i \in 1..Len(received) : received[i] = PayloadOf(i, sizes[i])
  /\ \A i \in 1..Len(results) :
       results[i] = "false" =>
         i = Len(sizes) /\ i > Len(received) /\ "client" \notin isOpen[sender]
  /\ step # "idle" => /\ "client" \in isOpen[sender] /\ rest # <<>>
                      /\ Len(received) < Len(sizes)
  /\ "server" \notin isOpen[sender] => got[sender]["server"] = <<>>

\* While the receiver listens: all that was handed to sendMessage() is what it
\* got of whole messages, what is coming, and what a failed send left out.
OnWay ==
  "server" \in isOpen[sender] =>
    \E all, before : \E done, r \in Seq(Byte) :
      /\ Laid(all, before, sizes)
      /\ Len(done) = before[Len(received)]
      /\ (done \o Coming) \o r = all
      /\ "client" \in isOpen[sender] => r = <<>>
      /\ Failed => r # <<>>

SendInv == Told /\ OnWay

LEMMA InitSends ==
  ASSUME Client # {}, MaxMessages \in Nat, SendInit
  PROVE  SendInv
<1>1. sender \in Client
  BY DEF sender
<1>2. Bytes
  BY EmptySeq DEF SendInit, Nothing, Bytes, End, End
<1>3. /\ received = <<>> /\ results = <<>> /\ sizes = <<>> /\ step = "idle" /\ chunk = 0
      /\ expired = FALSE
      /\ got[sender]["server"] = <<>> /\ wire[sender]["server"] = <<>>
      /\ unsent[sender]["client"] = <<>>
  BY <1>1 DEF SendInit, Nothing, End
<1>4. SendTypeOK
  <2>1. /\ <<>> \in Seq({"pending", "true", "false"}) /\ <<>> \in Seq(PayloadSizes)
        /\ Len(<<>>) = 0
    BY EmptySeq
  <2>2. rest = <<>> /\ chunk \in 0..Len(rest) /\ ~(chunk > 0)
    BY <1>3, <2>1 DEF rest
  <2>3. /\ Len(results) <= MaxMessages /\ Len(received) <= MaxMessages
        /\ Len(sizes) = Len(results)
    BY <1>3, <2>1
  <2>. QED BY <1>3, <2>1, <2>2, <2>3, Zenon DEF SendTypeOK
<1>5. Told
  BY <1>1, <1>2, <1>3, <1>4, EmptySeq DEF Told
<1>6. Laid(<<>>, [i \in 0..0 |-> 0], sizes)
  BY <1>3, EmptySeq DEF Laid
<1>7. Coming = <<>> /\ (<<>> \o Coming) \o <<>> = <<>> /\ <<>> \in Seq(Byte)
  BY <1>3, EmptySeq, ConcatEmptySeq DEF Coming
<1>8. Len(<<>>) = [i \in 0..0 |-> 0][Len(received)] /\ ~Failed
  BY <1>3, EmptySeq DEF Failed
<1>9. OnWay
  BY <1>6, <1>7, <1>8 DEF OnWay
<1>. QED BY <1>5, <1>9 DEF SendInv

\* Bytes that move, and what leaves them alone, keep what is on its way.
LEMMA OnWayKept ==
  ASSUME OnWay, Coming' = Coming, isOpen'[sender] = isOpen[sender],
         sizes' = sizes, received' = received, Failed' => Failed
  PROVE  OnWay'
<1>. SUFFICES ASSUME "server" \in isOpen'[sender] PROVE OnWay'
  BY DEF OnWay
<1>1. PICK all, before : \E done, r \in Seq(Byte) :
        /\ Laid(all, before, sizes)
        /\ Len(done) = before[Len(received)]
        /\ (done \o Coming) \o r = all
        /\ "client" \in isOpen[sender] => r = <<>>
        /\ Failed => r # <<>>
  BY DEF OnWay
<1>2. PICK done \in Seq(Byte), r \in Seq(Byte) :
        /\ Laid(all, before, sizes')
        /\ Len(done) = before[Len(received')]
        /\ (done \o Coming') \o r = all
        /\ "client" \in isOpen'[sender] => r = <<>>
        /\ Failed' => r # <<>>
  BY <1>1
<1>3. \E d1, r1 \in Seq(Byte) :
        /\ Laid(all, before, sizes')
        /\ Len(d1) = before[Len(received')]
        /\ (d1 \o Coming') \o r1 = all
        /\ "client" \in isOpen'[sender] => r1 = <<>>
        /\ Failed' => r1 # <<>>
  BY <1>2
<1>. QED BY <1>3 DEF OnWay

\* Steps of the sender alone.
LEMMA WaitsKeep ==
  ASSUME PayloadSizes \in SUBSET Nat, SendInv,
         Expire \/ PollReady \/ Interrupted \/ UNCHANGED timedVars
  PROVE  SendInv'
<1>1. UNCHANGED <<wire, unsent, got, isOpen, results, sizes, received>>
  BY DEF Expire, PollReady, Interrupted, timedVars, connectionVars
<1>2. rest' = rest /\ rest \in Seq(Byte) /\ Len(rest) \in Nat
  BY <1>1, LenProperties, Ends DEF rest, SendInv, Told, Bytes
<1>3. /\ step' \in {"idle", "poll", "send"} /\ expired' \in BOOLEAN
      /\ chunk' \in 0..Len(rest) /\ (chunk' > 0 <=> step' = "send")
      /\ step' # "idle" <=> step # "idle"
  <2>1. CASE Expire \/ UNCHANGED timedVars
    BY <2>1 DEF Expire, timedVars, SendInv, Told, SendTypeOK
  <2>2. CASE Interrupted
    BY <1>2, <2>2 DEF Interrupted, SendInv, Told, SendTypeOK
  <2>3. CASE PollReady
    <3>1. Len(rest) > 0
      BY <1>2, <2>3, EmptySeq DEF PollReady, SendInv, Told
    <3>2. sizes \in Seq(PayloadSizes) /\ Len(received) < Len(sizes) /\ Len(received) \in Nat
      BY <2>3, LenProperties DEF PollReady, SendInv, Told, SendTypeOK
    <3>3. Len(sizes) \in 1..Len(sizes)
      BY <3>2, LenProperties
    <3>4. sizes[Len(sizes)] \in Nat
      <4>1. sizes[Len(sizes)] \in PayloadSizes
        BY <3>2, <3>3
      <4>. QED BY <4>1
    <3>5. chunk' \in 1..Len(rest)
      BY <1>2, <2>3, <3>1, <3>4 DEF PollReady
    <3>6. step = "poll" /\ step' = "send" /\ expired' = expired
      BY <2>3 DEF PollReady
    <3>. QED BY <1>2, <3>5, <3>6 DEF SendInv, Told, SendTypeOK
  <2>. QED BY <2>1, <2>2, <2>3
<1>4. SendTypeOK'
  BY <1>1, <1>2, <1>3 DEF SendInv, Told, SendTypeOK
<1>5. Told'
  BY <1>1, <1>2, <1>3, <1>4 DEF SendInv, Told, Bytes
<1>6. OnWay'
  BY <1>1, OnWayKept DEF SendInv, Coming, Failed
<1>. QED BY <1>5, <1>6 DEF SendInv
\* What a return does to the results.
LEMMA Returns ==
  ASSUME SendInv, step # "idle", NEW outcome \in {"true", "false"}, Return(outcome)
  PROVE  /\ results' \in Seq({"pending", "true", "false"}) /\ Len(results') = Len(results)
         /\ results'[Len(results)] = outcome /\ Len(results) \in DOMAIN results
         /\ \A i \in 1..Len(results) : i # Len(results) => results'[i] = results[i]
         /\ step' = "idle" /\ chunk' = 0
<1>1. /\ results \in Seq({"pending", "true", "false"}) /\ Len(results) \in Nat \ {0}
      /\ results' = [results EXCEPT ![Len(results)] = outcome]
  BY LenProperties DEF SendInv, Told, SendTypeOK, Return
<1>2. /\ results' \in Seq({"pending", "true", "false"}) /\ Len(results') = Len(results)
  BY <1>1, ExceptSeq
<1>3. /\ Len(results) \in DOMAIN results /\ results'[Len(results)] = outcome
      /\ \A i \in 1..Len(results) : i # Len(results) => results'[i] = results[i]
  <2>1. DOMAIN results = 1..Len(results) /\ Len(results) \in 1..Len(results)
    BY <1>1, LenProperties
  <2>2. results' = [results EXCEPT ![Len(results)] = outcome]
    BY <1>1
  <2>. QED BY <2>1, <2>2
<1>4. step' = "idle" /\ chunk' = 0
  BY DEF Return
<1>. QED BY <1>2, <1>3, <1>4

LEMMA SendByteKeeps ==
  ASSUME PayloadSizes \in SUBSET Nat, SendInv, SendByte
  PROVE  SendInv'
<1> DEFINE u == unsent[sender]["client"]
<1>1. /\ PutByte(sender, "client") /\ step = "send"
      /\ UNCHANGED <<expired, sizes, received>>
      /\ \/ Len(u) = 1 /\ Return("true")
         \/ /\ Len(u) > 1 /\ chunk' = chunk - 1 /\ step' \in {"poll", "send"}
            /\ step' = "poll" <=> chunk = 1
            /\ results' = results
  BY DEF SendByte, rest
<1>2. Told
  BY DEF SendInv
<1>3. /\ Bytes' /\ isOpen'[sender] = isOpen[sender]
      /\ got'[sender] = got[sender]
      /\ u # <<>> /\ u \in Seq(Byte) /\ unsent'[sender]["client"] = Tail(u)
      /\ wire'[sender]["server"] \o unsent'[sender]["client"] = wire[sender]["server"] \o u
  <2>1. Bytes /\ "client" \in End /\ Other("client") = "server" /\ sender \in Client
    BY <1>2, Ends DEF Told, Other
  <2>2. unsent'[sender]["client"] = Tail(u)
    BY <1>1, <2>1 DEF PutByte, Bytes
  <2>3. u \in Seq(Byte)
    BY <2>1 DEF Bytes
  <2>4. /\ Bytes' /\ isOpen'[sender] = End /\ isOpen[sender] = End
        /\ got'[sender] = got[sender] /\ u # <<>>
        /\ wire'[sender][Other("client")] \o unsent'[sender]["client"]
             = wire[sender][Other("client")] \o u
    BY <1>1, <2>1, PutEffect
  <2>. QED BY <2>1, <2>2, <2>3, <2>4
<1>4. Len(u) \in Nat \ {0} /\ Len(Tail(u)) = Len(u) - 1 /\ Tail(u) \in Seq(Byte)
  BY <1>3, HeadTailProperties, LenProperties, EmptySeq
<1>41. Tail(u) = <<>> <=> Len(u) = 1
  <2>. HIDE DEF u
  <2>1. Tail(u) = <<>> <=> Len(Tail(u)) = 0
    BY <1>4, EmptySeq
  <2>2. Len(Tail(u)) = 0 <=> Len(u) = 1
    BY <1>4
  <2>. QED BY <2>1, <2>2
<1>5. Coming' = Coming
  <2>1. /\ got[sender]["server"] \in Seq(Byte) /\ wire[sender]["server"] \in Seq(Byte)
        /\ wire'[sender]["server"] \in Seq(Byte) /\ unsent'[sender]["client"] \in Seq(Byte)
    BY <1>2, <1>3, Ends DEF Told, Bytes
  <2>4. /\ Grouped(got[sender]["server"], wire[sender]["server"], u)
        /\ Grouped(got[sender]["server"], wire'[sender]["server"],
                   unsent'[sender]["client"])
    BY <1>3, <2>1, Regrouped, Zenon
  <2>2. Coming = got[sender]["server"] \o (wire[sender]["server"] \o u)
    BY <2>4 DEF Coming, Grouped
  <2>3. Coming' = got[sender]["server"] \o (wire'[sender]["server"] \o unsent'[sender]["client"])
    <3>1. Coming' = (got[sender]["server"] \o wire'[sender]["server"]) \o unsent'[sender]["client"]
      BY <1>3 DEF Coming
    <3>. QED BY <2>4, <3>1 DEF Grouped
  <2>. QED BY <1>3, <2>2, <2>3
<1>. HIDE DEF u
<1>6. /\ results' \in Seq({"pending", "true", "false"}) /\ Len(results') = Len(results)
      /\ \A i \in 1..Len(results) : results'[i] = "false" => results[i] = "false"
      /\ Failed' => Failed
      /\ chunk' \in 0..Len(Tail(u)) /\ (chunk' > 0 <=> step' = "send")
      /\ step' \in {"idle", "poll", "send"}
      /\ Tail(u) = <<>> <=> step' = "idle"
  <2>1. CASE Len(u) = 1 /\ Return("true")
    <3>1. Tail(u) = <<>>
      BY <1>41, <2>1
    <3>2. /\ results' \in Seq({"pending", "true", "false"}) /\ Len(results') = Len(results)
          /\ results'[Len(results)] = "true" /\ Len(results) \in Nat
          /\ \A i \in 1..Len(results) : i # Len(results) => results'[i] = results[i]
          /\ step' = "idle" /\ chunk' = 0
          /\ results \in Seq({"pending", "true", "false"})
      BY <1>1, <1>2, <2>1, Returns, LenProperties DEF Told, SendTypeOK
    <3>3. \A i \in 1..Len(results) : results'[i] = "false" => results[i] = "false"
      BY <3>2
    <3>4. DOMAIN results' = 1..Len(results) /\ DOMAIN results = 1..Len(results)
      BY <3>2, LenProperties
    <3>5. Failed' => Failed
      BY <3>3, <3>4 DEF Failed
    <3>6. chunk' \in 0..Len(Tail(u))
      BY <1>4, <3>2
    <3>. QED BY <3>1, <3>2, <3>3, <3>5, <3>6
  <2>2. CASE ~(Len(u) = 1 /\ Return("true"))
    <3>2. chunk \in 0..Len(u) /\ chunk > 0
      BY <1>1, <1>2 DEF Told, SendTypeOK, rest, u
    <3>3. results \in Seq({"pending", "true", "false"})
      BY <1>2 DEF Told, SendTypeOK
    <3>4. /\ Len(u) > 1 /\ chunk' = chunk - 1 /\ step' \in {"poll", "send"}
          /\ step' = "poll" <=> chunk = 1
          /\ results' = results
      BY <1>1, <2>2
    <3>5. Tail(u) # <<>>
      <4>1. PICK n \in Nat : n = Len(u)
        BY <1>4
      <4>2. n > 1
        BY <3>4, <4>1
      <4>3. n # 1
        BY <4>2
      <4>. QED BY <1>41, <4>1, <4>3
    <3>6. chunk' \in 0..Len(Tail(u)) /\ (chunk' > 0 <=> step' = "send")
      BY <1>4, <3>2, <3>4
    <3>7. Failed' => Failed
      BY <3>4 DEF Failed
    <3>. QED BY <3>5, <3>3, <3>4, <3>6, <3>7
  <2>. QED BY <2>1, <2>2
<1>7. SendTypeOK'
  BY <1>1, <1>2, <1>3, <1>6 DEF Told, SendTypeOK, rest
<1>8. Told'
  BY <1>1, <1>2, <1>3, <1>6, <1>7 DEF Told, rest
<1>9. OnWay'
  BY <1>1, <1>3, <1>5, <1>6, OnWayKept DEF SendInv
<1>. QED BY <1>8, <1>9 DEF SendInv

LEMMA ReceiveKeeps ==
  ASSUME SendInv, Receive
  PROVE  SendInv'
<1>1. /\ TakeByte(sender, "server") /\ "server" \in isOpen[sender]
      /\ UNCHANGED <<step, chunk, expired, results, sizes, received>>
  BY DEF Receive
<1>2. Told
  BY DEF SendInv
<1>3. /\ Bytes' /\ isOpen'[sender] = isOpen[sender] /\ unsent'[sender] = unsent[sender]
      /\ got'[sender]["server"] \o wire'[sender]["server"]
           = got[sender]["server"] \o wire[sender]["server"]
  BY <1>1, <1>2, TakeEffect, Ends DEF Told
<1>4. Coming' = Coming
  BY <1>3 DEF Coming
<1>5. rest' = rest
  BY <1>3 DEF rest
<1>6. SendTypeOK'
  BY <1>1, <1>2, <1>5 DEF Told, SendTypeOK
<1>7. Told'
  BY <1>1, <1>2, <1>3, <1>5, <1>6 DEF Told
<1>8. OnWay'
  BY <1>1, <1>3, <1>4, OnWayKept DEF SendInv, Failed
<1>. QED BY <1>7, <1>8 DEF SendInv
\* The sender closes after its messages, or in the middle of one it gives up.
LEMMA SenderClosesKeeps ==
  ASSUME SendInv, "client" \in isOpen[sender], CloseEnds({sender}, "client"),
         UNCHANGED <<expired, sizes, received>>,
         \/ step = "idle" /\ UNCHANGED <<step, chunk, results>>
         \/ step # "idle" /\ Return("false")
  PROVE  SendInv'
<1> DEFINE g == got[sender]["server"]
           w == wire[sender]["server"]
           u == unsent[sender]["client"]
<1>1. Told /\ sender \in Client
  BY DEF SendInv, Told
<1>2. /\ Bytes' /\ isOpen'[sender] = isOpen[sender] \ {"client"}
      /\ unsent'[sender]["client"] = <<>>
      /\ wire'[sender]["server"] = w /\ got'[sender]["server"] = g
  <2>1. Bytes /\ "client" \in End /\ Other("client") = "server"
        /\ sender \in {sender} \cap Client
    BY <1>1, Ends DEF Told, Other
  <2>. QED BY <2>1, CloseEffect
<1>3. g \in Seq(Byte) /\ w \in Seq(Byte) /\ u \in Seq(Byte) /\ <<>> \in Seq(Byte)
  BY <1>1, EmptySeq, Ends DEF Told, Bytes
<1>4. /\ results' \in Seq({"pending", "true", "false"}) /\ Len(results') = Len(results)
      /\ step' = "idle" /\ chunk' = 0
      /\ \A i \in 1..Len(results) :
           results'[i] = "false" =>
             i = Len(sizes) /\ i > Len(received) /\ u # <<>>
      /\ Failed' => u # <<>>
  <2>1. Len(results) = Len(sizes) /\ results \in Seq({"pending", "true", "false"})
    BY <1>1 DEF Told, SendTypeOK
  <2>2. CASE step = "idle"
    <3>1. UNCHANGED <<step, chunk, results>>
      BY <2>2
    <3>2. chunk = 0
      BY <1>1, <2>2 DEF Told, SendTypeOK
    <3>3. \A i \in 1..Len(results) : results[i] # "false"
      BY <1>1 DEF Told
    <3>4. ~Failed'
      BY <2>1, <3>1, <3>3 DEF Failed
    <3>. QED BY <2>1, <2>2, <3>1, <3>2, <3>3, <3>4
  <2>3. CASE step # "idle"
    <3>1. u # <<>> /\ Len(received) < Len(sizes)
      BY <1>1, <2>3 DEF Told, rest
    <3>2. \A i \in 1..Len(results) : results[i] # "false"
      BY <1>1 DEF Told
    <3>3. /\ results' \in Seq({"pending", "true", "false"}) /\ Len(results') = Len(results)
          /\ \A i \in 1..Len(results) : i # Len(results) => results'[i] = results[i]
          /\ step' = "idle" /\ chunk' = 0
      BY <2>3, Returns
    <3>4. \A i \in 1..Len(results) : results'[i] = "false" => i = Len(sizes)
      BY <2>1, <3>2, <3>3
    <3>. QED BY <3>1, <3>3, <3>4
  <2>. QED BY <2>2, <2>3
<1>5. "client" \notin isOpen'[sender]
      /\ ("server" \in isOpen'[sender] <=> "server" \in isOpen[sender])
  BY <1>2
<1>6. SendTypeOK'
  <2>1. rest' = <<>> /\ Len(<<>>) = 0
    BY <1>2, EmptySeq DEF rest
  <2>. QED BY <1>1, <1>4, <2>1 DEF Told, SendTypeOK
<1>7. Told'
  BY <1>1, <1>2, <1>4, <1>5, <1>6 DEF Told
<1>8. OnWay'
  <2>. SUFFICES ASSUME "server" \in isOpen'[sender] PROVE OnWay'
    BY DEF OnWay
  <2>1. PICK all, before : \E done, r \in Seq(Byte) :
          /\ Laid(all, before, sizes)
          /\ Len(done) = before[Len(received)]
          /\ (done \o Coming) \o r = all
          /\ "client" \in isOpen[sender] => r = <<>>
    BY <1>5 DEF SendInv, OnWay
  <2>2. PICK done \in Seq(Byte) :
          /\ Laid(all, before, sizes)
          /\ Len(done) = before[Len(received)]
          /\ (done \o Coming) \o <<>> = all
    BY <2>1
  <2>. HIDE DEF g, w, u
  <2>3. Coming = (g \o w) \o u /\ Coming' = (g \o w) \o <<>>
    BY <1>2 DEF Coming, g, w, u
  <2>4. g \o w \in Seq(Byte)
    BY <1>3, ConcatProperties
  <2>5. \A x, y \in Seq(Byte) :
          (done \o (x \o y)) \o <<>> = (done \o (x \o <<>>)) \o y
    <3>. SUFFICES ASSUME NEW x \in Seq(Byte), NEW y \in Seq(Byte)
                  PROVE  (done \o (x \o y)) \o <<>> = (done \o (x \o <<>>)) \o y
      OBVIOUS
    <3>1. x \o <<>> = x
      BY ConcatEmptySeq
    <3>2. x \o y \in Seq(Byte)
      BY ConcatProperties
    <3>3. done \o (x \o y) \in Seq(Byte)
      BY <3>2, ConcatProperties
    <3>4. (done \o (x \o y)) \o <<>> = done \o (x \o y)
      BY <3>3, ConcatEmptySeq
    <3>5. (done \o x) \o y = done \o (x \o y)
      BY ConcatAssociative
    <3>. QED BY <3>1, <3>4, <3>5
  <2>6. (done \o Coming') \o u = all
    BY <1>3, <2>2, <2>3, <2>4, <2>5
  <2>7. \E d1, r1 \in Seq(Byte) :
          /\ Laid(all, before, sizes')
          /\ Len(d1) = before[Len(received')]
          /\ (d1 \o Coming') \o r1 = all
          /\ "client" \in isOpen'[sender] => r1 = <<>>
          /\ Failed' => r1 # <<>>
    BY <1>3, <1>4, <1>5, <2>2, <2>6
  <2>. QED BY <2>7 DEF OnWay
<1>. QED BY <1>7, <1>8 DEF SendInv

LEMMA ReceiverClosesKeeps ==
  ASSUME SendInv, ReceiverCloses
  PROVE  SendInv'
<1>1. /\ CloseEnds({sender}, "server")
      /\ UNCHANGED <<step, chunk, expired, results, sizes, received>>
  BY DEF ReceiverCloses
<1>2. Told /\ sender \in Client
  BY DEF SendInv, Told
<1>3. /\ Bytes' /\ isOpen'[sender] = isOpen[sender] \ {"server"}
      /\ got'[sender]["server"] = <<>>
      /\ unsent'[sender]["client"] = unsent[sender]["client"]
  <2>1. Bytes /\ "server" \in End /\ Other("server") = "client"
        /\ sender \in {sender} \cap Client
    BY <1>2, Ends DEF Told, Other
  <2>. QED BY <1>1, <2>1, CloseEffect
<1>4. rest' = rest
  BY <1>3 DEF rest
<1>5. SendTypeOK'
  BY <1>1, <1>2, <1>4 DEF Told, SendTypeOK
<1>6. "client" \in isOpen'[sender] <=> "client" \in isOpen[sender]
  BY <1>3
<1>7. Told'
  BY <1>1, <1>2, <1>3, <1>4, <1>5, <1>6 DEF Told
<1>8. OnWay'
  BY <1>3 DEF OnWay
<1>. QED BY <1>7, <1>8 DEF SendInv
LEMMA SendMessageKeeps ==
  ASSUME PayloadSizes \in SUBSET Nat, MaxMessages \in Nat, SendInv, SendMessage
  PROVE  SendInv'
<1> DEFINE m == Len(sizes)
           g == got[sender]["server"]
           w == wire[sender]["server"]
<1>1. Told /\ sender \in Client
  BY DEF SendInv, Told
<1>2. /\ step = "idle" /\ "client" \in isOpen[sender] /\ m < MaxMessages
      /\ UNCHANGED <<wire, got, isOpen, chunk, received>>
      /\ results' = Append(results, "pending") /\ step' = "poll" /\ expired' = FALSE
  BY <1>1 DEF SendMessage, Told, SendTypeOK
<1>3. /\ sizes \in Seq(PayloadSizes) /\ sizes \in Seq(Nat) /\ m \in Nat
      /\ results \in Seq({"pending", "true", "false"}) /\ Len(results) = m
  <2>1. sizes \in Seq(PayloadSizes)
    BY <1>1 DEF Told, SendTypeOK
  <2>. QED BY <1>1, <2>1, SeqMonotonic, LenProperties DEF Told, SendTypeOK
<1>4. PICK s \in PayloadSizes :
        /\ sizes' = Append(sizes, s)
        /\ unsent' = [unsent EXCEPT ![sender]["client"] =
                        Frame([k \in 1 .. s |-> <<"byte", Len(sizes'), k>>])]
  BY DEF SendMessage
<1>5. s \in Nat /\ Len(sizes') = m + 1 /\ sizes' \in Seq(PayloadSizes)
      /\ \A i \in 1..m : sizes'[i] = sizes[i]
  BY <1>3, <1>4, AppendProperties
<1> DEFINE new == Frame(PayloadOf(m + 1, s))
<1>6. new \in Seq(Byte) /\ new # <<>> /\ Len(new) > 0
  <2>1. m + 1 \in Nat /\ HeaderSize \in Nat \ {0}
    BY <1>3, SizesAssumption
  <2>2. PayloadOf(m + 1, s) \in Seq(Byte) /\ Len(PayloadOf(m + 1, s)) = s
    BY <1>5, <2>1, PayloadOfBytes
  <2>3. new \in Seq(Byte) /\ Len(new) = HeaderSize + s
    BY <2>2, FrameShape
  <2>. QED BY <1>5, <2>1, <2>3, EmptySeq
<1>7. unsent' = [unsent EXCEPT ![sender]["client"] = new]
  <2>1. [k \in 1 .. s |-> <<"byte", Len(sizes'), k>>] = PayloadOf(m + 1, s)
    BY <1>5 DEF PayloadOf
  <2>. QED BY <1>4, <2>1
<1>. HIDE DEF new
<1>8. Bytes' /\ unsent'[sender]["client"] = new
  BY <1>1, <1>2, <1>6, <1>7, Ends DEF Told, Bytes
<1>9. /\ results' \in Seq({"pending", "true", "false"}) /\ Len(results') = m + 1
      /\ \A i \in 1..(m + 1) : results'[i] # "false"
  <2>1. /\ results' \in Seq({"pending", "true", "false"}) /\ Len(results') = m + 1
        /\ \A i \in 1..m : results'[i] = results[i]
        /\ results'[m + 1] = "pending"
    BY <1>2, <1>3, AppendProperties
  <2>2. \A i \in 1..m : results[i] # "false"
    BY <1>1, <1>2, <1>3 DEF Told
  <2>. QED BY <1>3, <2>1, <2>2
<1>10. rest = <<>> /\ rest' = new /\ chunk = 0
  BY <1>1, <1>2, <1>8 DEF Told, SendTypeOK, rest
<1>11. SendTypeOK'
  <2>1. chunk' \in 0..Len(new) /\ ~(chunk' > 0) /\ step' # "send"
    BY <1>2, <1>6, <1>10, LenProperties
  <2>2. Len(received) <= MaxMessages /\ m + 1 <= MaxMessages
    BY <1>1, <1>2, <1>3 DEF Told, SendTypeOK
  <2>3. step' \in {"idle", "poll", "send"} /\ expired' \in BOOLEAN /\ step' # "idle"
    BY <1>2
  <2>. QED BY <1>2, <1>5, <1>9, <1>10, <2>1, <2>2, <2>3 DEF SendTypeOK
<1>12. /\ Len(received) \in Nat /\ Len(received) <= m
       /\ \A i \in 1..Len(received) : i \in 1..m
  BY <1>1, <1>3, LenProperties DEF Told
<1>13. Told'
  <2>1. \A i \in 1..Len(received) : received[i] = PayloadOf(i, sizes'[i])
    BY <1>1, <1>5, <1>12 DEF Told
  <2>2. Len(received) < m + 1
    BY <1>3, <1>12
  <2>. QED BY <1>1, <1>2, <1>5, <1>6, <1>8, <1>9, <1>10, <1>11, <1>12, <2>1, <2>2 DEF Told
<1>14. OnWay'
  <2>. SUFFICES ASSUME "server" \in isOpen'[sender] PROVE OnWay'
    BY DEF OnWay
  <2>1. PICK all, before : \E done, r \in Seq(Byte) :
          /\ Laid(all, before, sizes)
          /\ Len(done) = before[Len(received)]
          /\ (done \o Coming) \o r = all
          /\ "client" \in isOpen[sender] => r = <<>>
    BY <1>2 DEF SendInv, OnWay
  <2>2. PICK done \in Seq(Byte) :
          /\ Laid(all, before, sizes)
          /\ Len(done) = before[Len(received)]
          /\ (done \o Coming) \o <<>> = all
    BY <1>2, <2>1
  <2>3. PICK after :
          /\ Laid(all \o new, after, Append(sizes, s))
          /\ \A i \in 0..m : after[i] = before[i]
    BY <1>3, <1>5, <2>2, LaidMore DEF new
  <2>4. g \in Seq(Byte) /\ w \in Seq(Byte)
    BY <1>1, Ends DEF Told, Bytes
  <2>5. Coming = (g \o w) \o <<>> /\ Coming' = (g \o w) \o new
    BY <1>2, <1>8, <1>10 DEF Coming, rest
  <2>. HIDE DEF g, w
  <2>6. g \o w \in Seq(Byte)
    BY <2>4, ConcatProperties
  <2>7. \A x, y \in Seq(Byte) :
          (done \o (x \o y)) \o <<>> = ((done \o (x \o <<>>)) \o <<>>) \o y
    <3>. SUFFICES ASSUME NEW x \in Seq(Byte), NEW y \in Seq(Byte)
                  PROVE  (done \o (x \o y)) \o <<>> = ((done \o (x \o <<>>)) \o <<>>) \o y
      OBVIOUS
    <3>1. x \o <<>> = x /\ x \o y \in Seq(Byte) /\ done \o x \in Seq(Byte)
      BY ConcatEmptySeq, ConcatProperties
    <3>2. done \o (x \o y) \in Seq(Byte)
      BY <3>1, ConcatProperties
    <3>3. /\ (done \o (x \o y)) \o <<>> = done \o (x \o y)
          /\ (done \o x) \o <<>> = done \o x
      BY <3>1, <3>2, ConcatEmptySeq
    <3>4. (done \o x) \o y = done \o (x \o y)
      BY ConcatAssociative
    <3>. QED BY <3>1, <3>3, <3>4
  <2>8. (done \o Coming') \o <<>> = all \o new
    BY <1>6, <2>2, <2>5, <2>6, <2>7
  <2>9. after[Len(received')] = before[Len(received)]
    BY <1>2, <1>3, <1>12, <2>3
  <2>10. ~Failed'
    <3>1. DOMAIN results' = 1..(m + 1)
      BY <1>9, LenProperties
    <3>. QED BY <1>9, <3>1 DEF Failed
  <2>11. \E d1, r1 \in Seq(Byte) :
          /\ Laid(all \o new, after, sizes')
          /\ Len(d1) = after[Len(received')]
          /\ (d1 \o Coming') \o r1 = all \o new
          /\ "client" \in isOpen'[sender] => r1 = <<>>
          /\ Failed' => r1 # <<>>
    BY <1>4, <2>2, <2>3, <2>8, <2>9, <2>10, EmptySeq
  <2>. QED BY <2>11 DEF OnWay
<1>. QED BY <1>13, <1>14 DEF SendInv

LEMMA MessageReceivedKeeps ==
  ASSUME PayloadSizes \in SUBSET Nat, MaxMessages \in Nat, SendInv, MessageReceived
  PROVE  SendInv'
<1> DEFINE n == Len(received)
           m == Len(sizes)
<1>1. Told /\ sender \in Client
  BY DEF SendInv, Told
<1>2. /\ Received(sender, "server")
      /\ received' = Append(received, Payload(sender, "server"))
      /\ got' = [got EXCEPT ![sender]["server"] = <<>>]
      /\ UNCHANGED <<wire, unsent, isOpen, step, chunk, expired, results, sizes>>
  BY DEF MessageReceived
<1>3. /\ sizes \in Seq(Nat) /\ m \in Nat /\ n \in Nat /\ n <= m
      /\ received \in Seq(Seq(Byte)) /\ HeaderSize \in Nat \ {0} /\ MaxSize \in Nat
      /\ Len(results) = m /\ m <= MaxMessages
  <2>1. sizes \in Seq(PayloadSizes)
    BY <1>1 DEF Told, SendTypeOK
  <2>2. sizes \in Seq(Nat)
    BY <2>1, SeqMonotonic
  <2>3. m \in Nat /\ n \in Nat
    BY <1>1, <2>2, LenProperties DEF Told
  <2>. QED BY <1>1, <2>2, <2>3, SizesAssumption DEF Told, SendTypeOK
<1>4. PICK g \in Seq(Byte), w \in Seq(Byte), u \in Seq(Byte) :
        /\ g = got[sender]["server"] /\ w = wire[sender]["server"]
        /\ u = unsent[sender]["client"]
  BY <1>1, Ends DEF Told, Bytes
<1>5. Len(g) >= HeaderSize /\ Len(g) = HeaderSize + g[1][2]
  BY <1>2, <1>4 DEF Received, HeaderRead, SizeRead
<1>6. "server" \in isOpen[sender]
  <2>1. g # <<>>
    BY <1>3, <1>4, <1>5, EmptySeq
  <2>. QED BY <1>1, <1>4, <2>1 DEF Told
<1>7. PICK all, before : \E done, r \in Seq(Byte) :
        /\ Laid(all, before, sizes)
        /\ Len(done) = before[n]
        /\ (done \o Coming) \o r = all
        /\ "client" \in isOpen[sender] => r = <<>>
        /\ Failed => r # <<>>
  BY <1>6 DEF SendInv, OnWay
<1>8. PICK done \in Seq(Byte), r \in Seq(Byte) :
        /\ Laid(all, before, sizes)
        /\ Len(done) = before[n]
        /\ (done \o ((g \o w) \o u)) \o r = all
        /\ "client" \in isOpen[sender] => r = <<>>
        /\ Failed => r # <<>>
  BY <1>4, <1>7 DEF Coming
<1>9. PICK sz \in Seq(Nat), k \in 0..m : sz = sizes /\ k = n
  BY <1>3
<1>joined. SameJoined(done, g, w, u, r)
  BY Rejoined, Zenon
<1>ahead. PICK t \in Seq(Byte) :
          /\ (done \o g) \o t = all /\ ((done \o g) \o (w \o u)) \o r = all
          /\ done \o g \in Seq(Byte)
          /\ Len(t) = Len(w) + Len(u) + Len(r)
  BY <1>joined, <1>8 DEF SameJoined
<1>reading. Reading(all, before, sz, k, done, g, t)
  BY <1>8, <1>9, <1>ahead DEF Reading
<1>nothing. Len(t) = 0 => u = <<>> /\ r = <<>>
  <2>1. Len(w) \in Nat /\ Len(u) \in Nat /\ Len(r) \in Nat
    BY LenProperties
  <2>2. Len(t) = 0 => Len(u) = 0 /\ Len(r) = 0
    BY <1>ahead, <2>1
  <2>. QED BY <2>2, EmptySeq
<1>tells. Tells(before, sz, k, done, g, t)
  <2>1. Len(g) >= HeaderSize
    BY <1>5
  <2>. QED BY <2>1, <1>reading, FrameRead, Zenon
<1>10. /\ k + 1 \in 1..Len(sz)
       /\ g = Frame(PayloadOf(k + 1, sz[k + 1]))
       /\ Len(done \o g) = before[k + 1]
       /\ k + 1 = Len(sz) => u = <<>> /\ r = <<>>
  BY <1>5, <1>nothing, <1>tells DEF Tells
<1>11. PICK p \in Seq(Byte) :
         /\ p = PayloadOf(n + 1, sizes[n + 1]) /\ Payload(sender, "server") = p
  <2>1. n + 1 \in Nat /\ sizes[n + 1] \in Nat
    BY <1>3, <1>9, <1>10
  <2>2. PICK p \in Seq(Byte) :
          p = PayloadOf(n + 1, sizes[n + 1]) /\ Len(p) = sizes[n + 1]
    BY <2>1, PayloadOfBytes
  <2>3. g = Frame(p)
    BY <1>9, <1>10, <2>2
  <2>4. Len(g) = HeaderSize + Len(p) /\ SubSeq(g, HeaderSize + 1, HeaderSize + Len(p)) = p
    BY <2>3, FrameShape
  <2>. QED BY <1>4, <2>2, <2>4 DEF Payload
<1>12. /\ received' \in Seq(Seq(Byte)) /\ Len(received') = n + 1
       /\ received'[n + 1] = p
       /\ \A i \in 1..n : received'[i] = received[i]
  BY <1>2, <1>3, <1>11, AppendProperties
<1>13. n + 1 <= m /\ (n + 1 = m => u = <<>> /\ r = <<>>)
  BY <1>3, <1>9, <1>10
<1>14. \A i \in 1..Len(results) : results[i] = "false" => i = m /\ i > n + 1
  <2>. SUFFICES ASSUME NEW i \in 1..Len(results), results[i] = "false"
                PROVE  i = m /\ i > n + 1
    OBVIOUS
  <2>1. i = m /\ i > n
    BY <1>1 DEF Told
  <2>2. Failed
    <3>1. i \in DOMAIN results
      BY <1>1 DEF Told, SendTypeOK
    <3>. QED BY <3>1 DEF Failed
  <2>3. n + 1 # m
    BY <1>8, <1>13, <2>2
  <2>. QED BY <1>3, <2>1, <2>3
<1>15. step # "idle" => n + 1 < m
  <2>1. step # "idle" => u # <<>>
    BY <1>1, <1>4 DEF Told, rest
  <2>. QED BY <1>3, <1>13, <2>1
<1>16. Bytes' /\ got'[sender]["server"] = <<>>
  BY <1>1, <1>2, EmptySeq, Ends DEF Told, Bytes
<1>17. rest' = rest
  BY <1>2 DEF rest
<1>18. SendTypeOK'
  <2>1. Len(received') <= MaxMessages
    BY <1>3, <1>12, <1>13
  <2>. QED BY <1>1, <1>2, <1>17, <2>1 DEF Told, SendTypeOK
<1>19. Told'
  <2>1. \A i \in 1..(n + 1) : received'[i] = PayloadOf(i, sizes[i])
    <3>1. \A i \in 1..n : received[i] = PayloadOf(i, sizes[i])
      BY <1>1 DEF Told
    <3>2. \A i \in 1..(n + 1) : i \in 1..n \/ i = n + 1
      <4>1. n \in Nat
        BY <1>3
      <4>. HIDE DEF n
      <4>. QED BY <4>1
    <3>. QED BY <1>11, <1>12, <3>1, <3>2
  <2>. QED BY <1>1, <1>2, <1>12, <1>13, <1>14, <1>15, <1>16, <1>17, <1>18, <2>1 DEF Told
<1>20. OnWay'
  <2>1. Coming' = w \o u
    <3>1. Coming' = (<<>> \o w) \o u
      BY <1>2, <1>4, <1>16 DEF Coming
    <3>2. <<>> \o w = w
      BY ConcatEmptySeq
    <3>. QED BY <3>1, <3>2
  <2>2. Failed' <=> Failed
    BY <1>2 DEF Failed
  <2>3. Len(done \o g) = before[Len(received')]
    BY <1>9, <1>10, <1>12
  <2>4. \E d1, r1 \in Seq(Byte) :
          /\ Laid(all, before, sizes')
          /\ Len(d1) = before[Len(received')]
          /\ (d1 \o Coming') \o r1 = all
          /\ "client" \in isOpen'[sender] => r1 = <<>>
          /\ Failed' => r1 # <<>>
    BY <1>2, <1>8, <1>ahead, <2>1, <2>2, <2>3
  <2>. QED BY <2>4 DEF OnWay
<1>. QED BY <1>19, <1>20 DEF SendInv

\* Whatever the pieces in which a timed send places its bytes, the polls and
\* signals between them and the moment either end closes, the receiver gets
\* whole messages, in their order, and none of a call that returned false: for
\* any sizes, any buffer and any number of messages.
THEOREM SendsAreTrue ==
  ASSUME Client # {}, PayloadSizes \in SUBSET Nat, MaxMessages \in Nat
  PROVE  SendSpec => []SentTrue
<1>1. SendInit => SendInv
  BY InitSends
<1>2. SendInv /\ [SendNext]_(timedVars) => SendInv'
  <2>. SUFFICES ASSUME SendInv, [SendNext]_(timedVars) PROVE SendInv'
    OBVIOUS
  <2>1. CASE Expire \/ PollReady \/ Interrupted \/ UNCHANGED timedVars
    BY <2>1, WaitsKeep
  <2>2. CASE PollTimesOut \/ SendError \/ CloseClient
    <3>1. /\ CloseEnds({sender}, "client")
          /\ UNCHANGED <<expired, sizes, received>>
          /\ \/ step = "idle" /\ UNCHANGED <<step, chunk, results>>
             \/ step # "idle" /\ Return("false")
      BY <2>2 DEF PollTimesOut, SendError, CloseClient, GiveUp
    <3>2. "client" \in isOpen[sender]
      BY <2>2 DEF PollTimesOut, SendError, CloseClient, SendInv, Told
    <3>. QED BY <3>1, <3>2, SenderClosesKeeps
  <2>3. CASE SendMessage
    BY <2>3, SendMessageKeeps
  <2>4. CASE SendByte
    BY <2>4, SendByteKeeps
  <2>5. CASE Receive
    BY <2>5, ReceiveKeeps
  <2>6. CASE MessageReceived
    BY <2>6, MessageReceivedKeeps
  <2>7. CASE ReceiverCloses
    BY <2>7, ReceiverClosesKeeps
  <2>. QED BY <2>1, <2>2, <2>3, <2>4, <2>5, <2>6, <2>7 DEF SendNext, SenderStep
<1>3. SendInv => SentTrue
  <2>. SUFFICES ASSUME Told PROVE SentTrue
    BY DEF SendInv
  <2>1. ASSUME NEW i \in DOMAIN received
        PROVE  i \in DOMAIN results /\ results[i] # "false" /\ received[i] = Message(i)
    <3>1. /\ received \in Seq(Seq(Byte)) /\ results \in Seq({"pending", "true", "false"})
          /\ Len(received) <= Len(results) /\ Len(results) \in Nat /\ Len(received) \in Nat
      BY LenProperties DEF Told, SendTypeOK
    <3>2. i \in 1..Len(received)
      BY <3>1, LenProperties
    <3>3. i \in 1..Len(results) /\ i \in DOMAIN results
      BY <3>1, <3>2, LenProperties
    <3>4. received[i] = Message(i)
      BY <3>2 DEF Told, Message, PayloadOf
    <3>5. results[i] # "false"
      BY <3>1, <3>2, <3>3 DEF Told
    <3>. QED BY <3>3, <3>4, <3>5
  <2>. QED BY <2>1 DEF Told, SentTrue, WholeMessagesInOrder
<1>. QED BY <1>1, <1>2, <1>3, PTL DEF SendSpec
=============================================================================
