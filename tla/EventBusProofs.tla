--------------------------- MODULE EventBusProofs ---------------------------
(***************************************************************************)
(* The invariants of EventBus, those of IpcObject among them, for any      *)
(* number of processes, names and kernel objects, any queue length and any *)
(* number of events; the arithmetic of loadDeadline(), for every clock,    *)
(* every timeout and every unit, with what follows for its calls; what     *)
(* copies into and out of a region keep; and MessageQueue implements       *)
(* MessageChannel.                                                         *)
(***************************************************************************)
EXTENDS MCEventBus, FiniteSetTheorems, SequenceTheorems, TLAPS

\* What a process has at each place of create(), open() and close().
Places ==
  \A p \in Process :
    /\ owner[p] \/ object[p] # NoObject => name[p] \in Name
    /\ at[p] = "idle" /\ object[p] = NoObject => ~owner[p]
    /\ at[p] \in {"sizing", "mapping"} => owner[p] /\ object[p] # NoObject
    /\ at[p] = "mapping" => object[p] \in sized
    /\ at[p] = "measuring" => ~owner[p] /\ object[p] # NoObject
    /\ at[p] \in {"closing", "failing"} => owner[p] /\ object[p] = NoObject

\* Only what has an owner is disowned; a queue that has a name has its size.
Names ==
  /\ \A n \in disowned : Owners(n) # {}
  /\ \A n \in Name \ Regions : bound[n] # NoObject => bound[n] \in sized

ObjectInv == ObjectTypeOK /\ Places /\ Names /\ OwnerHoldsName /\ NamesAccountedFor

USE RegionsAssumption, NoNameAssumption, NoObjectAssumption

\* A step of one process on the kernel's names and its own handle.
ProcessStep(p) ==
  \/ \E n \in Name : \/ CreateQueue(p, n) \/ CreateRegion(p, n)
                     \/ OpenQueue(p, n) \/ OpenRegion(p, n)
  \/ Truncate(p) \/ Map(p) \/ SizingFails(p)
  \/ Measure(p) \/ MeasureFails(p)
  \/ Close(p) \/ UnlinkOwn(p) \/ Unlink(p) \/ Kill(p)

LEMMA ObjectInitInv == ObjectInit => ObjectInv
  BY DEF ObjectInit, ObjectInv, ObjectTypeOK, Places, Names, OwnerHoldsName,
         NamesAccountedFor

\* create() takes a free name: none of its earlier owners counts on it.
LEMMA TakeNameStep ==
  ASSUME ObjectInv, NEW p \in Process, NEW n \in Name, NEW o \in Object, TakeName(p, n, o),
         \/ n \notin Regions /\ sized' = sized \cup {o} /\ at' = at
         \/ n \in Regions /\ sized' = sized \ {o} /\ at' = [at EXCEPT ![p] = "sizing"]
  PROVE  ObjectInv'
<1>. USE DEF ObjectInv, TakeName, IsFree, Holds, Unused
<1>1. ObjectTypeOK'
  BY DEF ObjectTypeOK
<1>2. Places'
  BY DEF ObjectTypeOK, Places
<1>3. \A m : Owners(m)' = IF m = n THEN Owners(m) \cup {p} ELSE Owners(m)
  BY DEF ObjectTypeOK, Places, Owners
<1>4. Names'
  BY <1>3 DEF ObjectTypeOK, Names
<1>5. OwnerHoldsName'
  BY DEF ObjectTypeOK, Places, OwnerHoldsName
<1>6. NamesAccountedFor'
  BY <1>3 DEF ObjectTypeOK, NamesAccountedFor
<1>. QED BY <1>1, <1>2, <1>4, <1>5, <1>6

\* open() becomes nobody's owner.
LEMMA FindNameStep ==
  ASSUME ObjectInv, NEW p \in Process, NEW n \in Name, FindName(p, n),
         \/ n \notin Regions /\ at' = at
         \/ n \in Regions /\ at' = [at EXCEPT ![p] = "measuring"]
  PROVE  ObjectInv'
<1>. USE DEF ObjectInv, FindName, IsFree, Holds
<1>1. ObjectTypeOK'
  BY DEF ObjectTypeOK, Names
<1>2. Places'
  BY DEF ObjectTypeOK, Places
<1>3. \A m : Owners(m)' = Owners(m)
  BY DEF ObjectTypeOK, Places, Owners
<1>4. Names'
  BY <1>3 DEF ObjectTypeOK, Names
<1>5. OwnerHoldsName'
  BY DEF ObjectTypeOK, Places, OwnerHoldsName
<1>6. NamesAccountedFor'
  BY <1>3 DEF ObjectTypeOK, NamesAccountedFor
<1>. QED BY <1>1, <1>2, <1>4, <1>5, <1>6

\* A step that changes neither names nor owners.
LEMMA InsideStep ==
  ASSUME ObjectInv, NEW p \in Process,
         \/ Truncate(p) \/ Map(p) \/ SizingFails(p) \/ Measure(p) \/ MeasureFails(p) \/ Close(p)
  PROVE  ObjectInv'
<1>. USE DEF ObjectInv, Goto, Holds
<1>1. UNCHANGED <<bound, disowned, abandoned>> /\ sized \subseteq sized'
  BY DEF Truncate, Map, SizingFails, Measure, MeasureFails, Close
<1>2. ObjectTypeOK'
  <2>1. CASE Truncate(p) \/ Map(p) \/ SizingFails(p)
    BY <2>1 DEF ObjectTypeOK, Places, Truncate, Map, SizingFails
  <2>2. CASE Measure(p) \/ MeasureFails(p) \/ Close(p)
    BY <2>2, ZenonT(40) DEF ObjectTypeOK, Places, Measure, MeasureFails, Close
  <2>. QED BY <2>1, <2>2
<1>3. Places'
  BY DEF ObjectTypeOK, Places, Truncate, Map, SizingFails, Measure, MeasureFails, Close
<1>4. \A q \in Process : (owner'[q] <=> owner[q]) /\ (owner[q] => name'[q] = name[q])
  BY DEF ObjectTypeOK, Places, Truncate, Map, SizingFails, Measure, MeasureFails, Close
<1>5. \A q \in Process : owner[q] => object'[q] = object[q] \/ object'[q] = NoObject
  BY DEF ObjectTypeOK, Places, Truncate, Map, SizingFails, Measure, MeasureFails, Close
<1>6. \A m : Owners(m)' = Owners(m)
  BY <1>4 DEF Owners
<1>7. Names'
  BY <1>1, <1>6 DEF ObjectTypeOK, Names
<1>8. OwnerHoldsName'
  BY <1>1, <1>4, <1>5 DEF OwnerHoldsName
<1>9. NamesAccountedFor'
  BY <1>1, <1>6 DEF NamesAccountedFor
<1>. QED BY <1>2, <1>3, <1>7, <1>8, <1>9

\* The end of an owner: by its close(), by its unlink(), or by a kill.
LEMMA LeaveStep ==
  ASSUME ObjectInv, NEW p \in Process, UnlinkOwn(p) \/ Unlink(p) \/ Kill(p)
  PROVE  ObjectInv'
<1>. USE DEF ObjectInv, Goto, Holds, Unbind, Settle
<1>1. ObjectTypeOK'
  <2>1. CASE UnlinkOwn(p)
    BY <2>1 DEF ObjectTypeOK, Places, UnlinkOwn
  <2>2. CASE Unlink(p)
    <3>1. name[p] \in Name /\ disowned' \subseteq Name
      BY <2>2 DEF ObjectTypeOK, Places, Unlink
    <3>. QED BY <2>2, <3>1 DEF ObjectTypeOK, Unlink
  <2>3. CASE Kill(p)
    <3>1. abandoned' \subseteq Name
      BY <2>3 DEF ObjectTypeOK, Places, Kill
    <3>. QED BY <2>3, <3>1 DEF ObjectTypeOK, Kill
  <2>. QED BY <2>1, <2>2, <2>3
<1>2. Places'
  BY DEF ObjectTypeOK, Places, UnlinkOwn, Unlink, Kill
<1>3. \A m : Owners(m)' = Owners(m) \ {p}
  BY DEF ObjectTypeOK, Places, Owners, UnlinkOwn, Unlink, Kill
<1>4. \A m \in Name : owner[p] /\ m # name[p] => p \notin Owners(m)
  BY DEF Owners
<1>5. Names'
  BY <1>3 DEF ObjectTypeOK, Places, Names, Owners, UnlinkOwn, Unlink, Kill
<1>6. OwnerHoldsName'
  BY <1>3 DEF ObjectTypeOK, Places, Names, Owners, OwnerHoldsName, UnlinkOwn, Unlink, Kill
<1>7. NamesAccountedFor'
  BY <1>3 DEF ObjectTypeOK, Places, Names, Owners, NamesAccountedFor, UnlinkOwn, Unlink, Kill
<1>. QED BY <1>1, <1>2, <1>5, <1>6, <1>7

LEMMA ObjectStepInv ==
  ASSUME ObjectInv, ObjectNext
  PROVE  ObjectInv'
<1>1. PICK p \in Process : ProcessStep(p)
  BY DEF ObjectNext, ProcessStep
<1>2. ASSUME NEW n \in Name, CreateQueue(p, n) \/ CreateRegion(p, n)
      PROVE  ObjectInv'
  BY <1>2, TakeNameStep DEF CreateQueue, CreateRegion, Goto
<1>3. ASSUME NEW n \in Name, OpenQueue(p, n) \/ OpenRegion(p, n)
      PROVE  ObjectInv'
  BY <1>3, FindNameStep DEF OpenQueue, OpenRegion, Goto
<1>. QED BY <1>1, <1>2, <1>3, InsideStep, LeaveStep DEF ProcessStep
-----------------------------------------------------------------------------
\* What a publisher adds to rising numbers, and what a receiver takes from them.
UpTo(q, top) ==
  /\ \A i \in 1 .. Len(q) : q[i] <= top
  /\ \A i, j \in 1 .. Len(q) : i < j => q[i] < q[j]

LEMMA RisingAppend ==
  ASSUME NEW M \in Nat, NEW q \in Seq(1 .. M), NEW c \in Nat, c + 1 \in 1 .. M, UpTo(q, c)
  PROVE  UpTo(Append(q, c + 1), c + 1)
<1>. DEFINE e == c + 1
            a == Append(q, e)
<1>1. /\ a \in Seq(1 .. M) /\ Len(a) = Len(q) + 1 /\ Len(q) \in Nat
      /\ \A i \in 1 .. Len(q) : a[i] = q[i]
      /\ a[Len(q) + 1] = e
  BY AppendProperties
<1>2. /\ \A i \in 1 .. Len(q) : q[i] \in Nat /\ q[i] < e
      /\ \A i, j \in 1 .. Len(q) : i < j => q[i] < q[j]
      /\ e \in Nat
  BY DEF UpTo
<1>. HIDE DEF a, e
<1>3. \A i \in 1 .. Len(a) : a[i] <= e
  BY <1>1, <1>2
<1>4. ASSUME NEW i \in 1 .. Len(a), NEW j \in 1 .. Len(a), i < j PROVE a[i] < a[j]
  <2>1. i \in 1 .. Len(q) /\ (j \in 1 .. Len(q) \/ j = Len(q) + 1)
    <3>1. i \in 1 .. Len(q) + 1 /\ j \in 1 .. Len(q) + 1 /\ Len(q) \in Nat /\ i < j
      BY <1>1, <1>4
    <3>. QED BY <3>1
  <2>. QED BY <1>1, <1>2, <1>4, <2>1
<1>5. UpTo(a, e)
  BY <1>3, <1>4 DEF UpTo
<1>. QED BY <1>5 DEF a, e

LEMMA RisingTail ==
  ASSUME NEW M \in Nat, NEW q \in Seq(1 .. M), q # <<>>, NEW c \in Nat, UpTo(q, c)
  PROVE  /\ Tail(q) \in Seq(1 .. M) /\ Len(Tail(q)) = Len(q) - 1
         /\ Head(q) \in 1 .. M /\ Head(q) <= c
         /\ UpTo(Tail(q), c)
         /\ \A i \in 1 .. Len(Tail(q)) : i + 1 \in 1 .. Len(q) /\ Tail(q)[i] = q[i + 1]
         /\ \A i \in 1 .. Len(Tail(q)) : Tail(q)[i] > Head(q)
<1>1. /\ Tail(q) \in Seq(1 .. M) /\ Len(Tail(q)) = Len(q) - 1 /\ Head(q) \in 1 .. M
      /\ \A i \in 1 .. Len(Tail(q)) : Tail(q)[i] = q[i + 1]
  BY HeadTailProperties
<1>2. Len(q) \in Nat \ {0} /\ Head(q) = q[1] /\ 1 \in 1 .. Len(q)
  OBVIOUS
<1>3. \A i \in 1 .. Len(Tail(q)) : i \in Nat /\ i > 0 /\ i + 1 \in 1 .. Len(q) /\ Tail(q)[i] = q[i + 1]
  BY <1>1, <1>2
<1>4. \A i \in 1 .. Len(Tail(q)) : Tail(q)[i] > Head(q)
  <2>. SUFFICES ASSUME NEW i \in 1 .. Len(Tail(q)) PROVE Tail(q)[i] > Head(q)
    OBVIOUS
  <2>1. i + 1 \in 1 .. Len(q) /\ 1 < i + 1 /\ Tail(q)[i] = q[i + 1]
    BY <1>3
  <2>2. q[1] < q[i + 1]
    BY <1>2, <2>1 DEF UpTo
  <2>3. q[1] \in Nat /\ q[i + 1] \in Nat
    BY <1>2, <2>1
  <2>. QED BY <1>2, <2>1, <2>2, <2>3
<1>5. Head(q) <= c
  BY <1>2 DEF UpTo
<1>6. UpTo(Tail(q), c)
  <2>1. \A i \in 1 .. Len(Tail(q)) : Tail(q)[i] <= c
    BY <1>3 DEF UpTo
  <2>2. ASSUME NEW i \in 1 .. Len(Tail(q)), NEW j \in 1 .. Len(Tail(q)), i < j
        PROVE  Tail(q)[i] < Tail(q)[j]
    <3>1. i + 1 < j + 1 /\ i + 1 \in 1 .. Len(q) /\ j + 1 \in 1 .. Len(q)
      BY <1>3, <2>2
    <3>2. q[i + 1] < q[j + 1]
      BY <3>1 DEF UpTo
    <3>. QED BY <1>3, <3>2
  <2>. QED BY <2>1, <2>2 DEF UpTo
<1>. QED BY <1>1, <1>3, <1>4, <1>5, <1>6
-----------------------------------------------------------------------------
USE LimitsAssumption

QueueTyping ==
  /\ queue \in [Object -> Seq(1 .. MaxNumber)]
  /\ \A o \in Object : Len(queue[o]) <= MaxEvents
  /\ count \in [Object -> 0 .. MaxNumber]
  /\ last \in [Process -> 0 .. MaxNumber]

\* A queue holds rising numbers up to its count.
Rising(o) == UpTo(queue[o], count[o])

\* What a process has got is older than all there is in its queue.
Behind(p) ==
  /\ object[p] = NoObject => last[p] = 0
  /\ object[p] # NoObject =>
       /\ last[p] <= count[object[p]]
       /\ \A i \in 1 .. Len(queue[object[p]]) : queue[object[p]][i] > last[p]

BusInv ==
  /\ ObjectInv
  /\ QueueTyping
  /\ \A o \in Object : Rising(o)
  /\ \A p \in Process : Behind(p)

LEMMA BusInitInv == Init => BusInv
  BY ObjectInitInv
     DEF Init, ObjectInit, BusInv, QueueTyping, Rising, UpTo, Behind

LEMMA SendStep ==
  ASSUME BusInv, NEW p \in Process, SendMessage(p)
  PROVE  BusInv'
<1>. DEFINE o == object[p]
            q == queue[o]
            e == count[o] + 1
<1>1. ObjectInv' /\ object' = object
  BY DEF BusInv, SendMessage, objectVars, ObjectInv, ObjectTypeOK, Places, Names, OwnerHoldsName,
         NamesAccountedFor, Owners
<1>2. object \in [Process -> Object \cup {NoObject}] /\ o \in Object
  BY DEF BusInv, SendMessage, HasQueue, ObjectInv, ObjectTypeOK
<1>3. /\ queue' = [queue EXCEPT ![o] = Append(q, e)] /\ count' = [count EXCEPT ![o] = e]
      /\ last' = last /\ Len(q) < MaxEvents /\ count[o] < MaxNumber
  BY DEF SendMessage
<1>4. q \in Seq(1 .. MaxNumber) /\ count[o] \in Nat /\ e \in 1 .. MaxNumber /\ UpTo(q, count[o])
  BY <1>2, <1>3 DEF BusInv, QueueTyping, Rising
<1>5. /\ Append(q, e) \in Seq(1 .. MaxNumber) /\ Len(Append(q, e)) = Len(q) + 1
      /\ \A i \in 1 .. Len(q) : Append(q, e)[i] = q[i]
      /\ Append(q, e)[Len(q) + 1] = e
      /\ Len(q) \in Nat
  BY <1>4, AppendProperties
<1>6. UpTo(Append(q, e), e)
  BY <1>4, RisingAppend
<1>7. /\ queue'[o] = Append(q, e) /\ count'[o] = e
      /\ \A x \in Object : x # o => queue'[x] = queue[x] /\ count'[x] = count[x]
  BY <1>2, <1>3 DEF BusInv, QueueTyping
<1>8. QueueTyping'
  <2>1. queue' \in [Object -> Seq(1 .. MaxNumber)] /\ count' \in [Object -> 0 .. MaxNumber]
    BY <1>2, <1>3, <1>4, <1>5 DEF BusInv, QueueTyping
  <2>2. \A x \in Object : Len(queue'[x]) <= MaxEvents
    BY <1>3, <1>5, <1>7 DEF BusInv, QueueTyping
  <2>. QED BY <1>3, <2>1, <2>2 DEF BusInv, QueueTyping
<1>9. ASSUME NEW x \in Object PROVE Rising(x)'
  BY <1>6, <1>7 DEF BusInv, Rising
<1>10. ASSUME NEW r \in Process PROVE Behind(r)'
  <2>1. CASE object[r] = o
    <3>1. /\ last'[r] = last[r] /\ last[r] \in Nat /\ last[r] <= count[o]
          /\ \A i \in 1 .. Len(q) : q[i] > last[r]
      BY <1>2, <1>3, <2>1 DEF BusInv, QueueTyping, Behind
    <3>2. \A i \in 1 .. Len(Append(q, e)) : Append(q, e)[i] > last[r]
      <4>. SUFFICES ASSUME NEW i \in 1 .. Len(Append(q, e)) PROVE Append(q, e)[i] > last[r]
        OBVIOUS
      <4>1. i \in 1 .. Len(q) \/ i = Len(q) + 1
        BY <1>5
      <4>. QED BY <1>4, <1>5, <3>1, <4>1
    <3>3. last'[r] <= e
      BY <1>4, <3>1
    <3>4. object'[r] = o /\ o # NoObject
      BY <1>1, <1>2, <2>1
    <3>. HIDE DEF o, q, e
    <3>. QED BY <1>7, <3>1, <3>2, <3>3, <3>4 DEF Behind
  <2>2. CASE object[r] # o
    BY <1>1, <1>2, <1>3, <1>7, <2>2 DEF BusInv, Behind
  <2>. QED BY <2>1, <2>2
<1>. QED BY <1>1, <1>8, <1>9, <1>10 DEF BusInv

LEMMA ReceiveStep ==
  ASSUME BusInv, NEW p \in Process, ReceiveMessage(p)
  PROVE  BusInv'
<1>. DEFINE o == object[p]
            q == queue[o]
<1>1. ObjectInv' /\ object' = object
  BY DEF BusInv, ReceiveMessage, objectVars, ObjectInv, ObjectTypeOK, Places, Names, OwnerHoldsName,
         NamesAccountedFor, Owners
<1>2. object \in [Process -> Object \cup {NoObject}] /\ o \in Object
  BY DEF BusInv, ReceiveMessage, HasQueue, ObjectInv, ObjectTypeOK
<1>3. /\ queue' = [queue EXCEPT ![o] = Tail(q)] /\ last' = [last EXCEPT ![p] = Head(q)]
      /\ count' = count /\ q # <<>>
  BY DEF ReceiveMessage
<1>4. q \in Seq(1 .. MaxNumber) /\ count[o] \in Nat /\ UpTo(q, count[o]) /\ Len(q) <= MaxEvents
  BY <1>2 DEF BusInv, QueueTyping, Rising
<1>5. /\ Tail(q) \in Seq(1 .. MaxNumber) /\ Len(Tail(q)) = Len(q) - 1
      /\ Head(q) \in 1 .. MaxNumber /\ Head(q) <= count[o]
      /\ UpTo(Tail(q), count[o])
      /\ \A i \in 1 .. Len(Tail(q)) : i + 1 \in 1 .. Len(q) /\ Tail(q)[i] = q[i + 1]
      /\ \A i \in 1 .. Len(Tail(q)) : Tail(q)[i] > Head(q)
  <2>. HIDE DEF q
  <2>. QED BY <1>3, <1>4, RisingTail
<1>6. queue'[o] = Tail(q) /\ \A x \in Object : x # o => queue'[x] = queue[x]
  BY <1>2, <1>3 DEF BusInv, QueueTyping
<1>7. QueueTyping'
  <2>1. queue' \in [Object -> Seq(1 .. MaxNumber)] /\ last' \in [Process -> 0 .. MaxNumber]
    BY <1>2, <1>3, <1>5 DEF BusInv, QueueTyping
  <2>2. \A x \in Object : Len(queue'[x]) <= MaxEvents
    <3>1. Len(q) \in Nat /\ Len(Tail(q)) <= MaxEvents
      BY <1>4, <1>5
    <3>. QED BY <1>6, <3>1 DEF BusInv, QueueTyping
  <2>. QED BY <1>3, <2>1, <2>2 DEF BusInv, QueueTyping
<1>8. ASSUME NEW x \in Object PROVE Rising(x)'
  BY <1>3, <1>5, <1>6 DEF BusInv, Rising
<1>9. ASSUME NEW r \in Process PROVE Behind(r)'
  <2>1. CASE r = p
    <3>1. last'[r] = Head(q) /\ object'[r] = o /\ o # NoObject
      BY <1>1, <1>2, <1>3, <2>1 DEF BusInv, QueueTyping
    <3>2. queue'[o] = Tail(q) /\ UpTo(Tail(q), count[o]) /\ count' = count
      BY <1>3, <1>5, <1>6
    <3>3. \A i \in 1 .. Len(Tail(q)) : Tail(q)[i] > Head(q)
      BY <1>5
    <3>4. Head(q) <= count[o]
      BY <1>5
    <3>. HIDE DEF o, q
    <3>. QED BY <3>1, <3>2, <3>3, <3>4 DEF Behind
  <2>2. CASE r # p /\ object[r] = o
    <3>1. last'[r] = last[r] /\ object'[r] = o /\ o # NoObject
      BY <1>1, <1>2, <1>3, <2>2 DEF BusInv, QueueTyping
    <3>2. last[r] <= count[o] /\ \A i \in 1 .. Len(q) : q[i] > last[r]
      BY <1>2, <2>2 DEF BusInv, Behind
    <3>. QED BY <1>3, <1>5, <1>6, <3>1, <3>2 DEF Behind
  <2>3. CASE object[r] # o
    <3>1. last'[r] = last[r] /\ object'[r] = object[r] /\ r # p
      BY <1>1, <1>3, <2>3 DEF BusInv, QueueTyping
    <3>. QED BY <1>2, <1>3, <1>6, <2>3, <3>1 DEF BusInv, Behind
  <2>. QED BY <2>1, <2>2, <2>3
<1>. QED BY <1>1, <1>7, <1>8, <1>9 DEF BusInv

\* A handle that stays keeps its queue reachable; a new one has got nothing.
LEMMA BusObjectStep ==
  ASSUME BusInv, ObjectStep
  PROVE  BusInv'
<1>. USE DEF BusInv, QueueTyping
<1>1. ObjectInv'
  BY ObjectStepInv DEF ObjectStep
<1>2. QueueTyping'
  <2>1. /\ <<>> \in Seq(1 .. MaxNumber) /\ Len(<<>>) = 0 /\ 0 \in 0 .. MaxNumber
    OBVIOUS
  <2>2. /\ queue' \in [Object -> Seq(1 .. MaxNumber)]
        /\ count' \in [Object -> 0 .. MaxNumber]
        /\ last' \in [Process -> 0 .. MaxNumber]
    BY <2>1 DEF ObjectStep
  <2>3. ASSUME NEW x \in Object PROVE Len(queue'[x]) <= MaxEvents
    <3>1. queue'[x] = queue[x] \/ queue'[x] = <<>>
      BY DEF ObjectStep
    <3>. QED BY <2>1, <3>1
  <2>. QED BY <2>2, <2>3
<1>3. ASSUME NEW x \in Object PROVE Rising(x)'
  <2>1. \/ queue'[x] = queue[x] /\ count'[x] = count[x]
        \/ queue'[x] = <<>> /\ count'[x] = 0
    BY DEF ObjectStep
  <2>2. UpTo(<<>>, 0)
    BY DEF UpTo
  <2>. QED BY <2>1, <2>2 DEF Rising
<1>4. ASSUME NEW r \in Process PROVE Behind(r)'
  <2>1. CASE object'[r] = object[r] /\ object[r] # NoObject
    <3>1. object[r] \in Object /\ Reachable(object[r])'
      BY <2>1 DEF ObjectInv, ObjectTypeOK, Reachable
    <3>2. /\ queue'[object[r]] = queue[object[r]] /\ count'[object[r]] = count[object[r]]
          /\ last'[r] = last[r]
      BY <2>1, <3>1 DEF ObjectStep
    <3>. QED BY <2>1, <3>2 DEF Behind
  <2>2. CASE object'[r] # object[r] \/ object[r] = NoObject
    <3>1. last'[r] = 0
      BY <2>2 DEF ObjectStep, Behind
    <3>2. object'[r] \in Object \cup {NoObject}
      BY <1>1 DEF ObjectInv, ObjectTypeOK
    <3>. QED BY <1>2, <3>1, <3>2 DEF Behind
  <2>. QED BY <2>1, <2>2
<1>. QED BY <1>1, <1>2, <1>3, <1>4

LEMMA BusInvHolds == Spec => []BusInv
<1>1. BusInv /\ [Next]_vars => BusInv'
  <2>. SUFFICES ASSUME BusInv, [Next]_vars PROVE BusInv'
    OBVIOUS
  <2>1. CASE UNCHANGED vars
    BY <2>1 DEF vars, objectVars, BusInv, QueueTyping, Rising, UpTo, Behind, ObjectInv,
       ObjectTypeOK, Places, Names, OwnerHoldsName, NamesAccountedFor, Owners
  <2>. QED BY <2>1, BusObjectStep, SendStep, ReceiveStep DEF Next, Publish, Receive
<1>. QED BY <1>1, BusInitInv, PTL DEF Spec

\* The types of all variables, with a handle that can be used on an object of its
\* size; the owner of a queue or region holds its name to the end, and a name that
\* is bound has its owner, whichever calls fail and whoever is killed.
THEOREM NamesSafe == Spec => []NamesKept
<1>1. BusInv => TypeOK
  <2>. SUFFICES ASSUME BusInv PROVE TypeOK
    OBVIOUS
  <2>1. ASSUME NEW o \in Object
        PROVE  queue[o] \in UNION {[1 .. n -> 1 .. MaxNumber] : n \in 0 .. MaxEvents}
    <3>1. queue[o] \in [1 .. Len(queue[o]) -> 1 .. MaxNumber] /\ Len(queue[o]) \in 0 .. MaxEvents
      BY DEF BusInv, QueueTyping
    <3>. QED BY <3>1
  <2>. QED BY <2>1 DEF TypeOK, BusInv, ObjectInv, QueueTyping
<1>2. BusInv => OwnerHoldsName /\ NamesAccountedFor
  BY DEF BusInv, ObjectInv
<1>3. BusInv => NamesKept
  BY <1>1, <1>2 DEF NamesKept
<1>. QED BY <1>3, BusInvHolds, PTL

\* Every process gets the events of a handle in the order the queue took them,
\* each at most once, with any number of publishers and competing receivers.
THEOREM EventsKeepOrder == Spec => []EventsInOrder
<1>1. BusInv => EventsInOrder
  <2>. SUFFICES ASSUME BusInv, NEW p \in Process, HasQueue(p)
                PROVE  LET q == queue[object[p]] IN
                       /\ \A i \in DOMAIN q : q[i] > last[p]
                       /\ \A i, j \in DOMAIN q : i < j => q[i] < q[j]
    BY DEF EventsInOrder
  <2>1. object[p] \in Object
    BY DEF BusInv, HasQueue, ObjectInv, ObjectTypeOK
  <2>2. DOMAIN queue[object[p]] = 1 .. Len(queue[object[p]])
    BY <2>1 DEF BusInv, QueueTyping
  <2>. QED BY <2>1, <2>2 DEF BusInv, Rising, UpTo, Behind, HasQueue
<1>. QED BY <1>1, BusInvHolds, PTL
-----------------------------------------------------------------------------
(* The deadlines of timed sends and receives: loadDeadline().              *)

\* Division with remainder, by a positive number.
LEMMA Division ==
  ASSUME NEW n \in Nat, NEW d \in Nat \ {0}
  PROVE  /\ n \div d \in Nat
         /\ n % d \in 0 .. d - 1
         /\ n = d * (n \div d) + (n % d)
<1>1. n = d * (n \div d) + (n % d)  BY SMT
<1>2. n % d \in 0 .. d - 1  BY SMT
<1>3. n \div d \in Nat  BY SMT
<1> QED BY <1>1, <1>2, <1>3

\* The laws of products the sums of a deadline need.
LEMMA Products ==
  ASSUME NEW a \in Nat, NEW b \in Nat, NEW c \in Nat
  PROVE  /\ a * b \in Nat
         /\ a * b = b * a
         /\ (a + b) * c = a * c + b * c
         /\ a * (b * c) = (b * a) * c
         /\ a <= b => a * c <= b * c
<1>1. a * b \in Nat /\ a * b = b * a  BY SMT
<1>2. (a + b) * c = a * c + b * c  BY SMT
<1>3. a * (b * c) = (b * a) * c  BY SMT
<1>4. a <= b => a * c <= b * c  BY SMT
<1> QED BY <1>1, <1>2, <1>3, <1>4

\* A second is a positive number of nanoseconds.
LEMMA SecondPositive == NsPerSecond \in Nat \ {0}
  BY UnitsAssumption, SMT DEF NsPerSecond

\* A number of nanoseconds split into a time is that number.
LEMMA TimeOfExact ==
  ASSUME NEW ns \in Nat
  PROVE  TimeOf(ns) \in Time /\ Ns(TimeOf(ns)) = ns
<1> DEFINE S == NsPerSecond
<1>1. S \in Nat \ {0}  BY SecondPositive
<1> HIDE DEF S
<1>2. /\ ns \div S \in Nat /\ ns % S \in 0 .. S - 1 /\ ns = S * (ns \div S) + (ns % S)
  BY <1>1, Division
<1>3. (ns \div S) * S = S * (ns \div S)  BY <1>1, <1>2, Products
<1>4. TimeOf(ns) = [sec |-> ns \div S, nsec |-> ns % S]  BY DEF TimeOf, S
<1>5. Ns(TimeOf(ns)) = (ns \div S) * S + (ns % S)  BY <1>4 DEF Ns, S
<1>6. TimeOf(ns) \in [sec : Nat, nsec : 0 .. S - 1]  BY <1>2, <1>4
<1> QED BY <1>2, <1>3, <1>5, <1>6 DEF Time, S

\* The nanoseconds of a time.
LEMMA NsNat ==
  ASSUME NEW time \in Time PROVE Ns(time) \in Nat
<1>1. time.sec \in Nat /\ time.nsec \in Nat  BY SecondPositive DEF Time
<1>2. time.sec * NsPerSecond \in Nat  BY <1>1, SecondPositive, Products
<1> QED BY <1>1, <1>2 DEF Ns

\* Before it is normalised, tv_nsec stays below two seconds.
LEMMA RawNsecBounded ==
  ASSUME NEW now \in Time, NEW timeout \in Nat
  PROVE  /\ RawNsec(now, timeout) \in Nat
         /\ RawNsec(now, timeout) <= LongMax
<1> DEFINE r == timeout % MsPerSecond
           P == NsPerMs
           K == MsPerSecond
<1>1. K \in Nat /\ P \in Nat /\ r \in 0 .. K - 1  BY UnitsAssumption, Division
<1>2. now.nsec \in 0 .. K * P - 1  BY DEF Time, NsPerSecond
<1>3. r * P \in Nat /\ r * P <= K * P
  <2>1. r \in Nat /\ r <= K  BY <1>1
  <2> HIDE DEF r
  <2> QED BY <1>1, <2>1, Products
<1>4. K * P \in Nat /\ 2 * K * P = K * P + K * P
  <2> HIDE DEF K, P
  <2>1. K * P \in Nat  BY <1>1, Products
  <2>2. (K + K) * P = K * P + K * P  BY <1>1, Products
  <2> QED BY <1>1, <2>1, <2>2
<1>5. LongMax \in Nat /\ 2 * K * P <= LongMax  BY LongAssumption
<1>6. RawNsec(now, timeout) = now.nsec + r * P  BY DEF RawNsec, Milliseconds
<1> HIDE DEF r, K, P
<1> QED BY <1>2, <1>3, <1>4, <1>5, <1>6

\* The deadline is a time the kernel accepts, and lies the timeout after now.
THEOREM DeadlineExact ==
  ASSUME NEW now \in Time, NEW timeout \in Nat
  PROVE  /\ Deadline(now, timeout) \in Time
         /\ Ns(Deadline(now, timeout)) = Ns(now) + timeout * NsPerMs
<1> DEFINE K == MsPerSecond
           P == NsPerMs
           S == NsPerSecond
           q == timeout \div K
           r == timeout % K
           raw == RawNsec(now, timeout)
           sec == now.sec + q
           D == Deadline(now, timeout)
<1>1. K \in Nat \ {0} /\ P \in Nat /\ S \in Nat \ {0} /\ S = K * P
  BY UnitsAssumption, SecondPositive DEF NsPerSecond
<1>2. q \in Nat /\ r \in 0 .. K - 1 /\ timeout = K * q + r
  BY <1>1, Division
<1>3. now.sec \in Nat /\ now.nsec \in 0 .. S - 1  BY DEF Time
<1>4. raw \in Nat /\ raw = now.nsec + r * P
  BY RawNsecBounded DEF RawNsec, Milliseconds
<1>5. D = IF raw >= S THEN [sec |-> sec + raw \div S, nsec |-> raw % S]
                      ELSE [sec |-> sec, nsec |-> raw]
  BY DEF Deadline
<1>6. Ns(now) = now.sec * S + now.nsec  BY DEF Ns
<1>7. \A time : Ns(time) = time.sec * S + time.nsec  BY DEF Ns
<1>8. Time = [sec : Nat, nsec : 0 .. S - 1]  BY DEF Time
<1> HIDE DEF K, P, S, q, r, raw, D
<1>9. sec \in Nat  BY <1>2, <1>3
<1>10. sec * S + raw = Ns(now) + timeout * P
  <2>1. sec * S = now.sec * S + q * S  BY <1>1, <1>2, <1>3, Products
  <2>2. q * S = (K * q) * P  BY <1>1, <1>2, Products
  <2>3. K * q \in Nat  BY <1>1, <1>2, Products
  <2>4. r \in Nat  BY <1>1, <1>2
  <2>5. timeout * P = (K * q) * P + r * P  BY <1>1, <1>2, <2>3, <2>4, Products
  <2>6. now.sec * S \in Nat /\ (K * q) * P \in Nat /\ r * P \in Nat
    BY <1>1, <1>3, <2>3, <2>4, Products
  <2> QED BY <1>3, <1>4, <1>6, <2>1, <2>2, <2>5, <2>6
<1>11. CASE raw >= S
  <2>1. raw \div S \in Nat /\ raw % S \in 0 .. S - 1 /\ raw = S * (raw \div S) + (raw % S)
    BY <1>1, <1>4, Division
  <2>2. D = [sec |-> sec + raw \div S, nsec |-> raw % S]  BY <1>5, <1>11
  <2>3. D \in Time  BY <1>8, <1>9, <2>1, <2>2
  <2>4. Ns(D) = (sec + raw \div S) * S + (raw % S)  BY <1>7, <2>2
  <2>5. (sec + raw \div S) * S = sec * S + (raw \div S) * S
    BY <1>1, <1>9, <2>1, Products
  <2>6. (raw \div S) * S = S * (raw \div S)  BY <1>1, <2>1, Products
  <2>7. sec * S \in Nat /\ S * (raw \div S) \in Nat  BY <1>1, <1>9, <2>1, Products
  <2>8. Ns(D) = sec * S + raw
    <3> HIDE DEF sec
    <3> QED BY <1>4, <2>1, <2>4, <2>5, <2>6, <2>7
  <2> QED BY <1>10, <2>3, <2>8 DEF D, P
<1>12. CASE ~(raw >= S)
  <2>1. D = [sec |-> sec, nsec |-> raw]  BY <1>5, <1>12
  <2>2. raw \in 0 .. S - 1  BY <1>1, <1>4, <1>12
  <2>3. D \in Time  BY <1>8, <1>9, <2>1, <2>2
  <2>4. Ns(D) = sec * S + raw  BY <1>7, <2>1
  <2> QED BY <1>10, <2>3, <2>4 DEF D, P
<1> QED BY <1>11, <1>12

\* The clock shows a time whenever it ticks or is set.
LEMMA ClocksAreTimes == Clocks \subseteq Time
<1> DEFINE n == (MaxSecond + 1) * NsPerSecond
<1>1. n \in Nat
  <2>1. MaxSecond + 1 \in Nat  BY BoundsAssumption
  <2> QED BY <2>1, SecondPositive, Products
<1> SUFFICES ASSUME NEW ns \in 0 .. n - 1 PROVE TimeOf(ns) \in Time  BY DEF Clocks
<1> HIDE DEF n
<1>2. ns \in Nat  BY <1>1
<1> QED BY <1>2, TimeOfExact

\* A timeout is a whole number of nanoseconds.
LEMMA TimeoutNat == ASSUME NEW timeout \in Nat PROVE timeout * NsPerMs \in Nat
  BY UnitsAssumption, Products

\* The state is what it should be, and a waiting call keeps its timeout.
Waits == DeadlineTypeOK /\ WaitsItsTimeout

LEMMA InitWaits == DeadlineInit => Waits
<1> SUFFICES ASSUME DeadlineInit PROVE Waits  OBVIOUS
<1>1. clock \in Time  BY ClocksAreTimes DEF DeadlineInit
<1>2. -1 \in -1 .. MaxTimeout /\ 0 \in Nat  BY BoundsAssumption
<1>3. DeadlineTypeOK  BY <1>1, <1>2 DEF DeadlineInit, DeadlineTypeOK
<1>4. WaitsItsTimeout  BY DEF DeadlineInit, WaitsItsTimeout
<1> QED BY <1>3, <1>4 DEF Waits

\* Each step keeps it; ticks count what is left of the timeout down.
LEMMA StepWaits == Waits /\ [DeadlineNext]_deadlineVars => Waits'
<1> SUFFICES ASSUME Waits, [DeadlineNext]_deadlineVars PROVE Waits'  OBVIOUS
<1> USE DEF Waits
<1>0. /\ Ns(clock) \in Nat /\ Ns(deadline) \in Nat
      /\ waiting # -1 => waiting \in Nat /\ waiting * NsPerMs \in Nat
  BY NsNat, TimeoutNat, BoundsAssumption DEF DeadlineTypeOK
<1>1. ASSUME NEW timeout \in -1 .. MaxTimeout, Wait(timeout) PROVE Waits'
  <2>1. timeout \in Nat  BY <1>1, BoundsAssumption DEF Wait
  <2>2. deadline' \in Time /\ Ns(deadline') = Ns(clock) + timeout * NsPerMs
    BY <1>1, <2>1, DeadlineExact DEF Wait, DeadlineTypeOK
  <2>3. timeout * NsPerMs \in Nat  BY <2>1, TimeoutNat
  <2>4. DeadlineTypeOK'  BY <1>1, <2>1, <2>2, BoundsAssumption DEF DeadlineTypeOK, Wait
  <2>5. Ns(clock') = Ns(clock)  BY <1>1 DEF Wait
  <2>6. waiting' = timeout /\ waited' = 0  BY <1>1 DEF Wait
  <2>7. Ns(deadline') - Ns(clock') = waiting' * NsPerMs - waited'
    BY <1>0, <2>2, <2>3, <2>5, <2>6
  <2> QED BY <2>3, <2>4, <2>6, <2>7 DEF WaitsItsTimeout, Ns
<1>2. CASE Tick
  <2>1. Ns(clock) + 1 \in Nat  BY <1>0
  <2>2. clock' \in Time /\ Ns(clock') = Ns(clock) + 1
    BY <1>2, <2>1, TimeOfExact DEF Tick
  <2>3. waited' \in Nat  BY <1>2 DEF Tick, DeadlineTypeOK
  <2>4. DeadlineTypeOK'  BY <1>2, <2>2, <2>3 DEF DeadlineTypeOK, Tick
  <2>5. ASSUME waiting # -1, ~stepped
        PROVE  /\ Ns(deadline) - Ns(clock') = waiting * NsPerMs - waited'
               /\ waited' <= waiting * NsPerMs
    <3>1. waited' = waited + 1 /\ ~(Ns(clock) >= Ns(deadline))
      BY <1>2, <2>5 DEF Tick, Passed
    <3>2. Ns(deadline) - Ns(clock) = waiting * NsPerMs - waited
      BY <2>5 DEF WaitsItsTimeout
    <3> QED BY <1>0, <2>2, <2>5, <3>1, <3>2 DEF DeadlineTypeOK
  <2>6. waiting' = waiting /\ stepped' = stepped /\ deadline' = deadline
    BY <1>2 DEF Tick
  <2> QED BY <2>4, <2>5, <2>6 DEF WaitsItsTimeout, Ns
<1>3. CASE TimesOut
  BY <1>3, BoundsAssumption DEF TimesOut, DeadlineTypeOK, WaitsItsTimeout
<1>4. CASE SetClock
  <2>1. clock' \in Time  BY <1>4, ClocksAreTimes DEF SetClock
  <2> QED BY <1>4, <2>1, BoundsAssumption DEF SetClock, DeadlineTypeOK, WaitsItsTimeout
<1>5. CASE UNCHANGED deadlineVars
  BY <1>5 DEF deadlineVars, DeadlineTypeOK, WaitsItsTimeout, Ns
<1> QED BY <1>1, <1>2, <1>3, <1>4, <1>5 DEF DeadlineNext

\* No clock and no timeout makes the sum of nanoseconds overflow a long.
LEMMA SumsFit == DeadlineTypeOK => NoOverflow
<1> SUFFICES ASSUME DeadlineTypeOK, NEW timeout \in 0 .. MaxTimeout
             PROVE  RawNsec(clock, timeout) <= LongMax
  BY DEF NoOverflow
<1>1. timeout \in Nat  BY BoundsAssumption
<1> QED BY <1>1, RawNsecBounded DEF DeadlineTypeOK

\* A call with a timeout waits that timeout, unless the clock is set; its deadline
\* is a time the kernel accepts, and the nanoseconds on the way to it fit a long.
THEOREM TimeoutsKept == DeadlineSpec => []WaitsExactly
<1>1. Waits => WaitsExactly  BY SumsFit DEF Waits, WaitsExactly
<1> QED BY <1>1, InitWaits, StepWaits, PTL DEF DeadlineSpec
-----------------------------------------------------------------------------
(* The bytes of a region that several processes copy in and out at once.   *)

\* A copy is the record of a call, and has done a part of it.
Copies ==
  /\ copy \in [Copier -> [op : {"none", "read", "write"}, offset : Bytes!SizeT,
                           count : Bytes!SizeT, data : 0 .. MaxWrites]]
  /\ copied \in [Copier -> Nat]
  /\ buffer \in [Copier -> Seq(0 .. MaxWrites)]
  /\ alone \in [Copier -> SUBSET Bytes!SizeT]

Writing(p, i) == copy[p].op = "write" /\ i \in Bytes!RangeOf(p)

\* The bytes of p's copy that are done.
Done(p) == {i \in Bytes!RangeOf(p) : i < copy[p].offset + copied[p]}

\* A byte that has a last write is as that write left it, and nobody writes it.
KnownHolds ==
  \A i \in Bytes!Byte : known[i] # Bytes!Unknown =>
    /\ memory[i] = known[i]
    /\ \A p \in Copier : ~Writing(p, i)

\* What a write has for itself no other one touches: what it has done stays.
AloneHolds ==
  \A p \in Copier : copy[p].op = "write" => \A i \in alone[p] :
    /\ \A q \in Copier \ {p} : ~Writing(q, i)
    /\ i \in Done(p) => memory[i] = copy[p].data

\* What a read has for itself has its last write, and has been read from it.
ReadHolds ==
  \A p \in Copier : copy[p].op = "read" => \A i \in alone[p] :
    /\ known[i] # Bytes!Unknown
    /\ i \in Done(p) => buffer[p][i - copy[p].offset + 1] = known[i]

CopyInv ==
  /\ Bytes!TypeOK /\ Bytes!CopiesStayInside /\ Copies
  /\ KnownHolds /\ AloneHolds /\ ReadHolds

CopyTypes == Bytes!TypeOK /\ Bytes!CopiesStayInside /\ Copies

Sizes == WordSize \in Nat /\ Backing \in Nat /\ Backing < WordSize /\ MaxWrites \in Nat

\* Every copy is of bytes that the region has.
LEMMA CopyOfBytes ==
  ASSUME Sizes, CopyTypes, NEW p \in Copier, Bytes!Busy(p)
  PROVE  /\ copy[p].offset \in Nat /\ copy[p].count \in Nat /\ copied[p] \in Nat
         /\ \A i \in Bytes!RangeOf(p) : i \in Bytes!Byte
         /\ ~Bytes!Copied(p) =>
              /\ copy[p].offset + copied[p] \in Bytes!Byte
              /\ copy[p].offset + copied[p] < copy[p].offset + copy[p].count
<1>1. /\ copy[p].offset \in Nat /\ copy[p].count \in Nat /\ copied[p] \in 0 .. copy[p].count
      /\ mapped[p] \in 0 .. Backing
  BY DEF Sizes, CopyTypes, Copies, Bytes!TypeOK, Bytes!SizeT
<1>2. copy[p].offset + copy[p].count <= mapped[p]
  BY DEF CopyTypes, Bytes!CopiesStayInside
<1>3. \A i \in Bytes!RangeOf(p) : i \in Bytes!Byte
  BY <1>1, <1>2 DEF Bytes!RangeOf, Bytes!Range, Bytes!Byte, Bytes!SizeT, Sizes
<1>. QED BY <1>1, <1>2, <1>3 DEF Bytes!Byte, Bytes!Copied, Sizes

LEMMA InitCopy == Sizes /\ Bytes!Init => CopyInv
<1>. SUFFICES ASSUME Sizes, Bytes!Init PROVE CopyInv
  OBVIOUS
<1>. USE DEF Sizes, Bytes!Init, Bytes!Idle
<1>1. Bytes!TypeOK
  BY DEF Bytes!TypeOK, Bytes!SizeT, Bytes!Unknown
<1>2. Bytes!CopiesStayInside
  BY DEF Bytes!CopiesStayInside, Bytes!Busy
<1>3. Copies
  BY DEF Copies, Bytes!SizeT
<1>4. KnownHolds /\ AloneHolds /\ ReadHolds
  BY DEF KnownHolds, AloneHolds, ReadHolds, Writing, Bytes!Byte
<1>. QED BY <1>1, <1>2, <1>3, <1>4 DEF CopyInv

\* create(), open() and close() do not touch the bytes.
LEMMA MapCopy ==
  ASSUME Sizes, CopyInv, NEW p \in Copier, ~Bytes!Busy(p),
         NEW size \in 0 .. Backing, mapped' = [mapped EXCEPT ![p] = size],
         UNCHANGED <<memory, copy, copied, buffer, writes, known, alone>>
  PROVE  CopyInv'
<1>1. Bytes!TypeOK'
  BY DEF CopyInv, Bytes!TypeOK, Bytes!RangeOf
<1>2. Bytes!CopiesStayInside'
  BY DEF CopyInv, Bytes!TypeOK, Bytes!CopiesStayInside, Bytes!Busy
<1>3. Copies' /\ KnownHolds' /\ AloneHolds' /\ ReadHolds'
  BY DEF CopyInv, Copies, KnownHolds, AloneHolds, ReadHolds, Writing, Done, Bytes!RangeOf
<1>. QED BY <1>1, <1>2, <1>3 DEF CopyInv

\* What a call that begins looks like.
LEMMA BeginTypes ==
  ASSUME Sizes, CopyTypes, NEW p \in Copier, NEW op \in {"read", "write"},
         NEW offset \in Bytes!SizeT, NEW size \in Bytes!SizeT, NEW data \in 0 .. MaxWrites,
         Bytes!Begin(p, op, offset, size, data),
         alone' \in [Copier -> SUBSET Bytes!SizeT],
         \A q \in Copier : alone'[q] \subseteq IF q = p THEN Bytes!Range(offset, size)
                                                        ELSE alone[q],
         writes' \in 0 .. MaxWrites, known' \in [Bytes!Byte -> 0 .. Bytes!Unknown]
  PROVE  /\ CopyTypes' /\ ~Bytes!Busy(p)
         /\ copy'[p].op = op /\ copy'[p].offset = offset /\ copied'[p] = 0
         /\ Bytes!RangeOf(p)' = Bytes!Range(offset, size)
         /\ \A q \in Copier \ {p} : /\ copy'[q] = copy[q] /\ copied'[q] = copied[q]
                                    /\ buffer'[q] = buffer[q]
                                    /\ Bytes!RangeOf(q)' = Bytes!RangeOf(q)
<1>. USE DEF Sizes, CopyTypes, Bytes!Begin, Copies
<1>1. Copies'
  BY EmptySeq
<1>2. /\ copy'[p] = [op |-> op, offset |-> offset, count |-> size, data |-> data]
      /\ copied'[p] = 0 /\ buffer'[p] = <<>>
      /\ \A q \in Copier \ {p} : /\ copy'[q] = copy[q] /\ copied'[q] = copied[q]
                                 /\ buffer'[q] = buffer[q]
  OBVIOUS
<1>3. /\ Bytes!RangeOf(p)' = Bytes!Range(offset, size)
      /\ \A q \in Copier \ {p} : Bytes!RangeOf(q)' = Bytes!RangeOf(q)
  BY <1>2 DEF Bytes!RangeOf
<1>4. Bytes!CopiesStayInside'
  <2>1. /\ mapped' = mapped /\ mapped[p] \in Nat /\ offset \in Nat /\ size \in Nat
        /\ offset <= mapped[p] /\ size <= mapped[p] - offset
    BY DEF Bytes!TypeOK, Bytes!InRange, Bytes!SizeT
  <2>. QED BY <1>2, <2>1 DEF Bytes!CopiesStayInside, Bytes!Busy
<1>5. ASSUME NEW q \in Copier
      PROVE  /\ copy'[q] \in [op : {"none", "read", "write"}, offset : Bytes!SizeT,
                              count : Bytes!SizeT, data : 0 .. MaxWrites]
             /\ copied'[q] \in 0 .. copy'[q].count
             /\ buffer'[q] \in Seq(0 .. MaxWrites)
             /\ copy'[q].op = "read" => Len(buffer'[q]) = copied'[q]
             /\ alone'[q] \subseteq Bytes!RangeOf(q)'
  <2>1. CASE q = p
    BY <2>1, <1>2, <1>3, EmptySeq DEF Bytes!SizeT
  <2>2. CASE q # p
    BY <2>2, <1>2, <1>3 DEF Bytes!TypeOK
  <2>. QED BY <2>1, <2>2
<1>6. Bytes!TypeOK'
  BY <1>5 DEF Bytes!TypeOK
<1>. QED BY <1>1, <1>2, <1>3, <1>4, <1>6 DEF Bytes!Busy

\* A write() that begins leaves the bytes it shares with others to nobody.
LEMMA WriteCopy ==
  ASSUME Sizes, CopyInv, NEW p \in Copier,
         NEW offset \in Bytes!SizeT, NEW size \in Bytes!SizeT, Bytes!BeginWrite(p, offset, size)
  PROVE  CopyInv'
<1> DEFINE mine == Bytes!Range(offset, size)
<1>1. /\ Bytes!Begin(p, "write", offset, size, writes + 1)
      /\ writes' = writes + 1 /\ writes < MaxWrites /\ memory' = memory
      /\ known' = [i \in Bytes!Byte |-> IF i \in mine THEN Bytes!Unknown ELSE known[i]]
  BY DEF Bytes!BeginWrite, Bytes!Begin
<1>2. PICK others : /\ \A q \in Copier : \A i : Writing(q, i) => i \in others
                    /\ alone' = [q \in Copier |-> IF q = p THEN mine \ others ELSE alone[q] \ mine]
  BY DEF Bytes!BeginWrite, Writing
<1>3. writes + 1 \in 0 .. MaxWrites /\ known' \in [Bytes!Byte -> 0 .. Bytes!Unknown]
  BY <1>1 DEF CopyInv, Bytes!TypeOK, Sizes, Bytes!Unknown
<1>4. /\ mine \subseteq Bytes!SizeT
      /\ alone' \in [Copier -> SUBSET Bytes!SizeT]
      /\ \A q \in Copier : alone'[q] \subseteq IF q = p THEN mine ELSE alone[q]
  BY <1>2 DEF CopyInv, Copies, Bytes!Range
<1>5. /\ CopyTypes' /\ ~Bytes!Busy(p) /\ copied'[p] = 0
      /\ copy'[p].op = "write" /\ copy'[p].offset = offset /\ Bytes!RangeOf(p)' = mine
      /\ \A q \in Copier \ {p} : /\ copy'[q] = copy[q] /\ copied'[q] = copied[q]
                                 /\ buffer'[q] = buffer[q]
                                 /\ Bytes!RangeOf(q)' = Bytes!RangeOf(q)
  <2>1. CopyTypes /\ "write" \in {"read", "write"} /\ writes' \in 0 .. MaxWrites
    BY <1>1, <1>3 DEF CopyInv, CopyTypes
  <2>. QED BY <1>1, <1>3, <1>4, <2>1, BeginTypes
<1>. HIDE DEF mine
<1>6. /\ \A i : Writing(p, i)' <=> i \in mine
      /\ \A q \in Copier \ {p} : \A i : Writing(q, i)' <=> Writing(q, i)
      /\ \A q \in Copier \ {p} : Done(q)' = Done(q)
  BY <1>5 DEF Writing, Done
<1>7. /\ \A i \in mine : i \in Nat /\ i >= offset
      /\ \A i \in Done(p)' : i < offset
  BY <1>5 DEF mine, Bytes!Range, Bytes!SizeT, Done
<1>8. KnownHolds'
  BY <1>1, <1>6 DEF CopyInv, KnownHolds
<1>9. AloneHolds'
  <2>1. ASSUME NEW q \in Copier, (copy[q].op)' = "write", NEW i \in alone'[q]
        PROVE  /\ \A r \in Copier \ {q} : ~Writing(r, i)'
               /\ i \in Done(q)' => memory'[i] = (copy[q].data)'
    <3>1. CASE q = p
      <4>1. i \in mine /\ i \notin others
        BY <3>1, <2>1, <1>2
      <4>2. i \notin Done(p)'
        <5>1. offset \in Nat /\ i \in Nat /\ i >= offset
          BY <4>1, <1>7 DEF Bytes!SizeT
        <5>. QED BY <5>1, <1>7
      <4>. QED BY <4>1, <4>2, <3>1, <1>2, <1>6
    <3>2. CASE q # p
      BY <3>2, <2>1, <1>1, <1>2, <1>5, <1>6 DEF CopyInv, AloneHolds
    <3>. QED BY <3>1, <3>2
  <2>. QED BY <2>1 DEF AloneHolds
<1>10. ReadHolds'
  <2>1. ASSUME NEW q \in Copier, (copy[q].op)' = "read", NEW i \in alone'[q]
        PROVE  /\ known'[i] # Bytes!Unknown
               /\ i \in Done(q)' => buffer'[q][i - (copy[q].offset)' + 1] = known'[i]
    <3>1. q # p /\ copy'[q] = copy[q] /\ i \in alone[q] /\ i \notin mine
      BY <2>1, <1>2, <1>5
    <3>2. i \in Bytes!Byte
      BY <3>1, <2>1, CopyOfBytes DEF CopyInv, CopyTypes, Bytes!TypeOK, Bytes!Busy
    <3>. QED BY <3>1, <3>2, <2>1, <1>1, <1>5, <1>6 DEF CopyInv, ReadHolds
  <2>. QED BY <2>1 DEF ReadHolds
<1>. QED BY <1>5, <1>8, <1>9, <1>10 DEF CopyInv, CopyTypes

\* A read() that begins has the bytes for itself that nobody writes just then.
LEMMA ReadCopy ==
  ASSUME Sizes, CopyInv, NEW p \in Copier,
         NEW offset \in Bytes!SizeT, NEW size \in Bytes!SizeT, Bytes!BeginRead(p, offset, size)
  PROVE  CopyInv'
<1> DEFINE mine == Bytes!Range(offset, size)
<1>1. /\ Bytes!Begin(p, "read", offset, size, 0)
      /\ writes' = writes /\ memory' = memory /\ known' = known
      /\ alone' = [alone EXCEPT ![p] = {i \in mine : known[i] # Bytes!Unknown}]
  BY DEF Bytes!BeginRead, Bytes!Begin
<1>2. writes' \in 0 .. MaxWrites /\ known' \in [Bytes!Byte -> 0 .. Bytes!Unknown]
  BY <1>1 DEF CopyInv, Bytes!TypeOK
<1>3. /\ mine \subseteq Bytes!SizeT
      /\ alone' \in [Copier -> SUBSET Bytes!SizeT]
      /\ \A q \in Copier : alone'[q] \subseteq IF q = p THEN mine ELSE alone[q]
  BY <1>1 DEF CopyInv, Copies, Bytes!Range
<1>4. /\ CopyTypes' /\ ~Bytes!Busy(p) /\ copied'[p] = 0
      /\ copy'[p].op = "read" /\ copy'[p].offset = offset /\ Bytes!RangeOf(p)' = mine
      /\ \A q \in Copier \ {p} : /\ copy'[q] = copy[q] /\ copied'[q] = copied[q]
                                 /\ buffer'[q] = buffer[q]
                                 /\ Bytes!RangeOf(q)' = Bytes!RangeOf(q)
  <2>1. CopyTypes /\ "read" \in {"read", "write"} /\ 0 \in 0 .. MaxWrites
    BY DEF CopyInv, CopyTypes, Sizes
  <2>. QED BY <1>1, <1>2, <1>3, <2>1, BeginTypes
<1>. HIDE DEF mine
<1>5. /\ \A i : ~Writing(p, i)'
      /\ \A q \in Copier \ {p} : \A i : Writing(q, i)' <=> Writing(q, i)
      /\ \A q \in Copier \ {p} : Done(q)' = Done(q)
  BY <1>4 DEF Writing, Done
<1>6. Done(p)' = {}
  BY <1>4 DEF mine, Bytes!Range, Bytes!SizeT, Done
<1>7. KnownHolds'
  BY <1>1, <1>5 DEF CopyInv, KnownHolds
<1>8. AloneHolds'
  <2>1. ASSUME NEW q \in Copier, (copy[q].op)' = "write", NEW i \in alone'[q]
        PROVE  /\ \A r \in Copier \ {q} : ~Writing(r, i)'
               /\ i \in Done(q)' => memory'[i] = (copy[q].data)'
    <3>1. q # p /\ copy'[q] = copy[q] /\ i \in alone[q]
      BY <2>1, <1>1, <1>4 DEF CopyInv, Copies
    <3>. QED BY <3>1, <2>1, <1>1, <1>5 DEF CopyInv, AloneHolds
  <2>. QED BY <2>1 DEF AloneHolds
<1>9. ReadHolds'
  <2>1. ASSUME NEW q \in Copier, (copy[q].op)' = "read", NEW i \in alone'[q]
        PROVE  /\ known'[i] # Bytes!Unknown
               /\ i \in Done(q)' => buffer'[q][i - (copy[q].offset)' + 1] = known'[i]
    <3>1. CASE q = p
      BY <3>1, <2>1, <1>1, <1>6 DEF CopyInv, Copies
    <3>2. CASE q # p
      BY <3>2, <2>1, <1>1, <1>4, <1>5 DEF CopyInv, Copies, ReadHolds
    <3>. QED BY <3>1, <3>2
  <2>. QED BY <2>1 DEF ReadHolds
<1>. QED BY <1>4, <1>7, <1>8, <1>9 DEF CopyInv, CopyTypes

\* One byte of a write(): nobody else has it for himself.
LEMMA CopyInCopy ==
  ASSUME Sizes, CopyInv, NEW p \in Copier, Bytes!CopyIn(p)
  PROVE  CopyInv'
<1>1. PICK j : j = copy[p].offset + copied[p]
  OBVIOUS
<1>2. /\ copy[p].op = "write" /\ ~Bytes!Copied(p)
      /\ memory' = [memory EXCEPT ![j] = copy[p].data]
      /\ copied' = [copied EXCEPT ![p] = @ + 1]
      /\ UNCHANGED <<mapped, copy, buffer, writes, known, alone>>
  BY <1>1 DEF Bytes!CopyIn
<1>3. /\ copy[p].offset \in Nat /\ copy[p].count \in Nat /\ copied[p] \in Nat
      /\ j \in Bytes!Byte
      /\ j < copy[p].offset + copy[p].count
  BY <1>1, <1>2, CopyOfBytes DEF CopyInv, CopyTypes, Bytes!Busy
<1>4. j \in Bytes!RangeOf(p)
  BY <1>1, <1>3 DEF Bytes!RangeOf, Bytes!Range, Bytes!Byte, Bytes!SizeT, Sizes
<1>5. /\ copied'[p] = copied[p] + 1
      /\ \A q \in Copier \ {p} : copied'[q] = copied[q]
      /\ \A q \in Copier : Bytes!RangeOf(q)' = Bytes!RangeOf(q)
      /\ \A q \in Copier : \A i : Writing(q, i)' <=> Writing(q, i)
  BY <1>2 DEF CopyInv, Copies, Bytes!RangeOf, Writing
<1>6. /\ \A q \in Copier \ {p} : Done(q)' = Done(q)
      /\ \A i \in Done(p)' : i = j \/ i \in Done(p)
  <2>1. \A q \in Copier \ {p} : Done(q)' = Done(q)
    BY <1>2, <1>5 DEF Done
  <2>2. ASSUME NEW i \in Done(p)' PROVE i = j \/ i \in Done(p)
    <3>1. i \in Nat /\ i \in Bytes!RangeOf(p) /\ i < copy[p].offset + (copied[p] + 1)
      BY <1>2, <1>5 DEF Done, Bytes!RangeOf, Bytes!Range, Bytes!SizeT
    <3>. QED BY <3>1, <1>1, <1>3 DEF Done
  <2>. QED BY <2>1, <2>2
<1>7. Writing(p, j)
  BY <1>2, <1>4 DEF Writing
<1>8. CopyTypes'
  <2>1. Bytes!TypeOK'
    <3>1. copy[p].data \in 0 .. MaxWrites /\ copied[p] + 1 \in 0 .. copy[p].count
      <4>1. copied[p] \in 0 .. copy[p].count /\ copied[p] # copy[p].count
        BY <1>2 DEF CopyInv, Bytes!TypeOK, Bytes!Copied
      <4>2. copy[p].data \in 0 .. MaxWrites
        BY DEF CopyInv, Copies
      <4>. QED BY <4>1, <4>2, <1>3
    <3>2. memory' \in [Bytes!Byte -> 0 .. MaxWrites]
      BY <1>2, <1>3, <3>1 DEF CopyInv, Bytes!TypeOK
    <3>3. \A q \in Copier : copied'[q] \in 0 .. copy[q].count
      BY <1>5, <3>1 DEF CopyInv, Bytes!TypeOK
    <3>4. \A q \in Copier : copy[q].op = "read" => copied'[q] = copied[q]
      BY <1>2, <1>5
    <3>. QED BY <1>2, <1>5, <3>2, <3>3, <3>4 DEF CopyInv, Bytes!TypeOK
  <2>2. Bytes!CopiesStayInside' /\ Copies'
    BY <1>2, <1>3 DEF CopyInv, Bytes!CopiesStayInside, Bytes!Busy, Copies
  <2>. QED BY <2>1, <2>2 DEF CopyTypes
<1>9. \A i \in Bytes!Byte : memory'[i] = IF i = j THEN copy[p].data ELSE memory[i]
  BY <1>2 DEF CopyInv, Bytes!TypeOK
<1>10. KnownHolds'
  BY <1>2, <1>5, <1>7, <1>9 DEF CopyInv, KnownHolds
<1>11. AloneHolds'
  <2>1. ASSUME NEW q \in Copier, copy[q].op = "write", NEW i \in alone[q]
        PROVE  /\ \A r \in Copier \ {q} : ~Writing(r, i)
               /\ i \in Done(q)' => memory'[i] = copy[q].data
    <3>1. /\ \A r \in Copier \ {q} : ~Writing(r, i)
          /\ i \in Done(q) => memory[i] = copy[q].data
      BY <2>1 DEF CopyInv, AloneHolds
    <3>2. i \in Bytes!Byte
      BY <2>1, CopyOfBytes DEF CopyInv, CopyTypes, Bytes!TypeOK, Bytes!Busy
    <3>3. CASE q = p
      BY <3>1, <3>2, <3>3, <1>6, <1>9
    <3>4. CASE q # p
      BY <3>1, <3>2, <3>4, <1>6, <1>7, <1>9
    <3>. QED BY <3>1, <3>3, <3>4
  <2>. QED BY <2>1, <1>2, <1>5 DEF AloneHolds
<1>12. ReadHolds'
  BY <1>2, <1>6 DEF CopyInv, ReadHolds
<1>. QED BY <1>8, <1>10, <1>11, <1>12 DEF CopyInv, CopyTypes

\* One byte of a read(): if it counts, its last write is in the memory.
LEMMA CopyOutCopy ==
  ASSUME Sizes, CopyInv, NEW p \in Copier, Bytes!CopyOut(p)
  PROVE  CopyInv'
<1>1. PICK j : j = copy[p].offset + copied[p]
  OBVIOUS
<1>2. /\ copy[p].op = "read" /\ ~Bytes!Copied(p)
      /\ buffer' = [buffer EXCEPT ![p] = Append(@, memory[j])]
      /\ copied' = [copied EXCEPT ![p] = @ + 1]
      /\ UNCHANGED <<mapped, memory, copy, writes, known, alone>>
  BY <1>1 DEF Bytes!CopyOut
<1>3. /\ copy[p].offset \in Nat /\ copy[p].count \in Nat /\ copied[p] \in Nat
      /\ j \in Bytes!Byte
      /\ j < copy[p].offset + copy[p].count
  BY <1>1, <1>2, CopyOfBytes DEF CopyInv, CopyTypes, Bytes!Busy
<1>4. /\ copied'[p] = copied[p] + 1
      /\ \A q \in Copier \ {p} : copied'[q] = copied[q] /\ buffer'[q] = buffer[q]
      /\ \A q \in Copier : Bytes!RangeOf(q)' = Bytes!RangeOf(q)
      /\ \A q \in Copier : \A i : Writing(q, i)' <=> Writing(q, i)
  BY <1>2 DEF CopyInv, Copies, Bytes!RangeOf, Writing
<1>5. /\ \A q \in Copier \ {p} : Done(q)' = Done(q)
      /\ \A i \in Done(p)' : i = j \/ i \in Done(p)
  <2>1. \A q \in Copier \ {p} : Done(q)' = Done(q)
    BY <1>2, <1>4 DEF Done
  <2>2. ASSUME NEW i \in Done(p)' PROVE i = j \/ i \in Done(p)
    <3>1. i \in Nat /\ i \in Bytes!RangeOf(p) /\ i < copy[p].offset + (copied[p] + 1)
      BY <1>2, <1>4 DEF Done, Bytes!RangeOf, Bytes!Range, Bytes!SizeT
    <3>. QED BY <3>1, <1>1, <1>3 DEF Done
  <2>. QED BY <2>1, <2>2
<1>6. /\ buffer[p] \in Seq(0 .. MaxWrites) /\ Len(buffer[p]) = copied[p]
      /\ memory[j] \in 0 .. MaxWrites /\ buffer'[p] = Append(buffer[p], memory[j])
  BY <1>2, <1>3 DEF CopyInv, Copies, Bytes!TypeOK
<1>7. /\ buffer'[p] \in Seq(0 .. MaxWrites) /\ Len(buffer'[p]) = copied[p] + 1
      /\ buffer'[p][copied[p] + 1] = memory[j]
      /\ \A k \in 1 .. copied[p] : buffer'[p][k] = buffer[p][k]
  BY <1>6, AppendProperties
<1>8. CopyTypes'
  <2>1. Bytes!TypeOK'
    <3>1. copied[p] + 1 \in 0 .. copy[p].count
      <4>1. copied[p] \in 0 .. copy[p].count /\ copied[p] # copy[p].count
        BY <1>2 DEF CopyInv, Bytes!TypeOK, Bytes!Copied
      <4>. QED BY <4>1, <1>3
    <3>2. \A q \in Copier : /\ copied'[q] \in 0 .. copy[q].count
                            /\ buffer'[q] \in Seq(0 .. MaxWrites)
                            /\ copy[q].op = "read" => Len(buffer'[q]) = copied'[q]
      BY <1>4, <1>7, <3>1 DEF CopyInv, Bytes!TypeOK
    <3>3. \A q \in Copier : copied'[q] \in 0 .. copy'[q].count /\ buffer'[q] \in Seq(0 .. MaxWrites)
                             /\ (copy'[q].op = "read" => Len(buffer'[q]) = copied'[q])
      BY <1>2, <3>2
    <3>4. \A q \in Copier : copy'[q] \in [op : {"none", "read", "write"}, offset : Bytes!SizeT,
                                             count : Bytes!SizeT, data : 0 .. MaxWrites]
      BY <1>2 DEF CopyInv, Bytes!TypeOK
    <3>5. \A q \in Copier : alone'[q] \subseteq Bytes!RangeOf(q)'
      BY <1>2, <1>4 DEF CopyInv, Bytes!TypeOK
    <3>6. /\ mapped' \in [Copier -> 0 .. Backing] /\ memory' \in [Bytes!Byte -> 0 .. MaxWrites]
          /\ writes' \in 0 .. MaxWrites /\ known' \in [Bytes!Byte -> 0 .. Bytes!Unknown]
      BY <1>2 DEF CopyInv, Bytes!TypeOK
    <3>. QED BY <3>3, <3>4, <3>5, <3>6 DEF Bytes!TypeOK
  <2>2. Bytes!CopiesStayInside' /\ Copies'
    BY <1>2, <1>3, <1>7 DEF CopyInv, Bytes!CopiesStayInside, Bytes!Busy, Copies
  <2>. QED BY <2>1, <2>2 DEF CopyTypes
<1>9. KnownHolds'
  BY <1>2, <1>4 DEF CopyInv, KnownHolds
<1>10. AloneHolds'
  BY <1>2, <1>4, <1>5 DEF CopyInv, AloneHolds
<1>11. ReadHolds'
  <2>1. ASSUME NEW q \in Copier, copy[q].op = "read", NEW i \in alone[q]
        PROVE  /\ known[i] # Bytes!Unknown
               /\ i \in Done(q)' => buffer'[q][i - copy[q].offset + 1] = known[i]
    <3>1. /\ known[i] # Bytes!Unknown
          /\ i \in Done(q) => buffer[q][i - copy[q].offset + 1] = known[i]
      BY <2>1 DEF CopyInv, ReadHolds
    <3>2. CASE q # p
      BY <3>1, <3>2, <1>4, <1>5
    <3>3. CASE q = p /\ i = j
      <4>1. memory[j] = known[j]
        BY <3>1, <3>3, <1>3 DEF CopyInv, KnownHolds
      <4>2. i - copy[q].offset + 1 = copied[p] + 1
        BY <3>3, <1>1, <1>3
      <4>. QED BY <3>1, <3>3, <4>1, <4>2, <1>7
    <3>4. CASE q = p /\ i # j
      <4>1. ASSUME i \in Done(p)
            PROVE  i - copy[p].offset + 1 \in 1 .. copied[p]
        BY <4>1, <1>3 DEF Done, Bytes!RangeOf, Bytes!Range, Bytes!SizeT
      <4>. QED BY <3>1, <3>4, <4>1, <1>5, <1>7
    <3>. QED BY <3>2, <3>3, <3>4
  <2>2. copy' = copy /\ alone' = alone /\ known' = known
    BY <1>2
  <2>. QED BY <2>1, <2>2 DEF ReadHolds
<1>. QED BY <1>8, <1>9, <1>10, <1>11 DEF CopyInv, CopyTypes

\* A write() that returns is the last one to the bytes it had for itself.
LEMMA ReturnCopy ==
  ASSUME Sizes, CopyInv, NEW p \in Copier, Bytes!Return(p)
  PROVE  CopyInv'
<1>1. /\ Bytes!Busy(p) /\ Bytes!Copied(p)
      /\ copy' = [copy EXCEPT ![p] = Bytes!Idle]
      /\ copied' = [copied EXCEPT ![p] = 0]
      /\ buffer' = [buffer EXCEPT ![p] = <<>>]
      /\ alone' = [alone EXCEPT ![p] = {}]
      /\ known' = [i \in Bytes!Byte |-> IF copy[p].op = "write" /\ i \in alone[p]
                                        THEN copy[p].data ELSE known[i]]
      /\ UNCHANGED <<mapped, memory, writes>>
  BY DEF Bytes!Return
<1>2. /\ copy'[p] = Bytes!Idle /\ copied'[p] = 0 /\ buffer'[p] = <<>> /\ alone'[p] = {}
      /\ \A q \in Copier \ {p} : /\ copy'[q] = copy[q] /\ copied'[q] = copied[q]
                                 /\ buffer'[q] = buffer[q] /\ alone'[q] = alone[q]
                                 /\ Bytes!RangeOf(q)' = Bytes!RangeOf(q)
                                 /\ Done(q)' = Done(q)
      /\ \A q \in Copier \ {p} : \A i : Writing(q, i)' <=> Writing(q, i)
      /\ \A i : ~Writing(p, i)'
  BY <1>1 DEF CopyInv, Copies, Bytes!RangeOf, Done, Writing, Bytes!Idle
<1>3. \A i \in alone[p] : i \in Bytes!RangeOf(p) /\ i \in Bytes!Byte
  BY <1>1, CopyOfBytes DEF CopyInv, CopyTypes, Bytes!TypeOK
<1>4. /\ copy[p].data \in 0 .. MaxWrites /\ copy[p].data # Bytes!Unknown
      /\ known' \in [Bytes!Byte -> 0 .. Bytes!Unknown]
  BY <1>1 DEF CopyInv, Bytes!TypeOK, Copies, Bytes!Unknown, Sizes
<1>5. CopyTypes'
  <2>1. Bytes!TypeOK'
    <3>1. ASSUME NEW q \in Copier PROVE
            /\ copy'[q] \in [op : {"none", "read", "write"}, offset : Bytes!SizeT,
                             count : Bytes!SizeT, data : 0 .. MaxWrites]
            /\ copied'[q] \in 0 .. copy'[q].count
            /\ buffer'[q] \in Seq(0 .. MaxWrites)
            /\ copy'[q].op = "read" => Len(buffer'[q]) = copied'[q]
            /\ alone'[q] \subseteq Bytes!RangeOf(q)'
      <4>1. CASE q = p
        BY <4>1, <1>2, EmptySeq DEF Bytes!Idle, Bytes!SizeT, Sizes
      <4>2. CASE q # p
        BY <4>2, <1>2, ZenonT(40) DEF CopyInv, Bytes!TypeOK
      <4>. QED BY <4>1, <4>2
    <3>. QED BY <1>1, <1>4, <3>1 DEF CopyInv, Bytes!TypeOK
  <2>2. Bytes!CopiesStayInside'
    BY <1>1, <1>2 DEF CopyInv, Bytes!CopiesStayInside, Bytes!Busy, Bytes!Idle
  <2>3. Copies'
    BY <1>1, EmptySeq DEF CopyInv, Copies, Bytes!Idle, Bytes!SizeT, Sizes
  <2>. QED BY <2>1, <2>2, <2>3 DEF CopyTypes
<1>6. copy[p].op = "write" => \A i \in alone[p] : memory[i] = copy[p].data
  <2>1. ASSUME NEW i \in alone[p] PROVE i \in Done(p)
    <3>1. copied[p] = copy[p].count
      BY <1>1 DEF Bytes!Copied
    <3>. QED BY <3>1, <1>3 DEF Done, Bytes!RangeOf, Bytes!Range
  <2>. QED BY <2>1 DEF CopyInv, AloneHolds
<1>7. KnownHolds'
  <2>1. ASSUME NEW i \in Bytes!Byte, known'[i] # Bytes!Unknown
        PROVE  memory[i] = known'[i] /\ \A q \in Copier : ~Writing(q, i)'
    <3>1. CASE copy[p].op = "write" /\ i \in alone[p]
      <4>1. \A q \in Copier \ {p} : ~Writing(q, i)
        BY <3>1 DEF CopyInv, AloneHolds
      <4>. QED BY <3>1, <4>1, <1>1, <1>2, <1>6
    <3>2. CASE ~(copy[p].op = "write" /\ i \in alone[p])
      BY <3>2, <2>1, <1>1, <1>2 DEF CopyInv, KnownHolds
    <3>. QED BY <3>1, <3>2
  <2>. QED BY <2>1, <1>1 DEF KnownHolds
<1>8. AloneHolds'
  BY <1>1, <1>2 DEF CopyInv, AloneHolds, Bytes!Idle
<1>9. ReadHolds'
  <2>1. ASSUME NEW q \in Copier, (copy[q].op)' = "read", NEW i \in alone'[q]
        PROVE  /\ known'[i] # Bytes!Unknown
               /\ i \in Done(q)' => buffer'[q][i - (copy[q].offset)' + 1] = known'[i]
    <3>1. q # p /\ copy'[q] = copy[q] /\ i \in alone[q]
      BY <2>1, <1>2 DEF Bytes!Idle
    <3>2. /\ known[i] # Bytes!Unknown
          /\ i \in Done(q) => buffer[q][i - copy[q].offset + 1] = known[i]
      BY <3>1, <2>1 DEF CopyInv, ReadHolds
    <3>3. i \in Bytes!Byte
      BY <3>1, <2>1, CopyOfBytes DEF CopyInv, CopyTypes, Bytes!TypeOK, Bytes!Busy
    <3>4. ~(copy[p].op = "write" /\ i \in alone[p])
      BY <3>2, <3>3, <1>3 DEF CopyInv, KnownHolds, Writing
    <3>. QED BY <3>1, <3>2, <3>3, <3>4, <1>1, <1>2
  <2>. QED BY <2>1 DEF ReadHolds
<1>. QED BY <1>5, <1>7, <1>8, <1>9 DEF CopyInv, CopyTypes

\* No copy leaves its mapping, for all offsets and counts; and a read() has the
\* last write of each of its bytes that nobody wrote meanwhile, whatever the
\* processes, the sizes and the order of the bytes of all copies.
THEOREM CopiesAreTrue ==
  ASSUME WordSize \in Nat, Backing \in Nat, Backing < WordSize, MaxWrites \in Nat
  PROVE  Bytes!Spec => []CopiesTrue
<1>0. Sizes
  BY DEF Sizes
<1>1. CopyInv => Bytes!CopiesTrue
  <2>. SUFFICES ASSUME CopyInv PROVE Bytes!ReadsSeeWrites
    BY DEF CopyInv, Bytes!CopiesTrue
  <2>1. ASSUME NEW p \in Copier, copy[p].op = "read", Bytes!Copied(p), NEW i \in alone[p]
        PROVE  buffer[p][i - copy[p].offset + 1] = known[i]
    <3>1. i \in Bytes!RangeOf(p) /\ copied[p] = copy[p].count
      BY <2>1 DEF CopyInv, Bytes!TypeOK, Bytes!Copied
    <3>2. i \in Done(p)
      BY <3>1 DEF Done, Bytes!RangeOf, Bytes!Range
    <3>. QED BY <2>1, <3>2 DEF CopyInv, ReadHolds
  <2>. QED BY <2>1 DEF Bytes!ReadsSeeWrites
<1>2. CopyInv /\ [Bytes!Next]_(Bytes!vars) => CopyInv'
  <2>. SUFFICES ASSUME CopyInv, [Bytes!Next]_(Bytes!vars) PROVE CopyInv'
    OBVIOUS
  <2>1. ASSUME NEW p \in Copier, NEW size \in 1 .. Backing, Bytes!Map(p, size) PROVE CopyInv'
    <3>1. size \in 0 .. Backing
      BY <1>0 DEF Sizes
    <3>. QED BY <2>1, <3>1, <1>0, MapCopy DEF Bytes!Map
  <2>2. ASSUME NEW p \in Copier, Bytes!Close(p) PROVE CopyInv'
    <3>1. 0 \in 0 .. Backing
      BY <1>0 DEF Sizes
    <3>. QED BY <2>2, <3>1, <1>0, MapCopy DEF Bytes!Close
  <2>3. CASE UNCHANGED Bytes!vars
    BY <2>3 DEF Bytes!vars, CopyInv, Bytes!TypeOK, Bytes!CopiesStayInside, Bytes!Busy, Copies,
                KnownHolds, AloneHolds, ReadHolds, Writing, Done, Bytes!RangeOf
  <2>. QED BY <2>1, <2>2, <2>3, <1>0, WriteCopy, ReadCopy, CopyInCopy, CopyOutCopy, ReturnCopy
           DEF Bytes!Next
<1>3. Bytes!Init => CopyInv
  BY <1>0, InitCopy
<1>. QED BY <1>1, <1>2, <1>3, PTL DEF Bytes!Spec, CopiesTrue
-----------------------------------------------------------------------------
(* The messages of one queue, sorted by the kernel, and what a channel     *)
(* promises of them.                                                       *)

QueueConstants ==
  /\ Events \subseteq Text /\ TooLong \subseteq Text
  /\ Priority \subseteq Nat /\ 0 \in Priority
  /\ MaxMessages \in Nat

Messages == [text : Text, priority : Priority, turn : Nat \ {0}]

\* m is received before n.
Ahead(m, n) == m.priority > n.priority \/ (m.priority = n.priority /\ m.turn < n.turn)

QueueInv ==
  /\ messages \in Seq(Messages)
  /\ taken \in Nat
  /\ \A i \in 1..Len(messages) : messages[i].turn <= taken
  /\ \A i, j \in 1..Len(messages) : i < j => Ahead(messages[i], messages[j])
  /\ queueCall \in [Caller -> Queue!Channel!Calls]
  /\ answer \in [Caller -> [ok : BOOLEAN, text : Text \cup {NoMessage}]]

\* The module's sizes of sets are the library's.
LEMMA SameSizes ==
  \A S : Queue!Cardinality(S) = Cardinality(S) /\ Queue!Channel!Cardinality(S) = Cardinality(S)
  BY DEF Cardinality, Queue!Cardinality, Queue!Channel!Cardinality

\* A part of 1..n that has all the numbers below its own is 1 up to its size.
LEMMA InitialSegment ==
  ASSUME NEW n \in Nat, NEW D \in SUBSET (1..n), \A i \in D : \A j \in 1..i : j \in D
  PROVE  Cardinality(D) \in 0..n /\ D = 1..Cardinality(D)
<1>1. IsFiniteSet(1..n) /\ Cardinality(1..n) = n
  <2>1. 1 \in Int /\ n \in Int /\ (IF 1 > n THEN 0 ELSE n - 1 + 1) = n
    OBVIOUS
  <2>. QED BY <2>1, FS_Interval
<1>2. IsFiniteSet(D) /\ Cardinality(D) <= n /\ Cardinality(D) \in Nat
  BY <1>1, FS_Subset, FS_CardinalityType
<1>3. PICK k : k = Cardinality(D)
  OBVIOUS
<1>4. IsFiniteSet(1..k) /\ Cardinality(1..k) = k
  <2>1. 1 \in Int /\ k \in Int /\ (IF 1 > k THEN 0 ELSE k - 1 + 1) = k
    BY <1>2, <1>3
  <2>. QED BY <2>1, FS_Interval
<1>5. ASSUME NEW i \in D PROVE i \in 1..k
  <2>1. i \in Nat /\ 1 <= i
    OBVIOUS
  <2>2. 1..i \in SUBSET D
    OBVIOUS
  <2>3. Cardinality(1..i) = i
    <3>1. 1 \in Int /\ i \in Int /\ (IF 1 > i THEN 0 ELSE i - 1 + 1) = i
      BY <2>1
    <3>. QED BY <3>1, FS_Interval
  <2>4. Cardinality(1..i) <= k
    BY <1>2, <1>3, <2>2, FS_Subset
  <2>. QED BY <2>1, <2>3, <2>4, <1>2, <1>3
<1>6. D = 1..k
  <2>1. D \in SUBSET (1..k) /\ Cardinality(1..k) = Cardinality(D)
    BY <1>3, <1>4, <1>5
  <2>. QED BY <2>1, <1>4, FS_Subset
<1>. QED BY <1>2, <1>3, <1>6

\* r is q, with m put in after the first k messages.
Inserted(S, q, m, k, r) ==
  /\ r \in Seq(S) /\ Len(r) = Len(q) + 1
  /\ \A i \in 1..k : r[i] = q[i]
  /\ r[k + 1] = m
  /\ \A i \in (k + 2)..Len(r) : r[i] = q[i - 1]

LEMMA InsertedAt ==
  ASSUME NEW S, NEW q \in Seq(S), NEW m \in S, NEW k \in 0..Len(q)
  PROVE  Inserted(S, q, m, k, Queue!InsertAt(q, k + 1, m))
<1>0. PICK r : r = Queue!InsertAt(q, k + 1, m)
  OBVIOUS
<1>1. PICK x, y : x = SubSeq(q, 1, k) /\ y = SubSeq(q, k + 1, Len(q))
  OBVIOUS
<1>2. k \in Nat /\ Len(q) \in Nat /\ k <= Len(q)
  BY LenProperties
<1>3. x \in Seq(S) /\ Len(x) = k /\ \A i \in 1..k : x[i] = q[i]
  <2>1. \A i \in 1..k : q[i] \in S /\ 1 + i - 1 = i
    BY <1>2
  <2>2. 1 \in Int /\ k \in Int /\ (IF 1 <= k THEN k - 1 + 1 ELSE 0) = k /\ k - 1 + 1 = k
    BY <1>2
  <2>. QED BY <1>1, <2>1, <2>2, SubSeqProperties
<1>4. y \in Seq(S) /\ Len(y) = Len(q) - k /\ \A i \in 1..Len(y) : y[i] = q[k + i]
  <2>1. PICK n, a : n = Len(q) /\ a = k + 1
    OBVIOUS
  <2>2. /\ a \in Int /\ n \in Int /\ n - a + 1 = n - k
        /\ (IF a <= n THEN n - a + 1 ELSE 0) = n - k
        /\ \A i \in 1..(n - k) : a + i - 1 = k + i
    BY <1>2, <2>1
  <2>3. \A i \in a..n : q[i] \in S
    BY <1>2, <2>1
  <2>4. y = SubSeq(q, a, n)
    BY <1>1, <2>1
  <2>5. y \in Seq(S) /\ Len(y) = n - k /\ \A i \in 1..(n - k) : y[i] = q[k + i]
    BY <2>2, <2>3, <2>4, SubSeqProperties
  <2>. QED BY <2>1, <2>5
<1>5. r = (x \o <<m>>) \o y
  <2>1. (k + 1) - 1 = k
    BY <1>2
  <2>. QED BY <1>0, <1>1, <2>1 DEF Queue!InsertAt
<1>6. PICK z : z = x \o <<m>>
  OBVIOUS
<1>7. z = Append(x, m) /\ z \in Seq(S) /\ Len(z) = k + 1
      /\ (\A i \in 1..k : z[i] = x[i]) /\ z[k + 1] = m
  <2>1. z = Append(x, m)
    BY <1>3, <1>6, AppendIsConcat
  <2>. QED BY <2>1, <1>3, AppendProperties
<1>8. /\ r \in Seq(S) /\ Len(r) = Len(z) + Len(y)
      /\ \A i \in 1..Len(r) : r[i] = IF i <= Len(z) THEN z[i] ELSE y[i - Len(z)]
  <2>1. y \in Seq(S) /\ z \in Seq(S) /\ r = z \o y
    BY <1>4, <1>5, <1>6, <1>7
  <2>2. \A i \in 1..(Len(z) + Len(y)) : (z \o y)[i] = IF i <= Len(z) THEN z[i] ELSE y[i - Len(z)]
    BY <2>1, ConcatProperties
  <2>3. (z \o y) \in Seq(S) /\ Len(z \o y) = Len(z) + Len(y)
    BY <2>1, ConcatProperties
  <2>. QED BY <2>1, <2>2, <2>3
<1>9. ASSUME NEW i \in (k + 2)..Len(r) PROVE r[i] = q[i - 1]
  <2>1. PICK n, l : n = Len(q) /\ l = Len(r)
    OBVIOUS
  <2>2. Len(y) = n - k /\ Len(z) = k + 1 /\ l = k + 1 + (n - k) /\ n \in Nat /\ k <= n
    BY <2>1, <1>2, <1>4, <1>7, <1>8
  <2>3. i \in (k + 2)..l
    BY <2>1
  <2>4. /\ i \in 1..l /\ ~(i <= k + 1) /\ i - (k + 1) \in 1..(n - k)
        /\ k + (i - (k + 1)) = i - 1
    BY <2>2, <2>3
  <2>5. r[i] = y[i - (k + 1)]
    BY <2>1, <2>2, <2>4, <1>8
  <2>6. y[i - (k + 1)] = q[k + (i - (k + 1))]
    BY <2>2, <2>4, <1>4
  <2>. QED BY <2>4, <2>5, <2>6
<1>10. Len(r) = Len(q) + 1
  BY <1>2, <1>4, <1>7, <1>8
<1>11. \A i \in 1..(k + 1) : r[i] = z[i]
  <2>1. \A i \in 1..(k + 1) : i \in 1..Len(r) /\ i <= Len(z)
    BY <1>2, <1>7, <1>10
  <2>. QED BY <2>1, <1>8
<1>12. \A i \in 1..k : r[i] = q[i]
  <2>1. \A i \in 1..k : i \in 1..(k + 1)
    BY <1>2
  <2>. QED BY <2>1, <1>3, <1>7, <1>11
<1>13. r[k + 1] = m
  <2>1. k + 1 \in 1..(k + 1)
    BY <1>2
  <2>. QED BY <2>1, <1>7, <1>11
<1>14. Inserted(S, q, m, k, r)
  BY <1>8, <1>9, <1>10, <1>12, <1>13 DEF Inserted
<1>. QED BY <1>0, <1>14

\* The place the kernel gives a message: behind all that go before it.
LEMMA SortedIn ==
  ASSUME QueueConstants, QueueInv, NEW m \in Messages, m.turn = taken + 1
  PROVE  \E k \in 0..Len(messages) :
           /\ Queue!Sorted(m) = Queue!InsertAt(messages, k + 1, m)
           /\ \A i \in 1..k : Ahead(messages[i], m)
           /\ \A i \in (k + 1)..Len(messages) : Ahead(m, messages[i])
<1>1. PICK n : n = Len(messages)
  OBVIOUS
<1>2. n \in Nat /\ DOMAIN messages = 1..n
  BY <1>1, LenProperties DEF QueueInv
<1>3. PICK D : D = {i \in 1..n : messages[i].priority >= m.priority}
  OBVIOUS
<1>4. /\ m.priority \in Nat
      /\ \A i \in 1..n : messages[i].priority \in Nat /\ messages[i].turn \in Nat
  <2>1. \A i \in 1..n : messages[i] \in Messages
    BY <1>1 DEF QueueInv
  <2>. QED BY <2>1 DEF QueueConstants, Messages
<1>5. D \in SUBSET (1..n) /\ \A i \in D : \A j \in 1..i : j \in D
  <2>1. ASSUME NEW i \in D, NEW j \in 1..i PROVE j \in D
    <3>1. i \in 1..n /\ j \in 1..n /\ (j = i \/ j < i)
      BY <1>2, <1>3, <2>1
    <3>2. CASE j = i
      BY <3>2
    <3>3. CASE j < i
      BY <3>1, <3>3, <1>1, <1>3, <1>4 DEF QueueInv, Ahead
    <3>. QED BY <3>1, <3>2, <3>3
  <2>. QED BY <2>1, <1>3
<1>6. PICK k : k = Cardinality(D)
  OBVIOUS
<1>7. k \in 0..n /\ D = 1..k
  BY <1>2, <1>5, <1>6, InitialSegment
<1>8. Queue!Sorted(m) = Queue!InsertAt(messages, k + 1, m)
  <2>1. D = {i \in DOMAIN messages : messages[i].priority >= m.priority}
    BY <1>2, <1>3
  <2>. QED BY <2>1, <1>6, SameSizes DEF Queue!Sorted
<1>9. ASSUME NEW i \in 1..k PROVE Ahead(messages[i], m)
  <2>1. i \in 1..n /\ messages[i].priority >= m.priority
    BY <1>3, <1>7
  <2>2. messages[i].turn < m.turn
    BY <2>1, <1>1, <1>4 DEF QueueInv
  <2>. QED BY <2>1, <2>2, <1>4 DEF Ahead
<1>10. ASSUME NEW i \in (k + 1)..n PROVE Ahead(m, messages[i])
  <2>1. i \in 1..n /\ i \notin D
    BY <1>2, <1>7
  <2>. QED BY <2>1, <1>3, <1>4 DEF Ahead
<1>. QED BY <1>1, <1>7, <1>8, <1>9, <1>10

\* The messages that the channel holds, numbered.
LEMMA Held ==
  ASSUME QueueInv
  PROVE  Queue!Range(messages) = {messages[i] : i \in 1..Len(messages)}
  BY LenProperties DEF Queue!Range, QueueInv

\* A queue that is not full holds fewer messages than it may.
LEMMA HeldBound ==
  ASSUME QueueInv
  PROVE  /\ IsFiniteSet(Queue!Range(messages))
         /\ Cardinality(Queue!Range(messages)) \in Nat
         /\ Cardinality(Queue!Range(messages)) <= Len(messages)
<1>1. PICK n, R : n = Len(messages) /\ R = Queue!Range(messages)
  OBVIOUS
<1>2. n \in Nat /\ messages \in [1..n -> R] /\ \A x \in R : \E i \in 1..n : messages[i] = x
  <2>1. n \in Nat /\ DOMAIN messages = 1..n /\ R = {messages[i] : i \in 1..n}
    BY <1>1, Held, LenProperties DEF QueueInv
  <2>2. messages = [i \in 1..n |-> messages[i]]
    BY <1>1, <2>1, LenProperties DEF QueueInv
  <2>. QED BY <2>1, <2>2
<1>3. messages \in Surjection(1..n, R)
  BY <1>2 DEF Surjection
<1>4. IsFiniteSet(1..n) /\ Cardinality(1..n) = n
  <2>1. 1 \in Int /\ n \in Int /\ (IF 1 > n THEN 0 ELSE n - 1 + 1) = n
    BY <1>2
  <2>. QED BY <2>1, FS_Interval
<1>. QED BY <1>1, <1>3, <1>4, FS_Surjection, FS_CardinalityType

\* The queue with one message more.
LEMMA PutIn ==
  ASSUME QueueConstants, QueueInv, NEW m \in Messages, m.turn = taken + 1,
         messages' = Queue!Sorted(m), taken' = taken + 1
  PROVE  /\ messages' \in Seq(Messages)
         /\ \A i \in 1..Len(messages') : messages'[i].turn <= taken'
         /\ \A i, j \in 1..Len(messages') : i < j => Ahead(messages'[i], messages'[j])
         /\ Queue!Range(messages)' = Queue!Range(messages) \cup {m}
<1>1. PICK k \in 0..Len(messages) :
        /\ messages' = Queue!InsertAt(messages, k + 1, m)
        /\ \A i \in 1..k : Ahead(messages[i], m)
        /\ \A i \in (k + 1)..Len(messages) : Ahead(m, messages[i])
  BY SortedIn
<1>2. PICK n, r : n = Len(messages) /\ r = messages'
  OBVIOUS
<1>3. n \in Nat /\ k \in Nat /\ k <= n /\ messages \in Seq(Messages)
  BY <1>1, <1>2, LenProperties DEF QueueInv
<1>4. /\ r \in Seq(Messages) /\ Len(r) = n + 1
      /\ \A i \in 1..k : r[i] = messages[i]
      /\ r[k + 1] = m
      /\ \A i \in (k + 2)..(n + 1) : r[i] = messages[i - 1]
  <2>1. r = Queue!InsertAt(messages, k + 1, m)
    BY <1>1, <1>2
  <2>2. /\ r \in Seq(Messages) /\ Len(r) = Len(messages) + 1
        /\ \A i \in 1..k : r[i] = messages[i]
        /\ r[k + 1] = m
        /\ \A i \in (k + 2)..Len(r) : r[i] = messages[i - 1]
    <3>1. Inserted(Messages, messages, m, k, Queue!InsertAt(messages, k + 1, m))
      BY <1>3, InsertedAt, Zenon
    <3>. QED BY <2>1, <3>1 DEF Inserted
  <2>. QED BY <1>2, <2>2
<1>5. \A i \in 1..(n + 1) : \/ i \in 1..k /\ i \in 1..n
                            \/ i = k + 1
                            \/ i \in (k + 2)..(n + 1) /\ i - 1 \in 1..n /\ i - 1 \in (k + 1)..n
  BY <1>3
<1>6. ASSUME NEW i \in 1..(n + 1) PROVE r[i].turn <= taken'
  <2>1. taken \in Nat /\ taken' = taken + 1 /\ \A x \in 1..n : messages[x].turn <= taken
    BY <1>2 DEF QueueInv
  <2>2. \A x \in 1..n : messages[x].turn \in Nat
    <3>1. \A x \in 1..n : messages[x] \in Messages
      BY <1>2, <1>3
    <3>. QED BY <3>1 DEF Messages
  <2>3. CASE i \in 1..k /\ i \in 1..n
    BY <1>4, <2>1, <2>2, <2>3
  <2>4. CASE i = k + 1
    BY <1>4, <2>1, <2>4
  <2>5. CASE i \in (k + 2)..(n + 1) /\ i - 1 \in 1..n
    BY <1>4, <2>1, <2>2, <2>5
  <2>. QED BY <1>5, <2>3, <2>4, <2>5
<1>7. ASSUME NEW i \in 1..(n + 1), NEW j \in 1..(n + 1), i < j PROVE Ahead(r[i], r[j])
  <2>1. \A x, y \in 1..n : x < y => Ahead(messages[x], messages[y])
    BY <1>2 DEF QueueInv
  <2>2. \A x \in 1..k : Ahead(messages[x], m)
    BY <1>1
  <2>3. \A x \in (k + 1)..n : Ahead(m, messages[x])
    BY <1>1, <1>2
  <2>4. CASE j \in 1..k
    <3>1. i \in 1..k /\ i \in 1..n /\ j \in 1..n
      BY <1>3, <1>7, <2>4
    <3>. QED BY <3>1, <2>4, <1>4, <1>7, <2>1
  <2>5. CASE j = k + 1
    <3>1. i \in 1..k
      BY <1>3, <1>7, <2>5
    <3>. QED BY <3>1, <2>5, <1>4, <2>2
  <2>6. CASE i = k + 1
    <3>1. j \in (k + 2)..(n + 1) /\ j - 1 \in (k + 1)..n
      BY <1>3, <1>7, <2>6
    <3>. QED BY <3>1, <2>6, <1>4, <2>3
  <2>7. CASE i \in 1..k /\ j \in (k + 2)..(n + 1)
    <3>1. i \in 1..n /\ j - 1 \in 1..n /\ i < j - 1
      BY <1>3, <2>7
    <3>. QED BY <3>1, <2>7, <1>4, <2>1
  <2>8. CASE i \in (k + 2)..(n + 1)
    <3>1. j \in (k + 2)..(n + 1) /\ i - 1 \in 1..n /\ j - 1 \in 1..n /\ i - 1 < j - 1
      BY <1>3, <1>7, <2>8
    <3>. QED BY <3>1, <2>8, <1>4, <2>1
  <2>9. \/ j \in 1..k \/ j = k + 1 \/ i = k + 1
        \/ i \in 1..k /\ j \in (k + 2)..(n + 1)
        \/ i \in (k + 2)..(n + 1)
    BY <1>3, <1>7
  <2>. QED BY <2>4, <2>5, <2>6, <2>7, <2>8, <2>9
<1>8. {r[i] : i \in 1..(n + 1)} = {messages[i] : i \in 1..n} \cup {m}
  <2>1. ASSUME NEW i \in 1..(n + 1) PROVE r[i] \in {messages[x] : x \in 1..n} \cup {m}
    <3>1. CASE i \in 1..k /\ i \in 1..n
      BY <3>1, <1>4
    <3>2. CASE i = k + 1
      BY <3>2, <1>4
    <3>3. CASE i \in (k + 2)..(n + 1) /\ i - 1 \in 1..n
      BY <3>3, <1>4
    <3>. QED BY <1>5, <3>1, <3>2, <3>3
  <2>2. ASSUME NEW x \in 1..n PROVE \E i \in 1..(n + 1) : r[i] = messages[x]
    <3>1. CASE x \in 1..k
      <4>1. x \in 1..(n + 1)
        BY <1>3
      <4>. QED BY <3>1, <4>1, <1>4
    <3>2. CASE x \notin 1..k
      <4>1. x + 1 \in (k + 2)..(n + 1) /\ (x + 1) - 1 = x /\ x + 1 \in 1..(n + 1)
        BY <3>2, <1>3
      <4>2. r[x + 1] = messages[(x + 1) - 1]
        BY <4>1, <1>4
      <4>. QED BY <4>1, <4>2
    <3>. QED BY <3>1, <3>2
  <2>3. k + 1 \in 1..(n + 1) /\ r[k + 1] = m
    BY <1>3, <1>4
  <2>. QED BY <2>1, <2>2, <2>3
<1>9. Queue!Range(messages)' = {r[i] : i \in 1..(n + 1)}
  <2>1. DOMAIN r = 1..(n + 1)
    BY <1>4, LenProperties
  <2>. QED BY <1>2, <2>1 DEF Queue!Range
<1>10. Queue!Range(messages) = {messages[i] : i \in 1..n}
  BY <1>2, Held
<1>. QED BY <1>2, <1>4, <1>6, <1>7, <1>8, <1>9, <1>10

\* The queue without its first message, which no other one equals.
LEMMA TakeOut ==
  ASSUME QueueConstants, QueueInv, messages # <<>>, messages' = Tail(messages), taken' = taken
  PROVE  /\ messages' \in Seq(Messages)
         /\ \A i \in 1..Len(messages') : messages'[i].turn <= taken'
         /\ \A i, j \in 1..Len(messages') : i < j => Ahead(messages'[i], messages'[j])
         /\ Head(messages) \in Queue!Range(messages)
         /\ Queue!Range(messages)' = Queue!Range(messages) \ {Head(messages)}
         /\ \A n \in Queue!Range(messages) : n = Head(messages) \/ Ahead(Head(messages), n)
<1>1. PICK n, r, h : n = Len(messages) /\ r = messages' /\ h = Head(messages)
  OBVIOUS
<1>2. n \in Nat /\ n # 0 /\ messages \in Seq(Messages) /\ h = messages[1]
  <2>1. messages \in Seq(Messages)
    BY DEF QueueInv
  <2>. QED BY <1>1, <2>1, EmptySeq, LenProperties
<1>3. /\ r \in Seq(Messages) /\ Len(r) = n - 1
      /\ \A i \in 1..(n - 1) : r[i] = messages[i + 1] /\ i + 1 \in 1..n
  <2>1. r \in Seq(Messages) /\ Len(r) = Len(messages) - 1
        /\ \A i \in 1..Len(Tail(messages)) : Tail(messages)[i] = messages[i + 1]
    BY <1>1, <1>2, HeadTailProperties
  <2>. QED BY <1>1, <1>2, <2>1
<1>4. /\ \A i \in 1..n : messages[i].turn <= taken
      /\ \A i, j \in 1..n : i < j => Ahead(messages[i], messages[j])
  BY <1>1 DEF QueueInv
<1>5. \A i \in 1..(n - 1) : r[i].turn <= taken
  BY <1>3, <1>4
<1>6. ASSUME NEW i \in 1..(n - 1), NEW j \in 1..(n - 1), i < j PROVE Ahead(r[i], r[j])
  <2>1. i + 1 < j + 1 /\ i + 1 \in 1..n /\ j + 1 \in 1..n
    BY <1>2, <1>6
  <2>. QED BY <2>1, <1>3, <1>4
<1>7. \A i \in 2..n : Ahead(h, messages[i])
  <2>1. \A i \in 2..n : i \in 1..n /\ 1 \in 1..n /\ 1 < i
    BY <1>2
  <2>. QED BY <2>1, <1>2, <1>4
<1>8. \A i \in 2..n : messages[i] # h
  <2>1. h \in Messages
    BY <1>1, <1>2, HeadTailProperties
  <2>2. h.priority \in Nat /\ h.turn \in Nat
    BY <2>1 DEF QueueConstants, Messages
  <2>3. ~Ahead(h, h)
    BY <2>2 DEF Ahead
  <2>. QED BY <1>7, <2>3
<1>9. \A i \in 1..n : i = 1 \/ i \in 2..n
  BY <1>2
<1>10. Queue!Range(messages) = {messages[i] : i \in 1..n} /\ 1 \in 1..n
  BY <1>1, <1>2, Held
<1>11. Queue!Range(messages)' = {r[i] : i \in 1..(n - 1)}
  <2>1. DOMAIN r = 1..(n - 1)
    BY <1>3, LenProperties
  <2>. QED BY <1>1, <2>1 DEF Queue!Range
<1>12. {r[i] : i \in 1..(n - 1)} = {messages[i] : i \in 2..n}
  <2>1. \A i \in 1..(n - 1) : i + 1 \in 2..n
    BY <1>2
  <2>2. \A i \in 2..n : i - 1 \in 1..(n - 1) /\ (i - 1) + 1 = i
    BY <1>2
  <2>3. \A i \in 2..n : r[i - 1] = messages[i]
    BY <1>3, <2>2
  <2>. QED BY <1>3, <2>1, <2>2, <2>3
<1>13. {messages[i] : i \in 2..n} = {messages[i] : i \in 1..n} \ {h}
  BY <1>2, <1>8, <1>9
<1>14. \A x \in Queue!Range(messages) : x = h \/ Ahead(h, x)
  BY <1>2, <1>7, <1>9, <1>10
<1>. QED BY <1>1, <1>2, <1>3, <1>5, <1>6, <1>10, <1>11, <1>12, <1>13, <1>14

\* What a caller passes to the kernel, and what it gets.
Talks == /\ queueCall \in [Caller -> Queue!Channel!Calls]
         /\ answer \in [Caller -> [ok : BOOLEAN, text : Text \cup {NoMessage}]]

\* The channel makes the step, and the queue is as before.
KeepsPromise == QueueInv' /\ Queue!Channel!ChannelNext

LEMMA BeginKeeps ==
  ASSUME QueueInv, NEW c \in Caller, NEW d \in Queue!Channel!Calls, Queue!Begin(c, d)
  PROVE  KeepsPromise
<1>1. /\ queueCall[c] = Queue!Channel!NoCall
      /\ queueCall' = [queueCall EXCEPT ![c] = d]
      /\ answer' = [answer EXCEPT ![c] = Queue!Channel!Answer(FALSE, NoMessage)]
      /\ messages' = messages /\ taken' = taken
  BY DEF Queue!Begin, Queue!NoCall, Queue!Channel!NoCall, Queue!Answer, Queue!Channel!Answer
<1>2. Queue!Range(messages)' = Queue!Range(messages)
  BY <1>1 DEF Queue!Range
<1>3. Queue!Channel!Call(c)
  BY <1>1, <1>2 DEF Queue!Channel!Call
<1>4. QueueInv'
  BY <1>1 DEF QueueInv, Queue!Channel!Answer
<1>. QED BY <1>3, <1>4 DEF KeepsPromise, Queue!Channel!ChannelNext

LEMMA ReturnTalks ==
  ASSUME QueueInv, NEW c \in Caller, NEW b \in BOOLEAN, NEW t \in Text \cup {NoMessage},
         Queue!Return(c, Queue!Answer(b, t))
  PROVE  Talks' /\ Queue!Channel!Return(c, Queue!Channel!Answer(b, t))
<1>1. /\ queueCall' = [queueCall EXCEPT ![c] = Queue!Channel!NoCall]
      /\ answer' = [answer EXCEPT ![c] = [ok |-> b, text |-> t]]
  BY DEF Queue!Return, Queue!Answer, Queue!NoCall, Queue!Channel!NoCall
<1>2. Queue!Channel!NoCall \in Queue!Channel!Calls
  BY DEF Queue!Channel!Calls
<1>3. Talks'
  BY <1>1, <1>2 DEF QueueInv, Talks
<1>. QED BY <1>1, <1>3 DEF Queue!Channel!Return, Queue!Channel!Answer

LEMMA FailKeeps ==
  ASSUME QueueInv, NEW c \in Caller, queueCall[c].op # "none", Queue!Fails(c)
  PROVE  KeepsPromise
<1>1. Queue!Return(c, Queue!Answer(FALSE, NoMessage)) /\ messages' = messages /\ taken' = taken
  BY DEF Queue!Fails
<1>2. Talks' /\ Queue!Channel!Return(c, Queue!Channel!Answer(FALSE, NoMessage))
  <2>1. FALSE \in BOOLEAN /\ NoMessage \in Text \cup {NoMessage}
    OBVIOUS
  <2>. QED BY <1>1, <2>1, ReturnTalks
<1>3. Queue!Range(messages)' = Queue!Range(messages)
  BY <1>1 DEF Queue!Range
<1>4. queueCall[c] # Queue!Channel!NoCall
  BY DEF Queue!Channel!NoCall
<1>5. Queue!Channel!Refuse(c)
  BY <1>1, <1>2, <1>3, <1>4 DEF Queue!Channel!Refuse
<1>6. QueueInv'
  BY <1>1, <1>2 DEF QueueInv, Talks
<1>. QED BY <1>5, <1>6 DEF KeepsPromise, Queue!Channel!ChannelNext

\* The kernel takes the message when there is a place for it.
LEMMA SendKeeps ==
  ASSUME QueueConstants, QueueInv, NEW c \in Caller, Queue!SendReturns(c)
  PROVE  KeepsPromise
<1>1. PICK m : m = [text |-> queueCall[c].text, priority |-> queueCall[c].priority,
                    turn |-> taken + 1]
  OBVIOUS
<1>2. /\ queueCall[c].op = "send" /\ Len(messages) < MaxMessages
      /\ messages' = Queue!Sorted(m) /\ taken' = taken + 1
      /\ Queue!Return(c, Queue!Answer(TRUE, NoMessage))
  BY <1>1 DEF Queue!SendReturns, Queue!Taken
<1>3. m \in Messages /\ m.turn = taken + 1 /\ taken \in Nat
  <2>1. queueCall[c] \in [op : {"send"}, text : Text, priority : Priority]
    BY <1>2 DEF QueueInv, Queue!Channel!Calls, Queue!Channel!NoCall
  <2>. QED BY <1>1, <2>1 DEF Messages, QueueInv
<1>4. Talks' /\ Queue!Channel!Return(c, Queue!Channel!Answer(TRUE, NoMessage))
  <2>1. TRUE \in BOOLEAN /\ NoMessage \in Text \cup {NoMessage}
    OBVIOUS
  <2>. QED BY <1>2, <2>1, ReturnTalks
<1>5. /\ messages' \in Seq(Messages)
      /\ \A i \in 1..Len(messages') : messages'[i].turn <= taken'
      /\ \A i, j \in 1..Len(messages') : i < j => Ahead(messages'[i], messages'[j])
      /\ Queue!Range(messages)' = Queue!Range(messages) \cup {m}
  BY <1>2, <1>3, PutIn
<1>6. QueueInv'
  BY <1>2, <1>3, <1>4, <1>5 DEF QueueInv, Talks
<1>7. Queue!Channel!Cardinality(Queue!Range(messages)) < MaxMessages
  <2>1. PICK k, n : k = Cardinality(Queue!Range(messages)) /\ n = Len(messages)
    OBVIOUS
  <2>2. k \in Nat /\ k <= n /\ n \in Nat /\ n < MaxMessages /\ MaxMessages \in Nat
    BY <2>1, <1>2, HeldBound, LenProperties DEF QueueConstants, QueueInv
  <2>3. k < MaxMessages
    BY <2>2
  <2>. QED BY <2>1, <2>3, SameSizes
<1>8. Queue!Channel!Accept(c)
  BY <1>1, <1>2, <1>4, <1>5, <1>7 DEF Queue!Channel!Accept
<1>. QED BY <1>6, <1>8 DEF KeepsPromise, Queue!Channel!ChannelNext

\* What a receive call gives back of the first message.
LEMMA ReceiveKeeps ==
  ASSUME QueueConstants, QueueInv, NEW c \in Caller,
         Queue!ReceiveReturns(c) \/ Queue!EventReturns(c)
  PROVE  KeepsPromise
<1>1. PICK h : h = Head(messages)
  OBVIOUS
<1>2. messages # <<>> /\ messages' = Tail(messages) /\ taken' = taken
  BY DEF Queue!ReceiveReturns, Queue!EventReturns
<1>3. /\ messages' \in Seq(Messages)
      /\ \A i \in 1..Len(messages') : messages'[i].turn <= taken'
      /\ \A i, j \in 1..Len(messages') : i < j => Ahead(messages'[i], messages'[j])
      /\ h \in Queue!Range(messages)
      /\ Queue!Range(messages)' = Queue!Range(messages) \ {h}
      /\ \A n \in Queue!Range(messages) : n = h \/ Ahead(h, n)
  BY <1>1, <1>2, TakeOut
<1>4. h \in Messages /\ \A n \in Queue!Range(messages) : n \in Messages
  <2>1. messages \in Seq(Messages)
    BY DEF QueueInv
  <2>. QED BY <2>1, <1>3, Held
<1>5. Queue!Channel!IsNext(h)
  <2>1. ASSUME NEW n \in Queue!Range(messages)
        PROVE  n.priority < h.priority \/ (n.priority = h.priority /\ h.turn <= n.turn)
    <3>1. /\ n.priority \in Nat /\ n.turn \in Nat /\ h.priority \in Nat /\ h.turn \in Nat
          /\ n = h \/ Ahead(h, n)
      BY <1>3, <1>4 DEF Messages, QueueConstants
    <3>. QED BY <3>1 DEF Ahead
  <2>. QED BY <2>1 DEF Queue!Channel!IsNext
<1>6. \/ /\ queueCall[c].op = "receive" \/ (queueCall[c].op = "receive_event" /\ h.text \in Events)
         /\ Queue!Return(c, Queue!Answer(TRUE, h.text))
      \/ /\ queueCall[c].op = "receive_event" /\ h.text \notin Events
         /\ Queue!Return(c, Queue!Answer(FALSE, NoMessage))
  BY <1>1 DEF Queue!ReceiveReturns, Queue!EventReturns
<1>7. /\ Talks'
      /\ \/ /\ queueCall[c].op = "receive" \/ (queueCall[c].op = "receive_event" /\ h.text \in Events)
            /\ Queue!Channel!Return(c, Queue!Channel!Answer(TRUE, h.text))
         \/ /\ queueCall[c].op = "receive_event" /\ h.text \notin Events
            /\ Queue!Channel!Return(c, Queue!Channel!Answer(FALSE, NoMessage))
  <2>1. /\ TRUE \in BOOLEAN /\ FALSE \in BOOLEAN
        /\ NoMessage \in Text \cup {NoMessage} /\ h.text \in Text \cup {NoMessage}
    BY <1>4 DEF Messages
  <2>. QED BY <1>6, <2>1, ReturnTalks
<1>8. QueueInv'
  BY <1>2, <1>3, <1>7 DEF QueueInv, Talks
<1>9. Queue!Channel!Deliver(c)
  BY <1>2, <1>3, <1>5, <1>7 DEF Queue!Channel!Deliver
<1>. QED BY <1>8, <1>9 DEF KeepsPromise, Queue!Channel!ChannelNext

\* The queue with all its callers, timeouts and interruptions is a channel:
\* whatever the callers, the texts, the priorities and the length of the queue.
THEOREM QueueImplementsChannel ==
  ASSUME Events \subseteq Text, TooLong \subseteq Text,
         Priority \subseteq Nat, 0 \in Priority, MaxMessages \in Nat
  PROVE  Queue!Spec => ImplementsChannel
<1>0. QueueConstants
  BY DEF QueueConstants
<1>1. Queue!Init => QueueInv /\ Queue!Channel!ChannelInit
  <2>1. Queue!Init => Queue!Channel!ChannelInit
    BY DEF Queue!Init, Queue!Channel!ChannelInit, Queue!Range, Queue!NoCall,
           Queue!Channel!NoCall, Queue!Answer, Queue!Channel!Answer
  <2>2. Queue!Init => QueueInv
    BY EmptySeq DEF Queue!Init, QueueInv, Queue!Channel!Calls, Queue!NoCall,
                    Queue!Channel!NoCall, Queue!Answer
  <2>. QED BY <2>1, <2>2
<1>2. QueueInv /\ [Queue!Next]_(Queue!vars)
        => QueueInv' /\ [Queue!Channel!ChannelNext]_(Queue!Channel!channelVars)
  <2>. SUFFICES ASSUME QueueInv, Queue!Next PROVE KeepsPromise
    <3>1. ASSUME QueueInv, UNCHANGED Queue!vars
          PROVE  QueueInv' /\ UNCHANGED Queue!Channel!channelVars
      BY <3>1 DEF QueueInv, Queue!vars, Queue!Channel!channelVars, Queue!Range
    <3>. QED BY <3>1 DEF KeepsPromise
  <2>1. PICK c \in Caller :
          \/ Queue!SendMessage(c) \/ Queue!Publish(c) \/ Queue!ReceiveMessage(c) \/ Queue!Receive(c)
          \/ Queue!CallReturns(c) \/ Queue!Interrupted(c)
    BY DEF Queue!Next
  <2>2. CASE Queue!SendMessage(c) \/ Queue!Publish(c)
    <3>1. PICK t \in Text, p \in Priority :
            Queue!Begin(c, [op |-> "send", text |-> t, priority |-> p])
      BY <2>2, <1>0 DEF Queue!SendMessage, Queue!Publish, QueueConstants
    <3>2. [op |-> "send", text |-> t, priority |-> p] \in Queue!Channel!Calls
      BY DEF Queue!Channel!Calls
    <3>. QED BY <3>1, <3>2, BeginKeeps
  <2>3. CASE Queue!ReceiveMessage(c) \/ Queue!Receive(c)
    <3>1. PICK d \in Queue!Channel!Calls : Queue!Begin(c, d)
      BY <2>3 DEF Queue!ReceiveMessage, Queue!Receive, Queue!NoCall, Queue!Channel!Calls,
                  Queue!Channel!NoCall
    <3>. QED BY <3>1, BeginKeeps
  <2>4. CASE Queue!RefuseText(c) \/ Queue!TimesOut(c) \/ Queue!Interrupted(c)
    <3>1. queueCall[c].op # "none" /\ Queue!Fails(c)
      BY <2>4 DEF Queue!RefuseText, Queue!TimesOut, Queue!Interrupted, Queue!MustWait
    <3>. QED BY <3>1, FailKeeps
  <2>. QED BY <1>0, <2>1, <2>2, <2>3, <2>4, SendKeeps, ReceiveKeeps DEF Queue!CallReturns
<1>. QED BY <1>1, <1>2, PTL
     DEF Queue!Spec, Queue!ImplementsChannel, Queue!Channel!ChannelSpec, ImplementsChannel
=============================================================================
