---------------------------- MODULE SharedBytes ----------------------------
(***************************************************************************)
(* SharedMemoryRegion::read() and write() on a region that several         *)
(* processes have mapped: a range check in size_t, and a memcpy() that     *)
(* takes no lock, so that its bytes come one after the other among those   *)
(* of the others.  The life of the region and its name is IpcObject.       *)
(***************************************************************************)
EXTENDS Naturals, Sequences

CONSTANTS
  Process,     \* one thread each, with a region object of its own
  Backing,     \* bytes of the region its creator has made
  WordSize,    \* a size_t is below it
  MaxWrites    \* bound: write() calls, which also number the data

SizeT == 0 .. WordSize - 1
Byte == 0 .. Backing - 1
Idle == [op |-> "none", offset |-> 0, count |-> 0, data |-> 0]
Unknown == MaxWrites + 1

VARIABLES
  mapped,      \* per process: size_, 0 while nothing is mapped
  memory,      \* per byte of the region: the write() its value comes from
  call,        \* per process: the copy it is in
  copied,      \* per process: the bytes its memcpy() has done
  buffer,      \* per process: what its read() has stored
  writes,      \* history: the write() calls so far
  known,       \* history: per byte, the last write() to it, if it is over and
               \* had the byte for itself
  alone        \* history: per process, the bytes of its copy that no other
               \* write() has shared with it

vars == <<mapped, memory, call, copied, buffer, writes, known, alone>>

Range(offset, count) == {i \in SizeT : offset <= i /\ i < offset + count}
RangeOf(p) == Range(call[p].offset, call[p].count)
Busy(p) == call[p].op # "none"
Copied(p) == copied[p] = call[p].count

TypeOK ==
  /\ mapped \in [Process -> 0 .. Backing]
  /\ memory \in [Byte -> 0 .. MaxWrites]
  /\ \A p \in Process :
       /\ call[p] \in [op : {"none", "read", "write"}, offset : SizeT,
                       count : SizeT, data : 0 .. MaxWrites]
       /\ copied[p] \in 0 .. call[p].count
       /\ buffer[p] \in Seq(0 .. MaxWrites)
       /\ call[p].op = "read" => Len(buffer[p]) = copied[p]
       /\ alone[p] \subseteq RangeOf(p)
  /\ writes \in 0 .. MaxWrites
  /\ known \in [Byte -> 0 .. Unknown]

\* The kernel hands out zeros.
Init ==
  /\ mapped = [p \in Process |-> 0]
  /\ memory = [i \in Byte |-> 0]
  /\ call = [p \in Process |-> Idle]
  /\ copied = [p \in Process |-> 0]
  /\ buffer = [p \in Process |-> <<>>]
  /\ writes = 0
  /\ known = [i \in Byte |-> 0]
  /\ alone = [p \in Process |-> {}]
-----------------------------------------------------------------------------
\* create() maps all of the region; open() what its caller asks for, and no
\* more than there is.
Map(p, size) ==
  /\ ~Busy(p)
  /\ size \in 1 .. Backing
  /\ mapped' = [mapped EXCEPT ![p] = size]
  /\ UNCHANGED <<memory, call, copied, buffer, writes, known, alone>>

Close(p) ==
  /\ ~Busy(p)
  /\ mapped' = [mapped EXCEPT ![p] = 0]
  /\ UNCHANGED <<memory, call, copied, buffer, writes, known, alone>>

\* Mutant of InRange: the end of the range is computed in size_t.
EndInRange(offset, count, size) == (offset + count) % WordSize <= size

InRange(offset, count, size) == offset <= size /\ count <= size - offset

\* isMapped(), and inRange().
Begin(p, op, offset, count, data) ==
  /\ ~Busy(p)
  /\ mapped[p] > 0 /\ InRange(offset, count, mapped[p])
  /\ call' = [call EXCEPT ![p] =
                [op |-> op, offset |-> offset, count |-> count, data |-> data]]
  /\ copied' = [copied EXCEPT ![p] = 0]
  /\ buffer' = [buffer EXCEPT ![p] = <<>>]
  /\ UNCHANGED <<mapped, memory>>

BeginWrite(p, offset, count) ==
  LET mine == Range(offset, count)
      others == UNION {RangeOf(q) : q \in {q \in Process : call[q].op = "write"}}
  IN  /\ writes < MaxWrites
      /\ Begin(p, "write", offset, count, writes + 1)
      /\ writes' = writes + 1
      /\ known' = [i \in Byte |-> IF i \in mine THEN Unknown ELSE known[i]]
      /\ alone' = [q \in Process |-> IF q = p THEN mine \ others ELSE alone[q] \ mine]

BeginRead(p, offset, count) ==
  /\ Begin(p, "read", offset, count, 0)
  /\ alone' = [alone EXCEPT ![p] = {i \in Range(offset, count) : known[i] # Unknown}]
  /\ UNCHANGED <<writes, known>>

\* One byte of a memcpy().
CopyIn(p) ==
  /\ call[p].op = "write" /\ ~Copied(p)
  /\ memory' = [memory EXCEPT ![call[p].offset + copied[p]] = call[p].data]
  /\ copied' = [copied EXCEPT ![p] = @ + 1]
  /\ UNCHANGED <<mapped, call, buffer, writes, known, alone>>

CopyOut(p) ==
  /\ call[p].op = "read" /\ ~Copied(p)
  /\ buffer' = [buffer EXCEPT ![p] = Append(@, memory[call[p].offset + copied[p]])]
  /\ copied' = [copied EXCEPT ![p] = @ + 1]
  /\ UNCHANGED <<mapped, memory, call, writes, known, alone>>

Return(p) ==
  /\ Busy(p) /\ Copied(p)
  /\ call' = [call EXCEPT ![p] = Idle]
  /\ copied' = [copied EXCEPT ![p] = 0]
  /\ buffer' = [buffer EXCEPT ![p] = <<>>]
  /\ alone' = [alone EXCEPT ![p] = {}]
  /\ known' = [i \in Byte |-> IF call[p].op = "write" /\ i \in alone[p]
                              THEN call[p].data ELSE known[i]]
  /\ UNCHANGED <<mapped, memory, writes>>

Next ==
  \E p \in Process :
    \/ \E size \in 1 .. Backing : Map(p, size)
    \/ Close(p) \/ CopyIn(p) \/ CopyOut(p) \/ Return(p)
    \/ \E offset, count \in SizeT : BeginWrite(p, offset, count) \/ BeginRead(p, offset, count)

Spec == Init /\ [][Next]_vars
-----------------------------------------------------------------------------
\* No copy leaves its mapping, whatever offset and count a caller gives: the
\* range check does not wrap around.
CopiesStayInside ==
  \A p \in Process : Busy(p) => call[p].offset + call[p].count <= mapped[p]

\* A read() that returns has, for every byte of its range that no write() has
\* touched meanwhile, the data of the last write() to that byte in any process,
\* if that one had the byte for itself; of the others the code promises nothing.
ReadsSeeWrites ==
  \A p \in Process : (call[p].op = "read" /\ Copied(p)) =>
    \A i \in alone[p] : buffer[p][i - call[p].offset + 1] = known[i]

\* Copies stay in their mapping, and what is read is what was written.
CopiesTrue == TypeOK /\ CopiesStayInside /\ ReadsSeeWrites
=============================================================================
