------------------------------ MODULE MemInfo ------------------------------
(***************************************************************************)
(* HealthMonitor::parseMemInfo() on the text of /proc/meminfo, one round   *)
(* of its loop per step, and MemoryInfo::usedPercent() on the result.  The *)
(* loop reads key, value and unit as three words: a line without a unit,   *)
(* such as the kernel's HugePages_Total, shifts all that follow by one.    *)
(***************************************************************************)
EXTENDS Integers, Sequences

CONSTANTS
  Key,         \* of the lines of the file, "MemTotal:" and "MemAvailable:" among them
  Value,       \* their numbers
  MaxLines,    \* bound: the length of the file
  Modulus      \* the unsigned integers are those below it

Line == [key : Key, value : Value, unit : BOOLEAN]
Texts == UNION {[1 .. n -> Line] : n \in 0 .. MaxLines}

NotFound == -1

VARIABLES
  lines,               \* the file
  position,            \* the word the stream is at
  total, available,    \* NotFound, or the value found last
  ended                \* the loop is over

vars == <<lines, position, total, available, ended>>

TypeOK ==
  /\ lines \in Texts
  /\ position \in [line : 1 .. Len(lines) + 1, word : 1 .. 3]
  /\ total \in Value \cup {NotFound}
  /\ available \in Value \cup {NotFound}
  /\ ended \in BOOLEAN

\* The words of a line are its key, its number and its unit, if it has one.
WordsOf(i) == IF lines[i].unit THEN 3 ELSE 2
WordAt(i, w) == [line |-> i, word |-> w]
After(p) == IF p.word < WordsOf(p.line) THEN WordAt(p.line, p.word + 1) ELSE WordAt(p.line + 1, 1)
IsWord(p) == p.line <= Len(lines)
IsNumber(p) == IsWord(p) /\ p.word = 2

Init ==
  /\ lines \in Texts
  /\ position = WordAt(1, 1)
  /\ total = NotFound
  /\ available = NotFound
  /\ ended = FALSE

\* stream >> key >> value >> unit
CanExtract ==
  /\ IsWord(position)
  /\ IsNumber(After(position))
  /\ IsWord(After(After(position)))

\* The word that is read as a key is this one.
KeyIs(name) == position.word = 1 /\ lines[position.line].key = name
ValueRead == lines[After(position).line].value

ReadEntry ==
  /\ ~ended
  /\ CanExtract
  /\ total' = IF KeyIs("MemTotal:") THEN ValueRead ELSE total
  /\ available' = IF KeyIs("MemAvailable:") THEN ValueRead ELSE available
  /\ position' = After(After(After(position)))
  /\ UNCHANGED <<lines, ended>>

EndLoop ==
  /\ ~ended
  /\ ~CanExtract
  /\ ended' = TRUE
  /\ UNCHANGED <<lines, position, total, available>>

Next == ReadEntry \/ EndLoop

Spec == Init /\ [][Next]_vars
-----------------------------------------------------------------------------
Parsed == ended /\ total # NotFound /\ available # NotFound /\ total # 0

UsedPercent(all, free) ==
  IF all = 0 \/ free > all THEN 0 ELSE (((all - free) % Modulus) * 100) \div all

\* The lines up to the first one without a unit: that one is still read when
\* the next line's key can stand for its unit.
Readable ==
  {i \in DOMAIN lines : /\ \A j \in 1 .. i - 1 : lines[j].unit
                        /\ lines[i].unit \/ i < Len(lines)}

LastValue(key) ==
  LET at == {i \in Readable : lines[i].key = key}
  IN  IF at = {} THEN NotFound ELSE lines[CHOOSE i \in at : \A j \in at : j <= i].value

\* A file the parser accepts is not misread, wherever a line without a unit
\* shifts the words: the values are those of their lines up to there, and what
\* stands in the wrong place is never taken for a value.
NotMisread ==
  ended => /\ total = LastValue("MemTotal:")
           /\ available = LastValue("MemAvailable:")

\* Whatever was parsed, the share of memory in use is a percentage.
PercentOfTotal == Parsed => UsedPercent(total, available) \in 0 .. 100

\* What the parser reports is true to the file.
MemoryTrue == TypeOK /\ NotMisread /\ PercentOfTotal
=============================================================================
