--------------------------- MODULE ConsoleLogger ---------------------------
(***************************************************************************)
(* elap::logging::ConsoleLogger: threads log through one or more loggers   *)
(* to stdout and stderr while others set the lowest level that is shown.   *)
(* A line is several writes to the stream: the time, the level with the    *)
(* component, and the message with the newline.  Every ServiceApplication  *)
(* owns a logger, and so does the service it runs: each has a mutex of its *)
(* own, and so the writes of two loggers to one stream may mix.  The time  *)
(* is that of the system clock, which may be set at any moment, back too.  *)
(***************************************************************************)
EXTENDS Naturals, Sequences, SequencesExt

CONSTANTS
  Thread, Logger,
  Levels,        \* the levels the threads log with
  Texts,         \* what the configuration says for log.level, in lower case
  MaxLines,      \* bound: the calls of log()
  MaxTime,       \* bound: the clock
  MaxSetBacks,   \* bound: how often the clock is set back
  None

LogLevel == <<"Trace", "Debug", "Info", "Warning", "Error", "Critical">>
Severity(level) == CHOOSE i \in DOMAIN LogLevel : LogLevel[i] = level

LevelOfText == [trace |-> "Trace", debug |-> "Debug", info |-> "Info", warning |-> "Warning",
                warn |-> "Warning", error |-> "Error", critical |-> "Critical",
                fatal |-> "Critical"]
ParseLogLevel(text) == IF text \in DOMAIN LevelOfText THEN LevelOfText[text] ELSE None

StreamOf(level) == IF Severity(level) >= Severity("Error") THEN "stderr" ELSE "stdout"
LastPiece == 3

VARIABLES
  minimum, holder,     \* minimumLevel_ and the owner of mutex_ of each logger
  call,                \* the call of log() each thread is in, and when it was made
  written,             \* how many pieces of its line it has written
  stamp,               \* the moment whose time its line begins with
  stream,              \* what stdout and stderr show
  clock, lines,
  setBacks             \* history: how often the clock has been set back

vars == <<minimum, holder, call, written, stamp, stream, clock, lines, setBacks>>

\* A moment is a time of the clock, and which run of the clock shows it.
Moment == [run : 0 .. MaxSetBacks, time : 0 .. MaxTime]
Now == [run |-> setBacks, time |-> clock]
Origin == [run |-> 0, time |-> 0]

\* m is not after n, nor does it show a later time, but for a clock set back.
InOrder(m, n) == m.run < n.run \/ (m.run = n.run /\ m.time <= n.time)

NoCall == [line |-> 0, logger |-> None, level |-> None, at |-> Origin]

TypeOK ==
  /\ minimum \in [Logger -> Range(LogLevel)]
  /\ holder \in [Logger -> Thread \cup {None}]
  /\ call \in [Thread -> {NoCall} \cup [line : 1 .. MaxLines, logger : Logger, level : Levels,
                                      at : Moment]]
  /\ written \in [Thread -> 0 .. LastPiece]
  /\ stamp \in [Thread -> Moment]
  /\ stream \in [{"stdout", "stderr"} ->
                 Seq([line : 1 .. MaxLines, logger : Logger, piece : 1 .. LastPiece, at : Moment])]
  /\ clock \in 0 .. MaxTime /\ lines \in 0 .. MaxLines /\ setBacks \in 0 .. MaxSetBacks

Init ==
  /\ minimum = [l \in Logger |-> "Info"]
  /\ holder = [l \in Logger |-> None]
  /\ call = [t \in Thread |-> NoCall]
  /\ written = [t \in Thread |-> 0]
  /\ stamp = [t \in Thread |-> Origin]
  /\ stream = [s \in {"stdout", "stderr"} |-> <<>>]
  /\ clock = 0 /\ lines = 0 /\ setBacks = 0
-----------------------------------------------------------------------------
Holds(t) == call[t] # NoCall /\ holder[call[t].logger] = t
Shown(t) == Severity(call[t].level) >= Severity(minimum[call[t].logger])

\* log() is called, and waits for the mutex.
BeginLog(t) ==
  /\ call[t] = NoCall
  /\ lines < MaxLines
  /\ \E l \in Logger, level \in Levels :
       call' = [call EXCEPT ![t] = [line |-> lines + 1, logger |-> l, level |-> level, at |-> Now]]
  /\ lines' = lines + 1
  /\ UNCHANGED <<minimum, holder, written, stamp, stream, clock, setBacks>>

\* Mutant of Lock: there is no mutex.
EnterFreely(t) ==
  /\ call[t] # NoCall
  /\ ~Holds(t)
  /\ holder' = [holder EXCEPT ![call[t].logger] = t]
  /\ UNCHANGED <<minimum, call, written, stamp, stream, clock, lines, setBacks>>

Lock(t) ==
  /\ call[t] # NoCall
  /\ holder[call[t].logger] = None
  /\ holder' = [holder EXCEPT ![call[t].logger] = t]
  /\ UNCHANGED <<minimum, call, written, stamp, stream, clock, lines, setBacks>>

Return(t) ==
  /\ call' = [call EXCEPT ![t] = NoCall]
  /\ written' = [written EXCEPT ![t] = 0]
  /\ stamp' = [stamp EXCEPT ![t] = Origin]
  /\ holder' = [holder EXCEPT ![call[t].logger] = None]

\* Below the minimum: nothing is written.
LeaveOut(t) ==
  /\ Holds(t)
  /\ ~Shown(t)
  /\ Return(t)
  /\ UNCHANGED <<minimum, stream, clock, lines, setBacks>>

\* The time is taken with the mutex held, and is the same for all the line.
StampOf(t) == IF written[t] = 0 THEN Now ELSE stamp[t]

WritePiece(t) ==
  /\ Holds(t)
  /\ Shown(t)
  /\ written[t] < LastPiece
  /\ written' = [written EXCEPT ![t] = @ + 1]
  /\ stamp' = [stamp EXCEPT ![t] = StampOf(t)]
  /\ stream' = [stream EXCEPT ![StreamOf(call[t].level)] =
                  Append(@, [line |-> call[t].line, logger |-> call[t].logger,
                             piece |-> written[t] + 1, at |-> StampOf(t)])]
  /\ UNCHANGED <<minimum, holder, call, clock, lines, setBacks>>

\* The stream is flushed before the mutex is released.
FlushAndReturn(t) ==
  /\ Holds(t)
  /\ written[t] = LastPiece
  /\ Return(t)
  /\ UNCHANGED <<minimum, stream, clock, lines, setBacks>>

SetMinimumLevel(l, level) ==
  /\ holder[l] = None
  /\ minimum' = [minimum EXCEPT ![l] = level]
  /\ UNCHANGED <<holder, call, written, stamp, stream, clock, lines, setBacks>>

\* A service that is initialized sets the level its configuration names; an
\* unknown name leaves it as it is.
ConfigureLogger(l) ==
  \E text \in Texts :
    ParseLogLevel(text) # None /\ SetMinimumLevel(l, ParseLogLevel(text))

\* The clock goes on, or somebody sets it, forward or back.
SetClock(time) ==
  /\ time # clock
  /\ time < clock => setBacks < MaxSetBacks
  /\ clock' = time
  /\ setBacks' = IF time < clock THEN setBacks + 1 ELSE setBacks
  /\ UNCHANGED <<minimum, holder, call, written, stamp, stream, lines>>

LogStep(t) == Lock(t) \/ LeaveOut(t) \/ WritePiece(t) \/ FlushAndReturn(t)

Next ==
  \/ \E t \in Thread : BeginLog(t) \/ LogStep(t)
  \/ \E l \in Logger : ConfigureLogger(l)
  \/ \E time \in 0 .. MaxTime : SetClock(time)

Spec == Init /\ [][Next]_vars
-----------------------------------------------------------------------------
\* Of the first n pieces of q, the j-th is the last one of the logger.
LastOf(q, n, logger, j) ==
  /\ j \in 1 .. n
  /\ q[j].logger = logger
  /\ \A k \in 1 .. n : k > j => q[k].logger # logger

\* The i-th piece of q begins a line or goes on with one, whatever pieces other
\* loggers have written between it and the one its own logger wrote before.
GoesOn(q, i) ==
  /\ \A j \in 1 .. (i - 1) : LastOf(q, i - 1, q[i].logger, j) =>
       \/ q[i].piece = 1 /\ q[j].piece = LastPiece
       \/ q[i].line = q[j].line /\ q[i].piece = q[j].piece + 1 /\ q[i].at = q[j].at
  /\ q[i].piece = 1 \/ \E j \in 1 .. (i - 1) : LastOf(q, i - 1, q[i].logger, j)

\* Whichever threads log at once, the lines of a logger do not mix: each stands
\* whole in its stream, cut by the lines of the other loggers at most.
LinesWhole == \A s \in DOMAIN stream : \A i \in DOMAIN stream[s] : GoesOn(stream[s], i)

\* The lines of a logger are in the order of their times, unless the clock was
\* set back, and a line's time is not that of a moment before it was logged.
TimesInOrder ==
  /\ \A s \in DOMAIN stream : \A i, j \in DOMAIN stream[s] :
       i < j /\ stream[s][i].logger = stream[s][j].logger
         => InOrder(stream[s][i].at, stream[s][j].at)
  /\ \A t \in Thread : written[t] > 0 => InOrder(call[t].at, stamp[t])

\* Once setMinimumLevel() has returned, no line below the level is written, not
\* even the rest of one that another thread had begun.
NothingBelowMinimum == \A t \in Thread : written[t] > 0 => Shown(t)

\* The log is readable whoever writes it and whenever.
LogReadable == TypeOK /\ LinesWhole /\ TimesInOrder /\ NothingBelowMinimum
=============================================================================
