------------------------------ MODULE PinValue ------------------------------
(***************************************************************************)
(* GpioPin::writeValue() and readValue() of the processes that share one   *)
(* sysfs pin.  open() and close(), whose steps GpioPin models, are one     *)
(* step each.  A value is handed to the kernel when the stream is closed,  *)
(* after the code has asked whether the write failed: the kernel refuses   *)
(* it when the pin is an input, or when it is unexported by then.  So is   *)
(* the direction open() writes, which the kernel or its driver may refuse. *)
(* Others may do with the sysfs files as they like.                        *)
(***************************************************************************)
EXTENDS FiniteSets

CONSTANTS
  Process,
  Direction      \* of each process's GpioPin: "in" or "out"

VARIABLES
  exists, direction, value,     \* sysfs: the pin's directory and two files
  opened, exporter,             \* processes whose state_ is Open; that exported
  call,                         \* the call each process is in
  answer,                       \* what its last call returned
  shared,                       \* history: others used the pin meanwhile
  refused                       \* history: open() left the pin the wrong way

vars == <<exists, direction, value, opened, exporter, call, answer, shared, refused>>

Levels == {"0", "1"}
Idle == [op |-> "none", level |-> "0", file |-> FALSE]
NoAnswer == [ok |-> FALSE, level |-> "0"]

TypeOK ==
  /\ exists \in BOOLEAN /\ direction \in {"in", "out"} /\ value \in Levels
  /\ opened \in SUBSET Process /\ exporter \in SUBSET Process
  /\ call \in [Process -> [op : {"none", "write", "read"}, level : Levels, file : BOOLEAN]]
  /\ answer \in [Process -> [ok : BOOLEAN, level : Levels]]
  /\ shared \in SUBSET Process /\ refused \in SUBSET Process
  /\ \A p \in Process : call[p].op = "write" => Direction[p] = "out"
  /\ \A p \in Process : ~answer[p].ok => answer[p].level = "0"

Init ==
  /\ exists \in BOOLEAN /\ direction \in {"in", "out"} /\ value \in Levels
  /\ opened = {} /\ exporter = {}
  /\ call = [p \in Process |-> Idle]
  /\ answer = [p \in Process |-> NoAnswer]
  /\ shared = {} /\ refused = {}
-----------------------------------------------------------------------------
\* An output starts low.
DirectionTaken(p) ==
  /\ direction' = Direction[p]
  /\ value' \in IF Direction[p] = "out" THEN {"0"} ELSE Levels
  /\ UNCHANGED refused

DirectionRefused(p) ==
  /\ UNCHANGED <<direction, value>>
  /\ refused' = IF direction = Direction[p] THEN refused ELSE refused \cup {p}

\* Mutant of Open: the direction is written to a new pin only.
OpenAsItIs(p) ==
  /\ p \notin opened
  /\ exists' = TRUE
  /\ exporter' = IF exists THEN exporter ELSE exporter \cup {p}
  /\ IF exists THEN UNCHANGED <<direction, value, refused>>
               ELSE DirectionTaken(p) \/ DirectionRefused(p)
  /\ opened' = opened \cup {p}
  /\ shared' = IF opened = {} THEN shared ELSE shared \cup opened'
  /\ UNCHANGED <<call, answer>>

\* open() returns true; that the direction was refused it does not see.
Open(p) ==
  /\ p \notin opened
  /\ exists' = TRUE
  /\ exporter' = IF exists THEN exporter ELSE exporter \cup {p}
  /\ DirectionTaken(p) \/ DirectionRefused(p)
  /\ opened' = opened \cup {p}
  /\ shared' = IF opened = {} THEN shared ELSE shared \cup opened'
  /\ UNCHANGED <<call, answer>>

Close(p) ==
  /\ p \in opened
  /\ call[p] = Idle
  /\ exists' = (exists /\ p \notin exporter)
  /\ exporter' = exporter \ {p}
  /\ opened' = opened \ {p}
  /\ shared' = shared \ {p}
  /\ refused' = refused \ {p}
  /\ UNCHANGED <<direction, value, call, answer>>

\* What drives an input may change it.
InputChanges ==
  /\ exists /\ direction = "in"
  /\ value' \in Levels \ {value}
  /\ UNCHANGED <<exists, direction, opened, exporter, call, answer, shared, refused>>

\* Others export or unexport the pin, turn it or set it.
OutsideUses ==
  /\ exists' \in BOOLEAN /\ direction' \in {"in", "out"} /\ value' \in Levels
  /\ shared' = shared \cup opened
  /\ UNCHANGED <<opened, exporter, call, answer, refused>>

Begin(p, c) ==
  /\ p \in opened
  /\ call[p] = Idle
  /\ call' = [call EXCEPT ![p] = c]
  /\ answer' = [answer EXCEPT ![p] = NoAnswer]
  /\ UNCHANGED <<exists, direction, value, opened, exporter, shared, refused>>

BeginWrite(p) ==
  /\ Direction[p] = "out"
  /\ \E v \in Levels : Begin(p, [op |-> "write", level |-> v, file |-> FALSE])

BeginRead(p) == Begin(p, [op |-> "read", level |-> "0", file |-> FALSE])

Return(p, a) ==
  /\ call' = [call EXCEPT ![p] = Idle]
  /\ answer' = [answer EXCEPT ![p] = a]
  /\ UNCHANGED <<exists, direction, opened, exporter, shared, refused>>

OpenValueFile(p) ==
  /\ call[p].op # "none" /\ ~call[p].file
  /\ exists
  /\ call' = [call EXCEPT ![p].file = TRUE]
  /\ UNCHANGED <<exists, direction, value, opened, exporter, answer, shared, refused>>

NoValueFile(p) ==
  /\ call[p].op # "none" /\ ~call[p].file
  /\ ~exists
  /\ Return(p, NoAnswer)
  /\ UNCHANGED value

\* The text is in the stream's buffer when the code asks: true, whatever the
\* kernel says when the stream is closed.
WriteReturns(p) ==
  /\ call[p].op = "write" /\ call[p].file
  /\ value' = IF exists /\ direction = "out" THEN call[p].level ELSE value
  /\ Return(p, [ok |-> TRUE, level |-> "0"])

\* A pin that is gone reads as no level at all.
ReadReturns(p) ==
  /\ call[p].op = "read" /\ call[p].file
  /\ Return(p, IF exists THEN [ok |-> TRUE, level |-> value] ELSE NoAnswer)
  /\ UNCHANGED value

Next ==
  \/ \E p \in Process :
       \/ Open(p) \/ Close(p) \/ BeginWrite(p) \/ BeginRead(p)
       \/ OpenValueFile(p) \/ NoValueFile(p) \/ WriteReturns(p) \/ ReadReturns(p)
  \/ InputChanges \/ OutsideUses

Spec == Init /\ [][Next]_vars
-----------------------------------------------------------------------------
Returned(p) == call[p].op = "write" /\ call'[p] = Idle /\ answer'[p].ok

\* A write that returned true has set the pin, as long as nobody else used the
\* pin while this process had it, and open() could turn the pin its way: a pin
\* of one process alone is neither turned round nor taken away.
LoneWriteStep ==
  \A p \in Process :
    Returned(p) /\ p \notin shared \cup refused => value' = call[p].level

LoneWritesTakeEffect == [][LoneWriteStep]_vars
=============================================================================
