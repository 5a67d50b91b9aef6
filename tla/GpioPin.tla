------------------------------ MODULE GpioPin ------------------------------
(***************************************************************************)
(* elap::device::GpioPin: one pin of the sysfs GPIO interface, as the      *)
(* processes that have a GpioPin for its number use it.  The kernel keeps  *)
(* one flag, whether the pin is exported (its directory exists); every     *)
(* access to a sysfs file is a step.  A value is written with `stream <<   *)
(* value` and the stream is tested before it is flushed, so a write the    *)
(* kernel refuses (the pin is exported already, or has no such number)     *)
(* looks like one it took.  Only a file that cannot be opened is an error. *)
(* Others, by hand or with other programs, export and unexport the pin     *)
(* whenever they like.                                                     *)
(***************************************************************************)
CONSTANT Process

VARIABLES
  exported,       \* sysfs: the pin's directory exists
  pinState,       \* GpioPin::state_ of each process
  exportedHere,   \* GpioPin::exportedByThisInstance_
  pinAt,          \* where each process is in open()
  pinUsers,       \* history: processes that are in open() or have not closed
  overlapped,     \* history: processes whose use of the pin met another's
  maker,          \* history: the process that made the export there is, unless
                  \* it was killed since or could not write "unexport"
  present         \* history: who used the pin when that export was made

exportVars == <<exported, maker, present>>
pinVars == <<exportVars, pinState, exportedHere, pinAt, pinUsers, overlapped>>

DeviceStates == {"Closed", "Open", "Failed"}
OpenSteps == {"exists", "export", "wait", "direction", "undo"}

PinTypeOK ==
  /\ exported \in BOOLEAN
  /\ pinState \in [Process -> DeviceStates]
  /\ exportedHere \in [Process -> BOOLEAN]
  /\ pinAt \in [Process -> {"idle"} \cup OpenSteps]
  /\ pinUsers \in SUBSET Process
  /\ overlapped \in SUBSET Process
  /\ maker \in Process \cup {"nobody"}
  /\ present \in SUBSET Process

\* The pin may be exported before any program runs.
PinInit ==
  /\ exported \in BOOLEAN
  /\ pinState = [p \in Process |-> "Closed"]
  /\ exportedHere = [p \in Process |-> FALSE]
  /\ pinAt = [p \in Process |-> "idle"]
  /\ pinUsers = {}
  /\ overlapped = {}
  /\ maker = "nobody"
  /\ present = {}
-----------------------------------------------------------------------------
PinGoto(p, where) == pinAt' = [pinAt EXCEPT ![p] = where]

Enter(p) ==
  /\ pinUsers' = pinUsers \cup {p}
  /\ overlapped' = IF pinUsers \subseteq {p} THEN overlapped
                                             ELSE overlapped \cup pinUsers'

Leave(p) ==
  /\ pinUsers' = pinUsers \ {p}
  /\ overlapped' = overlapped \ {p}
  /\ present' = present \ {p}

KeepUsers == UNCHANGED <<pinUsers, overlapped, present>>

\* The pin's directory appears, on behalf of "by".
Appears(by) ==
  /\ ~exported
  /\ exported' = TRUE
  /\ maker' = by
  /\ present' = pinUsers

OutsideExports ==
  /\ Appears("nobody")
  /\ UNCHANGED <<pinState, exportedHere, pinAt, pinUsers, overlapped>>

\* Whoever uses the pin has met another of its users.
OutsideUnexports ==
  /\ exported
  /\ exported' = FALSE
  /\ maker' = "nobody"
  /\ overlapped' = overlapped \cup pinUsers
  /\ UNCHANGED <<pinState, exportedHere, pinAt, pinUsers, present>>

\* Mutant of PinFails: state_ stays as it was.
PinFailsQuietly(p) ==
  /\ UNCHANGED pinState
  /\ PinGoto(p, "idle")
  /\ IF exportedHere'[p] THEN KeepUsers ELSE Leave(p)

\* open() has failed.  A pin that is open already stays one this process uses.
PinFails(p) ==
  /\ pinState' = [pinState EXCEPT ![p] = "Failed"]
  /\ PinGoto(p, "idle")
  /\ IF exportedHere'[p] THEN KeepUsers ELSE Leave(p)

BeginOpenPin(p) ==
  /\ PinGoto(p, "exists")
  /\ Enter(p)
  /\ UNCHANGED <<exportVars, pinState, exportedHere>>

\* Mutant of SeePin: the pin is exported whether it is there or not.
SeePinNot(p) ==
  /\ pinAt[p] = "exists"
  /\ PinGoto(p, "export")
  /\ UNCHANGED <<exportVars, pinState, exportedHere, pinUsers, overlapped>>

SeePin(p) ==
  /\ pinAt[p] = "exists"
  /\ PinGoto(p, IF exported THEN "direction" ELSE "export")
  /\ UNCHANGED <<exportVars, pinState, exportedHere, pinUsers, overlapped>>

\* The export file takes the number; the kernel may refuse, which nobody sees.
Export(p) ==
  /\ pinAt[p] = "export"
  /\ Appears(p) \/ UNCHANGED exportVars
  /\ exportedHere' = [exportedHere EXCEPT ![p] = TRUE]
  /\ PinGoto(p, "wait")
  /\ UNCHANGED <<pinState, pinUsers, overlapped>>

\* The export file does not open.
ExportFails(p) ==
  /\ pinAt[p] = "export"
  /\ UNCHANGED <<exported, maker, exportedHere>>
  /\ PinFails(p)

PinAppears(p) ==
  /\ pinAt[p] = "wait"
  /\ exported
  /\ PinGoto(p, "direction")
  /\ UNCHANGED <<exportVars, pinState, exportedHere, pinUsers, overlapped>>

\* 250 ms have passed without the directory.
PinDoesNotAppear(p) ==
  /\ pinAt[p] = "wait"
  /\ ~exported
  /\ PinGoto(p, "undo")
  /\ UNCHANGED <<exportVars, pinState, exportedHere, pinUsers, overlapped>>

\* The direction file is gone with the pin, and may be closed to this user.
DirectionWritten(p) ==
  /\ pinAt[p] = "direction"
  /\ exported
  /\ pinState' = [pinState EXCEPT ![p] = "Open"]
  /\ PinGoto(p, "idle")
  /\ UNCHANGED <<exportVars, exportedHere, pinUsers, overlapped>>

\* Mutant of DirectionFails: open() returns with the pin exported, and forgets it.
DirectionFailsDirtily(p) ==
  /\ pinAt[p] = "direction"
  /\ exportedHere' = [exportedHere EXCEPT ![p] = FALSE]
  /\ PinFails(p)
  /\ UNCHANGED <<exported, maker>>

DirectionFails(p) ==
  /\ pinAt[p] = "direction"
  /\ UNCHANGED <<exported, maker, exportedHere>>
  /\ IF exportedHere[p]
     THEN /\ PinGoto(p, "undo")
          /\ KeepUsers /\ UNCHANGED pinState
     ELSE PinFails(p)

\* The export p made, if it is the one there is, loses its maker.
Strand(p) == maker' = IF maker = p THEN "nobody" ELSE maker

\* "unexport" is written, or does not even open; its result is not looked at.
Unexport(p) ==
  /\ exportedHere' = [exportedHere EXCEPT ![p] = FALSE]
  /\ \/ exported' = FALSE /\ maker' = "nobody"
     \/ UNCHANGED exported /\ Strand(p)

UndoExport(p) ==
  /\ pinAt[p] = "undo"
  /\ Unexport(p)
  /\ PinFails(p)

ClosePin(p) ==
  /\ IF exportedHere[p] THEN Unexport(p)
                        ELSE UNCHANGED <<exported, maker, exportedHere>>
  /\ pinState' = [pinState EXCEPT ![p] = "Closed"]
  /\ Leave(p)
  /\ UNCHANGED pinAt

\* The kernel keeps the export of a process that is killed.
PinDies(p) ==
  /\ Strand(p)
  /\ pinState' = [pinState EXCEPT ![p] = "Closed"]
  /\ exportedHere' = [exportedHere EXCEPT ![p] = FALSE]
  /\ PinGoto(p, "idle")
  /\ Leave(p)
  /\ UNCHANGED exported

PinStep(p) ==
  \/ SeePin(p) \/ Export(p) \/ ExportFails(p)
  \/ PinAppears(p) \/ PinDoesNotAppear(p)
  \/ DirectionWritten(p) \/ DirectionFails(p) \/ UndoExport(p)
=============================================================================
