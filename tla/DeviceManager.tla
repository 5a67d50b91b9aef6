--------------------------- MODULE DeviceManager ---------------------------
(***************************************************************************)
(* elap::device::DeviceManager: in each process one manager over at most a *)
(* GpioPin, for the one pin all the processes name, and a FileDevice.      *)
(***************************************************************************)
EXTENDS Naturals, Sequences, GpioPin

VARIABLES
  fileState, handle,    \* see FileDevice
  devices,    \* DeviceManager::devices_ of each process, in registration order
  at,         \* the call each manager is in
  cur,        \* the device it is at
  result,     \* what the last openAll() returned
  reached     \* how many devices that openAll() opened or tried to

INSTANCE FileDevice

fileVars == <<fileState, handle>>
managerVars == <<devices, at, cur, result, reached>>
vars == <<pinVars, fileVars, managerVars>>

Device == {"pin", "file"}

StateOf(p, d) == IF d = "pin" THEN pinState[p] ELSE fileState[p]

Registered(p) == {devices[p][i] : i \in DOMAIN devices[p]}

TypeOK ==
  /\ PinTypeOK
  /\ FileTypeOK
  /\ \A p \in Process :
       /\ devices[p] \in Seq(Device)
       /\ Len(devices[p]) = 2 => devices[p][1] # devices[p][2]
       /\ Len(devices[p]) <= 2
       /\ at[p] \in {"idle", "opening", "pin", "rollback", "closing"}
       /\ cur[p] \in 0 .. Len(devices[p]) + 1
       /\ result[p] \in {"none", "true", "false"}
       /\ reached[p] \in 0 .. Len(devices[p])
       /\ pinAt[p] # "idle" => at[p] = "pin"

Init ==
  /\ PinInit
  /\ FileInit
  /\ devices = [p \in Process |-> <<>>]
  /\ at = [p \in Process |-> "idle"]
  /\ cur = [p \in Process |-> 0]
  /\ result = [p \in Process |-> "none"]
  /\ reached = [p \in Process |-> 0]
-----------------------------------------------------------------------------
Moves(p, where, i) ==
  /\ at' = [at EXCEPT ![p] = where]
  /\ cur' = [cur EXCEPT ![p] = i]

Result(p, outcome, n) ==
  /\ result' = [result EXCEPT ![p] = outcome]
  /\ reached' = [reached EXCEPT ![p] = n]

KeepResult == UNCHANGED <<devices, result, reached>>

AtDevice(p, d) == cur[p] \in DOMAIN devices[p] /\ devices[p][cur[p]] = d

\* add(): a second device of the same name is refused.
Add(p, d) ==
  /\ at[p] = "idle"
  /\ d \notin Registered(p)
  /\ devices' = [devices EXCEPT ![p] = Append(@, d)]
  /\ UNCHANGED <<pinVars, fileVars, at, cur, result, reached>>

OpenAll(p) ==
  /\ at[p] = "idle"
  /\ Moves(p, "opening", 1)
  /\ Result(p, "none", 0)
  /\ UNCHANGED <<pinVars, fileVars, devices>>

OpensPin(p) ==
  /\ at[p] = "opening"
  /\ AtDevice(p, "pin")
  /\ BeginOpenPin(p)
  /\ Moves(p, "pin", cur[p])
  /\ KeepResult
  /\ UNCHANGED fileVars

PinProceeds(p) ==
  /\ PinStep(p)
  /\ UNCHANGED <<fileVars, managerVars>>

PinReturns(p) ==
  /\ at[p] = "pin"
  /\ pinAt[p] = "idle"
  /\ IF pinState[p] = "Open" THEN Moves(p, "opening", cur[p] + 1) /\ UNCHANGED reached
     ELSE Moves(p, "rollback", cur[p] - 1) /\ reached' = [reached EXCEPT ![p] = cur[p]]
  /\ UNCHANGED <<pinVars, fileVars, devices, result>>

OpensFile(p) ==
  /\ at[p] = "opening"
  /\ AtDevice(p, "file")
  /\ OpenFile(p)
  /\ Moves(p, "opening", cur[p] + 1)
  /\ KeepResult
  /\ UNCHANGED pinVars

FileRefuses(p) ==
  /\ at[p] = "opening"
  /\ AtDevice(p, "file")
  /\ OpenFileFails(p)
  /\ Moves(p, "rollback", cur[p] - 1)
  /\ reached' = [reached EXCEPT ![p] = cur[p]]
  /\ UNCHANGED <<pinVars, devices, result>>

OpenAllSucceeds(p) ==
  /\ at[p] = "opening"
  /\ cur[p] > Len(devices[p])
  /\ Moves(p, "idle", 0)
  /\ Result(p, "true", Len(devices[p]))
  /\ UNCHANGED <<pinVars, fileVars, devices>>

CloseCurrent(p) ==
  \/ AtDevice(p, "pin") /\ ClosePin(p) /\ UNCHANGED fileVars
  \/ AtDevice(p, "file") /\ CloseFile(p) /\ UNCHANGED pinVars

\* Mutant of RollBackNext: closes every device but the first.
RollBackNextButFirst(p) ==
  /\ at[p] = "rollback"
  /\ \/ cur[p] > 1 /\ CloseCurrent(p)
     \/ cur[p] = 1 /\ UNCHANGED <<pinVars, fileVars>>
  /\ Moves(p, "rollback", cur[p] - 1)
  /\ KeepResult

\* The devices this openAll() had opened are closed, the last one first.
RollBackNext(p) ==
  /\ at[p] = "rollback"
  /\ CloseCurrent(p)
  /\ Moves(p, "rollback", cur[p] - 1)
  /\ KeepResult

OpenAllFails(p) ==
  /\ at[p] = "rollback"
  /\ cur[p] = 0
  /\ Moves(p, "idle", 0)
  /\ Result(p, "false", reached[p])
  /\ UNCHANGED <<pinVars, fileVars, devices>>

CloseAll(p) ==
  /\ at[p] = "idle"
  /\ Moves(p, "closing", 1)
  /\ Result(p, "none", 0)
  /\ UNCHANGED <<pinVars, fileVars, devices>>

CloseNext(p) ==
  /\ at[p] = "closing"
  /\ CloseCurrent(p)
  /\ Moves(p, "closing", cur[p] + 1)
  /\ KeepResult

CloseAllReturns(p) ==
  /\ at[p] = "closing"
  /\ cur[p] > Len(devices[p])
  /\ Moves(p, "idle", 0)
  /\ KeepResult
  /\ UNCHANGED <<pinVars, fileVars>>

\* The process is killed and started again.
Crash(p) ==
  /\ PinDies(p)
  /\ FileDies(p)
  /\ devices' = [devices EXCEPT ![p] = <<>>]
  /\ Moves(p, "idle", 0)
  /\ Result(p, "none", 0)
-----------------------------------------------------------------------------
ManagerStep(p) ==
  \/ OpensPin(p) \/ PinProceeds(p) \/ PinReturns(p)
  \/ OpensFile(p) \/ FileRefuses(p) \/ OpenAllSucceeds(p)
  \/ RollBackNext(p) \/ OpenAllFails(p)
  \/ CloseNext(p) \/ CloseAllReturns(p)

\* Others export and unexport the pin.
OutsideStep ==
  /\ OutsideExports \/ OutsideUnexports
  /\ UNCHANGED <<fileVars, managerVars>>

ProcessStep(p) ==
  \/ \E d \in Device : Add(p, d)
  \/ OpenAll(p) \/ CloseAll(p) \/ Crash(p)
  \/ ManagerStep(p)

Next == OutsideStep \/ \E p \in Process : ProcessStep(p)

Spec == Init /\ [][Next]_vars
-----------------------------------------------------------------------------
\* When openAll() has returned false, every device before the one that failed
\* is closed again and that one is Failed; when it has returned true, all are
\* open.  In particular nothing stays open when nothing was open before.
AllOrNothing ==
  \A p \in Process :
    /\ at[p] = "idle" /\ result[p] = "true" =>
         \A i \in 1 .. reached[p] : StateOf(p, devices[p][i]) = "Open"
    /\ at[p] = "idle" /\ result[p] = "false" =>
         \A i \in 1 .. reached[p] :
           StateOf(p, devices[p][i]) = IF i = reached[p] THEN "Failed" ELSE "Closed"

\* The same, with the types and, in FileTypeOK, no descriptor outside Open.
DevicesSound == TypeOK /\ AllOrNothing

\* The export a process made goes when the process has closed the pin or
\* failed to open it, whichever step of open() failed and however the open()
\* and close() of two processes and the exports of others interleave: as long
\* as it is there, its maker uses the pin and knows that it is to take it back.
\* Excepted is the export of a process that was killed or could not write
\* "unexport", which close() does not report.
ExportsBalanced ==
  exported /\ maker # "nobody" => maker \in pinUsers /\ exportedHere[maker]

\* The export a process takes away, whoever made it, was made while that
\* process was using the pin: one it found when it came, of an operator or of
\* another program, it leaves, whatever fails.  (One that others make between
\* open()'s exists() and its write to "export" it takes for its own.)
PriorExportsKept ==
  [][\A p \in Process :
       exported /\ ~exported' /\ exportedHere[p] /\ ~exportedHere'[p] => p \in present]_vars

\* A process that holds the pin open can use it, as long as no other process
\* uses the same pin meanwhile and nobody unexports it by hand: the first to
\* export it unexports it under the others when it closes.
OpenPinsExist ==
  \A p \in Process : pinState[p] = "Open" /\ p \notin overlapped => exported
=============================================================================
