---------------------------- MODULE DeviceProofs ----------------------------
(***************************************************************************)
(* Device managers over a shared pin, the moves of objects that own a      *)
(* descriptor, the value of a pin and the bytes of a character device, for *)
(* any number of processes, objects, descriptors, names, buffers and       *)
(* bytes.                                                                  *)
(***************************************************************************)
EXTENDS MCDeviceManager, Naturals, Sequences, SequenceTheorems, TLAPS

(* The managers.                                                           *)

ManagerTypes ==
  /\ PinTypeOK /\ FileTypeOK
  /\ devices \in [Process -> Seq(Device)]
  /\ at \in [Process -> {"idle", "opening", "pin", "rollback", "closing"}]
  /\ cur \in [Process -> Nat]
  /\ result \in [Process -> {"none", "true", "false"}]
  /\ reached \in [Process -> Nat]

AllAre(p, first, last, state) ==
  \A i \in first .. last : StateOf(p, devices[p][i]) = state

\* Two devices at most, since no two have one name.
Distinct(p) ==
  /\ Len(devices[p]) <= 2
  /\ \A i, j \in DOMAIN devices[p] : devices[p][i] = devices[p][j] => i = j

\* What the loops of openAll() and its rollback have done when they are at cur.
Progress(p) ==
  /\ cur[p] <= Len(devices[p]) + 1 /\ reached[p] <= Len(devices[p])
  /\ pinAt[p] # "idle" => at[p] = "pin"
  /\ at[p] # "idle" => result[p] = "none"
  /\ at[p] = "closing" => cur[p] >= 1
  /\ at[p] \in {"opening", "pin"} => cur[p] >= 1 /\ AllAre(p, 1, cur[p] - 1, "Open")
  /\ at[p] = "pin" =>
       /\ AtDevice(p, "pin")
       /\ pinAt[p] = "idle" => pinState[p] \in {"Open", "Failed"}
  /\ at[p] = "rollback" =>
       /\ cur[p] < reached[p]
       /\ AllAre(p, 1, cur[p], "Open")
       /\ AllAre(p, cur[p] + 1, reached[p] - 1, "Closed")
       /\ StateOf(p, devices[p][reached[p]]) = "Failed"

\* AllOrNothing, for one process.
Outcome(p) ==
  /\ at[p] = "idle" /\ result[p] = "true" => AllAre(p, 1, reached[p], "Open")
  /\ at[p] = "idle" /\ result[p] = "false" =>
       /\ reached[p] >= 1
       /\ AllAre(p, 1, reached[p] - 1, "Closed")
       /\ StateOf(p, devices[p][reached[p]]) = "Failed"

ManagerOK(p) == Distinct(p) /\ Progress(p) /\ Outcome(p)

ManagerInv == ManagerTypes /\ \A p \in Process : ManagerOK(p)

\* Whoever is in open(), holds the pin open or has exported it is a user, and
\* users that share the pin know it.  The maker of an export knows that it is
\* to take it back, and whoever is to take it back was there when it was made.
PinInv ==
  /\ \A p \in Process : pinAt[p] # "idle" \/ pinState[p] = "Open" \/ exportedHere[p] => p \in pinUsers
  /\ \A p, q \in pinUsers : p # q => p \in overlapped
  /\ \A p \in Process : pinAt[p] \in {"wait", "undo"} => exportedHere[p]
  /\ OpenPinsExist
  /\ exported /\ maker # "nobody" => exportedHere[maker]
  /\ \A p \in Process : exported /\ (exportedHere[p] \/ pinAt[p] = "export") => p \in present
-----------------------------------------------------------------------------
LEMMA PinStepTypes ==
  ASSUME PinTypeOK, NEW p \in Process, PinStep(p)
  PROVE  PinTypeOK'
<1>. USE DEF PinTypeOK, PinGoto, DeviceStates, OpenSteps, exportVars
<1>1. CASE SeePin(p) \/ Export(p) \/ PinAppears(p) \/ PinDoesNotAppear(p) \/ DirectionWritten(p)
  BY <1>1 DEF SeePin, Export, Appears, PinAppears, PinDoesNotAppear, DirectionWritten
<1>2. CASE ExportFails(p) \/ DirectionFails(p)
  BY <1>2 DEF ExportFails, DirectionFails, PinFails, KeepUsers, Leave
<1>3. CASE UndoExport(p)
  BY <1>3 DEF UndoExport, Unexport, Strand, PinFails, KeepUsers, Leave
<1>. QED BY <1>1, <1>2, <1>3 DEF PinStep

LEMMA CloseCurrentTypes ==
  ASSUME PinTypeOK, FileTypeOK, NEW p \in Process, CloseCurrent(p)
  PROVE  PinTypeOK' /\ FileTypeOK'
<1>1. CASE ClosePin(p) /\ UNCHANGED fileVars
  BY <1>1 DEF ClosePin, Unexport, Strand, Leave, PinTypeOK, FileTypeOK, fileVars, DeviceStates
<1>2. CASE CloseFile(p) /\ UNCHANGED pinVars
  BY <1>2 DEF CloseFile, PinTypeOK, FileTypeOK, pinVars, exportVars
<1>. QED BY <1>1, <1>2 DEF CloseCurrent

LEMMA ManagerInitOK == Init => ManagerInv /\ PinInv
<1>. SUFFICES ASSUME Init PROVE ManagerInv /\ PinInv
  OBVIOUS
<1>1. ManagerTypes
  <2>1. PinTypeOK /\ FileTypeOK
    BY DEF Init, PinInit, FileInit, PinTypeOK, FileTypeOK, DeviceStates
  <2>2. <<>> \in Seq(Device)
    OBVIOUS
  <2>. QED BY <2>1, <2>2 DEF Init, ManagerTypes
<1>2. ASSUME NEW p \in Process PROVE ManagerOK(p)
  <2>1. devices[p] = <<>> /\ at[p] = "idle" /\ pinAt[p] = "idle" /\ result[p] = "none"
        /\ cur[p] = 0 /\ reached[p] = 0
    BY DEF Init, PinInit
  <2>2. Len(<<>>) = 0 /\ DOMAIN devices[p] = {}
    BY <2>1
  <2>. QED BY <2>1, <2>2 DEF ManagerOK, Distinct, Progress, Outcome
<1>3. PinInv
  BY DEF Init, PinInit, PinInv, OpenPinsExist
<1>. QED BY <1>1, <1>2, <1>3 DEF ManagerInv

LEMMA MovesTypes ==
  ASSUME ManagerTypes, NEW p \in Process,
         NEW where \in {"idle", "opening", "pin", "rollback", "closing"}, NEW i \in Nat, Moves(p, where, i)
  PROVE  /\ at' \in [Process -> {"idle", "opening", "pin", "rollback", "closing"}]
         /\ cur' \in [Process -> Nat]
  BY DEF ManagerTypes, Moves

LEMMA ResultTypes ==
  ASSUME ManagerTypes, NEW p \in Process,
         \/ KeepResult
         \/ UNCHANGED <<devices, result, reached>>
         \/ UNCHANGED <<devices, result>> /\ reached' = [reached EXCEPT ![p] = cur[p]]
         \/ \E outcome \in {"none", "true", "false"}, n \in Nat :
              Result(p, outcome, n) /\ devices' \in [Process -> Seq(Device)]
  PROVE  /\ devices' \in [Process -> Seq(Device)]
         /\ result' \in [Process -> {"none", "true", "false"}]
         /\ reached' \in [Process -> Nat]
  BY DEF ManagerTypes, Result, KeepResult

LEMMA ManagerTypesStep == ManagerInv /\ [Next]_vars => ManagerTypes'
<1>. SUFFICES ASSUME ManagerInv, [Next]_vars PROVE ManagerTypes'
  OBVIOUS
<1>. USE DEF exportVars
<1>0. /\ ManagerTypes /\ PinTypeOK /\ FileTypeOK
      /\ \A p \in Process : Len(devices[p]) \in Nat /\ reached[p] \in Nat /\ cur[p] \in Nat
  BY DEF ManagerInv, ManagerTypes
<1>1. ASSUME NEW p \in Process, NEW d \in Device, Add(p, d) PROVE ManagerTypes'
  BY <1>0, <1>1 DEF Add, pinVars, fileVars, PinTypeOK, FileTypeOK, ManagerTypes
<1>2. ASSUME NEW p \in Process, OpenAll(p) \/ CloseAll(p) \/ OpenAllSucceeds(p) \/ OpenAllFails(p)
                                \/ CloseAllReturns(p)
      PROVE  ManagerTypes'
  <2>1. PinTypeOK' /\ FileTypeOK'
    BY <1>0, <1>2 DEF OpenAll, CloseAll, OpenAllSucceeds, OpenAllFails, CloseAllReturns,
                      pinVars, fileVars, PinTypeOK, FileTypeOK
  <2>2. \E where \in {"idle", "opening", "closing"}, i \in Nat : Moves(p, where, i)
    BY <1>2 DEF OpenAll, CloseAll, OpenAllSucceeds, OpenAllFails, CloseAllReturns
  <2>3. \/ KeepResult
        \/ \E outcome \in {"none", "true", "false"}, n \in Nat :
             Result(p, outcome, n) /\ UNCHANGED devices
    BY <1>0, <1>2 DEF OpenAll, CloseAll, OpenAllSucceeds, OpenAllFails, CloseAllReturns
  <2>. QED BY <1>0, <2>1, <2>2, <2>3, MovesTypes, ResultTypes DEF ManagerTypes
<1>3. ASSUME NEW p \in Process, OpensPin(p) \/ PinReturns(p) PROVE ManagerTypes'
  <2>1. at[p] = "pin" => cur[p] - 1 \in Nat
    BY <1>0 DEF ManagerInv, ManagerOK, Progress
  <2>2. PinTypeOK' /\ FileTypeOK'
    BY <1>0, <1>3 DEF OpensPin, PinReturns, BeginOpenPin, Enter, PinGoto, pinVars, fileVars,
                      PinTypeOK, FileTypeOK, OpenSteps
  <2>3. \E where \in {"opening", "pin", "rollback"}, i \in Nat : Moves(p, where, i)
    BY <1>0, <1>3, <2>1 DEF OpensPin, PinReturns
  <2>4. \/ UNCHANGED <<devices, result, reached>>
        \/ UNCHANGED <<devices, result>> /\ reached' = [reached EXCEPT ![p] = cur[p]]
    BY <1>3 DEF OpensPin, PinReturns, KeepResult
  <2>. QED BY <1>0, <2>2, <2>3, <2>4, MovesTypes, ResultTypes DEF ManagerTypes
<1>4. ASSUME NEW p \in Process, PinProceeds(p) PROVE ManagerTypes'
  BY <1>0, <1>4, PinStepTypes DEF PinProceeds, fileVars, managerVars, FileTypeOK, ManagerTypes
<1>5. ASSUME NEW p \in Process, OpensFile(p) \/ FileRefuses(p) PROVE ManagerTypes'
  <2>1. at[p] = "opening" => cur[p] - 1 \in Nat
    BY <1>0 DEF ManagerInv, ManagerOK, Progress
  <2>2. PinTypeOK' /\ FileTypeOK'
    BY <1>0, <1>5 DEF OpensFile, FileRefuses, OpenFile, OpenFileFails, pinVars, PinTypeOK, FileTypeOK
  <2>3. \E where \in {"opening", "rollback"}, i \in Nat : Moves(p, where, i)
    BY <1>0, <1>5, <2>1 DEF OpensFile, FileRefuses
  <2>4. \/ UNCHANGED <<devices, result, reached>>
        \/ UNCHANGED <<devices, result>> /\ reached' = [reached EXCEPT ![p] = cur[p]]
    BY <1>5 DEF OpensFile, FileRefuses, KeepResult
  <2>. QED BY <1>0, <2>2, <2>3, <2>4, MovesTypes, ResultTypes DEF ManagerTypes
<1>6. ASSUME NEW p \in Process, RollBackNext(p) \/ CloseNext(p) PROVE ManagerTypes'
  <2>1. PinTypeOK' /\ FileTypeOK' /\ KeepResult
    BY <1>0, <1>6, CloseCurrentTypes DEF RollBackNext, CloseNext
  <2>2. cur[p] - 1 \in Nat
    BY <1>0, <1>6 DEF RollBackNext, CloseNext, CloseCurrent, AtDevice
  <2>3. \E where \in {"rollback", "closing"}, i \in Nat : Moves(p, where, i)
    BY <1>0, <1>6, <2>2 DEF RollBackNext, CloseNext
  <2>. QED BY <1>0, <2>1, <2>3, MovesTypes, ResultTypes DEF ManagerTypes
<1>7. ASSUME NEW p \in Process, Crash(p) PROVE ManagerTypes'
  <2>1. PinTypeOK' /\ FileTypeOK'
    BY <1>0, <1>7 DEF Crash, PinDies, Strand, FileDies, Leave, PinGoto, PinTypeOK, FileTypeOK, DeviceStates
  <2>2. devices' \in [Process -> Seq(Device)]
    BY <1>0, <1>7 DEF Crash, ManagerTypes
  <2>3. Moves(p, "idle", 0) /\ Result(p, "none", 0)
    BY <1>7 DEF Crash
  <2>. QED BY <1>0, <2>1, <2>2, <2>3, MovesTypes, ResultTypes DEF ManagerTypes
<1>8. CASE UNCHANGED vars
  BY <1>0, <1>8 DEF vars, pinVars, fileVars, managerVars, PinTypeOK, FileTypeOK, ManagerTypes
<1>9. CASE OutsideStep
  BY <1>0, <1>9 DEF OutsideStep, OutsideExports, Appears, OutsideUnexports, fileVars, managerVars,
                    PinTypeOK, FileTypeOK, ManagerTypes
<1>. QED
  BY <1>1, <1>2, <1>3, <1>4, <1>5, <1>6, <1>7, <1>8, <1>9 DEF Next, ProcessStep, ManagerStep

\* A step of one process leaves the devices of another as they are.
LEMMA OthersRest ==
  ASSUME ManagerInv, NEW q \in Process, UNCHANGED <<devices[q], at[q], cur[q], result[q], reached[q]>>,
         UNCHANGED <<pinState[q], pinAt[q], fileState[q]>>
  PROVE  ManagerOK(q)'
<1>1. ManagerOK(q)
  BY DEF ManagerInv
<1>. QED
  BY <1>1 DEF ManagerOK, Distinct, Progress, Outcome, AllAre, StateOf, AtDevice

\* What a step of p leaves of the other processes' devices.
LEMMA StepsAreLocal ==
  ASSUME ManagerInv, NEW p \in Process, NEW q \in Process, q # p,
         ProcessStep(p)
  PROVE  /\ UNCHANGED <<devices[q], at[q], cur[q], result[q], reached[q]>>
         /\ UNCHANGED <<pinState[q], pinAt[q], fileState[q]>>
<1>. USE DEF Moves, Result, KeepResult, pinVars, fileVars, managerVars, PinGoto
<1>0. PinTypeOK /\ FileTypeOK
  BY DEF ManagerInv, ManagerTypes
<1>1. CASE (\E d \in Device : Add(p, d)) \/ OpenAll(p) \/ CloseAll(p) \/ OpenAllSucceeds(p)
           \/ OpenAllFails(p) \/ CloseAllReturns(p) \/ PinReturns(p)
  BY <1>1 DEF ManagerInv, ManagerTypes, Add, OpenAll, CloseAll, OpenAllSucceeds, OpenAllFails,
              CloseAllReturns, PinReturns
<1>2. CASE Crash(p)
  BY <1>0, <1>2 DEF ManagerInv, ManagerTypes, Crash, PinDies, FileDies, PinTypeOK, FileTypeOK
<1>3. CASE OpensPin(p) \/ PinProceeds(p)
  BY <1>0, <1>3 DEF ManagerInv, ManagerTypes, OpensPin, BeginOpenPin, PinProceeds, PinStep, SeePin,
     Export, ExportFails, PinFails, PinAppears, PinDoesNotAppear, DirectionWritten, DirectionFails,
     UndoExport, PinTypeOK
<1>4. CASE OpensFile(p) \/ FileRefuses(p)
  BY <1>0, <1>4 DEF ManagerInv, ManagerTypes, OpensFile, FileRefuses, OpenFile, OpenFileFails, FileTypeOK
<1>5. CASE RollBackNext(p) \/ CloseNext(p)
  BY <1>0, <1>5 DEF ManagerInv, ManagerTypes, RollBackNext, CloseNext, CloseCurrent, ClosePin, CloseFile,
     PinTypeOK, FileTypeOK
<1>. QED BY <1>1, <1>2, <1>3, <1>4, <1>5 DEF ProcessStep, ManagerStep

\* A step of p in its own devices: each loop goes on where it was.
LEMMA OwnStepOK ==
  ASSUME ManagerInv, ManagerTypes', NEW p \in Process,
         ProcessStep(p)
  PROVE  ManagerOK(p)'
<1>0. /\ devices[p] \in Seq(Device) /\ Len(devices[p]) \in Nat
      /\ cur[p] \in Nat /\ reached[p] \in Nat
      /\ Distinct(p) /\ Progress(p) /\ Outcome(p)
  BY DEF ManagerInv, ManagerTypes, ManagerOK
<1>1. ASSUME NEW d \in Device, Add(p, d) PROVE ManagerOK(p)'
  <2>1. Len(devices[p]) <= 1
    <3>1. \A i \in DOMAIN devices[p] : devices[p][i] \in Device \ {d}
      BY <1>0, <1>1 DEF Add, Registered
    <3>2. Len(devices[p]) = 2 => /\ 1 \in DOMAIN devices[p] /\ 2 \in DOMAIN devices[p]
                                 /\ devices[p][1] # devices[p][2]
      BY <1>0 DEF Distinct
    <3>3. \A x, y \in Device \ {d} : x = y
      BY DEF Device
    <3>4. Len(devices[p]) # 2
      <4>. SUFFICES ASSUME Len(devices[p]) = 2 PROVE FALSE
        OBVIOUS
      <4>1. devices[p][1] \in Device \ {d} /\ devices[p][2] \in Device \ {d}
        BY <3>1, <3>2
      <4>. QED BY <3>2, <3>3, <4>1
    <3>5. Len(devices[p]) <= 2
      BY <1>0 DEF Distinct
    <3>6. \A n \in Nat : n <= 2 /\ n # 2 => n <= 1
      OBVIOUS
    <3>. QED BY <1>0, <3>4, <3>5, <3>6, Zenon
  <2>2. /\ devices'[p] = Append(devices[p], d) /\ Len(devices'[p]) = Len(devices[p]) + 1
        /\ DOMAIN devices'[p] = 1 .. Len(devices[p]) + 1
        /\ \A i \in 1 .. Len(devices[p]) : devices'[p][i] = devices[p][i]
        /\ devices'[p][Len(devices[p]) + 1] = d
    BY <1>0, <1>1 DEF Add, ManagerInv, ManagerTypes
  <2>3. Distinct(p)'
    BY <1>0, <1>1, <2>1, <2>2 DEF Add, Registered, Distinct
  <2>4. Progress(p)'
    BY <1>0, <1>1, <2>2 DEF Add, Progress, pinVars, fileVars
  <2>5. UNCHANGED <<at, result, reached, pinState, fileState>>
    BY <1>1 DEF Add, pinVars, fileVars
  <2>6. Outcome(p)'
    <3>1. \A i \in 1 .. reached[p] : UNCHANGED StateOf(p, devices[p][i])
      BY <1>0, <2>2, <2>5 DEF Progress, StateOf
    <3>. QED BY <1>0, <2>5, <3>1 DEF Progress, Outcome, AllAre
  <2>. QED BY <2>3, <2>4, <2>6 DEF ManagerOK
<1>2. ASSUME OpenAll(p) \/ CloseAll(p) PROVE ManagerOK(p)'
  <2>1. /\ at'[p] \in {"opening", "closing"} /\ cur'[p] = 1 /\ result'[p] = "none" /\ reached'[p] = 0
        /\ devices'[p] = devices[p] /\ pinAt'[p] = "idle"
    BY <1>0, <1>2 DEF ManagerInv, ManagerTypes, Progress, OpenAll, CloseAll, Moves, Result, pinVars
  <2>. QED BY <1>0, <2>1 DEF ManagerOK, Distinct, Progress, Outcome, AllAre
<1>3. ASSUME Crash(p) PROVE ManagerOK(p)'
  <2>1. /\ at'[p] = "idle" /\ cur'[p] = 0 /\ result'[p] = "none" /\ reached'[p] = 0
        /\ devices'[p] = <<>> /\ pinAt'[p] = "idle"
    BY <1>3 DEF ManagerInv, ManagerTypes, PinTypeOK, Crash, PinDies, PinGoto, Moves, Result
  <2>2. Len(<<>>) = 0 /\ DOMAIN devices'[p] = {}
    BY <2>1
  <2>. QED BY <2>1, <2>2 DEF ManagerOK, Distinct, Progress, Outcome
<1>4. ASSUME OpensPin(p) PROVE ManagerOK(p)'
  <2>1. /\ at[p] = "opening" /\ at'[p] = "pin" /\ pinAt'[p] = "exists" /\ AtDevice(p, "pin")
        /\ UNCHANGED <<devices[p], cur[p], result[p], reached[p], pinState[p], fileState[p]>>
    BY <1>4 DEF ManagerInv, ManagerTypes, PinTypeOK, OpensPin, BeginOpenPin, PinGoto, Moves, KeepResult,
                fileVars
  <2>. QED BY <1>0, <2>1 DEF ManagerOK, Distinct, Progress, Outcome, AllAre, StateOf, AtDevice
<1>5. ASSUME PinProceeds(p) PROVE ManagerOK(p)'
  <2>1. /\ UNCHANGED <<devices[p], at[p], cur[p], result[p], reached[p], fileState[p]>>
        /\ pinAt'[p] # "idle" \/ pinState'[p] \in {"Open", "Failed"}
        /\ pinAt[p] # "idle"
    <3>1. PinStep(p) /\ PinTypeOK /\ UNCHANGED <<managerVars, fileState>>
      BY <1>5 DEF PinProceeds, ManagerInv, ManagerTypes, fileVars
    <3>2. CASE SeePin(p) \/ Export(p) \/ PinAppears(p) \/ PinDoesNotAppear(p) \/ DirectionWritten(p)
      BY <3>1, <3>2 DEF SeePin, Export, PinAppears, PinDoesNotAppear, DirectionWritten, PinGoto,
                        PinTypeOK, managerVars
    <3>3. CASE ExportFails(p) \/ DirectionFails(p) \/ UndoExport(p)
      BY <3>1, <3>3 DEF ExportFails, DirectionFails, UndoExport, PinFails, PinGoto, PinTypeOK, managerVars
    <3>. QED BY <3>1, <3>2, <3>3 DEF PinStep
  <2>2. at[p] = "pin" /\ AtDevice(p, "pin") /\ cur[p] \in 1 .. Len(devices[p])
    BY <1>0, <2>1 DEF Progress, AtDevice
  \* The devices before this one are no pins.
  <2>3. AllAre(p, 1, cur[p] - 1, "Open")'
    BY <1>0, <2>1, <2>2 DEF Progress, Distinct, AtDevice, AllAre, StateOf
  <2>. QED BY <1>0, <2>1, <2>2, <2>3 DEF ManagerOK, Distinct, Progress, Outcome, AtDevice
<1>6. ASSUME PinReturns(p) PROVE ManagerOK(p)'
  <2>1. /\ at[p] = "pin" /\ pinAt[p] = "idle" /\ AtDevice(p, "pin") /\ cur[p] \in 1 .. Len(devices[p])
        /\ pinState[p] \in {"Open", "Failed"}
        /\ UNCHANGED <<devices[p], result[p], pinAt[p], pinState[p], fileState[p]>>
    BY <1>0, <1>6 DEF PinReturns, Progress, AtDevice, pinVars, fileVars
  <2>2. CASE pinState[p] = "Open"
    <3>1. at'[p] = "opening" /\ cur'[p] = cur[p] + 1 /\ reached'[p] = reached[p]
      BY <1>6, <2>2 DEF PinReturns, Moves, ManagerInv, ManagerTypes
    <3>2. AllAre(p, 1, cur[p] - 1, "Open")'
      BY <1>0, <2>1, <2>2, <3>1 DEF Progress, AllAre, StateOf, AtDevice
    <3>. QED BY <1>0, <2>1, <3>1, <3>2 DEF ManagerOK, Distinct, Progress, Outcome
  <2>3. CASE pinState[p] # "Open"
    <3>1. at'[p] = "rollback" /\ cur'[p] = cur[p] - 1 /\ reached'[p] = cur[p]
      BY <1>6, <2>3 DEF PinReturns, Moves, ManagerInv, ManagerTypes
    <3>2. AllAre(p, 1, cur[p], "Open")' /\ StateOf(p, devices[p][reached[p]])' = "Failed"
      BY <1>0, <2>1, <2>3, <3>1 DEF Progress, AllAre, StateOf, AtDevice
    <3>3. AllAre(p, cur[p] + 1, reached[p] - 1, "Closed")'
      BY <1>0, <3>1 DEF AllAre
    <3>. QED BY <1>0, <2>1, <3>1, <3>2, <3>3 DEF ManagerOK, Distinct, Progress, Outcome
  <2>. QED BY <2>2, <2>3
<1>7. ASSUME OpensFile(p) PROVE ManagerOK(p)'
  <2>1. /\ at[p] = "opening" /\ at'[p] = "opening" /\ AtDevice(p, "file") /\ cur'[p] = cur[p] + 1
        /\ UNCHANGED <<devices[p], result[p], reached[p], pinAt[p], pinState[p]>>
        /\ fileState'[p] = "Open"
    BY <1>7 DEF ManagerInv, ManagerTypes, FileTypeOK, OpensFile, OpenFile, Moves, KeepResult, pinVars
  <2>2. AllAre(p, 1, cur[p] - 1, "Open")'
    BY <1>0, <2>1 DEF Progress, AllAre, StateOf, AtDevice
  <2>. QED BY <1>0, <2>1, <2>2 DEF ManagerOK, Distinct, Progress, Outcome, AtDevice
<1>8. ASSUME FileRefuses(p) PROVE ManagerOK(p)'
  <2>1. /\ at[p] = "opening" /\ at'[p] = "rollback" /\ AtDevice(p, "file") /\ cur'[p] = cur[p] - 1
        /\ UNCHANGED <<devices[p], result[p], pinAt[p], pinState[p]>>
        /\ fileState'[p] = "Failed"
    BY <1>8 DEF ManagerInv, ManagerTypes, FileTypeOK, FileRefuses, OpenFileFails, Moves, pinVars
  <2>0. reached'[p] = cur[p]
    BY <1>8 DEF ManagerInv, ManagerTypes, FileRefuses
  <2>2. AllAre(p, 1, cur[p], "Open")' /\ StateOf(p, devices[p][reached[p]])' = "Failed"
    <3>1. \A j \in 1 .. cur[p] - 1 : devices[p][j] = "pin"
      BY <1>0, <2>1 DEF Progress, Distinct, AtDevice, Device
    <3>2. \A j \in 1 .. cur[p] - 1 : StateOf(p, devices[p][j]) = "Open"
      BY <1>0, <2>1 DEF Progress, AllAre
    <3>3. StateOf(p, devices[p][cur[p]]) = fileState[p] /\ devices[p][cur[p]] = "file"
      BY <2>1 DEF AtDevice, StateOf
    <3>4. AllAre(p, 1, cur[p], "Open")'
      BY <1>0, <2>1, <3>1, <3>2 DEF AllAre, StateOf
    <3>. QED BY <2>0, <2>1, <3>3, <3>4 DEF StateOf
  <2>3. AllAre(p, cur[p] + 1, reached[p] - 1, "Closed")'
    BY <1>0, <2>0, <2>1 DEF AllAre
  <2>. QED BY <1>0, <2>0, <2>1, <2>2, <2>3 DEF ManagerOK, Distinct, Progress, Outcome, AtDevice
<1>9. ASSUME OpenAllSucceeds(p) PROVE ManagerOK(p)'
  <2>1. /\ at[p] = "opening" /\ at'[p] = "idle" /\ cur'[p] = 0 /\ cur[p] = Len(devices[p]) + 1
        /\ result'[p] = "true" /\ reached'[p] = Len(devices[p])
        /\ UNCHANGED <<devices[p], pinAt[p], pinState[p], fileState[p]>>
    BY <1>0, <1>9 DEF ManagerInv, ManagerTypes, OpenAllSucceeds, Progress, Moves, Result, pinVars, fileVars
  <2>. QED BY <1>0, <2>1 DEF ManagerOK, Distinct, Progress, Outcome, AllAre, StateOf
<1>10. ASSUME RollBackNext(p) PROVE ManagerOK(p)'
  <2>1. /\ at[p] = "rollback" /\ at'[p] = "rollback" /\ cur'[p] = cur[p] - 1
        /\ UNCHANGED <<devices[p], result[p], reached[p], pinAt[p]>>
        /\ cur[p] \in 1 .. Len(devices[p]) /\ CloseCurrent(p)
    BY <1>0, <1>10 DEF ManagerInv, ManagerTypes, RollBackNext, CloseCurrent, ClosePin, AtDevice, Moves,
       KeepResult, pinVars
  <2>2. PICK i \in DOMAIN devices[p] :
          /\ i = cur[p]
          /\ IF devices[p][i] = "pin" THEN pinState'[p] = "Closed" /\ UNCHANGED fileState[p]
                                      ELSE fileState'[p] = "Closed" /\ UNCHANGED pinState[p]
    BY <1>0, <2>1 DEF ManagerInv, ManagerTypes, PinTypeOK, FileTypeOK, Progress, AllAre, StateOf,
       CloseCurrent, ClosePin, CloseFile, AtDevice, pinVars, fileVars
  <2>3. /\ AllAre(p, 1, cur[p], "Open")' /\ AllAre(p, cur[p] + 1, reached[p] - 1, "Closed")'
        /\ StateOf(p, devices[p][reached[p]])' = "Failed"
    <3>1. \A j \in DOMAIN devices[p] : j # i => UNCHANGED StateOf(p, devices[p][j])
      BY <1>0, <2>1, <2>2 DEF Distinct, StateOf, Device
    <3>2. StateOf(p, devices[p][i])' = "Closed"
      BY <2>1, <2>2 DEF StateOf
    <3>3. /\ cur[p] < reached[p] /\ reached[p] \in DOMAIN devices[p] /\ reached[p] # i
          /\ \A j \in 1 .. cur[p] : j \in DOMAIN devices[p] /\ StateOf(p, devices[p][j]) = "Open"
          /\ \A j \in cur[p] + 1 .. reached[p] - 1 :
               j \in DOMAIN devices[p] /\ StateOf(p, devices[p][j]) = "Closed"
          /\ StateOf(p, devices[p][reached[p]]) = "Failed"
      BY <1>0, <2>1, <2>2 DEF Progress, AllAre
    <3>4. AllAre(p, 1, cur[p], "Open")'
      BY <1>0, <2>1, <2>2, <3>1, <3>3 DEF AllAre
    <3>5. AllAre(p, cur[p] + 1, reached[p] - 1, "Closed")'
      <4>1. \A j \in cur[p] .. reached[p] - 1 : StateOf(p, devices[p][j])' = "Closed"
        <5>1. \A j \in cur[p] .. reached[p] - 1 : j = i \/ j \in cur[p] + 1 .. reached[p] - 1
          BY <1>0, <2>2
        <5>2. \A j \in cur[p] + 1 .. reached[p] - 1 : j # i
          BY <1>0, <2>2
        <5>. QED BY <3>1, <3>2, <3>3, <5>1, <5>2, Zenon
      <4>. QED BY <1>0, <2>1, <4>1 DEF AllAre
    <3>. QED BY <2>1, <3>1, <3>3, <3>4, <3>5
  <2>4. Distinct(p)' /\ Outcome(p)'
    BY <1>0, <2>1 DEF Distinct, Outcome
  <2>5. Progress(p)'
    BY <1>0, <2>1, <2>3 DEF Progress
  <2>. QED BY <2>4, <2>5 DEF ManagerOK
<1>11. ASSUME OpenAllFails(p) PROVE ManagerOK(p)'
  <2>1. /\ at[p] = "rollback" /\ at'[p] = "idle" /\ cur[p] = 0 /\ cur'[p] = 0
        /\ result'[p] = "false" /\ reached'[p] = reached[p]
        /\ UNCHANGED <<devices[p], pinAt[p], pinState[p], fileState[p]>>
    BY <1>0, <1>11 DEF ManagerInv, ManagerTypes, OpenAllFails, Moves, Result, pinVars, fileVars
  <2>. QED BY <1>0, <2>1 DEF ManagerOK, Distinct, Progress, Outcome, AllAre, StateOf
<1>12. ASSUME CloseNext(p) \/ CloseAllReturns(p) PROVE ManagerOK(p)'
  <2>1. /\ at[p] = "closing" /\ at'[p] \in {"closing", "idle"}
        /\ at'[p] = "closing" => cur'[p] = cur[p] + 1 /\ cur[p] \in 1 .. Len(devices[p])
        /\ at'[p] = "idle" => cur'[p] = 0
        /\ UNCHANGED <<devices[p], result[p], reached[p], pinAt[p]>>
    BY <1>0, <1>12 DEF ManagerInv, ManagerTypes, CloseNext, CloseAllReturns, CloseCurrent, ClosePin,
       AtDevice, Moves, KeepResult, pinVars
  <2>. QED BY <1>0, <2>1 DEF ManagerOK, Distinct, Progress, Outcome
<1>. QED
  BY <1>1, <1>2, <1>3, <1>4, <1>5, <1>6, <1>7, <1>8, <1>9, <1>10, <1>11, <1>12
     DEF ProcessStep, ManagerStep

LEMMA ManagerNextOK == ManagerInv /\ [Next]_vars => ManagerInv'
<1>. SUFFICES ASSUME ManagerInv, [Next]_vars PROVE ManagerInv'
  OBVIOUS
<1>1. ManagerTypes'
  BY ManagerTypesStep
<1>2. CASE UNCHANGED vars
  <2>. SUFFICES ASSUME NEW q \in Process PROVE ManagerOK(q)'
    BY <1>1 DEF ManagerInv
  <2>. QED BY <1>2, OthersRest DEF vars, managerVars, pinVars, fileVars
<1>3. ASSUME NEW p \in Process, ProcessStep(p) PROVE ManagerInv'
  <2>1. ManagerOK(p)'
    BY <1>1, <1>3, OwnStepOK
  <2>2. \A q \in Process : q # p => ManagerOK(q)'
    BY <1>3, StepsAreLocal, OthersRest
  <2>. QED BY <1>1, <2>1, <2>2 DEF ManagerInv
<1>4. CASE OutsideStep
  <2>. SUFFICES ASSUME NEW q \in Process PROVE ManagerOK(q)'
    BY <1>1 DEF ManagerInv
  <2>. QED
    BY <1>4, OthersRest DEF OutsideStep, OutsideExports, OutsideUnexports, managerVars, fileVars
<1>. QED BY <1>2, <1>3, <1>4 DEF Next

\* Users of the pin know of each other, so no one loses it unawares.
LEMMA PinInvStep == ManagerInv /\ PinInv /\ [Next]_vars => PinInv'
<1>. SUFFICES ASSUME ManagerInv, PinInv, [Next]_vars PROVE PinInv'
  OBVIOUS
<1>0. PinTypeOK
  BY DEF ManagerInv, ManagerTypes
<1>. USE <1>0 DEF PinTypeOK, PinInv, OpenPinsExist, PinGoto, exportVars
<1>1. CASE UNCHANGED pinVars
  BY <1>1 DEF pinVars
<1>2. ASSUME NEW p \in Process, BeginOpenPin(p) PROVE PinInv'
  BY <1>2 DEF BeginOpenPin, Enter
<1>3. ASSUME NEW p \in Process, SeePin(p) \/ PinAppears(p) \/ PinDoesNotAppear(p) \/ DirectionWritten(p)
      PROVE  PinInv'
  BY <1>3 DEF SeePin, PinAppears, PinDoesNotAppear, DirectionWritten
<1>4. ASSUME NEW p \in Process, Export(p) PROVE PinInv'
  BY <1>4 DEF Export, Appears
<1>5. ASSUME NEW p \in Process, ExportFails(p) \/ DirectionFails(p) PROVE PinInv'
  BY <1>5 DEF ExportFails, DirectionFails, PinFails, KeepUsers, Leave
<1>6. ASSUME NEW p \in Process, UndoExport(p) PROVE PinInv'
  BY <1>6 DEF UndoExport, Unexport, Strand, PinFails, KeepUsers, Leave
<1>7. ASSUME NEW p \in Process, ClosePin(p), pinAt[p] = "idle" PROVE PinInv'
  BY <1>7 DEF ClosePin, Unexport, Strand, Leave
<1>8. ASSUME NEW p \in Process, PinDies(p) PROVE PinInv'
  BY <1>8 DEF PinDies, Strand, Leave
<1>9. ASSUME NEW p \in Process, CloseCurrent(p), at[p] # "pin" PROVE PinInv'
  BY <1>1, <1>7, <1>9 DEF CloseCurrent, ManagerInv, ManagerOK, Progress
<1>10. CASE OutsideStep
  BY <1>10 DEF OutsideStep, OutsideExports, Appears, OutsideUnexports
<1>. QED
  <2>. USE DEF pinVars
  <2>1. ASSUME NEW p \in Process, (\E d \in Device : Add(p, d)) \/ OpenAll(p) \/ CloseAll(p)
               \/ OpensFile(p) \/ FileRefuses(p) \/ OpenAllSucceeds(p) \/ OpenAllFails(p)
               \/ CloseAllReturns(p) \/ PinReturns(p)
        PROVE  PinInv'
    <3>1. UNCHANGED pinVars
      BY <2>1 DEF Add, OpenAll, CloseAll, OpensFile, FileRefuses, OpenAllSucceeds, OpenAllFails,
                  CloseAllReturns, PinReturns
    <3>. QED BY <1>1, <3>1
  <2>2. ASSUME NEW p \in Process, OpensPin(p) \/ PinProceeds(p) \/ Crash(p) PROVE PinInv'
    BY <1>2, <1>3, <1>4, <1>5, <1>6, <1>8, <2>2 DEF OpensPin, PinProceeds, PinStep, Crash
  <2>3. ASSUME NEW p \in Process, RollBackNext(p) \/ CloseNext(p) PROVE PinInv'
    BY <1>9, <2>3 DEF RollBackNext, CloseNext
  <2>. QED BY <1>1, <1>10, <2>1, <2>2, <2>3 DEF Next, ProcessStep, ManagerStep, vars

\* What openAll() did is what it says, in every process.
THEOREM OpenAllOrNothing == Spec => []DevicesSound
<1>1. ManagerInv => DevicesSound
  <2>. SUFFICES ASSUME ManagerInv PROVE DevicesSound
    OBVIOUS
  <2>1. TypeOK
    BY DEF ManagerInv, ManagerTypes, ManagerOK, Distinct, Progress, TypeOK
  <2>2. AllOrNothing
    <3>. SUFFICES ASSUME NEW p \in Process, at[p] = "idle"
                  PROVE  /\ result[p] = "true" =>
                              \A i \in 1 .. reached[p] : StateOf(p, devices[p][i]) = "Open"
                         /\ result[p] = "false" =>
                              \A i \in 1 .. reached[p] :
                                StateOf(p, devices[p][i]) = IF i = reached[p] THEN "Failed" ELSE "Closed"
      BY DEF AllOrNothing
    <3>1. reached[p] \in Nat /\ Outcome(p)
      BY DEF ManagerInv, ManagerTypes, ManagerOK
    <3>2. \A i \in 1 .. reached[p] : i = reached[p] \/ i \in 1 .. reached[p] - 1
      BY <3>1
    <3>. QED BY <3>1, <3>2 DEF Outcome, AllAre
  <2>. QED BY <2>1, <2>2 DEF DevicesSound
<1>. QED BY <1>1, ManagerInitOK, ManagerNextOK, PTL DEF Spec

LEMMA PinInvHolds == Spec => [](ManagerInv /\ PinInv)
  BY ManagerInitOK, ManagerNextOK, PinInvStep, PTL DEF Spec

\* However many processes use the pin, one that uses it alone can use it.
THEOREM LonePinsExist == Spec => []OpenPinsExist
<1>1. PinInv => OpenPinsExist
  BY DEF PinInv
<1>. QED BY <1>1, PinInvHolds, PTL

\* No failing path of open(), and no order of the calls of any number of
\* processes and of others' exports, forgets an export a process made.
THEOREM ExportsTakenBack == Spec => []ExportsBalanced
<1>1. ManagerInv /\ PinInv => ExportsBalanced
  BY DEF ManagerInv, ManagerTypes, PinTypeOK, PinInv, ExportsBalanced
<1>. QED BY <1>1, PinInvHolds, PTL

\* No process takes away an export that was there when it came.
THEOREM PriorExportsStay == Spec => PriorExportsKept
<1>. DEFINE Kept ==
       \A p \in Process :
         exported /\ ~exported' /\ exportedHere[p] /\ ~exportedHere'[p] => p \in present
<1>1. PinInv /\ [Next]_vars => Kept
  BY DEF PinInv
<1>. QED BY <1>1, PinInvHolds, PTL DEF Spec, PriorExportsKept
-----------------------------------------------------------------------------
(* The moves.                                                              *)

\* What is closed has no name: without it, the object that takes over nothing
\* would take over a name.
ClosedHaveNoName ==
  \A o \in Object : number[o] = NoNumber => name[o] = NoName /\ o \notin owner

\* A name is only missing where nothing is open.
OpenHaveName ==
  \A o \in Object : number[o] # NoNumber => name[o] \in Name

HandleInv == HandleTypeOK /\ HeldOnce /\ OneOwner /\ ClosedHaveNoName /\ OpenHaveName

LEMMA HandleInitInv == HandleInit => HandleInv
  BY DEF HandleInit, HandleInv, HandleTypeOK, HeldOnce, OneOwner, ClosedHaveNoName, OpenHaveName

LEMMA CloseStep ==
  ASSUME HandleInv, NEW o \in Object, o \in alive, Closed(o),
         alive' = alive \/ alive' = alive \ {o}
  PROVE  HandleInv'
<1>1. HandleTypeOK'
  BY DEF HandleInv, HandleTypeOK, Closed, TargetAfterClose, ExistsAfterClose
<1>2. HeldOnce'
  BY ValuesAssumption DEF HandleInv, HandleTypeOK, HeldOnce, Closed, TargetAfterClose
<1>3. OneOwner'
  BY DEF HandleInv, HandleTypeOK, OneOwner, Closed, ExistsAfterClose
<1>4. ClosedHaveNoName' /\ OpenHaveName'
  BY DEF HandleInv, HandleTypeOK, ClosedHaveNoName, OpenHaveName, Closed
<1>. QED BY <1>1, <1>2, <1>3, <1>4 DEF HandleInv

LEMMA OpenStep ==
  ASSUME HandleInv, NEW o \in Object, NEW q \in Name, Create(o, q) \/ Open(o, q)
  PROVE  HandleInv'
<1>1. PICK n \in Number : Opened(o, q, n)
  BY DEF Create, Open
<1>2. /\ o \in alive /\ alive' = alive
      /\ owner' = owner \cup {o} \/ owner' = owner \ {o}
      /\ exists' = ExistsAfterClose(o) \cup {q}
      /\ o \in owner' => q \notin ExistsAfterClose(o)
  BY DEF Create, Open, Opened, HandleInv, HandleTypeOK
<1>3. HandleTypeOK'
  BY <1>1, <1>2 DEF HandleInv, HandleTypeOK, Opened, TargetAfterClose, ExistsAfterClose
<1>4. HeldOnce'
  <2>1. \A p \in Object : number'[p] = IF p = o THEN n ELSE number[p]
    BY <1>1 DEF HandleInv, HandleTypeOK, Opened
  <2>2. \A m \in Number :
          target'[m] = IF m = n THEN q ELSE IF m = number[o] THEN NoName ELSE target[m]
    BY <1>1 DEF Opened, TargetAfterClose
  \* The number was free, or the object itself had it before.
  <2>3. \A p \in Object : p # o => number[p] # n
    BY <1>1, ValuesAssumption DEF HandleInv, HandleTypeOK, HeldOnce, OpenHaveName, Opened, TargetAfterClose
  <2>4. \A m \in Number : target'[m] # NoName => \E p \in alive' : number'[p] = m
    BY <1>2, <2>1, <2>2 DEF HandleInv, HandleTypeOK, HeldOnce
  <2>5. \A p, r \in Object : number'[p] # NoNumber /\ number'[p] = number'[r] => p = r
    BY <2>1, <2>3 DEF HandleInv, HeldOnce
  <2>6. \A p \in Object :
          number'[p] # NoNumber => p \in alive' /\ target'[number'[p]] = name'[p]
    BY <1>1, <1>2, <2>1, <2>2, <2>3 DEF HandleInv, HandleTypeOK, HeldOnce, Opened
  <2>. QED BY <2>4, <2>5, <2>6 DEF HeldOnce
<1>5. OneOwner'
  BY <1>1, <1>2 DEF HandleInv, HandleTypeOK, OneOwner, Opened, ExistsAfterClose
<1>6. ClosedHaveNoName' /\ OpenHaveName'
  BY <1>1, <1>2, ValuesAssumption
     DEF HandleInv, HandleTypeOK, ClosedHaveNoName, OpenHaveName, Opened
<1>. QED BY <1>3, <1>4, <1>5, <1>6 DEF HandleInv

\* Both moves: the object has nothing, or what it has is closed first.
LEMMA TakeStep ==
  ASSUME HandleInv, NEW o \in Object, NEW other \in Object, o # other, other \in alive,
         Take(o, other), alive' = alive \cup {o},
         target' = TargetAfterClose(o), exists' = ExistsAfterClose(o)
  PROVE  HandleInv'
<1>1. HandleTypeOK'
  BY DEF HandleInv, HandleTypeOK, Take, TargetAfterClose, ExistsAfterClose
<1>2. HeldOnce'
  BY ValuesAssumption DEF HandleInv, HandleTypeOK, HeldOnce, Take, TargetAfterClose
<1>3. OneOwner'
  BY DEF HandleInv, HandleTypeOK, OneOwner, Take, ExistsAfterClose
<1>4. ClosedHaveNoName' /\ OpenHaveName'
  BY ValuesAssumption DEF HandleInv, HandleTypeOK, ClosedHaveNoName, OpenHaveName, Take
<1>. QED BY <1>1, <1>2, <1>3, <1>4 DEF HandleInv

LEMMA HandleNextInv == HandleInv /\ [HandleNext]_handleVars => HandleInv'
<1>. SUFFICES ASSUME HandleInv, [HandleNext]_handleVars PROVE HandleInv'
  OBVIOUS
<1>1. ASSUME NEW o \in Object, Construct(o) PROVE HandleInv'
  BY <1>1 DEF Construct, HandleInv, HandleTypeOK, HeldOnce, OneOwner, ClosedHaveNoName, OpenHaveName
<1>2. ASSUME NEW o \in Object, Close(o) \/ Destroy(o) \/ OpenFails(o) PROVE HandleInv'
  BY <1>2, CloseStep DEF Close, Destroy, OpenFails
<1>3. ASSUME NEW o \in Object, NEW q \in Name, Create(o, q) \/ Open(o, q) PROVE HandleInv'
  BY <1>3, OpenStep
<1>4. ASSUME NEW o \in Object, NEW other \in Object, MoveConstruct(o, other) PROVE HandleInv'
  <2>1. number[o] = NoNumber /\ o \notin owner
    BY <1>4 DEF MoveConstruct, HandleInv, HandleTypeOK, HeldOnce
  <2>2. TargetAfterClose(o) = target /\ ExistsAfterClose(o) = exists
    BY <2>1, ValuesAssumption DEF TargetAfterClose, ExistsAfterClose, HandleInv, HandleTypeOK
  <2>. QED BY <1>4, <2>2, TakeStep DEF MoveConstruct
<1>5. ASSUME NEW o \in Object, NEW other \in Object, MoveAssign(o, other) PROVE HandleInv'
  <2>1. CASE o = other
    BY <1>5, <2>1
       DEF MoveAssign, HandleInv, HandleTypeOK, HeldOnce, OneOwner, ClosedHaveNoName, OpenHaveName
  <2>2. CASE o # other
    BY <1>5, <2>2, TakeStep DEF MoveAssign
  <2>. QED BY <2>1, <2>2
<1>6. ASSUME NEW q \in Name, OtherCreates(q) PROVE HandleInv'
  BY <1>6 DEF OtherCreates, HandleInv, HandleTypeOK, HeldOnce, OneOwner, ClosedHaveNoName, OpenHaveName
<1>7. CASE UNCHANGED handleVars
  BY <1>7 DEF handleVars, HandleInv, HandleTypeOK, HeldOnce, OneOwner, ClosedHaveNoName, OpenHaveName
<1>. QED BY <1>1, <1>2, <1>3, <1>4, <1>5, <1>6, <1>7 DEF HandleNext

\* For any number of objects, descriptors and names, along any calls: the
\* types, each open descriptor with exactly one object that will close it, and
\* each created name with one object that will remove it.
THEOREM DescriptorsHeldOnce == HandleSpec => []ReleasedOnce
<1>1. HandleInv => ReleasedOnce
  BY DEF HandleInv, ReleasedOnce
<1>. QED BY <1>1, HandleInitInv, HandleNextInv, PTL DEF HandleSpec

\* A move assignment hands over everything, even to the object itself.
THEOREM AssignmentsWhole == HandleSpec => MovedWhole
<1>. DEFINE Whole(o, other) ==
       /\ number'[o] = number[other] /\ name'[o] = name[other]
       /\ o \in owner' <=> other \in owner
       /\ number[other] # NoNumber => target'[number[other]] = name[other]
     Step == \A o, other \in Object : MoveAssign(o, other) => Whole(o, other)
<1>1. HandleInv => Step
  <2>. SUFFICES ASSUME HandleInv, NEW o \in Object, NEW other \in Object, MoveAssign(o, other)
                PROVE  Whole(o, other)
    OBVIOUS
  <2>1. number[other] # NoNumber =>
          target[number[other]] = name[other] /\ number[other] \in Number
    BY DEF HandleInv, HeldOnce, HandleTypeOK
  <2>2. CASE o = other
    BY <2>1, <2>2 DEF MoveAssign
  <2>3. CASE o # other
    <3>1. Take(o, other) /\ target' = TargetAfterClose(o)
      BY <2>3 DEF MoveAssign
    <3>2. number[other] # NoNumber => number[other] # number[o]
      BY <2>3 DEF HandleInv, HeldOnce
    <3>. QED BY <2>1, <2>3, <3>1, <3>2 DEF Take, TargetAfterClose, HandleInv, HandleTypeOK
  <2>. QED BY <2>2, <2>3
<1>2. HandleSpec => []HandleInv
  BY HandleInitInv, HandleNextInv, PTL DEF HandleSpec
<1>3. HandleSpec => [][Step]_handleVars
  BY <1>1, <1>2, PTL
<1>. QED BY <1>3 DEF MovedWhole
-----------------------------------------------------------------------------
(* The value of a pin.  Who has it open alone finds it exported and with   *)
(* the direction it was given.                                             *)

PinCalls == [op : {"none", "write", "read"}, level : Pin!Levels, file : BOOLEAN]

Alone(p) ==
  p \in opened \ shared =>
    opened = {p} /\ pinExists /\ (p \notin refused => direction = Direction[p])

ValueInv ==
  /\ opened \subseteq PinUser /\ shared \subseteq PinUser /\ refused \subseteq PinUser
  /\ value \in Pin!Levels
  /\ pinCall \in [PinUser -> PinCalls]
  /\ answer \in [PinUser -> [ok : BOOLEAN, level : Pin!Levels]]
  /\ \A p \in PinUser : /\ pinCall[p].op # "none" => p \in opened
                        /\ pinCall[p].op = "write" => Direction[p] = "out"
                        /\ Alone(p)

LEMMA PinIdle == Pin!Idle \in PinCalls /\ Pin!Idle.op = "none" /\ Pin!NoAnswer.ok = FALSE
                 /\ Pin!NoAnswer \in [ok : BOOLEAN, level : Pin!Levels]
  BY DEF PinCalls, Pin!Idle, Pin!NoAnswer, Pin!Levels

LEMMA InitPin == Pin!Init => ValueInv
  BY PinIdle DEF Pin!Init, ValueInv, Alone, Pin!Levels

\* A step of a call of p.
LEMMA CallKeeps ==
  ASSUME ValueInv, NEW p \in PinUser, p \in opened, NEW c \in PinCalls,
         c.op = "write" => Direction[p] = "out",
         pinCall' = [pinCall EXCEPT ![p] = c],
         answer' \in [PinUser -> [ok : BOOLEAN, level : Pin!Levels]], value' \in Pin!Levels,
         UNCHANGED <<pinExists, direction, opened, shared, refused>>
  PROVE  ValueInv'
<1>1. pinCall' \in [PinUser -> PinCalls]
  BY DEF ValueInv
<1>2. ASSUME NEW q \in PinUser
      PROVE  /\ pinCall'[q].op # "none" => q \in opened
             /\ pinCall'[q].op = "write" => Direction[q] = "out"
             /\ Alone(q)'
  <2>1. Alone(q)'
    BY DEF ValueInv, Alone
  <2>2. CASE q = p
    BY <2>1, <2>2 DEF ValueInv
  <2>3. CASE q # p
    BY <2>1, <2>3 DEF ValueInv
  <2>. QED BY <2>2, <2>3
<1>. QED BY <1>1, <1>2 DEF ValueInv

LEMMA NextPin == ValueInv /\ [Pin!Next]_(Pin!vars) => ValueInv'
<1>. SUFFICES ASSUME ValueInv, [Pin!Next]_(Pin!vars) PROVE ValueInv'
  OBVIOUS
<1>. USE PinIdle
<1>1. ASSUME NEW p \in PinUser, Pin!Open(p) PROVE ValueInv'
  <2>1. ASSUME NEW q \in PinUser PROVE Alone(q)'
    BY <1>1 DEF Pin!Open, Pin!DirectionTaken, Pin!DirectionRefused, ValueInv, Alone
  <2>2. value' \in Pin!Levels
    BY <1>1 DEF Pin!Open, Pin!DirectionTaken, Pin!DirectionRefused, Pin!Levels, ValueInv
  <2>. QED BY <1>1, <2>1, <2>2 DEF Pin!Open, Pin!DirectionTaken, Pin!DirectionRefused, ValueInv
<1>2. ASSUME NEW p \in PinUser, Pin!Close(p) PROVE ValueInv'
  <2>1. ASSUME NEW q \in PinUser PROVE Alone(q)'
    BY <1>2 DEF Pin!Close, ValueInv, Alone
  <2>. QED BY <1>2, <2>1 DEF Pin!Close, ValueInv
<1>3. ASSUME NEW p \in PinUser, NEW c \in PinCalls, c.op = "write" => Direction[p] = "out",
             Pin!Begin(p, c)
      PROVE  ValueInv'
  BY <1>3, CallKeeps DEF Pin!Begin, ValueInv
<1>4. ASSUME NEW p \in PinUser, Pin!BeginWrite(p) \/ Pin!BeginRead(p) PROVE ValueInv'
  <2>1. ASSUME NEW op \in {"read", "write"}, NEW v \in Pin!Levels
        PROVE  [op |-> op, level |-> v, file |-> FALSE] \in PinCalls
    BY DEF PinCalls
  <2>2. CASE Pin!BeginWrite(p)
    <3>1. PICK v \in Pin!Levels : Pin!Begin(p, [op |-> "write", level |-> v, file |-> FALSE])
      BY <2>2 DEF Pin!BeginWrite
    <3>2. Direction[p] = "out"
      BY <2>2 DEF Pin!BeginWrite
    <3>. QED BY <1>3, <2>1, <3>1, <3>2
  <2>3. CASE Pin!BeginRead(p)
    <3>1. Pin!Begin(p, [op |-> "read", level |-> "0", file |-> FALSE]) /\ "0" \in Pin!Levels
      BY <2>3 DEF Pin!BeginRead, Pin!Levels
    <3>. QED BY <1>3, <2>1, <3>1
  <2>. QED BY <1>4, <2>2, <2>3
<1>5. ASSUME NEW p \in PinUser, Pin!OpenValueFile(p) PROVE ValueInv'
  <2>1. PICK c : c = [pinCall[p] EXCEPT !.file = TRUE]
    OBVIOUS
  <2>2. pinCall[p] \in PinCalls
    BY DEF ValueInv
  <2>3. c \in PinCalls /\ c.op = pinCall[p].op
    BY <2>1, <2>2 DEF PinCalls
  <2>. QED BY <1>5, <2>1, <2>3, CallKeeps DEF Pin!OpenValueFile, ValueInv
<1>6. ASSUME NEW p \in PinUser, NEW a \in [ok : BOOLEAN, level : Pin!Levels],
             pinCall[p].op # "none", Pin!Return(p, a), value' \in Pin!Levels
      PROVE  ValueInv'
  BY <1>6, CallKeeps DEF Pin!Return, ValueInv
<1>7. ASSUME NEW p \in PinUser, Pin!NoValueFile(p) \/ Pin!WriteReturns(p) \/ Pin!ReadReturns(p)
      PROVE  ValueInv'
  <2>1. CASE Pin!NoValueFile(p)
    BY <1>6, <2>1 DEF Pin!NoValueFile, ValueInv
  <2>2. CASE Pin!WriteReturns(p)
    <3>1. pinCall[p].op # "none" /\ Pin!Return(p, [ok |-> TRUE, level |-> "0"])
      BY <2>2 DEF Pin!WriteReturns
    <3>2. value' \in Pin!Levels /\ [ok |-> TRUE, level |-> "0"] \in [ok : BOOLEAN, level : Pin!Levels]
      BY <2>2 DEF Pin!WriteReturns, ValueInv, PinCalls, Pin!Levels
    <3>. QED BY <1>6, <3>1, <3>2
  <2>3. CASE Pin!ReadReturns(p)
    <3>1. pinCall[p].op # "none" /\ value' \in Pin!Levels
      BY <2>3 DEF Pin!ReadReturns, ValueInv
    <3>2. PICK a : a = IF pinExists THEN [ok |-> TRUE, level |-> value] ELSE Pin!NoAnswer
      OBVIOUS
    <3>3. a \in [ok : BOOLEAN, level : Pin!Levels] /\ Pin!Return(p, a)
      BY <2>3, <3>2 DEF Pin!ReadReturns, ValueInv
    <3>. QED BY <1>6, <3>1, <3>3
  <2>. QED BY <1>7, <2>1, <2>2, <2>3
<1>8. CASE Pin!InputChanges
  BY <1>8 DEF Pin!InputChanges, ValueInv, Alone
<1>9. CASE UNCHANGED Pin!vars
  BY <1>9 DEF Pin!vars, ValueInv, Alone
<1>10. CASE Pin!OutsideUses
  BY <1>10 DEF Pin!OutsideUses, ValueInv, Alone
<1>. QED BY <1>1, <1>2, <1>4, <1>5, <1>7, <1>8, <1>9, <1>10 DEF Pin!Next

LEMMA LoneWrite == ValueInv /\ Pin!Next => Pin!LoneWriteStep
<1>. SUFFICES ASSUME ValueInv, Pin!Next, NEW p \in PinUser,
                     pinCall[p].op = "write", pinCall'[p] = Pin!Idle, answer'[p].ok, p \notin shared \cup refused
              PROVE  value' = pinCall[p].level
  BY DEF Pin!LoneWriteStep, Pin!Returned
<1>1. opened = {p} /\ pinExists /\ direction = "out" /\ pinCall[p] # Pin!Idle
  BY PinIdle DEF ValueInv, Alone
<1>2. PICK q \in PinUser : \/ Pin!OpenValueFile(q) \/ Pin!NoValueFile(q) \/ Pin!WriteReturns(q)
                           \/ Pin!ReadReturns(q) \/ Pin!BeginWrite(q) \/ Pin!BeginRead(q)
  BY <1>1 DEF Pin!Next, Pin!Open, Pin!Close, Pin!InputChanges, Pin!OutsideUses
<1>3. CASE q # p
  BY <1>1, <1>2, <1>3 DEF Pin!OpenValueFile, Pin!NoValueFile, Pin!WriteReturns, Pin!ReadReturns,
     Pin!BeginWrite, Pin!BeginRead, Pin!Begin, Pin!Return, ValueInv
<1>4. CASE q = p
  <2>1. ~Pin!BeginWrite(p) /\ ~Pin!BeginRead(p)
    BY <1>1 DEF Pin!BeginWrite, Pin!BeginRead, Pin!Begin
  <2>2. ~Pin!ReadReturns(p)
    BY DEF Pin!ReadReturns
  <2>3. ~Pin!OpenValueFile(p)
    <3>. SUFFICES ASSUME Pin!OpenValueFile(p) PROVE FALSE
      OBVIOUS
    <3>1. pinCall'[p] = [pinCall[p] EXCEPT !.file = TRUE]
      BY DEF Pin!OpenValueFile, ValueInv
    <3>. QED BY <3>1, PinIdle DEF ValueInv, PinCalls
  <2>4. ~Pin!NoValueFile(p)
    <3>. SUFFICES ASSUME Pin!NoValueFile(p) PROVE FALSE
      OBVIOUS
    <3>1. answer'[p] = Pin!NoAnswer
      BY DEF Pin!NoValueFile, Pin!Return, ValueInv
    <3>. QED BY <3>1, PinIdle
  <2>. QED BY <1>1, <1>2, <1>4, <2>1, <2>2, <2>3, <2>4 DEF Pin!WriteReturns
<1>. QED BY <1>3, <1>4

\* A write that returned true has set the pin, unless others used the pin
\* meanwhile or its direction was refused: for any processes and directions.
THEOREM LoneWritesAreTrue == Pin!Spec => LoneWritesTakeEffect
<1>1. ValueInv /\ [Pin!Next]_(Pin!vars) => [Pin!LoneWriteStep]_(Pin!vars)
  BY LoneWrite
<1>. QED BY <1>1, InitPin, NextPin, PTL DEF Pin!Spec, Pin!LoneWritesTakeEffect, LoneWritesTakeEffect
-----------------------------------------------------------------------------
(* The bytes of a character device.  The buffer a process is writing is on *)
(* the line up to what the process has counted, and nobody else writes it. *)

Outcomes == {"pending", "true", "false"}
LineBytes(n) == [buffer : 1 .. n, byte : 1 .. Size]
TransferCalls(n) == [op : {"none", "write", "read"}, buffer : 0 .. n, written : 0 .. Size]

\* The bytes of buffer b that are on the line are its first n, in order.
Places(s, b) == {i \in DOMAIN s : s[i].buffer = b}
SentIs(s, b, n) ==
  /\ \A i, j \in Places(s, b) : i < j => s[i].byte < s[j].byte
  /\ \A i \in Places(s, b) : s[i].byte \in 1 .. n
  /\ \A m \in 1 .. n : \E i \in Places(s, b) : s[i].byte = m

WrittenSoFar(p) ==
  fileCall[p].op = "write" =>
    /\ fileCall[p].buffer \in 1 .. Len(results)
    /\ results[fileCall[p].buffer] = "pending"
    /\ SentIs(line, fileCall[p].buffer, fileCall[p].written)

TransferTypes ==
  /\ results \in Seq(Outcomes) /\ Len(results) <= MaxWrites
  /\ line \in Seq(LineBytes(Len(results)))
  /\ fileCall \in [Writer -> TransferCalls(Len(results))]
  /\ input \in 0 .. MaxInput /\ given \in 0 .. input
  /\ broken \in BOOLEAN

TransferInv ==
  /\ TransferTypes
  /\ \A p \in Writer : WrittenSoFar(p)
  /\ \A p, q \in Writer :
       p # q /\ fileCall[p].op = "write" /\ fileCall[q].op = "write"
         => fileCall[p].buffer # fileCall[q].buffer
  /\ \A b \in 1 .. Len(results) :
       \E n \in 0 .. Size : SentIs(line, b, n) /\ (results[b] = "true" => n = Size)
  /\ received = [i \in 1 .. given |-> i]

Bounds == Size \in Nat /\ MaxWrites \in Nat /\ MaxInput \in Nat /\ MaxRead \in Nat

LEMMA IdleTransfer ==
  ASSUME Bounds, NEW n \in Nat
  PROVE  Transfer!Idle \in TransferCalls(n) /\ Transfer!Idle.op = "none"
  BY DEF Bounds, Transfer!Idle, TransferCalls

LEMMA InitTransfer == Bounds /\ Transfer!Init => TransferInv
<1>. SUFFICES ASSUME Bounds, Transfer!Init PROVE TransferInv
  OBVIOUS
<1>1. results = <<>> /\ Len(results) = 0 /\ line = <<>> /\ received = <<>> /\ given = 0 /\ input = 0
      /\ broken = FALSE
  BY DEF Transfer!Init
<1>2. fileCall \in [Writer -> TransferCalls(Len(results))]
      /\ \A p \in Writer : fileCall[p].op = "none"
  BY <1>1, IdleTransfer DEF Transfer!Init
<1>3. received = [i \in 1 .. given |-> i]
  BY <1>1
<1>4. TransferTypes
  <2>1. results \in Seq(Outcomes) /\ line \in Seq(LineBytes(Len(results)))
    BY <1>1, EmptySeq
  <2>2. Len(results) <= MaxWrites /\ input \in 0 .. MaxInput /\ given \in 0 .. input
    BY <1>1 DEF Bounds
  <2>3. broken \in BOOLEAN
    BY <1>1
  <2>. QED BY <1>2, <2>1, <2>2, <2>3 DEF TransferTypes
<1>. QED BY <1>1, <1>2, <1>3, <1>4 DEF TransferInv, WrittenSoFar

\* The line t is s and the bytes from w + 1 to w + n of buffer b.
Extended(s, t, b, w, n) ==
  /\ DOMAIN s = 1 .. Len(s) /\ DOMAIN t = 1 .. Len(s) + n /\ Len(s) \in Nat
  /\ \A i \in 1 .. Len(s) : t[i] = s[i]
  /\ \A i \in 1 .. n : t[Len(s) + i].buffer = b /\ t[Len(s) + i].byte = w + i
Takes(b, w, n) == line' = line \o Transfer!Bytes(b, w + 1, w + n)

(* The line grows by the next bytes of a buffer.                           *)
LEMMA LineGrows ==
  ASSUME Bounds, TransferTypes, NEW b \in 1 .. Len(results), NEW w \in Nat, NEW n \in Nat, n > 0,
         w + n <= Size, Takes(b, w, n)
  PROVE  line' \in Seq(LineBytes(Len(results))) /\ Extended(line, line', b, w, n)
<1>1. PICK s : s = Transfer!Bytes(b, w + 1, w + n)
  OBVIOUS
<1>2. s = [i \in 1 .. n |-> [buffer |-> b, byte |-> w + i]]
  <2>1. (w + n) - (w + 1) + 1 = n /\ \A i \in 1 .. n : (w + 1) + i - 1 = w + i
    OBVIOUS
  <2>. QED BY <1>1, <2>1 DEF Transfer!Bytes
<1>3. \A i \in 1 .. n : [buffer |-> b, byte |-> w + i] \in LineBytes(Len(results))
  BY DEF LineBytes, Bounds
<1>4. PICK B : B = LineBytes(Len(results))
  OBVIOUS
<1>5. s \in [1 .. n -> B]
  BY <1>2, <1>3, <1>4
<1>6. s \in Seq(B) /\ Len(s) = n
  BY <1>5
<1>7. line \in Seq(B) /\ Len(line) \in Nat
  BY <1>4, LenProperties DEF TransferTypes
<1>8. PICK t : t = line \o s
  OBVIOUS
<1>9. t \in Seq(B) /\ Len(t) = Len(line) + n
  BY <1>6, <1>7, <1>8, ConcatProperties
<1>10. \A i \in 1 .. Len(line) : t[i] = line[i]
  <2>1. ASSUME NEW i \in 1 .. Len(line) PROVE i \in 1 .. Len(line) + Len(s) /\ i <= Len(line)
    BY <1>6, <1>7
  <2>. QED BY <1>6, <1>7, <1>8, <2>1, ConcatProperties
<1>11. ASSUME NEW i \in 1 .. n
       PROVE  t[Len(line) + i].buffer = b /\ t[Len(line) + i].byte = w + i
  <2>1. Len(line) + i \in Len(line) + 1 .. Len(line) + Len(s) /\ (Len(line) + i) - Len(line) = i
    BY <1>6, <1>7
  <2>2. t[Len(line) + i] = s[i]
    BY <1>6, <1>7, <1>8, <2>1
  <2>3. s[i].buffer = b /\ s[i].byte = w + i
    BY <1>2
  <2>. QED BY <2>2, <2>3
<1>12. line' = t /\ DOMAIN t = 1 .. Len(t) /\ DOMAIN line = 1 .. Len(line)
  BY <1>1, <1>7, <1>8, <1>9, LenProperties DEF Takes
<1>. QED BY <1>4, <1>7, <1>9, <1>10, <1>11, <1>12 DEF Extended

LEMMA SentGrows ==
  ASSUME NEW s, NEW t, NEW b, NEW w \in Nat, NEW n \in Nat, Extended(s, t, b, w, n)
  PROVE  /\ SentIs(s, b, w) => SentIs(t, b, w + n)
         /\ \A c, m : c # b /\ SentIs(s, c, m) => SentIs(t, c, m)
<1>1. PICK L \in Nat : /\ DOMAIN s = 1 .. L /\ DOMAIN t = 1 .. L + n /\ \A i \in 1 .. L : t[i] = s[i]
                       /\ \A i \in 1 .. n : t[L + i].buffer = b /\ t[L + i].byte = w + i
  BY DEF Extended
<1>2. \A j \in L + 1 .. L + n : t[j].buffer = b /\ t[j].byte = w + (j - L)
  <2>. SUFFICES ASSUME NEW j \in L + 1 .. L + n PROVE t[j].buffer = b /\ t[j].byte = w + (j - L)
    OBVIOUS
  <2>1. PICK k : k = j - L
    OBVIOUS
  <2>2. k \in 1 .. n /\ L + k = j
    BY <2>1
  <2>3. t[L + k].buffer = b /\ t[L + k].byte = w + k
    BY <1>1, <2>2
  <2>. QED BY <2>1, <2>2, <2>3
<1>3. Places(t, b) = Places(s, b) \cup L + 1 .. L + n
  BY <1>1, <1>2 DEF Places
<1>4. ASSUME NEW c, NEW m, c # b, SentIs(s, c, m) PROVE SentIs(t, c, m)
  <2>1. Places(t, c) = Places(s, c) /\ \A i \in Places(s, c) : t[i] = s[i]
    BY <1>1, <1>2, <1>4 DEF Places
  <2>. QED BY <1>4, <2>1 DEF SentIs
<1>5. ASSUME SentIs(s, b, w) PROVE SentIs(t, b, w + n)
  <2>1. \A i \in Places(s, b) : i \in 1 .. L /\ t[i] = s[i] /\ s[i].byte \in 1 .. w
    BY <1>1, <1>5 DEF Places, SentIs
  <2>2. ASSUME NEW i \in Places(t, b), NEW j \in Places(t, b), i < j PROVE t[i].byte < t[j].byte
    <3>1. CASE i \in Places(s, b) /\ j \in Places(s, b)
      BY <1>5, <2>1, <2>2, <3>1 DEF SentIs
    <3>2. CASE i \in Places(s, b) /\ j \in L + 1 .. L + n
      <4>1. t[i].byte \in 1 .. w
        BY <2>1, <3>2
      <4>2. t[j].byte = w + (j - L)
        BY <1>2, <3>2
      <4>3. w + (j - L) \in Nat /\ w < w + (j - L)
        BY <3>2
      <4>4. \A x \in 1 .. w, y \in Nat : w < y => x < y
        OBVIOUS
      <4>. QED BY <4>1, <4>2, <4>3, <4>4
    <3>3. CASE i \in L + 1 .. L + n /\ j \in L + 1 .. L + n
      BY <1>2, <2>2, <3>3
    <3>4. CASE i \in L + 1 .. L + n /\ j \in Places(s, b)
      BY <2>1, <2>2, <3>4
    <3>. QED BY <1>3, <3>1, <3>2, <3>3, <3>4
  <2>3. ASSUME NEW i \in Places(t, b) PROVE t[i].byte \in 1 .. w + n
    BY <1>2, <1>3, <2>1
  <2>4. ASSUME NEW m \in 1 .. w + n PROVE \E i \in Places(t, b) : t[i].byte = m
    <3>1. CASE m \in 1 .. w
      BY <1>3, <1>5, <2>1, <3>1 DEF SentIs
    <3>2. CASE m \notin 1 .. w
      <4>1. L + (m - w) \in L + 1 .. L + n /\ (L + (m - w)) - L = m - w /\ w + (m - w) = m
        BY <3>2
      <4>. QED BY <1>2, <1>3, <4>1
    <3>. QED BY <3>1, <3>2
  <2>. QED BY <2>2, <2>3, <2>4 DEF SentIs
<1>. QED BY <1>4, <1>5

(* A step of the call of p that leaves the line and the results alone.     *)
LEMMA CallMoves ==
  ASSUME Bounds, TransferInv, NEW p \in Writer, NEW c \in TransferCalls(Len(results)),
         c.op # "write", fileCall' = [fileCall EXCEPT ![p] = c],
         UNCHANGED <<line, input, results, broken>>,
         given' \in 0 .. input, received' = [i \in 1 .. given' |-> i]
  PROVE  TransferInv'
<1>1. TransferTypes'
  BY DEF TransferInv, TransferTypes
<1>2. fileCall'[p] = c /\ \A q \in Writer : q # p => fileCall'[q] = fileCall[q]
  BY DEF TransferInv, TransferTypes
<1>3. ASSUME NEW q \in Writer PROVE WrittenSoFar(q)'
  BY <1>2 DEF TransferInv, WrittenSoFar
<1>4. ASSUME NEW q \in Writer, NEW r \in Writer, q # r,
             fileCall'[q].op = "write", fileCall'[r].op = "write"
      PROVE  fileCall'[q].buffer # fileCall'[r].buffer
  BY <1>2, <1>4 DEF TransferInv
<1>5. \A b \in 1 .. Len(results') :
        \E n \in 0 .. Size : SentIs(line', b, n) /\ (results'[b] = "true" => n = Size)
  BY DEF TransferInv
<1>. QED BY <1>1, <1>3, <1>4, <1>5 DEF TransferInv

LEMMA WriteKeeps ==
  ASSUME Bounds, TransferInv, NEW p \in Writer, Transfer!Write(p)
  PROVE  TransferInv'
<1>1. PICK n \in Nat : n = Len(results)
  BY LenProperties DEF TransferInv, TransferTypes
<1>2. /\ results' \in Seq(Outcomes) /\ Len(results') = n + 1 /\ Len(results') <= MaxWrites
      /\ results'[n + 1] = "pending" /\ \A b \in 1 .. n : results'[b] = results[b]
  BY <1>1, AppendProperties DEF Transfer!Write, TransferInv, TransferTypes, Outcomes, Bounds
<1>3. PICK c : c = [op |-> "write", buffer |-> n + 1, written |-> 0]
  OBVIOUS
<1>4. c \in TransferCalls(n + 1) /\ c.op = "write" /\ c.buffer = n + 1 /\ c.written = 0
  BY <1>1, <1>3 DEF TransferCalls, Bounds
<1>5. fileCall' = [fileCall EXCEPT ![p] = c] /\ UNCHANGED <<line, input, given, received, broken>>
  BY <1>2, <1>3 DEF Transfer!Write
<1>6. TransferCalls(n) \subseteq TransferCalls(n + 1)
  BY <1>1 DEF TransferCalls
<1>7. fileCall' \in [Writer -> TransferCalls(n + 1)] /\ fileCall'[p] = c
      /\ \A q \in Writer : q # p => fileCall'[q] = fileCall[q]
  BY <1>1, <1>4, <1>5, <1>6 DEF TransferInv, TransferTypes
<1>8. line \in Seq(LineBytes(n + 1)) /\ \A i \in DOMAIN line : line[i].buffer \in 1 .. n
  <2>1. line \in Seq(LineBytes(n))
    BY <1>1 DEF TransferInv, TransferTypes
  <2>2. LineBytes(n) \subseteq LineBytes(n + 1)
    BY <1>1 DEF LineBytes
  <2>3. line \in Seq(LineBytes(n + 1))
    BY <2>1, <2>2
  <2>4. \A i \in DOMAIN line : line[i] \in LineBytes(n)
    BY <2>1
  <2>. QED BY <2>3, <2>4 DEF LineBytes
<1>9. TransferTypes'
  BY <1>2, <1>5, <1>7, <1>8 DEF TransferInv, TransferTypes
<1>10. SentIs(line, n + 1, 0)
  <2>1. Places(line, n + 1) = {}
    BY <1>1, <1>8 DEF Places
  <2>. QED BY <2>1 DEF SentIs
<1>11. ASSUME NEW q \in Writer PROVE WrittenSoFar(q)'
  <2>1. CASE q = p
    BY <1>1, <1>2, <1>4, <1>5, <1>7, <1>10, <2>1 DEF WrittenSoFar
  <2>2. CASE q # p
    <3>1. WrittenSoFar(q) /\ fileCall'[q] = fileCall[q]
      BY <1>7, <2>2 DEF TransferInv
    <3>. QED BY <1>1, <1>2, <1>5, <3>1 DEF WrittenSoFar
  <2>. QED BY <2>1, <2>2
<1>12. ASSUME NEW q \in Writer, NEW r \in Writer, q # r,
              fileCall'[q].op = "write", fileCall'[r].op = "write"
       PROVE  fileCall'[q].buffer # fileCall'[r].buffer
  <2>1. ASSUME NEW o \in Writer, o # p, fileCall'[o].op = "write"
        PROVE  fileCall'[o].buffer \in 1 .. n
    BY <1>1, <1>7, <2>1 DEF TransferInv, WrittenSoFar
  <2>2. CASE q = p \/ r = p
    BY <1>1, <1>4, <1>7, <1>12, <2>1, <2>2
  <2>3. CASE q # p /\ r # p
    BY <1>7, <1>12, <2>3 DEF TransferInv
  <2>. QED BY <2>2, <2>3
<1>13. ASSUME NEW b \in 1 .. Len(results')
       PROVE  \E m \in 0 .. Size : SentIs(line', b, m) /\ (results'[b] = "true" => m = Size)
  <2>1. CASE b = n + 1
    <3>1. 0 \in 0 .. Size /\ SentIs(line', b, 0) /\ results'[b] # "true"
      BY <1>2, <1>5, <1>10, <2>1 DEF Bounds
    <3>. QED BY <3>1
  <2>2. CASE b \in 1 .. n
    BY <1>1, <1>2, <1>5, <2>2 DEF TransferInv
  <2>. QED BY <1>1, <1>2, <2>1, <2>2
<1>. QED BY <1>5, <1>9, <1>11, <1>12, <1>13 DEF TransferInv

LEMMA WriteTakesKeeps ==
  ASSUME Bounds, TransferInv, NEW p \in Writer, Transfer!WriteTakes(p)
  PROVE  TransferInv'
<1>1. PICK b, w : b = fileCall[p].buffer /\ w = fileCall[p].written
  OBVIOUS
<1>2. /\ b \in 1 .. Len(results) /\ results[b] = "pending" /\ SentIs(line, b, w)
      /\ w \in Nat /\ w < Size /\ fileCall[p].op = "write"
  BY <1>1 DEF Transfer!WriteTakes, TransferInv, TransferTypes, TransferCalls, WrittenSoFar, Bounds
<1>3. PICK n \in 1 .. Size - w :
        Transfer!Taken(p, n) /\ fileCall' = [fileCall EXCEPT ![p].written = @ + n]
  BY <1>1 DEF Transfer!WriteTakes
<1>4. n \in Nat /\ n > 0 /\ w + n <= Size
  BY <1>2, <1>3 DEF Bounds
<1>5. Takes(b, w, n)
  BY <1>1, <1>3 DEF Transfer!Taken, Takes
<1>6. UNCHANGED <<input, given, results, received, broken>>
  BY DEF Transfer!WriteTakes
<1>7. PICK c : c = [fileCall[p] EXCEPT !.written = w + n]
  OBVIOUS
<1>8. fileCall[p] \in TransferCalls(Len(results)) /\ w + n \in 0 .. Size
  BY <1>2, <1>4 DEF TransferInv, TransferTypes, Bounds
<1>9. c \in TransferCalls(Len(results)) /\ c.op = "write" /\ c.buffer = b /\ c.written = w + n
  BY <1>1, <1>2, <1>7, <1>8 DEF TransferCalls
<1>10. /\ fileCall' \in [Writer -> TransferCalls(Len(results))] /\ fileCall'[p] = c
      /\ \A q \in Writer : q # p => fileCall'[q] = fileCall[q]
  BY <1>1, <1>7, <1>9, <1>3 DEF TransferInv, TransferTypes
<1>11. PICK s, t : s = line /\ t = line'
  OBVIOUS
<1>12. TransferTypes
  BY DEF TransferInv
<1>13. t \in Seq(LineBytes(Len(results))) /\ Extended(s, t, b, w, n)
  BY <1>2, <1>4, <1>5, <1>11, <1>12, LineGrows
<1>14. SentIs(t, b, w + n) /\ \A d, m : d # b /\ SentIs(s, d, m) => SentIs(t, d, m)
  BY <1>2, <1>4, <1>11, <1>13, SentGrows
<1>15. TransferTypes'
  BY <1>6, <1>10, <1>11, <1>13 DEF TransferInv, TransferTypes
<1>16. ASSUME NEW q \in Writer PROVE WrittenSoFar(q)'
  <2>1. CASE q = p
    BY <1>2, <1>6, <1>9, <1>10, <1>11, <1>14, <2>1 DEF WrittenSoFar
  <2>2. CASE q # p
    <3>1. WrittenSoFar(q) /\ fileCall'[q] = fileCall[q]
      BY <1>10, <2>2 DEF TransferInv
    <3>2. fileCall[q].op = "write" => fileCall[q].buffer # b
      BY <1>1, <1>2, <2>2 DEF TransferInv
    <3>. QED BY <1>6, <1>11, <1>14, <3>1, <3>2 DEF WrittenSoFar
  <2>. QED BY <2>1, <2>2
<1>17. ASSUME NEW q \in Writer, NEW r \in Writer, q # r,
              fileCall'[q].op = "write", fileCall'[r].op = "write"
       PROVE  fileCall'[q].buffer # fileCall'[r].buffer
  <2>1. \A o \in Writer : fileCall'[o].op = fileCall[o].op /\ fileCall'[o].buffer = fileCall[o].buffer
    BY <1>1, <1>2, <1>9, <1>10
  <2>. QED BY <1>17, <2>1 DEF TransferInv
<1>18. ASSUME NEW d \in 1 .. Len(results')
       PROVE  \E m \in 0 .. Size : SentIs(line', d, m) /\ (results'[d] = "true" => m = Size)
  <2>1. CASE d = b
    BY <1>2, <1>6, <1>8, <1>11, <1>14, <2>1
  <2>2. CASE d # b
    BY <1>6, <1>11, <1>14, <2>2 DEF TransferInv
  <2>. QED BY <2>1, <2>2
<1>. QED BY <1>6, <1>15, <1>16, <1>17, <1>18 DEF TransferInv

LEMMA WriteReturnsKeeps ==
  ASSUME Bounds, TransferInv, NEW p \in Writer, Transfer!WriteDone(p) \/ Transfer!WriteFails(p)
  PROVE  TransferInv'
<1>1. PICK b : b = fileCall[p].buffer
  OBVIOUS
<1>2. PICK outcome \in {"true", "false"} :
        /\ fileCall[p].op = "write"
        /\ outcome = "true" => fileCall[p].written = Size
        /\ Transfer!WriteReturns(p, outcome)
  BY DEF Transfer!WriteDone, Transfer!WriteFails
<1>3. /\ b \in 1 .. Len(results) /\ SentIs(line, b, fileCall[p].written)
      /\ fileCall[p].written \in 0 .. Size
  BY <1>1, <1>2 DEF TransferInv, TransferTypes, TransferCalls, WrittenSoFar
<1>4. /\ results' = [results EXCEPT ![b] = outcome] /\ fileCall' = [fileCall EXCEPT ![p] = Transfer!Idle]
      /\ UNCHANGED <<line, input, given, received, broken>>
  BY <1>1, <1>2 DEF Transfer!WriteReturns
<1>5. /\ results' \in Seq(Outcomes) /\ Len(results') = Len(results) /\ Len(results) \in Nat
      /\ results'[b] = outcome /\ \A d \in 1 .. Len(results) : d # b => results'[d] = results[d]
  BY <1>2, <1>3, <1>4, ExceptSeq, LenProperties DEF TransferInv, TransferTypes, Outcomes
<1>6. /\ fileCall' \in [Writer -> TransferCalls(Len(results))] /\ fileCall'[p].op = "none"
      /\ \A q \in Writer : q # p => fileCall'[q] = fileCall[q]
  BY <1>4, <1>5, IdleTransfer DEF TransferInv, TransferTypes
<1>7. TransferTypes'
  BY <1>4, <1>5, <1>6 DEF TransferInv, TransferTypes
<1>8. ASSUME NEW q \in Writer PROVE WrittenSoFar(q)'
  <2>1. CASE q = p
    BY <1>6, <2>1 DEF WrittenSoFar
  <2>2. CASE q # p
    <3>1. WrittenSoFar(q) /\ fileCall'[q] = fileCall[q]
      BY <1>6, <2>2 DEF TransferInv
    <3>2. fileCall[q].op = "write" => fileCall[q].buffer # b
      BY <1>1, <1>2, <2>2 DEF TransferInv
    <3>. QED BY <1>4, <1>5, <3>1, <3>2 DEF WrittenSoFar
  <2>. QED BY <2>1, <2>2
<1>9. ASSUME NEW q \in Writer, NEW r \in Writer, q # r,
             fileCall'[q].op = "write", fileCall'[r].op = "write"
      PROVE  fileCall'[q].buffer # fileCall'[r].buffer
  BY <1>6, <1>9 DEF TransferInv
<1>10. ASSUME NEW d \in 1 .. Len(results')
      PROVE  \E m \in 0 .. Size : SentIs(line', d, m) /\ (results'[d] = "true" => m = Size)
  <2>1. CASE d = b
    BY <1>2, <1>3, <1>4, <1>5, <2>1
  <2>2. CASE d # b
    BY <1>4, <1>5, <2>2 DEF TransferInv
  <2>. QED BY <2>1, <2>2
<1>. QED BY <1>4, <1>7, <1>8, <1>9, <1>10 DEF TransferInv

LEMMA ReadGivesKeeps ==
  ASSUME Bounds, TransferInv, NEW p \in Writer, Transfer!ReadGives(p)
  PROVE  TransferInv'
<1>1. PICK n \in 1 .. MaxRead : /\ given + n <= input /\ given' = given + n
                                /\ received' = received \o [i \in 1 .. n |-> given + i]
  BY DEF Transfer!ReadGives
<1>2. n \in Nat /\ given \in Nat /\ input \in Nat /\ given' \in 0 .. input
  BY <1>1 DEF TransferInv, TransferTypes, Bounds
<1>3. PICK s, t : s = [i \in 1 .. given |-> i] /\ t = [i \in 1 .. n |-> given + i]
  OBVIOUS
<1>4. s \in Seq(Nat) /\ Len(s) = given /\ t \in Seq(Nat) /\ Len(t) = n
  BY <1>2, <1>3
<1>5. PICK r : r = s \o t
  OBVIOUS
<1>6. r \in Seq(Nat) /\ Len(r) = given + n
  BY <1>4, <1>5, ConcatProperties
<1>7. ASSUME NEW i \in 1 .. given + n PROVE r[i] = i
  <2>1. i \in 1 .. Len(s) + Len(t)
    BY <1>4
  <2>2. r[i] = IF i <= Len(s) THEN s[i] ELSE t[i - Len(s)]
    BY <1>4, <1>5, <2>1, ConcatProperties
  <2>3. CASE i <= given
    BY <1>2, <1>3, <1>4, <2>2, <2>3
  <2>4. CASE i > given
    <3>1. i - given \in 1 .. n /\ given + (i - given) = i
      BY <1>2, <2>4
    <3>2. t[i - given] = i
      BY <1>3, <3>1
    <3>. QED BY <1>2, <1>4, <2>2, <2>4, <3>2
  <2>. QED BY <1>2, <2>3, <2>4
<1>8. r = [i \in 1 .. given + n |-> i]
  <2>1. DOMAIN r = 1 .. given + n
    BY <1>6, LenProperties
  <2>2. r = [i \in DOMAIN r |-> r[i]]
    BY <1>6
  <2>. QED BY <1>7, <2>1, <2>2
<1>9. received' = [i \in 1 .. given' |-> i]
  BY <1>1, <1>3, <1>5, <1>8 DEF TransferInv
<1>10. Len(results) \in Nat
  BY LenProperties DEF TransferInv, TransferTypes
<1>. QED BY <1>2, <1>9, <1>10, IdleTransfer, CallMoves DEF Transfer!ReadGives

LEMMA NextTransfer ==
  ASSUME Bounds, TransferInv, [Transfer!Next]_(Transfer!vars)
  PROVE  TransferInv'
<1>1. Len(results) \in Nat /\ received = [i \in 1 .. given |-> i] /\ given \in 0 .. input
  BY LenProperties DEF TransferInv, TransferTypes
<1>2. UNCHANGED Transfer!vars => TransferInv'
  BY DEF Transfer!vars, TransferInv, TransferTypes, WrittenSoFar
<1>3. ASSUME NEW p \in Writer, Transfer!Read(p) PROVE TransferInv'
  <2>1. PICK c : c = [Transfer!Idle EXCEPT !.op = "read"]
    OBVIOUS
  <2>2. c \in TransferCalls(Len(results)) /\ c.op # "write"
    BY <1>1, <2>1, IdleTransfer DEF TransferCalls
  <2>3. fileCall' = [fileCall EXCEPT ![p] = c]
    BY <1>3, <2>1 DEF Transfer!Read
  <2>4. UNCHANGED <<line, input, given, results, received, broken>>
    BY <1>3 DEF Transfer!Read
  <2>. QED BY <1>1, <2>2, <2>3, <2>4, CallMoves
<1>4. ASSUME NEW p \in Writer, Transfer!ReadGivesNothing(p) PROVE TransferInv'
  <2>1. UNCHANGED <<line, input, given, results, received, broken>>
        /\ fileCall' = [fileCall EXCEPT ![p] = Transfer!Idle]
    BY <1>4 DEF Transfer!ReadGivesNothing
  <2>. QED BY <1>1, <2>1, IdleTransfer, CallMoves
<1>5. ASSUME Transfer!Arrive PROVE TransferInv'
  <2>1. input' \in 0 .. MaxInput /\ given \in 0 .. input'
    BY <1>5 DEF Transfer!Arrive, TransferInv, TransferTypes, Bounds
  <2>2. UNCHANGED <<line, given, fileCall, results, received, broken>>
    BY <1>5 DEF Transfer!Arrive
  <2>. QED BY <2>1, <2>2 DEF TransferInv, TransferTypes, WrittenSoFar
<1>6. ASSUME Transfer!Break PROVE TransferInv'
  BY <1>6 DEF Transfer!Break, TransferInv, TransferTypes, WrittenSoFar
<1>7. ASSUME NEW p \in Writer, Transfer!Interrupted(p) PROVE TransferInv'
  BY <1>2, <1>7 DEF Transfer!Interrupted
<1>. QED BY <1>2, <1>3, <1>4, <1>5, <1>6, <1>7, WriteKeeps, WriteTakesKeeps, WriteReturnsKeeps,
            ReadGivesKeeps DEF Transfer!Next

LEMMA InvTransferred ==
  ASSUME Bounds, TransferInv
  PROVE  Transfer!BytesTransferred
<1>1. Transfer!Buffers = 1 .. Len(results) /\ Len(results) \in Nat
  BY LenProperties DEF TransferInv, TransferTypes, Transfer!Buffers
<1>2. Transfer!TypeOK
  <2>1. {0} \cup Transfer!Buffers = 0 .. Len(results)
    BY <1>1
  <2>2. given \in Nat /\ input \in Nat /\ given <= input
    BY DEF TransferInv, TransferTypes, Bounds
  <2>3. received \in Seq(1 .. input)
    <3>1. received = [i \in 1 .. given |-> i]
      BY DEF TransferInv
    <3>2. \A i \in 1 .. given : i \in 1 .. input
      BY <2>2
    <3>3. received \in [1 .. given -> 1 .. input]
      BY <3>1, <3>2
    <3>. QED BY <2>2, <3>3
  <2>4. line \in Seq([buffer : Transfer!Buffers, byte : 1 .. Size])
    BY <1>1 DEF TransferInv, TransferTypes, LineBytes
  <2>5. fileCall \in [Writer -> [op : {"none", "write", "read"},
                         buffer : {0} \cup Transfer!Buffers, written : 0 .. Size]]
    BY <2>1 DEF TransferInv, TransferTypes, TransferCalls
  <2>. QED BY <2>3, <2>4, <2>5 DEF Transfer!TypeOK, TransferInv, TransferTypes, Outcomes
<1>3. Transfer!BuffersWritten
  <2>. SUFFICES ASSUME NEW b \in 1 .. Len(results), NEW places, places = Places(line, b)
       PROVE  /\ \A i, j \in places : i < j => line[i].byte < line[j].byte
              /\ \E n \in 0 .. Size : /\ {line[i].byte : i \in places} = 1 .. n
                                      /\ results[b] = "true" => n = Size
    BY <1>1 DEF Transfer!BuffersWritten, Places
  <2>1. PICK n \in 0 .. Size : SentIs(line, b, n) /\ (results[b] = "true" => n = Size)
    BY DEF TransferInv
  <2>2. {line[i].byte : i \in places} = 1 .. n
    BY <2>1 DEF SentIs
  <2>. QED BY <2>1, <2>2 DEF SentIs
<1>. QED BY <1>2, <1>3 DEF Transfer!BytesTransferred, Transfer!InputReadOnce, TransferInv

(* However the driver splits the writes, whatever the other processes put  *)
(* between, and wherever signals interrupt them, a write that returned     *)
(* true has put its buffer on the line, each byte once and in order; the   *)
(* processes together are given the bytes that arrived, each once.         *)
THEOREM BytesAreTransferred ==
  ASSUME Size \in Nat, MaxWrites \in Nat, MaxInput \in Nat, MaxRead \in Nat
  PROVE  Transfer!Spec => []BytesTransferred
<1>1. Bounds
  BY DEF Bounds
<1>2. Transfer!Init => TransferInv
  BY <1>1, InitTransfer
<1>3. TransferInv /\ [Transfer!Next]_(Transfer!vars) => TransferInv'
  BY <1>1, NextTransfer
<1>4. TransferInv => Transfer!BytesTransferred
  BY <1>1, InvTransferred
<1>. QED BY <1>2, <1>3, <1>4, PTL DEF Transfer!Spec, BytesTransferred
=============================================================================
