---------------------------- MODULE FileDevice -----------------------------
(* elap::device::FileDevice: each process has one, on a path of its own.    *)
CONSTANT Process

VARIABLES
  fileState,      \* FileDevice::state_
  handle          \* FileDevice::fd_ is an open descriptor

FileTypeOK ==
  /\ fileState \in [Process -> {"Closed", "Open", "Failed"}]
  /\ handle \in [Process -> BOOLEAN]
  /\ \A p \in Process : handle[p] <=> fileState[p] = "Open"

FileInit ==
  /\ fileState = [p \in Process |-> "Closed"]
  /\ handle = [p \in Process |-> FALSE]

\* A device that failed to open stays Failed when it is closed.
CloseFile(p) ==
  /\ fileState' = [fileState EXCEPT ![p] = IF @ = "Failed" THEN @ ELSE "Closed"]
  /\ handle' = [handle EXCEPT ![p] = FALSE]

\* open() closes what is open, then opens the path.
OpenFile(p) ==
  /\ fileState' = [fileState EXCEPT ![p] = "Open"]
  /\ handle' = [handle EXCEPT ![p] = TRUE]

OpenFileFails(p) ==
  /\ fileState' = [fileState EXCEPT ![p] = "Failed"]
  /\ handle' = [handle EXCEPT ![p] = FALSE]

FileDies(p) ==
  /\ fileState' = [fileState EXCEPT ![p] = "Closed"]
  /\ handle' = [handle EXCEPT ![p] = FALSE]
=============================================================================
