# ELAP in TLA+

TLA+ models of the Embedded Linux Application Platform: the service runtime
with its shutdown path, worker threads and logging, configuration, IPC over
Unix sockets, message queues and shared memory, the SQLite store, the devices
and the health monitor. Every module is translated from the C++ under `src/`; `PROJECT.json` maps each definition to
its lines. Paths below are relative to `src/`.

Contents: [inventory](#inventory), [modules](#modules-and-how-they-follow-the-code),
[runs](#what-the-runs-check), [bounds](#bounds), [fairness](#fairness),
[findings](#findings), [proofs](#what-is-proved), [limits](#what-is-not-modelled),
[plan](#plan), [conventions](#conventions).

## Inventory

| Component | State | Operations | What is hard |
|---|---|---|---|
| Service runtime, `platform/src/service/ServiceApplication.cpp` | `state_`, the call in progress | `run()` calls `initialize`, `start`, `stop`, `deinitialize` of an `IService` | each call may return false or throw; a dozen early returns; a request may arrive at any instant |
| Signals, `platform/src/signals/SignalHandler.cpp` | one process-wide flag, two dispositions | `install`, `clearShutdownRequest`, `notifyShutdownRequested`, the handler | the flag outlives a `run()`; nobody notifies its condition variable |
| Threads, `platform/src/threading/ThreadManager.cpp` | `threads_`, a stop flag per thread | `startThread`, `requestStop`, `joinAll`, destructor | `joinAll()` empties `threads_` before it waits; callers overlap |
| Services, `applications/sample_service`, `applications/storage_config_service` | worker count, workers | the four operations | one joins in `stop()`, the other in `deinitialize()` |
| Unix socket path, `platform/src/ipc/UnixSocket.cpp` | directory entry, remembered inode, accept queue | `listen`, `close`, `accept`, `connect` | system calls of several processes on one name; crashes; inode numbers come back |
| Unix socket messages, same file | bytes in flight each way | `sendMessage`, `receiveMessage` | framing, limits, deadlines, partial and blocking sends, peers that die or stop reading |
| Sample IPC server, `applications/sample_ipc_server` | `fd_`, `path_`, listener thread, connection | listener loop, `stop()` | `stop()` writes `fd_` while the listener polls it |
| Message queue and event bus, `platform/src/ipc/PosixMessageQueue.cpp`, `EventBus.cpp` | descriptor, `name_`, `owner_`; kernel: name, queue | `create`, `open`, `close`, `unlink`, moves, send, receive | ownership goes by name; a killed owner leaves it; deadlines, priorities, interruptions |
| Shared memory, `platform/src/ipc/SharedMemory.cpp` | same, plus size and mapping | the same, plus `read`, `write` | the name exists before the size does; copies take no lock |
| Persistent store, `platform/src/storage/` | one SQLite connection | `put`, `putBlob`, `putAll`, `remove`, `clear`, reads | failing statements, COMMIT under a reader, threads on one connection, zero bytes |
| Configuration, `platform/src/config/KeyValueConfiguration.cpp`, `DatabaseConfiguration.cpp` | a map; a store | `loadFromFile`, setters, getters | files that cannot be opened, break off or are edited; one replaces, the other merges; a getter's read of the store may fail |
| Devices, `platform/src/device/` | `state_` of each device; sysfs export | `open`, `close`, `openAll`, `closeAll`, `add`, pin values, `read`, `write` | rollback; the export is a flag that all processes and operators share; refusals that go unnoticed; short transfers |
| Logging, `platform/src/logging/ConsoleLogger.cpp` | `minimumLevel_`, a mutex | `log`, `setMinimumLevel` | a line is several writes to a stream that loggers share; the clock may be set back |
| Health monitor, `platform/src/health/HealthMonitor.cpp` | reports, two paths | `reportService`, `setProcRoot`, `setDiskPath`, `collect` | files are read without the lock; meminfo has lines without a unit |
| Demonstration programs, `applications/ipc_*`, `applications/storage_demo` | | fixed sequences of calls | not modelled; see [below](#what-is-not-modelled) |

How they interact: `ServiceApplication::run()` calls the service, polls the
flag of `SignalHandler`, and never touches threads. A service starts workers
in a `ThreadManager` and hands them a stop flag; `run()`'s own flag reaches
them only through `stop()`. The sample IPC server runs the accept loop of a
`UnixSocketServer` in such a worker. The event bus is a `PosixMessageQueue`,
the database configuration a `PersistentStore`, which is a `Database`. Processes
meet on names: the socket path, the queue and region names, the database file,
the pin number.

What makes each component correct is the list of properties under
[runs](#what-the-runs-check). `PROJECT.json` lists under "hazards" where in the
code each danger sits, and which property looks after it.

## Modules and how they follow the code

| Module | Models | Extends or instantiates |
|---|---|---|
| `SignalHandler` | the flag and the dispositions, one operator per member function | |
| `ServiceApplication` | `run()`; one action per step between two points where something else may happen; the results of the service's operations are arbitrary | `SignalHandler` |
| `ServiceContract` | abstract: what the author of an `IService` may rely on | |
| `ServiceRefinement` | the refinement mapping from `run()` to the contract | `ServiceApplication`, `ServiceContract` |
| `ThreadManager` | one action per critical section of `mutex_`, per join and per end of a worker; the destructor in three steps | |
| `HeartbeatService` | a whole service process: what the thread in `run()` does inside each operation, and what the workers do | `ServiceApplication`, `ThreadManager` |
| `UnixSocketServer` | `listen()` and `close()`, one action per system call, for several processes on one path | |
| `UnixSocketConnection` | one connection: bytes in flight, framing, limits, deadlines | |
| `SampleIpcServer` | the listener thread, `stop()` in the main thread, and clients | `UnixSocketConnection` |
| `TimedSend` | `sendMessage()` with a timeout, on a connection whose buffer is smaller than a message | `UnixSocketConnection` |
| `IpcObject` | the life of a named kernel object, as `PosixMessageQueue` and `SharedMemoryRegion` share it | |
| `EventBus` | messages on the queue objects | `IpcObject` |
| `MessageQueue` | every call on one open queue, with priorities, timeouts and signals | `MessageChannel` |
| `MessageChannel` | abstract: what the users of a queue may rely on | |
| `MessageDeadline` | `loadDeadline()` and the calls that wait until then | |
| `SharedBytes` | `read()` and `write()` of a region, byte by byte | |
| `MovableHandle` | the moves of the objects that own a descriptor | |
| `PersistentStore` | the store's operations as SQL statements, against SQLite's transactions and locks | |
| `StoreCalls` | the same with what the calls return, and the reads row by row | `PersistentStore`, `AtomicStore` |
| `AtomicStore` | abstract: calls that take effect at once | |
| `StoreText` | the bytes of keys and values on their way through the bindings | |
| `Configuration` | `loadFromFile()` of both configurations, line by line, and their getters, whose reads may fail | |
| `ConsoleLogger` | `log()` of several loggers piece by piece, their levels, and the clock | |
| `HealthMonitor`, `MemInfo` | reports and snapshots; the loop over `/proc/meminfo` | |
| `GpioPin`, `FileDevice` | one device each, `open()` of a pin in five steps | |
| `DeviceManager` | `add`, `openAll` with its rollback, `closeAll` | `GpioPin`, `FileDevice` |
| `PinValue`, `FileTransfer` | what an open pin, and an open file device, does | |
| `...Proofs` | theorems and proofs | the modules listed under [proofs](#what-is-proved), `TLAPS` |
| `MC...` | model values for a run, and the components a run shows side by side | the modules named in it |

Correspondence, module by module:

* **ServiceApplication.** `pc` is the statement the thread in `run()` has
  reached. The `...Returns` actions are the return of one service operation
  together with all of `run()` that follows up to the next point where the
  environment can act. "check" and "asleep" are the two halves of the polling
  loop, so that a request can fall between them. `requested` and `runs` are history.
* **ThreadManager.** `threads` is `threads_`; `joining[c]` is the local vector
  into which `joinAll()` of thread `c` has moved it; `awaited` records what that
  call owes its caller: every worker that runs when it takes the threads, but those
  that the vectors of overlapping calls hold (`HeldByOthers`). `life` follows the
  destructor.
* **HeartbeatService** uses the actions of the two components as they are and
  replaces the arbitrary results of `ServiceApplication` by what the code of
  the service does. `body` is the place inside an operation.
* **UnixSocketServer.** `entry` is what the directory entry names: nothing, a
  file, or an inode; an inode may be handed out again once its socket is gone.
  `overlapped` is history: whether two `listen()`/`close()` calls have ever run
  at the same time, or a probe was interrupted.
* **SampleIpcServer.** Every read of `fd_` by the listener is a step, because
  `stop()` writes it without a lock: a read gives the old or the new value, and
  the old number may by then belong to a connection of the process.
  `UnixSocketConnection` has one action per byte.
* **IpcObject.** `bound` is the kernel's namespace; `object`, `name` and `owner`
  are the members of each process's handle (while a call runs, its local
  variables). `disowned` and `abandoned` are history: a name taken by
  `unlink()` under a living owner, a name whose owner was killed.
* **PersistentStore.** `disk` holds the committed rows, `work` the rows as the
  open transaction sees them, `txn` the connection that holds the write lock. A
  statement that fails may or may not roll the transaction back, as SQLite
  does depending on the error. `mixed` is history: a second thread has executed
  statements during a `putAll()` on the same connection.
  `StoreCalls` adds the results: `stepped` holds the rows that a read has got
  from `sqlite3_step()`, and `answer` what the last call returned; a call is
  mapped to a `pending` call of `AtomicStore` until it returns.
* **StoreText.** `rows` are the stored bytes. `CString` is what a binding
  without a size makes of a string. `written` is history: the caller's view.
* **Configuration.** `values["memory"]` is `values_` of the one class,
  `values["database"]` the rows of the other; `parsed` is the temporary
  collection of a load and `at` the line it is at. A read error ends the loop as
  the end of the file does; `cut` and `source` are history. A getter of the
  database reads the store each time, and answers with the caller's default when
  that read fails (`read` is its outcome).
* **MessageQueue.** `queue` is sorted by the kernel. A call without a timeout
  waits while it cannot go on; one with a timeout may give up; a signal ends either
  while it waits. A receive takes the message before the event bus decodes it.
* **MessageDeadline.** `deadline` is the `timespec` of a waiting call. The units
  are constants, so that TLC can use small ones and the proof any.
* **SharedBytes.** A `memcpy()` is one step per byte; `known` and `alone` are
  history, and single out the reads of which the code promises something.
* **MovableHandle** follows `PosixMessageQueue`. The other four classes move the
  same way; those without a name never have an `owner`.
* **TimedSend.** `chunk` is what a blocking `send()` has still to place.
* **DeviceManager.** `exported` is the pin's directory in sysfs. A write to a
  sysfs file that the kernel refuses is not noticed, because the stream is
  tested before it is flushed. Others export and unexport the pin at any moment
  (`OutsideStep`). `pinUsers`, `overlapped`, `maker` and `present` are history: who
  uses the pin, who met another of its users, who made the export that is there, and
  who used the pin at that moment. In `PinValue`, whose subject is the value,
  `open()` and `close()` are one step each, the kernel may refuse the direction
  (`DirectionRefused`), and others may do with the pin as they like (`OutsideUses`).
* **ConsoleLogger.** A line is three writes to its stream, under the mutex of
  its logger; the level is read under it too, for every piece. The time in a line is
  that of the system clock; `SetClock` moves it, and `setBacks` counts how often it
  went back, so that a moment is a time and the run of the clock that showed it.
* **HealthMonitor.** `collect()` is one locked step, which copies, and one step
  per file read after it. `moment` is what a copy would hold now, and `during`
  is history: the moments since a call began. **MemInfo** goes through the words of
  the file as the stream operators do, three in a round, whatever line they are in;
  the arithmetic is that of unsigned integers, modulo `Modulus`.

## What the runs check

Runs that must pass:

| Run | Question | Properties |
|---|---|---|
| `thread_manager` | Do overlapping calls lose, double or outlive a thread? Is what the threads log readable? | `OneHolder`, `DestroyedClean`, `JoinAllWaits`, `DestructionCompletes`; `LogReadable` |
| `heartbeat_service` | Does a whole process come down cleanly, wherever it joins? Is a health snapshot true? Do both configurations mean the same by a file, and survive a broken one? | `WorkersTracked`, `ShutdownCompletes`; `HealthTrue`; `ConfiguredAlike`, `WholeFilesOnly` |
| `unix_socket_server` | Do servers that take turns on a path, and crash on it, stay reachable? Do timed sends send what they say? | `NamesTrue`, `RefusedForCause`, `CallsReturn`; `SentTrue` |
| `sample_ipc_server` | Do requests, replies and `stop()` get through to each other's end? Whatever a service and the signals do, does `run()` keep its promises? | `RepliesTrue`, `NoConnectionLeaks`, `ClientsComeBack`, `StopCompletes`; `DeinitializedUnlessThrown`, `ExitCodeNamesFirstFailure`, `NoStaleShutdown`, `ShutdownHonoured`, `ImplementsContract` |
| `persistent_store` | Are batches atomic, locks given up, and do the calls take effect at once? Do keys and values read back? | `BatchesWhole`, `NoTransactionLeftOpen`, `LockReleased`, `ImplementsAtomicStore`; `TextsKept` |
| `devices` | Is `openAll()` all or nothing, is every export taken back, and no other? Do open devices do what they report, and moved ones close once? | `DevicesSound`, `OpenPinsExist`, `ExportsBalanced`, `PriorExportsKept`; `LoneWritesTakeEffect`, `BytesTransferred`, `ReleasedOnce` |
| `event_bus` | Who removes which name, and in which order do events come? Is a queue a channel, are deadlines exact, do copies stay in range? | `NamesKept`, `EventsInOrder`; `ImplementsChannel`, `WaitsExactly`, `CopiesTrue` |

A run shows the components that belong together in the program and share no
variable in it (after the semicolon in the table: those beside the first). A
constant variable `shown` names the one a behaviour is about; the others rest in
one of their initial states. As none reads or writes what another does, every
behaviour of each component occurs in the run, and a property of one, which
reads only that one's variables, holds of it alone as it does of all together. The
MC module declares the constants and variables of the components beside the first,
and the values are in the `.cfg`: the proofs extend the same module, and there the
constants are arbitrary.

Some invariants are conjunctions of what belongs to one question, each part
with its own comment at its definition:

* `DestroyedClean`: `TypeOK`, no worker runs after the destructor, no joinable
  thread is destroyed.
* `WorkersTracked`: `ProcessTypeOK`, no worker runs when the state is Stopped, and one that runs
  when `run()` has ended is reported as a failed start.
* `NamesTrue`: `TypeOK`, `ReachableUnlessOverlapped`, `OwnNameUnlessOverlapped`.
* `RepliesTrue`: `IpcTypeOK`, `AnswersEchoRequests`, `SentRepliesArrive`.
* `SentTrue`: `SendTypeOK`, `WholeMessagesInOrder`.
* `DevicesSound`: `TypeOK`, `AllOrNothing`. `ReleasedOnce`: the types, `HeldOnce`, `OneOwner`.
* `BytesTransferred`: `TypeOK`, `BuffersWritten`, `InputReadOnce`.
* `NamesKept`: `TypeOK`, `OwnerHoldsName`, `NamesAccountedFor`. `WaitsExactly`: the types,
  `WaitsItsTimeout`, `NoOverflow`. `CopiesTrue`: `TypeOK`, `CopiesStayInside`, `ReadsSeeWrites`.
* `TextsKept`: `TypeOK`, `WrittenIsRead`, `KeysListed`.
* `ConfiguredAlike`: `TypeOK`, `SameAnswers` (getters answer alike for one file, and a
  read of the store that fails is answered by the default), `MemoryFromOneFile`.
* `LogReadable`: `TypeOK`, `LinesWhole`, `TimesInOrder`, `NothingBelowMinimum`.
* `HealthTrue`: `SnapshotOfOneMoment`, `LastReportsListed`, `ErrorsNameMissingParts`; `NotMisread`,
  `PercentOfTotal`; both types.

The types include, in some modules, what a process may hold at rest (in `IpcObject`: a
region that can be used has its size). The properties are stated in words above
their definitions. Several hold only under a condition that a history variable
records (`overlapped`, `disowned`, `mixed`, `maker`, `present`, `shared`, `refused`, `alone`, `stepped`, `setBacks`): these conditions are
the exact limits of what the code guarantees, and dropping one makes TLC
produce the interleaving that breaks the property.

For each checked property `PROJECT.json` names a mutant: a definition replaced
by one with a plausible bug (the operators under "Mutant of ..."), with which
the property fails.

Three abstract specifications are implemented: `ServiceContract` by
`ServiceApplication` (`ImplementsContract`), `AtomicStore` by `StoreCalls`
(`ImplementsAtomicStore`, with one thread per process: with two the store is not
atomic, as `BatchesWhole` says) and `MessageChannel` by `MessageQueue` (`ImplementsChannel`).

## Bounds

* `thread_manager`: three workers (two with the same name) and two clients, so
  that two `joinAll()` calls can hold different threads while a third runs. Two
  threads log two lines (`MaxLines`) through two loggers at two levels, and three
  texts for the level, one of which is none; `MaxTime = 1` gives two times, and
  `MaxSetBacks = 1` lets the clock go back once, between two lines or inside one.
* `heartbeat_service`: two heartbeats, so that `start()` can fail between them.
  The monitor has two services, two roots, two disks and three changes
  (`MaxChanges`) during one `collect()`; meminfo has up to three lines of three
  keys, some without a unit, and `Modulus = 16`.
  The configuration has four files: one that repeats a key and has an empty
  line, one that drops a key, and two that break at their first and second line.
* `unix_socket_server`: three processes, three inodes, backlog 0: one may probe
  while a second binds and a third holds or has lost the name, a number is
  reused, and the queue is full after one connection. The timed sends have a
  buffer of two bytes and up to three messages (`MaxMessages`) of none, two and
  three bytes, of which the last is over the limit.
* `sample_ipc_server`: two clients, one of which goes on until it has an answer
  while the other may stall or die; payloads of 0 to 2 bytes with a limit of 1
  and a header of 2 bytes, so that a message can be empty, at the limit, over
  it, or cut inside the header. `Capacity` is the kernel's buffer:
  `BufferAssumption` in `MCSampleIpcServer` says that it holds the longest reply, as the default of
  208 KiB does for replies of at most 64 KiB and the prefix. The backlog of 8
  is never full with two clients. `MaxRuns = 2` calls of `run()` are the least with
  which a flag can survive into a later one; every combination of results, files and
  requests occurs.
* `persistent_store`: two threads on one connection and one on another, two
  keys and one value: a batch has a middle, and a value differs from no row. The
  atomic store is checked with one thread in each process. Keys, texts and blobs
  are up to four bytes with a limit of three, begin one another, and have zero bytes
  in blobs; batches have two pairs.
* `devices`: two processes, each with at most a pin and a file device, in
  either order of registration; the pin may be exported and unexported by
  hand before and at any moment.
  Pin values: two outputs and an input, and others who use the pin. Transfers: two buffers (`MaxWrites`) of
  three bytes, two bytes of input. Moves: three objects, three numbers, two names.
* `event_bus`: three processes, one queue name, one region name, three kernel
  objects; queues of two messages that each take two events. Processes and
  objects are interchangeable, hence the symmetry set; no liveness is checked there.
  The channel: three callers, a queue of two messages, three turns (`MaxTurns`), two priorities.
  Deadlines: 6 nanoseconds to the second, timeouts that carry over it. Regions: two
  bytes, a `size_t` of two bits (`WordSize = 4`), so that offset and count wrap; three writes (`MaxWrites`).

Deadlock is checked in `unix_socket_server`, where processes never stop and a
connection that both ends have closed is over (`SendsOver`); in the
others the system may really end (a process exits, a manager is destroyed,
every client is done, a counter has reached its bound) or everybody may rest.

## Fairness

Threads that are inside a call of the platform are scheduled, timed waits
expire, and system calls return; nobody is obliged to start a call, to send a
signal or to connect. A worker function returns some time after its stop flag
is raised: the loops of both services test it in every round. `PersistentStore`
assumes that each statement returns, which SQLite's busy timeout of one second
ensures. `SampleIpcServer` asks only the clients in `Polite` to go on.
`UnixSocketServer` needs strong fairness of a call's next step: the probe's
`connect()` blocks while the queue of the listener is full, and that queue is
not full at every moment as long as the listener accepts again and again, as
the loop of `sample_ipc_server` does. In `TimedSend` the sender runs and its
deadline passes; no receiver need read, and with one that does not a send blocks
past its deadline (see the findings). The MC
modules state the fairness of a component for the behaviours that show it
(`WF_mcVars(ServerShown(...))`). The runs without liveness properties
(`devices`, `event_bus`) assume no fairness.

## Findings

Each is a run that TLC must find violated.

| Run | What the repository says | What the code does |
|---|---|---|
| `service_invalid_config` | "Invalid configuration prevents startup" (`docs/ELAP_Phase1_HLD.md:581`) | a malformed file counts only when `--config` named it; one at a default location is reported as not found and the service starts on defaults |
| `thread_manager_stop` | "Stop requests are propagated to workers" (`docs/ELAP_Phase1_HLD.md:563`) | a `requestStop()` during another thread's `joinAll()` finds `threads_` empty and raises no flag |
| `heartbeat_service_start` | "All worker threads must exit during service shutdown." (`docs/ELAP_Phase1_HLD.md:414`) | when `start()` of `storage_config_service` throws after its first worker, `deinitialize()` joins a worker whose flag nobody raised |
| `unix_socket_race` | "Only remove a stale socket that the server can prove it owns" (`docs/ELAP_Implementation_Architecture_OOP_Review.md:44`) | of two overlapping `listen()` calls one takes the other's bound socket, which does not listen yet, for stale and unlinks it |
| `timed_send_stalled` | "Add deadline-aware send, receive, accept, message-queue, and event-bus APIs." (`docs/ELAP_Implementation_Architecture_OOP_Review.md:107`) | a timed `sendMessage()` hands the rest to a `send()` that blocks (`platform/src/ipc/UnixSocket.cpp:109`): when the receiver stops reading it never returns |

One more divergence is between a document and a test and has no run:
`docs/ELAP_Phase1_HLD.md:549` lists "Deinitialization is called during cleanup", while `run()` does not call `deinitialize()` after an
`initialize()` that throws, which `tests/unit/service_application_tests.cpp:75`
asserts. `DeinitializedUnlessThrown` states what the code does.

Further points met while modelling; the models follow the code, and the
properties are stated so that they hold with it:

* a read error of the configuration file counts as its end, and
  `loadFromFile()` returns true with a part of it (`platform/src/config/KeyValueConfiguration.cpp:44`);
* `joinAll()` waits for the workers it took and not for those an overlapping call
  holds, against "joinAll() waits for all workers to exit" (`docs/ELAP_Phase1_HLD.md:564`);
* a getter of the database configuration answers with the default when its read of
  the store fails or the store is busy (`platform/src/config/DatabaseConfiguration.cpp:121`), as
  `docs/ELAP_Implementation_Architecture_OOP_Review.md:398` notes;
* each logger has a mutex of its own, so the two loggers of a process can mix
  their lines on the stream they share (`platform/include/elap/logging/ConsoleLogger.hpp:19`);
* `writeValue()` tests the stream before the value reaches the kernel, and
  returns true for a value sysfs refuses; so does `open()` for a direction it
  refuses, after which no write takes effect (`platform/src/device/GpioPin.cpp:82` and `:186`);
* an export that others make between `open()`'s `exists()` and its write to `export`,
  whose refusal goes unnoticed, is taken for the instance's own and unexported by
  `close()` (`platform/src/device/GpioPin.cpp:67`), against "Only unexport resources owned by the
  instance" (`docs/ELAP_Implementation_Architecture_OOP_Review.md:163`); `PriorExportsKept`
  is about the exports that `open()` finds;
* the time of a line is that of the system clock, and goes back when that is set back
  (`platform/src/logging/ConsoleLogger.cpp:18`);
* nobody notifies the condition variable of `waitForShutdown()`
  (`platform/src/signals/SignalHandler.cpp:31`); nothing calls it;
* a worker that calls `joinAll()` is detached and may outlive the manager
  (`platform/src/threading/ThreadManager.cpp:102`); none does;
* `put()` and `putBlob()` mean different rows by a key with a zero byte
  (`platform/src/storage/Database.cpp:83`).

## What is proved

TLAPS checks the following for every value of the constants, under the
assumptions named in the modules and those a theorem states as hypotheses (the
bound of a counter is a natural number; the capacity of a queue is one or more). Every
invariant and every action property of the passing runs is stated by a theorem.
Where a component has no proof module of its own, its proof is a section of the
one for the component it is checked with; a proof module extends the module of the run,
so that both speak of the same definitions. `PROJECT.json` lists all theorems.

* **`ServiceApplicationProofs`**: `DeinitializedUnlessThrown`, `ExitCodeNamesFirstFailure`,
  `NoStaleShutdown`, `TypeOK`, `CallOrder`,
  and that every step of `run()` is a step of `ServiceContract` or leaves it
  alone. None of these is inductive: the invariant `IInv` adds what each value
  of `pc` implies about the results so far (`Position`, `Cleanup`, `Outside`),
  that the call counters agree with the results (`Counted`), and the order of
  the results. `NoStaleShutdown` needs a second invariant, `StaleInv`, which
  relates the flag to `requested`.
* **`ThreadManagerProofs`**: `OneHolder`, `DestroyedClean` and
  `JoinAllWaits`, for any workers and clients, provided
  that `WorkerOps \subseteq {"requestStop"}`, which both services satisfy. With
  a worker that calls `joinAll()` the code detaches that worker, and
  `DestroyedClean` is lost by design. The inductive invariant adds
  to `OneHolder` that only started threads are held, that a local vector is empty
  outside `joinAll()`, that a joiner still holds the workers it owes its caller and
  that run, and what each step of the destructor finds (`Destruction`).
  Three lemmas about `Elements` carry the reasoning on sequences.
  *`ConsoleLogger`*: `LogReadable` for any threads and loggers: the lines of each logger
  are whole once those of the others are left out, and in the order of their times but for
  a clock set back. The invariant is about what a thread inside
  `log()` has written, which is the end of its stream (`Writes`), and about a stream
  that is whole but for its last line (`Readable`).
* **`HeartbeatProofs`**: `WorkersTracked`, for both services and any number of
  workers. `run()` and the manager know nothing of each other; `JoinsInside` says
  which calls of the manager the service is in where it is inside an operation, and
  `WorkersPlaced` what each place of `run()` says of the workers. A step moves
  `run()` or the manager and never both, hence one lemma for the first
  (`RunMovesPreserve`) and one for each way to move the threads. The hypothesis
  `OneRunAssumption` is what the `main()` of both services does.
  *`HealthMonitor` and `MemInfo`*: `HealthTrue`. What a `collect()` has copied is one
  of the moments since it began (`Copied`), and what it read later it read by that copy
  (`Collecting`). While every line so far had a unit the parser is at a
  key (`AtKey`); after the first that has none it is at the number of the line
  that follows, where its loop ends (`AtNumber`).
  *`Configuration`*: `ConfiguredAlike` and `WholeFilesOnly`. The two loads collect
  pairs in different ways, so the invariant compares each with the file and not with
  the other: the last pair collected for a key is the last line read for it
  (`Collected`), a value that came from a file is that of its last line
  (`FromFile`), and the lines read so far parse (`Reading`). The hypothesis on `NoText` says that
  it is the text of no value.
* **`UnixSocketServerProofs`**: `NamesTrue` and `RefusedForCause` for any
  number of processes,
  inodes and any backlog. The inductive invariant describes the calm system
  (`Calm`): at most one process is in a call, and alone where it counts
  (`Undisturbed`), what each step has seen of the path is still true
  (`PathKnown`), and one process listens at most (`OneListener`). It is guarded
  by `~overlapped`, and the proof has
  one lemma for the steps of `listen()`, one for those of `close()`, one for the
  rest.
* **`SampleIpcServerProofs`**: `NoConnectionLeaks` and `RepliesTrue`, for any
  clients and prefix and any size of header, payload and buffer. `EndsHeld` says which ends
  of a connection are open where its client and the listener are. For the bytes,
  `Streams` relates the two ends and the wire: what has been read, what is on the
  wire and what is still to be sent join up to the frame, or to a beginning of it once the
  sender has closed. So a step that moves a byte changes the pieces and not the
  whole.
  *`TimedSend`*: `SentTrue`, from the same idea for a sequence of messages:
  `Told` says which messages have been taken whole, `OnWay` that the rest of
  what was sent is on its way, and only the last message can be cut short.
* **`PersistentStoreProofs`**: `NoTransactionLeftOpen` and `BatchesWhole`, for any
  processes, threads, keys and values. The strengthening: an open
  transaction has a thread that will end it (`Held`), batches that share a
  connection are mixed (`SharedIsMixed`), and a batch that is not has in `work` the
  committed rows and what it has put so far (`BatchSoFar`).
  *`StoreCalls`* implements `AtomicStore`, for any set of threads of which no two share a
  process: a write takes effect at its COMMIT or its only statement, a read when it returns. The invariant
  (`CallsInv`) adds that the rows a read has stepped through are still those of the
  file, as the read holds its lock. That threads do not share a connection is a
  hypothesis the code needs: with two the store is not atomic.
  *`StoreText`*: `TextsKept`, under the hypothesis `PlainText` that no key
  or text has a zero byte, from the invariant that the stored bytes are the caller's
  (`RowsAreWritten`). That `keys()` lists every key in order needs that the collation is a strict
  total order of the strings, and that a finite set of strings has a listing
  (`ListingExists`, proved by a smallest counterexample, as induction is out of reach).
* **`EventBusProofs`**: `NamesKept` and `EventsInOrder`, for any processes,
  names, kernel objects and queue lengths. `Places` says what a process has at
  each place of a call, `Names` that only what has an owner is disowned.
  *`MessageDeadline`*: `DeadlineExact`, the arithmetic of
  `loadDeadline()` for every clock, timeout and unit, and `WaitsExactly`. The prover
  knows little of products and remainders; the first lemmas supply it. `SumsFit`
  bounds the nanoseconds by a 32-bit `long` whenever two seconds of them fit.
  *`SharedBytes`*: `CopiesTrue` for any region and word size. Nobody writes a byte
  whose last write is known (`KnownHolds`), a write has put its bytes where it is alone
  (`AloneHolds`), and a read that is alone has got the last ones (`ReadHolds`).
  *`MessageQueue`* implements `MessageChannel`, for any callers, texts,
  priorities and length. The channel holds a set of messages and hands out a first
  one; the queue is a sequence in strict order of priority and turn (`Ahead`). Inserting a message
  keeps the order (`SortedIn`), its place being an initial segment of those
  ahead of it (`InitialSegment`).
* **`DeviceProofs`**: `DevicesSound`, `OpenPinsExist`, `ExportsBalanced` and `PriorExportsKept`
  for any number of processes, whatever others export meanwhile. `ManagerOK` says what the loops of `openAll()` and its
  rollback have done when they are at `cur` (`Progress`), for each process, and a
  step of one leaves the devices of another (`StepsAreLocal`); `PinInv` says that
  whoever holds the pin is one of its users and that users know of each other, that the
  maker of an export knows it is to take it back, and that whoever is to take it back was
  there when it was made.
  *`MovableHandle`*: `ReleasedOnce` and `MovedWhole`, for any number of
  objects, where what is closed has no name (`ClosedHaveNoName`).
  *`PinValue`*: `LoneWritesTakeEffect`; a process that has met nobody else at the pin is its only
  user, and the direction is the one it set unless that was refused (`Alone`).
  *`FileTransfer`*: `BytesTransferred`; the bytes of a buffer on the line are as many as
  its writer has counted, in order (`SentIs`, `WrittenSoFar`).

Only model-checked: liveness, as liveness under fairness and `ENABLED` are beyond the
prover. That is `ShutdownHonoured`, the two liveness clauses of `ServiceContract` in
`ImplementsContract`, `DestructionCompletes`, `ShutdownCompletes`,
`CallsReturn`, `ClientsComeBack`, `StopCompletes` and
`LockReleased`. The violations under [findings](#findings) are counterexamples, and
need no proof.

## What is not modelled

* `waitForShutdown()` of `SignalHandler`: nothing in the repository calls it.
* The demonstration programs: each makes a fixed sequence of calls, and the
  modules of queues, regions, sockets and the store let any process make any
  such calls in any order, so a module of theirs would only show less.
* SQLite and the kernel: modelled only as far as the code depends on them, and
  marked external in the map.
* The trimming of configuration lines and of words, the conversions of numbers,
  the encoding of an event in a message, the cpu line of `/proc/stat`: pure functions with direct unit
  tests. Where they can fail, both outcomes are in the models.
* The wording of log lines and error strings, except which parts of a snapshot
  an error names.
* Keys with zero bytes, and lines of two loggers on one stream: there the code does
  not give what the properties say, as the findings tell; they are stated for the
  other cases, and for each logger.
* `std::filesystem::exists()` throwing in `GpioPin::open()`
  (`platform/src/device/GpioPin.cpp:29` and `:67`), which the error-less overload does when the path
  cannot be searched.
* The width of `time_t`: the seconds of a deadline (`platform/src/ipc/PosixMessageQueue.cpp:70`) are an
  unbounded number, the nanoseconds a 32-bit `long`.
* That a queue or region whose owner was killed can be removed by `open()` and `unlink()`:
  the steps are in `IpcObject`, and `NamesKept` leaves such names out.

## Plan

Done: the service runtime with its contract, threads and services, the Unix
socket path and its messages, the store with its atomic specification, the
names and messages of queues and regions with the abstract channel, deadlines,
moves, devices, configuration, logging and health, and the proofs above, which
cover every property of the passing runs but the liveness properties.

Left: for `UnixSocketServer` an abstract name service, and the refinement while
calls do not overlap.

## Conventions

Definitions keep the names of the source (`BeginListen` for the first step of
`listen()`, `threads` for `threads_`). Inside a module state comes first, then
`TypeOK` and `Init`, the actions, `Next`, the fairness, and the properties. An
operator preceded by "Mutant of X" is not part of the specification; it is there
to replace `X`. Run a configuration with
`tlc -config UnixSocketServer.cfg MCUnixSocketServer.tla`; `PROJECT.json` pairs
modules and configurations. Check proofs with `tlapm UnixSocketServerProofs.tla`.
