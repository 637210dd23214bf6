# Verification of storage_engine

TLA+ models of the storage engine in this repository, the TLC runs that check
them on small instances, and TLAPS proofs of the properties that matter most for
instances of any size. `PROJECT.json` is the machine-readable index: which
definition models which lines, which run checks which property, which mutation of
the code each property notices.

## 1. The system

| Part | Source | State | Operations | What is hard about it |
|---|---|---|---|---|
| Group commit | `src/src/db.cc` 74-265 | `writing_`, `groupCommitArmed_`, `stopWriter_`, `writers_`, `continuationsScratch_`, counters | `Put/Delete/Write(Async)`, `enqueueAsyncWriter`, `writerLoop`, `~DB` | two paths into `writeGroup`, which has no lock; notifications after the unlock; a timed window; coroutines resumed on the writer thread, where they may write again |
| Durable write path | `src/src/db.cc` 269-368 | `wal.log`, `walOffset_`, `nextSequence_`, `memtable_` | `Open`, `recover`, `writeGroup`, close | crash or power loss between any two steps, failed writes and syncs, what the page cache keeps after them |
| WAL format | `src/src/wal.cc` | bytes | `EncodeBatch*`, `Crc32C`, `DecodeLog` | torn tail or corruption; stale bytes behind the end; two encoders and two checksum routines that must agree |
| io_uring executor | `src/src/io/uring_executor.cc` | rings, `Operation`s in coroutine frames, completion thread | `init`, `WritevAndFDataSync`, `ReadAt`, `FDataSync`, `closeRing` | lifetime of frames against requests in flight, wrapping indices, SQPOLL wake-up, shutdown, an `init` that fails half-way |
| Coroutine task | `src/include/storage_engine/task.h` | promise, frame, `handle_`, `started_` | `run`, `co_await`, `final_suspend`, moves | the end of the coroutine on one thread, the destruction of its frame on another |
| MemTable | `src/src/memtable.cc` | 16 shards, caller's scratch | `ApplyBatches`, `Get`, `Stats` | a group is applied shard by shard under separate locks |
| WriteBatch, Status, helpers | `write_batch.cc`, `status.h`, `common.*` | none of their own | value types | - |

How they interact: a caller's coroutine awaits `WriteAwaiter`, which either makes
the caller the only writer or queues it for the writer thread. Whoever owns
`writing_` runs `writeGroup`: it encodes one WAL record for the group, runs the
`WritevAndFDataSync` task to its end (the completion thread resumes it), applies
the group to the MemTable, and advances `walOffset_` and `nextSequence_`. The
status goes to every writer of the group and the writer thread resumes them.
`Open` reads the log through the executor, decodes and replays it, and truncates
a torn tail.

What makes each part correct:

- group commit: exclusive use of the scratch, no write lost, duplicated or
  overtaken, no coroutine stranded or resumed twice, no lost wake-up, shutdown
  drains the queue and ends;
- write path: what was acknowledged is readable after any crash, nothing else
  appears, a group takes effect as a whole, memory and log agree, sequence
  numbers grow;
- both together: every caller gets the outcome of its own batch, every call and
  the destructor return;
- WAL: what was encoded is decoded, exactly the longest prefix of whole records
  is kept, last entry wins;
- executor: buffers outlive their requests, `Ok` means written and synced, the
  ring loses nothing, every operation and the shutdown come to an end, what was
  acquired is released once and not while in use;
- task: the result is delivered, no completion is missed, the frame has one owner
  and outlives its use;
- MemTable: applying shard by shard is last-wins and shows no intermediate value.

`hazards` in `PROJECT.json` lists the lines where each of these could go wrong.

## 2. The modules

| Module | Models | Composition |
|---|---|---|
| `DurableStore` | nothing in the code: the promise of a DB, a table and what a recovery may find | `WalStore` implements it |
| `WalPromise` | the refinement mapping from `WalStore` to `DurableStore` | extends `WalStore`, instantiates `DurableStore` |
| `Engine` | `DB` as callers meet it | extends `GroupCommit`, instantiates `WalStore`, and implements it |
| `GroupCommit` | group commit | `writeGroup` is its use of the scratch and a status |
| `WalStore` | `Open`, `recover`, `writeGroup` over a file with a page cache | uses the operators of `WalFormat` in one step |
| `WalFormat` | records, cells, what decoding and replaying a file yields | extended by `WalStore`, `WalBytes`, `MemTable` |
| `WalBytes` | the bytes of a record: little-endian fields, CRC-32C, both encoders | extended by `WalRecovery` |
| `WalRecovery` | `DecodeLog` and the replay loop on bytes, iteration by iteration | shows that the operators of `WalFormat` are what the loops compute |
| `MemTable` | sharded apply, `Get` and `Stats` | its reference is `ApplyRecord` of `WalFormat`, which `WalStore` uses |
| `UringExecutor` | the executor; the kernel is external | its `SubmittedSuccessIsSynced` is what `Writev` and `FDataSync` of `WalStore` assume, its `EveryOperationReturns` the fairness of `Engine` |
| `TaskRun` | the task type | its fairness of the body is `EveryCallReturns` and `EveryOperationReturns` |
| `GroupCommitProofs`, `EngineProofs`, `WalStoreProofs`, `UringExecutorProofs` | - | theorems about the modules they are named for |
| `ComponentProofs` | - | theorems about `TaskRun` and `MemTable` |
| `WalDurabilityProofs`, `WalCrashProofs`, `WalPromiseProofs` | - | further theorems about `WalStore`, each extending the one before; `EngineProofs` instantiates `WalDurabilityProofs` |

Definitions named `X_Something` directly before `X`, marked `Mutant`, are
plausible bugs in the code that `X` models. They take no part in the
specifications; `PROJECT.json` says which property notices which of them.

### GroupCommit

Every critical section of `writeMutex_` is one action; the intervals between them
(`writeGroup`, a notification after the unlock, user code in a resumed
continuation) are program counters, so other threads interleave. A condition
variable is the pair of program counters "evaluates the predicate" and "asleep";
a notification moves the second to the first, and so may a spurious wake-up.
`wait_for` has a fixed deadline: `WindowTimeout`. `Clients` issue one write at a
time; `AsyncClients` await it, so that their thread is free and their
continuation (`busy`) runs on the writer thread and may write again. `~DB` needs
what any destructor needs: no thread is inside a call. `issued` and `taken` are
history.

### WalFormat, WalBytes, WalRecovery

A record is its base sequence and its entries; in the file it is one cell for its
header and one per entry. A cell knows the record it was encoded from, so the
checksum matches exactly when all cells of the record are its own. `Zero` is a
cell of zero bytes. Bytes of an entry that are read as a header may say anything.
`Announced` is the length as the header states it, modulo `Limit32`: the code cuts
it to 32 bits.

`WalBytes` is the same format in bytes. It has both encoders
(`EncodeBatchFragmentsInto`, and `EncodeBatchInto` for groups of more than `IovMax`
buffers) and both checksum routines; an assumption checks them against the
published check value of CRC-32C. `WalRecovery` runs `DecodeLog` and the replay
loop on the bytes of a file that is put together from cells, and compares the
outcome with the operators of `WalFormat`. This is what justifies cells in
`WalStore`.

### WalStore and DurableStore

`WalStore` keeps two images of the file: `cache` is what `read` returns, `disk` is
what survives a power loss, `dirty` are the cells not yet written back. `faults`
says what may go wrong (see the head of the module); it is chosen from `FaultSets`
at the start and never changes, so that one run compares several environments,
and a property says for which of them it holds. "unordered" drops the
ordering between length and contents that journalling file systems in ordered
mode give. A single `writev` moves at most `MaxTransfer` cells (Linux: just below
2 GiB) and the assumption `MaxTransfer <= Limit32` says that this is less than a
length field can hold. A short read returns at least the first cell of the file.
Dirty cells are written back by a sync, in part by one that fails, and in any part
by a power loss; the kernel writes nothing back in between. `acked`, `issued`,
`settled` and `attempts` are history. When no DB is open its members have their
initial values, which loses nothing and keeps the state space small.

`DurableStore` has a table, at most one group on its way, `settled`, the last table
that is known to survive, and `attempts`, the groups that were handed over since
then, each with the table it was meant for. An acknowledgement settles the table.
A group that failed or was cut off stays an attempt, and a recovery may find it,
with all of its entries or none. Which attempts it finds together depends on the
environment:

- where the log is kept (`kept`, that is `LogKept`), `settled` and any attempts whose
  sequence numbers do not overlap, the newest entry of a key winning. More cannot
  be promised: a group that fails leaves its record in the file, the next life may
  put a record of the same size over it, and a power loss after failed syncs
  mixes the two images, so that a combination comes back that no DB ever had in
  memory;
- where moreover syncs do not fail and the file system keeps its order (`orderly`),
  only a table that the DB had or was about to have: `settled`, or an attempt
  applied to the table it was meant for.

A recovery that finds the disk and the page cache in agreement, or that ends with
a sync, settles what it found. The refinement mapping is the identity on `settled`
and `attempts`, and shows `mem` as the table while the DB is open.

### Engine

The actions of `GroupCommit` and `WalStore` run in one state. `InlineBegin` and
`WriterBegin` enter `writeGroup`: the group in `writeScratch_` is encoded by
`EncodeGroup` of `WalStore`, without its guard that no group is in flight. That
the guard holds anyway is `ImplementsWalStore`. Between begin and end
the steps of the write path interleave with those of callers and the writer
thread; the status is what the write path came to. `placed` remembers the sequence
numbers that the group gave to each client's batch, `returned` what callers were
told was written. The position of a batch in its group's record is the number of
entries before it (`Slots`, `FirstOf`); `EntriesOf` is the record that results.
A crash takes the callers with it; `Open` starts a new process.

### UringExecutor

A submission is three steps: publishing under `sqMutex` (one step: nobody else
changes the tail), `io_uring_enter` or the look at the SQPOLL flag, and the
unlock. `user_data` is the address of an `Operation` in a coroutine frame;
addresses are reused as `malloc` reuses them, so a late completion reaches
whoever lives there now. `seen` is the tail as the SQPOLL thread sees it: with
fault "reorder" it lags behind `tail` until the next locked instruction or system
call, which is what x86 and ARM permit for a release store followed by an acquire
load. The kernel takes requests in order, runs a linked pair in order, cancels
the second after a failed or short first, and posts completions in order. `init`
is a step for the descriptor and one for each mapping, any of which may fail;
`closeRing` then runs on what there is, and again from the destructor.

### TaskRun

The owner of the task and the coroutine are two actors; each access to the
promise outside its mutex is a step. Using the promise of a destroyed frame leads
to `"wild"`. `Slots` are places for Task objects, between which tasks that are not
started are moved.

### MemTable

A call of `ApplyBatches` is one step per entry (`Distribute`, which pushes the
update to the list of its shard) and one per shard (`ApplyShard`, under the lock of
the shard); `Return` is the advance of `nextSequence_` in `writeGroup`. Any state is
what `Get` may see. `Stats` walks the shards concurrently.

## 3. The runs

Passing runs:

| Run | Instance | Shows |
|---|---|---|
| `engine` | 1 blocking caller, 1 coroutine, 2 writes each, batches of one and of two entries that overlap; failing syncs, or process crashes; 2 opens | `ReturnedReadable`, `FailedInvisible`, `EveryCallReturns`, `DestructorReturns`, and the refinement `ImplementsWalStore` |
| `group_commit` | 2 blocking callers, 1 coroutine, 2 writes each, adaptive windows | `ScratchOwned`, `FifoNoLoss`, `SuspendedAccounted`, `NoLostWakeup`, `ShutdownDrains` |
| `wal_store` | 3 groups, 3 opens, four environments: failed writes and syncs, crashes, power loss on an unordered file system; crashes and power loss on an ordered one; failed writes and power loss; short reads, forgotten syncs, lost directory entries | `AckedReadable`, `SequenceAdvance`, `NoPhantom`, `MemMatchesLog`, `SequencesIncrease`, `CrashTailTolerated`, `VisibleIsDurable`, and the refinement `ImplementsDurableStore` |
| `wal_recovery` | every file of up to 4 cells of three records and zeros, every log of three records with one cell replaced; the last cell cut by 0, 1, 12 or 13 bytes; with and without SSE 4.2 | `KeepsLongestPrefix`, `StopsForTheReason`, `ReplayIsLastWins` |
| `uring` | 1 linked write, 1 single operation, `closeRing`; ring of 2, indices modulo 4; with and without SQPOLL; no faults, failing submissions, delayed stores, failing set-up without a shared mapping | `RingFifo`, `ReleasedOnce`, `MappedWhileUsed`, `BuffersAlive`, `SubmittedSuccessIsSynced`, `ResumedOnce`, `EveryOperationReturns`, `CloseTerminates` |
| `task` | a task that is run, one that is awaited, three places to move them between | `OwnedOnce`, `ResultDelivered`, `AwaitRunsToCompletion`, `EveryRunReturns` |
| `memtable` | 3 keys, 2 shards, 3 groups out of 4 kinds | `ApplyIsLastWins`, `NoIntermediateValue`, `SequencesGrow`, `StatsBounded` |

Runs in which the code does not do what the repository says (`findings`):

| Run | Statement | What happens |
|---|---|---|
| `group_commit_blocking` | synchronous methods run to completion (design, §3) | a blocking `Put` in a continuation waits for the writer thread it runs on |
| `wal_store_stale` | recovery truncates a torn tail (README) | the record of a failed sync, partly overwritten by a shorter one, makes `Open` return Corruption |
| `wal_store_read` | acknowledged writes are readable after recovery (design, §15) | a short read is taken for the whole log |
| `uring_stale` | success only after the sync (design, §8) | after a failed `io_uring_enter` the requests stay in the ring and complete a later task at the same address |
| `task_frame` | synchronous methods run to completion | `FinalAwaiter` uses the promise after its unlock |

The conditions on `faults` in the properties of the passing runs are needed.
Stated without them, over the environments that the conditions exclude, TLC
refutes:

- `TailTolerated` under power loss with "unordered": zeros behind the last record
  make `Open` return Corruption;
- `Readable` under "forget": a failed `fdatasync` whose pages the kernel marked
  clean, then a reopen that appends behind them, then a power loss;
- `Readable` under "dir": nobody syncs the directory of `wal.log`, although
  "directory entries are part of durability" (design, §8);
- `VisibleIsDurable` under "crash": recovery applies what only the page cache has
  and syncs nothing unless it truncates;
- `CrashTailTolerated` without `TransfersFit`: what a crash leaves of a group that is
  too large for one `writev` may look like corruption: its first cells stay
  behind the end of the log and a shorter record is written over some of them;
- `SequencesIncrease` without `LogKept`, on an instance with four groups: a group
  written over records that a short read missed is followed by an old record,
  whose numbers it has given away again;
- `orderly` of `DurableStore` under "sync", "crash" and "power": the group of a
  failed sync comes back in the place of the one written over it, together with
  the group that was written behind that one. (With "unordered" but without
  "sync" TLC finds no such recovery, nor with four groups; the clause is stated,
  and proved, for ordered file systems only.)
- `BuffersAlive` under "enter": the frame of a failed submission is destroyed
  while its requests are in the ring;
- `CloseTerminates` under "enter": `closeRing` cannot submit its NOP and joins a
  completion thread that nothing wakes;
- `EveryOperationReturns` under "reorder": no full fence lies between the store
  of the tail and the look at `NEED_WAKEUP`.

Bounds. Three clients give an inline writer, a queue behind it and a third that
arrives in between; two writes each let a resumed client write again. Target
sizes of two and three make windows close early, close by timeout and be skipped.
Three groups and three opens give a write before, between and after two failures;
groups of one and of two entries give records of different size, so that one can
partly overwrite the other. In `wal_store`, `Limit32` and `MaxTransfer` of three make
the group of three entries the one that is too large for a length field and for a
`writev`; in `wal_store_stale`, `wal_store_read` and `engine` they are nine, out of
reach of every group. In `engine` four groups are all that two
callers with two writes can make, so that no call is cut off by the bound. Four
cells hold two records, and the logs of three records put the damage before,
inside and behind a record. `IovMax` of four sends one of the records through the
second encoder; a cut of 12 bytes off a header leaves exactly the record header,
of 13 one byte less, and of one byte off an entry a value or a key that is too
short. A ring of two is full with one linked pair, and the four requests
of a linked write, a single operation and `closeRing` take its indices once
around. `uring_stale` needs a ring of four, in which the left-over pair does not
block the next one. `MaxWrites`, `MaxGroups`, `MaxOpens` are the named bounds; the
others are the sizes of the constant sets.

Fairness. Weak fairness for each thread that is inside the engine, for the
timeout of `wait_for`, for the kernel completing what it took, and for an awake
SQPOLL thread: operating system scheduling gives no less. None for callers (nobody
has to write), spurious wake-ups, faults, or the SQPOLL thread going to sleep.
`Engine` adds that the steps of `writeGroup` are taken, which is what
`EveryOperationReturns` and `EveryRunReturns` show of the executor and of `run`.

Deadlock is checked wherever the system must not stop. It is off in
`group_commit_blocking`, which is about a halt, and in `uring` and `uring_stale`: with
failing submissions `closeRing` may wait for ever. That nothing halts without
faults is `EveryOperationReturns` and `CloseTerminates`.

## 4. What is proved

All theorems hold for every value of the constants that the named assumptions of
the modules allow: any finite set of clients or coroutines, any number of writes,
groups and restarts, any set of faults, any size of a ring. Each rests on an
inductive invariant. The type invariants of `GroupCommit`, `WalStore` and `TaskRun`,
and `GroupSharesFate`, `StatsAgree` and `NoMissedCompletion`, are proved and not
repeated in a run.

**Group commit** (`GroupCommitProofs`, from `GroupCommitAssumption`): `TypeOK`,
`ScratchOwned`, `FifoNoLoss`, `SuspendedAccounted`, `NoLostWakeup`,
`GroupSharesFate`, `ShutdownDrains` and `StatsAgree`. None of `ScratchOwned`,
`SuspendedAccounted` and `ShutdownDrains` is inductive. `IInv` adds:

- `Ownership`: `writing_` is set exactly while one party holds it, either the
  writer thread between its claim and `WriterFinish` or a single client on the
  inline path. The predicate of `wait` lets the writer thread pass while `writing_`
  is set if `stopWriter_` is, so this needs
- `Stopping`: once `stopWriter_` is set no caller is inside the engine, except a
  continuation on the writer thread itself;
- `WriterLocals`: `group`, `conts` and `busy` are non-empty only in their part of
  `writerLoop`.

**Composition** (`EngineProofs`, from `EngineAssumption`): `EngineImplementsWalStore`.
`EInv` is `IInv`, that the writer thread never drains an empty queue (`NonEmpty`), and
that the write path is busy or has an outcome only while a thread is inside
`writeGroup` (`WalSide`). A thread that enters `writeGroup` finds nobody there by
`Ownership`, so the write path is idle and the step is a `WriteGroup` of `WalStore`;
`~DB` joins the writer thread first, so closing the file is a `Close`. Every theorem
about `WalStore` therefore holds of the write path under concurrent callers.

`ReturnedReadable` and `FailedInvisible` carry this to each caller. `CallerInv`
combines `EInv`, `ScratchOwned`, `DurInv` of the write path (below) and `CallInv`: the
record in flight is made of the batches in `writeScratch_` (`Carried`), `Ok` goes only
to callers whose entries, numbers and values, are the acknowledged ones or were
replaced by newer ones (`OkInv`), an error only to those whose
entries are not in the memtable (`ErrorInv`). That a batch stands in its group's
record in one piece, at the numbers `placed` notes, is a counting argument about
`Slots` (`EntriesPlace`). `FailedInvisible` is proved under `Distinct`, that no two
clients write the same value to the same key: `nextSequence_` does not advance on a
failure, so the next group may give the very same entry to somebody else. The
batches of the run satisfy it.

**Log and memory** (`WalStoreProofs`, from `WalFormatAssumption` and
`WalStoreAssumption`): `TypeOK`, `MemMatchesLog` and `NoPhantom`, in every
environment, faulty storage included. `LogInv` says that while a DB exists the
first `walOffset_` cells of the file are whole records whose replay is the
memtable (`LogHead`), that a group that was written stands behind them
(`InFlight`), and that both images of the file consist of cells of records that
were handed to `writeGroup` (`FileInv`). Its core are lemmas about the operators of
`WalFormat`: replaying a prefix depends only on its cells (`SameReplay`), appending
a record to a valid prefix is applying it (`ExtendReplay`).

**Durability** (`WalDurabilityProofs`): `AckedReadable`, `SequenceAdvance` and
`SequencesIncrease`, with the invariant `DurInv`. The
argument is about an anchor, the end of the log at the last acknowledgement.

- Up to the anchor `cache` and `disk` agree for good, replaying that much gives
  what was acknowledged or something newer, and recovery always finds at least
  that much.
- Behind the anchor may stand remains of any number of failed groups, from
  several lives of the process, one over the other, on disk in any mixture.
  Recovery may find whole records among them. They must not be older than what
  was acknowledged, and here the numbering of the code matters: `recover` goes on
  with one number more than the entries need, and a record has one cell more than
  it has entries. So the base of a record behind the anchor is determined, up to
  one, by how many cells lie between the anchor and its start (`Follows`), whoever
  wrote it and in which life. `nextSequence_` obeys the same rule (`Placed`), and
  the bases stay above every acknowledged number (`Rooted`). The same rule orders
  the records behind the anchor among themselves, which is `SequencesIncrease`.

`LogKept` is needed: under "read", "forget" and "dir" the properties are false.

**Crashes** (`WalCrashProofs`): `VisibleIsDurable` and `CrashTailTolerated`. A power
loss may leave any mixture of `cache` and `disk`, so the invariants are about all
mixtures (`Mixed`).

- `OrderInv`, for ordered file systems and syncs that succeed: whole records at the
  front of a mixture stand at the same place in the page cache (`NothingNew`), and
  behind the end of the log are only remains of incomplete records (`Remains`). So
  recovery finds what the process had, or that and the group in flight
  (`Promising`).
- `Drained`, without process crashes: nothing that the memtable was built from, or
  that recovery would find, is dirty. It gives `VisibleIsDurable`.
- `TailInv`, for crashes and power losses: cells that differ between the images, or
  stand behind the log, are of groups too large for a `writev` (`OversizeOnly`); a
  mixture without such cells consists of whole records and the beginning of one
  (`MixedWhole`), and `Open` refuses no such file. It gives `CrashTailTolerated`.

**Refinement** (`WalPromiseProofs`): `ImplementsDurableStore`, in every environment,
from `OrdInv` (`DurInv`, and `OrderInv` where it applies). The step that needs work is
`Open`: what it replays behind the anchor are records of attempts with growing,
disjoint numbers, so the replay is the settled table merged with those groups. The
other steps map to `Begin`, `Acknowledge`, `Fail`, `Shut` or a stutter.

**Task** (`ComponentProofs`, from `TaskAssumption`): `TypeOK`, `OwnedOnce`,
`ResultDelivered`, `NoMissedCompletion` and `AwaitRunsToCompletion`. `TaskInv` ties
the positions of the coroutine and of its owner together (`Together`), says that an
awaited coroutine has a continuation and its owner goes on only by the transfer
(`Awaiting`), and that a frame exists exactly while one object holds it
(`Handles`). `RunRunsToCompletion`, the same for `run`, is false (`task_frame`).

**MemTable** (`ComponentProofs`, from `WalFormatAssumption` and `MemTableAssumption`):
`TableTypeOK`, `ApplyIsLastWins`, `NoIntermediateValue`, `StatsBounded` and
`SequencesGrow`, for every number of shards and every `shardFor`. `TableInv` says that

- the scratch list of a shard that is still to come holds exactly the entries so
  far that belong to the shard, in the order of the group (`Lists`), and the other
  lists are empty (`Scratched`). It is kept by `push_back` (`ListsAppend`) and by an
  entry that goes elsewhere (`ListsSkip`);
- the shards behind the loop hold what the group leaves, the others what it found,
  and that is older than the group (`Halfway`). The step is `AppliedIs`: the last
  update of a key in the list is the last entry for it in the group;
- the keys that `Stats` has counted are still there, and those that were there when
  it began are counted or in a shard to come (`Counting`), since a step only adds
  keys.

That `Keys` is finite is needed to count entries at all; keys are strings whose
length the log stores in a 32-bit field.

**Executor** (`UringExecutorProofs`, from `UringAssumption`), in three layers:

- `HeldInv` follows the executor through `Creating`, `Failed`, `InUse` and `Gone`, for
  every set-up, submission and wake-up that fails: `ReleasedOnce` and
  `MappedWhileUsed`.
- `RingInv`, for every ring size and index width and also when `io_uring_enter` fails:
  the indices stay within their width, their difference modulo the width is the
  number of pending requests, and the slots between them hold these in order:
  `TypeOK` and `RingFifo`. Its core is that publishing into a ring with enough room
  touches no pending slot (`PublishKeeps`).
- `WayInv`, as long as `io_uring_enter` succeeds: an operation is at one place of its
  way from the ring to the kernel to the completion queue, the `writev` of a pair
  ahead of its `fdatasync` (`Shape`); neither the SQPOLL thread nor `io_uring_enter`
  cuts a pair in two (`Boundaries`); whatever is on its way belongs to a frame whose
  coroutine was not resumed (`Alive`, `Frames`); and a success that is passed on was
  done by the kernel (`Evidence`). `BuffersAlive`, `ResumedOnce` and
  `SubmittedSuccessIsSynced` follow. None of them is inductive: that the completion
  of an `fdatasync` is the last one of its frame needs all of the order, and that it
  reaches the right frame needs that no live frame shares an address.

Only model-checked:

- liveness (`EveryCallReturns`, `DestructorReturns`, `EveryOperationReturns`,
  `CloseTerminates`, `EveryRunReturns`), which needs fairness and ENABLED, both
  outside the prover;
- everything in `WalRecovery` and `WalBytes`: these compute by recursion over
  bytes, and what a recursion computes for every input is an induction over data.

## 5. What is not modelled

- The arenas and the copies of `WriteBatch`, `Status` and `Result`, timing counters
  and capacities, error texts: no property tells their states apart.
- Integer fields beyond 16 bits in `WalBytes`; the wrap of the length field is in
  `WalFormat`, on cells. Collisions of CRC-32C: `WalRecovery` meets none among its
  files, and `WalStore` has none.
- Write-back in the background: in `WalStore` dirty cells reach the disk at a sync or
  a power loss only, so what a failed `writev` left in the file cannot become
  durable between the failure and the writing of the next group over it.
- A partial result of `io_uring_enter` (one of two requests taken). Its effect is
  that of a request that stays in the ring, which `uring_stale` shows.
- Moves and destruction of a `Task` that is started, which the repository does not
  do, and the lifetime of the buffers behind the `string_view`s of `PutAsync`,
  which is the caller's.
- The two capacities of `walRecord_` in `DebugStatsForTest`: it holds `writeMutex_`,
  `writeGroup` changes the vectors without it. They are diagnostic numbers.
- Benchmarks and tests, which are clients of the engine. SSTables, manifest,
  iterators and compaction are in the design document and not in the code.
