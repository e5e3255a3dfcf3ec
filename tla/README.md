# A TLA+ model of cubrid-backup-api

`cubrid-backup-api` is a C library that lets a program take an online backup of
a CUBRID database as a stream, and write the stream back to a file. This
directory holds TLA+ specifications of the library, TLC instances that check
them, and TLAPS proofs. Source paths below are relative to the repository.

## 1. Inventory of the system

| Part | Source | State | Operations |
|---|---|---|---|
| API gate | `src/backup_api.c`, `src/backup_core.c` 8-234 | `backup_api_once_initialize`, `backup_api_once_finalize`, `backup_api_state`, its mutex | the eight `cubrid_*` calls; `check_api_call_sequence` admits or refuses each one and moves the API state |
| Handle manager | `src/handle_manager.c` | one static `BACKUP_HANDLE` and one static `RESTORE_HANDLE`, a mutex in each | `alloc_handle`, `free_handle`, `validate_handle`, start and stop |
| Backup life cycle | `src/backup_core.c` 438-585, 944-1086 | the FIFO's path and descriptor, thread id, thread state, `is_cancel` | `begin_backup`, `end_backup`, make, open, close and remove the FIFO |
| Backup reader | `src/backup_core.c` 1088-1274 | loop index and bytes read, local to the call | `read_backup_data`, `read_data`, `read_fifo` |
| Backup worker | `src/backup_core.c` 736-942 | a thread per backup | `execute_backup`, `check_backup_process_status`, `kill_process_group` |
| `cubrid backupdb` | external, argument vector in `src/backup_core.c` 587-734 | a process per backup | opens the FIFO, writes, exits |
| Restore service | `src/backup_core.c` 356-436, 1277-1559 | restore descriptor and level | `begin_restore`, `write_backup_data`, `end_restore` |
| Options | `src/backup_manager.c` 349-763, `src/backup_core.c` 236-354 | default options | parse `cubrid_backup.conf`, merge with the options of a call |
| Backup manager | `src/backup_manager.c` 1-347, 765-839 | directories, log file, `io_size` | start, stop, log |

How they interact: the program calls the API gate; the gate changes the API
state before the work of `begin` and after that of `end`; `begin_backup` takes
the static handle, makes the FIFO and creates the worker; the worker forks the
utility and waits for SIGCHLD with a one-second `sigtimedwait`; the utility
writes into the FIFO; `cubrid_backup_read` reads it, and learns the end of the
backup from the thread state that the worker leaves in the handle. Program and
worker share that handle without a lock: the mutex in it is only ever taken by
program threads.

What is hard here:

- three actors (program, worker, utility) and the kernel's FIFO and signals, in
  any interleaving, on one static handle that successive backups reuse;
- the end of a backup is inferred from two separate observations, an empty FIFO
  and a thread state;
- a signal is the only news of the utility's exit, and may be lost, interrupt
  another wait, or come late;
- cancellation: `end` and `finalize` set a flag and join the thread, which must
  see the flag, tell the utility to die and leave;
- error paths that undo part of an initialization or of a begin;
- one FIFO path for every backup of a database and level.

- several program threads may be in the library at once: the API state is checked
  before the handle's mutex is taken, and the two are given up in another order;
- `free_handle` takes a busy mutex for success and unlocks it, and `end_backup`
  unlocks once more;
- a restored file outlives the program, which may die inside a `write`;
- `errno` of one call of the C library is still there when a later one is judged.

What makes each part correct: the gate admits exactly the documented sequences
and can always be torn down and set up again; a handle is reset only when no
thread uses it; every path through a call gives the mutex back; no descriptor or
utility is left behind; a cancellation reaches the worker it is meant for and no
other; each utility writes its own FIFO; a reported end of backup stands for a
successful utility; every call returns; a restored file is what the program was
told it is; the options of a backup are those the file declared and the caller
gave; and threads that share a handle work on it one at a time. The list of hazards in
`PROJECT.json` gives the line where each of these could go wrong.

## 2. The modules

| Module | What it is |
|---|---|
| `BackupService.tla` | The online-backup half of the library: gate, backup handle, begin, read, end, finalize, worker, utility, FIFO and SIGCHLD |
| `BackupStream.tla` | What a backup promises: streams that are kept apart. `BackupService` implements it |
| `RestoreService.tla` | The restore half: gate, restore handle, begin, write, end, and the program's death |
| `RestoreFile.tla` | What a restore promises of the file. `RestoreService` implements it |
| `BackupManager.tla` | Initialization step by step, `cubrid_backup.conf`, the merge of options, the command line of the utility |
| `LibraryThreads.tla` | Several program threads: both services' calls, the API state, the mutexes, the worker |
| `MC*.tla` | Constants of the TLC instances |
| `*Proofs.tla` | Theorems and their proofs, one module per component; `BackupStreamProofs` is the refinement of `BackupStream`, `BackupProgressProofs` why the waiting calls come back |

The four component modules overlap in the gate and in the handles and each one
abstracts what another has in detail: `LibraryThreads` has the lock steps and no
data, `BackupService` and `RestoreService` one caller and its data,
`BackupManager` one caller and its options.

### BackupService

A *session* is one FIFO made by `make_fifo`. Its number names the inode, the
descriptor opened on it, and the worker and the utility started for it, so a
confusion of two sessions is visible: `fifo_fd`, `backup_thread`, `fifo_path`
and `out[s]` (the FIFO utility `s` has open) hold session numbers.

| Variables | In the code |
|---|---|
| `backup_api_state`, `once_initialize`, `once_finalize` | `backup_core.c` 8-12; `TRUE` when the once control has run |
| `backup_thread_state`, `is_cancel`, `fifo_fd`, `backup_thread`, `backup_mutex` | fields of the static `BACKUP_HANDLE` |
| `fifo_path`, `open_fds`, `fifo`, `session` | the inode at the path, read descriptors open in the program, contents of each FIFO, FIFOs made so far |
| `worker` | the worker's program counter, `none` before it is created, `exited` after |
| `child`, `status`, `out`, `written` | the utility: life cycle, exit status, open FIFO, units written |
| `pc`, `iter`, `total` | the call in progress and the locals of `read_data` |
| `ended`, `lost` | history: a read of the latest session has returned `SUCCESS`; the units of each session that a read took out of the FIFO before it failed |

A call is split where another actor can come between and be noticed: a read into
its check of the thread state, each `select`/`read` pair and its second look at
the thread state; a begin into what it does before and after `pthread_create`;
an end or a finalize into cancellation, join and closing. A refused call changes
nothing and has no action, with two exceptions that do change something:
`InitializeFails` and `FinalizeRejected`, whose error paths run the finalizer.

The worker is `WorkerForks`, `WorkerWaits` (install the handler, enter
`sigtimedwait`), `WorkerTimesOut`, `WorkerInterrupted`, `WorkerKills`, `WorkerReaps`
(`waitpid` and the verdict on the status), `WaitpidInterrupted` (it returns EINTR,
which ends the worker with EXIT_WITH_ERROR and the utility as it is), `WorkerExits`
(store the thread state and leave). The two states `enter` and `sigwait` matter:
SIGCHLD wakes the worker in the second only.

Data is abstracted to units: `BufferSize` and `IoSize` are the buffer of a read
and `backup_mgr->io_size`, `PipeCapacity` is the FIFO, `Units` a complete backup.
`total_read_len` is an `int` and the buffer size is unsigned: `ToInt` wraps the count
at `IntMax`, and a buffer may have up to `2 * IntMax + 1` bytes. A read that fails
after it has taken data returns no `data_len`; its units are in `lost`.

`Env` says which hazards the environment may produce: `reinit` (initialize when
already initialized), `spawn_fail` (`pthread_create` or `fork` fails),
`exec_fail` (`execv` fails in the child), `vanish` (the FIFO is unlinked by
somebody else), `eintr` (a signal other than SIGCHLD interrupts a wait), `stop`
(the utility is stopped and continued). A failing call of the backup manager, a
refused `open`, a failing utility and one that never ends are always possible.

Assumptions:

- Linux: SIGCHLD is offered first to the thread that forked, and after that
  thread has ended to the program's main thread; a signal whose disposition is
  the default (ignored) or the empty handler is lost. `setpgid` succeeds, so
  `killpg` reaches exactly the program and the utilities it has forked.
- A killed utility dies some time after `killpg`, not at once. It does not write
  on: its signal is pending and SIGTERM is not caught by it.
- `pthread_mutex_init` and the mutex operations do not fail.
- One program thread (several are in `LibraryThreads`); one database and level,
  so one FIFO path. The program may call in any order and may abandon a backup by
  finalizing. It does not die.
- The state INITIALIZING is not seen by a single caller and is left out. So is
  RESTORE_SERVICE: the restore calls share only the gate with this module.
- `fifo_fd` is 0 until the first begin, as the handle is static storage; `Stdin`
  is that descriptor.

### BackupStream

A session of `BackupService` is a backup of `BackupStream`. The mapping is at the
end of `BackupService.tla`: what was produced for a session is `written`, what the
program was given is what was written and is not in the FIFO, not in the hands of a
read in progress and not lost by one that failed, and a session is finished when the
status of its utility is zero. `lost` is a variable of both, so a gap is visible:
data is delivered when a read returns it (`Deliver`) and lost when that read fails
(`Lose`). So `StreamsApart` says that data never moves from one backup to another,
is never invented or delivered twice, that a gap comes only of a read that failed,
and that the end is reported only of a backup that is complete. It does not say that
all was delivered by then; `last_data_lost` shows that this is false.

### RestoreService and RestoreFile

| Variables | In the code |
|---|---|
| `backup_api_state`, `once_initialize`, `once_finalize` | as in `BackupService`; `BACKUP_SERVICE` is there so that the two services exclude each other |
| `restore_type`, `backup_level`, `restore_fd` | fields of the static `RESTORE_HANDLE`, with their values at load time (`RESTORE_TO_DB` is 0, and so is the descriptor) |
| `open_fds`, `target`, `opens`, `file` | open descriptors; the level each opened file is for; files opened so far; contents of the file of each level |
| `acked`, `clean` | history: the blocks of this restore that were acknowledged, and whether every call succeeded |

A block is a number with a length; a file is a sequence of pieces of blocks. A
`write` may fail, or transfer any part of the block up to `MaxTransfer` (`write(2)`
transfers at most 2^31 - 4096 bytes, and less when the disk is full). The comparison
of the result with `data_len` is done as in the code, unsigned, so a block of
`UINT_MAX` bytes would take an error for success; `RestoreAssumption` excludes a
block of that length, and an empty one. `WriteAccepted` has the order of the code:
the range of the level, the type of the restore, the level of the handle.
`ProgramDies` may fall inside a write, which then leaves a piece of a block;
everything in memory is as at load time, the files are not. `Reinit` lets the
program initialize twice.

`RestoreFile` has the file, the level being restored and the acknowledged blocks:
a restore starts with an empty file, a block is appended whole and acknowledged,
or in part and not acknowledged, and nobody touches another file. `active` is
mapped to the level of the latest open while the API is in restore service. The
property `KeepsPromise` is this refinement.

### BackupManager

`stage` says how far `cubrid_backup_initialize` got: `down`, `log` (the log is
open), `home` (the backup home is made), `reading` (the loop of `read_option`),
`conf` (the file is read), `ready`, and `backup` between a begin and its end. Each
step of `start_backup_manager` is an action, and each may fail, with the error path
(`stop_backup_manager`) as part of the failing action.

`torn` is what a second initialize leaves (`InitializeRefused`): the gate refuses it
before `start_backup_manager`, so its error path only runs `finalize_backup_api`.
The API state is NOT_READY, log and home are as they were, a worker still runs. The
next initialization starts there: it opens another log and reads the file again.
`worker` says that a worker has still to make its command line; it may do so at any
stage after that. `reread` remembers that the file was read again first:
`execute_cubrid_backupdb` takes three options from the manager, which are then
another file's.

A line of the file is what the patterns of `read_option` take it for: a header, a
pair, or neither. `OpenConf`, `ReadLine` and `EndOfConf` are the loop, one line a
step: `at` counts the lines read, `section` is `read_state`, and a refused line ends
the initialization with the options half changed. The file is not edited meanwhile:
the first `fgets` takes the whole of a small file into its buffer. A `regcomp` that
fails is `InitializeFails` before the first line. `Valid` and `Declared` say what the
first lines of a file mean without reading them in order; `OptionsDeclared` and
`VerdictRight` compare the two in every reachable state. `erange` is the one bit
of `errno` that matters: `set_int_value` does not clear it before `strtol` and
tests it after; `mkdir` of a home that is there already overwrites it.

The command line is a sequence of words and numbers, built as in
`execute_cubrid_backupdb` from the handle and, in part, from the manager.
`Understood` reads it the way the utility does (external), and `CommandIsWanted`
compares that with what the caller and the file ask for.

Abstracted: the candidate directories of the home are tried in an order; which is
the first usable one is a choice. A missing file reads as an empty one. Texts are
model values; `Number` says which are made of digits and what they stand for.
Failing to log may change `errno`, in one direction.

### LibraryThreads

Each call of each thread is split where another thread can come between: the check
of the API state, the mutex, the steps of `begin_backup` (handle, FIFO, thread
state, `pthread_create`), the reset, the unlock, and the move of the API state. `pc` and
`service` say where a thread is and of which service; `open` has the job whose FIFO or
file the handle holds, `got` the one a read or a write saw when it began.

What programs do. A program uses or ends a service only after its begin has
returned, since before that it has nothing to use; one thread initializes. Of the
other combinations `Overlaps` names four that the program may or may not keep
apart: `read_end`, `write_end`, `end_end` and `finalize` (beside anything else). All
the rest may overlap: begins of the two services, reads with reads, an end with a
begin of the other service. The threads run allows `write_end` as well. The others
break something: `read_end` breaks `MutexHeld` (the second unlock of
`end_backup` may release the mutex of a read that was let in), `end_end` breaks
`ReadyMeansFree`, `finalize` breaks `WorkerHasPath`. The last contradicts a comment of
the code and is a run of its own; of the other two the repository says nothing.

Abstracted: a check of the API state with its transition is one step, as the state
mutex makes it one; that `finalize_backup_api` destroys that mutex is undefined
behaviour and left out. A mutex unlocked by a thread that does not hold it is
released, which is what the default mutex of glibc does. A `pthread_create` may fail
(`CreateFails`); the join of the thread that was not created (`BeginJoinsNobody`) is a
step that may be taken or never. A join between the thread state and `pthread_create`,
which only a finalize of another thread can reach, returns at once. The failing
unlink of `end_backup` and all data are in `BackupService`.

## 3. The runs

| Run | Expectation | Question |
|---|---|---|
| `core_safety` (`CoreSafety.cfg`) | pass | Do handle, worker, utility and reported end stay consistent over two backups, with failing threads, forks and execs and a vanishing FIFO? |
| `core_live` (`CoreLive.cfg`) | pass | Do end, finalize and read return, whatever the utility does (short of being stopped)? Is every backup a stream of its own? |
| `core_hazards` (`CoreHazards.cfg`) | pass | What holds under every hazard, a second initialize, EINTR in every wait and stops included? |
| `restore` (`Restore.cfg`) | pass | Is a restored file what the program was told, over short writes, refused calls and deaths? |
| `manager` (`Manager.cfg`) | pass | Are options, verdicts on files and command lines right while an administrator edits the file and initializations fail or are refused? |
| `threads` (`Threads.cfg`) | pass | Do four threads share the two handles soundly? |
| `last_data_lost` | violation | Is everything read when SUCCESS is returned? |
| `exec_failure` | violation | Does SUCCESS mean that a backup was made? |
| `exit_missed` | violation | Is the exit of the utility always noticed? |
| `reinitialize` | violation | Is a second backup refused while one runs? |
| `stopped_utility` | violation | Does end return when the utility has been stopped? |
| `finalize_race` | violation | Is the utility always started with a path when another thread may finalize? |

Properties of the backup half:

- `WorkerOwnsHandle`: at most one worker lives; it is the one that would be
  joined, the handle says RUNNING and still holds its FIFO. This is what keeps
  the unlocked sharing of the handle sound.
- `CleanBetweenBackups`: when a begin is admitted, or the library is down, no
  thread, no utility that was not told to die, no descriptor and no cancellation
  is left.
- `EndMeansExitZero`: SUCCESS from a read implies exit status 0 of this
  session's utility, however cancellations, failures and retries interleave.
- `FdAccounted`: every open descriptor is the handle's (descriptor 0 apart).
- `OwnFifo`: a utility writes only into its own session's FIFO although it opens
  it by a shared name, possibly late.
- `NoOrphanBackup`: a worker ends only when its utility is dead or told to die. It is
  false where a utility may be stopped and the `waitpid` that then waits for its
  death may be interrupted: hence its place in `core_safety` and not in
  `core_hazards`. No document of the repository speaks of signals.
- `BufferNotOverrun`: no read asks for more than is left of the buffer, or for a place
  before it.
- `TeardownArmed`: the once controls and the API state agree between calls.
- `MutexMatchesCall`: the mutex is held exactly during a call, on error paths too.
- `CancelSticky` (action property): a cancellation is never taken back while a
  worker lives.
- `StreamsApart` (refinement): `BackupService` implements `BackupStream`.

Of the restore half:

- `ServiceHasFile`: in restore service the handle has an open file of its own
  level. Otherwise a write would be acknowledged and go nowhere, or elsewhere.
- `FdAccounted`: no restored file stays open after its restore.
- `CleanRestore`: if every call succeeded, the file is what the program wrote, block
  for block and nothing older.
- `KeepsPromise` (refinement): `RestoreService` implements `RestoreFile`.

Of the manager:

- `OptionsDeclared`: the options in force are those the file declared when it was
  accepted; nothing of an earlier or refused file is left in them.
- `VerdictRight`: an accepted file is valid, and a valid one is refused only by the
  initialization that made the backup home. There a stale ERANGE, of the program
  or of an earlier refusal, survives.
- `DownIsClean`: whichever of its own steps made an initialization fail, log and home
  are undone, also after a refused one; the refused one leaves both in place, and a
  backup has both.
- `ArgvFits`: the longest command line and its null pointer fit.
- `CommandIsWanted`: the utility is asked for what caller and file want; of the three
  options that come from the manager only if the file was not read again meanwhile.

Of the threads:

- `MutexHeld`: the thread that works on a handle, and no other, holds its mutex.
- `ReadyMeansFree`: when a begin is admitted no FIFO, file or worker of an earlier
  one is left, however late other threads are.
- `UseUndisturbed`: the descriptor a read or a write works on stays the handle's, and
  there is one, except for a write that the program lets overlap its `restore_end`:
  that one may find a handle that was reset, and is acknowledged.
- `WorkerHasPath`: a utility is never started with a destination that was reset.

Liveness, under `FairSpec`: `CancelTerminates` and `ReadReturnsToCaller`.
Fairness is weak fairness of the steps of a call in progress and of each
worker's steps. The code justifies it: both are threads the system schedules, and
each of their waits has a timeout (two seconds in `select`, one in
`sigtimedwait`) except `pthread_join` and `waitpid`, which are actions enabled
only when what they wait for has happened. Nothing is assumed of the utility, of a
stray signal or of the program's next call.

Bounds. Two sessions are enough for everything here that relates one backup to
another, since the handle remembers one only. `BufferSize = 3` and `IoSize = 2` give
one full read and one remainder, so the loop, the remainder and a partial fill at
different offsets all occur. Units 2 and capacity 2 (1 in the hazard and liveness
runs) give empty, partly filled and full FIFOs, and a writer that blocks. In the
hazard run a buffer is one full read: its two properties do not depend on the loop.
`IntMax` is the size of the buffer, the largest for which `BufferNotOverrun` holds.
`CHECK_DEADLOCK FALSE` stands in `CoreSafety.cfg` and `CoreHazards.cfg` because
`spawn_fail` includes the join of a thread that was never created, which may never
return. `CoreLive.cfg` checks deadlock.

The restore run has two levels, so that the file of another level and a level out of
range both occur, two restores, so that one may be of the same level or of another
than the one before it, and blocks of length 1, 2 and 5, of which the last exceeds
one `write`. `UIntMax = 7` is where a length wraps.

The manager run has 28 files of up to six lines: headers of both cases and sections,
each followed by pairs that are good, of another section, out of range or no number,
two pairs about one key, pairs under two headers, and one that sets all that only
the file can set. The two places for the home are symmetric. One worker at a time
has its command line to make; the second one beside it that a refused initialize
makes possible is in `BackupService`. INT_MAX is 100 and LONG_MAX 1000, so that
numbers that fit, that fit a `long` only, and that do not fit, all occur.

The threads run has four threads, enough for one that ends, one that is late, one
that begins anew and one of the other service, and three jobs. Threads are
symmetric. `finalize_race` needs two threads and one job. All runs but the two
named above check deadlock.

The six violations are disagreements between the code and what the repository
says of it; `PROJECT.json` quotes each statement. In short: SUCCESS can be
returned with data still in the FIFO (the thread state is read after the empty
read); a failing `execv` ends the child with status 0 and so counts as a
successful backup; a SIGCHLD outside `sigtimedwait` is lost, and the worker waits
until it is cancelled; the error path of a refused initialize tears the gate down
under a running backup; a stopped utility leaves the worker in `waitpid`, deaf to
cancellation; a finalize between the opening of the FIFO and the change of the thread
state resets the path the worker is about to use, which the comment at that place
wants to prevent.

Each property of a passing run has a mutant: a small change of one definition
(such as `CancelOrClose_NoJoin`, which sets the flag and does not join) under
which TLC finds the property violated.

## 4. The proofs

| Module | Theorem | States | Assumes |
|---|---|---|---|
| `BackupServiceProofs` | `TypeCorrect`, `TeardownStaysArmed`, `MutexReleased` | `TypeOK`, `TeardownArmed`, `MutexMatchesCall` | nothing |
| | `BufferHoldsRead` | `BufferNotOverrun` | `BufferSize <= IntMax` |
| | `NoOrphan` | `NoOrphanBackup` | not both `"stop"` and `"eintr"` in `Env` (`NeverAbandoned`) |
| | `WorkerOwned`, `NoFdLeak`, `CancelKept` | `WorkerOwnsHandle`, `FdAccounted`, `CancelSticky` | `"reinit" \notin Env` |
| | `CleanAfterBackup`, `WritesOwnFifo` | `CleanBetweenBackups`, `OwnFifo` | `"reinit" \notin Env` and `NeverAbandoned` |
| | `SecondBeginIsRefused` | `SecondBeginRefused` | `"reinit" \notin Env` |
| | `EndIsExitZero` | `EndMeansExitZero` | `"reinit"` and `"eintr"` not in `Env` |
| | `EndIsBackup` | `EndMeansBackupRan` | `"reinit"`, `"eintr"` and `"exec_fail"` not in `Env` |
| `BackupProgressProofs` | `CancelNearsEnd`, `ReadNearsReturn` | each step of a wait is one of its last (below) | nothing |
| | `JoinIsNotStuck` | what is joined is on its way (below) | `"reinit"` and `"stop"` not in `Env` |
| `BackupStreamProofs` | `SessionsAreStreams` | `StreamsApart` | `"reinit"`, `"eintr"` and `"exec_fail"` not in `Env`, `BufferSize <= IntMax` |
| `RestoreServiceProofs` | `RestoreTypeCorrect`, `RestoreHasFile`, `RestoreIsClean`, `RestoreKeepsPromise` | `TypeOK`, `ServiceHasFile`, `CleanRestore`, `KeepsPromise` | nothing |
| | `RestoreClosesFile` | `FdAccounted` | `~Reinit` |
| `BackupManagerProofs` | `ManagerTypeCorrect`, `OptionsAreDeclared`, `VerdictsAreRight`, `ManagerDownIsClean` | `TypeOK`, `OptionsDeclared`, `VerdictRight`, `DownIsClean` | nothing |
| | `CommandIsAsWanted` | `CommandIsWanted` | `MaxLevel <= 2` |
| | `CommandLineFits` | `ArgvFits` | `ArgvSize >= 16`, as declared |
| `LibraryThreadsProofs` | `ThreadsTypeCorrect`, `MutexHeldByWorkers`, `ReadyFindsNothing`, `UsesAreUndisturbed`, `WorkersHavePaths` | `TypeOK`, `MutexHeld`, `ReadyMeansFree`, `UseUndisturbed`, `WorkerHasPath` | `Overlaps \subseteq {"write_end"}` |

Beside what the table names, each uses the assumption on the constants that its
module declares and TLC evaluates. What is assumed of the environment or of the
program is stated in the theorem and not built into the model, and is needed: a
second initialize breaks `WorkerOwnsHandle` (the run `reinitialize` shows how),
EINTR makes the worker report EXIT for a killed utility, and in the `waitpid` for a
stopped one it leaves that utility behind; a longer buffer makes the count of a read
wrap to a negative offset; a failing `execv` makes an empty backup complete, a
stopped utility leaves its worker in `waitpid`, and each overlap breaks a property
(section 2). Two theorems state what a violation run refutes, without the hazard of
that run: `SecondBeginIsRefused` and `EndIsBackup` say that what `reinitialize` and
`exec_failure` show is all that can go wrong there (for the second: beside a second
initialize and EINTR). `MaxLevel` is 2 in the code; the utility's level is written
as one digit.

`BackupService`. `TypeOK` is inductive together with `HasFd`: where a call uses a
descriptor there is one, and a begin has replaced the 0 of static storage.
`CallInState` (which API state each point of a call is in) is inductive by itself
and gives `TeardownArmed`. `WorkerOwnsHandle` by itself is not inductive: it needs
to know that a new worker is created only when none is alive. That is `HandleAtRest`
(outside a backup the handle is reset, and closing happens with no RUNNING thread)
with `CallInState`, `SpawnIsFresh`, `FdIsLatest` and `FreshSessions`. In the other
direction `RunningIsAlive` gives the join a thread to wait for. `ChildHasWorker`
ties utilities to workers and, where no interrupted `waitpid` leaves one behind,
gives `OwnFifo`: a utility can open the path only while its worker watches it, the
worker's FIFO is then the handle's, and that is the latest. `IInv` is the
conjunction; `NextInv` proves it step by step, one action at a time and under it
each conjunct that the action can disturb. `EndIsExitZero` adds `ExitMeansZero`: an
EXIT that no cancellation explains stands for status 0; `CancelPending` then
excludes a cancellation while a read is looking.

`BufferHoldsRead` needs only `ReadProgress`: a call has read at most `io_size` each
time round, and the number of rounds is what the buffer divides into.
`MutexReleased` and `NoOrphan` do not rest on `IInv`, which a second initialize
breaks: the first is inductive, the second is with `SpawnIsNew` and two parts of `IInv`.

`BackupStream`. Every step of `BackupService` is mapped. `Stutters` lists the steps
the abstract specification does not see. A read that returns is `Deliver`, because
by `FdIsLatest` the descriptor is that of the latest session and by `FilledByOwn`
what its FIFO holds, the read has in hand and earlier ones have lost is no more than
its own utility wrote; a read that fails is `Lose`; a write is `Produce` of the same
session; an exit changes `finished` only when it is complete, as `StatusOfDead` says
that the status was not there before; a reported end is `Report` by `ExitMeansZero`.

`RestoreService`. `CleanRestore` and `ServiceHasFile` are inductive together with
`ServiceIsLatest` (the open file is that of the latest begin), `LatestHasLevel` and
`OnceMatches`. A second initialize breaks none of them: it ends the service with the
file still in the handle, so that file may stay open (`FdAccounted` needs
`HandleAtRest`, and so `~Reinit`), but nothing is written to it.

`BackupProgressProofs`. A proof of termination has two halves: a count that goes down,
and that something can always take it down. `StepsLeft` counts what a worker has
left once it is told to stop, `ReadLeft` what a read has left. `JoinNears` and
`ReadNears` say that each step of the worker, or of the read, takes one off and no
step of anybody adds any; for the worker this rests on `is_cancel` being set
throughout the join (`JoinCancels`). `JoinNotStuck` says that the thread to join
exists and never waits for a live utility (`ReapsDead`, `JoinsWorker`). With the weak
fairness of `FairSpec` these are why `CancelTerminates` and `ReadReturnsToCaller`
hold for all sizes; that last inference needs ENABLED and is left to TLC.

`BackupManager`. `ManagerInv` says what is open at each stage. `ReadInv` is the
invariant of the loop of `read_option`: the section is that of the last header
(`SectionRead`), and the lines so far are valid and the options are what they mean
(`LinesObeyed`). As both sides are told for the first n lines, one more line is one
step of the proof and no induction is needed: `DeclaresNext` and `ValidNext` say
what a line adds to the meaning, `PairJudged`, `LineObeyed` and `LineRefused` that
the code adds the same. `ErangeIsOld` is what `VerdictRight` needs: before the file
is judged `errno` can be ERANGE only if the home was just made. For the command,
`CommandInv` keeps the wish of the caller next to the handle and the options until
the worker runs; `Says` tells what a part of a command line says and does not say,
and `ArgvSays` puts the parts together (`Together`, `StartSays`, `SaysTwo`,
`SaysNumbers`), so that the utility understands what was asked
(`UnderstoodAsAsked`). `ArgvLength` adds up the parts of the longest command line.

`LibraryThreads`. What moves the API state is one call at a time (`OneMover`), from
its first step to its last, because an end or a begin is admitted by a state that
only the previous mover restores, and then no read is under way
(`UserMeetsNone`). So the mutex that `end_backup` unlocks a second time is nobody's.
`HandleAtStep` and `WorkerAtStep` say what each step finds in the handle.
`AloneWhenDown` makes the unlocks of `free_handle` harmless in a finalize. `BegunIsOpen`
gives a use that meets no end something to work on.

Only model-checked: the two liveness properties as such, since fairness and ENABLED
are out of the prover's reach. Every invariant, action property and refinement that
a passing run checks is proved.

## 5. Not modelled

- The death of the program in the middle of a backup. The utility inherits the read
  end of its FIFO (opened without `O_CLOEXEC`), so it may block for ever instead
  of being killed by SIGPIPE, and a utility that has not opened the path yet
  opens the FIFO of the next program. Nothing in the code handles either and the
  repository promises nothing about it; an action for it would only add
  exceptions to `OwnFifo` and `NoOrphanBackup`. Death during a restore is modelled.
- The text of the log, and the static buffer in which two threads may format it.
- The order in which candidate directories are tried, and why one is refused.
- The use of the API state's mutex after `finalize_backup_api` has destroyed it.
- What a `pthread_join` of a thread that was never created does, beyond returning or
  not returning.
- The test programs. They drive the API; what they expect is quoted where a
  property states it.

What could come next: a statement of what still holds after `last_data_lost`, that a
read which begins after the worker has stored EXIT reports SUCCESS only of an empty
FIFO. It needs a history variable for the thread state at the start of the read.
