--------------------------- MODULE BackupService ---------------------------
(***************************************************************************)
(* The online-backup half of cubrid-backup-api: one program thread calls   *)
(* cubrid_backup_initialize, _begin, _read, _end and _finalize in any      *)
(* order; each cubrid_backup_begin makes a FIFO and starts a worker thread *)
(* (execute_backup) that forks the cubrid utility and waits for SIGCHLD;   *)
(* the utility writes the backup into the FIFO, the program reads it.      *)
(*                                                                         *)
(* A session is one FIFO made by make_fifo, numbered in the order of       *)
(* creation: the same number names its inode, the read descriptor the      *)
(* library opens on it, and the worker and the utility started for it.     *)
(* All sessions use one FIFO path (one database, one backup level).        *)
(***************************************************************************)
EXTENDS Integers, FiniteSets

CONSTANTS
  MaxSessions,   \* bound on the FIFOs made in one behaviour
  Units,         \* units of data in a complete backup
  PipeCapacity,  \* units a FIFO holds before its writer blocks
  BufferSize,    \* buffer_size of every cubrid_backup_read call
  IoSize,        \* backup_mgr->io_size
  IntMax,        \* INT_MAX; the buffer size is unsigned, read_data counts in int
  Env            \* what may go wrong around the library (see Hazards)

(* reinit     the program calls cubrid_backup_initialize when already initialized
   spawn_fail pthread_create or fork fails
   exec_fail  execv of $CUBRID/bin/cubrid fails in the forked child
   vanish     the FIFO is unlinked by somebody else
   eintr      a signal other than SIGCHLD interrupts sigtimedwait or select
   stop       the utility is stopped and continued (job control)              *)
Hazards == {"reinit", "spawn_fail", "exec_fail", "vanish", "eintr", "stop"}

ASSUME ConstantsAssumption ==
  /\ MaxSessions \in Nat \ {0}
  /\ Units \in Nat
  /\ PipeCapacity \in Nat \ {0}
  /\ IntMax \in Nat
  /\ BufferSize \in 1..(2 * IntMax + 1)
  /\ IoSize \in 1..IntMax
  /\ BufferSize \div IoSize <= IntMax   \* io_size is at least 8 * st_blksize
  /\ Env \subseteq Hazards

Sessions == 1..MaxSessions
None == -1               \* fifo_fd == -1, no FIFO at the path, no thread
Stdin == 0               \* descriptor 0, which the program has open at start

VARIABLES
  \* backup_core.c: the API gate
  backup_api_state, once_initialize, once_finalize,
  \* handle_manager.c: the one static BACKUP_HANDLE and its mutex
  backup_thread_state, is_cancel, fifo_fd, backup_thread, backup_mutex,
  \* kernel: the inode at fifo_path, open read descriptors, FIFO contents
  fifo_path, open_fds, fifo,
  session,               \* FIFOs made so far
  \* per session: the worker thread, the cubrid utility it forked
  worker, child, status, out, written,
  \* the call in progress and its locals
  pc, iter, total,
  \* history: whether a cubrid_backup_read of the latest session has returned
  \* SUCCESS; the units of each session taken out of its FIFO by reads that
  \* then returned FAILURE, without data_len
  ended, lost

apiVars    == <<backup_api_state, once_initialize, once_finalize>>
jobVars    == <<backup_thread_state, is_cancel, fifo_fd>>
handleVars == <<jobVars, backup_thread, backup_mutex>>
fifoVars   == <<fifo_path, open_fds, fifo, session>>
childVars  == <<child, status, out, written>>
callVars   == <<pc, iter, total, ended, lost>>
vars == <<apiVars, handleVars, fifoVars, worker, childVars, callVars>>

ThreadStates == {"NO_SPAWN", "RUNNING", "EXIT", "EXIT_WITH_ERROR"}
ApiStates    == {"NOT_READY", "READY", "BACKUP_SERVICE", "FINALIZING"}
WorkerStates == {"none", "fork", "enter", "sigwait", "reap", "kill",
                 "exit_ok", "exit_error", "exited"}
ChildStates  == {"none", "forked", "running", "writing", "stopped",
                 "doomed", "zombie", "reaped"}
CallStates   == {"app", "spawn", "end_join", "end_close", "fin_join",
                 "fin_close", "read_check", "read_io", "read_end", "hung"}

ExitStatus == {"zero", "nonzero", "signal"}

LiveWorker == WorkerStates \ {"none", "exited"}
LiveChild  == {"forked", "running", "writing", "stopped"}

Alive(s) == worker[s] \in LiveWorker
Running(s) == child[s] \in LiveChild

----------------------------------------------------------------------------
(* The handle and the API gate *)

ResetHandle_KeepsCancel ==
  /\ backup_thread_state' = "NO_SPAWN"
  /\ fifo_fd' = None
  /\ UNCHANGED is_cancel

\* initialize_backup_handle
ResetHandle ==
  /\ backup_thread_state' = "NO_SPAWN"
  /\ is_cancel' = FALSE
  /\ fifo_fd' = None

Teardown_LeavesOnce(finalized) ==
  IF finalized
  THEN UNCHANGED apiVars
  ELSE /\ backup_api_state' = "NOT_READY"
       /\ once_finalize' = TRUE
       /\ UNCHANGED once_initialize

\* pthread_once (&backup_api_once_finalize, finalize_backup_api)
Teardown(finalized) ==
  IF finalized
  THEN UNCHANGED apiVars
  ELSE /\ backup_api_state' = "NOT_READY"
       /\ once_initialize' = FALSE
       /\ once_finalize' = TRUE

\* pthread_once (&backup_api_once_initialize, initialize_backup_api) re-arms
\* the finalizer when it runs
FinalizedAfterOnce == once_initialize /\ once_finalize

\* check_api_call_sequence lets a call through; a refused call changes nothing
Gate(state) == pc = "app" /\ once_initialize /\ backup_api_state = state

\* A call that returns without having touched anything but the gate
Return == pc' = "app" /\ UNCHANGED <<iter, total, ended, lost>>

(* cubrid_backup_initialize *)
InitializeSucceeds ==
  /\ pc = "app"
  /\ backup_api_state = "NOT_READY"
  /\ backup_api_state' = "READY"
  /\ once_initialize' = TRUE
  /\ once_finalize' = FinalizedAfterOnce
  /\ backup_mutex' = FALSE
  /\ UNCHANGED <<jobVars, backup_thread, fifoVars, worker, childVars, callVars>>

\* start_backup_manager fails, or the call is out of sequence: the error path
\* runs the finalizer in both cases
InitializeFails ==
  /\ pc = "app"
  /\ backup_api_state = "NOT_READY" \/ "reinit" \in Env
  /\ Teardown(FinalizedAfterOnce)
  /\ UNCHANGED <<handleVars, fifoVars, worker, childVars, callVars>>

----------------------------------------------------------------------------
(* cubrid_backup_begin *)

\* set_backup_info or open_fifo fails after alloc_handle: the path may have
\* been unlinked already, or a FIFO made that open() then refused
BeginFails ==
  /\ Gate("READY")
  /\ ~backup_mutex
  /\ ResetHandle
  /\ \/ fifo_path' \in {fifo_path, None} /\ UNCHANGED session
     \/ session < MaxSessions /\ session' = session + 1 /\ fifo_path' = session'
  /\ ended' = FALSE
  /\ UNCHANGED <<apiVars, backup_thread, backup_mutex, open_fds, fifo, worker,
                 childVars, pc, iter, total, lost>>

\* alloc_handle, set_backup_info, open_fifo, set_thread_state (RUNNING)
BeginOpens ==
  /\ Gate("READY")
  /\ ~backup_mutex
  /\ session < MaxSessions
  /\ session' = session + 1
  /\ fifo_path' = session'
  /\ open_fds' = open_fds \cup {session'}
  /\ backup_thread_state' = "RUNNING"
  /\ is_cancel' = FALSE
  /\ fifo_fd' = session'
  /\ backup_mutex' = TRUE
  /\ backup_api_state' = "BACKUP_SERVICE"
  /\ pc' = "spawn"
  /\ ended' = FALSE
  /\ UNCHANGED <<once_initialize, once_finalize, backup_thread, fifo, worker,
                 childVars, iter, total, lost>>

\* pthread_create succeeds
BeginSpawns ==
  /\ pc = "spawn"
  /\ worker' = [worker EXCEPT ![fifo_fd] = "fork"]
  /\ backup_thread' = fifo_fd
  /\ backup_mutex' = FALSE
  /\ Return
  /\ UNCHANGED <<apiVars, jobVars, fifoVars, childVars>>

CloseFd_Forgets == UNCHANGED open_fds

\* close (fifo_fd)
CloseFd == open_fds' = open_fds \ {fifo_fd}

\* pthread_create fails: the error path joins a thread that was never created,
\* which may return or never return, then close_fifo and free_handle
BeginSpawnFails ==
  /\ pc = "spawn"
  /\ "spawn_fail" \in Env
  /\ \/ /\ backup_thread_state' = "EXIT_WITH_ERROR"
        /\ is_cancel' = TRUE
        /\ pc' = "hung"
        /\ UNCHANGED <<backup_api_state, fifo_fd, backup_mutex, fifo_path, open_fds>>
     \/ /\ CloseFd
        /\ fifo_path' = None
        /\ ResetHandle
        /\ backup_mutex' = FALSE
        /\ backup_api_state' = "READY"
        /\ pc' = "app"
  /\ UNCHANGED <<once_initialize, once_finalize, backup_thread, fifo, session,
                 worker, childVars, iter, total, ended, lost>>

----------------------------------------------------------------------------
(* cubrid_backup_read *)

\* read_count full reads of io_size, then the remainder of the buffer
FullReads == BufferSize \div IoSize
Remainder == BufferSize % IoSize
Reads == FullReads + (IF Remainder # 0 THEN 1 ELSE 0)

Request_NoRemainder(i) == IoSize
Request(i) == IF i < FullReads THEN IoSize ELSE Remainder

\* What select() and read() deliver of a FIFO that holds this much: nothing on
\* a timeout or when no writer is left, never more than the request
ReadSize_AssumesFull(held) == Request(iter)
ReadSize(held) == IF held < Request(iter) THEN held ELSE Request(iter)

\* total_read_len += read_len, in a C int
CInt == -(IntMax + 1)..IntMax
ToInt(n) == IF n > IntMax THEN n - 2 * (IntMax + 1) ELSE n

ReadReturns_KeepsMutex ==
  /\ pc' = "app"
  /\ iter' = 0
  /\ total' = 0
  /\ UNCHANGED backup_mutex

\* unlock and return
ReadReturns ==
  /\ pc' = "app"
  /\ backup_mutex' = FALSE
  /\ iter' = 0
  /\ total' = 0

\* with data_len set
ReadSucceeds == ReadReturns /\ UNCHANGED lost

\* with FAILURE: what the call has read so far is nowhere else any more
ReadFails ==
  /\ ReadReturns
  /\ lost' = [lost EXCEPT ![fifo_fd] = @ + total]

ReadStarts ==
  /\ Gate("BACKUP_SERVICE")
  /\ ~backup_mutex
  /\ fifo_fd # None
  /\ backup_mutex' = TRUE
  /\ pc' = "read_check"
  /\ UNCHANGED <<apiVars, jobVars, backup_thread, fifoVars, worker, childVars,
                 iter, total, ended, lost>>

\* read_data gives up as soon as it sees EXIT_WITH_ERROR
ReadChecks ==
  /\ pc = "read_check"
  /\ IF backup_thread_state = "EXIT_WITH_ERROR"
     THEN ReadFails
     ELSE pc' = "read_io" /\ UNCHANGED <<backup_mutex, iter, total, lost>>
  /\ UNCHANGED <<apiVars, jobVars, backup_thread, fifoVars, worker, childVars,
                 ended>>

ReadContinues_Retries(n) ==
  IF n = 0 \/ iter + 1 < Reads
  THEN /\ iter' = IF n = 0 THEN iter ELSE iter + 1
       /\ total' = n
       /\ pc' = "read_check"
       /\ UNCHANGED <<backup_mutex, lost>>
  ELSE ReadSucceeds

\* the next iteration of the loop, with n units in the buffer
ReadContinues(n) ==
  IF iter + 1 < Reads
  THEN /\ iter' = iter + 1
       /\ total' = n
       /\ pc' = "read_check"
       /\ UNCHANGED <<backup_mutex, lost>>
  ELSE ReadSucceeds

\* read_fifo. The thread state is looked at only when the call has read
\* nothing so far, and only after this read.
ReadIo ==
  /\ pc = "read_io"
  /\ LET held == fifo[fifo_fd]
         n    == ReadSize(held)
         len  == ToInt(total + n)
     IN  /\ fifo' = [fifo EXCEPT ![fifo_fd] = held - n]
         /\ IF len = 0
            THEN pc' = "read_end" /\ UNCHANGED <<backup_mutex, iter, total, lost>>
            ELSE ReadContinues(len)
  /\ UNCHANGED <<apiVars, jobVars, backup_thread, fifo_path, open_fds, session,
                 worker, childVars, ended>>

\* is_backup_end is decided
ReadEnds ==
  /\ pc = "read_end"
  /\ IF backup_thread_state = "EXIT"
     THEN ended' = TRUE /\ ReadSucceeds
     ELSE ReadContinues(0) /\ UNCHANGED ended
  /\ UNCHANGED <<apiVars, jobVars, backup_thread, fifoVars, worker, childVars>>

\* select() returns EINTR: the call fails
ReadInterrupted ==
  /\ pc = "read_io"
  /\ "eintr" \in Env
  /\ ReadFails
  /\ UNCHANGED <<apiVars, jobVars, backup_thread, fifoVars, worker, childVars,
                 ended>>

----------------------------------------------------------------------------
(* cubrid_backup_end *)

CancelOrClose_NoJoin(join, close) ==
  /\ pc' = close
  /\ is_cancel' = (backup_thread_state = "RUNNING")
  /\ UNCHANGED <<backup_thread_state, fifo_fd>>

\* cancel and join the worker if it is still RUNNING, else go on to close
CancelOrClose(join, close) ==
  IF backup_thread_state = "RUNNING"
  THEN pc' = join /\ is_cancel' = TRUE /\ UNCHANGED <<backup_thread_state, fifo_fd>>
  ELSE pc' = close /\ UNCHANGED jobVars

\* pthread_join (backup_thread) returns
Join(join, close) ==
  /\ pc = join
  /\ worker[backup_thread] = "exited"
  /\ pc' = close
  /\ UNCHANGED <<apiVars, handleVars, fifoVars, worker, childVars, iter, total,
                 ended, lost>>

EndStarts ==
  /\ Gate("BACKUP_SERVICE")
  /\ ~backup_mutex
  /\ backup_mutex' = TRUE
  /\ CancelOrClose("end_join", "end_close")
  /\ UNCHANGED <<apiVars, backup_thread, fifoVars, worker, childVars, iter,
                 total, ended, lost>>

EndJoins == Join("end_join", "end_close")

\* close_fifo; if its unlink fails the call fails with the descriptor closed
\* and the session still open, else free_handle and back to READY
EndCloses ==
  /\ pc = "end_close"
  /\ CloseFd
  /\ IF fifo_path = None
     THEN /\ fifo_fd' = None
          /\ UNCHANGED <<backup_api_state, backup_thread_state, is_cancel, fifo_path>>
     ELSE /\ ResetHandle
          /\ fifo_path' = None
          /\ backup_api_state' = "READY"
  /\ backup_mutex' = FALSE
  /\ Return
  /\ UNCHANGED <<once_initialize, once_finalize, backup_thread, fifo, session,
                 worker, childVars>>

----------------------------------------------------------------------------
(* cubrid_backup_finalize *)

\* out of sequence: the finalizer still runs
FinalizeRejected ==
  /\ pc = "app"
  /\ ~once_initialize \/ backup_api_state = "NOT_READY"
  /\ Teardown(once_finalize)
  /\ UNCHANGED <<handleVars, fifoVars, worker, childVars, callVars>>

\* transit_backup_api_state_to_end, then free_handle up to its join
FinalizeStarts ==
  /\ pc = "app"
  /\ once_initialize
  /\ backup_api_state # "NOT_READY"
  /\ backup_api_state' = "FINALIZING"
  /\ backup_mutex' = TRUE
  /\ CancelOrClose("fin_join", "fin_close")
  /\ UNCHANGED <<once_initialize, once_finalize, backup_thread, fifoVars,
                 worker, childVars, iter, total, ended, lost>>

FinalizeJoins == Join("fin_join", "fin_close")

FinalizeCloses ==
  /\ pc = "fin_close"
  /\ CloseFd
  /\ fifo_path' = IF fifo_fd = None THEN fifo_path ELSE None
  /\ ResetHandle
  /\ backup_mutex' = FALSE
  /\ Teardown(once_finalize)
  /\ Return
  /\ UNCHANGED <<backup_thread, fifo, session, worker, childVars>>

----------------------------------------------------------------------------
(* The worker thread: execute_backup and check_backup_process_status *)

Advance(s, to) == worker' = [worker EXCEPT ![s] = to]

WorkerForks(s) ==
  /\ worker[s] = "fork"
  /\ \/ Advance(s, "enter") /\ child' = [child EXCEPT ![s] = "forked"]
     \/ "spawn_fail" \in Env /\ Advance(s, "exit_error") /\ UNCHANGED child
  /\ UNCHANGED <<apiVars, handleVars, fifoVars, status, out, written, callVars>>

\* the empty SIGCHLD handler is installed, the next sigtimedwait is entered
WorkerWaits(s) ==
  /\ worker[s] = "enter"
  /\ Advance(s, "sigwait")
  /\ UNCHANGED <<apiVars, handleVars, fifoVars, childVars, callVars>>

WaitGivesUp_IgnoresCancel == FALSE
\* after EAGAIN
WaitGivesUp == is_cancel

WorkerTimesOut(s) ==
  /\ worker[s] = "sigwait"
  /\ Advance(s, IF WaitGivesUp THEN "kill" ELSE "enter")
  /\ UNCHANGED <<apiVars, handleVars, fifoVars, childVars, callVars>>

\* EINTR is taken for a cancellation
WorkerInterrupted(s) ==
  /\ worker[s] = "sigwait"
  /\ "eintr" \in Env
  /\ Advance(s, "kill")
  /\ UNCHANGED <<apiVars, handleVars, fifoVars, childVars, callVars>>

KillTargets_Writers == {t \in Sessions : child[t] = "writing"}
\* the library's process group: every utility it forked
KillTargets == {t \in Sessions : Running(t)}

\* kill_process_group: SIGTERM is pending for the whole group; the worker does
\* not wait for anybody to die
WorkerKills(s) ==
  /\ worker[s] = "kill"
  /\ Advance(s, "exit_ok")
  /\ child' = [t \in Sessions |-> IF t \in KillTargets THEN "doomed" ELSE child[t]]
  /\ UNCHANGED <<apiVars, handleVars, fifoVars, status, out, written, callVars>>

Verdict_IgnoresStatus(s) == "exit_ok"
\* WIFEXITED, WEXITSTATUS, WIFSIGNALED
Verdict(s) == IF status[s] = "zero" THEN "exit_ok" ELSE "exit_error"

\* waitpid (backup_pid, &status, 0): returns only when the utility is dead
WorkerReaps(s) ==
  /\ worker[s] = "reap"
  /\ child[s] = "zombie"
  /\ child' = [child EXCEPT ![s] = "reaped"]
  /\ Advance(s, Verdict(s))
  /\ UNCHANGED <<apiVars, handleVars, fifoVars, status, out, written, callVars>>

\* waitpid returns EINTR while the utility is still there: EXIT_WITH_ERROR, and
\* the waitpid (WNOHANG) of the error path reaps it only if it has died since
WaitpidInterrupted(s) ==
  /\ worker[s] = "reap"
  /\ "eintr" \in Env
  /\ child' = [child EXCEPT ![s] = IF @ = "zombie" THEN "reaped" ELSE @]
  /\ Advance(s, "exit_error")
  /\ UNCHANGED <<apiVars, handleVars, fifoVars, status, out, written, callVars>>

\* set_thread_state and pthread_exit
WorkerExits(s) ==
  /\ worker[s] \in {"exit_ok", "exit_error"}
  /\ backup_thread_state' =
       IF worker[s] = "exit_ok" THEN "EXIT" ELSE "EXIT_WITH_ERROR"
  /\ Advance(s, "exited")
  /\ UNCHANGED <<apiVars, is_cancel, fifo_fd, backup_thread, backup_mutex,
                 fifoVars, childVars, callVars>>

----------------------------------------------------------------------------
(* The forked child: the cubrid utility (external), its exit and SIGCHLD *)

\* SIGCHLD goes to the thread that forked: it wakes that thread only inside
\* sigtimedwait; anywhere else the empty handler swallows it
SigchldToWorker(s) ==
  worker' = IF worker[s] = "sigwait" THEN [worker EXCEPT ![s] = "reap"] ELSE worker

\* once that thread is gone it goes to the program, where it may interrupt
\* the select() of a read
SigchldToCaller(s) ==
  \/ UNCHANGED <<backup_mutex, pc, iter, total, lost>>
  \/ pc = "read_io" /\ worker[s] = "exited" /\ ReadFails

Sigchld(s) == SigchldToWorker(s) /\ SigchldToCaller(s)

Becomes(s, to) == child' = [child EXCEPT ![s] = to]

ChildExecs(s) ==
  /\ child[s] = "forked"
  /\ Becomes(s, "running")
  /\ UNCHANGED <<apiVars, handleVars, fifoVars, worker, status, out, written,
                 callVars>>

\* execv fails: the child runs execute_backup's error path, whose pthread_exit
\* ends its only thread and so the process, with status 0
ChildExecFails(s) ==
  /\ child[s] = "forked"
  /\ "exec_fail" \in Env
  /\ Becomes(s, "zombie")
  /\ status' = [status EXCEPT ![s] = "zero"]
  /\ Sigchld(s)
  /\ UNCHANGED <<apiVars, jobVars, backup_thread, fifoVars, out, written, ended>>

ChildOpens(s) ==
  /\ child[s] = "running"
  /\ fifo_path # None
  /\ Becomes(s, "writing")
  /\ out' = [out EXCEPT ![s] = fifo_path]
  /\ UNCHANGED <<apiVars, handleVars, fifoVars, worker, status, written, callVars>>

ChildWrites(s) ==
  /\ child[s] = "writing"
  /\ written[s] < Units
  /\ fifo[out[s]] < PipeCapacity
  /\ fifo' = [fifo EXCEPT ![out[s]] = @ + 1]
  /\ written' = [written EXCEPT ![s] = @ + 1]
  /\ UNCHANGED <<apiVars, handleVars, fifo_path, open_fds, session, worker, child,
                 status, out, callVars>>

\* status 0 only after a complete backup
ChildExits(s, st) ==
  /\ child[s] \in {"running", "writing"}
  /\ st = "zero" => child[s] = "writing" /\ written[s] = Units
  /\ Becomes(s, "zombie")
  /\ status' = [status EXCEPT ![s] = st]
  /\ Sigchld(s)
  /\ UNCHANGED <<apiVars, jobVars, backup_thread, fifoVars, out, written, ended>>

ChildStops(s) ==
  /\ "stop" \in Env
  /\ child[s] \in {"running", "writing"}
  /\ Becomes(s, "stopped")
  /\ Sigchld(s)
  /\ UNCHANGED <<apiVars, jobVars, backup_thread, fifoVars, status, out, written,
                 ended>>

ChildContinues(s) ==
  /\ child[s] = "stopped"
  /\ Becomes(s, IF out[s] = None THEN "running" ELSE "writing")
  /\ Sigchld(s)
  /\ UNCHANGED <<apiVars, jobVars, backup_thread, fifoVars, status, out, written,
                 ended>>

\* the pending SIGTERM takes effect, some time after kill_process_group
ChildDies(s) ==
  /\ child[s] = "doomed"
  /\ Becomes(s, "zombie")
  /\ status' = [status EXCEPT ![s] = "signal"]
  /\ Sigchld(s)
  /\ UNCHANGED <<apiVars, jobVars, backup_thread, fifoVars, out, written, ended>>

FifoVanishes ==
  /\ "vanish" \in Env
  /\ fifo_path # None
  /\ fifo_path' = None
  /\ UNCHANGED <<apiVars, handleVars, open_fds, fifo, session, worker, childVars,
                 callVars>>

----------------------------------------------------------------------------

Init ==
  /\ backup_api_state = "NOT_READY"
  /\ once_initialize = FALSE
  /\ once_finalize = FALSE
  /\ backup_thread_state = "NO_SPAWN"
  /\ is_cancel = FALSE
  /\ fifo_fd = Stdin   \* static storage: 0 until the first cubrid_backup_begin
  /\ backup_thread = None
  /\ backup_mutex = FALSE
  /\ fifo_path = None
  /\ open_fds = {Stdin}
  /\ fifo = [s \in Sessions |-> 0]
  /\ session = 0
  /\ worker = [s \in Sessions |-> "none"]
  /\ child = [s \in Sessions |-> "none"]
  /\ status = [s \in Sessions |-> "none"]
  /\ out = [s \in Sessions |-> None]
  /\ written = [s \in Sessions |-> 0]
  /\ pc = "app"
  /\ iter = 0
  /\ total = 0
  /\ ended = FALSE
  /\ lost = [s \in Sessions |-> 0]

\* A new call by the program
Call ==
  \/ InitializeSucceeds \/ InitializeFails
  \/ BeginFails \/ BeginOpens
  \/ ReadStarts \/ EndStarts
  \/ FinalizeRejected \/ FinalizeStarts

\* The library going on with the call in progress
CallStep ==
  \/ BeginSpawns \/ BeginSpawnFails
  \/ ReadChecks \/ ReadIo \/ ReadEnds \/ ReadInterrupted
  \/ EndJoins \/ EndCloses
  \/ FinalizeJoins \/ FinalizeCloses

\* The worker going on by itself
WorkerGoesOn(s) ==
  \/ WorkerForks(s) \/ WorkerWaits(s)
  \/ WorkerTimesOut(s)
  \/ WorkerKills(s) \/ WorkerReaps(s) \/ WorkerExits(s)

WorkerStep(s) ==
  \/ WorkerGoesOn(s)
  \/ WorkerInterrupted(s) \/ WaitpidInterrupted(s)

ChildStep(s) ==
  \/ ChildExecs(s) \/ ChildExecFails(s)
  \/ ChildOpens(s) \/ ChildWrites(s)
  \/ \E st \in ExitStatus : ChildExits(s, st)
  \/ ChildStops(s) \/ ChildContinues(s) \/ ChildDies(s)

Next ==
  \/ Call
  \/ CallStep
  \/ \E s \in Sessions : WorkerStep(s) \/ ChildStep(s)
  \/ FifoVanishes

\* The operating system keeps scheduling the program's two threads, and every
\* wait of theirs but pthread_join and waitpid has a timeout. Nothing is
\* assumed of the program's next call, of the utility or of a stray signal.
Fairness ==
  /\ WF_vars(CallStep)
  /\ \A s \in Sessions : WF_vars(WorkerGoesOn(s))

Spec == Init /\ [][Next]_vars
FairSpec == Spec /\ Fairness

----------------------------------------------------------------------------
(* Properties *)

ApiTypeOK ==
  /\ backup_api_state \in ApiStates
  /\ once_initialize \in BOOLEAN
  /\ once_finalize \in BOOLEAN

HandleTypeOK ==
  /\ backup_thread_state \in ThreadStates
  /\ is_cancel \in BOOLEAN
  /\ fifo_fd \in {None, Stdin} \cup Sessions
  /\ backup_thread \in {None} \cup Sessions
  /\ backup_mutex \in BOOLEAN

FifoTypeOK ==
  /\ fifo_path \in {None} \cup Sessions
  /\ open_fds \subseteq {Stdin} \cup Sessions
  /\ fifo \in [Sessions -> 0..PipeCapacity]
  /\ session \in 0..MaxSessions

ProcessTypeOK ==
  /\ worker \in [Sessions -> WorkerStates]
  /\ child \in [Sessions -> ChildStates]
  /\ status \in [Sessions -> ExitStatus \cup {"none"}]
  /\ out \in [Sessions -> {None} \cup Sessions]
  /\ written \in [Sessions -> 0..Units]

CallTypeOK ==
  /\ pc \in CallStates
  /\ iter \in Nat
  /\ total \in CInt
  /\ ended \in BOOLEAN
  /\ lost \in [Sessions -> Int]

\* Every variable holds a value of its C type.
TypeOK ==
  ApiTypeOK /\ HandleTypeOK /\ FifoTypeOK /\ ProcessTypeOK /\ CallTypeOK

\* At most one worker thread lives, it is the one pthread_join will wait for,
\* and while it lives the handle says RUNNING and still holds the FIFO it was
\* started for (what the comment in finalize_backup_handle is worried about).
WorkerOwnsHandle ==
  \A s \in Sessions : Alive(s) =>
    /\ backup_thread = s
    /\ backup_thread_state = "RUNNING"
    /\ fifo_fd = s

\* When cubrid_backup_begin may be called, or the library is down, nothing of
\* an earlier backup is left: no thread, no utility that was not told to die,
\* no descriptor, no cancellation that would hit the next backup.
CleanBetweenBackups ==
  pc = "app" /\ backup_api_state \in {"NOT_READY", "READY"} =>
    /\ \A s \in Sessions : ~Alive(s) /\ ~Running(s)
    /\ backup_thread_state = "NO_SPAWN" /\ ~is_cancel
    /\ open_fds \subseteq {Stdin}

\* cubrid_backup_read reports the end of a backup only when its utility has
\* exited with status 0, whatever was cancelled, failed or retried meanwhile.
EndMeansExitZero ==
  ended => session \in Sessions /\ status[session] = "zero"

\* No read descriptor is ever leaked: what is open is the handle's.
FdAccounted == open_fds \subseteq {Stdin, fifo_fd}

\* A cancellation is not withdrawn while the worker it is meant for lives.
CancelSticky ==
  [][is_cancel /\ (\E s \in Sessions : Alive(s)) => is_cancel']_vars

\* A utility writes only into the FIFO of its own session, however late it
\* gets to open the path that all sessions share: none outlives its session
\* without having been told to die.
OwnFifo == \A s \in Sessions : out[s] \in {None, s}

\* The once flags and the API state never disagree between calls: an
\* initialized library can be torn down, a torn down one initialized again.
TeardownArmed ==
  pc = "app" =>
    /\ once_initialize <=> backup_api_state # "NOT_READY"
    /\ once_initialize => ~once_finalize

\* The worker never ends with its utility neither dead nor told to die. (With
\* both "stop" and "eintr" it does: see WaitpidInterrupted.)
NoOrphanBackup ==
  \A s \in Sessions :
    worker[s] \in {"exit_ok", "exit_error", "exited"} => ~Running(s)

\* read_fifo never writes outside the caller's buffer: neither before it nor
\* past its end.
BufferNotOverrun ==
  pc = "read_io" => 0 <= total /\ total + Request(iter) <= BufferSize

\* backup_mutex is held exactly while a call is in progress: no error path
\* keeps it (the next call would block) or gives it up early.
MutexMatchesCall == backup_mutex <=> pc # "app"

\* A second backup is refused while one is running.
SecondBeginRefused == pc = "spawn" => \A s \in Sessions : ~Alive(s)

\* cubrid_backup_end and cubrid_backup_finalize return.
CancelTerminates == pc \in {"end_join", "fin_join"} ~> pc = "app"

\* cubrid_backup_read returns, whatever the utility does.
ReadReturnsToCaller == pc = "read_check" ~> pc = "app"

\* SUCCESS from cubrid_backup_read means that no data is left to read.
EndMeansDrained ==
  ended /\ fifo_fd \in Sessions => fifo[fifo_fd] = 0

\* SUCCESS from cubrid_backup_read means that a whole backup was written.
EndMeansBackupRan == ended => session \in Sessions /\ written[session] = Units

\* The worker notices that its utility has exited.
ExitNoticed ==
  \A s \in Sessions : child[s] = "zombie" ~> worker[s] = "exited"

\* the units the read in progress has taken out of the FIFO
InHand(s) == IF s = fifo_fd THEN total ELSE 0

\* What a backup promises: see BackupStream. A unit that was written into its
\* FIFO, is there no more, is not in the hands of a read in progress and was
\* not lost by one that failed was delivered.
Stream == INSTANCE BackupStream WITH
  produced  <- written,
  delivered <- [s \in Sessions |-> written[s] - fifo[s] - lost[s] - InHand(s)],
  finished  <- {s \in Sessions : status[s] = "zero"}

\* The library keeps the promise of BackupStream: every session is a stream of
\* its own, given out once and in order by the reads that succeed, with a gap
\* only where a read of that session has failed, and reported complete only
\* when it is.
StreamsApart == Stream!Spec

----------------------------------------------------------------------------
(* The inductive invariant behind the safety theorems. It holds as long as   *)
(* the program does not initialize an initialized library.                   *)

Closing == pc \in {"end_close", "fin_close"}
Joining == pc \in {"end_join", "fin_join"}

\* which API state each point of a call is in
CallInState ==
  /\ backup_api_state = "FINALIZING" <=> pc \in {"fin_join", "fin_close"}
  /\ backup_api_state \in {"NOT_READY", "READY"} => pc = "app"
  /\ once_initialize <=> backup_api_state # "NOT_READY"
  /\ once_initialize => ~once_finalize

\* pthread_create is about to be called for the latest session, and no worker
\* of an earlier one is left
SpawnIsFresh ==
  pc = "spawn" =>
    /\ fifo_fd = session /\ session \in Sessions
    /\ backup_thread_state = "RUNNING"
    /\ worker[session] = "none"
    /\ \A s \in Sessions : ~Alive(s)

\* the handle holds the latest FIFO or none
FdIsLatest ==
  /\ backup_api_state = "BACKUP_SERVICE" => fifo_fd \in {None, session}
  /\ fifo_fd \in Sessions => fifo_fd = session /\ fifo_path \in {None, session}

\* close_fifo runs with no thread, and between backups the handle is reset
HandleAtRest ==
  /\ Closing \/ pc = "hung" => backup_thread_state # "RUNNING"
  /\ backup_api_state \in {"NOT_READY", "READY"} =>
       /\ backup_thread_state = "NO_SPAWN" /\ ~is_cancel
       /\ fifo_fd \notin Sessions

\* RUNNING means that there is a thread to join
RunningIsAlive ==
  backup_thread_state = "RUNNING" /\ pc # "spawn" =>
    backup_thread \in Sessions /\ Alive(backup_thread)

\* a cancellation is pending only while its call is in progress, or after an
\* end_backup that failed with the descriptor closed
CancelPending ==
  is_cancel => Joining \/ Closing \/ pc = "hung" \/ fifo_fd = None

\* sessions that were never begun are untouched
FreshSessions ==
  \A s \in Sessions : s > session => worker[s] = "none" /\ child[s] = "none"

\* no waitpid is interrupted: it blocks only after the SIGCHLD of a stop
NeverAbandoned == ~({"stop", "eintr"} \subseteq Env)

\* a utility lives only under a worker that still watches it
ChildHasWorker ==
  \A s \in Sessions :
    /\ worker[s] \in {"none", "fork"} => child[s] = "none"
    /\ NeverAbandoned /\ Running(s) =>
         worker[s] \in {"enter", "sigwait", "reap", "kill"}

\* without a stop a worker goes into waitpid only when its utility is dead
ReapsDead ==
  "stop" \notin Env =>
    \A s \in Sessions :
      /\ child[s] # "stopped"
      /\ worker[s] = "reap" => child[s] = "zombie"

\* a utility has a status exactly when it is dead
StatusOfDead ==
  \A s \in Sessions : status[s] # "none" <=> child[s] \in {"zombie", "reaped"}

IInv ==
  /\ TypeOK
  /\ MutexMatchesCall
  /\ CallInState
  /\ SpawnIsFresh
  /\ FdIsLatest
  /\ HandleAtRest
  /\ RunningIsAlive
  /\ WorkerOwnsHandle
  /\ CancelPending
  /\ FreshSessions
  /\ ReapsDead
  /\ ChildHasWorker
  /\ StatusOfDead
  /\ FdAccounted
  /\ NeverAbandoned => OwnFifo

\* With no EINTR either: an EXIT that was not forced by a cancellation stands
\* for exit status 0
ExitMeansZero ==
  /\ \A s \in Sessions :
       /\ worker[s] = "kill" => is_cancel
       /\ worker[s] = "exit_ok" => is_cancel \/ status[s] = "zero"
  /\ backup_thread_state = "EXIT" =>
       session \in Sessions /\ (is_cancel \/ status[session] = "zero")
  /\ EndMeansExitZero

\* what a FIFO holds, what the read in progress holds and what reads have lost
\* was written by the utility of its own session
FilledByOwn ==
  \A s \in Sessions :
    /\ lost[s] \in Nat /\ InHand(s) \in Nat
    /\ fifo[s] + lost[s] + InHand(s) <= written[s]
    /\ out[s] \in {None, s}
    /\ child[s] = "writing" => out[s] = s
=============================================================================
