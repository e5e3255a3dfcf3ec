--------------------------- MODULE LibraryThreads ---------------------------
(***************************************************************************)
(* Several threads of one program call the library. Both services have the *)
(* same shape: a begin moves the API state and takes the static handle, a  *)
(* use (cubrid_backup_read, cubrid_restore_write) checks the state and     *)
(* locks the handle, an end checks, locks, resets the handle, unlocks and  *)
(* only then moves the state back. What a call does with its data is in    *)
(* BackupService and RestoreService.                                       *)
(*                                                                         *)
(* A step ends where another thread can come between. A program uses and   *)
(* ends a service after its begin has returned; Overlaps says which of the *)
(* hazardous calls it lets overlap. All others may: begins of either       *)
(* service, uses of one, an end beside the begin of the other service.     *)
(***************************************************************************)
EXTENDS Naturals

CONSTANTS
  Threads,    \* threads of the program
  NoOne,      \* no thread
  MaxJobs,    \* bound on the backups and restores that are begun
  Overlaps    \* subset of Hazardous: what the program does not keep apart

\* a read or a write beside an end of its service, two ends of one service, a
\* finalize beside any other call
Hazardous == {"read_end", "write_end", "end_end", "finalize"}

ASSUME ThreadsAssumption ==
  /\ NoOne \notin Threads
  /\ MaxJobs \in Nat
  /\ Overlaps \subseteq Hazardous

Services == {"backup", "restore"}
Jobs == 1..MaxJobs
None == 0

VARIABLES
  backup_api_state,  \* a service stands for BACKUP_SERVICE, RESTORE_SERVICE
  mutex,             \* thread that holds backup_mutex, restore_mutex, or NoOne
  open,              \* job whose FIFO or file is open in the handle
  running,           \* backup_thread_state is THREAD_STATE_RUNNING
  worker,            \* "none", "created", or "forked": it has run the utility
  destination,       \* job whose FIFO the latest utility was given as -D
  jobs,              \* jobs begun so far
  pc, service,       \* the call of each thread and the service it is about
  got                \* the open job as the use of each thread first saw it

callVars == <<pc, service, got>>
vars == <<backup_api_state, mutex, open, running, worker, destination, jobs,
          callVars>>

Idle == {t \in Threads : pc[t] = "idle"}

Go(t, to) == pc' = [pc EXCEPT ![t] = to]
At(t, from) == pc[t] = from

\* the steps of each call
Beginning == {"alloc", "setup", "launch", "create", "join", "begun", "undo"}
Using  == {"lock", "load", "using"}
Ending == {"end_lock", "closing", "unlock_again", "leave"}
Finalizing == {"fin_backup", "fin_restore", "fin_done"}

InCall(t, s, steps) == pc[t] \in steps /\ service[t] = s

----------------------------------------------------------------------------
(* What the program keeps apart *)

OverlapOf(s) == IF s = "backup" THEN "read_end" ELSE "write_end"

HasBegun(s) == \A u \in Threads : ~InCall(u, s, Beginning)

MayUse(s) ==
  /\ HasBegun(s)
  /\ OverlapOf(s) \in Overlaps \/ \A u \in Threads : ~InCall(u, s, Ending)

MayEnd(s) ==
  /\ HasBegun(s)
  /\ OverlapOf(s) \in Overlaps \/ \A u \in Threads : ~InCall(u, s, Using)
  /\ "end_end" \in Overlaps \/ \A u \in Threads : ~InCall(u, s, Ending)

MayFinalize == "finalize" \in Overlaps \/ Idle = Threads

\* one thread initializes, and not while another one finalizes
MayInitialize == \A u \in Threads : pc[u] \notin Finalizing \cup {"init"}

----------------------------------------------------------------------------
(* The handles *)

Unlock(s) == mutex' = [mutex EXCEPT ![s] = NoOne]

Join_Skipped(s) == UNCHANGED worker

\* a worker that runs is cancelled and joined, it leaves when it has forked;
\* before pthread_create has returned there is nobody to wait for
Join(s) ==
  \/ /\ s = "backup" /\ running
     /\ worker \in {"forked", "none"}
     /\ worker' = "none"
  \/ ~(s = "backup" /\ running) /\ UNCHANGED worker

\* finalize_backup_handle, finalize_restore_handle
FinalizeHandle(s) ==
  /\ Join(s)
  /\ open' = [open EXCEPT ![s] = None]
  /\ running' = (running /\ s # "backup")

----------------------------------------------------------------------------
(* cubrid_backup_initialize *)

InitializeEnters(t) ==
  /\ At(t, "idle")
  /\ MayInitialize
  /\ backup_api_state = "NOT_READY"
  /\ backup_api_state' = "INITIALIZING"
  /\ Go(t, "init")
  /\ UNCHANGED <<mutex, open, running, worker, destination, jobs, service, got>>

\* start_handle_manager makes new mutexes; or a manager fails and the
\* finalizer runs
InitializeReturns(t) ==
  /\ At(t, "init")
  /\ backup_api_state' \in {"READY", "NOT_READY"}
  /\ mutex' = [s \in Services |-> NoOne]
  /\ Go(t, "idle")
  /\ UNCHANGED <<open, running, worker, destination, jobs, service, got>>

----------------------------------------------------------------------------
(* cubrid_backup_begin, cubrid_restore_begin *)

Transit(from, to) ==
  backup_api_state' = IF backup_api_state = from THEN to ELSE backup_api_state

BeginEnters(t, s) ==
  /\ At(t, "idle")
  /\ backup_api_state = "READY"
  /\ backup_api_state' = s
  /\ service' = [service EXCEPT ![t] = s]
  /\ Go(t, "alloc")
  /\ UNCHANGED <<mutex, open, running, worker, destination, jobs, got>>

\* alloc_handle: pthread_mutex_trylock, initialize_*_handle
BeginAllocates(t) ==
  /\ At(t, "alloc")
  /\ LET s == service[t]
     IN  IF mutex[s] = NoOne
         THEN /\ mutex' = [mutex EXCEPT ![s] = t]
              /\ open' = [open EXCEPT ![s] = None]
              /\ running' = (running /\ s # "backup")
              /\ Go(t, "setup")
         ELSE /\ Go(t, "undo")
              /\ UNCHANGED <<mutex, open, running>>
  /\ UNCHANGED <<backup_api_state, worker, destination, jobs, service, got>>

\* open_fifo, execute_restore_to_file
BeginOpens(t) ==
  /\ At(t, "setup")
  /\ jobs < MaxJobs
  /\ jobs' = jobs + 1
  /\ open' = [open EXCEPT ![service[t]] = jobs']
  /\ Go(t, IF service[t] = "backup" THEN "launch" ELSE "begun")
  /\ UNCHANGED <<backup_api_state, mutex, running, worker, destination,
                 service, got>>

\* set_thread_state, before there is a thread
BeginAnnounces(t) ==
  /\ At(t, "launch")
  /\ running' = TRUE
  /\ Go(t, "create")
  /\ UNCHANGED <<backup_api_state, mutex, open, worker, destination, jobs,
                 service, got>>

\* pthread_create
BeginCreates(t) ==
  /\ At(t, "create")
  /\ worker' = "created"
  /\ Go(t, "begun")
  /\ UNCHANGED <<backup_api_state, mutex, open, running, destination, jobs,
                 service, got>>

\* pthread_create fails: THREAD_STATE_EXIT_WITH_ERROR
CreateFails(t) ==
  /\ At(t, "create")
  /\ running' = FALSE
  /\ Go(t, "join")
  /\ UNCHANGED <<backup_api_state, mutex, open, worker, destination, jobs,
                 service, got>>

BeginReturns(t) ==
  /\ At(t, "begun")
  /\ Unlock(service[t])
  /\ Go(t, "idle")
  /\ UNCHANGED <<backup_api_state, open, running, worker, destination, jobs,
                 service, got>>

\* the information is refused or the open fails: free_handle
BeginFails(t) ==
  /\ At(t, "setup")
  /\ open' = [open EXCEPT ![service[t]] = None]
  /\ Unlock(service[t])
  /\ Go(t, "undo")
  /\ UNCHANGED <<backup_api_state, running, worker, destination, jobs, service,
                 got>>

\* the error path has joined a thread that was never created, a call that may
\* as well stay here for ever; close_fifo and free_handle
BeginJoinsNobody(t) ==
  /\ At(t, "join")
  /\ FinalizeHandle(service[t])
  /\ Unlock(service[t])
  /\ Go(t, "undo")
  /\ UNCHANGED <<backup_api_state, destination, jobs, service, got>>

BeginUndoes(t) ==
  /\ At(t, "undo")
  /\ Transit(service[t], "READY")
  /\ Go(t, "idle")
  /\ UNCHANGED <<mutex, open, running, worker, destination, jobs, service, got>>

----------------------------------------------------------------------------
(* cubrid_backup_read, cubrid_restore_write *)

UseEnters(t, s) ==
  /\ At(t, "idle")
  /\ MayUse(s)
  /\ backup_api_state = s
  /\ service' = [service EXCEPT ![t] = s]
  /\ Go(t, "lock")
  /\ UNCHANGED <<backup_api_state, mutex, open, running, worker, destination,
                 jobs, got>>

Lock_Skipped(t, s) == UNCHANGED mutex

\* pthread_mutex_lock
Lock(t, s) ==
  /\ mutex[s] = NoOne
  /\ mutex' = [mutex EXCEPT ![s] = t]

UseLocks(t) ==
  /\ At(t, "lock")
  /\ Lock(t, service[t])
  /\ Go(t, "load")
  /\ UNCHANGED <<backup_api_state, open, running, worker, destination, jobs,
                 service, got>>

\* the descriptor is read from the handle; a read does so again each time round
UseLoads(t) ==
  /\ At(t, "load")
  /\ got' = [got EXCEPT ![t] = open[service[t]]]
  /\ Go(t, "using")
  /\ UNCHANGED <<backup_api_state, mutex, open, running, worker, destination,
                 jobs, service>>

UseReturns(t) ==
  /\ At(t, "using")
  /\ Unlock(service[t])
  /\ Go(t, "idle")
  /\ got' = [got EXCEPT ![t] = None]
  /\ UNCHANGED <<backup_api_state, open, running, worker, destination, jobs,
                 service>>

----------------------------------------------------------------------------
(* cubrid_backup_end, cubrid_restore_end *)

EndEnters(t, s) ==
  /\ At(t, "idle")
  /\ MayEnd(s)
  /\ backup_api_state = s
  /\ service' = [service EXCEPT ![t] = s]
  /\ Go(t, "end_lock")
  /\ UNCHANGED <<backup_api_state, mutex, open, running, worker, destination,
                 jobs, got>>

EndLocks(t) ==
  /\ At(t, "end_lock")
  /\ Lock(t, service[t])
  /\ Go(t, "closing")
  /\ UNCHANGED <<backup_api_state, open, running, worker, destination, jobs,
                 service, got>>

UnlocksAgain_Both(s) == TRUE

\* end_backup unlocks after free_handle has done so, end_restore does not
UnlocksAgain(s) == s = "backup"

\* close_fifo, close_restore_file; then free_handle, which unlocks
EndFrees(t) ==
  /\ At(t, "closing")
  /\ FinalizeHandle(service[t])
  /\ Unlock(service[t])
  /\ Go(t, IF UnlocksAgain(service[t]) THEN "unlock_again" ELSE "leave")
  /\ UNCHANGED <<backup_api_state, destination, jobs, service, got>>

EndUnlocksAgain(t) ==
  /\ At(t, "unlock_again")
  /\ Unlock(service[t])
  /\ Go(t, "leave")
  /\ UNCHANGED <<backup_api_state, open, running, worker, destination, jobs,
                 service, got>>

EndReturns(t) ==
  /\ At(t, "leave")
  /\ Transit(service[t], "READY")
  /\ Go(t, "idle")
  /\ UNCHANGED <<mutex, open, running, worker, destination, jobs, service, got>>

----------------------------------------------------------------------------
(* cubrid_backup_finalize *)

\* transit_backup_api_state_to_end
FinalizeEnters(t) ==
  /\ At(t, "idle")
  /\ MayFinalize
  /\ backup_api_state \notin {"NOT_READY", "INITIALIZING"}
  /\ backup_api_state' = "FINALIZING"
  /\ Go(t, "fin_backup")
  /\ UNCHANGED <<mutex, open, running, worker, destination, jobs, service, got>>

\* free_handle takes EBUSY for success, and unlocks
FinalizeFrees(t, s, from, to) ==
  /\ At(t, from)
  /\ FinalizeHandle(s)
  /\ Unlock(s)
  /\ Go(t, to)
  /\ UNCHANGED <<backup_api_state, destination, jobs, service, got>>

FinalizeReturns(t) ==
  /\ At(t, "fin_done")
  /\ backup_api_state' = "NOT_READY"
  /\ Go(t, "idle")
  /\ UNCHANGED <<mutex, open, running, worker, destination, jobs, service, got>>

\* execute_cubrid_backupdb takes the path from the handle
WorkerForks ==
  /\ worker = "created"
  /\ worker' = "forked"
  /\ destination' = open["backup"]
  /\ UNCHANGED <<backup_api_state, mutex, open, running, jobs, callVars>>

\* the utility has exited and the worker says so
WorkerExits ==
  /\ worker = "forked"
  /\ running' = FALSE
  /\ worker' = "none"
  /\ UNCHANGED <<backup_api_state, mutex, open, destination, jobs, callVars>>

----------------------------------------------------------------------------

Init ==
  /\ backup_api_state = "NOT_READY"
  /\ mutex = [s \in Services |-> NoOne]
  /\ open = [s \in Services |-> None]
  /\ running = FALSE
  /\ worker = "none"
  /\ destination = None
  /\ jobs = 0
  /\ pc = [t \in Threads |-> "idle"]
  /\ service = [t \in Threads |-> "backup"]
  /\ got = [t \in Threads |-> None]

Next ==
  \/ \E t \in Threads :
       \/ InitializeEnters(t) \/ InitializeReturns(t)
       \/ \E s \in Services :
            BeginEnters(t, s) \/ UseEnters(t, s) \/ EndEnters(t, s)
       \/ BeginAllocates(t) \/ BeginOpens(t) \/ BeginAnnounces(t)
       \/ BeginCreates(t) \/ CreateFails(t) \/ BeginJoinsNobody(t)
       \/ BeginReturns(t) \/ BeginFails(t) \/ BeginUndoes(t)
       \/ UseLocks(t) \/ UseLoads(t) \/ UseReturns(t)
       \/ EndLocks(t) \/ EndFrees(t) \/ EndUnlocksAgain(t) \/ EndReturns(t)
       \/ FinalizeEnters(t)
       \/ FinalizeFrees(t, "backup", "fin_backup", "fin_restore")
       \/ FinalizeFrees(t, "restore", "fin_restore", "fin_done")
       \/ FinalizeReturns(t)
  \/ WorkerForks \/ WorkerExits

Spec == Init /\ [][Next]_vars

----------------------------------------------------------------------------
(* Properties *)

\* Every variable holds a value of its C type.
TypeOK ==
  /\ backup_api_state \in
       {"NOT_READY", "INITIALIZING", "READY", "FINALIZING"} \cup Services
  /\ mutex \in [Services -> Threads \cup {NoOne}]
  /\ open \in [Services -> Jobs \cup {None}]
  /\ running \in BOOLEAN
  /\ worker \in {"none", "created", "forked"}
  /\ destination \in Jobs \cup {None}
  /\ jobs \in 0..MaxJobs
  /\ pc \in [Threads -> {"idle", "init"} \cup Beginning \cup Using \cup Ending
                          \cup Finalizing]
  /\ service \in [Threads -> Services]
  /\ got \in [Threads -> Jobs \cup {None}]

\* where a call has the handle to itself
Section == {"setup", "launch", "create", "join", "begun", "load", "using",
            "closing"}

\* The thread that works on a handle, and no other, holds its mutex: two calls
\* never work on one handle, and none gives up the lock of another.
MutexHeld ==
  \A t \in Threads, s \in Services : InCall(t, s, Section) <=> mutex[s] = t

\* When a begin of either service is admitted nothing of an earlier one is left:
\* no open FIFO or file, no worker; however late the calls of other threads
\* that checked the API state before the end are served.
ReadyMeansFree ==
  backup_api_state = "READY" =>
    /\ \A s \in Services : open[s] = None
    /\ worker = "none"

\* Nobody closes the FIFO or file under the use that works on it, or puts another
\* in its place. A use finds nothing open only where the program lets it overlap
\* the end of its service: such a late call is served on a handle that was reset.
UseUndisturbed ==
  \A t \in Threads : At(t, "using") =>
    /\ open[service[t]] = got[t]
    /\ got[t] = None => OverlapOf(service[t]) \in Overlaps

\* A utility is never started with a destination that has been reset: the order
\* of set_thread_state and pthread_create in begin_backup is there for this
\* (the comment in finalize_backup_handle).
WorkerHasPath == worker = "forked" => destination \in Jobs

----------------------------------------------------------------------------
(* The inductive invariant behind the theorems, for a program that keeps apart *)
(* all but write_end                                                           *)

Moving(t) == pc[t] \in Beginning \cup Ending \cup Finalizing \cup {"init"}

\* one call at a time moves the API state, which names its service
OneMover == \A t, u \in Threads : Moving(t) /\ Moving(u) => t = u

MoverOwnsState ==
  \A t \in Threads :
    /\ pc[t] \in Beginning \cup Ending => backup_api_state = service[t]
    /\ pc[t] \in Finalizing => backup_api_state = "FINALIZING"
    /\ pc[t] = "init" => backup_api_state = "INITIALIZING"

AloneWhenDown ==
  backup_api_state \in {"NOT_READY", "INITIALIZING", "FINALIZING"} =>
    \A t \in Threads : pc[t] \in {"idle", "init"} \cup Finalizing

\* a use that the program keeps apart from the end of its service meets no call
\* that moves the state: the second unlock of end_backup needs this
UserMeetsNone ==
  \A t \in Threads, s \in Services :
    InCall(t, s, Using) /\ OverlapOf(s) \notin Overlaps =>
      backup_api_state = s /\ \A u \in Threads : ~Moving(u)

OnlyBackup ==
  \A t \in Threads : pc[t] \in {"launch", "create", "join", "unlock_again"} =>
                      service[t] = "backup"

\* between begin and end the FIFO or the file is there
BegunIsOpen ==
  backup_api_state \in Services =>
    open[backup_api_state] # None \/ \E t \in Threads : Moving(t)

\* what the steps of a call leave in the handle
HandleAtStep ==
  /\ \A s \in Services : open[s] # None => backup_api_state \in {s, "FINALIZING"}
  /\ \A t \in Threads, s \in Services :
       /\ InCall(t, s, {"alloc", "undo", "setup", "unlock_again", "leave"}) =>
            open[s] = None
       /\ InCall(t, s, {"launch", "create", "join", "begun"}) => open[s] # None
  /\ \A t \in Threads :
       /\ pc[t] = "fin_restore" => open["backup"] = None
       /\ pc[t] = "fin_done" => \A s \in Services : open[s] = None

WorkerAtStep ==
  /\ running <=> worker # "none" \/ \E t \in Threads : At(t, "create")
  /\ worker # "none" =>
       /\ backup_api_state \in {"backup", "FINALIZING"}
       /\ \A t \in Threads :
            ~Moving(t) \/ pc[t] \in {"begun", "end_lock", "closing", "fin_backup"}
  /\ worker = "created" => open["backup"] # None

IInv ==
  /\ TypeOK
  /\ OneMover
  /\ MoverOwnsState
  /\ AloneWhenDown
  /\ UserMeetsNone
  /\ OnlyBackup
  /\ MutexHeld
  /\ BegunIsOpen
  /\ HandleAtStep
  /\ WorkerAtStep
  /\ UseUndisturbed
  /\ WorkerHasPath
=============================================================================
