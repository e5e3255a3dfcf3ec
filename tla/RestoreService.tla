--------------------------- MODULE RestoreService ---------------------------
(***************************************************************************)
(* The restore half of cubrid-backup-api, called by one program thread:    *)
(* cubrid_restore_begin opens the backup file of a level, _write appends   *)
(* the block it is given, _end closes the file. The program may die at any *)
(* point and start again; the restored files outlive it.                   *)
(*                                                                         *)
(* A call runs to its end in one step: only the program's death can fall   *)
(* in the middle of one. Contention for the handle is in LibraryThreads.   *)
(***************************************************************************)
EXTENDS Integers, Sequences

CONSTANTS
  MaxLevel,      \* BACKUP_SMALL_INCREMENT_LEVEL
  BlockNos,      \* numbers of the blocks of a backup
  BlockLen,      \* data_len of each block
  MaxTransfer,   \* the most that one write() transfers
  UIntMax,       \* UINT_MAX
  MaxOpens,      \* bound on the successful cubrid_restore_begin calls
  MaxPieces,     \* bound on the writes to one file
  Reinit         \* the program initializes an initialized library

ASSUME RestoreAssumption ==
  /\ MaxLevel \in Nat
  /\ MaxTransfer \in Nat \ {0}
  /\ MaxOpens \in Nat
  /\ MaxPieces \in Nat
  /\ UIntMax \in Nat
  /\ Reinit \in BOOLEAN
  \* a block is not empty, nor 4 GiB - 1 long (see Complete)
  /\ BlockLen \in [BlockNos -> 1..(UIntMax - 1)]

Levels == 0..MaxLevel
Opens == 1..MaxOpens
None == -1
Stdin == 0

VARIABLES
  backup_api_state, once_initialize, once_finalize,
  \* handle_manager.c: the one static RESTORE_HANDLE
  restore_type, backup_level, restore_fd,
  \* kernel: open descriptors, the level each open file is for, files
  open_fds, target, opens, file,
  \* what the program was told of its latest restore: the blocks that were
  \* acknowledged, and whether every call succeeded
  acked, clean

apiVars    == <<backup_api_state, once_initialize, once_finalize>>
handleVars == <<restore_type, backup_level, restore_fd>>
fileVars   == <<open_fds, target, opens, file>>
toldVars   == <<acked, clean>>
vars == <<apiVars, handleVars, fileVars, toldVars>>

ApiStates    == {"NOT_READY", "READY", "BACKUP_SERVICE", "RESTORE_SERVICE"}
RestoreTypes == {"none", "RESTORE_TO_DB", "RESTORE_TO_FILE"}
Pieces == [level : Levels, block : BlockNos, units : Nat]
Piece(l, b, n) == [level |-> l, block |-> b, units |-> n]

----------------------------------------------------------------------------

\* pthread_once (&backup_api_once_finalize, finalize_backup_api)
Teardown(finalized) ==
  IF finalized
  THEN UNCHANGED apiVars
  ELSE /\ backup_api_state' = "NOT_READY"
       /\ once_initialize' = FALSE
       /\ once_finalize' = TRUE

\* initialize_restore_handle
ResetHandle ==
  /\ restore_type' = "none"
  /\ backup_level' = 0
  /\ restore_fd' = None

CloseFile_Forgets == UNCHANGED open_fds

\* close_restore_file and the close in finalize_restore_handle
CloseFile == open_fds' = open_fds \ {restore_fd}

Gate_Nested(state) ==
  once_initialize /\ backup_api_state \in {state, "RESTORE_SERVICE"}

\* check_api_call_sequence; a refused call changes nothing
Gate(state) == once_initialize /\ backup_api_state = state

(* cubrid_backup_initialize, cubrid_backup_finalize *)
InitializeSucceeds ==
  /\ backup_api_state = "NOT_READY"
  /\ backup_api_state' = "READY"
  /\ once_initialize' = TRUE
  /\ once_finalize' = (once_initialize /\ once_finalize)
  /\ UNCHANGED <<handleVars, fileVars, toldVars>>

InitializeFails ==
  /\ backup_api_state = "NOT_READY" \/ Reinit
  /\ Teardown(once_initialize /\ once_finalize)
  /\ UNCHANGED <<handleVars, fileVars, toldVars>>

FinalizeRejected ==
  /\ ~once_initialize \/ backup_api_state = "NOT_READY"
  /\ Teardown(once_finalize)
  /\ UNCHANGED <<handleVars, fileVars, toldVars>>

\* free_handle (RESTORE_HANDLE_TYPE): before the first restore restore_fd is 0
Finalize ==
  /\ once_initialize
  /\ backup_api_state # "NOT_READY"
  /\ CloseFile
  /\ ResetHandle
  /\ Teardown(once_finalize)
  /\ UNCHANGED <<target, opens, file, toldVars>>

\* the gate as cubrid_backup_begin and cubrid_backup_end move it
BackupBegins ==
  /\ Gate("READY")
  /\ backup_api_state' = "BACKUP_SERVICE"
  /\ UNCHANGED <<once_initialize, once_finalize, handleVars, fileVars, toldVars>>

BackupEnds ==
  /\ Gate("BACKUP_SERVICE")
  /\ backup_api_state' = "READY"
  /\ UNCHANGED <<once_initialize, once_finalize, handleVars, fileVars, toldVars>>

----------------------------------------------------------------------------
(* cubrid_restore_begin *)

Truncate_KeepsOld(l) == UNCHANGED file

\* O_CREAT | O_TRUNC
Truncate(l) == file' = [file EXCEPT ![l] = <<>>]

InfoAccepted_OffByOne(l) == l \in 0..(MaxLevel + 1)

\* check_restore_info, as far as the level goes
InfoAccepted(l) == l \in Levels

BeginSucceeds(l) ==
  /\ Gate("READY")
  /\ InfoAccepted(l)
  /\ opens < MaxOpens
  /\ opens' = opens + 1
  /\ target' = [target EXCEPT ![opens'] = l]
  /\ open_fds' = open_fds \cup {opens'}
  /\ Truncate(l)
  /\ restore_type' = "RESTORE_TO_FILE"
  /\ backup_level' = l
  /\ restore_fd' = opens'
  /\ backup_api_state' = "RESTORE_SERVICE"
  /\ acked' = <<>>
  /\ clean' = TRUE
  /\ UNCHANGED <<once_initialize, once_finalize>>

\* check_restore_info refuses the type, the level, the directory or the name,
\* or open() fails: free_handle, back to READY
BeginFails ==
  /\ Gate("READY")
  /\ ResetHandle
  /\ UNCHANGED <<apiVars, fileVars, toldVars>>

(* cubrid_restore_write *)

\* what write() may return
WriteError == -1
WriteResults(b) ==
  {WriteError} \cup {n \in 1..BlockLen[b] : n <= MaxTransfer}

AsUnsigned(r) == IF r < 0 THEN UIntMax + 1 + r ELSE r

Complete_Written(b, r) == r # WriteError

\* retval != data_len compares an int with an unsigned int
Complete(b, r) == AsUnsigned(r) = BlockLen[b]

\* write_backup_data checks the range of the level and the type of the restore,
\* write_data_to_file the level against the handle
WriteAccepted(l) ==
  /\ l \in Levels
  /\ restore_type # "RESTORE_TO_DB"
  /\ restore_type = "RESTORE_TO_FILE" => l = backup_level

Put(l, b, n) ==
  file' = [file EXCEPT ![target[restore_fd]] = Append(@, Piece(l, b, n))]

HasRoom == Len(file[target[restore_fd]]) < MaxPieces

\* write_data_to_file with this result; a block names the level it is of
WriteToFile(l, b, r) ==
  /\ HasRoom
  /\ IF r = WriteError
     THEN UNCHANGED file
     ELSE Put(l, b, r)
  /\ IF Complete(b, r)
     THEN acked' = Append(acked, b) /\ UNCHANGED clean
     ELSE clean' = FALSE /\ UNCHANGED acked

\* a handle whose type is neither (-1, as it is reset) acknowledges the block and
\* nothing is written
Write(l, b, r) ==
  /\ Gate("RESTORE_SERVICE")
  /\ WriteAccepted(l)
  /\ IF restore_type = "RESTORE_TO_FILE"
     THEN WriteToFile(l, b, r)
     ELSE acked' = Append(acked, b) /\ UNCHANGED <<file, clean>>
  /\ UNCHANGED <<apiVars, handleVars, open_fds, target, opens>>

WriteRefused(l) ==
  /\ Gate("RESTORE_SERVICE")
  /\ ~WriteAccepted(l)
  /\ clean' = FALSE
  /\ UNCHANGED <<apiVars, handleVars, fileVars, acked>>

(* cubrid_restore_end *)
End ==
  /\ Gate("RESTORE_SERVICE")
  /\ restore_type # "RESTORE_TO_DB"
  /\ CloseFile
  /\ ResetHandle
  /\ backup_api_state' = "READY"
  /\ UNCHANGED <<once_initialize, once_finalize, target, opens, file, toldVars>>

----------------------------------------------------------------------------

\* The program dies, maybe inside a write, and is started again: its memory
\* is as at load time and its descriptors are closed
ProgramDies ==
  /\ backup_api_state' = "NOT_READY"
  /\ once_initialize' = FALSE
  /\ once_finalize' = FALSE
  /\ restore_type' = "RESTORE_TO_DB"
  /\ backup_level' = 0
  /\ restore_fd' = Stdin
  /\ open_fds' = {Stdin}
  /\ clean' = FALSE
  /\ \/ UNCHANGED file
     \/ /\ Gate("RESTORE_SERVICE")
        /\ HasRoom
        /\ \E b \in BlockNos : \E n \in WriteResults(b) \ {WriteError} :
             Put(backup_level, b, n)
  /\ UNCHANGED <<target, opens, acked>>

\* static storage: RESTORE_TO_DB is 0, and so is the descriptor
Init ==
  /\ backup_api_state = "NOT_READY"
  /\ once_initialize = FALSE
  /\ once_finalize = FALSE
  /\ restore_type = "RESTORE_TO_DB"
  /\ backup_level = 0
  /\ restore_fd = Stdin
  /\ open_fds = {Stdin}
  /\ target = [o \in Opens |-> None]
  /\ opens = 0
  /\ file = [l \in Levels |-> <<>>]
  /\ acked = <<>>
  /\ clean = FALSE

\* the levels a program may pass, a wrong one included
PassedLevels == 0..(MaxLevel + 1)

Next ==
  \/ InitializeSucceeds \/ InitializeFails
  \/ FinalizeRejected \/ Finalize
  \/ BackupBegins \/ BackupEnds
  \/ \E l \in PassedLevels : BeginSucceeds(l)
  \/ BeginFails
  \/ \E l \in PassedLevels, b \in BlockNos : \E r \in WriteResults(b) :
       Write(l, b, r)
  \/ \E l \in PassedLevels : WriteRefused(l)
  \/ End
  \/ ProgramDies

Spec == Init /\ [][Next]_vars

----------------------------------------------------------------------------
(* Properties *)

\* Every variable holds a value of its C type.
TypeOK ==
  /\ backup_api_state \in ApiStates
  /\ once_initialize \in BOOLEAN
  /\ once_finalize \in BOOLEAN
  /\ restore_type \in RestoreTypes
  /\ backup_level \in Levels
  /\ restore_fd \in {None, Stdin} \cup Opens
  /\ open_fds \subseteq {Stdin} \cup Opens
  /\ target \in [Opens -> Levels \cup {None}]
  /\ opens \in 0..MaxOpens
  /\ file \in [Levels -> Seq(Pieces)]
  /\ acked \in Seq(BlockNos)
  /\ clean \in BOOLEAN

\* While the API is in restore service the handle has an open file of its own
\* level: no write can be acknowledged without a file to go to, or be sent to
\* the file of another level.
ServiceHasFile ==
  backup_api_state = "RESTORE_SERVICE" =>
    /\ restore_type = "RESTORE_TO_FILE"
    /\ restore_fd \in Opens /\ restore_fd \in open_fds
    /\ target[restore_fd] = backup_level

\* No file stays open after its restore: what is open is the handle's.
FdAccounted == open_fds \subseteq {Stdin, restore_fd}

\* The file of the latest restore holds what the program wrote, block for
\* block and nothing older, if every call succeeded (the cmp of run_test.sh).
Image(l) == [i \in 1..Len(acked) |-> Piece(l, acked[i], BlockLen[acked[i]])]
CleanRestore == clean => file[target[opens]] = Image(target[opens])

\* What a restore promises: see RestoreFile.
Abstract == INSTANCE RestoreFile WITH
  NoLevel <- None,
  active  <- IF backup_api_state = "RESTORE_SERVICE" THEN target[opens] ELSE None

\* The library keeps the promise of RestoreFile: files start empty, grow by
\* whole acknowledged blocks or by a piece of a refused one, and only the file
\* of the restore in progress changes.
KeepsPromise == Abstract!Spec

----------------------------------------------------------------------------
(* The inductive invariant behind the theorems *)

\* the open file is that of the latest cubrid_restore_begin
ServiceIsLatest ==
  backup_api_state = "RESTORE_SERVICE" => opens \in Opens /\ restore_fd = opens

\* the latest restore has a level, and the program heard nothing before it
LatestHasLevel ==
  /\ opens \in Opens => target[opens] \in Levels
  /\ clean => opens \in Opens

\* the once controls agree with the API state
OnceMatches ==
  /\ once_initialize <=> backup_api_state # "NOT_READY"
  /\ once_initialize => ~once_finalize

IInv ==
  /\ TypeOK
  /\ OnceMatches
  /\ ServiceHasFile
  /\ ServiceIsLatest
  /\ LatestHasLevel
  /\ CleanRestore

\* between restores the handle holds no file, unless a refused second
\* cubrid_backup_initialize left one behind
HandleAtRest ==
  backup_api_state # "RESTORE_SERVICE" => restore_fd \notin Opens
=============================================================================
