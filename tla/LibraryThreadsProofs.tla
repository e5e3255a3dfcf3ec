------------------------ MODULE LibraryThreadsProofs ------------------------
(***************************************************************************)
(* Proofs about LibraryThreads, for any number of threads, backups and     *)
(* restores. The program may let its writes overlap the end of a restore;  *)
(* it keeps apart reads and cubrid_backup_end, two ends of one service,    *)
(* and cubrid_backup_finalize and everything else.                         *)
(***************************************************************************)
EXTENDS LibraryThreads, TLAPS

\* What the program does: read_end breaks MutexHeld, end_end ReadyMeansFree and
\* finalize WorkerHasPath.
KeepsApart == Overlaps \subseteq {"write_end"}

USE ThreadsAssumption DEF KeepsApart, None, Services, Jobs

\* Nothing is begun, open or locked when the library is loaded.
LEMMA InitEstablishes == Init => IInv
<1> SUFFICES ASSUME Init PROVE IInv
    OBVIOUS
<1> USE DEF Init
<1>1. TypeOK
  <2>1. /\ mutex \in [Services -> Threads \cup {NoOne}]
        /\ open \in [Services -> Jobs \cup {None}]
        OBVIOUS
  <2>2. /\ pc \in [Threads -> {"idle", "init"} \cup Beginning \cup Using \cup Ending
                                \cup Finalizing]
        /\ service \in [Threads -> Services]
        /\ got \in [Threads -> Jobs \cup {None}]
        OBVIOUS
  <2>3. destination \in Jobs \cup {None} /\ jobs \in 0..MaxJobs
        OBVIOUS
  <2>4. worker \in {"none", "created", "forked"} /\ running \in BOOLEAN
        OBVIOUS
  <2>5. backup_api_state \in
          {"NOT_READY", "INITIALIZING", "READY", "FINALIZING"} \cup Services
        OBVIOUS
  <2> HIDE DEF Services, Jobs, None, Init
  <2> QED BY <2>1, <2>2, <2>3, <2>4, <2>5 DEF TypeOK
<1>2. OneMover /\ MoverOwnsState /\ AloneWhenDown /\ UserMeetsNone /\ OnlyBackup
      BY DEF OneMover, MoverOwnsState, AloneWhenDown, UserMeetsNone, OnlyBackup,
             Moving, InCall, Beginning, Using, Ending, Finalizing
<1>3. /\ MutexHeld /\ BegunIsOpen /\ HandleAtStep /\ WorkerAtStep
      /\ UseUndisturbed /\ WorkerHasPath
      BY DEF MutexHeld, BegunIsOpen, HandleAtStep, WorkerAtStep, UseUndisturbed,
             WorkerHasPath, InCall, At, Section
<1> QED BY <1>1, <1>2, <1>3 DEF IInv

\* The mutexes are made anew while nobody is in a call that holds one.
LEMMA InitializeKeeps ==
  ASSUME IInv, NEW t \in Threads,
         InitializeEnters(t) \/ InitializeReturns(t)
  PROVE  IInv'
<1> USE DEF IInv, TypeOK, OneMover, MoverOwnsState, AloneWhenDown, UserMeetsNone,
            OnlyBackup, MutexHeld, BegunIsOpen, HandleAtStep, WorkerAtStep,
            UseUndisturbed, WorkerHasPath, Moving, InCall, At, Go, Section,
            Beginning, Using, Ending, Finalizing, callVars
<1>1. CASE InitializeEnters(t)
      BY <1>1 DEF InitializeEnters, MayInitialize
<1>2. CASE InitializeReturns(t)
      BY <1>2 DEF InitializeReturns
<1> QED BY <1>1, <1>2

\* A begin, a use or an end of either service is entered: what the program
\* keeps apart is used here.
LEMMA EnterKeeps ==
  ASSUME KeepsApart, IInv, NEW t \in Threads, NEW s \in Services,
         BeginEnters(t, s) \/ UseEnters(t, s) \/ EndEnters(t, s)
  PROVE  IInv'
<1> USE DEF IInv, TypeOK, OneMover, MoverOwnsState, AloneWhenDown, UserMeetsNone,
            OnlyBackup, MutexHeld, BegunIsOpen, HandleAtStep, WorkerAtStep,
            UseUndisturbed, WorkerHasPath, Moving, InCall, At, Go, Section,
            Beginning, Using, Ending, Finalizing, callVars
<1>1. CASE BeginEnters(t, s)
      BY <1>1 DEF BeginEnters
<1>2. CASE UseEnters(t, s)
      BY <1>2 DEF UseEnters, MayUse, HasBegun, OverlapOf
<1>3. CASE EndEnters(t, s)
      BY <1>3 DEF EndEnters, MayEnd, HasBegun, OverlapOf
<1> QED BY <1>1, <1>2, <1>3

\* The steps of a begin: it is the only call that moves the state, and a use
\* that came too late holds the mutex or finds nothing open.
LEMMA BeginKeeps ==
  ASSUME IInv, NEW t \in Threads,
         BeginAllocates(t) \/ BeginOpens(t) \/ BeginAnnounces(t) \/ BeginCreates(t)
           \/ CreateFails(t) \/ BeginJoinsNobody(t) \/ BeginReturns(t)
           \/ BeginFails(t) \/ BeginUndoes(t)
  PROVE  IInv'
<1> USE DEF IInv, TypeOK, OneMover, MoverOwnsState, AloneWhenDown, UserMeetsNone,
            OnlyBackup, MutexHeld, BegunIsOpen, HandleAtStep, WorkerAtStep,
            UseUndisturbed, WorkerHasPath, Moving, InCall, At, Go, Section,
            Beginning, Using, Ending, Finalizing, callVars
<1>1. CASE BeginAllocates(t)
      BY <1>1 DEF BeginAllocates
<1>2. CASE BeginOpens(t)
      BY <1>2 DEF BeginOpens
<1>3. CASE BeginAnnounces(t)
      BY <1>3 DEF BeginAnnounces
<1>4. CASE BeginCreates(t)
      BY <1>4 DEF BeginCreates
<1>5. CASE CreateFails(t)
  <2> USE <1>5 DEF CreateFails
  <2>1. \A u \in Threads : ~At(u, "create")'
        OBVIOUS
  <2>2. WorkerAtStep' /\ WorkerHasPath'
        BY <2>1
  <2>3. TypeOK'
        OBVIOUS
  <2>4. OneMover' /\ UserMeetsNone' /\ OnlyBackup'
        OBVIOUS
  <2>5. MoverOwnsState' /\ AloneWhenDown'
        OBVIOUS
  <2>6. MutexHeld' /\ UseUndisturbed' /\ HandleAtStep' /\ BegunIsOpen'
        OBVIOUS
  <2> QED BY <2>2, <2>3, <2>4, <2>5, <2>6
<1>6. CASE BeginJoinsNobody(t)
      BY <1>6 DEF BeginJoinsNobody, FinalizeHandle, Join, Unlock
<1>7. CASE BeginReturns(t)
      BY <1>7 DEF BeginReturns, Unlock
<1>8. CASE BeginFails(t)
      BY <1>8 DEF BeginFails, Unlock
<1>9. CASE BeginUndoes(t)
      BY <1>9 DEF BeginUndoes, Transit
<1> QED BY <1>1, <1>2, <1>3, <1>4, <1>5, <1>6, <1>7, <1>8, <1>9

\* The steps of a use.
LEMMA UseKeeps ==
  ASSUME IInv, NEW t \in Threads,
         UseLocks(t) \/ UseLoads(t) \/ UseReturns(t)
  PROVE  IInv'
<1> USE DEF IInv, TypeOK, OneMover, MoverOwnsState, AloneWhenDown, UserMeetsNone,
            OnlyBackup, MutexHeld, BegunIsOpen, HandleAtStep, WorkerAtStep,
            UseUndisturbed, WorkerHasPath, Moving, InCall, At, Go, Section,
            Beginning, Using, Ending, Finalizing, callVars
<1>1. CASE UseLocks(t)
      BY <1>1 DEF UseLocks, Lock
<1>2. CASE UseLoads(t)
      BY <1>2 DEF UseLoads
<1>3. CASE UseReturns(t)
      BY <1>3 DEF UseReturns, Unlock
<1> QED BY <1>1, <1>2, <1>3

\* The steps of an end. The second unlock of end_backup releases nobody's
\* mutex: no other call moves the state, and no read is under way.
LEMMA EndKeeps ==
  ASSUME KeepsApart, IInv, NEW t \in Threads,
         EndLocks(t) \/ EndFrees(t) \/ EndUnlocksAgain(t) \/ EndReturns(t)
  PROVE  IInv'
<1> USE DEF IInv, TypeOK, OneMover, MoverOwnsState, AloneWhenDown, UserMeetsNone,
            OnlyBackup, MutexHeld, BegunIsOpen, HandleAtStep, WorkerAtStep,
            UseUndisturbed, WorkerHasPath, Moving, InCall, At, Go, Section,
            Beginning, Using, Ending, Finalizing, callVars
<1>1. CASE EndLocks(t)
      BY <1>1 DEF EndLocks, Lock
<1>2. CASE EndFrees(t)
  <2> USE <1>2 DEF EndFrees, FinalizeHandle, Join, Unlock, UnlocksAgain
  <2>1. TypeOK'
        OBVIOUS
  <2>2. /\ OneMover' /\ MoverOwnsState' /\ AloneWhenDown'
        /\ UserMeetsNone' /\ OnlyBackup'
        OBVIOUS
  <2>3. MutexHeld' /\ UseUndisturbed'
        OBVIOUS
  <2>4. HandleAtStep' /\ BegunIsOpen'
        OBVIOUS
  <2>5. \A u \in Threads : pc'[u] # "create"
        OBVIOUS
  <2>6. WorkerAtStep' /\ WorkerHasPath'
        BY <2>5
  <2> QED BY <2>1, <2>2, <2>3, <2>4, <2>6
<1>3. CASE EndUnlocksAgain(t)
      BY <1>3 DEF EndUnlocksAgain, Unlock, OverlapOf
<1>4. CASE EndReturns(t)
      BY <1>4 DEF EndReturns, Transit
<1> QED BY <1>1, <1>2, <1>3, <1>4

\* A finalize is alone, so it unlocks two mutexes nobody holds.
LEMMA FinalizeKeeps ==
  ASSUME KeepsApart, IInv, NEW t \in Threads,
         FinalizeEnters(t) \/ FinalizeReturns(t)
           \/ FinalizeFrees(t, "backup", "fin_backup", "fin_restore")
           \/ FinalizeFrees(t, "restore", "fin_restore", "fin_done")
  PROVE  IInv'
<1> USE DEF IInv, TypeOK, OneMover, MoverOwnsState, AloneWhenDown, UserMeetsNone,
            OnlyBackup, MutexHeld, BegunIsOpen, HandleAtStep, WorkerAtStep,
            UseUndisturbed, WorkerHasPath, Moving, InCall, At, Go, Section,
            Beginning, Using, Ending, Finalizing, callVars
<1>1. CASE FinalizeEnters(t)
      BY <1>1 DEF FinalizeEnters, MayFinalize, Idle
<1>2. CASE FinalizeReturns(t)
      BY <1>2 DEF FinalizeReturns
<1>3. CASE FinalizeFrees(t, "backup", "fin_backup", "fin_restore")
  <2> USE <1>3 DEF FinalizeFrees, FinalizeHandle, Join, Unlock
  <2>1. TypeOK'
        OBVIOUS
  <2>2. /\ OneMover' /\ MoverOwnsState' /\ AloneWhenDown'
        /\ UserMeetsNone' /\ OnlyBackup'
        OBVIOUS
  <2>3. MutexHeld' /\ UseUndisturbed'
        OBVIOUS
  <2>4. HandleAtStep' /\ BegunIsOpen'
        OBVIOUS
  <2>5. \A u \in Threads : pc'[u] # "create"
        OBVIOUS
  <2>6. WorkerAtStep' /\ WorkerHasPath'
        BY <2>5
  <2> QED BY <2>1, <2>2, <2>3, <2>4, <2>6
<1>4. CASE FinalizeFrees(t, "restore", "fin_restore", "fin_done")
      BY <1>4 DEF FinalizeFrees, FinalizeHandle, Join, Unlock
<1> QED BY <1>1, <1>2, <1>3, <1>4

\* The worker thread runs beside every call.
LEMMA WorkerKeeps ==
  ASSUME IInv,
         WorkerForks \/ WorkerExits
  PROVE  IInv'
<1> USE DEF IInv, TypeOK, OneMover, MoverOwnsState, AloneWhenDown, UserMeetsNone,
            OnlyBackup, MutexHeld, BegunIsOpen, HandleAtStep, WorkerAtStep,
            UseUndisturbed, WorkerHasPath, Moving, InCall, At, Go, Section,
            Beginning, Using, Ending, Finalizing, callVars
<1>1. CASE WorkerForks
      BY <1>1 DEF WorkerForks
<1>2. CASE WorkerExits
  <2> USE <1>2 DEF WorkerExits
  <2>1. TypeOK'
        OBVIOUS
  <2>2. /\ OneMover' /\ MoverOwnsState' /\ AloneWhenDown'
        /\ UserMeetsNone' /\ OnlyBackup'
        OBVIOUS
  <2>3. MutexHeld' /\ UseUndisturbed'
        OBVIOUS
  <2>4. HandleAtStep' /\ BegunIsOpen'
        OBVIOUS
  <2>5. \A u \in Threads : pc'[u] # "create"
        OBVIOUS
  <2>6. WorkerAtStep' /\ WorkerHasPath'
        BY <2>5
  <2> QED BY <2>1, <2>2, <2>3, <2>4, <2>6
<1> QED BY <1>1, <1>2

\* Every step keeps the invariant.
LEMMA StepKeeps ==
  ASSUME KeepsApart
  PROVE  IInv /\ [Next]_vars => IInv'
<1> SUFFICES ASSUME IInv, [Next]_vars PROVE IInv'
    OBVIOUS
<1>1. CASE Next
      BY <1>1, InitializeKeeps, EnterKeeps, BeginKeeps, UseKeeps, EndKeeps,
         FinalizeKeeps, WorkerKeeps DEF Next
<1>2. CASE UNCHANGED vars
      BY <1>2 DEF vars, callVars, IInv, TypeOK, OneMover, MoverOwnsState,
              AloneWhenDown, UserMeetsNone, OnlyBackup, MutexHeld, BegunIsOpen,
              HandleAtStep, WorkerAtStep, UseUndisturbed, WorkerHasPath, Moving, InCall, At
<1> QED BY <1>1, <1>2

\* The inductive invariant holds in every behaviour.
LEMMA InvHolds ==
  ASSUME KeepsApart
  PROVE  Spec => []IInv
BY InitEstablishes, StepKeeps, PTL DEF Spec

\* Every variable keeps a value of its type.
THEOREM ThreadsTypeCorrect ==
  ASSUME KeepsApart
  PROVE  Spec => []TypeOK
<1>1. IInv => TypeOK
      BY DEF IInv
<1> QED BY <1>1, InvHolds, PTL

\* backup_mutex and restore_mutex are held by the thread that works on the handle
\* and by no other, the second unlock of end_backup notwithstanding.
THEOREM MutexHeldByWorkers ==
  ASSUME KeepsApart
  PROVE  Spec => []MutexHeld
<1>1. IInv => MutexHeld
      BY DEF IInv
<1> QED BY <1>1, InvHolds, PTL

\* When cubrid_backup_begin or cubrid_restore_begin is admitted the handles are
\* closed and no worker of an earlier backup runs.
THEOREM ReadyFindsNothing ==
  ASSUME KeepsApart
  PROVE  Spec => []ReadyMeansFree
<1>1. IInv => ReadyMeansFree
      BY DEF IInv, BegunIsOpen, HandleAtStep, WorkerAtStep, ReadyMeansFree, TypeOK
<1> QED BY <1>1, InvHolds, PTL

\* No call closes or replaces the FIFO or the file under a use that works on it;
\* every read works on an open FIFO, and every write on an open file unless the
\* program lets writes overlap the end of their restore.
THEOREM UsesAreUndisturbed ==
  ASSUME KeepsApart
  PROVE  Spec => []UseUndisturbed
<1>1. IInv => UseUndisturbed
      BY DEF IInv
<1> QED BY <1>1, InvHolds, PTL

\* The utility is always started with the path of a FIFO that was made for it.
THEOREM WorkersHavePaths ==
  ASSUME KeepsApart
  PROVE  Spec => []WorkerHasPath
<1>1. IInv => WorkerHasPath
      BY DEF IInv
<1> QED BY <1>1, InvHolds, PTL
=============================================================================
