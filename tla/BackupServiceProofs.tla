------------------------ MODULE BackupServiceProofs -------------------------
(***************************************************************************)
(* Proofs about BackupService, for every number of sessions, size of a     *)
(* backup, pipe, buffer and io_size.                                       *)
(***************************************************************************)
EXTENDS BackupService, TLAPS

USE DEF None, Stdin

-----------------------------------------------------------------------------
(* Types *)

\* The type invariant needs a little more: where a call uses the descriptor
\* there is one, and begin_backup has replaced the 0 of the static storage.
HasFd ==
  /\ pc \in {"spawn", "read_check", "read_io", "read_end"} => fifo_fd \in Sessions
  /\ backup_api_state = "BACKUP_SERVICE" => fifo_fd # Stdin

TypeInv == TypeOK /\ HasFd

\* A request of read_data is a number of units.
LEMMA RequestIsNat ==
  ASSUME NEW i \in Nat
  PROVE  Request(i) \in Nat
  BY ConstantsAssumption DEF Request, Remainder

\* What read_fifo returns is within what the FIFO holds.
LEMMA ReadSizeBounded ==
  ASSUME NEW held \in Nat, iter \in Nat
  PROVE  ReadSize(held) \in 0..held
  BY RequestIsNat DEF ReadSize

\* A read leaves a FIFO with no more than it held.
LEMMA ReadIoKeepsFifo ==
  ASSUME FifoTypeOK, CallTypeOK, ReadIo
  PROVE  fifo' \in [Sessions -> 0..PipeCapacity]
<1>1. CASE fifo_fd \in Sessions
  <2> DEFINE held == fifo[fifo_fd]
  <2>1. held \in 0..PipeCapacity /\ held \in Nat
    BY <1>1, ConstantsAssumption DEF FifoTypeOK
  <2>2. ReadSize(held) \in 0..held
    BY <2>1, ReadSizeBounded DEF CallTypeOK
  <2>3. held - ReadSize(held) \in 0..PipeCapacity
    BY <2>1, <2>2, ConstantsAssumption
  <2>4. fifo' = [fifo EXCEPT ![fifo_fd] = held - ReadSize(held)]
    BY DEF ReadIo
  <2> QED
    BY <2>3, <2>4 DEF FifoTypeOK
<1>2. CASE fifo_fd \notin Sessions
  BY <1>2 DEF ReadIo, FifoTypeOK
<1> QED
  BY <1>1, <1>2

\* A request of read_data is never more than io_size.
LEMMA RequestIsInt ==
  ASSUME NEW i \in Nat
  PROVE  Request(i) \in 0..IoSize
  BY ConstantsAssumption DEF Request, Remainder

\* A read adds a number of units, at most io_size, to what the call has read.
LEMMA ReadSizeIsNat ==
  ASSUME FifoTypeOK, CallTypeOK, HasFd, pc = "read_io"
  PROVE  ReadSize(fifo[fifo_fd]) \in 0..IoSize
<1>1. fifo[fifo_fd] \in Nat
  BY ConstantsAssumption DEF FifoTypeOK, HasFd
<1> QED
  BY <1>1, RequestIsInt, ConstantsAssumption DEF CallTypeOK, ReadSize

\* The C int starts at zero.
LEMMA ZeroIsInt == 0 \in CInt
  BY ConstantsAssumption DEF CInt

\* C ints are integers.
LEMMA CIntIsInt == \A n \in CInt : n \in Int
  BY ConstantsAssumption DEF CInt

\* The sum of two C ints that is stored in one is one.
LEMMA ToIntIsInt ==
  ASSUME NEW m \in CInt, NEW n \in 0..IoSize
  PROVE  ToInt(m + n) \in CInt
  BY ConstantsAssumption DEF ToInt, CInt

\* A failing read leaves the locals of a call as they were before it.
LEMMA FailTypes ==
  ASSUME CallTypeOK, ReadFails, UNCHANGED ended
  PROVE  CallTypeOK'
<1>1. lost' \in [Sessions -> Int]
  <2>1. CASE fifo_fd \in Sessions
    <3>1. lost[fifo_fd] + total \in Int
      BY <2>1, CIntIsInt DEF CallTypeOK
    <3> QED
      BY <3>1 DEF ReadFails, CallTypeOK
  <2>2. CASE fifo_fd \notin Sessions
    BY <2>2 DEF ReadFails, CallTypeOK
  <2> QED
    BY <2>1, <2>2
<1> QED
  BY <1>1, ZeroIsInt DEF ReadFails, ReadReturns, CallTypeOK, CallStates

\* A signal of a utility reaches the call in progress only as a failing read.
LEMMA SignalTypes ==
  ASSUME HandleTypeOK, CallTypeOK, HasFd, NEW s \in Sessions, Sigchld(s),
         UNCHANGED <<apiVars, jobVars, backup_thread, ended>>
  PROVE  HandleTypeOK' /\ CallTypeOK' /\ HasFd'
<1>1. HandleTypeOK'
  BY DEF Sigchld, SigchldToCaller, ReadReturns, ReadFails, jobVars, HandleTypeOK
<1>2. CallTypeOK'
  BY FailTypes DEF Sigchld, SigchldToCaller, CallTypeOK
<1>3. HasFd'
  BY DEF Sigchld, SigchldToCaller, ReadReturns, ReadFails, HasFd, apiVars, jobVars
<1> QED
  BY <1>1, <1>2, <1>3

\* Variables an action leaves alone keep their types.
LEMMA TypeFrame ==
  ASSUME TypeOK
  PROVE  /\ UNCHANGED apiVars => ApiTypeOK'
         /\ UNCHANGED handleVars => HandleTypeOK'
         /\ UNCHANGED fifoVars => FifoTypeOK'
         /\ UNCHANGED <<worker, childVars>> => ProcessTypeOK'
         /\ UNCHANGED callVars => CallTypeOK'
<1>1. UNCHANGED apiVars => ApiTypeOK'
  BY DEF TypeOK, ApiTypeOK, apiVars
<1>2. UNCHANGED handleVars => HandleTypeOK'
  BY DEF TypeOK, HandleTypeOK, handleVars, jobVars
<1>3. UNCHANGED fifoVars => FifoTypeOK'
  BY DEF TypeOK, FifoTypeOK, fifoVars
<1>4. UNCHANGED <<worker, childVars>> => ProcessTypeOK'
  BY DEF TypeOK, ProcessTypeOK, childVars
<1>5. UNCHANGED callVars => CallTypeOK'
  BY DEF TypeOK, CallTypeOK, callVars
<1> QED
  BY <1>1, <1>2, <1>3, <1>4, <1>5

\* The initial state is well typed.
LEMMA InitTypeInv == Init => TypeInv
<1> SUFFICES ASSUME Init PROVE TypeInv
  OBVIOUS
<1>1. ApiTypeOK
  BY DEF Init, ApiTypeOK, ApiStates
<1>2. HandleTypeOK
  BY DEF Init, HandleTypeOK, ThreadStates
<1>3. FifoTypeOK
  BY ConstantsAssumption DEF Init, FifoTypeOK, Sessions
<1>4. ProcessTypeOK
  BY ConstantsAssumption DEF Init, ProcessTypeOK, WorkerStates, ChildStates
<1>5. CallTypeOK
  <2>1. lost \in [Sessions -> Int]
    BY DEF Init
  <2>2. pc \in CallStates /\ iter \in Nat /\ total \in CInt /\ ended \in BOOLEAN
    BY ZeroIsInt DEF Init, CallStates
  <2> QED
    BY <2>1, <2>2 DEF CallTypeOK
<1>6. HasFd
  BY DEF Init, HasFd
<1> QED
  BY <1>1, <1>2, <1>3, <1>4, <1>5, <1>6 DEF TypeInv, TypeOK

\* Every step keeps the types, one action at a time.
LEMMA NextTypeInv == TypeInv /\ [Next]_vars => TypeInv'
<1> SUFFICES ASSUME TypeInv, [Next]_vars PROVE TypeInv'
  OBVIOUS
<1>a. /\ TypeOK /\ ApiTypeOK /\ HandleTypeOK
      /\ FifoTypeOK /\ ProcessTypeOK /\ CallTypeOK /\ HasFd
  BY DEF TypeInv, TypeOK
<1> USE <1>a
<1>1. CASE Call
  <2>1. CASE InitializeSucceeds
    <3>1. ApiTypeOK'
      BY <2>1 DEF InitializeSucceeds, FinalizedAfterOnce, ApiTypeOK, ApiStates
    <3>2. HandleTypeOK'
      BY <2>1 DEF InitializeSucceeds, jobVars, HandleTypeOK, ThreadStates
    <3>3. HasFd'
      BY <2>1
      DEF InitializeSucceeds, FinalizedAfterOnce, jobVars, Gate, HasFd,
          apiVars, handleVars, callVars
    <3> QED
      BY <2>1, <3>1, <3>2, <3>3, TypeFrame
      DEF InitializeSucceeds, TypeInv, TypeOK
  <2>2. CASE InitializeFails
    <3>1. ApiTypeOK'
      BY <2>2 DEF InitializeFails, Teardown, apiVars, ApiTypeOK, ApiStates
    <3>2. HasFd'
      BY <2>2
      DEF InitializeFails, Teardown, apiVars, Gate, HasFd, handleVars,
          jobVars, callVars
    <3> QED
      BY <2>2, <3>1, <3>2, TypeFrame DEF InitializeFails, TypeInv, TypeOK
  <2>3. CASE BeginFails
    <3>1. HandleTypeOK'
      BY <2>3 DEF BeginFails, ResetHandle, HandleTypeOK, ThreadStates
    <3>2. FifoTypeOK'
      BY <2>3, ConstantsAssumption DEF BeginFails, FifoTypeOK, Sessions
    <3>3. CallTypeOK'
      BY <2>3 DEF BeginFails, Gate, CallTypeOK, CallStates
    <3>4. HasFd'
      BY <2>3
      DEF BeginFails, ResetHandle, Gate, HasFd, apiVars, handleVars,
          jobVars, callVars, ResetHandle
    <3> QED
      BY <2>3, <3>1, <3>2, <3>3, <3>4, TypeFrame DEF BeginFails, TypeInv, TypeOK
  <2>4. CASE BeginOpens
    <3>1. session' \in Sessions
      BY <2>4, ConstantsAssumption DEF BeginOpens, FifoTypeOK, Sessions
    <3>2. ApiTypeOK'
      BY <2>4 DEF BeginOpens, ApiTypeOK, ApiStates
    <3>3. HandleTypeOK'
      BY <2>4, <3>1 DEF BeginOpens, HandleTypeOK, ThreadStates
    <3>4. FifoTypeOK'
      BY <2>4, <3>1 DEF BeginOpens, FifoTypeOK, Sessions
    <3>5. CallTypeOK'
      BY <2>4 DEF BeginOpens, CallTypeOK, CallStates
    <3>6. HasFd'
      BY <2>4, <3>1, ConstantsAssumption DEF BeginOpens, HasFd, Sessions
    <3> QED
      BY <2>4, <3>1, <3>2, <3>3, <3>4, <3>5, <3>6, TypeFrame
      DEF BeginOpens, TypeInv, TypeOK
  <2>5. CASE ReadStarts
    <3>1. HandleTypeOK'
      BY <2>5 DEF ReadStarts, jobVars, HandleTypeOK, ThreadStates
    <3>2. CallTypeOK'
      BY <2>5 DEF ReadStarts, CallTypeOK, CallStates
    <3>3. HasFd'
      BY <2>5
      DEF ReadStarts, jobVars, Gate, HasFd, apiVars, handleVars, callVars,
          HandleTypeOK
    <3> QED
      BY <2>5, <3>1, <3>2, <3>3, TypeFrame DEF ReadStarts, TypeInv, TypeOK
  <2>6. CASE EndStarts
    <3>1. HandleTypeOK'
      BY <2>6 DEF EndStarts, CancelOrClose, jobVars, HandleTypeOK, ThreadStates
    <3>2. CallTypeOK'
      BY <2>6 DEF EndStarts, CancelOrClose, CallTypeOK, CallStates
    <3>3. HasFd'
      BY <2>6
      DEF EndStarts, CancelOrClose, jobVars, Gate, HasFd, apiVars,
          handleVars, callVars
    <3> QED
      BY <2>6, <3>1, <3>2, <3>3, TypeFrame DEF EndStarts, TypeInv, TypeOK
  <2>7. CASE FinalizeRejected
    <3>1. ApiTypeOK'
      BY <2>7 DEF FinalizeRejected, Teardown, apiVars, ApiTypeOK, ApiStates
    <3>2. HasFd'
      BY <2>7
      DEF FinalizeRejected, Teardown, apiVars, Gate, HasFd, handleVars,
          jobVars, callVars
    <3> QED
      BY <2>7, <3>1, <3>2, TypeFrame DEF FinalizeRejected, TypeInv, TypeOK
  <2>8. CASE FinalizeStarts
    <3>1. ApiTypeOK'
      BY <2>8 DEF FinalizeStarts, ApiTypeOK, ApiStates
    <3>2. HandleTypeOK'
      BY <2>8
      DEF FinalizeStarts, CancelOrClose, jobVars, HandleTypeOK,
          ThreadStates
    <3>3. CallTypeOK'
      BY <2>8 DEF FinalizeStarts, CancelOrClose, CallTypeOK, CallStates
    <3>4. HasFd'
      BY <2>8
      DEF FinalizeStarts, CancelOrClose, jobVars, Gate, HasFd, apiVars,
          handleVars, callVars
    <3> QED
      BY <2>8, <3>1, <3>2, <3>3, <3>4, TypeFrame
      DEF FinalizeStarts, TypeInv, TypeOK
  <2> QED
    BY <1>1, <2>1, <2>2, <2>3, <2>4, <2>5, <2>6, <2>7, <2>8
    DEF Call
<1>2. CASE CallStep
  <2>1. CASE BeginSpawns
    <3>1. HandleTypeOK'
      BY <2>1 DEF BeginSpawns, HasFd, jobVars, HandleTypeOK, ThreadStates
    <3>2. ProcessTypeOK'
      BY <2>1
      DEF BeginSpawns, childVars, ProcessTypeOK, WorkerStates, ChildStates
    <3>3. CallTypeOK'
      BY <2>1 DEF BeginSpawns, Return, CallTypeOK, CallStates
    <3>4. HasFd'
      BY <2>1
      DEF BeginSpawns, HasFd, jobVars, Return, Gate, apiVars, handleVars,
          callVars
    <3> QED
      BY <2>1, <3>1, <3>2, <3>3, <3>4, TypeFrame
      DEF BeginSpawns, TypeInv, TypeOK
  <2>2. CASE BeginSpawnFails
    <3>1. ApiTypeOK'
      BY <2>2 DEF BeginSpawnFails, ApiTypeOK, ApiStates
    <3>2. HandleTypeOK'
      BY <2>2 DEF BeginSpawnFails, ResetHandle, HandleTypeOK, ThreadStates
    <3>3. FifoTypeOK'
      BY <2>2, ConstantsAssumption DEF BeginSpawnFails, CloseFd, FifoTypeOK
    <3>4. CallTypeOK'
      BY <2>2 DEF BeginSpawnFails, CallTypeOK, CallStates
    <3>5. HasFd'
      BY <2>2
      DEF BeginSpawnFails, ResetHandle, Gate, HasFd, apiVars, handleVars,
          jobVars, callVars
    <3> QED
      BY <2>2, <3>1, <3>2, <3>3, <3>4, <3>5, TypeFrame
      DEF BeginSpawnFails, TypeInv, TypeOK
  <2>3. CASE ReadChecks
    <3>1. HandleTypeOK'
      BY <2>3
      DEF ReadChecks, ReadReturns, ReadFails, jobVars, HandleTypeOK, ThreadStates
    <3>2. CallTypeOK'
      BY <2>3, FailTypes DEF ReadChecks, CallTypeOK, CallStates
    <3>3. HasFd'
      BY <2>3
      DEF ReadChecks, ReadReturns, ReadFails, jobVars, Gate, HasFd, apiVars,
          handleVars, callVars
    <3> QED
      BY <2>3, <3>1, <3>2, <3>3, TypeFrame DEF ReadChecks, TypeInv, TypeOK
  <2>4. CASE ReadIo
    <3>1. fifo' \in [Sessions -> 0..PipeCapacity]
      BY <2>4, ReadIoKeepsFifo DEF ReadIo
    <3>2. FifoTypeOK'
      BY <2>4, <3>1 DEF ReadIo, FifoTypeOK
    <3>3. HandleTypeOK'
      BY <2>4
      DEF ReadIo, ReadContinues, ReadReturns, ReadSucceeds, HandleTypeOK, jobVars
    <3>4. ToInt(total + ReadSize(fifo[fifo_fd])) \in CInt
      BY <2>4, ReadSizeIsNat, ToIntIsInt DEF ReadIo, CallTypeOK
    <3>5. CallTypeOK'
      BY <2>4, <3>4, ZeroIsInt
      DEF ReadIo, ReadContinues, ReadReturns, ReadSucceeds, CallTypeOK, CallStates
    <3>6. HasFd'
      BY <2>4
      DEF ReadIo, ReadContinues, ReadReturns, ReadSucceeds, HasFd, apiVars, jobVars
    <3> QED
      BY <2>4, <3>1, <3>2, <3>3, <3>4, <3>5, <3>6, TypeFrame
      DEF ReadIo, TypeInv, TypeOK
  <2>5. CASE ReadEnds
    <3>1. HandleTypeOK'
      BY <2>5
      DEF ReadEnds, ReadContinues, ReadReturns, ReadSucceeds, jobVars, HandleTypeOK,
          ThreadStates
    <3>2. CallTypeOK'
      <4>1. CASE backup_thread_state = "EXIT"
        BY <2>5, <4>1, ZeroIsInt
        DEF ReadEnds, ReadReturns, ReadSucceeds, CallTypeOK, CallStates
      <4>2. CASE backup_thread_state # "EXIT"
        BY <2>5, <4>2, ZeroIsInt
        DEF ReadEnds, ReadContinues, ReadReturns, ReadSucceeds, CallTypeOK,
            CallStates
      <4> QED
        BY <4>1, <4>2
    <3>3. HasFd'
      BY <2>5
      DEF ReadEnds, ReadContinues, ReadReturns, ReadSucceeds, jobVars, Gate, HasFd,
          apiVars, handleVars, callVars
    <3> QED
      BY <2>5, <3>1, <3>2, <3>3, TypeFrame DEF ReadEnds, TypeInv, TypeOK
  <2>6. CASE ReadInterrupted
    <3>1. HandleTypeOK'
      BY <2>6
      DEF ReadInterrupted, ReadReturns, ReadFails, jobVars, HandleTypeOK,
          ThreadStates
    <3>2. CallTypeOK'
      BY <2>6, FailTypes DEF ReadInterrupted
    <3>3. HasFd'
      BY <2>6
      DEF ReadInterrupted, ReadReturns, ReadFails, jobVars, Gate, HasFd, apiVars,
          handleVars, callVars
    <3> QED
      BY <2>6, <3>1, <3>2, <3>3, TypeFrame DEF ReadInterrupted, TypeInv, TypeOK
  <2>7. CASE EndJoins
    <3>1. CallTypeOK'
      BY <2>7 DEF EndJoins, Join, CallTypeOK, CallStates
    <3>2. HasFd'
      BY <2>7
      DEF EndJoins, Join, Gate, HasFd, apiVars, handleVars, jobVars,
          callVars
    <3> QED
      BY <2>7, <3>1, <3>2, TypeFrame DEF EndJoins, Join, TypeInv, TypeOK
  <2>8. CASE EndCloses
    <3>1. ApiTypeOK'
      BY <2>8 DEF EndCloses, ApiTypeOK, ApiStates
    <3>2. HandleTypeOK'
      BY <2>8 DEF EndCloses, ResetHandle, HandleTypeOK, ThreadStates
    <3>3. FifoTypeOK'
      BY <2>8, ConstantsAssumption DEF EndCloses, CloseFd, FifoTypeOK
    <3>4. CallTypeOK'
      BY <2>8 DEF EndCloses, Return, CallTypeOK, CallStates
    <3>5. HasFd'
      BY <2>8
      DEF EndCloses, ResetHandle, Return, Gate, HasFd, apiVars,
          handleVars, jobVars, callVars
    <3> QED
      BY <2>8, <3>1, <3>2, <3>3, <3>4, <3>5, TypeFrame
      DEF EndCloses, TypeInv, TypeOK
  <2>9. CASE FinalizeJoins
    <3>1. CallTypeOK'
      BY <2>9 DEF FinalizeJoins, Join, CallTypeOK, CallStates
    <3>2. HasFd'
      BY <2>9
      DEF FinalizeJoins, Join, Gate, HasFd, apiVars, handleVars, jobVars,
          callVars
    <3> QED
      BY <2>9, <3>1, <3>2, TypeFrame DEF FinalizeJoins, Join, TypeInv, TypeOK
  <2>10. CASE FinalizeCloses
    <3>1. ApiTypeOK'
      BY <2>10 DEF FinalizeCloses, Teardown, apiVars, ApiTypeOK, ApiStates
    <3>2. HandleTypeOK'
      BY <2>10 DEF FinalizeCloses, ResetHandle, HandleTypeOK, ThreadStates
    <3>3. FifoTypeOK'
      BY <2>10, ConstantsAssumption DEF FinalizeCloses, CloseFd, FifoTypeOK
    <3>4. CallTypeOK'
      BY <2>10 DEF FinalizeCloses, Return, CallTypeOK, CallStates
    <3>5. HasFd'
      BY <2>10
      DEF FinalizeCloses, Teardown, apiVars, ResetHandle, Return, Gate,
          HasFd, handleVars, jobVars, callVars
    <3> QED
      BY <2>10, <3>1, <3>2, <3>3, <3>4, <3>5, TypeFrame
      DEF FinalizeCloses, TypeInv, TypeOK
  <2> QED
    BY <1>2, <2>1, <2>2, <2>3, <2>4, <2>5, <2>6, <2>7, <2>8, <2>9, <2>10
    DEF CallStep
<1>3. ASSUME NEW s \in Sessions, WorkerStep(s) PROVE TypeInv'
  <2>1. CASE WorkerForks(s)
    <3>1. ProcessTypeOK'
      BY <2>1 DEF WorkerForks, Advance, ProcessTypeOK, WorkerStates, ChildStates
    <3>2. HasFd'
      BY <2>1
      DEF WorkerForks, Gate, HasFd, apiVars, handleVars, jobVars, callVars
    <3> QED
      BY <2>1, <3>1, <3>2, TypeFrame DEF WorkerForks, TypeInv, TypeOK
  <2>2. CASE WorkerWaits(s)
    <3>1. ProcessTypeOK'
      BY <2>2
      DEF WorkerWaits, Advance, childVars, ProcessTypeOK, WorkerStates,
          ChildStates
    <3>2. HasFd'
      BY <2>2
      DEF WorkerWaits, Gate, HasFd, apiVars, handleVars, jobVars, callVars
    <3> QED
      BY <2>2, <3>1, <3>2, TypeFrame DEF WorkerWaits, TypeInv, TypeOK
  <2>3. CASE WorkerTimesOut(s)
    <3>1. ProcessTypeOK'
      BY <2>3
      DEF WorkerTimesOut, Advance, childVars, ProcessTypeOK, WorkerStates,
          ChildStates
    <3>2. HasFd'
      BY <2>3
      DEF WorkerTimesOut, Gate, HasFd, apiVars, handleVars, jobVars,
          callVars
    <3> QED
      BY <2>3, <3>1, <3>2, TypeFrame DEF WorkerTimesOut, TypeInv, TypeOK
  <2>4. CASE WorkerInterrupted(s)
    <3>1. ProcessTypeOK'
      BY <2>4
      DEF WorkerInterrupted, Advance, childVars, ProcessTypeOK,
          WorkerStates, ChildStates
    <3>2. HasFd'
      BY <2>4
      DEF WorkerInterrupted, Gate, HasFd, apiVars, handleVars, jobVars,
          callVars
    <3> QED
      BY <2>4, <3>1, <3>2, TypeFrame DEF WorkerInterrupted, TypeInv, TypeOK
  <2>5. CASE WorkerKills(s)
    <3>1. ProcessTypeOK'
      BY <2>5 DEF WorkerKills, Advance, ProcessTypeOK, WorkerStates, ChildStates
    <3>2. HasFd'
      BY <2>5
      DEF WorkerKills, Gate, HasFd, apiVars, handleVars, jobVars, callVars
    <3> QED
      BY <2>5, <3>1, <3>2, TypeFrame DEF WorkerKills, TypeInv, TypeOK
  <2>6. CASE WorkerReaps(s)
    <3>1. ProcessTypeOK'
      BY <2>6
      DEF WorkerReaps, Advance, Verdict, ProcessTypeOK, WorkerStates,
          ChildStates
    <3>2. HasFd'
      BY <2>6
      DEF WorkerReaps, Gate, HasFd, apiVars, handleVars, jobVars, callVars
    <3> QED
      BY <2>6, <3>1, <3>2, TypeFrame DEF WorkerReaps, TypeInv, TypeOK
  <2>7. CASE WorkerExits(s)
    <3>1. HandleTypeOK'
      BY <2>7 DEF WorkerExits, HandleTypeOK, ThreadStates
    <3>2. ProcessTypeOK'
      BY <2>7
      DEF WorkerExits, Advance, childVars, ProcessTypeOK, WorkerStates,
          ChildStates
    <3>3. HasFd'
      BY <2>7
      DEF WorkerExits, Gate, HasFd, apiVars, handleVars, jobVars, callVars
    <3> QED
      BY <2>7, <3>1, <3>2, <3>3, TypeFrame DEF WorkerExits, TypeInv, TypeOK
  <2>8. CASE WaitpidInterrupted(s)
    <3>1. ProcessTypeOK'
      BY <2>8
      DEF WaitpidInterrupted, Advance, ProcessTypeOK, WorkerStates, ChildStates
    <3>2. HasFd'
      BY <2>8
      DEF WaitpidInterrupted, Gate, HasFd, apiVars, handleVars, jobVars, callVars
    <3> QED
      BY <2>8, <3>1, <3>2, TypeFrame DEF WaitpidInterrupted, TypeInv, TypeOK
  <2> QED
    BY <1>3, <2>1, <2>2, <2>3, <2>4, <2>5, <2>6, <2>7, <2>8
    DEF WorkerStep, WorkerGoesOn
<1>4. ASSUME NEW s \in Sessions, ChildStep(s) PROVE TypeInv'
  <2>1. CASE ChildExecs(s)
    <3>1. ProcessTypeOK'
      BY <2>1 DEF ChildExecs, Becomes, ProcessTypeOK, WorkerStates, ChildStates
    <3>2. HasFd'
      BY <2>1
      DEF ChildExecs, Gate, HasFd, apiVars, handleVars, jobVars, callVars
    <3> QED
      BY <2>1, <3>1, <3>2, TypeFrame DEF ChildExecs, TypeInv, TypeOK
  <2>2. CASE ChildExecFails(s)
    <3>1. ProcessTypeOK'
      BY <2>2
      DEF ChildExecFails, Sigchld, SigchldToWorker, Becomes, ExitStatus, ProcessTypeOK,
          WorkerStates, ChildStates
    <3> QED
      BY <2>2, <3>1, SignalTypes, TypeFrame DEF ChildExecFails, TypeInv, TypeOK
  <2>3. CASE ChildOpens(s)
    <3>1. ProcessTypeOK'
      BY <2>3
      DEF ChildOpens, Becomes, FifoTypeOK, ProcessTypeOK, WorkerStates,
          ChildStates
    <3>2. HasFd'
      BY <2>3
      DEF ChildOpens, Gate, HasFd, apiVars, handleVars, jobVars, callVars
    <3> QED
      BY <2>3, <3>1, <3>2, TypeFrame DEF ChildOpens, TypeInv, TypeOK
  <2>4. CASE ChildWrites(s)
    <3>1. FifoTypeOK'
      <4>1. CASE out[s] \in Sessions
        BY <2>4, <4>1, ConstantsAssumption DEF ChildWrites, FifoTypeOK
      <4>2. CASE out[s] \notin Sessions
        BY <2>4, <4>2 DEF ChildWrites, FifoTypeOK
      <4> QED
        BY <4>1, <4>2
    <3>2. ProcessTypeOK'
      BY <2>4, ConstantsAssumption DEF ChildWrites, ProcessTypeOK, childVars
    <3>3. HasFd'
      BY <2>4
      DEF ChildWrites, Gate, HasFd, apiVars, handleVars, jobVars, callVars
    <3> QED
      BY <2>4, <3>1, <3>2, <3>3, TypeFrame DEF ChildWrites, TypeInv, TypeOK
  <2>5. ASSUME NEW st \in ExitStatus, ChildExits(s, st)
        PROVE  TypeInv'
    <3>1. ProcessTypeOK'
      BY <2>5
      DEF ChildExits, Sigchld, SigchldToWorker, Becomes, ExitStatus, ProcessTypeOK,
          WorkerStates, ChildStates
    <3> QED
      BY <2>5, <3>1, SignalTypes, TypeFrame DEF ChildExits, TypeInv, TypeOK
  <2>6. CASE ChildStops(s)
    <3>1. ProcessTypeOK'
      BY <2>6
      DEF ChildStops, Sigchld, SigchldToWorker, Becomes, ProcessTypeOK,
          WorkerStates, ChildStates
    <3> QED
      BY <2>6, <3>1, SignalTypes, TypeFrame DEF ChildStops, TypeInv, TypeOK
  <2>7. CASE ChildContinues(s)
    <3>1. ProcessTypeOK'
      BY <2>7
      DEF ChildContinues, Sigchld, SigchldToWorker, Becomes, ProcessTypeOK,
          WorkerStates, ChildStates
    <3> QED
      BY <2>7, <3>1, SignalTypes, TypeFrame DEF ChildContinues, TypeInv, TypeOK
  <2>8. CASE ChildDies(s)
    <3>1. ProcessTypeOK'
      BY <2>8
      DEF ChildDies, Sigchld, SigchldToWorker, Becomes, ExitStatus, ProcessTypeOK,
          WorkerStates, ChildStates
    <3> QED
      BY <2>8, <3>1, SignalTypes, TypeFrame DEF ChildDies, TypeInv, TypeOK
  <2> QED
    BY <1>4, <2>1, <2>2, <2>3, <2>4, <2>5, <2>6, <2>7, <2>8
    DEF ChildStep
<1>5. CASE FifoVanishes
  <2>1. FifoTypeOK'
    BY <1>5 DEF FifoVanishes, FifoTypeOK
  <2>2. HasFd'
    BY <1>5 DEF FifoVanishes, HasFd, apiVars, handleVars, jobVars, callVars
  <2> QED
    BY <1>5, <2>1, <2>2, TypeFrame DEF FifoVanishes, TypeInv, TypeOK
<1>6. CASE UNCHANGED vars
  <2>1. HasFd'
    BY <1>6 DEF vars, HasFd, apiVars, handleVars, jobVars, callVars
  <2> QED
    BY <1>6, <2>1, TypeFrame DEF vars, TypeInv, TypeOK
<1> QED
  BY <1>1, <1>2, <1>3, <1>4, <1>5, <1>6 DEF Next

\* Every reachable state is well typed, whatever goes wrong around the library.
THEOREM TypeCorrect == Spec => []TypeOK
<1>1. TypeInv => TypeOK
  BY DEF TypeInv
<1> QED
  BY InitTypeInv, NextTypeInv, <1>1, PTL DEF Spec

-----------------------------------------------------------------------------
(* The inductive invariant *)

\* Every step keeps the API gate consistent with the call in progress, also a
\* refused cubrid_backup_initialize.
LEMMA NextGate == CallInState /\ [Next]_vars => CallInState'
<1> SUFFICES ASSUME CallInState, [Next]_vars PROVE CallInState'
  OBVIOUS
<1>1. CASE Call
  <2>1. CASE InitializeSucceeds \/ InitializeFails
    BY <2>1
    DEF InitializeSucceeds, InitializeFails, FinalizedAfterOnce, Teardown,
        CallInState, apiVars, callVars
  <2>2. CASE BeginFails \/ BeginOpens
    BY <2>2 DEF BeginFails, BeginOpens, Gate, CallInState, apiVars
  <2>3. CASE ReadStarts \/ EndStarts
    BY <2>3 DEF ReadStarts, EndStarts, CancelOrClose, Gate, CallInState, apiVars
  <2>4. CASE FinalizeRejected \/ FinalizeStarts
    BY <2>4
    DEF FinalizeRejected, FinalizeStarts, CancelOrClose, Teardown, CallInState,
        apiVars, callVars
  <2> QED
    BY <1>1, <2>1, <2>2, <2>3, <2>4 DEF Call
<1>2. CASE CallStep
  <2>1. CASE BeginSpawns \/ BeginSpawnFails
    BY <2>1 DEF BeginSpawns, BeginSpawnFails, Return, CallInState, apiVars
  <2>2. CASE ReadChecks \/ ReadIo \/ ReadEnds \/ ReadInterrupted
    BY <2>2
    DEF ReadChecks, ReadIo, ReadEnds, ReadInterrupted, ReadContinues, ReadReturns,
        ReadFails, ReadSucceeds, CallInState, apiVars
  <2>3. CASE EndJoins \/ EndCloses
    BY <2>3 DEF EndJoins, EndCloses, Join, Return, CallInState, apiVars
  <2>4. CASE FinalizeJoins \/ FinalizeCloses
    BY <2>4
    DEF FinalizeJoins, FinalizeCloses, Join, Return, Teardown, CallInState,
        apiVars
  <2> QED
    BY <1>2, <2>1, <2>2, <2>3, <2>4 DEF CallStep
<1>3. ASSUME NEW s \in Sessions, WorkerStep(s) PROVE CallInState'
  BY <1>3
  DEF WorkerStep, WorkerGoesOn, WorkerForks, WorkerWaits, WorkerTimesOut,
      WorkerInterrupted, WaitpidInterrupted, WorkerKills, WorkerReaps, WorkerExits,
      CallInState, apiVars, callVars
<1>4. ASSUME NEW s \in Sessions, ChildStep(s) PROVE CallInState'
  BY <1>4
  DEF ChildStep, ChildExecs, ChildExecFails, ChildOpens, ChildWrites, ChildExits,
      ChildStops, ChildContinues, ChildDies, Sigchld, SigchldToCaller, ReadReturns,
      ReadFails, CallInState, apiVars, callVars
<1>5. CASE FifoVanishes \/ UNCHANGED vars
  BY <1>5 DEF FifoVanishes, vars, CallInState, apiVars, callVars
<1> QED
  BY <1>1, <1>2, <1>3, <1>4, <1>5 DEF Next

\* The once controls and the API state agree between calls, whatever the
\* sequence of calls: the library can always be initialized or finalized next.
THEOREM TeardownStaysArmed == Spec => []TeardownArmed
<1>1. Init => CallInState
  BY DEF Init, CallInState
<1>2. CallInState => TeardownArmed
  BY DEF CallInState, TeardownArmed
<1> QED
  BY <1>1, <1>2, NextGate, PTL DEF Spec

\* The initial state satisfies the invariant.
LEMMA InitInv == Init => IInv
<1> SUFFICES ASSUME Init PROVE IInv
  OBVIOUS
<1>1. TypeOK
  BY InitTypeInv DEF TypeInv
<1>2. MutexMatchesCall /\ CallInState
  BY DEF Init, MutexMatchesCall, CallInState
<1>3. SpawnIsFresh /\ FdIsLatest /\ HandleAtRest
  BY DEF Init, SpawnIsFresh, FdIsLatest, HandleAtRest, Sessions
<1>4. RunningIsAlive /\ CancelPending
  BY DEF Init, RunningIsAlive, CancelPending
<1>5. WorkerOwnsHandle /\ FreshSessions
  BY DEF Init, WorkerOwnsHandle, FreshSessions, Alive, LiveWorker
<1>6. ChildHasWorker /\ ReapsDead /\ StatusOfDead
  BY DEF Init, ChildHasWorker, ReapsDead, StatusOfDead, Running, LiveChild
<1>7. FdAccounted /\ OwnFifo
  BY DEF Init, FdAccounted, OwnFifo
<1> QED
  BY <1>1, <1>2, <1>3, <1>4, <1>5, <1>6, <1>7 DEF IInv

\* Without a stop a worker goes into waitpid only when its utility is dead.
LEMMA NextReapsDead ==
  ASSUME TypeOK, ReapsDead, [Next]_vars
  PROVE  ReapsDead'
<1> SUFFICES ASSUME "stop" \notin Env PROVE ReapsDead'
  BY DEF ReapsDead
<1>t. worker \in [Sessions -> WorkerStates] /\ child \in [Sessions -> ChildStates]
  BY DEF TypeOK, ProcessTypeOK
<1>u. UNCHANGED <<worker, child>> => ReapsDead'
  BY DEF ReapsDead
<1>1. CASE Call \/ (CallStep /\ ~BeginSpawns)
  BY <1>1, <1>u
  DEF Call, InitializeSucceeds, InitializeFails, BeginFails, BeginOpens, ReadStarts,
      EndStarts, FinalizeRejected, FinalizeStarts, CallStep, BeginSpawnFails,
      ReadChecks, ReadIo, ReadEnds, ReadInterrupted, EndJoins, EndCloses,
      FinalizeJoins, FinalizeCloses, Join, childVars
<1>2. CASE BeginSpawns
  BY <1>2, <1>t DEF BeginSpawns, ReapsDead, childVars
<1>3. ASSUME NEW s \in Sessions, WorkerStep(s) PROVE ReapsDead'
  <2>1. CASE WorkerKills(s)
    BY <2>1, <1>t DEF WorkerKills, KillTargets, Running, LiveChild, Advance, ReapsDead
  <2>2. CASE WorkerForks(s)
    BY <2>2, <1>t DEF WorkerForks, Advance, ReapsDead
  <2>3. CASE WorkerReaps(s) \/ WaitpidInterrupted(s)
    BY <2>3, <1>t DEF WorkerReaps, WaitpidInterrupted, Verdict, Advance, ReapsDead
  <2> QED
    BY <1>3, <2>1, <2>2, <2>3, <1>t
    DEF WorkerStep, WorkerGoesOn, WorkerWaits, WorkerTimesOut, WorkerInterrupted,
        WorkerExits, Advance, ReapsDead, childVars
<1>4. ASSUME NEW s \in Sessions, ChildStep(s) PROVE ReapsDead'
  <2>1. CASE ChildContinues(s) \/ ChildStops(s)
    BY <2>1, <1>t DEF ChildContinues, ChildStops, ReapsDead
  <2> QED
    BY <1>4, <2>1, <1>t
    DEF ChildStep, ChildExecs, ChildExecFails, ChildOpens, ChildWrites, ChildExits,
        ChildStops, ChildDies, Sigchld, SigchldToWorker, Becomes, ReapsDead
<1>5. CASE FifoVanishes \/ UNCHANGED vars
  BY <1>5, <1>u DEF FifoVanishes, vars, childVars
<1> QED
  BY <1>1, <1>2, <1>3, <1>4, <1>5 DEF Next

\* Every step keeps the invariant, one action at a time and under it one step
\* for each conjunct the action can disturb.
LEMMA NextInv ==
  ASSUME "reinit" \notin Env
  PROVE  IInv /\ HasFd /\ [Next]_vars => IInv'
<1> SUFFICES ASSUME IInv, HasFd, [Next]_vars PROVE IInv'
  OBVIOUS
<1>a. /\ MutexMatchesCall /\ CallInState /\ SpawnIsFresh /\ FdIsLatest
      /\ HandleAtRest /\ RunningIsAlive /\ WorkerOwnsHandle /\ CancelPending
      /\ FreshSessions /\ ReapsDead /\ ChildHasWorker /\ StatusOfDead
      /\ FdAccounted /\ (NeverAbandoned => OwnFifo)
  BY DEF IInv
<1>t. /\ HandleTypeOK /\ FifoTypeOK /\ ProcessTypeOK /\ HasFd
      /\ TypeOK'
  BY NextTypeInv DEF IInv, TypeInv, TypeOK
<1>c. CallInState' /\ ReapsDead'
  BY <1>a, NextGate, NextReapsDead DEF IInv
<1>g. /\ MutexMatchesCall' /\ SpawnIsFresh' /\ FdIsLatest'
      /\ HandleAtRest' /\ RunningIsAlive' /\ WorkerOwnsHandle' /\ CancelPending'
      /\ FreshSessions' /\ ChildHasWorker' /\ StatusOfDead' /\ FdAccounted'
      /\ (NeverAbandoned => OwnFifo')
      => IInv'
  BY <1>t, <1>c DEF IInv, NeverAbandoned
<1> USE <1>a
<1>f. /\ UNCHANGED <<backup_mutex, pc>>
         => MutexMatchesCall'
      /\ UNCHANGED <<pc, fifo_fd, session, backup_thread_state, worker>>
         => SpawnIsFresh'
      /\ UNCHANGED <<backup_api_state, fifo_fd, session, fifo_path>>
         => FdIsLatest'
      /\ UNCHANGED <<pc, backup_thread_state, backup_api_state, is_cancel,
                     fifo_fd>>
         => HandleAtRest'
      /\ UNCHANGED <<backup_thread_state, pc, backup_thread, worker>>
         => RunningIsAlive'
      /\ UNCHANGED <<worker, backup_thread, backup_thread_state, fifo_fd>>
         => WorkerOwnsHandle'
      /\ UNCHANGED <<is_cancel, pc, fifo_fd>>
         => CancelPending'
      /\ UNCHANGED <<session, worker, child>>
         => FreshSessions'
      /\ UNCHANGED <<worker, child>>
         => ChildHasWorker'
      /\ UNCHANGED <<status, child>>
         => StatusOfDead'
      /\ UNCHANGED <<open_fds, fifo_fd>>
         => FdAccounted'
      /\ UNCHANGED <<out>>
         => (NeverAbandoned => OwnFifo')
  <2>1. UNCHANGED <<backup_mutex, pc>>
        => MutexMatchesCall'
    BY DEF MutexMatchesCall
  <2>2. UNCHANGED <<pc, fifo_fd, session, backup_thread_state, worker>>
        => SpawnIsFresh'
    BY DEF SpawnIsFresh, Alive
  <2>3. UNCHANGED <<backup_api_state, fifo_fd, session, fifo_path>>
        => FdIsLatest'
    BY DEF FdIsLatest
  <2>4. UNCHANGED <<pc, backup_thread_state, backup_api_state, is_cancel,
                    fifo_fd>>
        => HandleAtRest'
    BY DEF HandleAtRest, Closing
  <2>5. UNCHANGED <<backup_thread_state, pc, backup_thread, worker>>
        => RunningIsAlive'
    BY DEF RunningIsAlive, Alive
  <2>6. UNCHANGED <<worker, backup_thread, backup_thread_state, fifo_fd>>
        => WorkerOwnsHandle'
    BY DEF WorkerOwnsHandle, Alive
  <2>7. UNCHANGED <<is_cancel, pc, fifo_fd>>
        => CancelPending'
    BY DEF CancelPending, Joining, Closing
  <2>8. UNCHANGED <<session, worker, child>>
        => FreshSessions'
    BY DEF FreshSessions
  <2>9. UNCHANGED <<worker, child>>
        => ChildHasWorker'
    BY DEF ChildHasWorker, NeverAbandoned, Running
  <2>10. UNCHANGED <<status, child>>
        => StatusOfDead'
    BY DEF StatusOfDead
  <2>11. UNCHANGED <<open_fds, fifo_fd>>
        => FdAccounted'
    BY DEF FdAccounted
  <2>12. UNCHANGED <<out>>
        => (NeverAbandoned => OwnFifo')
    BY DEF OwnFifo
  <2> QED
    BY <2>1, <2>2, <2>3, <2>4, <2>5, <2>6, <2>7, <2>8, <2>9, <2>10, <2>11,
       <2>12
<1>h. ASSUME NEW s \in Sessions, Sigchld(s),
             UNCHANGED <<apiVars, jobVars, backup_thread, fifoVars>>
      PROVE  /\ MutexMatchesCall' /\ SpawnIsFresh' /\ FdIsLatest' /\ HandleAtRest'
             /\ RunningIsAlive' /\ WorkerOwnsHandle' /\ CancelPending' /\ FdAccounted'
  <2>1. MutexMatchesCall'
    BY <1>h DEF Sigchld, SigchldToCaller, ReadReturns, ReadFails, MutexMatchesCall
  <2>2. SpawnIsFresh'
    BY <1>h, <1>t
    DEF Sigchld, SigchldToWorker, SigchldToCaller, ReadReturns, ReadFails,
        SpawnIsFresh, Alive, LiveWorker, ProcessTypeOK, jobVars, fifoVars
  <2>3. FdIsLatest'
    BY <1>h, <1>f DEF apiVars, jobVars, fifoVars
  <2>4. HandleAtRest'
    BY <1>h
    DEF Sigchld, SigchldToCaller, ReadReturns, ReadFails, HandleAtRest, Closing,
        apiVars, jobVars
  <2>5. RunningIsAlive'
    BY <1>h
    DEF Sigchld, SigchldToWorker, SigchldToCaller, RunningIsAlive, Alive, LiveWorker,
        WorkerStates, jobVars
  <2>6. WorkerOwnsHandle'
    BY <1>h
    DEF Sigchld, SigchldToWorker, WorkerOwnsHandle, Alive, LiveWorker, WorkerStates,
        jobVars
  <2>7. CancelPending'
    BY <1>h DEF Sigchld, SigchldToCaller, CancelPending, Joining, Closing, jobVars
  <2>8. FdAccounted'
    BY <1>h, <1>f DEF jobVars, fifoVars
  <2> QED
    BY <2>1, <2>2, <2>3, <2>4, <2>5, <2>6, <2>7, <2>8
<1>1. CASE Call
  <2>1. CASE InitializeSucceeds
    <3>1. MutexMatchesCall'
      BY <2>1 DEF InitializeSucceeds, MutexMatchesCall, callVars
    <3>2. FdIsLatest'
      BY <2>1 DEF InitializeSucceeds, FdIsLatest, jobVars, fifoVars
    <3>3. HandleAtRest'
      BY <2>1 DEF InitializeSucceeds, HandleAtRest, jobVars, callVars
    <3> QED
      BY <2>1, <3>1, <3>2, <3>3, <1>f, <1>g
      DEF InitializeSucceeds, jobVars, fifoVars, childVars, callVars
  <2>2. CASE InitializeFails
    <3>1. FdIsLatest'
      BY <2>2
      DEF InitializeFails, Teardown, FdIsLatest, apiVars, jobVars, handleVars,
          fifoVars
    <3>2. HandleAtRest'
      BY <2>2
      DEF InitializeFails, HandleAtRest, apiVars, jobVars, handleVars, callVars
    <3> QED
      BY <2>2, <3>1, <3>2, <1>f, <1>g
      DEF InitializeFails, apiVars, jobVars, handleVars, fifoVars, childVars,
          callVars
  <2>3. CASE BeginFails
    <3>1. SpawnIsFresh'
      BY <2>3 DEF BeginFails, Gate, SpawnIsFresh
    <3>2. FdIsLatest'
      BY <2>3 DEF BeginFails, ResetHandle, FdIsLatest, Sessions, apiVars
    <3>3. HandleAtRest'
      BY <2>3 DEF BeginFails, ResetHandle, HandleAtRest, Sessions, apiVars
    <3>4. RunningIsAlive'
      BY <2>3 DEF BeginFails, ResetHandle, RunningIsAlive
    <3>5. WorkerOwnsHandle'
      BY <2>3 DEF BeginFails, Gate, WorkerOwnsHandle, Alive, HandleAtRest
    <3>6. CancelPending'
      BY <2>3 DEF BeginFails, ResetHandle, CancelPending
    <3>7. FreshSessions'
      BY <2>3, <1>t
      DEF BeginFails, FreshSessions, Sessions, FifoTypeOK, childVars
    <3>8. FdAccounted'
      BY <2>3, <1>t DEF BeginFails, Gate, FdAccounted, HandleAtRest, FifoTypeOK
    <3> QED
      BY <2>3, <3>1, <3>2, <3>3, <3>4, <3>5, <3>6, <3>7, <3>8, <1>f, <1>g
      DEF BeginFails, apiVars, childVars
  <2>4. CASE BeginOpens
    <3>1. MutexMatchesCall'
      BY <2>4 DEF BeginOpens, MutexMatchesCall
    <3>2. SpawnIsFresh'
      BY <2>4, <1>t, ConstantsAssumption
      DEF BeginOpens, Gate, SpawnIsFresh, Alive, WorkerOwnsHandle, HandleAtRest,
          FreshSessions, Sessions, FifoTypeOK
    <3>3. FdIsLatest'
      BY <2>4 DEF BeginOpens, FdIsLatest
    <3>4. HandleAtRest'
      BY <2>4 DEF BeginOpens, HandleAtRest, Closing
    <3>5. RunningIsAlive'
      BY <2>4 DEF BeginOpens, RunningIsAlive
    <3>6. WorkerOwnsHandle'
      BY <2>4 DEF BeginOpens, Gate, WorkerOwnsHandle, Alive, HandleAtRest
    <3>7. CancelPending'
      BY <2>4 DEF BeginOpens, CancelPending
    <3>8. FreshSessions'
      BY <2>4, <1>t
      DEF BeginOpens, FreshSessions, Sessions, FifoTypeOK, childVars
    <3>9. FdAccounted'
      BY <2>4, <1>t DEF BeginOpens, Gate, FdAccounted, HandleAtRest, FifoTypeOK
    <3> QED
      BY <2>4, <3>1, <3>2, <3>3, <3>4, <3>5, <3>6, <3>7, <3>8, <3>9, <1>f, <1>g
      DEF BeginOpens, childVars
  <2>5. CASE ReadStarts
    <3>1. MutexMatchesCall'
      BY <2>5 DEF ReadStarts, MutexMatchesCall
    <3>2. SpawnIsFresh'
      BY <2>5 DEF ReadStarts, SpawnIsFresh, jobVars, fifoVars
    <3>3. HandleAtRest'
      BY <2>5 DEF ReadStarts, HandleAtRest, Closing, apiVars, jobVars
    <3>4. RunningIsAlive'
      BY <2>5 DEF ReadStarts, Gate, RunningIsAlive, Alive, jobVars
    <3>5. CancelPending'
      BY <2>5 DEF ReadStarts, Gate, CancelPending, Joining, Closing, jobVars
    <3> QED
      BY <2>5, <3>1, <3>2, <3>3, <3>4, <3>5, <1>f, <1>g
      DEF ReadStarts, apiVars, jobVars, fifoVars, childVars
  <2>6. CASE EndStarts
    <3>1. MutexMatchesCall'
      BY <2>6 DEF EndStarts, CancelOrClose, MutexMatchesCall
    <3>2. SpawnIsFresh'
      BY <2>6 DEF EndStarts, CancelOrClose, SpawnIsFresh, jobVars, fifoVars
    <3>3. HandleAtRest'
      BY <2>6
      DEF EndStarts, CancelOrClose, HandleAtRest, Closing, apiVars, jobVars
    <3>4. RunningIsAlive'
      BY <2>6 DEF EndStarts, Gate, CancelOrClose, RunningIsAlive, Alive, jobVars
    <3>5. CancelPending'
      BY <2>6
      DEF EndStarts, CancelOrClose, CancelPending, Joining, Closing, jobVars
    <3> QED
      BY <2>6, <3>1, <3>2, <3>3, <3>4, <3>5, <1>f, <1>g
      DEF EndStarts, CancelOrClose, apiVars, jobVars, fifoVars, childVars
  <2>7. CASE FinalizeRejected
    <3>1. FdIsLatest'
      BY <2>7
      DEF FinalizeRejected, Teardown, FdIsLatest, apiVars, jobVars, handleVars,
          fifoVars
    <3>2. HandleAtRest'
      BY <2>7
      DEF FinalizeRejected, HandleAtRest, CallInState, apiVars, jobVars,
          handleVars, callVars
    <3> QED
      BY <2>7, <3>1, <3>2, <1>f, <1>g
      DEF FinalizeRejected, apiVars, jobVars, handleVars, fifoVars, childVars,
          callVars
  <2>8. CASE FinalizeStarts
    <3>1. MutexMatchesCall'
      BY <2>8 DEF FinalizeStarts, CancelOrClose, MutexMatchesCall
    <3>2. SpawnIsFresh'
      BY <2>8 DEF FinalizeStarts, CancelOrClose, SpawnIsFresh, jobVars, fifoVars
    <3>3. FdIsLatest'
      BY <2>8 DEF FinalizeStarts, CancelOrClose, FdIsLatest, jobVars, fifoVars
    <3>4. HandleAtRest'
      BY <2>8 DEF FinalizeStarts, CancelOrClose, HandleAtRest, Closing, jobVars
    <3>5. RunningIsAlive'
      BY <2>8 DEF FinalizeStarts, CancelOrClose, RunningIsAlive, Alive, jobVars
    <3>6. CancelPending'
      BY <2>8
      DEF FinalizeStarts, CancelOrClose, CancelPending, Joining, Closing,
          jobVars
    <3> QED
      BY <2>8, <3>1, <3>2, <3>3, <3>4, <3>5, <3>6, <1>f, <1>g
      DEF FinalizeStarts, CancelOrClose, jobVars, fifoVars, childVars
  <2> QED
    BY <1>1, <2>1, <2>2, <2>3, <2>4, <2>5, <2>6, <2>7, <2>8 DEF Call
<1>2. CASE CallStep
  <2>1. CASE BeginSpawns
    <3>1. MutexMatchesCall'
      BY <2>1 DEF BeginSpawns, Return, MutexMatchesCall
    <3>2. SpawnIsFresh'
      BY <2>1 DEF BeginSpawns, Return, SpawnIsFresh, jobVars, fifoVars
    <3>3. HandleAtRest'
      BY <2>1 DEF BeginSpawns, Return, HandleAtRest, Closing, apiVars, jobVars
    <3>4. RunningIsAlive'
      BY <2>1, <1>t
      DEF BeginSpawns, RunningIsAlive, Alive, LiveWorker, WorkerStates,
          ProcessTypeOK, HasFd, jobVars
    <3>5. WorkerOwnsHandle'
      BY <2>1 DEF BeginSpawns, WorkerOwnsHandle, Alive, SpawnIsFresh, jobVars
    <3>6. CancelPending'
      BY <2>1 DEF BeginSpawns, CancelPending, Joining, Closing, jobVars
    <3>7. FreshSessions'
      BY <2>1
      DEF BeginSpawns, FreshSessions, SpawnIsFresh, Sessions, fifoVars,
          childVars
    <3>8. ChildHasWorker'
      BY <2>1 DEF BeginSpawns, ChildHasWorker, NeverAbandoned, Running, SpawnIsFresh, childVars
    <3> QED
      BY <2>1, <3>1, <3>2, <3>3, <3>4, <3>5, <3>6, <3>7, <3>8, <1>f, <1>g
      DEF BeginSpawns, apiVars, jobVars, fifoVars, childVars
  <2>2. CASE BeginSpawnFails
    <3>1. MutexMatchesCall'
      <4>1. CASE pc' = "hung"
        BY <2>2, <4>1 DEF BeginSpawnFails, MutexMatchesCall
      <4>2. CASE pc' = "app"
        BY <2>2, <4>2 DEF BeginSpawnFails, MutexMatchesCall
      <4> QED
        BY <2>2, <4>1, <4>2 DEF BeginSpawnFails
    <3>2. SpawnIsFresh'
      BY <2>2 DEF BeginSpawnFails, SpawnIsFresh
    <3>3. FdIsLatest'
      BY <2>2 DEF BeginSpawnFails, ResetHandle, FdIsLatest, Sessions
    <3>4. HandleAtRest'
      BY <2>2
      DEF BeginSpawnFails, ResetHandle, HandleAtRest, CallInState, Sessions
    <3>5. RunningIsAlive'
      BY <2>2 DEF BeginSpawnFails, ResetHandle, RunningIsAlive
    <3>6. WorkerOwnsHandle'
      BY <2>2 DEF BeginSpawnFails, WorkerOwnsHandle, Alive, SpawnIsFresh
    <3>7. CancelPending'
      BY <2>2 DEF BeginSpawnFails, ResetHandle, CancelPending
    <3>8. FdAccounted'
      <4>1. CASE pc' = "hung"
        BY <2>2, <4>1 DEF BeginSpawnFails, FdAccounted
      <4>2. CASE pc' = "app"
        <5>1. open_fds' = open_fds \ {fifo_fd}
          BY <2>2, <4>2 DEF BeginSpawnFails, CloseFd
        <5> QED
          BY <5>1 DEF FdAccounted
      <4> QED
        BY <2>2, <4>1, <4>2 DEF BeginSpawnFails
    <3> QED
      BY <2>2, <3>1, <3>2, <3>3, <3>4, <3>5, <3>6, <3>7, <3>8, <1>f, <1>g
      DEF BeginSpawnFails, childVars
  <2>3. CASE ReadChecks
    <3>1. MutexMatchesCall'
      BY <2>3 DEF ReadChecks, ReadReturns, ReadFails, MutexMatchesCall
    <3>2. SpawnIsFresh'
      BY <2>3
      DEF ReadChecks, ReadReturns, ReadFails, SpawnIsFresh, jobVars, fifoVars
    <3>3. HandleAtRest'
      BY <2>3 DEF ReadChecks, HandleAtRest, Closing, apiVars, jobVars
    <3>4. RunningIsAlive'
      BY <2>3 DEF ReadChecks, RunningIsAlive, Alive, jobVars
    <3>5. CancelPending'
      BY <2>3 DEF ReadChecks, CancelPending, Joining, Closing, jobVars
    <3> QED
      BY <2>3, <3>1, <3>2, <3>3, <3>4, <3>5, <1>f, <1>g
      DEF ReadChecks, apiVars, jobVars, fifoVars, childVars
  <2>4. CASE ReadIo
    <3>1. MutexMatchesCall'
      BY <2>4 DEF ReadIo, ReadContinues, ReadReturns, ReadSucceeds, MutexMatchesCall
    <3>2. SpawnIsFresh'
      BY <2>4
      DEF ReadIo, ReadContinues, ReadReturns, ReadSucceeds, SpawnIsFresh, jobVars
    <3>3. HandleAtRest'
      BY <2>4
      DEF ReadIo, ReadContinues, ReadReturns, ReadSucceeds, HandleAtRest, Closing,
          apiVars, jobVars
    <3>4. RunningIsAlive'
      BY <2>4 DEF ReadIo, RunningIsAlive, Alive, jobVars
    <3>5. CancelPending'
      BY <2>4 DEF ReadIo, CancelPending, Joining, Closing, jobVars
    <3> QED
      BY <2>4, <3>1, <3>2, <3>3, <3>4, <3>5, <1>f, <1>g
      DEF ReadIo, apiVars, jobVars, childVars
  <2>5. CASE ReadEnds
    <3>1. MutexMatchesCall'
      BY <2>5
      DEF ReadEnds, ReadContinues, ReadReturns, ReadSucceeds, MutexMatchesCall
    <3>2. SpawnIsFresh'
      BY <2>5
      DEF ReadEnds, ReadContinues, ReadReturns, ReadSucceeds, SpawnIsFresh, jobVars,
          fifoVars
    <3>3. HandleAtRest'
      BY <2>5
      DEF ReadEnds, ReadContinues, ReadReturns, ReadSucceeds, HandleAtRest, Closing,
          apiVars, jobVars
    <3>4. RunningIsAlive'
      BY <2>5 DEF ReadEnds, RunningIsAlive, Alive, jobVars
    <3>5. CancelPending'
      BY <2>5 DEF ReadEnds, CancelPending, Joining, Closing, jobVars
    <3> QED
      BY <2>5, <3>1, <3>2, <3>3, <3>4, <3>5, <1>f, <1>g
      DEF ReadEnds, apiVars, jobVars, fifoVars, childVars
  <2>6. CASE ReadInterrupted
    <3>1. MutexMatchesCall'
      BY <2>6 DEF ReadInterrupted, ReadReturns, ReadFails, MutexMatchesCall
    <3>2. SpawnIsFresh'
      BY <2>6
      DEF ReadInterrupted, ReadReturns, ReadFails, SpawnIsFresh, jobVars, fifoVars
    <3>3. HandleAtRest'
      BY <2>6
      DEF ReadInterrupted, ReadReturns, ReadFails, HandleAtRest, Closing, apiVars,
          jobVars
    <3>4. RunningIsAlive'
      BY <2>6 DEF ReadInterrupted, RunningIsAlive, Alive, jobVars
    <3>5. CancelPending'
      BY <2>6 DEF ReadInterrupted, CancelPending, Joining, Closing, jobVars
    <3> QED
      BY <2>6, <3>1, <3>2, <3>3, <3>4, <3>5, <1>f, <1>g
      DEF ReadInterrupted, apiVars, jobVars, fifoVars, childVars
  <2>7. CASE EndJoins
    <3>1. MutexMatchesCall'
      BY <2>7 DEF EndJoins, Join, MutexMatchesCall, handleVars
    <3>2. SpawnIsFresh'
      BY <2>7 DEF EndJoins, Join, SpawnIsFresh, jobVars, handleVars, fifoVars
    <3>3. HandleAtRest'
      BY <2>7
      DEF EndJoins, Join, HandleAtRest, RunningIsAlive, Alive, LiveWorker,
          apiVars, jobVars, handleVars
    <3>4. RunningIsAlive'
      BY <2>7 DEF EndJoins, Join, RunningIsAlive, Alive, jobVars, handleVars
    <3>5. CancelPending'
      BY <2>7 DEF EndJoins, Join, CancelPending, Closing, jobVars, handleVars
    <3> QED
      BY <2>7, <3>1, <3>2, <3>3, <3>4, <3>5, <1>f, <1>g
      DEF EndJoins, Join, apiVars, jobVars, handleVars, fifoVars, childVars
  <2>8. CASE EndCloses
    <3>1. MutexMatchesCall'
      BY <2>8 DEF EndCloses, Return, MutexMatchesCall
    <3>2. SpawnIsFresh'
      BY <2>8 DEF EndCloses, Return, SpawnIsFresh
    <3>3. FdIsLatest'
      BY <2>8 DEF EndCloses, ResetHandle, FdIsLatest, Sessions
    <3>4. HandleAtRest'
      BY <2>8 DEF EndCloses, ResetHandle, HandleAtRest, Closing, Sessions
    <3>5. RunningIsAlive'
      BY <2>8 DEF EndCloses, ResetHandle, RunningIsAlive, Alive
    <3>6. WorkerOwnsHandle'
      BY <2>8 DEF EndCloses, WorkerOwnsHandle, Alive, HandleAtRest, Closing
    <3>7. CancelPending'
      BY <2>8 DEF EndCloses, ResetHandle, CancelPending
    <3>8. FdAccounted'
      BY <2>8 DEF EndCloses, CloseFd, FdAccounted
    <3> QED
      BY <2>8, <3>1, <3>2, <3>3, <3>4, <3>5, <3>6, <3>7, <3>8, <1>f, <1>g
      DEF EndCloses, childVars
  <2>9. CASE FinalizeJoins
    <3>1. MutexMatchesCall'
      BY <2>9 DEF FinalizeJoins, Join, MutexMatchesCall, handleVars
    <3>2. SpawnIsFresh'
      BY <2>9
      DEF FinalizeJoins, Join, SpawnIsFresh, jobVars, handleVars, fifoVars
    <3>3. HandleAtRest'
      BY <2>9
      DEF FinalizeJoins, Join, HandleAtRest, RunningIsAlive, Alive, LiveWorker,
          apiVars, jobVars, handleVars
    <3>4. RunningIsAlive'
      BY <2>9
      DEF FinalizeJoins, Join, RunningIsAlive, Alive, jobVars, handleVars
    <3>5. CancelPending'
      BY <2>9
      DEF FinalizeJoins, Join, CancelPending, Closing, jobVars, handleVars
    <3> QED
      BY <2>9, <3>1, <3>2, <3>3, <3>4, <3>5, <1>f, <1>g
      DEF FinalizeJoins, Join, apiVars, jobVars, handleVars, fifoVars, childVars
  <2>10. CASE FinalizeCloses
    <3>1. MutexMatchesCall'
      BY <2>10 DEF FinalizeCloses, Return, MutexMatchesCall
    <3>2. SpawnIsFresh'
      BY <2>10 DEF FinalizeCloses, Return, SpawnIsFresh
    <3>3. FdIsLatest'
      BY <2>10 DEF FinalizeCloses, ResetHandle, FdIsLatest, Sessions, apiVars
    <3>4. HandleAtRest'
      BY <2>10 DEF FinalizeCloses, ResetHandle, HandleAtRest, Sessions, apiVars
    <3>5. RunningIsAlive'
      BY <2>10 DEF FinalizeCloses, ResetHandle, RunningIsAlive
    <3>6. WorkerOwnsHandle'
      BY <2>10
      DEF FinalizeCloses, WorkerOwnsHandle, Alive, HandleAtRest, Closing
    <3>7. CancelPending'
      BY <2>10 DEF FinalizeCloses, ResetHandle, CancelPending
    <3>8. FdAccounted'
      BY <2>10 DEF FinalizeCloses, CloseFd, FdAccounted
    <3> QED
      BY <2>10, <3>1, <3>2, <3>3, <3>4, <3>5, <3>6, <3>7, <3>8, <1>f, <1>g
      DEF FinalizeCloses, apiVars, childVars
  <2> QED
    BY <1>2, <2>1, <2>2, <2>3, <2>4, <2>5, <2>6, <2>7, <2>8, <2>9, <2>10
    DEF CallStep
<1>3. ASSUME NEW s \in Sessions, WorkerStep(s) PROVE IInv'
  <2>1. CASE WorkerForks(s)
    <3>1. SpawnIsFresh'
      BY <2>1
      DEF WorkerForks, SpawnIsFresh, Alive, LiveWorker, WorkerStates, jobVars,
          handleVars, fifoVars, callVars
    <3>2. RunningIsAlive'
      BY <2>1, <1>t
      DEF WorkerForks, Advance, RunningIsAlive, Alive, LiveWorker,
          ProcessTypeOK, WorkerStates, jobVars, handleVars, callVars
    <3>3. WorkerOwnsHandle'
      BY <2>1, <1>t
      DEF WorkerForks, Advance, WorkerOwnsHandle, Alive, LiveWorker,
          ProcessTypeOK, jobVars, handleVars
    <3>4. FreshSessions'
      BY <2>1, <1>t
      DEF WorkerForks, Advance, FreshSessions, ProcessTypeOK, fifoVars
    <3>5. ChildHasWorker'
      BY <2>1, <1>t
      DEF WorkerForks, Advance, ChildHasWorker, NeverAbandoned, Running, ProcessTypeOK
    <3>6. StatusOfDead'
      BY <2>1, <1>t DEF WorkerForks, StatusOfDead, ProcessTypeOK, ChildHasWorker
    <3> QED
      BY <2>1, <3>1, <3>2, <3>3, <3>4, <3>5, <3>6, <1>f, <1>g
      DEF WorkerForks, apiVars, jobVars, handleVars, fifoVars, callVars
  <2>2. CASE WorkerWaits(s)
    <3>1. SpawnIsFresh'
      BY <2>2
      DEF WorkerWaits, SpawnIsFresh, Alive, LiveWorker, WorkerStates, jobVars,
          handleVars, fifoVars, callVars
    <3>2. RunningIsAlive'
      BY <2>2
      DEF WorkerWaits, Advance, RunningIsAlive, Alive, LiveWorker, WorkerStates,
          jobVars, handleVars, callVars
    <3>3. WorkerOwnsHandle'
      BY <2>2, <1>t
      DEF WorkerWaits, Advance, WorkerOwnsHandle, Alive, LiveWorker,
          ProcessTypeOK, jobVars, handleVars
    <3>4. FreshSessions'
      BY <2>2 DEF WorkerWaits, Advance, FreshSessions, fifoVars, childVars
    <3>5. ChildHasWorker'
      BY <2>2 DEF WorkerWaits, Advance, ChildHasWorker, NeverAbandoned, Running, childVars
    <3> QED
      BY <2>2, <3>1, <3>2, <3>3, <3>4, <3>5, <1>f, <1>g
      DEF WorkerWaits, apiVars, jobVars, handleVars, fifoVars, childVars,
          callVars
  <2>3. CASE WorkerTimesOut(s)
    <3>1. SpawnIsFresh'
      BY <2>3
      DEF WorkerTimesOut, SpawnIsFresh, Alive, LiveWorker, WorkerStates,
          jobVars, handleVars, fifoVars, callVars
    <3>2. RunningIsAlive'
      BY <2>3
      DEF WorkerTimesOut, Advance, RunningIsAlive, Alive, LiveWorker,
          WorkerStates, jobVars, handleVars, callVars
    <3>3. WorkerOwnsHandle'
      BY <2>3, <1>t
      DEF WorkerTimesOut, Advance, WorkerOwnsHandle, Alive, LiveWorker,
          ProcessTypeOK, jobVars, handleVars
    <3>4. FreshSessions'
      BY <2>3 DEF WorkerTimesOut, Advance, FreshSessions, fifoVars, childVars
    <3>5. ChildHasWorker'
      BY <2>3 DEF WorkerTimesOut, Advance, ChildHasWorker, NeverAbandoned, Running, childVars
    <3> QED
      BY <2>3, <3>1, <3>2, <3>3, <3>4, <3>5, <1>f, <1>g
      DEF WorkerTimesOut, apiVars, jobVars, handleVars, fifoVars, childVars,
          callVars
  <2>4. CASE WorkerInterrupted(s)
    <3>1. SpawnIsFresh'
      BY <2>4
      DEF WorkerInterrupted, SpawnIsFresh, Alive, LiveWorker, WorkerStates,
          jobVars, handleVars, fifoVars, callVars
    <3>2. RunningIsAlive'
      BY <2>4
      DEF WorkerInterrupted, Advance, RunningIsAlive, Alive, LiveWorker,
          WorkerStates, jobVars, handleVars, callVars
    <3>3. WorkerOwnsHandle'
      BY <2>4, <1>t
      DEF WorkerInterrupted, Advance, WorkerOwnsHandle, Alive, LiveWorker,
          ProcessTypeOK, jobVars, handleVars
    <3>4. FreshSessions'
      BY <2>4 DEF WorkerInterrupted, Advance, FreshSessions, fifoVars, childVars
    <3>5. ChildHasWorker'
      BY <2>4 DEF WorkerInterrupted, Advance, ChildHasWorker, NeverAbandoned, Running, childVars
    <3> QED
      BY <2>4, <3>1, <3>2, <3>3, <3>4, <3>5, <1>f, <1>g
      DEF WorkerInterrupted, apiVars, jobVars, handleVars, fifoVars, childVars,
          callVars
  <2>5. CASE WorkerKills(s)
    <3>1. SpawnIsFresh'
      BY <2>5
      DEF WorkerKills, SpawnIsFresh, Alive, LiveWorker, WorkerStates, jobVars,
          handleVars, fifoVars, callVars
    <3>2. RunningIsAlive'
      BY <2>5
      DEF WorkerKills, Advance, RunningIsAlive, Alive, LiveWorker, WorkerStates,
          jobVars, handleVars, callVars
    <3>3. WorkerOwnsHandle'
      BY <2>5, <1>t
      DEF WorkerKills, Advance, WorkerOwnsHandle, Alive, LiveWorker,
          ProcessTypeOK, jobVars, handleVars
    <3>4. FreshSessions'
      BY <2>5
      DEF WorkerKills, Advance, FreshSessions, KillTargets, Running, LiveChild,
          fifoVars
    <3>5. ChildHasWorker'
      BY <2>5
      DEF WorkerKills, Advance, ChildHasWorker, NeverAbandoned, Running, LiveChild, KillTargets
    <3>6. StatusOfDead'
      BY <2>5 DEF WorkerKills, StatusOfDead, Running, LiveChild, KillTargets
    <3> QED
      BY <2>5, <3>1, <3>2, <3>3, <3>4, <3>5, <3>6, <1>f, <1>g
      DEF WorkerKills, apiVars, jobVars, handleVars, fifoVars, callVars
  <2>6. CASE WorkerReaps(s)
    <3>1. SpawnIsFresh'
      BY <2>6
      DEF WorkerReaps, SpawnIsFresh, Alive, LiveWorker, WorkerStates, jobVars,
          handleVars, fifoVars, callVars
    <3>2. RunningIsAlive'
      BY <2>6
      DEF WorkerReaps, Advance, RunningIsAlive, Alive, LiveWorker, WorkerStates,
          Verdict, jobVars, handleVars, callVars
    <3>3. WorkerOwnsHandle'
      BY <2>6, <1>t
      DEF WorkerReaps, Advance, WorkerOwnsHandle, Alive, LiveWorker,
          ProcessTypeOK, jobVars, handleVars
    <3>4. FreshSessions'
      BY <2>6 DEF WorkerReaps, Advance, FreshSessions, fifoVars
    <3>5. ChildHasWorker'
      BY <2>6
      DEF WorkerReaps, Advance, ChildHasWorker, NeverAbandoned, Running, LiveChild, Verdict
    <3>6. StatusOfDead'
      BY <2>6 DEF WorkerReaps, StatusOfDead
    <3> QED
      BY <2>6, <3>1, <3>2, <3>3, <3>4, <3>5, <3>6, <1>f, <1>g
      DEF WorkerReaps, apiVars, jobVars, handleVars, fifoVars, callVars
  <2>7. CASE WorkerExits(s)
    <3>1. SpawnIsFresh'
      BY <2>7
      DEF WorkerExits, SpawnIsFresh, Alive, LiveWorker, WorkerStates, fifoVars,
          callVars
    <3>2. HandleAtRest'
      BY <2>7
      DEF WorkerExits, HandleAtRest, LiveWorker, Alive, WorkerOwnsHandle,
          WorkerStates, apiVars, callVars
    <3>3. RunningIsAlive'
      BY <2>7 DEF WorkerExits, RunningIsAlive, callVars
    <3>4. WorkerOwnsHandle'
      BY <2>7, <1>t
      DEF WorkerExits, Advance, WorkerOwnsHandle, Alive, LiveWorker,
          ProcessTypeOK
    <3>5. FreshSessions'
      BY <2>7 DEF WorkerExits, Advance, FreshSessions, fifoVars, childVars
    <3>6. ChildHasWorker'
      BY <2>7 DEF WorkerExits, Advance, ChildHasWorker, NeverAbandoned, Running, childVars
    <3> QED
      BY <2>7, <3>1, <3>2, <3>3, <3>4, <3>5, <3>6, <1>f, <1>g
      DEF WorkerExits, apiVars, fifoVars, childVars, callVars
  <2>8. CASE WaitpidInterrupted(s)
    <3>1. SpawnIsFresh'
      BY <2>8
      DEF WaitpidInterrupted, SpawnIsFresh, Alive, LiveWorker, WorkerStates,
          jobVars, handleVars, fifoVars, callVars
    <3>2. RunningIsAlive'
      BY <2>8
      DEF WaitpidInterrupted, Advance, RunningIsAlive, Alive, LiveWorker,
          WorkerStates, jobVars, handleVars, callVars
    <3>3. WorkerOwnsHandle'
      BY <2>8, <1>t
      DEF WaitpidInterrupted, Advance, WorkerOwnsHandle, Alive, LiveWorker,
          ProcessTypeOK, jobVars, handleVars
    <3>4. FreshSessions'
      BY <2>8, <1>t
      DEF WaitpidInterrupted, Advance, FreshSessions, ProcessTypeOK, fifoVars
    <3>5. ChildHasWorker'
      <4>1. NeverAbandoned => child[s] = "zombie"
        BY <2>8 DEF WaitpidInterrupted, NeverAbandoned, ReapsDead
      <4> QED
        BY <2>8, <1>t, <4>1
        DEF WaitpidInterrupted, Advance, ChildHasWorker, NeverAbandoned, Running,
            LiveChild, ProcessTypeOK
    <3>6. StatusOfDead'
      BY <2>8, <1>t DEF WaitpidInterrupted, StatusOfDead, ProcessTypeOK
    <3> QED
      BY <2>8, <3>1, <3>2, <3>3, <3>4, <3>5, <3>6, <1>f, <1>g
      DEF WaitpidInterrupted, apiVars, jobVars, handleVars, fifoVars, callVars
  <2> QED
    BY <1>3, <2>1, <2>2, <2>3, <2>4, <2>5, <2>6, <2>7, <2>8
    DEF WorkerStep, WorkerGoesOn
<1>4. ASSUME NEW s \in Sessions, ChildStep(s) PROVE IInv'
  <2>1. CASE ChildExecs(s)
    <3>1. FreshSessions'
      BY <2>1 DEF ChildExecs, Becomes, FreshSessions, fifoVars
    <3>2. ChildHasWorker'
      BY <2>1 DEF ChildExecs, Becomes, ChildHasWorker, NeverAbandoned, Running, LiveChild
    <3>3. StatusOfDead'
      BY <2>1 DEF ChildExecs, Becomes, StatusOfDead
    <3> QED
      BY <2>1, <3>1, <3>2, <3>3, <1>f, <1>g
      DEF ChildExecs, apiVars, jobVars, handleVars, fifoVars, callVars
  <2>2. CASE ChildExecFails(s)
    <3>1. FreshSessions'
      BY <2>2
      DEF ChildExecFails, Becomes, Sigchld, SigchldToWorker, FreshSessions, fifoVars
    <3>2. ChildHasWorker'
      BY <2>2, <1>t
      DEF ChildExecFails, Becomes, Sigchld, SigchldToWorker, ChildHasWorker,
          NeverAbandoned, Running, LiveChild, ProcessTypeOK
    <3>3. StatusOfDead'
      BY <2>2, <1>t DEF ChildExecFails, Becomes, StatusOfDead, ProcessTypeOK
    <3> QED
      BY <2>2, <3>1, <3>2, <3>3, <1>f, <1>g, <1>h DEF ChildExecFails
  <2>3. CASE ChildOpens(s)
    <3>1. FreshSessions'
      BY <2>3 DEF ChildOpens, Becomes, FreshSessions, fifoVars
    <3>2. ChildHasWorker'
      BY <2>3 DEF ChildOpens, Becomes, ChildHasWorker, NeverAbandoned, Running, LiveChild
    <3>3. StatusOfDead'
      BY <2>3 DEF ChildOpens, Becomes, StatusOfDead
    <3>4. NeverAbandoned => OwnFifo'
      BY <2>3, <1>t
      DEF ChildOpens, OwnFifo, ProcessTypeOK, ChildHasWorker, Running,
          LiveChild, WorkerOwnsHandle, Alive, LiveWorker, FdIsLatest
    <3> QED
      BY <2>3, <3>1, <3>2, <3>3, <3>4, <1>f, <1>g
      DEF ChildOpens, apiVars, jobVars, handleVars, fifoVars, callVars
  <2>4. CASE ChildWrites(s)
    <3> QED
      BY <2>4, <1>f, <1>g
      DEF ChildWrites, apiVars, jobVars, handleVars, callVars
  <2>5. ASSUME NEW st \in ExitStatus, ChildExits(s, st)
        PROVE  IInv'
    <3>1. FreshSessions'
      BY <2>5
      DEF ChildExits, Becomes, Sigchld, SigchldToWorker, FreshSessions, fifoVars
    <3>2. ChildHasWorker'
      BY <2>5, <1>t
      DEF ChildExits, Becomes, Sigchld, SigchldToWorker, ChildHasWorker,
          NeverAbandoned, Running, LiveChild, ProcessTypeOK
    <3>3. StatusOfDead'
      BY <2>5, <1>t DEF ChildExits, Becomes, StatusOfDead, ProcessTypeOK, ExitStatus
    <3> QED
      BY <2>5, <3>1, <3>2, <3>3, <1>f, <1>g, <1>h DEF ChildExits
  <2>6. CASE ChildStops(s)
    <3>1. FreshSessions'
      BY <2>6
      DEF ChildStops, Becomes, Sigchld, SigchldToWorker, FreshSessions, fifoVars
    <3>2. ChildHasWorker'
      BY <2>6, <1>t
      DEF ChildStops, Becomes, Sigchld, SigchldToWorker, ChildHasWorker,
          NeverAbandoned, Running, LiveChild, ProcessTypeOK
    <3>3. StatusOfDead'
      BY <2>6, <1>t DEF ChildStops, Becomes, StatusOfDead, ProcessTypeOK
    <3> QED
      BY <2>6, <3>1, <3>2, <3>3, <1>f, <1>g, <1>h DEF ChildStops
  <2>7. CASE ChildContinues(s)
    <3>1. FreshSessions'
      BY <2>7
      DEF ChildContinues, Becomes, Sigchld, SigchldToWorker, FreshSessions, fifoVars
    <3>2. ChildHasWorker'
      BY <2>7, <1>t
      DEF ChildContinues, Becomes, Sigchld, SigchldToWorker, ChildHasWorker,
          NeverAbandoned, Running, LiveChild, ProcessTypeOK
    <3>3. StatusOfDead'
      BY <2>7, <1>t DEF ChildContinues, Becomes, StatusOfDead, ProcessTypeOK
    <3> QED
      BY <2>7, <3>1, <3>2, <3>3, <1>f, <1>g, <1>h DEF ChildContinues
  <2>8. CASE ChildDies(s)
    <3>1. FreshSessions'
      BY <2>8
      DEF ChildDies, Becomes, Sigchld, SigchldToWorker, FreshSessions, fifoVars
    <3>2. ChildHasWorker'
      BY <2>8, <1>t
      DEF ChildDies, Becomes, Sigchld, SigchldToWorker, ChildHasWorker,
          NeverAbandoned, Running, LiveChild, ProcessTypeOK
    <3>3. StatusOfDead'
      BY <2>8, <1>t DEF ChildDies, Becomes, StatusOfDead, ProcessTypeOK
    <3> QED
      BY <2>8, <3>1, <3>2, <3>3, <1>f, <1>g, <1>h DEF ChildDies
  <2> QED
    BY <1>4, <2>1, <2>2, <2>3, <2>4, <2>5, <2>6, <2>7, <2>8 DEF ChildStep
<1>5. CASE FifoVanishes
  <2>1. FdIsLatest'
    BY <1>5 DEF FifoVanishes, FdIsLatest, apiVars, handleVars, jobVars
  <2> QED
    BY <1>5, <2>1, <1>f, <1>g
    DEF FifoVanishes, apiVars, jobVars, handleVars, childVars, callVars
<1>6. CASE UNCHANGED vars
  BY <1>6, <1>f, <1>g
  DEF vars, apiVars, jobVars, handleVars, fifoVars, childVars, callVars
<1> QED
  BY <1>1, <1>2, <1>3, <1>4, <1>5, <1>6 DEF Next

\* Both parts of the invariant hold in every behaviour.
LEMMA InvHolds ==
  ASSUME "reinit" \notin Env
  PROVE  Spec => [](IInv /\ HasFd)
<1>1. Init => IInv /\ HasFd
  BY InitInv, InitTypeInv DEF TypeInv
<1>2. IInv /\ HasFd /\ [Next]_vars => (IInv /\ HasFd)'
  BY NextInv, NextTypeInv DEF IInv, TypeInv
<1> QED
  BY <1>1, <1>2, PTL DEF Spec

-----------------------------------------------------------------------------
(* What follows from it *)

\* Unless the program initializes twice, one worker lives at a time, it is the
\* one pthread_join waits for, and its FIFO and state stay in the handle.
THEOREM WorkerOwned ==
  ASSUME "reinit" \notin Env
  PROVE  Spec => []WorkerOwnsHandle
<1>1. IInv => WorkerOwnsHandle
  BY DEF IInv
<1> QED
  BY <1>1, InvHolds, PTL

\* After cubrid_backup_end or _finalize nothing of the backup is left: no
\* thread, no utility that was not told to die, no descriptor, no cancellation;
\* unless a signal interrupts the waitpid for a stopped utility.
THEOREM CleanAfterBackup ==
  ASSUME "reinit" \notin Env, NeverAbandoned
  PROVE  Spec => []CleanBetweenBackups
<1>1. IInv => CleanBetweenBackups
  <2> SUFFICES ASSUME IInv, pc = "app", backup_api_state \in {"NOT_READY", "READY"}
               PROVE  /\ \A s \in Sessions : ~Alive(s) /\ ~Running(s)
                      /\ backup_thread_state = "NO_SPAWN" /\ ~is_cancel
                      /\ open_fds \subseteq {Stdin}
    BY DEF CleanBetweenBackups
  <2>1. backup_thread_state = "NO_SPAWN" /\ ~is_cancel /\ fifo_fd \notin Sessions
    BY DEF IInv, HandleAtRest
  <2>2. \A s \in Sessions : ~Alive(s)
    BY <2>1 DEF IInv, WorkerOwnsHandle
  <2>3. \A s \in Sessions : ~Running(s)
    BY <2>2 DEF IInv, ChildHasWorker, Alive, LiveWorker, WorkerStates
  <2>4. open_fds \subseteq {Stdin}
    BY <2>1 DEF IInv, TypeOK, FifoTypeOK, FdAccounted
  <2> QED
    BY <2>1, <2>2, <2>3, <2>4
<1> QED
  BY <1>1, InvHolds, PTL

\* pthread_create is never reached while a worker lives. The run `reinitialize`
\* finds this violated by a second initialize; the theorem says that nothing else
\* does it.
THEOREM SecondBeginIsRefused ==
  ASSUME "reinit" \notin Env
  PROVE  Spec => []SecondBeginRefused
<1>1. IInv => SecondBeginRefused
  BY DEF IInv, SpawnIsFresh, SecondBeginRefused
<1> QED
  BY <1>1, InvHolds, PTL

\* The descriptors the library has opened and not closed are the handle's.
THEOREM NoFdLeak ==
  ASSUME "reinit" \notin Env
  PROVE  Spec => []FdAccounted
<1>1. IInv => FdAccounted
  BY DEF IInv
<1> QED
  BY <1>1, InvHolds, PTL

\* However the starts and deaths of utilities interleave with the sessions, each
\* writes into its own FIFO, as long as no worker is taken from a stopped one.
THEOREM WritesOwnFifo ==
  ASSUME "reinit" \notin Env, NeverAbandoned
  PROVE  Spec => []OwnFifo
<1>1. IInv => OwnFifo
  BY DEF IInv
<1> QED
  BY <1>1, InvHolds, PTL

\* No step takes a cancellation back while a worker lives.
LEMMA NextCancel ==
  ASSUME IInv, [Next]_vars, is_cancel, NEW w \in Sessions, Alive(w)
  PROVE  is_cancel'
<1>1. /\ backup_thread_state = "RUNNING"
      /\ fifo_fd \in Sessions
  BY DEF IInv, WorkerOwnsHandle
<1>2. pc # "spawn" /\ ~Closing
  BY <1>1 DEF IInv, SpawnIsFresh, HandleAtRest
<1>3. backup_api_state # "READY"
  BY <1>1 DEF IInv, HandleAtRest
<1>4. CASE Call
  BY <1>1, <1>3, <1>4
  DEF Call, InitializeSucceeds, InitializeFails, BeginFails, BeginOpens, Gate,
      ReadStarts, EndStarts, FinalizeRejected, FinalizeStarts, CancelOrClose,
      jobVars, handleVars
<1>5. CASE CallStep
  BY <1>2, <1>5
  DEF CallStep, BeginSpawns, BeginSpawnFails, ReadChecks, ReadIo, ReadEnds,
      ReadInterrupted, EndJoins, EndCloses, FinalizeJoins, FinalizeCloses, Join,
      Closing, jobVars, handleVars
<1>6. ASSUME NEW s \in Sessions, WorkerStep(s) PROVE is_cancel'
  BY <1>6
  DEF WorkerStep, WorkerGoesOn, WorkerForks, WorkerWaits, WorkerTimesOut,
      WorkerInterrupted, WaitpidInterrupted, WorkerKills, WorkerReaps, WorkerExits,
      jobVars, handleVars
<1>7. ASSUME NEW s \in Sessions, ChildStep(s) PROVE is_cancel'
  BY <1>7
  DEF ChildStep, ChildExecs, ChildExecFails, ChildOpens, ChildWrites,
      ChildExits, ChildStops, ChildContinues, ChildDies, jobVars, handleVars
<1>8. CASE FifoVanishes
  BY <1>8 DEF FifoVanishes, jobVars, handleVars
<1>9. CASE UNCHANGED vars
  BY <1>9 DEF vars, jobVars, handleVars
<1> QED
  BY <1>4, <1>5, <1>6, <1>7, <1>8, <1>9 DEF Next

\* The worker sees every cancellation it is meant for: is_cancel goes back to
\* false only when the worker is gone.
THEOREM CancelKept ==
  ASSUME "reinit" \notin Env
  PROVE  Spec => CancelSticky
<1>1. IInv /\ [Next]_vars
      => [is_cancel /\ (\E s \in Sessions : Alive(s)) => is_cancel']_vars
  BY NextCancel
<1> QED
  BY <1>1, InvHolds, PTL DEF Spec, CancelSticky

-----------------------------------------------------------------------------
(* The end of a backup. Here EINTR has to be excluded as well: the worker    *)
(* takes it for a cancellation and reports EXIT.                             *)

\* An exit status, once there, stays.
LEMMA NextStatus ==
  ASSUME IInv, [Next]_vars, NEW t \in Sessions, status[t] = "zero"
  PROVE  status'[t] = "zero"
<1>1. ~Running(t) /\ child[t] \notin {"doomed"}
  BY DEF IInv, StatusOfDead, Running, LiveChild
<1>2. status \in [Sessions -> ExitStatus \cup {"none"}]
  BY DEF IInv, TypeOK, ProcessTypeOK
<1>3. ASSUME NEW s \in Sessions, ChildStep(s) PROVE status'[t] = "zero"
  BY <1>1, <1>2, <1>3
  DEF ChildStep, ChildExecs, ChildExecFails, ChildOpens, ChildWrites,
      ChildExits, ChildStops, ChildContinues, ChildDies, Running, LiveChild
<1>4. ASSUME NEW s \in Sessions, WorkerStep(s) PROVE status'[t] = "zero"
  BY <1>4
  DEF WorkerStep, WorkerGoesOn, WorkerForks, WorkerWaits, WorkerTimesOut,
      WorkerInterrupted, WaitpidInterrupted, WorkerKills, WorkerReaps, WorkerExits,
      childVars
<1>5. CASE Call
  BY <1>5
  DEF Call, InitializeSucceeds, InitializeFails, BeginFails, BeginOpens,
      ReadStarts, EndStarts, FinalizeRejected, FinalizeStarts, childVars
<1>6. CASE CallStep
  BY <1>6
  DEF CallStep, BeginSpawns, BeginSpawnFails, ReadChecks, ReadIo, ReadEnds,
      ReadInterrupted, EndJoins, EndCloses, FinalizeJoins, FinalizeCloses, Join,
      childVars
<1>7. CASE FifoVanishes \/ UNCHANGED vars
  BY <1>7 DEF FifoVanishes, vars, childVars
<1> QED
  BY <1>3, <1>4, <1>5, <1>6, <1>7 DEF Next

\* No step forges the end of a backup.
LEMMA NextExit ==
  ASSUME "reinit" \notin Env, "eintr" \notin Env
  PROVE  IInv /\ HasFd /\ ExitMeansZero /\ [Next]_vars => ExitMeansZero'
<1> SUFFICES ASSUME IInv, HasFd, ExitMeansZero, [Next]_vars
             PROVE  ExitMeansZero'
  OBVIOUS
<1>c. is_cancel => is_cancel' \/ (\A s \in Sessions : ~Alive(s))
  BY NextCancel
<1>s. \A t \in Sessions : status[t] = "zero" => status'[t] = "zero"
  BY NextStatus
<1>t. ProcessTypeOK /\ FifoTypeOK
  BY DEF IInv, TypeOK
<1>f. /\ UNCHANGED <<worker, backup_thread_state, session, is_cancel, ended>>
      => ExitMeansZero'
  BY <1>s DEF ExitMeansZero, EndMeansExitZero
<1>1. CASE Call
  <2>1. CASE InitializeSucceeds
    BY <2>1, <1>f DEF InitializeSucceeds, jobVars, fifoVars, callVars
  <2>2. CASE InitializeFails
    BY <2>2, <1>f DEF InitializeFails, handleVars, jobVars, fifoVars, callVars
  <2>3. CASE BeginFails
    <3>1. \A s \in Sessions : ~Alive(s)
      BY <2>3 DEF BeginFails, Gate, IInv, HandleAtRest, WorkerOwnsHandle
    <3> QED
      BY <2>3, <3>1
      DEF BeginFails, ResetHandle, ExitMeansZero, EndMeansExitZero, Alive,
          LiveWorker, WorkerStates
  <2>4. CASE BeginOpens
    <3>1. \A s \in Sessions : ~Alive(s)
      BY <2>4 DEF BeginOpens, Gate, IInv, HandleAtRest, WorkerOwnsHandle
    <3> QED
      BY <2>4, <3>1
      DEF BeginOpens, ExitMeansZero, EndMeansExitZero, Alive, LiveWorker,
          WorkerStates
  <2>5. CASE ReadStarts
    BY <2>5, <1>f DEF ReadStarts, jobVars, fifoVars
  <2>6. CASE EndStarts
    BY <2>6
    DEF EndStarts, CancelOrClose, ExitMeansZero, EndMeansExitZero, jobVars,
        fifoVars, childVars
  <2>7. CASE FinalizeRejected
    BY <2>7, <1>f DEF FinalizeRejected, handleVars, jobVars, fifoVars, callVars
  <2>8. CASE FinalizeStarts
    BY <2>8
    DEF FinalizeStarts, CancelOrClose, ExitMeansZero, EndMeansExitZero, jobVars,
        fifoVars, childVars
  <2> QED
    BY <1>1, <2>1, <2>2, <2>3, <2>4, <2>5, <2>6, <2>7, <2>8 DEF Call
<1>2. CASE CallStep
  <2>1. CASE BeginSpawns
    BY <2>1
    DEF BeginSpawns, Return, ExitMeansZero, EndMeansExitZero, jobVars, fifoVars,
        childVars
  <2>2. CASE BeginSpawnFails
    <3>1. \A s \in Sessions : ~Alive(s)
      BY <2>2 DEF BeginSpawnFails, IInv, SpawnIsFresh
    <3>2. backup_thread_state' # "EXIT"
      BY <2>2 DEF BeginSpawnFails, ResetHandle
    <3> QED
      BY <2>2, <3>1, <3>2
      DEF BeginSpawnFails, ExitMeansZero, EndMeansExitZero, Alive, LiveWorker,
          WorkerStates, childVars
  <2>3. CASE ReadChecks
    BY <2>3, <1>f DEF ReadChecks, jobVars, fifoVars
  <2>4. CASE ReadIo
    BY <2>4, <1>f DEF ReadIo, jobVars
  <2>5. CASE ReadEnds
    <3>1. ~is_cancel
      BY <2>5
      DEF ReadEnds, IInv, CancelPending, HasFd, Joining, Closing, Sessions
    <3> QED
      BY <2>5, <3>1
      DEF ReadEnds, ExitMeansZero, EndMeansExitZero, jobVars, fifoVars,
          childVars
  <2>6. CASE ReadInterrupted
    BY <2>6, <1>f DEF ReadInterrupted, jobVars, fifoVars
  <2>7. CASE EndJoins
    BY <2>7, <1>f DEF EndJoins, Join, handleVars, jobVars, fifoVars
  <2>8. CASE EndCloses
    <3>1. \A s \in Sessions : ~Alive(s)
      BY <2>8 DEF EndCloses, IInv, HandleAtRest, WorkerOwnsHandle, Closing
    <3> QED
      BY <2>8, <3>1
      DEF EndCloses, ResetHandle, Return, ExitMeansZero, EndMeansExitZero,
          Alive, LiveWorker, WorkerStates, childVars
  <2>9. CASE FinalizeJoins
    BY <2>9, <1>f DEF FinalizeJoins, Join, handleVars, jobVars, fifoVars
  <2>10. CASE FinalizeCloses
    <3>1. \A s \in Sessions : ~Alive(s)
      BY <2>10 DEF FinalizeCloses, IInv, HandleAtRest, WorkerOwnsHandle, Closing
    <3> QED
      BY <2>10, <3>1
      DEF FinalizeCloses, ResetHandle, Return, ExitMeansZero, EndMeansExitZero,
          Alive, LiveWorker, WorkerStates, childVars
  <2> QED
    BY <1>2, <2>1, <2>2, <2>3, <2>4, <2>5, <2>6, <2>7, <2>8, <2>9, <2>10
    DEF CallStep
<1>3. ASSUME NEW s \in Sessions, WorkerStep(s) PROVE ExitMeansZero'
  <2>1. CASE WorkerForks(s)
    BY <2>1, <1>t
    DEF WorkerForks, Advance, ExitMeansZero, EndMeansExitZero, ProcessTypeOK,
        handleVars, jobVars, fifoVars, callVars
  <2>2. CASE WorkerWaits(s)
    BY <2>2
    DEF WorkerWaits, Advance, ExitMeansZero, EndMeansExitZero, handleVars,
        jobVars, fifoVars, childVars, callVars
  <2>3. CASE WorkerTimesOut(s)
    BY <2>3
    DEF WorkerTimesOut, WaitGivesUp, Advance, ExitMeansZero, EndMeansExitZero,
        handleVars, jobVars, fifoVars, childVars, callVars
  <2>4. CASE WorkerInterrupted(s)
    BY <2>4 DEF WorkerInterrupted
  <2>5. CASE WorkerKills(s)
    BY <2>5
    DEF WorkerKills, ExitMeansZero, EndMeansExitZero, handleVars, jobVars,
        fifoVars, callVars
  <2>6. CASE WorkerReaps(s)
    BY <2>6
    DEF WorkerReaps, Verdict, Advance, ExitMeansZero, EndMeansExitZero,
        handleVars, jobVars, fifoVars, callVars
  <2>7. CASE WorkerExits(s)
    <3>1. s = session
      BY <2>7
      DEF WorkerExits, IInv, WorkerOwnsHandle, FdIsLatest, Alive, LiveWorker,
          WorkerStates
    <3> QED
      BY <2>7, <3>1
      DEF WorkerExits, Advance, ExitMeansZero, EndMeansExitZero, fifoVars,
          childVars, callVars
  <2>8. CASE WaitpidInterrupted(s)
    BY <2>8 DEF WaitpidInterrupted
  <2> QED
    BY <1>3, <2>1, <2>2, <2>3, <2>4, <2>5, <2>6, <2>7, <2>8
    DEF WorkerStep, WorkerGoesOn
<1>4. ASSUME NEW s \in Sessions, ChildStep(s) PROVE ExitMeansZero'
  <2>1. \A t \in Sessions : worker'[t] \in {"kill", "exit_ok"} => worker'[t] = worker[t]
    BY <1>4, <1>t
    DEF ChildStep, ChildExecs, ChildExecFails, ChildOpens, ChildWrites, ChildExits,
        ChildStops, ChildContinues, ChildDies, Sigchld, SigchldToWorker,
        ProcessTypeOK
  <2>2. UNCHANGED <<is_cancel, backup_thread_state, session, ended>>
    BY <1>4
    DEF ChildStep, ChildExecs, ChildExecFails, ChildOpens, ChildWrites,
        ChildExits, ChildStops, ChildContinues, ChildDies, handleVars, jobVars,
        fifoVars, callVars
  <2> QED
    BY <2>1, <2>2, <1>s DEF ExitMeansZero, EndMeansExitZero
<1>5. CASE FifoVanishes
  BY <1>5, <1>f DEF FifoVanishes, handleVars, jobVars, callVars
<1>6. CASE UNCHANGED vars
  BY <1>6, <1>f DEF vars, handleVars, jobVars, fifoVars, callVars
<1> QED
  BY <1>1, <1>2, <1>3, <1>4, <1>5, <1>6 DEF Next

\* SUCCESS from cubrid_backup_read stands for exit status 0 of the utility of
\* this session, unless the program initializes twice or a signal interrupts.
THEOREM EndIsExitZero ==
  ASSUME "reinit" \notin Env, "eintr" \notin Env
  PROVE  Spec => []EndMeansExitZero
<1>1. Init => ExitMeansZero
  BY DEF Init, ExitMeansZero, EndMeansExitZero
<1>2. IInv /\ HasFd /\ ExitMeansZero /\ [Next]_vars => ExitMeansZero'
  BY NextExit
<1>3. ExitMeansZero => EndMeansExitZero
  BY DEF ExitMeansZero
<1> QED
  BY <1>1, <1>2, <1>3, InvHolds, PTL DEF Spec

\* A utility that exits with 0 has written its whole backup.
ZeroIsWhole == \A s \in Sessions : status[s] = "zero" => written[s] = Units

\* That stays so, and is so at each exit, as long as no execv fails.
LEMMA NextWhole ==
  ASSUME "exec_fail" \notin Env, TypeOK, ZeroIsWhole, [Next]_vars
  PROVE  ZeroIsWhole'
<1>t. /\ status \in [Sessions -> ExitStatus \cup {"none"}]
      /\ written \in [Sessions -> 0..Units]
  BY DEF TypeOK, ProcessTypeOK
<1>u. UNCHANGED <<status, written>> => ZeroIsWhole'
  BY DEF ZeroIsWhole
<1>1. CASE Call \/ CallStep
  BY <1>1, <1>u
  DEF Call, InitializeSucceeds, InitializeFails, BeginFails, BeginOpens,
      ReadStarts, EndStarts, FinalizeRejected, FinalizeStarts,
      CallStep, BeginSpawns, BeginSpawnFails, ReadChecks, ReadIo, ReadEnds,
      ReadInterrupted, EndJoins, EndCloses, FinalizeJoins, FinalizeCloses, Join,
      childVars
<1>2. ASSUME NEW s \in Sessions, WorkerStep(s) PROVE ZeroIsWhole'
  BY <1>2, <1>u
  DEF WorkerStep, WorkerGoesOn, WorkerForks, WorkerWaits, WorkerTimesOut,
      WorkerInterrupted, WaitpidInterrupted, WorkerKills, WorkerReaps, WorkerExits,
      childVars
<1>3. ASSUME NEW s \in Sessions, ChildStep(s) PROVE ZeroIsWhole'
  <2>1. CASE ChildWrites(s)
    BY <2>1, <1>t, ConstantsAssumption DEF ChildWrites, ZeroIsWhole
  <2>2. ASSUME NEW st \in ExitStatus, ChildExits(s, st) PROVE ZeroIsWhole'
    BY <2>2, <1>t DEF ChildExits, ZeroIsWhole
  <2>3. CASE ChildDies(s)
    BY <2>3, <1>t DEF ChildDies, ZeroIsWhole
  <2>4. CASE ChildExecs(s) \/ ChildOpens(s) \/ ChildStops(s) \/ ChildContinues(s)
    BY <2>4, <1>u DEF ChildExecs, ChildOpens, ChildStops, ChildContinues
  <2> QED
    BY <1>3, <2>1, <2>2, <2>3, <2>4 DEF ChildStep, ChildExecFails
<1>4. CASE FifoVanishes \/ UNCHANGED vars
  BY <1>4, <1>u DEF FifoVanishes, vars, childVars
<1> QED
  BY <1>1, <1>2, <1>3, <1>4 DEF Next

\* SUCCESS from cubrid_backup_read stands for a whole backup. The run
\* `exec_failure` finds this violated by a failing execv; the theorem says that,
\* beside it, only a second initialize or EINTR can do it.
THEOREM EndIsBackup ==
  ASSUME "reinit" \notin Env, "eintr" \notin Env, "exec_fail" \notin Env
  PROVE  Spec => []EndMeansBackupRan
<1>1. Init => TypeInv /\ ZeroIsWhole
  BY InitTypeInv DEF Init, ZeroIsWhole
<1>2. TypeInv /\ ZeroIsWhole /\ [Next]_vars => (TypeInv /\ ZeroIsWhole)'
  BY NextTypeInv, NextWhole DEF TypeInv
<1>3. ZeroIsWhole /\ EndMeansExitZero => EndMeansBackupRan
  BY DEF ZeroIsWhole, EndMeansExitZero, EndMeansBackupRan
<1> QED
  BY <1>1, <1>2, <1>3, EndIsExitZero, PTL DEF Spec

-----------------------------------------------------------------------------
(* The buffer of cubrid_backup_read *)

\* Full reads of io_size and the remainder make up the buffer.
LEMMA BufferIsSplit ==
  /\ FullReads \in Nat /\ Remainder \in 0..(IoSize - 1)
  /\ BufferSize = FullReads * IoSize + Remainder
BY ConstantsAssumption DEF FullReads, Remainder

\* One more read of io_size fits as long as there are full reads left.
LEMMA ProductStep ==
  ASSUME NEW i \in Nat, NEW m \in Nat, i < m
  PROVE  i * IoSize + IoSize <= m * IoSize /\ (i + 1) * IoSize = i * IoSize + IoSize
         /\ i * IoSize \in Nat /\ m * IoSize \in Nat
<1>1. PICK d \in Nat : m = i + 1 + d
      BY m - i - 1 \in Nat
<1>2. m * IoSize = i * IoSize + IoSize + d * IoSize
      BY <1>1, ConstantsAssumption
<1>3. d * IoSize \in Nat /\ i * IoSize \in Nat /\ m * IoSize \in Nat
      BY ConstantsAssumption
<1> QED BY <1>2, <1>3, ConstantsAssumption

\* A request is never more than io_size, and the last one is what is left of the
\* buffer.
LEMMA RequestFits ==
  ASSUME NEW i \in Nat, i < Reads
  PROVE  Request(i) <= IoSize /\ i * IoSize + Request(i) <= BufferSize
<1>1. CASE i < FullReads
      BY <1>1, BufferIsSplit, ProductStep, ConstantsAssumption DEF Request
<1>2. CASE ~(i < FullReads)
  <2>1. i = FullReads
        BY <1>2, BufferIsSplit DEF Reads
  <2> QED BY <1>2, <2>1, BufferIsSplit, ConstantsAssumption DEF Request
<1> QED BY <1>1, <1>2

Reading == pc \in {"read_check", "read_io", "read_end"}

\* A call that reads is not done; when none does, iter and total wait at zero
\* for the next.
ReadProgress ==
  /\ Reading => iter < Reads
  /\ ~Reading => iter = 0 /\ total = 0

\* It has read at most io_size each time round, and nothing at all when it
\* asks whether the backup has ended.
TotalFits ==
  /\ Reading => total \in 0..(iter * IoSize)
  /\ pc = "read_end" => total = 0

\* The loop of read_data stays within its bounds.
LEMMA NextProgress == TypeInv /\ ReadProgress /\ [Next]_vars => ReadProgress'
<1> SUFFICES ASSUME TypeInv, ReadProgress, [Next]_vars PROVE ReadProgress'
  OBVIOUS
<1>t. iter \in Nat /\ Reads \in Nat \ {0}
  BY BufferIsSplit, ConstantsAssumption DEF TypeInv, TypeOK, CallTypeOK, Reads
<1>f. UNCHANGED callVars => ReadProgress'
  BY DEF ReadProgress, Reading, callVars
<1>q. ReadReturns \/ ReadSucceeds \/ ReadFails => ReadProgress'
  BY DEF ReadReturns, ReadSucceeds, ReadFails, ReadProgress, Reading
<1>n. ~Reading /\ ~Reading' /\ UNCHANGED <<iter, total>> => ReadProgress'
  BY DEF ReadProgress
<1>1. CASE Call /\ ~ReadStarts
  BY <1>1, <1>f, <1>n
  DEF Call, InitializeSucceeds, InitializeFails, BeginFails, BeginOpens, EndStarts,
      FinalizeRejected, FinalizeStarts, CancelOrClose, Gate, Reading, callVars
<1>2. CASE ReadStarts
  BY <1>2, <1>t DEF ReadStarts, Gate, ReadProgress, Reading
<1>3. CASE ReadChecks
  BY <1>3, <1>q DEF ReadChecks, ReadProgress, Reading
<1>4. ASSUME NEW k, Reading, ReadContinues(k) PROVE ReadProgress'
  BY <1>4, <1>q, <1>t DEF ReadContinues, ReadProgress, Reading
<1>5. CASE ReadIo
  BY <1>5, <1>4 DEF ReadIo, ReadProgress, Reading
<1>6. CASE ReadEnds
  BY <1>6, <1>q, <1>4 DEF ReadEnds, Reading
<1>7. CASE ReadInterrupted
  BY <1>7, <1>q DEF ReadInterrupted
<1>8. CASE CallStep /\ ~ReadChecks /\ ~ReadIo /\ ~ReadEnds /\ ~ReadInterrupted
  BY <1>8, <1>f, <1>n
  DEF CallStep, BeginSpawns, BeginSpawnFails, EndJoins, EndCloses, FinalizeJoins,
      FinalizeCloses, Join, Return, Reading, callVars
<1>9. ASSUME NEW s \in Sessions, WorkerStep(s) PROVE ReadProgress'
  BY <1>9, <1>f
  DEF WorkerStep, WorkerGoesOn, WorkerForks, WorkerWaits, WorkerTimesOut,
      WorkerInterrupted, WaitpidInterrupted, WorkerKills, WorkerReaps, WorkerExits
<1>10. ASSUME NEW s \in Sessions, ChildStep(s) PROVE ReadProgress'
  BY <1>10, <1>f, <1>q
  DEF ChildStep, ChildExecs, ChildExecFails, ChildOpens, ChildWrites, ChildExits,
      ChildStops, ChildContinues, ChildDies, Sigchld, SigchldToCaller, callVars,
      ReadProgress, Reading
<1>11. CASE FifoVanishes \/ UNCHANGED vars
  BY <1>11, <1>f DEF FifoVanishes, vars
<1> QED
  BY <1>1, <1>2, <1>3, <1>5, <1>6, <1>7, <1>8, <1>9, <1>10, <1>11 DEF Next

\* A buffer that an int can count is counted right: no read adds more than its
\* request, and the requests stay within the buffer.
LEMMA ReadIoAdds ==
  ASSUME BufferSize <= IntMax, TypeInv, ReadProgress, TotalFits, ReadIo
  PROVE  LET n == ReadSize(fifo[fifo_fd])
         IN  /\ n \in Nat
             /\ ToInt(total + n) = total + n
             /\ total + n \in 0..(iter * IoSize + IoSize)
<1> DEFINE n == ReadSize(fifo[fifo_fd])
<1>1. iter \in Nat /\ iter < Reads /\ total \in 0..(iter * IoSize)
  BY DEF ReadIo, ReadProgress, TotalFits, Reading, TypeInv, TypeOK, CallTypeOK
<1>2. iter * IoSize \in Nat
  BY <1>1, ConstantsAssumption
<1>3. fifo[fifo_fd] \in Nat
  BY ConstantsAssumption DEF ReadIo, TypeInv, HasFd, TypeOK, FifoTypeOK
<1>4. Request(iter) \in Nat /\ Request(iter) <= IoSize
      /\ iter * IoSize + Request(iter) <= BufferSize
  BY <1>1, RequestFits, RequestIsNat
<1>5. n \in Nat /\ n <= Request(iter)
  BY <1>3, <1>4 DEF ReadSize
<1> HIDE DEF n
<1>6. total + n \in Nat /\ total + n <= BufferSize /\ total + n <= iter * IoSize + IoSize
  BY <1>1, <1>2, <1>4, <1>5, ConstantsAssumption
<1>7. ToInt(total + n) = total + n
  BY <1>6, ConstantsAssumption DEF ToInt
<1> QED
  BY <1>2, <1>5, <1>6, <1>7, ConstantsAssumption DEF n

\* So the call never counts more than io_size a round.
LEMMA NextTotal ==
  ASSUME BufferSize <= IntMax
  PROVE  TypeInv /\ ReadProgress /\ TotalFits /\ [Next]_vars => TotalFits'
<1> SUFFICES ASSUME TypeInv, ReadProgress, TotalFits, [Next]_vars PROVE TotalFits'
  OBVIOUS
<1>r. iter * IoSize \in Nat /\ (iter + 1) * IoSize = iter * IoSize + IoSize
  BY ConstantsAssumption DEF TypeInv, TypeOK, CallTypeOK
<1>f. UNCHANGED <<pc, iter, total>> => TotalFits'
  BY DEF TotalFits, Reading
<1>n. ~Reading' => TotalFits'
  BY DEF TotalFits, Reading
<1>q. ReadReturns \/ ReadSucceeds \/ ReadFails => TotalFits'
  BY DEF ReadReturns, ReadSucceeds, ReadFails, TotalFits, Reading
<1>1. CASE Call /\ ~ReadStarts
  BY <1>1, <1>f, <1>n
  DEF Call, InitializeSucceeds, InitializeFails, BeginFails, BeginOpens, EndStarts,
      FinalizeRejected, FinalizeStarts, CancelOrClose, Gate, Reading, callVars
<1>2. CASE ReadStarts
  BY <1>2, <1>r DEF ReadStarts, Gate, ReadProgress, TotalFits, Reading
<1>3. CASE ReadChecks
  BY <1>3, <1>q DEF ReadChecks, TotalFits, Reading
<1>4. ASSUME NEW k \in 0..(iter * IoSize + IoSize), ReadContinues(k)
      PROVE  TotalFits'
  BY <1>4, <1>q, <1>r DEF ReadContinues, TotalFits, Reading
<1>5. CASE ReadIo
  <2> DEFINE n == ReadSize(fifo[fifo_fd])
  <2>1. /\ n \in Nat
        /\ ToInt(total + n) = total + n
        /\ total + n \in 0..(iter * IoSize + IoSize)
    BY <1>5, ReadIoAdds
  <2>2. CASE total + n = 0
    <3>1. total \in 0..(iter * IoSize)
      BY <1>5 DEF ReadIo, TotalFits, Reading
    <3> HIDE DEF n
    <3>2. total = 0
      BY <1>r, <2>1, <2>2, <3>1
    <3> QED
      BY <1>5, <1>r, <2>1, <2>2, <3>2 DEF ReadIo, TotalFits, Reading, n
  <2>3. CASE total + n # 0
    <3>1. ReadContinues(total + n)
      BY <1>5, <2>1, <2>3 DEF ReadIo
    <3> HIDE DEF n
    <3> QED
      BY <2>1, <3>1, <1>4
  <2> QED
    BY <2>2, <2>3
<1>6. CASE ReadEnds
  BY <1>6, <1>q, <1>4, <1>r, ConstantsAssumption DEF ReadEnds
<1>7. CASE ReadInterrupted
  BY <1>7, <1>q DEF ReadInterrupted
<1>8. CASE CallStep /\ ~ReadChecks /\ ~ReadIo /\ ~ReadEnds /\ ~ReadInterrupted
  BY <1>8, <1>f, <1>n
  DEF CallStep, BeginSpawns, BeginSpawnFails, EndJoins, EndCloses, FinalizeJoins,
      FinalizeCloses, Join, Return, Reading, callVars
<1>9. ASSUME NEW s \in Sessions, WorkerStep(s) PROVE TotalFits'
  BY <1>9, <1>f
  DEF WorkerStep, WorkerGoesOn, WorkerForks, WorkerWaits, WorkerTimesOut,
      WorkerInterrupted, WaitpidInterrupted, WorkerKills, WorkerReaps, WorkerExits,
      callVars
<1>10. ASSUME NEW s \in Sessions, ChildStep(s) PROVE TotalFits'
  BY <1>10, <1>f, <1>q
  DEF ChildStep, ChildExecs, ChildExecFails, ChildOpens, ChildWrites, ChildExits,
      ChildStops, ChildContinues, ChildDies, Sigchld, SigchldToCaller, callVars
<1>11. CASE FifoVanishes \/ UNCHANGED vars
  BY <1>11, <1>f DEF FifoVanishes, vars, callVars
<1> QED
  BY <1>1, <1>2, <1>3, <1>5, <1>6, <1>7, <1>8, <1>9, <1>10, <1>11 DEF Next

\* TotalFits goes with the other two from the start.
LEMMA TotalHolds ==
  ASSUME BufferSize <= IntMax
  PROVE  Spec => [](TypeInv /\ ReadProgress /\ TotalFits)
<1>1. Init => TypeInv /\ ReadProgress /\ TotalFits
  BY InitTypeInv DEF Init, ReadProgress, TotalFits, Reading
<1>2. TypeInv /\ ReadProgress /\ TotalFits /\ [Next]_vars
      => (TypeInv /\ ReadProgress /\ TotalFits)'
  BY NextTypeInv, NextProgress, NextTotal
<1> QED
  BY <1>1, <1>2, PTL DEF Spec

\* cubrid_backup_read never asks read() for more than is left of the buffer of
\* the caller, for every io_size and every size of the buffer up to INT_MAX;
\* beyond it total_read_len wraps, and the offset of the next read is wrong.
THEOREM BufferHoldsRead ==
  ASSUME BufferSize <= IntMax
  PROVE  Spec => []BufferNotOverrun
<1>1. TypeInv /\ ReadProgress /\ TotalFits => BufferNotOverrun
  <2> SUFFICES ASSUME TypeInv, ReadProgress, TotalFits, pc = "read_io"
               PROVE  0 <= total /\ total + Request(iter) <= BufferSize
    BY DEF BufferNotOverrun
  <2>1. iter \in Nat /\ iter < Reads /\ total \in 0..(iter * IoSize)
    BY DEF TypeInv, TypeOK, CallTypeOK, ReadProgress, TotalFits, Reading
  <2>2. iter * IoSize + Request(iter) <= BufferSize /\ Request(iter) \in Nat
    BY <2>1, RequestFits, RequestIsNat
  <2>3. iter * IoSize \in Nat
    BY <2>1, ConstantsAssumption
  <2> QED
    BY <2>1, <2>2, <2>3, ConstantsAssumption
<1> QED
  BY <1>1, TotalHolds, PTL

-----------------------------------------------------------------------------
(* What holds whatever the program does, a second initialize included        *)

\* Every way out of a call gives the mutex back, and none before.
LEMMA NextMutex == MutexMatchesCall /\ [Next]_vars => MutexMatchesCall'
<1> SUFFICES ASSUME MutexMatchesCall, [Next]_vars PROVE MutexMatchesCall'
  OBVIOUS
<1> USE DEF MutexMatchesCall
<1>1. CASE Call
  BY <1>1
  DEF Call, InitializeSucceeds, InitializeFails, BeginFails, BeginOpens,
      ReadStarts, EndStarts, FinalizeRejected, FinalizeStarts, CancelOrClose,
      Gate, callVars, handleVars
<1>2. CASE BeginSpawns \/ BeginSpawnFails
  BY <1>2 DEF BeginSpawns, BeginSpawnFails, Return
<1>3. CASE ReadChecks \/ ReadIo \/ ReadEnds \/ ReadInterrupted
  BY <1>3
  DEF ReadChecks, ReadIo, ReadEnds, ReadInterrupted, ReadContinues, ReadReturns,
      ReadFails, ReadSucceeds
<1>4. CASE EndJoins \/ EndCloses \/ FinalizeJoins \/ FinalizeCloses
  BY <1>4
  DEF EndJoins, EndCloses, FinalizeJoins, FinalizeCloses, Join, Return, handleVars
<1>5. ASSUME NEW s \in Sessions, WorkerStep(s) PROVE MutexMatchesCall'
  BY <1>5
  DEF WorkerStep, WorkerGoesOn, WorkerForks, WorkerWaits, WorkerTimesOut,
      WorkerInterrupted, WaitpidInterrupted, WorkerKills, WorkerReaps, WorkerExits,
      handleVars, callVars
<1>6. ASSUME NEW s \in Sessions, ChildStep(s) PROVE MutexMatchesCall'
  BY <1>6
  DEF ChildStep, ChildExecs, ChildExecFails, ChildOpens, ChildWrites, ChildExits,
      ChildStops, ChildContinues, ChildDies, Sigchld, SigchldToCaller, ReadReturns,
      ReadFails, handleVars, callVars
<1>7. CASE FifoVanishes \/ UNCHANGED vars
  BY <1>7 DEF FifoVanishes, vars, handleVars, callVars
<1> QED
  BY <1>1, <1>2, <1>3, <1>4, <1>5, <1>6, <1>7 DEF Next, CallStep

\* Every path through a call releases backup_mutex, and none before its end,
\* with every hazard.
THEOREM MutexReleased == Spec => []MutexMatchesCall
<1>1. Init => MutexMatchesCall
  BY DEF Init, MutexMatchesCall
<1> QED
  BY <1>1, NextMutex, PTL DEF Spec

\* pthread_create is always called for a session that nothing was started for.
SpawnIsNew ==
  pc = "spawn" => fifo_fd = session /\ worker[session] = "none" /\ child[session] = "none"

\* A worker and its utility start in order and end in order.
OrphanInv == FreshSessions /\ SpawnIsNew /\ ReapsDead /\ ChildHasWorker

\* Every step keeps it.
LEMMA NextOrphan ==
  ASSUME NeverAbandoned
  PROVE  TypeInv /\ OrphanInv /\ [Next]_vars => OrphanInv'
<1> SUFFICES ASSUME TypeInv, OrphanInv, [Next]_vars PROVE OrphanInv'
  OBVIOUS
<1>d. ReapsDead /\ ReapsDead'
  BY NextReapsDead DEF TypeInv, OrphanInv
<1>t. /\ worker \in [Sessions -> WorkerStates] /\ child \in [Sessions -> ChildStates]
      /\ session \in 0..MaxSessions
      /\ pc = "spawn" => fifo_fd \in Sessions
  BY DEF TypeInv, TypeOK, ProcessTypeOK, FifoTypeOK, HasFd
<1> USE <1>d DEF OrphanInv, FreshSessions, SpawnIsNew, ChildHasWorker, Running, LiveChild
<1>1. CASE InitializeSucceeds \/ InitializeFails \/ ReadStarts \/ EndStarts
           \/ FinalizeRejected \/ FinalizeStarts
  BY <1>1
  DEF InitializeSucceeds, InitializeFails, ReadStarts, EndStarts, FinalizeRejected,
      FinalizeStarts, CancelOrClose, Gate, callVars, childVars, fifoVars
<1>2. CASE BeginFails
  BY <1>2, <1>t, ConstantsAssumption DEF BeginFails, Gate, childVars, Sessions
<1>3. CASE BeginOpens
  BY <1>3, <1>t, ConstantsAssumption DEF BeginOpens, Gate, childVars, Sessions
<1>4. CASE BeginSpawns
  BY <1>4, <1>t DEF BeginSpawns, Return, childVars, fifoVars
<1>5. CASE CallStep /\ ~BeginSpawns
  BY <1>5
  DEF CallStep, BeginSpawnFails, ReadChecks, ReadIo, ReadEnds, ReadInterrupted,
      ReadContinues, ReadReturns, ReadFails, ReadSucceeds, EndJoins, EndCloses,
      FinalizeJoins, FinalizeCloses, Join, Return, childVars, fifoVars
<1>6. ASSUME NEW s \in Sessions, WorkerStep(s) PROVE OrphanInv'
  <2>1. WaitpidInterrupted(s) => child[s] = "zombie"
    BY DEF WaitpidInterrupted, NeverAbandoned, ReapsDead
  <2> QED
    BY <1>6, <1>t, <2>1
    DEF WorkerStep, WorkerGoesOn, WorkerForks, WorkerWaits, WorkerTimesOut,
        WorkerInterrupted, WaitpidInterrupted, WorkerKills, WorkerReaps, WorkerExits,
        Advance, KillTargets, Verdict, jobVars, handleVars, callVars, childVars,
        fifoVars
<1>7. ASSUME NEW s \in Sessions, ChildStep(s) PROVE OrphanInv'
  BY <1>7, <1>t
  DEF ChildStep, ChildExecs, ChildExecFails, ChildOpens, ChildWrites, ChildExits,
      ChildStops, ChildContinues, ChildDies, Sigchld, SigchldToWorker,
      SigchldToCaller, ReadReturns, ReadFails, Becomes, jobVars, handleVars,
      callVars, fifoVars
<1>8. CASE FifoVanishes \/ UNCHANGED vars
  BY <1>8 DEF FifoVanishes, vars, handleVars, jobVars, callVars, childVars, fifoVars
<1> QED
  BY <1>1, <1>2, <1>3, <1>4, <1>5, <1>6, <1>7, <1>8 DEF Next, Call

\* A worker ends only after its utility is dead or told to die, also with a
\* second initialize, as long as a utility cannot be stopped and the waitpid for
\* it then be interrupted.
THEOREM NoOrphan ==
  ASSUME NeverAbandoned
  PROVE  Spec => []NoOrphanBackup
<1>1. Init => TypeInv /\ OrphanInv
  BY InitTypeInv, ConstantsAssumption
  DEF Init, OrphanInv, FreshSessions, SpawnIsNew, ReapsDead, ChildHasWorker,
      Running, LiveChild
<1>2. TypeInv /\ OrphanInv /\ [Next]_vars => (TypeInv /\ OrphanInv)'
  BY NextTypeInv, NextOrphan
<1>3. OrphanInv => NoOrphanBackup
  BY DEF OrphanInv, ChildHasWorker, NoOrphanBackup
<1> QED
  BY <1>1, <1>2, <1>3, PTL DEF Spec
=============================================================================
