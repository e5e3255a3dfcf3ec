------------------------ MODULE BackupProgressProofs -------------------------
(***************************************************************************)
(* Why the calls of the library that wait come back, for every number of   *)
(* sessions and every size: the part of CancelTerminates and               *)
(* ReadReturnsToCaller that needs no fairness.                             *)
(*                                                                         *)
(* Each wait has a number of steps left, which the steps under the         *)
(* fairness of FairSpec take down and which no other step puts up, and it  *)
(* is not stuck on something nobody is going to do.                        *)
(***************************************************************************)
EXTENDS BackupServiceProofs

-----------------------------------------------------------------------------
(* cubrid_backup_end and cubrid_backup_finalize: pthread_join *)

\* The most steps that a worker which is told to stop takes before it has exited:
\* fork, install the handler, wait, kill or reap, exit.
StepsLeft(s) ==
  CASE worker[s] = "fork"                      -> 5
    [] worker[s] = "enter"                     -> 4
    [] worker[s] = "sigwait"                   -> 3
    [] worker[s] \in {"reap", "kill"}          -> 2
    [] worker[s] \in {"exit_ok", "exit_error"} -> 1
    [] worker[s] \in {"none", "exited"}        -> 0

\* While the program waits in pthread_join every step of the worker brings it
\* nearer its end and no step takes it back: it does not go round its loop again.
JoinNears ==
  [][\A s \in Sessions : Joining /\ Alive(s) =>
       /\ StepsLeft(s)' <= StepsLeft(s)
       /\ WorkerStep(s) => StepsLeft(s)' < StepsLeft(s)]_vars

\* The thread that is joined was created and told to stop, and if it is in waitpid
\* its utility is dead already.
JoinNotStuck ==
  Joining =>
    /\ is_cancel
    /\ backup_thread \in Sessions
    /\ worker[backup_thread] # "none"
    /\ worker[backup_thread] = "reap" => child[backup_thread] = "zombie"

\* A call waits in pthread_join only after it has set is_cancel.
JoinCancels == Joining => is_cancel

\* Nothing resets is_cancel while a call waits.
LEMMA NextJoinCancels == JoinCancels /\ [Next]_vars => JoinCancels'
<1> SUFFICES ASSUME JoinCancels, [Next]_vars PROVE JoinCancels'
  OBVIOUS
<1> USE DEF JoinCancels, Joining
<1>1. CASE Call
  BY <1>1
  DEF Call, InitializeSucceeds, InitializeFails, BeginFails, BeginOpens, ReadStarts,
      EndStarts, FinalizeRejected, FinalizeStarts, CancelOrClose, Gate, callVars
<1>2. CASE CallStep
  BY <1>2
  DEF CallStep, BeginSpawns, BeginSpawnFails, ReadChecks, ReadIo, ReadEnds,
      ReadInterrupted, ReadContinues, ReadReturns, ReadFails, ReadSucceeds,
      EndJoins, EndCloses, FinalizeJoins, FinalizeCloses, Join, Return
<1>3. ASSUME NEW s \in Sessions, WorkerStep(s) PROVE JoinCancels'
  BY <1>3
  DEF WorkerStep, WorkerGoesOn, WorkerForks, WorkerWaits, WorkerTimesOut,
      WorkerInterrupted, WaitpidInterrupted, WorkerKills, WorkerReaps, WorkerExits,
      jobVars, handleVars, callVars
<1>4. ASSUME NEW s \in Sessions, ChildStep(s) PROVE JoinCancels'
  BY <1>4
  DEF ChildStep, ChildExecs, ChildExecFails, ChildOpens, ChildWrites, ChildExits,
      ChildStops, ChildContinues, ChildDies, Sigchld, SigchldToCaller, ReadReturns,
      ReadFails, jobVars, handleVars, callVars
<1>5. CASE FifoVanishes \/ UNCHANGED vars
  BY <1>5 DEF FifoVanishes, vars, jobVars, handleVars, callVars
<1> QED
  BY <1>1, <1>2, <1>3, <1>4, <1>5 DEF Next

\* The count is a number.
LEMMA StepsLeftIsNat ==
  ASSUME TypeOK, NEW s \in Sessions PROVE StepsLeft(s) \in Nat
  BY DEF TypeOK, ProcessTypeOK, WorkerStates, StepsLeft

\* A worker that finds is_cancel set after a timeout does not wait again.
LEMMA WorkerNears ==
  ASSUME TypeOK, is_cancel, NEW s \in Sessions, WorkerStep(s)
  PROVE  /\ StepsLeft(s)' < StepsLeft(s)
         /\ StepsLeft(s)' \in Nat
         /\ \A w \in Sessions \ {s} : worker'[w] = worker[w]
<1>t. worker \in [Sessions -> WorkerStates]
  BY DEF TypeOK, ProcessTypeOK
<1>a. ASSUME NEW to, Advance(s, to)
      PROVE  worker'[s] = to /\ \A w \in Sessions \ {s} : worker'[w] = worker[w]
  BY <1>a, <1>t DEF Advance
<1>1. CASE WorkerForks(s)
  BY <1>1, <1>a DEF WorkerForks, StepsLeft
<1>2. CASE WorkerWaits(s)
  BY <1>2, <1>a DEF WorkerWaits, StepsLeft
<1>3. CASE WorkerTimesOut(s)
  BY <1>3, <1>a DEF WorkerTimesOut, WaitGivesUp, StepsLeft
<1>4. CASE WorkerInterrupted(s)
  BY <1>4, <1>a DEF WorkerInterrupted, StepsLeft
<1>5. CASE WorkerKills(s)
  BY <1>5, <1>a DEF WorkerKills, StepsLeft
<1>6. CASE WorkerReaps(s)
  BY <1>6, <1>a DEF WorkerReaps, Verdict, StepsLeft
<1>7. CASE WorkerExits(s)
  BY <1>7, <1>a DEF WorkerExits, StepsLeft
<1>8. CASE WaitpidInterrupted(s)
  BY <1>8, <1>a DEF WaitpidInterrupted, StepsLeft
<1> QED
  BY <1>1, <1>2, <1>3, <1>4, <1>5, <1>6, <1>7, <1>8 DEF WorkerStep, WorkerGoesOn

\* A signal from the utility takes its worker out of sigtimedwait, into waitpid.
LEMMA SignalNears ==
  ASSUME TypeOK, NEW s \in Sessions, ChildStep(s), NEW w \in Sessions
  PROVE  worker'[w] = worker[w] \/ (worker[w] = "sigwait" /\ worker'[w] = "reap")
<1>t. worker \in [Sessions -> WorkerStates]
  BY DEF TypeOK, ProcessTypeOK
<1> QED
  BY <1>t
  DEF ChildStep, ChildExecs, ChildExecFails, ChildOpens, ChildWrites, ChildExits,
      ChildStops, ChildContinues, ChildDies, Sigchld, SigchldToWorker

\* While the program waits, each step of a worker is one of its last, and no other
\* step adds to them.
LEMMA StepNears ==
  ASSUME TypeOK, JoinCancels, Joining, [Next]_vars, NEW w \in Sessions, Alive(w)
  PROVE  /\ StepsLeft(w)' <= StepsLeft(w)
         /\ WorkerStep(w) => StepsLeft(w)' < StepsLeft(w)
<1>n. StepsLeft(w) \in Nat
  BY StepsLeftIsNat
<1>c. is_cancel
  BY DEF JoinCancels
<1>2. CASE WorkerStep(w)
  BY <1>2, <1>c, <1>n, WorkerNears
<1>3. CASE worker'[w] = worker[w] /\ ~WorkerStep(w)
  <2>1. StepsLeft(w)' = StepsLeft(w)
    BY <1>3 DEF StepsLeft
  <2> QED
    BY <1>3, <1>n, <2>1
<1>4. CASE worker[w] = "sigwait" /\ worker'[w] = "reap" /\ ~WorkerStep(w)
  BY <1>4 DEF StepsLeft
<1>5. worker'[w] = worker[w] \/ (worker[w] = "sigwait" /\ worker'[w] = "reap")
      \/ WorkerStep(w)
  <2>1. CASE Call \/ (CallStep /\ ~BeginSpawns)
    BY <2>1
    DEF Call, InitializeSucceeds, InitializeFails, BeginFails, BeginOpens, ReadStarts,
        EndStarts, FinalizeRejected, FinalizeStarts, CallStep, BeginSpawnFails,
        ReadChecks, ReadIo, ReadEnds, ReadInterrupted, EndJoins, EndCloses,
        FinalizeJoins, FinalizeCloses, Join
  <2>2. ~BeginSpawns
    BY DEF BeginSpawns, Joining
  <2>3. ASSUME NEW s \in Sessions, WorkerStep(s), s # w PROVE worker'[w] = worker[w]
    BY <2>3, <1>c, WorkerNears
  <2>4. ASSUME NEW s \in Sessions, ChildStep(s)
        PROVE  worker'[w] = worker[w] \/ (worker[w] = "sigwait" /\ worker'[w] = "reap")
    BY <2>4, SignalNears
  <2>5. CASE FifoVanishes \/ UNCHANGED vars
    BY <2>5 DEF FifoVanishes, vars
  <2> QED
    BY <2>1, <2>2, <2>3, <2>4, <2>5 DEF Next
<1> QED
  BY <1>2, <1>3, <1>4, <1>5

\* However the utility behaves, a worker that end or finalize waits for takes at most
\* five more steps, with every hazard.
THEOREM CancelNearsEnd == Spec => JoinNears
<1>1. Init => TypeInv /\ JoinCancels
  BY InitTypeInv DEF Init, JoinCancels, Joining
<1>2. TypeInv /\ JoinCancels /\ [Next]_vars => (TypeInv /\ JoinCancels)'
  BY NextTypeInv, NextJoinCancels DEF TypeInv
<1>3. TypeInv /\ JoinCancels /\ [Next]_vars
      => [\A s \in Sessions : Joining /\ Alive(s) =>
            /\ StepsLeft(s)' <= StepsLeft(s)
            /\ WorkerStep(s) => StepsLeft(s)' < StepsLeft(s)]_vars
  BY StepNears DEF TypeInv
<1> QED
  BY <1>1, <1>2, <1>3, PTL DEF Spec, JoinNears

-----------------------------------------------------------------------------
(* The join is not stuck *)

\* The thread that is joined was created.
JoinsWorker ==
  Joining => backup_thread \in Sessions /\ worker[backup_thread] # "none"

\* Once there is a thread to join it stays one that was created.
LEMMA NextJoinsWorker ==
  ASSUME IInv, JoinsWorker, [Next]_vars
  PROVE  JoinsWorker'
<1>t. worker \in [Sessions -> WorkerStates]
  BY DEF IInv, TypeOK, ProcessTypeOK
<1>m. \A s \in Sessions : worker[s] # "none" => worker'[s] # "none"
  <2>1. CASE Call \/ (CallStep /\ ~BeginSpawns)
    BY <2>1
    DEF Call, InitializeSucceeds, InitializeFails, BeginFails, BeginOpens, ReadStarts,
        EndStarts, FinalizeRejected, FinalizeStarts, CallStep, BeginSpawnFails,
        ReadChecks, ReadIo, ReadEnds, ReadInterrupted, EndJoins, EndCloses,
        FinalizeJoins, FinalizeCloses, Join
  <2>2. CASE BeginSpawns
    BY <2>2, <1>t DEF BeginSpawns
  <2>3. ASSUME NEW s \in Sessions, WorkerStep(s)
        PROVE  \A w \in Sessions : worker[w] # "none" => worker'[w] # "none"
    BY <2>3, <1>t
    DEF WorkerStep, WorkerGoesOn, WorkerForks, WorkerWaits, WorkerTimesOut,
        WorkerInterrupted, WaitpidInterrupted, WorkerKills, WorkerReaps,
        WorkerExits, Verdict, Advance
  <2>4. ASSUME NEW s \in Sessions, ChildStep(s)
        PROVE  \A w \in Sessions : worker[w] # "none" => worker'[w] # "none"
    BY <2>4, SignalNears DEF IInv
  <2>5. CASE FifoVanishes \/ UNCHANGED vars
    BY <2>5 DEF FifoVanishes, vars
  <2> QED
    BY <2>1, <2>2, <2>3, <2>4, <2>5 DEF Next
<1>k. Joining /\ UNCHANGED backup_thread => JoinsWorker'
  BY <1>m DEF JoinsWorker
<1>n. ~Joining' => JoinsWorker'
  BY DEF JoinsWorker
<1>1. CASE EndStarts \/ FinalizeStarts
  <2>1. CASE backup_thread_state = "RUNNING"
    <3>1. backup_thread \in Sessions /\ Alive(backup_thread)
      BY <1>1, <2>1 DEF IInv, RunningIsAlive, EndStarts, FinalizeStarts, Gate
    <3>2. worker[backup_thread] # "none"
      BY <3>1 DEF Alive, LiveWorker
    <3> QED
      BY <1>1, <1>m, <3>1, <3>2 DEF EndStarts, FinalizeStarts, JoinsWorker
  <2>2. CASE backup_thread_state # "RUNNING"
    BY <1>1, <1>n, <2>2 DEF EndStarts, FinalizeStarts, CancelOrClose, Joining
  <2> QED
    BY <2>1, <2>2
<1>2. CASE Call /\ ~EndStarts /\ ~FinalizeStarts
  BY <1>2, <1>n
  DEF Call, InitializeSucceeds, InitializeFails, BeginFails, BeginOpens, ReadStarts,
      FinalizeRejected, Gate, Joining, callVars
<1>3. CASE CallStep
  BY <1>3, <1>n
  DEF CallStep, BeginSpawns, BeginSpawnFails, ReadChecks, ReadIo, ReadEnds,
      ReadInterrupted, ReadContinues, ReadReturns, ReadFails, ReadSucceeds,
      EndJoins, EndCloses, FinalizeJoins, FinalizeCloses, Join, Return, Joining
<1>4. ASSUME NEW s \in Sessions, WorkerStep(s) PROVE JoinsWorker'
  BY <1>4, <1>k, <1>n
  DEF WorkerStep, WorkerGoesOn, WorkerForks, WorkerWaits, WorkerTimesOut,
      WorkerInterrupted, WaitpidInterrupted, WorkerKills, WorkerReaps, WorkerExits,
      Joining, handleVars, callVars
<1>5. ASSUME NEW s \in Sessions, ChildStep(s) PROVE JoinsWorker'
  BY <1>5, <1>k, <1>n
  DEF ChildStep, ChildExecs, ChildExecFails, ChildOpens, ChildWrites, ChildExits,
      ChildStops, ChildContinues, ChildDies, Sigchld, SigchldToCaller, ReadReturns,
      ReadFails, Joining, handleVars, callVars
<1>6. CASE FifoVanishes \/ UNCHANGED vars
  BY <1>6, <1>k, <1>n DEF FifoVanishes, vars, handleVars, callVars, Joining
<1> QED
  BY <1>1, <1>2, <1>3, <1>4, <1>5, <1>6 DEF Next

\* A join waits for a thread that was created and told to stop, and that thread waits
\* for nobody: not for a live utility, nor for the program. What a utility does
\* short of being stopped cannot keep cubrid_backup_end from returning.
THEOREM JoinIsNotStuck ==
  ASSUME "reinit" \notin Env, "stop" \notin Env
  PROVE  Spec => []JoinNotStuck
<1>1. Init => JoinCancels /\ JoinsWorker
  BY DEF Init, JoinCancels, JoinsWorker, Joining
<1>2. IInv /\ JoinCancels /\ JoinsWorker /\ [Next]_vars
      => (JoinCancels /\ JoinsWorker)'
  BY NextJoinCancels, NextJoinsWorker
<1>3. IInv /\ JoinCancels /\ JoinsWorker => JoinNotStuck
  BY DEF IInv, JoinCancels, ReapsDead, JoinsWorker, JoinNotStuck
<1> QED
  BY <1>1, <1>2, <1>3, InvHolds, PTL DEF Spec

-----------------------------------------------------------------------------
(* cubrid_backup_read: the loop of read_data *)

\* Where the loop of read_data is in one round.
Stage ==
  CASE pc = "read_check" -> 0
    [] pc = "read_io"    -> 1
    [] pc = "read_end"   -> 2

\* The most steps a read has left: three a round.
ReadLeft == IF Reading THEN 3 * (Reads - iter) - Stage ELSE 0

\* A read never repeats a round: each step of the call brings it nearer its return,
\* and no step of the worker or the utility takes it back.
ReadNears ==
  [][Reading => /\ ReadLeft' <= ReadLeft
                /\ CallStep => ReadLeft' < ReadLeft]_vars

\* A read in progress has steps left.
LEMMA ReadLeftIsPositive ==
  ASSUME TypeInv, ReadProgress, Reading
  PROVE  iter \in Nat /\ Reads \in Nat /\ iter < Reads /\ Stage \in 0..2
         /\ ReadLeft = 3 * (Reads - iter) - Stage /\ ReadLeft \in Nat \ {0}
<1>1. iter \in Nat /\ Reads \in Nat /\ iter < Reads
  BY BufferIsSplit DEF TypeInv, TypeOK, CallTypeOK, ReadProgress, Reads
<1>2. Stage \in 0..2
  BY DEF Reading, Stage
<1> QED
  BY <1>1, <1>2 DEF ReadLeft

\* Going on is the next round, or the return.
LEMMA ContinueNears ==
  ASSUME TypeInv, ReadProgress, Reading, NEW n, ReadContinues(n)
  PROVE  ReadLeft' < ReadLeft
<1>1. CASE ReadSucceeds
  BY <1>1, ReadLeftIsPositive DEF ReadSucceeds, ReadReturns, ReadLeft, Reading
<1>2. CASE iter' = iter + 1 /\ pc' = "read_check"
  <2>1. ReadLeft' = 3 * (Reads - (iter + 1))
    <3>1. Reading' /\ Stage' = 0 /\ Reads' = Reads
      BY <1>2 DEF Reading, Stage, Reads, FullReads, Remainder
    <3> QED
      BY <1>2, <3>1, ReadLeftIsPositive DEF ReadLeft
  <2> QED
    BY <2>1, ReadLeftIsPositive
<1> QED
  BY <1>1, <1>2 DEF ReadContinues

\* Each step of a call that reads leaves it fewer, and others no more.
LEMMA StepReads ==
  ASSUME TypeInv, ReadProgress, Reading, [Next]_vars
  PROVE  ReadLeft' <= ReadLeft /\ (CallStep => ReadLeft' < ReadLeft)
<1>p. iter \in Nat /\ Reads \in Nat /\ iter < Reads /\ Stage \in 0..2
      /\ ReadLeft = 3 * (Reads - iter) - Stage /\ ReadLeft \in Nat \ {0}
  BY ReadLeftIsPositive
<1>r. ReadReturns \/ ReadSucceeds \/ ReadFails => ReadLeft' < ReadLeft
  BY <1>p DEF ReadReturns, ReadSucceeds, ReadFails, ReadLeft, Reading
<1>u. UNCHANGED <<pc, iter>> => ReadLeft' = ReadLeft
  BY DEF ReadLeft, Reading, Stage, Reads, FullReads, Remainder
<1>s. ASSUME iter' = iter, \/ pc = "read_check" /\ pc' = "read_io"
                           \/ pc = "read_io" /\ pc' = "read_end"
      PROVE  ReadLeft' < ReadLeft
  <2>1. Reading' /\ Stage' = Stage + 1 /\ Reads' = Reads
    BY <1>s DEF Reading, Stage, Reads, FullReads, Remainder
  <2> QED
    BY <1>s, <1>p, <2>1 DEF ReadLeft
<1>0. ReadLeft' \in Int
  <2>1. iter' \in Nat /\ Reads' = Reads /\ (Reading' => Stage' \in 0..2)
    BY NextTypeInv
    DEF TypeInv, TypeOK, CallTypeOK, Reading, Stage, Reads, FullReads, Remainder
  <2> QED
    BY <1>p, <2>1 DEF ReadLeft
<1>1. ASSUME CallStep PROVE ReadLeft' < ReadLeft
  <2>1. CASE ReadChecks
    BY <2>1, <1>r, <1>s DEF ReadChecks
  <2>2. CASE ReadIo
    BY <2>2, <1>s, ContinueNears DEF ReadIo
  <2>3. CASE ReadEnds
    BY <2>3, <1>r, ContinueNears DEF ReadEnds
  <2>4. CASE ReadInterrupted
    BY <2>4, <1>r DEF ReadInterrupted
  <2> QED
    BY <1>1, <2>1, <2>2, <2>3, <2>4
    DEF CallStep, BeginSpawns, BeginSpawnFails, EndJoins, EndCloses, FinalizeJoins,
        FinalizeCloses, Join, Reading
<1>2. CASE ~CallStep
  <2>1. UNCHANGED <<pc, iter>> \/ ReadFails
    <3>1. ~Call
      BY DEF Call, InitializeSucceeds, InitializeFails, BeginFails, BeginOpens,
             ReadStarts, EndStarts, FinalizeRejected, FinalizeStarts, Gate, Reading
    <3>2. ASSUME NEW s \in Sessions, WorkerStep(s) PROVE UNCHANGED <<pc, iter>>
      BY <3>2
      DEF WorkerStep, WorkerGoesOn, WorkerForks, WorkerWaits, WorkerTimesOut,
          WorkerInterrupted, WaitpidInterrupted, WorkerKills, WorkerReaps,
          WorkerExits, callVars
    <3>3. ASSUME NEW s \in Sessions, ChildStep(s)
          PROVE  UNCHANGED <<pc, iter>> \/ ReadFails
      BY <3>3
      DEF ChildStep, ChildExecs, ChildExecFails, ChildOpens, ChildWrites,
          ChildExits, ChildStops, ChildContinues, ChildDies, Sigchld,
          SigchldToCaller, callVars
    <3> QED
      BY <1>2, <3>1, <3>2, <3>3 DEF Next, FifoVanishes, vars, callVars
  <2> QED
    BY <1>2, <2>1, <1>r, <1>u, <1>0, <1>p
<1> QED
  BY <1>0, <1>1, <1>2, <1>p

\* Whatever worker and utility do, a read returns within three steps for each read()
\* its buffer divides into, with every hazard: it retries nothing.
THEOREM ReadNearsReturn == Spec => ReadNears
<1>1. Init => TypeInv /\ ReadProgress
  BY InitTypeInv DEF Init, ReadProgress, Reading
<1>2. TypeInv /\ ReadProgress /\ [Next]_vars => (TypeInv /\ ReadProgress)'
  BY NextTypeInv, NextProgress
<1>3. TypeInv /\ ReadProgress /\ [Next]_vars
      => [Reading => /\ ReadLeft' <= ReadLeft
                     /\ CallStep => ReadLeft' < ReadLeft]_vars
  BY StepReads
<1> QED
  BY <1>1, <1>2, <1>3, PTL DEF Spec, ReadNears
==============================================================================
