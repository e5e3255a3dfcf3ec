------------------------- MODULE BackupStreamProofs --------------------------
(***************************************************************************)
(* BackupService implements BackupStream, for every number of sessions and *)
(* every size of a backup, pipe and io_size, and every buffer size that a  *)
(* C int can count.                                                        *)
(*                                                                         *)
(* What the program must not do, and what must not happen, is in the       *)
(* theorem: a second initialize forgets a running backup, an EINTR is      *)
(* taken for a cancellation, and a child whose execv fails exits with 0.   *)
(***************************************************************************)
EXTENDS BackupServiceProofs

\* The invariant a step is mapped under.
StreamInv ==
  /\ IInv /\ HasFd
  /\ ExitMeansZero
  /\ ReadProgress /\ TotalFits
  /\ FilledByOwn

\* The units in the hands of the read in progress, session by session.
Hand == [s \in Sessions |-> InHand(s)]

-----------------------------------------------------------------------------
(* Where the data goes *)

\* A read returns before another descriptor takes the place of its own.
LEMMA HandFrame ==
  ASSUME ReadProgress, total' = total, fifo_fd' = fifo_fd \/ ~Reading
  PROVE  Hand' = Hand
<1>1. CASE fifo_fd' = fifo_fd
  BY <1>1 DEF Hand, InHand
<1>2. CASE ~Reading
  <2>1. total = 0
    BY <1>2 DEF ReadProgress
  <2> QED
    BY <2>1 DEF Hand, InHand
<1> QED
  BY <1>1, <1>2

\* A step that does not read, write or fail moves no data.
LEMMA DataStep ==
  ASSUME ReadProgress, TotalFits, [Next]_vars
  PROVE  \/ UNCHANGED <<fifo, written, lost, Hand>>
         \/ ReadIo
         \/ ReadFails /\ UNCHANGED <<fifo, written>>
         \/ \E s \in Sessions : ChildWrites(s)
<1>q. ASSUME UNCHANGED <<fifo, written, lost, total>>,
             fifo_fd' = fifo_fd \/ ~Reading
      PROVE  UNCHANGED <<fifo, written, lost, Hand>>
  BY <1>q, HandFrame
<1> USE DEF jobVars, handleVars, fifoVars, childVars, callVars, Return
<1>1. CASE Call
  BY <1>1, <1>q
  DEF Call, InitializeSucceeds, InitializeFails, BeginFails, BeginOpens, ReadStarts,
      EndStarts, FinalizeRejected, FinalizeStarts, CancelOrClose, Gate, Reading
<1>2. CASE ReadChecks \/ ReadInterrupted
  BY <1>2, <1>q DEF ReadChecks, ReadInterrupted
<1>3. CASE ReadEnds
  <2>1. total = 0
    BY <1>3 DEF ReadEnds, TotalFits
  <2> QED
    BY <1>3, <1>q, <2>1 DEF ReadEnds, ReadContinues, ReadSucceeds, ReadReturns
<1>4. CASE CallStep /\ ~ReadIo /\ ~ReadChecks /\ ~ReadInterrupted /\ ~ReadEnds
  BY <1>4, <1>q
  DEF CallStep, BeginSpawns, BeginSpawnFails, EndJoins, EndCloses, FinalizeJoins,
      FinalizeCloses, Join, Reading
<1>5. ASSUME NEW s \in Sessions, WorkerStep(s)
      PROVE  UNCHANGED <<fifo, written, lost, Hand>>
  BY <1>5, <1>q
  DEF WorkerStep, WorkerGoesOn, WorkerForks, WorkerWaits, WorkerTimesOut,
      WorkerInterrupted, WaitpidInterrupted, WorkerKills, WorkerReaps, WorkerExits
<1>6. ASSUME NEW s \in Sessions, ChildStep(s), ~ChildWrites(s)
      PROVE  \/ UNCHANGED <<fifo, written, lost, Hand>>
             \/ ReadFails /\ UNCHANGED <<fifo, written>>
  BY <1>6, <1>q
  DEF ChildStep, ChildExecs, ChildExecFails, ChildOpens, ChildExits, ChildStops,
      ChildContinues, ChildDies, Sigchld, SigchldToCaller
<1>7. CASE FifoVanishes \/ UNCHANGED vars
  BY <1>7, <1>q DEF FifoVanishes, vars
<1> QED
  BY <1>1, <1>2, <1>3, <1>4, <1>5, <1>6, <1>7 DEF Next, CallStep

\* FIFOs are empty and utilities are not there when the library is loaded.
LEMMA FilledInit == Init => FilledByOwn
  BY ConstantsAssumption DEF Init, FilledByOwn, InHand

\* The numbers of FilledByOwn are numbers.
LEMMA DataTypes ==
  ASSUME TypeOK, FilledByOwn
  PROVE  \A s \in Sessions : /\ fifo[s] \in Nat /\ written[s] \in 0..Units
                             /\ lost[s] \in Nat /\ InHand(s) \in Nat
                             /\ fifo[s] + lost[s] + InHand(s) <= written[s]
  BY ConstantsAssumption DEF TypeOK, FifoTypeOK, ProcessTypeOK, FilledByOwn

\* What a read does to the FIFO and the hands of its session.
LEMMA ReadMoves ==
  ASSUME BufferSize <= IntMax, StreamInv, ReadIo
  PROVE  /\ fifo_fd = session /\ session \in Sessions
         /\ \E n \in 0..fifo[session] :
              /\ fifo' = [fifo EXCEPT ![session] = fifo[session] - n]
              /\ UNCHANGED <<session, written, status, ended, lost, fifo_fd>>
              /\ total \in Nat
              /\ total' = total + n \/ total' = 0
<1>1. fifo_fd = session /\ session \in Sessions
  BY DEF StreamInv, IInv, FdIsLatest, ReadIo, HasFd
<1>2. PICK n : n = ReadSize(fifo[fifo_fd])
  OBVIOUS
<1>3. n \in 0..fifo[session]
  BY <1>1, <1>2, DataTypes, ReadSizeBounded DEF StreamInv, IInv, TypeOK, CallTypeOK
<1>4. ToInt(total + n) = total + n
  BY <1>2, ReadIoAdds DEF StreamInv, IInv, TypeInv
<1>5. total \in Nat
  BY <1>1, DataTypes DEF StreamInv, IInv, InHand
<1>6. /\ fifo' = [fifo EXCEPT ![session] = fifo[session] - n]
      /\ UNCHANGED <<session, written, status, ended, lost, fifo_fd>>
      /\ total' \in {total, total + n, 0}
  BY <1>1, <1>2, <1>4
  DEF ReadIo, ReadContinues, ReadSucceeds, ReadReturns, childVars, jobVars
<1>7. total' = total + n \/ total' = 0
  BY <1>1, <1>2, <1>3, <1>4, <1>5, DataTypes
  DEF ReadIo, ReadContinues, ReadSucceeds, ReadReturns, StreamInv, IInv
<1> QED
  BY <1>1, <1>3, <1>5, <1>6, <1>7

\* Data that a read takes, keeps or loses was there.
LEMMA FilledData ==
  ASSUME BufferSize <= IntMax, StreamInv, [Next]_vars,
         \A s \in Sessions : ChildWrites(s) => out[s] = s
  PROVE  \A s \in Sessions : /\ lost'[s] \in Nat /\ InHand(s)' \in Nat
                             /\ fifo'[s] + lost'[s] + InHand(s)' <= written'[s]
<1>t. /\ fifo \in [Sessions -> 0..PipeCapacity]
      /\ written \in [Sessions -> 0..Units]
      /\ lost \in [Sessions -> Int]
  BY DEF StreamInv, IInv, TypeOK, FifoTypeOK, ProcessTypeOK, CallTypeOK
<1>a. \A s \in Sessions : /\ fifo[s] \in Nat /\ written[s] \in 0..Units
                          /\ lost[s] \in Nat /\ InHand(s) \in Nat
                          /\ fifo[s] + lost[s] + InHand(s) <= written[s]
  BY DataTypes DEF StreamInv, IInv
<1>1. CASE UNCHANGED <<fifo, written, lost, Hand>>
  <2>1. \A s \in Sessions : InHand(s)' = InHand(s)
    BY <1>1 DEF Hand
  <2> QED
    BY <1>1, <1>a, <2>1
<1>2. CASE ReadIo
  <2>1. /\ fifo_fd = session /\ session \in Sessions
    BY <1>2, ReadMoves
  <2>2. PICK n \in 0..fifo[session] :
              /\ fifo' = [fifo EXCEPT ![session] = fifo[session] - n]
              /\ UNCHANGED <<session, written, status, ended, lost, fifo_fd>>
              /\ total \in Nat
              /\ total' = total + n \/ total' = 0
    BY <1>2, ReadMoves
  <2>3. fifo'[session] = fifo[session] - n
        /\ \A s \in Sessions \ {session} : fifo'[s] = fifo[s]
    BY <1>t, <2>1, <2>2
  <2>4. InHand(session) = total /\ InHand(session)' = total'
        /\ \A s \in Sessions \ {session} : InHand(s)' = InHand(s)
    BY <2>1, <2>2 DEF InHand
  <2> QED
    BY <1>a, <2>1, <2>2, <2>3, <2>4
<1>3. CASE ReadFails /\ UNCHANGED <<fifo, written>>
  <2>1. \A s \in Sessions : InHand(s)' = 0
    BY <1>3 DEF ReadFails, ReadReturns, InHand
  <2>2. \A s \in Sessions : lost'[s] = lost[s] + InHand(s)
    BY <1>3, <1>t, <1>a DEF ReadFails, InHand
  <2> QED
    BY <1>3, <1>a, <2>1, <2>2
<1>4. ASSUME NEW w \in Sessions, ChildWrites(w)
      PROVE  \A s \in Sessions : /\ lost'[s] \in Nat /\ InHand(s)' \in Nat
                                 /\ fifo'[s] + lost'[s] + InHand(s)' <= written'[s]
  <2>1. out[w] = w
    BY <1>4
  <2>2. /\ fifo'[w] = fifo[w] + 1 /\ written'[w] = written[w] + 1
        /\ \A s \in Sessions \ {w} : fifo'[s] = fifo[s] /\ written'[s] = written[s]
    BY <1>4, <1>t, <2>1 DEF ChildWrites
  <2>3. \A s \in Sessions : InHand(s)' = InHand(s) /\ lost'[s] = lost[s]
    BY <1>4 DEF ChildWrites, InHand, callVars, handleVars, jobVars
  <2> QED
    BY <1>a, <2>2, <2>3
<1> QED
  BY <1>1, <1>2, <1>3, <1>4, DataStep DEF StreamInv

\* A utility opens the FIFO of its own session, and adds to no other.
LEMMA FilledStep ==
  ASSUME "reinit" \notin Env, "eintr" \notin Env, BufferSize <= IntMax
  PROVE  StreamInv /\ [Next]_vars => FilledByOwn'
<1> SUFFICES ASSUME StreamInv, [Next]_vars PROVE FilledByOwn'
  OBVIOUS
<1>t. ProcessTypeOK /\ FifoTypeOK
  BY DEF StreamInv, IInv, TypeOK
<1>o. \A s \in Sessions : out[s] \in {None, s} /\ (child[s] = "writing" => out[s] = s)
  BY DEF StreamInv, FilledByOwn
<1>d. \A s \in Sessions : /\ lost'[s] \in Nat /\ InHand(s)' \in Nat
                          /\ fifo'[s] + lost'[s] + InHand(s)' <= written'[s]
  BY <1>o, FilledData DEF ChildWrites
<1> SUFFICES \A s \in Sessions :
               out'[s] \in {None, s} /\ (child'[s] = "writing" => out'[s] = s)
  BY <1>d DEF FilledByOwn
<1>1. CASE Call
  BY <1>1, <1>o
  DEF Call, InitializeSucceeds, InitializeFails, BeginFails, BeginOpens, ReadStarts,
      EndStarts, FinalizeRejected, FinalizeStarts, childVars
<1>2. CASE CallStep
  BY <1>2, <1>o
  DEF CallStep, BeginSpawns, BeginSpawnFails, ReadChecks, ReadIo, ReadEnds,
      ReadInterrupted, EndJoins, EndCloses, FinalizeJoins, FinalizeCloses, Join,
      childVars
<1>3. ASSUME NEW s \in Sessions, WorkerStep(s)
      PROVE  /\ UNCHANGED out
             /\ \A t \in Sessions : child'[t] = "writing" => child[t] = "writing"
  BY <1>3, <1>t
  DEF WorkerStep, WorkerGoesOn, WorkerForks, WorkerWaits, WorkerTimesOut,
      WorkerInterrupted, WaitpidInterrupted, WorkerKills, WorkerReaps, WorkerExits,
      childVars, ProcessTypeOK
<1>4. ASSUME NEW s \in Sessions, ChildOpens(s)
      PROVE  \A t \in Sessions : out'[t] \in {None, t} /\ (child'[t] = "writing" => out'[t] = t)
  <2>1. OwnFifo'
    BY NextInv DEF StreamInv, IInv, NeverAbandoned
  <2>2. out'[s] = s
    BY <1>4, <1>t, <2>1 DEF ChildOpens, OwnFifo, FifoTypeOK, ProcessTypeOK, Sessions
  <2> QED
    BY <1>4, <1>o, <1>t, <2>2 DEF ChildOpens, Becomes, ProcessTypeOK
<1>5. ASSUME NEW s \in Sessions, ChildStep(s), ~ChildOpens(s)
      PROVE  \A t \in Sessions : out'[t] \in {None, t} /\ (child'[t] = "writing" => out'[t] = t)
  BY <1>5, <1>t, <1>o
  DEF ChildStep, ChildExecs, ChildExecFails, ChildWrites, ChildExits, ChildStops,
      ChildContinues, ChildDies, Becomes, ProcessTypeOK
<1>6. CASE FifoVanishes \/ UNCHANGED vars
  BY <1>6, <1>o DEF FifoVanishes, vars, childVars
<1> QED
  BY <1>1, <1>2, <1>3, <1>4, <1>5, <1>6, <1>o DEF Next

-----------------------------------------------------------------------------
(* The refinement *)

\* The steps in which BackupStream sees more than data moving: a FIFO is made, a
\* utility exits, the program is told that the backup is complete.
Visible ==
  \/ BeginFails \/ BeginOpens \/ ReadEnds
  \/ \E s \in Sessions : ChildDies(s) \/ \E st \in ExitStatus : ChildExits(s, st)

\* All other steps leave those three alone, if no execv fails.
LEMMA Stutters ==
  ASSUME "exec_fail" \notin Env, [Next]_vars, ~Visible
  PROVE  UNCHANGED <<session, status, ended>>
<1> USE DEF fifoVars, childVars, callVars, Return
<1>1. CASE Call
  BY <1>1
  DEF Call, Visible, InitializeSucceeds, InitializeFails, ReadStarts, EndStarts,
      FinalizeRejected, FinalizeStarts
<1>2. CASE CallStep
  BY <1>2
  DEF CallStep, Visible, BeginSpawns, BeginSpawnFails, ReadChecks, ReadInterrupted,
      ReadIo, EndJoins, EndCloses, FinalizeJoins, FinalizeCloses, Join
<1>3. ASSUME NEW s \in Sessions, WorkerStep(s) PROVE UNCHANGED <<session, status, ended>>
  BY <1>3
  DEF WorkerStep, WorkerGoesOn, WorkerForks, WorkerWaits, WorkerTimesOut,
      WorkerInterrupted, WaitpidInterrupted, WorkerKills, WorkerReaps, WorkerExits
<1>4. ASSUME NEW s \in Sessions, ChildStep(s) PROVE UNCHANGED <<session, status, ended>>
  BY <1>4
  DEF ChildStep, Visible, ChildExecs, ChildExecFails, ChildOpens, ChildWrites,
      ChildStops, ChildContinues
<1>5. CASE FifoVanishes \/ UNCHANGED vars
  BY <1>5 DEF FifoVanishes, vars
<1> QED
  BY <1>1, <1>2, <1>3, <1>4, <1>5 DEF Next

\* The initial states are initial states of BackupStream.
LEMMA StreamInit == Init => Stream!Init
  BY DEF Init, InHand, Stream!Init

\* What BackupStream calls delivered and finished.
Delivered == [s \in Sessions |-> written[s] - fifo[s] - lost[s] - InHand(s)]
Finished == {s \in Sessions : status[s] = "zero"}

\* A step of a utility that exits by itself fails no read: its worker is there.
LEMMA ExitIsQuiet ==
  ASSUME "eintr" \notin Env, StreamInv, NEW s \in Sessions, NEW st \in ExitStatus,
         ChildExits(s, st)
  PROVE  UNCHANGED <<fifo, written, lost, Hand>>
<1>1. worker[s] # "exited"
  BY DEF ChildExits, StreamInv, IInv, ChildHasWorker, NeverAbandoned, Running, LiveChild
<1>2. UNCHANGED <<fifo, written, lost, total, fifo_fd>>
  BY <1>1 DEF ChildExits, Sigchld, SigchldToCaller, fifoVars, jobVars
<1> QED
  BY <1>2, HandFrame DEF StreamInv

\* A read that fails loses what it has in its hands.
LEMMA FailLoses ==
  ASSUME StreamInv, ReadFails, pc = "read_io" \/ pc = "read_check",
         UNCHANGED <<fifo, written, session, ended>>, Finished' = Finished
  PROVE  [Stream!Next]_Stream!vars
<1>1. fifo_fd = session /\ session \in Sessions
  BY DEF StreamInv, IInv, FdIsLatest, HasFd
<1>a. \A s \in Sessions : /\ fifo[s] \in Nat /\ written[s] \in 0..Units
                          /\ lost[s] \in Nat /\ InHand(s) \in Nat
                          /\ fifo[s] + lost[s] + InHand(s) <= written[s]
  BY DataTypes DEF StreamInv, IInv
<1>2. \A s \in Sessions : InHand(s)' = 0
  BY DEF ReadFails, ReadReturns, InHand
<1>3. total \in Nat /\ InHand(session) = total
      /\ \A s \in Sessions \ {session} : InHand(s) = 0
  BY <1>1, <1>a DEF InHand
<1>4. lost' = [lost EXCEPT ![session] = @ + total] /\ lost \in [Sessions -> Int]
  BY <1>1 DEF ReadFails, StreamInv, IInv, TypeOK, CallTypeOK
<1>5. Delivered' = Delivered
  BY <1>1, <1>2, <1>3, <1>4, <1>a DEF Delivered
<1>6. CASE total = 0
  <2>1. lost' = lost
    BY <1>1, <1>4, <1>6, <1>a
  <2> QED
    BY <1>5, <2>1 DEF Stream!vars, Delivered, Finished
<1>7. CASE total # 0
  <2>1. total \in 1..Units
    BY <1>1, <1>3, <1>7, <1>a, ConstantsAssumption
  <2>2. Delivered[session] + lost[session] + total <= written[session]
    BY <1>1, <1>3, <1>a DEF Delivered
  <2>3. Stream!Lose(total)
    BY <1>4, <1>5, <2>2 DEF Stream!Lose, Stream!Available, Delivered, Finished
  <2> QED
    BY <1>1, <2>1, <2>3 DEF Stream!Next
<1> QED
  BY <1>6, <1>7

\* A read that returns SUCCESS hands out what it has; others keep it.
LEMMA ReadDelivers ==
  ASSUME BufferSize <= IntMax, StreamInv, ReadIo
  PROVE  [Stream!Next]_Stream!vars
<1>1. /\ fifo_fd = session /\ session \in Sessions
  BY ReadMoves
<1>2. PICK n \in 0..fifo[session] :
            /\ fifo' = [fifo EXCEPT ![session] = fifo[session] - n]
            /\ UNCHANGED <<session, written, status, ended, lost, fifo_fd>>
            /\ total \in Nat
            /\ total' = total + n \/ total' = 0
  BY ReadMoves
<1>a. \A s \in Sessions : /\ fifo[s] \in Nat /\ written[s] \in 0..Units
                          /\ lost[s] \in Nat /\ InHand(s) \in Nat
                          /\ fifo[s] + lost[s] + InHand(s) <= written[s]
  BY DataTypes DEF StreamInv, IInv
<1>3. fifo'[session] = fifo[session] - n
      /\ \A s \in Sessions \ {session} : fifo'[s] = fifo[s]
  BY <1>1, <1>2 DEF StreamInv, IInv, TypeOK, FifoTypeOK
<1>4. InHand(session) = total /\ InHand(session)' = total'
      /\ \A s \in Sessions \ {session} : InHand(s)' = InHand(s)
  BY <1>1, <1>2 DEF InHand
<1>5. CASE total' = total + n
  <2>1. Delivered' = Delivered
    BY <1>1, <1>2, <1>3, <1>4, <1>5, <1>a DEF Delivered
  <2> QED
    BY <1>2, <2>1 DEF Stream!vars, Delivered
<1>6. CASE total' = 0 /\ total + n # 0
  <2>m. PICK m : m = total + n
    OBVIOUS
  <2>1. m \in 1..Units
    BY <1>1, <1>2, <1>4, <1>6, <1>a, <2>m, ConstantsAssumption
  <2>2. Delivered[session] + lost[session] + m <= written[session]
    BY <1>1, <1>2, <1>4, <1>a, <2>m DEF Delivered
  <2>3. Delivered' = [Delivered EXCEPT ![session] = @ + m]
    <3>1. Delivered' = [s \in Sessions |-> IF s = session
                                           THEN Delivered[s] + m
                                           ELSE Delivered[s]]
      <4>1. ASSUME NEW s \in Sessions
            PROVE  Delivered'[s] = written[s] - fifo'[s] - lost[s] - 0
        BY <1>1, <1>2, <1>6 DEF Delivered, InHand
      <4>2. ASSUME NEW s \in Sessions
            PROVE  Delivered[s] = written[s] - fifo[s] - lost[s]
                                  - (IF s = session THEN total ELSE 0)
        BY <1>1 DEF Delivered, InHand
      <4>3. ASSUME NEW s \in Sessions
            PROVE  Delivered'[s] = IF s = session THEN Delivered[s] + m ELSE Delivered[s]
        BY <1>1, <1>2, <1>3, <1>a, <2>m, <4>1, <4>2
      <4> QED
        BY <4>3 DEF Delivered
    <3> QED
      BY <1>1, <3>1 DEF Delivered
  <2>4. Stream!Deliver(m)
    BY <1>2, <2>2, <2>3 DEF Stream!Deliver, Stream!Available, Delivered
  <2> QED
    BY <1>1, <2>1, <2>4 DEF Stream!Next
<1> QED
  BY <1>2, <1>5, <1>6

\* A step is a step of BackupStream or a stutter.
LEMMA StreamStep ==
  ASSUME "eintr" \notin Env, "exec_fail" \notin Env, BufferSize <= IntMax
  PROVE  StreamInv /\ ExitMeansZero' /\ [Next]_vars => [Stream!Next]_Stream!vars
<1> SUFFICES ASSUME StreamInv, ExitMeansZero', [Next]_vars
             PROVE  [Stream!Next]_Stream!vars
  OBVIOUS
<1>t. /\ ProcessTypeOK /\ FifoTypeOK /\ StatusOfDead /\ FilledByOwn
      /\ ReadProgress /\ TotalFits
  BY DEF StreamInv, IInv, TypeOK
<1>q. UNCHANGED <<fifo, written, lost, Hand>>
      => UNCHANGED <<written, lost, Delivered>>
  <2>1. Hand' = Hand => \A s \in Sessions : InHand(s)' = InHand(s)
    BY DEF Hand
  <2> QED
    BY <2>1 DEF Delivered
<1>1. CASE ReadIo
  BY <1>1, ReadDelivers
<1>2. CASE BeginFails \/ BeginOpens
  <2>1. UNCHANGED <<fifo, written, lost, total, status>> /\ ended' = FALSE /\ ~Reading
    BY <1>2 DEF BeginFails, BeginOpens, Gate, Reading, childVars
  <2>2. session' \in {session, session + 1}
    BY <1>2 DEF BeginFails, BeginOpens
  <2>3. UNCHANGED <<written, lost, Delivered>>
    BY <1>t, <1>q, <2>1, HandFrame
  <2>4. Stream!Begin
    BY <2>1, <2>2, <2>3 DEF Stream!Begin, Delivered
  <2> QED
    BY <2>4 DEF Stream!Next
<1>3. CASE ReadEnds
  <2>1. UNCHANGED <<session, fifo, written, status, lost, total, fifo_fd>>
        /\ ended' \in {TRUE, ended}
    BY <1>3, <1>t
    DEF ReadEnds, ReadContinues, ReadSucceeds, ReadReturns, TotalFits, fifoVars,
        childVars, jobVars
  <2>2. UNCHANGED <<written, lost, Delivered>>
    BY <1>t, <1>q, <2>1, HandFrame
  <2>3. CASE ended' = TRUE
    <3>1. session \in Finished
      BY <2>1, <2>3 DEF ExitMeansZero, EndMeansExitZero, Finished
    <3>2. Stream!Report
      BY <2>1, <2>2, <2>3, <3>1 DEF Stream!Report, Delivered, Finished
    <3> QED
      BY <3>2 DEF Stream!Next
  <2>4. CASE ended' = ended
    BY <2>1, <2>2, <2>4 DEF Stream!vars, Delivered
  <2> QED
    BY <2>1, <2>3, <2>4
<1>4. ASSUME NEW s \in Sessions, ChildWrites(s) PROVE [Stream!Next]_Stream!vars
  <2>1. out[s] = s
    BY <1>4, <1>t DEF ChildWrites, FilledByOwn
  <2>2. /\ written[s] < Units
        /\ written' = [written EXCEPT ![s] = @ + 1]
        /\ fifo' = [fifo EXCEPT ![s] = @ + 1]
        /\ UNCHANGED <<session, status, ended, lost, total, fifo_fd>>
    BY <1>4, <2>1 DEF ChildWrites, callVars, handleVars, jobVars
  <2>3. \A w \in Sessions : /\ fifo[w] \in Nat /\ written[w] \in 0..Units
                            /\ lost[w] \in Nat /\ InHand(w) \in Nat
    BY DataTypes DEF StreamInv, IInv
  <2>4. \A w \in Sessions : InHand(w)' = InHand(w)
    BY <2>2 DEF InHand
  <2>5. Delivered' = Delivered
    BY <1>t, <2>2, <2>3, <2>4 DEF Delivered, FifoTypeOK, ProcessTypeOK
  <2>6. Stream!Produce(s)
    BY <2>2, <2>5 DEF Stream!Produce, Delivered
  <2> QED
    BY <2>6 DEF Stream!Next
<1>5. ASSUME NEW s \in Sessions, NEW st \in ExitStatus, ChildExits(s, st)
      PROVE  [Stream!Next]_Stream!vars
  <2>1. UNCHANGED <<session, ended>> /\ status' = [status EXCEPT ![s] = st]
    BY <1>5 DEF ChildExits, fifoVars
  <2>2. UNCHANGED <<written, lost, Delivered>>
    BY <1>5, <1>q, ExitIsQuiet
  <2>3. CASE st = "zero"
    <3>1. Finished' = Finished \cup {s}
      BY <1>t, <2>1, <2>3 DEF ProcessTypeOK, Finished
    <3>2. written[s] = Units
      BY <1>5, <2>3 DEF ChildExits
    <3>3. Stream!Finish(s)
      BY <2>1, <2>2, <3>1, <3>2 DEF Stream!Finish, Delivered, Finished
    <3> QED
      BY <3>3 DEF Stream!Next
  <2>4. CASE st # "zero"
    <3>1. status[s] = "none"
      BY <1>5, <1>t DEF ChildExits, StatusOfDead
    <3>2. Finished' = Finished
      BY <1>t, <2>1, <2>4, <3>1 DEF ProcessTypeOK, Finished
    <3> QED
      BY <2>1, <2>2, <3>2 DEF Stream!vars, Delivered, Finished
  <2> QED
    BY <2>3, <2>4
<1>6. ASSUME NEW s \in Sessions, ChildDies(s) PROVE [Stream!Next]_Stream!vars
  <2>1. UNCHANGED <<session, ended, fifo, written>> /\ status' = [status EXCEPT ![s] = "signal"]
    BY <1>6 DEF ChildDies, fifoVars
  <2>2. status[s] = "none"
    BY <1>6, <1>t DEF ChildDies, StatusOfDead
  <2>3. Finished' = Finished
    BY <1>t, <2>1, <2>2 DEF ProcessTypeOK, Finished
  <2>4. CASE UNCHANGED <<lost, total>>
    <3>1. UNCHANGED <<written, lost, Delivered>>
      BY <1>6, <1>t, <1>q, <2>1, <2>4, HandFrame DEF ChildDies, jobVars
    <3> QED
      BY <2>1, <2>3, <3>1 DEF Stream!vars, Delivered, Finished
  <2>5. CASE ~UNCHANGED <<lost, total>>
    <3>1. ReadFails /\ pc = "read_io"
      BY <1>6, <2>5 DEF ChildDies, Sigchld, SigchldToCaller
    <3> QED
      BY <2>1, <2>3, <3>1, FailLoses
  <2> QED
    BY <2>4, <2>5
<1>7. CASE ~ReadIo /\ ~Visible /\ ~(\E s \in Sessions : ChildWrites(s))
  <2>1. UNCHANGED <<session, status, ended>>
    BY <1>7, Stutters
  <2>2. Finished' = Finished
    BY <2>1 DEF Finished
  <2>3. CASE UNCHANGED <<fifo, written, lost, Hand>>
    BY <1>q, <2>1, <2>3 DEF Stream!vars, Delivered
  <2>4. CASE ReadFails /\ UNCHANGED <<fifo, written>>
    <3>1. CASE pc = "read_io" \/ pc = "read_check"
      BY <2>1, <2>2, <2>4, <3>1, FailLoses
    <3>2. CASE ~Reading
      <4>1. total = 0 /\ total' = 0
        BY <1>t, <2>4, <3>2 DEF ReadProgress, ReadFails, ReadReturns
      <4>2. \A s \in Sessions : lost[s] \in Nat
        BY DataTypes DEF StreamInv, IInv
      <4>3. lost' = lost
        BY <2>4, <4>1, <4>2 DEF ReadFails, StreamInv, IInv, TypeOK, CallTypeOK
      <4>4. Hand' = Hand
        BY <1>t, <3>2, <4>1, HandFrame
      <4> QED
        BY <1>q, <2>1, <2>4, <4>3, <4>4 DEF Stream!vars, Delivered
    <3>3. CASE pc = "read_end"
      <4>1. total = 0 /\ total' = 0
        BY <1>t, <2>4, <3>3 DEF TotalFits, ReadFails, ReadReturns
      <4>2. \A s \in Sessions : lost[s] \in Nat
        BY DataTypes DEF StreamInv, IInv
      <4>3. lost' = lost
        BY <2>4, <4>1, <4>2 DEF ReadFails, StreamInv, IInv, TypeOK, CallTypeOK
      <4>4. Hand' = Hand
        BY <4>1 DEF Hand, InHand
      <4> QED
        BY <1>q, <2>1, <2>4, <4>3, <4>4 DEF Stream!vars, Delivered
    <3> QED
      BY <3>1, <3>2, <3>3 DEF Reading
  <2> QED
    BY <1>7, <1>t, <2>3, <2>4, DataStep
<1> QED
  BY <1>1, <1>2, <1>3, <1>4, <1>5, <1>6, <1>7 DEF Visible

\* The library keeps the promise of BackupStream: every session is a stream of
\* its own, given out once and in order by the reads that succeed, with a gap
\* only where a read of that session has failed, and reported complete only
\* when it is.
THEOREM SessionsAreStreams ==
  ASSUME "reinit" \notin Env, "eintr" \notin Env, "exec_fail" \notin Env,
         BufferSize <= IntMax
  PROVE  Spec => StreamsApart
<1>1. Init => StreamInv /\ Stream!Init
  BY InitInv, InitTypeInv, FilledInit, StreamInit
  DEF StreamInv, TypeInv, ExitMeansZero, EndMeansExitZero, ReadProgress, TotalFits,
      Reading, Init
<1>2. StreamInv /\ [Next]_vars => StreamInv'
  BY NextInv, NextTypeInv, NextExit, NextProgress, NextTotal, FilledStep
  DEF StreamInv, IInv, TypeInv
<1>3. StreamInv /\ StreamInv' /\ [Next]_vars => [Stream!Next]_Stream!vars
  BY StreamStep DEF StreamInv
<1> QED
  BY <1>1, <1>2, <1>3, PTL DEF Spec, Stream!Spec, StreamsApart
=============================================================================
