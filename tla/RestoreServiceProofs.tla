------------------------ MODULE RestoreServiceProofs ------------------------
(***************************************************************************)
(* Proofs about RestoreService, for any number of levels, blocks, restores *)
(* and program deaths.                                                     *)
(***************************************************************************)
EXTENDS RestoreService, SequenceTheorems, TLAPS

USE RestoreAssumption DEF None, Stdin, WriteError

\* the definitions every step of the proofs opens
LEMMA LevelsAreNat == Levels \subseteq Nat /\ 0 \in Levels
BY DEF Levels

\* A piece that a write leaves is a piece.
LEMMA PieceType ==
  ASSUME NEW l \in Levels, NEW b \in BlockNos, NEW r \in WriteResults(b),
         r # WriteError
  PROVE  Piece(l, b, r) \in Pieces
BY DEF WriteResults, Piece, Pieces

\* Adding a piece to one file keeps the type of all of them.
LEMMA PutType ==
  ASSUME file \in [Levels -> Seq(Pieces)], NEW l, NEW p \in Pieces,
         file' = [file EXCEPT ![l] = Append(@, p)]
  PROVE  file' \in [Levels -> Seq(Pieces)]
<1>1. ASSUME NEW k \in Levels PROVE Append(file[k], p) \in Seq(Pieces)
      BY AppendProperties
<1> QED BY <1>1

LEMMA TypeStep == TypeOK /\ [Next]_vars => TypeOK'
<1> SUFFICES ASSUME TypeOK, [Next]_vars PROVE TypeOK'
    OBVIOUS
<1> USE LevelsAreNat DEF TypeOK, ApiStates, RestoreTypes, apiVars, handleVars,
                         fileVars, toldVars
<1>1. CASE InitializeSucceeds \/ InitializeFails \/ FinalizeRejected
      BY <1>1 DEF InitializeSucceeds, InitializeFails, FinalizeRejected, Teardown
<1>2. CASE Finalize
      BY <1>2 DEF Finalize, CloseFile, ResetHandle, Teardown
<1>3. CASE BackupBegins \/ BackupEnds
      BY <1>3 DEF BackupBegins, BackupEnds
<1>4. ASSUME NEW l \in PassedLevels, BeginSucceeds(l) PROVE TypeOK'
  <2>1. l \in Levels /\ opens' \in Opens /\ opens' \in 0..MaxOpens
        BY <1>4 DEF BeginSucceeds, InfoAccepted, Opens
  <2>2. target' \in [Opens -> Levels \cup {None}]
        BY <1>4, <2>1 DEF BeginSucceeds
  <2>3. file' \in [Levels -> Seq(Pieces)] /\ acked' \in Seq(BlockNos)
        BY <1>4, <2>1 DEF BeginSucceeds, Truncate
  <2> QED BY <1>4, <2>1, <2>2, <2>3 DEF BeginSucceeds
<1>5. CASE BeginFails
      BY <1>5 DEF BeginFails, ResetHandle
<1>6. ASSUME NEW l \in PassedLevels, NEW b \in BlockNos, NEW r \in WriteResults(b),
             Write(l, b, r)
      PROVE TypeOK'
  <2>1. file' \in [Levels -> Seq(Pieces)]
    <3>1. CASE restore_type = "RESTORE_TO_FILE" /\ r # WriteError
          BY <1>6, <3>1, PieceType, PutType DEF Write, WriteToFile, WriteAccepted, Put
    <3>2. CASE ~(restore_type = "RESTORE_TO_FILE" /\ r # WriteError)
          BY <1>6, <3>2 DEF Write, WriteToFile
    <3> QED BY <3>1, <3>2
  <2>2. acked' \in Seq(BlockNos) /\ clean' \in BOOLEAN
    <3>1. Append(acked, b) \in Seq(BlockNos)
          BY AppendProperties
    <3> QED BY <1>6, <3>1 DEF Write, WriteToFile
  <2> QED BY <1>6, <2>1, <2>2 DEF Write
<1>7. ASSUME NEW l \in PassedLevels, WriteRefused(l) PROVE TypeOK'
      BY <1>7 DEF WriteRefused
<1>8. CASE End
      BY <1>8 DEF End, CloseFile, ResetHandle
<1>9. CASE ProgramDies
  <2>1. file' \in [Levels -> Seq(Pieces)]
        BY <1>9, PieceType, PutType DEF ProgramDies, Put
  <2> QED BY <1>9, <2>1 DEF ProgramDies
<1>10. CASE UNCHANGED vars
       BY <1>10 DEF vars
<1> QED BY <1>1, <1>2, <1>3, <1>4, <1>5, <1>6, <1>7, <1>8, <1>9, <1>10 DEF Next

\* The state at load time is well typed.
LEMMA TypeInit == Init => TypeOK
<1> SUFFICES ASSUME Init PROVE TypeOK
    OBVIOUS
<1>1. file \in [Levels -> Seq(Pieces)] /\ acked \in Seq(BlockNos)
      BY EmptySeq DEF Init
<1>2. target \in [Opens -> Levels \cup {None}]
      BY DEF Init
<1>3. restore_type \in RestoreTypes /\ backup_api_state \in ApiStates
      BY DEF Init, ApiStates, RestoreTypes
<1> QED BY <1>1, <1>2, <1>3, LevelsAreNat DEF Init, TypeOK

\* Every behaviour is well typed.
THEOREM RestoreTypeCorrect == Spec => []TypeOK
BY TypeInit, TypeStep, PTL DEF Spec

----------------------------------------------------------------------------
(* The handle, the open file and what the program was told *)

\* A new file is empty, and so is what the program was told of it.
LEMMA EmptyImage ==
  ASSUME NEW l \in Levels, acked' = <<>>, target'[opens'] = l, file'[l] = <<>>
  PROVE  CleanRestore'
BY DEF CleanRestore, Image

\* Only Complete writes are acknowledged: of lengths below UINT_MAX these are
\* the ones that wrote every unit.
LEMMA CompleteIsWhole ==
  ASSUME NEW b \in BlockNos, NEW r \in WriteResults(b), Complete(b, r)
  PROVE  r # WriteError /\ r = BlockLen[b]
BY DEF Complete, AsUnsigned, WriteResults

\* The image grows with the acknowledgements.
LEMMA ImageGrows ==
  ASSUME NEW l \in Levels, NEW b \in BlockNos, acked \in Seq(BlockNos),
         acked' = Append(acked, b), file[l] \in Seq(Pieces),
         file[l] = Image(l)
  PROVE  Append(file[l], Piece(l, b, BlockLen[b])) = Image(l)'
<1>1. Len(acked') = Len(acked) + 1 /\ Len(acked) \in Nat
      BY AppendProperties, LenProperties
<1>2. \A i \in 1..Len(acked) : acked'[i] = acked[i]
      BY AppendProperties
<1>3. acked'[Len(acked) + 1] = b
      BY AppendProperties
<1>4. Len(file[l]) = Len(acked)
      BY <1>1, LenProperties DEF Image
<1> DEFINE p == Piece(l, b, BlockLen[b])
<1>5. p \in Pieces
      BY DEF Piece, Pieces
<1>6. /\ Len(Append(file[l], p)) = Len(acked) + 1
      /\ \A i \in 1..Len(acked) : Append(file[l], p)[i] = file[l][i]
      /\ Append(file[l], p)[Len(acked) + 1] = p
      /\ Append(file[l], p) \in Seq(Pieces)
      BY <1>4, <1>5, AppendProperties
<1>7. Image(l)' = [i \in 1..(Len(acked) + 1) |->
                    Piece(l, acked'[i], BlockLen[acked'[i]])]
      BY <1>1 DEF Image
<1>8. \A i \in 1..(Len(acked) + 1) :
        Append(file[l], p)[i] = Piece(l, acked'[i], BlockLen[acked'[i]])
  <2> TAKE i \in 1..(Len(acked) + 1)
  <2>1. CASE i = Len(acked) + 1
        BY <2>1, <1>3, <1>6
  <2>2. CASE i # Len(acked) + 1
    <3>1. i \in 1..Len(acked)
          BY <2>2, <1>1
    <3>2. file[l][i] = Piece(l, acked[i], BlockLen[acked[i]])
          BY <3>1 DEF Image
    <3> QED BY <3>1, <3>2, <1>2, <1>6
  <2> QED BY <2>1, <2>2
<1>9. Append(file[l], p) = [i \in 1..(Len(acked) + 1) |-> Append(file[l], p)[i]]
      BY <1>1, <1>6, LenProperties
<1> QED BY <1>7, <1>8, <1>9

\* Steps that leave the files and what the program was told alone.
LEMMA CleanUnchanged ==
  ASSUME CleanRestore, UNCHANGED <<target, opens, file, acked, clean>>
  PROVE  CleanRestore'
<1>1. Image(target[opens])' = Image(target[opens])
      BY DEF Image
<1> QED BY <1>1 DEF CleanRestore

LEMMA IInvStep == IInv /\ [Next]_vars => IInv'
<1> SUFFICES ASSUME IInv, [Next]_vars PROVE IInv'
    OBVIOUS
<1>0. TypeOK'
      BY TypeStep DEF IInv
<1> DEFINE Rest == /\ OnceMatches /\ ServiceHasFile /\ ServiceIsLatest
                  /\ LatestHasLevel /\ CleanRestore
<1> SUFFICES Rest'
    BY <1>0 DEF IInv
<1> USE LevelsAreNat
        DEF TypeOK, OnceMatches, ServiceHasFile, ServiceIsLatest, LatestHasLevel,
            apiVars, handleVars, fileVars, toldVars
<1>1. CASE InitializeSucceeds \/ InitializeFails \/ FinalizeRejected
      BY <1>1, CleanUnchanged
         DEF IInv, InitializeSucceeds, InitializeFails, FinalizeRejected, Teardown
<1>2. CASE Finalize
      BY <1>2, CleanUnchanged DEF IInv, Finalize, CloseFile, ResetHandle, Teardown
<1>3. CASE BackupBegins \/ BackupEnds
      BY <1>3, CleanUnchanged DEF IInv, BackupBegins, BackupEnds, Gate
<1>4. ASSUME NEW l \in PassedLevels, BeginSucceeds(l) PROVE Rest'
  <2>1. l \in Levels /\ opens' \in Opens
        BY <1>4 DEF IInv, BeginSucceeds, InfoAccepted, Opens
  <2>2. target'[opens'] = l /\ file'[l] = <<>>
        BY <1>4, <2>1 DEF IInv, BeginSucceeds, Truncate
  <2>3. CleanRestore'
        BY <1>4, <2>1, <2>2, EmptyImage DEF BeginSucceeds
  <2> QED BY <1>4, <2>1, <2>2, <2>3 DEF IInv, BeginSucceeds, Gate
<1>5. CASE BeginFails
      BY <1>5, CleanUnchanged DEF IInv, BeginFails, ResetHandle, Gate
<1>6. ASSUME NEW l \in PassedLevels, NEW b \in BlockNos, NEW r \in WriteResults(b),
             Write(l, b, r)
      PROVE Rest'
  <2>1. /\ backup_api_state = "RESTORE_SERVICE" /\ restore_type = "RESTORE_TO_FILE"
        /\ l = backup_level /\ l \in Levels /\ target[restore_fd] = l
        /\ opens \in Opens /\ restore_fd = opens
        /\ WriteToFile(l, b, r)
        BY <1>6 DEF IInv, Write, Gate, WriteAccepted
  <2>2. CASE Complete(b, r)
    <3>1. r = BlockLen[b] /\ acked' = Append(acked, b) /\ clean' = clean
          BY <2>1, <2>2, CompleteIsWhole DEF WriteToFile
    <3>2. file' = [file EXCEPT ![l] = Append(@, Piece(l, b, BlockLen[b]))]
          BY <2>1, <2>2, <3>1, CompleteIsWhole DEF WriteToFile, Put
    <3>3. file'[l] = Append(file[l], Piece(l, b, BlockLen[b]))
          BY <2>1, <3>2 DEF IInv
    <3>4. clean => file'[l] = Image(l)'
          BY <2>1, <3>1, <3>3, ImageGrows DEF IInv, CleanRestore
    <3>5. target' = target /\ opens' = opens
          BY <1>6 DEF Write
    <3>6. CleanRestore'
          BY <2>1, <3>1, <3>4, <3>5 DEF CleanRestore
    <3> QED BY <1>6, <3>1, <3>6 DEF IInv, Write
  <2>3. CASE ~Complete(b, r)
        BY <1>6, <2>1, <2>3 DEF IInv, Write, WriteToFile, CleanRestore
  <2> QED BY <2>2, <2>3
<1>7. ASSUME NEW l \in PassedLevels, WriteRefused(l) PROVE Rest'
      BY <1>7 DEF IInv, WriteRefused, CleanRestore
<1>8. CASE End
      BY <1>8, CleanUnchanged DEF IInv, End, Gate, CloseFile, ResetHandle
<1>9. CASE ProgramDies
      BY <1>9 DEF IInv, ProgramDies, CleanRestore
<1>10. CASE UNCHANGED vars
       BY <1>10, CleanUnchanged DEF IInv, vars
<1> QED BY <1>1, <1>2, <1>3, <1>4, <1>5, <1>6, <1>7, <1>8, <1>9, <1>10 DEF Next

LEMMA IInvInit == Init => IInv
BY TypeInit DEF Init, IInv, OnceMatches, ServiceHasFile, ServiceIsLatest,
                LatestHasLevel, CleanRestore, Opens

LEMMA IInvHolds == Spec => []IInv
BY IInvInit, IInvStep, PTL DEF Spec

\* A write is only ever let through to an open file of its own level.
THEOREM RestoreHasFile == Spec => []ServiceHasFile
BY IInvHolds, PTL DEF IInv

\* A restore whose calls all succeeded leaves exactly what was written.
THEOREM RestoreIsClean == Spec => []CleanRestore
BY IInvHolds, PTL DEF IInv

\* Nothing stays open, unless the program initializes an initialized library.
THEOREM RestoreClosesFile == ASSUME ~Reinit PROVE Spec => []FdAccounted
<1> DEFINE Inv == HandleAtRest /\ FdAccounted
<1>1. Init => Inv
      BY DEF Init, HandleAtRest, FdAccounted, Opens
<1>2. IInv /\ Inv /\ [Next]_vars => Inv'
  <2> SUFFICES ASSUME IInv, Inv, [Next]_vars PROVE HandleAtRest' /\ FdAccounted'
      OBVIOUS
  <2> USE DEF IInv, TypeOK, OnceMatches, HandleAtRest, FdAccounted, apiVars,
              handleVars, fileVars, toldVars, Opens
  <2>1. CASE InitializeSucceeds \/ InitializeFails \/ FinalizeRejected
        BY <2>1 DEF InitializeSucceeds, InitializeFails, FinalizeRejected, Teardown
  <2>2. CASE Finalize
        BY <2>2 DEF Finalize, CloseFile, ResetHandle, Teardown
  <2>3. CASE BackupBegins \/ BackupEnds
        BY <2>3 DEF BackupBegins, BackupEnds, Gate
  <2>4. ASSUME NEW l \in PassedLevels, BeginSucceeds(l)
        PROVE  HandleAtRest' /\ FdAccounted'
        BY <2>4 DEF BeginSucceeds, Gate
  <2>5. CASE BeginFails
        BY <2>5 DEF BeginFails, ResetHandle, Gate
  <2>6. ASSUME NEW l \in PassedLevels, NEW b \in BlockNos, NEW r \in WriteResults(b),
               Write(l, b, r)
        PROVE  HandleAtRest' /\ FdAccounted'
        BY <2>6 DEF Write
  <2>7. ASSUME NEW l \in PassedLevels, WriteRefused(l)
        PROVE  HandleAtRest' /\ FdAccounted'
        BY <2>7 DEF WriteRefused
  <2>8. CASE End
        BY <2>8 DEF End, CloseFile, ResetHandle
  <2>9. CASE ProgramDies
        BY <2>9 DEF ProgramDies
  <2>10. CASE UNCHANGED vars
         BY <2>10 DEF vars
  <2> QED BY <2>1, <2>2, <2>3, <2>4, <2>5, <2>6, <2>7, <2>8, <2>9, <2>10 DEF Next
<1> QED BY <1>1, <1>2, IInvHolds, PTL DEF Spec

----------------------------------------------------------------------------
(* The refinement: every step of the library is a step of RestoreFile *)

\* the level being restored, as Abstract sees it
Active == IF backup_api_state = "RESTORE_SERVICE" THEN target[opens] ELSE None

LEMMA AbstractStep == IInv /\ IInv' /\ [Next]_vars => [Abstract!Next]_Abstract!vars
<1> SUFFICES ASSUME IInv, IInv', [Next]_vars PROVE [Abstract!Next]_Abstract!vars
    OBVIOUS
<1> USE LevelsAreNat DEF Active, apiVars, handleVars, fileVars, toldVars, Abstract!vars
<1>a. backup_api_state = "RESTORE_SERVICE" =>
        /\ opens \in Opens /\ restore_fd = opens /\ target[opens] \in Levels
        /\ Active = target[opens] /\ Active # None
        /\ backup_level = Active
      BY DEF IInv, TypeOK, ServiceHasFile, ServiceIsLatest, Levels
<1>b. ASSUME UNCHANGED <<target, opens, file, acked>>,
             Active' = None \/ Active' = Active
      PROVE  [Abstract!Next]_Abstract!vars
      BY <1>b DEF Abstract!Next, Abstract!Stop
<1>1. CASE InitializeSucceeds \/ InitializeFails \/ FinalizeRejected
      BY <1>1, <1>b DEF InitializeSucceeds, InitializeFails, FinalizeRejected, Teardown
<1>2. CASE Finalize
      BY <1>2, <1>b DEF Finalize, Teardown
<1>3. CASE BackupBegins \/ BackupEnds
      BY <1>3, <1>b DEF BackupBegins, BackupEnds
<1>4. ASSUME NEW l \in PassedLevels, BeginSucceeds(l) PROVE Abstract!Next
  <2>1. l \in Levels /\ Active = None
        BY <1>4 DEF BeginSucceeds, InfoAccepted, Gate
  <2>2. opens' \in Opens /\ target'[opens'] = l
        BY <1>4 DEF BeginSucceeds, IInv, TypeOK, Opens
  <2>3. Active' = l
        BY <1>4, <2>2 DEF BeginSucceeds
  <2>4. Abstract!Start(l)
        BY <1>4, <2>1, <2>3 DEF BeginSucceeds, Truncate, Abstract!Start
  <2> QED BY <2>1, <2>4 DEF Abstract!Next
<1>5. CASE BeginFails
      BY <1>5, <1>b DEF BeginFails
<1>6. ASSUME NEW l \in PassedLevels, NEW b \in BlockNos, NEW r \in WriteResults(b),
             Write(l, b, r)
      PROVE [Abstract!Next]_Abstract!vars
  <2>1. /\ backup_api_state = "RESTORE_SERVICE" /\ l = Active
        /\ target[restore_fd] = Active /\ WriteToFile(l, b, r)
        BY <1>6, <1>a DEF IInv, ServiceHasFile, Write, Gate, WriteAccepted
  <2>2. Active' = Active /\ Active # None
        BY <1>6, <1>a, <2>1 DEF Write
  <2>3. Abstract!Piece(l, b, r) = Piece(l, b, r)
        BY DEF Piece, Abstract!Piece
  <2>4. CASE Complete(b, r)
    <3>1. r # WriteError /\ r = BlockLen[b]
          BY <2>4, CompleteIsWhole
    <3>2. Abstract!Put(b)
          BY <2>1, <2>2, <2>3, <2>4, <3>1
             DEF WriteToFile, Put, Abstract!Put, Abstract!Add
    <3> QED BY <3>2 DEF Abstract!Next
  <2>5. CASE ~Complete(b, r) /\ r # WriteError
    <3>1. r \in 1..BlockLen[b] /\ r < BlockLen[b]
          BY <2>5 DEF Complete, AsUnsigned, WriteResults
    <3>2. Abstract!Tear(b, r)
          BY <2>1, <2>2, <2>3, <2>5, <3>1
             DEF WriteToFile, Put, Abstract!Tear, Abstract!Add
    <3> QED BY <3>1, <3>2 DEF Abstract!Next
  <2>6. CASE ~Complete(b, r) /\ r = WriteError
        BY <2>1, <2>2, <2>6 DEF WriteToFile
  <2> QED BY <2>4, <2>5, <2>6
<1>7. ASSUME NEW l \in PassedLevels, WriteRefused(l) PROVE [Abstract!Next]_Abstract!vars
      BY <1>7, <1>b DEF WriteRefused
<1>8. CASE End
      BY <1>8, <1>b DEF End
<1>9. CASE ProgramDies
  <2>1. Active' = None /\ UNCHANGED <<target, opens, acked>>
        BY <1>9 DEF ProgramDies
  <2>2. CASE UNCHANGED file
        BY <2>1, <2>2, <1>b
  <2>3. CASE ~UNCHANGED file
    <3>1. /\ backup_api_state = "RESTORE_SERVICE"
          /\ \E b \in BlockNos : \E n \in WriteResults(b) \ {WriteError} :
               Put(backup_level, b, n)
          BY <1>9, <2>3 DEF ProgramDies, Gate
    <3>b. PICK b \in BlockNos : \E n \in WriteResults(b) \ {WriteError} :
            Put(backup_level, b, n)
          BY <3>1
    <3>2. PICK n \in WriteResults(b) \ {WriteError} : Put(backup_level, b, n)
          BY <3>b
    <3>3. n \in 1..BlockLen[b]
          BY DEF WriteResults
    <3>4. Abstract!Add(Active, b, n)
          BY <1>a, <3>1, <3>2 DEF Put, Piece, Abstract!Add, Abstract!Piece
    <3>5. Abstract!Stop
          BY <1>a, <2>1, <3>1, <3>3, <3>4 DEF Abstract!Stop
    <3> QED BY <3>5 DEF Abstract!Next
  <2> QED BY <2>2, <2>3
<1>10. CASE UNCHANGED vars
       BY <1>10 DEF vars
<1> QED BY <1>1, <1>2, <1>3, <1>4, <1>5, <1>6, <1>7, <1>8, <1>9, <1>10 DEF Next

LEMMA AbstractInit == Init => Abstract!Init
<1> SUFFICES ASSUME Init PROVE Abstract!Init
    OBVIOUS
<1>1. file \in [Levels -> Seq(Abstract!Pieces)]
      BY EmptySeq DEF Init
<1> QED BY <1>1 DEF Init, Abstract!Init

\* The library implements RestoreFile, whatever the program calls and
\* whenever it dies: see KeepsPromise.
THEOREM RestoreKeepsPromise == Spec => KeepsPromise
BY AbstractInit, AbstractStep, IInvHolds, PTL DEF Spec, Abstract!Spec, KeepsPromise
=============================================================================
