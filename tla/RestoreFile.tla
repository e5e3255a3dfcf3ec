----------------------------- MODULE RestoreFile -----------------------------
(***************************************************************************)
(* What a restore promises, without the library: the backup file of a      *)
(* level is started empty, receives the blocks of that level one by one,   *)
(* and holds every block that was acknowledged, whole and in the order of  *)
(* the acknowledgements. A write that is not acknowledged may leave a      *)
(* piece of its block behind; nobody touches a file that is not being      *)
(* restored.                                                               *)
(***************************************************************************)
EXTENDS Integers, Sequences

CONSTANTS
  Levels,      \* backup levels
  BlockNos,    \* numbers of the blocks of a backup
  BlockLen,    \* units in a block
  NoLevel      \* no restore is in progress

VARIABLES
  file,        \* per level: the pieces of blocks in the restored file
  active,      \* the level being restored
  acked        \* block numbers acknowledged in this restore

vars == <<file, active, acked>>

Pieces == [level : Levels, block : BlockNos, units : Nat]
Piece(l, b, n) == [level |-> l, block |-> b, units |-> n]

Add(l, b, n) == file' = [file EXCEPT ![l] = Append(@, Piece(l, b, n))]

Init ==
  /\ file \in [Levels -> Seq(Pieces)]
  /\ active = NoLevel
  /\ acked = <<>>

Start(l) ==
  /\ active = NoLevel
  /\ active' = l
  /\ file' = [file EXCEPT ![l] = <<>>]
  /\ acked' = <<>>

Put(b) ==
  /\ active # NoLevel
  /\ Add(active, b, BlockLen[b])
  /\ acked' = Append(acked, b)
  /\ UNCHANGED active

Tear(b, n) ==
  /\ active # NoLevel
  /\ n < BlockLen[b]
  /\ Add(active, b, n)
  /\ UNCHANGED <<active, acked>>

\* the restore is over, or its program is gone in the middle of a write
Stop ==
  /\ active # NoLevel
  /\ active' = NoLevel
  /\ \/ UNCHANGED file
     \/ \E b \in BlockNos : \E n \in 1..BlockLen[b] : Add(active, b, n)
  /\ UNCHANGED acked

Next ==
  \/ \E l \in Levels : Start(l)
  \/ \E b \in BlockNos : Put(b) \/ \E n \in 1..BlockLen[b] : Tear(b, n)
  \/ Stop

Spec == Init /\ [][Next]_vars
=============================================================================
