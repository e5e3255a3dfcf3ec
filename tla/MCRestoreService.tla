-------------------------- MODULE MCRestoreService --------------------------
(* An instance of RestoreService for TLC: block 1 has one unit, block 2 two, *)
(* block 3 more than one write() transfers; UINT_MAX is 7.                   *)
EXTENDS RestoreService

SmallLen == [b \in BlockNos |-> IF b = 3 THEN 5 ELSE b]
=============================================================================
