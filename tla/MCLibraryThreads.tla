-------------------------- MODULE MCLibraryThreads --------------------------
(* Instances of LibraryThreads for TLC. *)
EXTENDS LibraryThreads, TLC

Symmetric == Permutations(Threads)
=============================================================================
