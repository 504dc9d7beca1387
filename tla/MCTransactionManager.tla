------------------------- MODULE MCTransactionManager -------------------------
(***************************************************************************)
(* TransactionManager for TLC.                                             *)
(***************************************************************************)
EXTENDS TransactionManager, TLC

\* The threads run the same code and nothing orders them.
ThreadSymmetry == Permutations(Threads)
=============================================================================
