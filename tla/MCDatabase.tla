----------------------------- MODULE MCDatabase -----------------------------
(* Trees, threads and bounds for TLC. *)
EXTENDS Database, TLC

\* Trees differ in what happens to them, not in what they are.
MCSymmetry == Permutations(Trees) \cup Permutations(Writers)
=============================================================================
