----------------------------- MODULE MCRunStore -----------------------------
(* Values for checking RunStore with TLC.                                   *)
EXTENDS RunStore, TLC

\* Neither projects nor runs are told apart by their ids.
Symmetry == Permutations(Projects) \cup Permutations(RunIds)
=============================================================================
