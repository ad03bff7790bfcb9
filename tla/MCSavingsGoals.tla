---------------------------- MODULE MCSavingsGoals ----------------------------
(***************************************************************************)
(* SavingsGoals for TLC.                                                   *)
(***************************************************************************)
EXTENDS SavingsGoals, TLC

Symmetry == Permutations(Goals) \cup Permutations(Calls)
=============================================================================
