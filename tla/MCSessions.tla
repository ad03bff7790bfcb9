------------------------------ MODULE MCSessions ------------------------------
(***************************************************************************)
(* Sessions for TLC.                                                       *)
(***************************************************************************)
EXTENDS Sessions, TLC

Symmetry ==
  Permutations(Devices) \cup Permutations(Calls) \cup Permutations(TokenIds)
=============================================================================
