------------------------------ MODULE MCLedger ------------------------------
(***************************************************************************)
(* Ledger for TLC.                                                         *)
(***************************************************************************)
EXTENDS Ledger, TLC

\* Accounts and transactions are interchangeable, and so are the clients
\* that may edit and those that may not.
MCSymmetry ==
  Permutations(Accounts) \cup Permutations(Txns)
  \cup Permutations(Editors) \cup Permutations(Clients \ Editors)
=============================================================================
