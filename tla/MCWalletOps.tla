---------------------------- MODULE MCWalletOps ----------------------------
(***************************************************************************)
(* Instances of WalletOps for TLC.                                         *)
(***************************************************************************)
EXTENDS WalletOps, TLC

\* Transaction hashes are interchangeable.
TxSymmetry == Permutations(TxIds)

=============================================================================
