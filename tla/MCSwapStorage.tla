---------------------------- MODULE MCSwapStorage ----------------------------
(***************************************************************************)
(* An instance of SwapStorage for TLC.                                     *)
(***************************************************************************)
EXTENDS SwapStorage, TLC

\* Prefixes, hashes and objects are interchangeable.
StorageSymmetry ==
    Permutations(Names) \cup Permutations(Keys) \cup Permutations(Objects)

=============================================================================
