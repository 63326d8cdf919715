--------------------------- MODULE MCOwnerWallet ---------------------------
(***************************************************************************)
(* Instances of OwnerWallet for model checking.                            *)
(***************************************************************************)
EXTENDS OwnerWallet, TLC

\* The uses of one command are interchangeable.
MCSymmetry == Permutations(PoolCommands) \cup Permutations(Transfers)

=============================================================================
