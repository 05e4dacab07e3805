----------------------------- MODULE MCWalIndex -----------------------------
(* Instances of WalIndex for TLC; the openers are interchangeable. *)
EXTENDS WalIndex, TLC
Symmetry == Permutations(Opener)
=============================================================================
