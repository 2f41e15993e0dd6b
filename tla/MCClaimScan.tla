---------------------------- MODULE MCClaimScan -----------------------------
(* Two processes, each with a Store over the directory, and two pointers.  *)
EXTENDS ClaimScan, TLC

Symmetry == Permutations(Pointer)
=============================================================================
