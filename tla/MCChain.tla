------------------------------- MODULE MCChain -------------------------------
(* Chain for TLC.  Keys and contents are only compared for equality.        *)
EXTENDS Chain

Symmetry == Permutations(Keys)
=============================================================================
