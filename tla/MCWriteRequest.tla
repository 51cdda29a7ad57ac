--------------------------- MODULE MCWriteRequest ---------------------------
(* Instances of WriteRequest for TLC.                                         *)
EXTENDS WriteRequest, TLC

Symmetry == Permutations(Attempts)
=============================================================================
