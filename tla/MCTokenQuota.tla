---------------------------- MODULE MCTokenQuota ----------------------------
(* Small instances of TokenQuota that TLC explores.                         *)
EXTENDS TokenQuota, TLC

Symmetry == Permutations(Requests)
=============================================================================
