--------------------------- MODULE MCTokenBucket ----------------------------
(* TokenBucket for TLC.  Callers are interchangeable.                      *)
EXTENDS TokenBucket, TLC

CallerSymmetry == Permutations(Callers)
=============================================================================
