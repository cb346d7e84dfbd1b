--------------------------- MODULE MCTokenManager ---------------------------
(* TokenManager for TLC.  Requests are interchangeable.                    *)
EXTENDS TokenManager, TLC

ProcSymmetry == Permutations(Procs)
=============================================================================
