---------------------------- MODULE MCSnowWorker ----------------------------
(* SnowWorker for TLC.  Callers are interchangeable model values.          *)
EXTENDS SnowWorker, TLC

CallerSymmetry == Permutations(Callers)
=============================================================================
