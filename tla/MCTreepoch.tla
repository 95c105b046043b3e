----------------------------- MODULE MCTreepoch -----------------------------
(* Instances of Treepoch for TLC.                                          *)
EXTENDS Treepoch, TLC

ProcSymmetry == Permutations(Proc)
=============================================================================
