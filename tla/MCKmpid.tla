------------------------------ MODULE MCKmpid -------------------------------
(* An instance of Kmpid for TLC. *)
EXTENDS Kmpid, TLC

CONSTANTS t1, t2, t3, t4, t5

Symmetry == Permutations(Thread)
=============================================================================
