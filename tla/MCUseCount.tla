---------------------------- MODULE MCUseCount ----------------------------
(* UseCount for TLC: elements and files are interchangeable.               *)
EXTENDS UseCount, TLC

(* Nothing is claimed of a stale state and what follows it.                *)
BeforeStale == ~stale

Sym == Permutations(Elem) \cup Permutations(File)
=============================================================================
