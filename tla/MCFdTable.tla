----------------------------- MODULE MCFdTable -----------------------------
(* Instances of FdTable for TLC: two or three threads and tables.          *)
EXTENDS FdTable, TLC

(* The first process is not interchangeable with the others                *)
Sym == Permutations(Table) \cup Permutations(Thread \ {First})
====
