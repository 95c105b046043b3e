----------------------------- MODULE KmpidSpec ------------------------------
(***************************************************************************)
(* What the kmview kernel module expects of its thread table: a thread     *)
(* that asks for a number gets one that no other thread has, and keeps it  *)
(* until it gives it back.                                                 *)
(***************************************************************************)
EXTENDS Integers

CONSTANTS Thread, MaxKmpid

VARIABLE kmpid   \* the number each thread has, -1 for none

Init == kmpid = [t \in Thread |-> -1]

Give(t) ==
    /\ kmpid[t] = -1
    /\ \E k \in 0 .. MaxKmpid - 1 :
         /\ \A u \in Thread : kmpid[u] # k
         /\ kmpid' = [kmpid EXCEPT ![t] = k]

TakeBack(t) == kmpid[t] # -1 /\ kmpid' = [kmpid EXCEPT ![t] = -1]

Next == \E t \in Thread : Give(t) \/ TakeBack(t)

Spec == Init /\ [][Next]_kmpid
=============================================================================
