------------------------------ MODULE MCKmview ------------------------------
(* Instances of Kmview for TLC. *)
EXTENDS Kmview

CONSTANTS a, b, p0, p1, k1

AllBehaviours == {"STD_BEHAVIOR", "SC_FAKE", "SC_CALLONXIT", "SC_MODICALL", "SC_SUSPENDED"}
=============================================================================
