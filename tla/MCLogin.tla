------------------------------ MODULE MCLogin ------------------------------
(* Finite instance of Login: locks from the second and the fourth failure.   *)
EXTENDS Login

MCThresholds == <<2, 4>>
=============================================================================
