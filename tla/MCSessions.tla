----------------------------- MODULE MCSessions -----------------------------
(* Finite instance of Sessions: an administrator and an account to be.  The *)
(* handlers are interchangeable.                                            *)
EXTENDS Sessions, TLC

MCSymmetry == Permutations(Handlers)
=============================================================================
