----------------------------- MODULE MCLicense -----------------------------
(* Finite instance of License: one identifier stands for the quorum, so a   *)
(* swap is a mismatch; the terms pass through every state by the last tick. *)
EXTENDS License, TLC

(* Issued at 0: valid at 0, warning at 1, grace at 2, expired at 3.         *)
MCTerms == {[days |-> 1, grace |-> 1, warn |-> 0]}

Symm == Permutations(Procs) \cup Permutations(Serials)
=============================================================================
