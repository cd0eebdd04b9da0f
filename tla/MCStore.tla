------------------------------- MODULE MCStore -------------------------------
(* Finite instance of EventStore; events and workers are interchangeable.   *)
EXTENDS EventStore, TLC

MCSymmetry == Permutations(Events) \cup Permutations(Workers)
=============================================================================
