------------------------------- MODULE MCGate -------------------------------
(* Finite instances of GateControl.                                         *)
EXTENDS GateControl, TLC

CONSTANTS c1, k1

Form(c, k, cond, prio) == [cam |-> c, ctrl |-> k, cond |-> cond, prio |-> prio]

(* Every camera may open the one gate for a visitor.                        *)
VisitorForms == {Form(c, k1, "permit_valid", 0) : c \in Cams}

(* A rule for visitors and an open one of lower priority on one camera.     *)
LaneForms == {Form(c1, k1, "any_plate", 0), Form(c1, k1, "permit_valid", 1)}

(* Rules that fire for every plate, on every controller.                    *)
OpenForms == {Form(c1, k, "any_plate", 0) : k \in Ctrls}

RuleSymm == Permutations(Rules)
=============================================================================
