----------------------------- MODULE MCPipeline -----------------------------
(* Finite instances of CameraPipeline.                                      *)
EXTENDS CameraPipeline, TLC

(* OCR is right: a text is its own vehicle.                                 *)
Exact(t) == t

(* OCR returns several texts for the plate of one vehicle.                  *)
Misread(t) == "vehicle"

ListSymm == Permutations(Lists)
=============================================================================
