-------------------------- MODULE MCTrainerOverlay --------------------------
(* The trainer overlay on small instances: what the operator may tick.     *)
EXTENDS TrainerOverlay, TLC

CONSTANTS k1, k2, f1, f2

(* Nothing, one plant, the same with other form values, and one more. *)
Selections == {{}, {<<k1, f1>>}, {<<k1, f2>>}, {<<k1, f1>>, <<k2, f1>>}}

(* Requests of one kind are interchangeable. *)
Symmetry == Permutations(Starts) \cup Permutations(Applies)
=============================================================================
