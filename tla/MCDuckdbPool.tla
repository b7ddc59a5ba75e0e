---------------------------- MODULE MCDuckdbPool ----------------------------
(* The pool on small instances: which operations the callers use.          *)
EXTENDS DuckdbPool, TLC

AllOps     == {"bracket", "close", "reopen"}
BracketOps == {"bracket"}

(* Acquirers are interchangeable, and so are callers. *)
Symmetry == Permutations(Requests) \cup Permutations(Callers)
=============================================================================
