--------------------------- MODULE MCContextWindow ---------------------------
(* Instances of ContextWindow for TLC. *)
EXTENDS ContextWindow, TLC

CONSTANTS m1, m2, m3, m4
AnyTurn == Permutations(Turns)
=============================================================================
