------------------------------ MODULE MCTexts -------------------------------
(* Instances of Texts for TLC. *)
EXTENDS Texts, TLC
=============================================================================
