----------------------------- MODULE MCControls -----------------------------
(* Two keys that are interchangeable.                                      *)
EXTENDS Controls, TLC

Symmetry == Permutations(Keys)
=============================================================================
