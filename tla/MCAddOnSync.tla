----------------------------- MODULE MCAddOnSync -----------------------------
(* AddOnSync for TLC: the add-ons are interchangeable. *)
EXTENDS AddOnSync, TLC

Symmetry == Permutations(AddOns)
=============================================================================
