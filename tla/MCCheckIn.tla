----------------------------- MODULE MCCheckIn -----------------------------
(* CheckIn for TLC: requests of one kind are interchangeable.                *)
EXTENDS CheckIn, TLC

Symmetry == Permutations(Starts) \cup Permutations(Readies) \cup Permutations(Staff)
=============================================================================
