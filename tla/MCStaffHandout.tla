--------------------------- MODULE MCStaffHandout ---------------------------
(* StaffHandout for TLC: phones, actors and sessions are interchangeable.    *)
EXTENDS StaffHandout, TLC

CONSTANTS Bands, Others, PerSession

MCQuantity == [i \in Items |-> IF i \in Admission THEN Bands ELSE Others]
MCLimit == [s \in Sessions |-> PerSession]
Symmetry == Permutations(Phones) \cup Permutations(Actors) \cup Permutations(Sessions)
=============================================================================
