--------------------------- MODULE MCKioskPayment ---------------------------
(* KioskPayment for TLC: the invocations of each kind are model values, and  *)
(* those of one kind are interchangeable.                                    *)
EXTENDS KioskPayment, TLC

Symmetry == Permutations(Callers) \cup Permutations(Workers) \cup Permutations(Webhooks)
            \cup Permutations(Lookups) \cup Permutations(Staff) \cup Permutations(Rivals)
=============================================================================
