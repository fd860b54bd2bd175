---------------------------- MODULE MCKioskClaims ----------------------------
(* KioskClaims for TLC: installations, names and requests of one kind are    *)
(* interchangeable model values.                                             *)
EXTENDS KioskClaims, TLC

Symmetry == Permutations(Installs) \cup Permutations(Names) \cup Permutations(Drafts)
            \cup Permutations(Pairings)
=============================================================================
