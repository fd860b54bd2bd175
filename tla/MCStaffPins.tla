---------------------------- MODULE MCStaffPins -----------------------------
(* StaffPins for TLC.  People, PINs, invocations, administrators and runs of *)
(* the rotation script are each interchangeable.                             *)
EXTENDS StaffPins, TLC

Symmetry == Permutations(People) \cup Permutations(Pins) \cup Permutations(Logins)
            \cup Permutations(Admins) \cup Permutations(Operators)
=============================================================================
