---------------------------- MODULE VisitPromise ----------------------------
(***************************************************************************)
(* What the check-in of one visit promises, whoever runs it.  The group    *)
(* may be entered at ROLLER a part at a time and also from outside (at     *)
(* kassan); a check-in of ours works alone, starts only while there is no  *)
(* receipt, and a session gets its receipt only when the whole group is in *)
(* and keeps it.                                                           *)
(***************************************************************************)
CONSTANTS Batches,   \* parts of the group that ROLLER takes in one call
          Sessions,  \* check-in sessions of the visit
          Workers    \* automatic and staff check-ins

VARIABLES entered,   \* parts that ROLLER has let in
          receipts,  \* sessions completed
          working    \* who is redeeming the group at ROLLER

vars == <<entered, receipts, working>>

Init == entered = {} /\ receipts = {} /\ working = {}

Begin(w) == /\ working = {} /\ receipts = {}
            /\ working' = {w}
            /\ UNCHANGED <<entered, receipts>>

Enter(b) == /\ entered' = entered \cup {b}
            /\ UNCHANGED <<receipts, working>>

(* A worker stops, or dies: its last call may still have reached ROLLER.    *)
Stop(B) == /\ working # {} /\ working' = {}
           /\ entered' = entered \cup B
           /\ UNCHANGED receipts

Complete(s) == /\ entered = Batches
               /\ receipts' = receipts \cup {s}
               /\ working' \in {working, {}}
               /\ UNCHANGED entered

Next == \/ \E w \in Workers : Begin(w)
        \/ \E b \in Batches : Enter(b)
        \/ \E B \in SUBSET Batches : Stop(B)
        \/ \E s \in Sessions : Complete(s)

Spec == Init /\ [][Next]_vars
=============================================================================
