--------------------------- MODULE PaymentPromise ---------------------------
(***************************************************************************)
(* What one kiosk payment promises, whatever runs behind it.  The outcome  *)
(* may move between open and released while nothing was approved, is kept  *)
(* once it is paid, and ends booked; a released payment is never booked    *)
(* without an approval.  The payment is recorded at ROLLER at most once    *)
(* and only for a paid attempt, and the guest's handoff is ready for staff *)
(* only while the booking exists.                                          *)
(***************************************************************************)
EXTENDS Naturals

VARIABLES outcome,  \* "open", "released", "paid" or "booked"
          recorded, \* payments recorded at ROLLER for the attempt
          ready     \* staff may hand out and redeem

vars == <<outcome, recorded, ready>>

Init == outcome = "open" /\ recorded = 0 /\ ready = FALSE

Settle == /\ outcome \in {"open", "released"}
          /\ outcome' \in {"open", "released", "paid"}
          /\ UNCHANGED <<recorded, ready>>

Book == /\ outcome \in {"open", "paid"}
        /\ outcome' = "booked"
        /\ UNCHANGED <<recorded, ready>>

Record == /\ outcome \in {"paid", "booked"} /\ recorded = 0
          /\ recorded' = 1
          /\ UNCHANGED <<outcome, ready>>

(* Booking and attaching it to the handoff may be one step. *)
MakeReady == /\ outcome \in {"paid", "booked"}
             /\ outcome' = "booked" /\ ready' = TRUE
             /\ UNCHANGED recorded

Hold == ready /\ ready' = FALSE /\ UNCHANGED <<outcome, recorded>>

Next == Settle \/ Book \/ Record \/ MakeReady \/ Hold

Spec == Init /\ [][Next]_vars
=============================================================================
