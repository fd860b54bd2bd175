----------------------------- MODULE KioskDraft -----------------------------
(***************************************************************************)
(* One row of jumpyard.prepayment_booking_drafts with payment_channel      *)
(* 'card_present', and every SQL statement that changes its state columns. *)
(* Each operator is ONE autocommitted statement of the code: it reads the  *)
(* committed row and returns the row the statement leaves behind (the same *)
(* row when a guard of its WHERE clause fails).  The protocols that run    *)
(* these statements are in KioskPayment and KioskClaims.                   *)
(*                                                                         *)
(* Columns                                                                 *)
(*   attempt   payment_attempt_status                                      *)
(*   status    status                                                      *)
(*   conf      booking_confirmation_status                                 *)
(*   txn       terminal_transaction_ref and terminal_merchant_id stored    *)
(*   pub       publish_attempted_at is set                                 *)
(*   ref       roller_booking_reference is set                             *)
(*   lease     reconciliation_claimed_at: none, younger than 3 min, older  *)
(*   last      reconciliation_last_result, as far as anything tests it     *)
(***************************************************************************)

AttemptStatus == {"created", "unknown", "failed", "cancelled", "approved", "reconciled"}
DraftStatus   == {"payment_pending", "failed", "cancelled", "published"}
Confirmation  == {"pending", "failed", "needs_staff", "confirmed"}
Lease         == {"none", "fresh", "expired"}
Outcome       == {"approved", "failed", "cancelled", "unknown"}

Row == [attempt : AttemptStatus, status : DraftStatus, conf : Confirmation,
        txn : BOOLEAN, pub : BOOLEAN, ref : BOOLEAN, lease : Lease,
        last : {"none", "confirmed", "other"}]

(* The row persistPrepaymentDraft inserts for a draft that still owes money. *)
NewRow == [attempt |-> "created", status |-> "payment_pending", conf |-> "pending",
           txn |-> FALSE, pub |-> FALSE, ref |-> FALSE, lease |-> "none",
           last |-> "none"]

Paid(row)       == row.attempt \in {"approved", "reconciled"}
Unresolved(row) == row.attempt \in {"created", "unknown"}
Published(row)  == row.status = "published"
Booked(row)     == row.conf = "confirmed" \/ Published(row)

(* The attempt no longer blocks its kiosk and terminal: the EXISTS test that *)
(* lets a new draft take over a claim.                                       *)
Settled(row) == row.attempt \in {"failed", "cancelled", "reconciled"} \/ Published(row)

-----------------------------------------------------------------------------
(* recordKioskTerminalOutcome: the terminal outcome o the kiosk reports.     *)

(* Mutant: the draft takes the outcome as its status. *)
OutcomeStatusRaw(o) == o

OutcomeStatus(o) == IF o \in {"failed", "cancelled"} THEN o ELSE "payment_pending"
OutcomeConf(o)   == CASE o = "approved" -> "pending"
                      [] o = "unknown"  -> "needs_staff"
                      [] OTHER          -> "failed"

(* Mutant: an approval is not kept against a later outcome. *)
RecordLastOutcome(row, o, txnReported) ==
  [row EXCEPT
     !.attempt = IF row.attempt = "reconciled" THEN @ ELSE o,
     !.status  = IF Published(row) THEN @ ELSE OutcomeStatus(o),
     !.conf    = IF Published(row) \/ row.attempt = "reconciled" THEN "confirmed" ELSE OutcomeConf(o),
     !.txn     = @ \/ (o = "approved" /\ txnReported)]

RecordOutcome(row, o, txnReported) ==
  LET sticks == row.attempt = "approved" /\ o # "approved" IN
  [row EXCEPT
     !.attempt = IF row.attempt = "reconciled" \/ sticks THEN @ ELSE o,
     !.status  = IF Published(row) \/ sticks THEN @ ELSE OutcomeStatus(o),
     !.conf    = IF Published(row) \/ row.attempt = "reconciled" THEN "confirmed"
                 ELSE IF row.attempt = "approved" THEN @ ELSE OutcomeConf(o),
     !.txn     = @ \/ /\ o = "approved" /\ txnReported
                      /\ ~Published(row) /\ row.attempt # "reconciled"]

-----------------------------------------------------------------------------
(* The reconciliation worker's statements.                                   *)

(* claimKioskReconciliation: the worker's three minute lease. *)
LeaseFree(row) == row.attempt = "approved" /\ row.conf = "pending" /\ row.lease # "fresh"
TakeLease(row) == [row EXCEPT !.lease = "fresh"]

(* claimKioskPublishAttempt: the durable claim of the one provider publish. *)
(* Mutant: the earlier publish is not looked at. *)
PublishFreeAgain(row) == row.attempt = "approved"

PublishFree(row)  == row.attempt = "approved" /\ ~row.pub
TakePublish(row)  == [row EXCEPT !.pub = TRUE, !.last = "other"]

(* recordKioskPublishResult has no guard, recordKioskReconciliationAttempt   *)
(* writes only while the attempt is approved.                                *)
RecordPublishResult(row) == [row EXCEPT !.last = "other"]
RecordReadback(row) == IF row.attempt = "approved" THEN [row EXCEPT !.last = "other"] ELSE row

(* markKioskReconciliationNeedsStaff never takes back a confirmation. *)
NeedsStaff(row) == IF row.conf = "confirmed" THEN row
                   ELSE [row EXCEPT !.conf = "needs_staff", !.last = "other"]

(* The 'confirmed' update of confirmKioskReconciliation and of its add-on    *)
(* counterpart: the caller has tested Paid(row).                             *)
(* Mutant: the attempt is not marked reconciled. *)
ConfirmKeepsAttempt(row) == [row EXCEPT !.status = "published", !.conf = "confirmed",
                                        !.ref = TRUE, !.last = "confirmed"]

Confirm(row) == [row EXCEPT !.status = "published", !.attempt = "reconciled",
                            !.conf = "confirmed", !.ref = TRUE, !.last = "confirmed"]

-----------------------------------------------------------------------------
(* The statements of the other writers.                                      *)

(* reconcilePrepaymentDraftFromPaidBooking of the webhook and lookup lambdas.*)
(* Mutant: only an approved attempt is published. *)
PublishApprovedOnly(row) ==
  IF row.status # "payment_pending" \/ ~Paid(row) THEN row
  ELSE [row EXCEPT !.status = "published", !.attempt = "reconciled", !.conf = "confirmed",
                   !.last = "other", !.ref = TRUE]

PublishFromPaidBooking(row) ==
  IF row.status # "payment_pending" THEN row
  ELSE [row EXCEPT !.status  = "published",
                   !.attempt = IF @ = "approved" THEN "reconciled" ELSE @,
                   !.conf    = IF Paid(row) THEN "confirmed" ELSE @,
                   !.last    = IF Paid(row) THEN "other" ELSE @,
                   !.ref     = TRUE]

(* The shared guard of the two releases "no payment was made".  `cached` is  *)
(* the existence of a local booking for the draft, tested in the statement.  *)
Releasable(row, cached) == ~Published(row) /\ ~row.ref /\ ~cached

(* releaseAbandonedKioskAttempt: an attempt that never reported a result. *)
ReleaseAbandoned(row, cached, oldEnough) ==
  IF row.attempt = "created" /\ Releasable(row, cached) /\ oldEnough
  THEN [row EXCEPT !.attempt = "cancelled", !.status = "cancelled",
                   !.conf = "failed", !.last = "other"]
  ELSE row

(* releaseKioskAttemptWithoutPayment: a staff member's "no payment". *)
ReleaseByStaff(row, cached, oldEnough) ==
  IF Unresolved(row) /\ Releasable(row, cached) /\ oldEnough
  THEN [row EXCEPT !.attempt = "failed", !.status = "failed",
                   !.conf = "failed", !.last = "other"]
  ELSE row

(* confirmKioskAttemptFromRollerEvidence, its first statement: ROLLER shows  *)
(* a paid booking for an attempt without a terminal result.                  *)
ApproveFromEvidence(row) ==
  IF Unresolved(row) THEN [row EXCEPT !.attempt = "approved", !.conf = "pending", !.last = "other"]
  ELSE row

-----------------------------------------------------------------------------
(* publicKioskPaymentStatus: what the kiosk is told.  `sync` is the booking  *)
(* sync status of the attempt's check-in session, "none" without a session;  *)
(* `attached` says that the session carries ROLLER's booking and tickets.    *)
PublicStatus(row, sync, attached) ==
  LET booked   == row.conf = "confirmed" \/ row.attempt = "reconciled" \/ Published(row)
      attachOK == sync = "none" \/ (sync = "confirmed" /\ attached) IN
  CASE booked /\ attachOK -> "confirmed"
    [] ~(booked /\ attachOK) /\
       (row.conf = "needs_staff" \/ sync = "needs_staff" \/ row.attempt = "unknown") -> "needs_staff"
    [] OTHER -> IF row.conf = "failed" \/ row.attempt \in {"failed", "cancelled"}
                THEN "failed" ELSE "pending"
=============================================================================
