-------------------------- MODULE KioskDraftProofs --------------------------
(***************************************************************************)
(* Lemmas about the statements of KioskDraft: what each of them does to    *)
(* one row, for every row.                                                 *)
(***************************************************************************)
EXTENDS KioskDraft, TLAPS

(* Every statement of the code leaves a well-formed row behind. *)
LEMMA StatementsKeepRow ==
  ASSUME NEW r \in Row
  PROVE  /\ \A o \in Outcome, t \in BOOLEAN : RecordOutcome(r, o, t) \in Row
         /\ TakeLease(r) \in Row /\ TakePublish(r) \in Row
         /\ RecordPublishResult(r) \in Row /\ RecordReadback(r) \in Row
         /\ NeedsStaff(r) \in Row /\ Confirm(r) \in Row
         /\ PublishFromPaidBooking(r) \in Row
         /\ \A c, a \in BOOLEAN : ReleaseAbandoned(r, c, a) \in Row /\ ReleaseByStaff(r, c, a) \in Row
         /\ ApproveFromEvidence(r) \in Row
<1>1. \A o \in Outcome, t \in BOOLEAN : RecordOutcome(r, o, t) \in Row
  <2> SUFFICES ASSUME NEW o \in Outcome, NEW t \in BOOLEAN PROVE RecordOutcome(r, o, t) \in Row
    OBVIOUS
  <2> DEFINE sticks  == r.attempt = "approved" /\ o # "approved"
             attempt == IF r.attempt = "reconciled" \/ sticks THEN r.attempt ELSE o
             status  == IF Published(r) \/ sticks THEN r.status ELSE OutcomeStatus(o)
             conf    == IF Published(r) \/ r.attempt = "reconciled" THEN "confirmed"
                        ELSE IF r.attempt = "approved" THEN r.conf ELSE OutcomeConf(o)
             txn     == r.txn \/ /\ o = "approved" /\ t
                                 /\ ~Published(r) /\ r.attempt # "reconciled"
  <2>1. attempt \in AttemptStatus
    BY DEF Row, Outcome, AttemptStatus
  <2>2. status \in DraftStatus
    BY DEF Row, Outcome, OutcomeStatus, DraftStatus
  <2>3. conf \in Confirmation
    BY DEF Row, Outcome, OutcomeConf, Confirmation
  <2>4. txn \in BOOLEAN
    OBVIOUS
  <2>5. RecordOutcome(r, o, t) =
          [r EXCEPT !.attempt = attempt, !.status = status, !.conf = conf, !.txn = txn]
    BY Zenon DEF RecordOutcome
  <2> HIDE DEF attempt, status, conf, txn
  <2> QED BY <2>1, <2>2, <2>3, <2>4, <2>5 DEF Row
<1>2. TakeLease(r) \in Row /\ TakePublish(r) \in Row
  BY DEF TakeLease, TakePublish, Row, Lease
<1>3. RecordPublishResult(r) \in Row /\ RecordReadback(r) \in Row
  BY DEF RecordPublishResult, RecordReadback, Row
<1>4. NeedsStaff(r) \in Row /\ Confirm(r) \in Row
  <2>1. NeedsStaff(r) \in Row
    BY DEF NeedsStaff, Row, Confirmation
  <2>2. Confirm(r) \in Row
    BY DEF Confirm, Row, AttemptStatus, DraftStatus, Confirmation
  <2> QED BY <2>1, <2>2
<1>5. PublishFromPaidBooking(r) \in Row
  BY ZenonT(40) DEF PublishFromPaidBooking, Paid, Row, AttemptStatus, DraftStatus, Confirmation
<1>6. \A c, a \in BOOLEAN : ReleaseAbandoned(r, c, a) \in Row /\ ReleaseByStaff(r, c, a) \in Row
  <2> SUFFICES ASSUME NEW c \in BOOLEAN, NEW a \in BOOLEAN
               PROVE  ReleaseAbandoned(r, c, a) \in Row /\ ReleaseByStaff(r, c, a) \in Row
    OBVIOUS
  <2>1. ReleaseAbandoned(r, c, a) \in Row
    BY ZenonT(40) DEF ReleaseAbandoned, Row, AttemptStatus, DraftStatus, Confirmation
  <2>2. ReleaseByStaff(r, c, a) \in Row
    BY ZenonT(40) DEF ReleaseByStaff, Row, AttemptStatus, DraftStatus, Confirmation
  <2> QED BY <2>1, <2>2
<1>7. ApproveFromEvidence(r) \in Row
  BY DEF ApproveFromEvidence, Row, AttemptStatus, Confirmation
<1> QED BY <1>1, <1>2, <1>3, <1>4, <1>5, <1>6, <1>7

-----------------------------------------------------------------------------
(* What a statement does to the row's lifecycle.                             *)

(* The statements of every handler but the publish claim and the confirmation *)
(* of the handoff, as a relation between the row before and after.            *)
Statement(r, s) ==
  \/ s = r
  \/ \E o \in Outcome, t \in BOOLEAN : s = RecordOutcome(r, o, t)
  \/ s = TakeLease(r) \/ s = [r EXCEPT !.lease = "expired"]
  \/ s = RecordPublishResult(r) \/ s = RecordReadback(r) \/ s = NeedsStaff(r)
  \/ s = PublishFromPaidBooking(r) \/ s = ApproveFromEvidence(r)
  \/ \E c, a \in BOOLEAN : s = ReleaseAbandoned(r, c, a) \/ s = ReleaseByStaff(r, c, a)

KeptIn(r, s) == /\ Paid(r) => Paid(s)
                /\ Published(r) => Published(s)
                /\ r.pub => s.pub
                /\ r.ref => s.ref
                /\ r.attempt = "reconciled" => s.attempt = "reconciled"

(* How the three status columns agree.  A failed or cancelled attempt is not *)
(* left open for a late paid booking, and only such an attempt is closed to  *)
(* one; an approval is not left with a failed confirmation, which no worker  *)
(* would claim; what is confirmed or reconciled is published.                *)
Agree(r) ==
  /\ r.attempt \in {"failed", "cancelled"} => r.status \in {"failed", "cancelled", "published"}
  /\ r.status \in {"failed", "cancelled"} => r.attempt \in {"failed", "cancelled"}
  /\ r.attempt = "reconciled" => Published(r)
  /\ r.conf = "failed" => r.attempt \in {"failed", "cancelled"}
  /\ r.conf = "confirmed" => Published(r)

(* The outcome that Promise reads off the row. *)
Lifecycle(r) == IF Published(r) THEN "booked"
                ELSE IF Paid(r) THEN "paid"
                ELSE IF r.attempt \in {"failed", "cancelled"} THEN "released" ELSE "open"

MovesOn(o, n) == \/ n = o
                 \/ o \in {"open", "released"} /\ n \in {"open", "released", "paid"}
                 \/ o \in {"open", "paid"} /\ n = "booked"

(* Every statement on the row keeps what Kept names and moves the outcome    *)
(* forward only.                                                             *)
LEMMA StatementLifecycle ==
  ASSUME NEW r \in Row, NEW s, Statement(r, s)
  PROVE  KeptIn(r, s) /\ (Agree(r) => Agree(s) /\ MovesOn(Lifecycle(r), Lifecycle(s)))
<1> USE DEF KeptIn, Agree, MovesOn, Lifecycle, Paid, Published
<1>1. CASE s = r
  BY <1>1
<1>2. ASSUME NEW o \in Outcome, NEW t \in BOOLEAN, s = RecordOutcome(r, o, t)
      PROVE  KeptIn(r, s) /\ (Agree(r) => Agree(s) /\ MovesOn(Lifecycle(r), Lifecycle(s)))
  <2>1. s.pub = r.pub /\ s.ref = r.ref
    BY <1>2 DEF RecordOutcome, Row
  <2>2. s.attempt = IF r.attempt = "reconciled" \/ (r.attempt = "approved" /\ o # "approved")
                    THEN r.attempt ELSE o
    BY <1>2 DEF RecordOutcome, Row
  <2>3. s.status = IF Published(r) \/ (r.attempt = "approved" /\ o # "approved")
                   THEN r.status ELSE OutcomeStatus(o)
    BY <1>2 DEF RecordOutcome, Row
  <2>4. s.conf = IF Published(r) \/ r.attempt = "reconciled" THEN "confirmed"
                 ELSE IF r.attempt = "approved" THEN r.conf ELSE OutcomeConf(o)
    BY <1>2 DEF RecordOutcome, Row
  <2>5. Agree(r) => /\ s.conf = "failed" => s.attempt \in {"failed", "cancelled"}
                    /\ s.conf = "confirmed" => Published(s)
    BY <2>2, <2>3, <2>4 DEF OutcomeConf, Outcome
  <2> QED BY <2>1, <2>2, <2>3, <2>5 DEF OutcomeStatus, Outcome, Row, AttemptStatus, DraftStatus
<1>3. CASE s = TakeLease(r) \/ s = [r EXCEPT !.lease = "expired"]
  BY <1>3 DEF TakeLease, Row
<1>4. CASE s = RecordPublishResult(r) \/ s = RecordReadback(r)
  BY <1>4 DEF RecordPublishResult, RecordReadback, Row
<1>5. CASE s = NeedsStaff(r)
  BY <1>5 DEF NeedsStaff, Row
<1>6. CASE s = PublishFromPaidBooking(r)
  BY <1>6 DEF PublishFromPaidBooking, Row
<1>7. CASE s = ApproveFromEvidence(r)
  BY <1>7 DEF ApproveFromEvidence, Unresolved, Row
<1>8. ASSUME NEW c \in BOOLEAN, NEW a \in BOOLEAN,
             s = ReleaseAbandoned(r, c, a) \/ s = ReleaseByStaff(r, c, a)
      PROVE  KeptIn(r, s) /\ (Agree(r) => Agree(s) /\ MovesOn(Lifecycle(r), Lifecycle(s)))
  <2>1. CASE s = ReleaseAbandoned(r, c, a)
    BY <2>1 DEF ReleaseAbandoned, Releasable, Unresolved, Row
  <2>2. CASE s = ReleaseByStaff(r, c, a)
    BY <2>2 DEF ReleaseByStaff, Releasable, Unresolved, Row
  <2> QED BY <1>8, <2>1, <2>2
<1> QED BY <1>1, <1>2, <1>3, <1>4, <1>5, <1>6, <1>7, <1>8 DEF Statement

-----------------------------------------------------------------------------
(* Which statements fail an attempt.                                         *)

Failed(r) == r.attempt \in {"failed", "cancelled"}

(* Only a reported decline and the two releases fail an attempt. *)
LEMMA StatementsFailing ==
  ASSUME NEW r \in Row
  PROVE  /\ \A o \in Outcome, t \in BOOLEAN :
               Failed(RecordOutcome(r, o, t)) => Failed(r) \/ o \in {"failed", "cancelled"}
         /\ Failed(TakeLease(r)) => Failed(r)
         /\ Failed(TakePublish(r)) => Failed(r)
         /\ Failed(RecordPublishResult(r)) => Failed(r)
         /\ Failed(RecordReadback(r)) => Failed(r)
         /\ Failed(NeedsStaff(r)) => Failed(r)
         /\ Failed(Confirm(r)) => Failed(r)
         /\ Failed(PublishFromPaidBooking(r)) => Failed(r)
         /\ Failed(ApproveFromEvidence(r)) => Failed(r)
<1> USE DEF Failed
<1>1. ASSUME NEW o \in Outcome, NEW t \in BOOLEAN, Failed(RecordOutcome(r, o, t))
      PROVE  Failed(r) \/ o \in {"failed", "cancelled"}
  <2>1. RecordOutcome(r, o, t).attempt =
          IF r.attempt = "reconciled" \/ (r.attempt = "approved" /\ o # "approved")
          THEN r.attempt ELSE o
    BY DEF RecordOutcome, Row
  <2> QED BY <1>1, <2>1
<1>2. (Failed(TakeLease(r)) => Failed(r)) /\ (Failed(TakePublish(r)) => Failed(r))
  BY DEF TakeLease, TakePublish, Row
<1>3. (Failed(RecordPublishResult(r)) => Failed(r)) /\ (Failed(RecordReadback(r)) => Failed(r))
  BY DEF RecordPublishResult, RecordReadback, Row
<1>4. (Failed(NeedsStaff(r)) => Failed(r)) /\ (Failed(Confirm(r)) => Failed(r))
  BY DEF NeedsStaff, Confirm, Row
<1>5. (Failed(PublishFromPaidBooking(r)) => Failed(r)) /\ (Failed(ApproveFromEvidence(r)) => Failed(r))
  BY DEF PublishFromPaidBooking, ApproveFromEvidence, Row
<1> QED BY <1>1, <1>2, <1>3, <1>4, <1>5
-----------------------------------------------------------------------------
(* Which statements leave an approved payment for somebody to resolve.       *)

(* Approved, not booked, and not handed to staff. *)
Awaiting(r) == r.attempt = "approved" /\ ~Booked(r) /\ r.conf # "needs_staff"

(* Only an approval makes a row await its booking: no statement takes an     *)
(* approved one back to it from staff or from a booking.  Only the claim     *)
(* renews a lease.                                                           *)
LEMMA StatementsAwait ==
  ASSUME NEW r \in Row
  PROVE  /\ \A o \in Outcome, t \in BOOLEAN :
              /\ RecordOutcome(r, o, t).lease = r.lease
              /\ Awaiting(RecordOutcome(r, o, t)) => Awaiting(r) \/ (~Paid(r) /\ o = "approved")
         /\ ApproveFromEvidence(r).lease = r.lease
         /\ Awaiting(ApproveFromEvidence(r)) => Awaiting(r) \/ ~Paid(r)
         /\ Awaiting(TakeLease(r)) => Awaiting(r)
         /\ \A c, a \in BOOLEAN :
              \A s \in {ReleaseAbandoned(r, c, a), ReleaseByStaff(r, c, a), TakePublish(r),
                        RecordPublishResult(r), RecordReadback(r), PublishFromPaidBooking(r)} :
                s.lease = r.lease /\ (Awaiting(s) => Awaiting(r))
         /\ \A s \in {NeedsStaff(r), Confirm(r)} : s.lease = r.lease /\ ~Awaiting(s)
<1> USE DEF Awaiting, Booked, Paid, Published
<1>1. ASSUME NEW o \in Outcome, NEW t \in BOOLEAN
      PROVE  /\ RecordOutcome(r, o, t).lease = r.lease
             /\ Awaiting(RecordOutcome(r, o, t)) => Awaiting(r) \/ (~Paid(r) /\ o = "approved")
  <2> DEFINE s == RecordOutcome(r, o, t)
  <2>1. s.lease = r.lease
    BY DEF RecordOutcome, Row
  <2>2. s.attempt = IF r.attempt = "reconciled" \/ (r.attempt = "approved" /\ o # "approved")
                    THEN r.attempt ELSE o
    BY DEF RecordOutcome, Row
  <2>3. s.status = IF Published(r) \/ (r.attempt = "approved" /\ o # "approved")
                   THEN r.status ELSE OutcomeStatus(o)
    BY DEF RecordOutcome, Row
  <2>4. s.conf = IF Published(r) \/ r.attempt = "reconciled" THEN "confirmed"
                 ELSE IF r.attempt = "approved" THEN r.conf ELSE OutcomeConf(o)
    BY DEF RecordOutcome, Row
  <2> HIDE DEF s
  <2>5. Awaiting(s) => Awaiting(r) \/ (~Paid(r) /\ o = "approved")
    BY <2>2, <2>3, <2>4
  <2> QED BY <2>1, <2>5 DEF s
<1>2. /\ ApproveFromEvidence(r).lease = r.lease
      /\ Awaiting(ApproveFromEvidence(r)) => Awaiting(r) \/ ~Paid(r)
  BY DEF ApproveFromEvidence, Unresolved, Row
<1>3. Awaiting(TakeLease(r)) => Awaiting(r)
  BY DEF TakeLease, Row
<1>4. ASSUME NEW c \in BOOLEAN, NEW a \in BOOLEAN,
             NEW s \in {ReleaseAbandoned(r, c, a), ReleaseByStaff(r, c, a)}
      PROVE  s.lease = r.lease /\ (Awaiting(s) => Awaiting(r))
  BY DEF ReleaseAbandoned, ReleaseByStaff, Releasable, Unresolved, Row
<1>5. ASSUME NEW s \in {TakePublish(r), RecordPublishResult(r), RecordReadback(r)}
      PROVE  s.lease = r.lease /\ (Awaiting(s) => Awaiting(r))
  BY DEF TakePublish, RecordPublishResult, RecordReadback, Row
<1>6. /\ PublishFromPaidBooking(r).lease = r.lease
      /\ Awaiting(PublishFromPaidBooking(r)) => Awaiting(r)
  BY DEF PublishFromPaidBooking, Row
<1>7. \A s \in {NeedsStaff(r), Confirm(r)} : s.lease = r.lease /\ ~Awaiting(s)
  BY DEF NeedsStaff, Confirm, Row
<1> HIDE DEF Awaiting, Paid
<1> QED BY <1>1, <1>2, <1>3, <1>4, <1>5, <1>6, <1>7
-----------------------------------------------------------------------------
(* Which statements make an attempt a paid one.                              *)

(* Only a reported approval and ROLLER's evidence approve an attempt; every  *)
(* other statement leaves an unpaid one unpaid.                              *)
LEMMA StatementsPaying ==
  ASSUME NEW r \in Row
  PROVE  /\ \A o \in Outcome, t \in BOOLEAN :
              Paid(RecordOutcome(r, o, t)) => Paid(r) \/ o = "approved"
         /\ \A s \in {TakeLease(r), TakePublish(r), RecordPublishResult(r), RecordReadback(r),
                      NeedsStaff(r), PublishFromPaidBooking(r)} : Paid(s) => Paid(r)
         /\ \A c, a \in BOOLEAN : \A s \in {ReleaseAbandoned(r, c, a), ReleaseByStaff(r, c, a)} :
              Paid(s) => Paid(r)
<1> USE DEF Paid
<1>1. ASSUME NEW o \in Outcome, NEW t \in BOOLEAN, Paid(RecordOutcome(r, o, t))
      PROVE  Paid(r) \/ o = "approved"
  <2>1. RecordOutcome(r, o, t).attempt =
          IF r.attempt = "reconciled" \/ (r.attempt = "approved" /\ o # "approved")
          THEN r.attempt ELSE o
    BY DEF RecordOutcome, Row
  <2> QED BY <1>1, <2>1 DEF Outcome
<1>2. \A s \in {TakeLease(r), TakePublish(r), RecordPublishResult(r), RecordReadback(r)} :
        Paid(s) => Paid(r)
  BY DEF TakeLease, TakePublish, RecordPublishResult, RecordReadback, Row
<1>3. \A s \in {NeedsStaff(r), PublishFromPaidBooking(r)} : Paid(s) => Paid(r)
  BY DEF NeedsStaff, PublishFromPaidBooking, Row
<1>4. ASSUME NEW c \in BOOLEAN, NEW a \in BOOLEAN,
             NEW s \in {ReleaseAbandoned(r, c, a), ReleaseByStaff(r, c, a)}
      PROVE  Paid(s) => Paid(r)
  BY DEF ReleaseAbandoned, ReleaseByStaff, Unresolved, Row
<1> QED BY <1>1, <1>2, <1>3, <1>4

(* Only the paid-booking signal and the confirmation publish a draft, and    *)
(* only a reported decline fails a published one.                            *)
LEMMA StatementsPublishing ==
  ASSUME NEW r \in Row
  PROVE  /\ \A o \in Outcome, t \in BOOLEAN : Published(RecordOutcome(r, o, t)) => Published(r)
         /\ \A s \in {TakeLease(r), TakePublish(r), RecordPublishResult(r), RecordReadback(r),
                      NeedsStaff(r), ApproveFromEvidence(r)} : Published(s) => Published(r)
         /\ \A c, a \in BOOLEAN : \A s \in {ReleaseAbandoned(r, c, a), ReleaseByStaff(r, c, a)} :
              /\ Published(s) => Published(r)
              /\ Failed(s) => Failed(r) \/ ~Published(r)
<1> USE DEF Published
<1>1. ASSUME NEW o \in Outcome, NEW t \in BOOLEAN, Published(RecordOutcome(r, o, t))
      PROVE  Published(r)
  <2>1. RecordOutcome(r, o, t).status =
          IF Published(r) \/ (r.attempt = "approved" /\ o # "approved")
          THEN r.status ELSE OutcomeStatus(o)
    BY DEF RecordOutcome, Row
  <2> QED BY <1>1, <2>1 DEF OutcomeStatus
<1>2. \A s \in {TakeLease(r), TakePublish(r), RecordPublishResult(r), RecordReadback(r)} :
        Published(s) => Published(r)
  BY DEF TakeLease, TakePublish, RecordPublishResult, RecordReadback, Row
<1>3. \A s \in {NeedsStaff(r), ApproveFromEvidence(r)} : Published(s) => Published(r)
  BY DEF NeedsStaff, ApproveFromEvidence, Row
<1>4. ASSUME NEW c \in BOOLEAN, NEW a \in BOOLEAN,
             NEW s \in {ReleaseAbandoned(r, c, a), ReleaseByStaff(r, c, a)}
      PROVE  (Published(s) => Published(r)) /\ (Failed(s) => Failed(r) \/ ~Published(r))
  BY DEF ReleaseAbandoned, ReleaseByStaff, Releasable, Failed, Row
<1> QED BY <1>1, <1>2, <1>3, <1>4

(* A published draft whose attempt failed was published before.              *)
LEMMA StatementsBoth ==
  ASSUME NEW r \in Row, NEW s, Statement(r, s), Agree(r), Published(s), Failed(s)
  PROVE  Published(r)
<1> USE DEF Published, Failed
<1>1. ASSUME NEW o \in Outcome, NEW t \in BOOLEAN, s = RecordOutcome(r, o, t) PROVE Published(r)
  BY <1>1, StatementsPublishing
<1>2. CASE s = [r EXCEPT !.lease = "expired"]
  BY <1>2 DEF Row
<1>3. CASE s = PublishFromPaidBooking(r)
  BY <1>3 DEF PublishFromPaidBooking, Agree, Row
<1>4. ASSUME NEW c \in BOOLEAN, NEW a \in BOOLEAN,
             s = ReleaseAbandoned(r, c, a) \/ s = ReleaseByStaff(r, c, a)
      PROVE  Published(r)
  BY <1>4, StatementsPublishing
<1> QED BY <1>1, <1>2, <1>3, <1>4, StatementsPublishing DEF Statement
=============================================================================
