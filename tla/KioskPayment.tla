---------------------------- MODULE KioskPayment ----------------------------
(***************************************************************************)
(* One kiosk terminal payment, from the draft the kiosk received to the    *)
(* confirmed check-in session (infra/lambda/booking/index.js, with the     *)
(* webhook and lookup lambdas that confirm the same row).                  *)
(*                                                                         *)
(* Every SQL statement is one step; the code holds no transaction between  *)
(* two of them, so any handler may run between two steps of another.  The  *)
(* processes are single invocations of a handler:                          *)
(*   Callers   POST /v1/bookings/draft/finalize, action result or status   *)
(*   Workers   asynchronous invocations of the reconciliation worker       *)
(*   Webhooks  deliveries of ROLLER's webhook events from the queue        *)
(*   Lookups   lookups of the booking by a guest or by staff               *)
(*   Staff     requests of the staff resolution panel on the kiosk         *)
(*   Rivals    later draft requests that find the kiosk's claims busy      *)
(***************************************************************************)
EXTENDS KioskDraft, Naturals

CONSTANTS Callers, Workers, Webhooks, Lookups, Staff, Rivals,
          Offsets,       \* read-back steps of a worker
          MaxFaults,     \* bound on crashes and failed statements
          TimelyBooking  \* terminal and ROLLER keep the waits D0239 and D0286 rely on

Signals == Webhooks \cup Lookups
Proc == Callers \cup Workers \cup Signals \cup Staff \cup Rivals

ASSUME ProcAssumption ==
  /\ Callers \cap (Workers \cup Signals \cup Staff \cup Rivals) = {}
  /\ Workers \cap (Signals \cup Staff \cup Rivals) = {}
  /\ Webhooks \cap (Lookups \cup Staff \cup Rivals) = {}
  /\ Lookups \cap (Staff \cup Rivals) = {}
  /\ Staff \cap Rivals = {}
ASSUME BoundAssumption == /\ Offsets \in Nat \ {0} /\ MaxFaults \in Nat
                          /\ TimelyBooking \in BOOLEAN

VARIABLES
  row,        \* the prepayment_booking_drafts row of the attempt
  session,    \* its check-in session and guest token
  cache,      \* the roller_bookings row of its booking, by who wrote it
  roller,     \* ROLLER: the booking, and the publish calls it received
  terminal,   \* the kiosk and its card terminal
  age,        \* of the draft: 0 younger than 5 min, 1 than 10 min, 2 older
  events,     \* accepted asynchronous worker invocations not yet started
  admissions, \* automatic check-ins requested for the session
  faults,     \* crashes and failed statements so far
  pc, mem     \* per process: its next step and what it remembers

env  == <<terminal, age, roller>>
vars == <<row, session, cache, roller, terminal, age, events, admissions, faults, pc, mem>>

Sync     == {"none", "pending", "needs_staff", "confirmed"}
Terminal == {"draft", "ready", "lost", "charged", "declined"}
Steps    == {"idle", "done", "handoffRead", "handoffBooking", "handoffToken",
             "handoffSession", "dispatch", "needsStaff", "claim", "reread",
             "publishClaim", "publish", "publishResult", "readback", "snapshot",
             "confirm", "admit", "repair", "reconcile", "select", "evidence",
             "release", "approve"}
Kinds    == {"none", "result", "status", "no_payment", "paid"}

TypeOK ==
  /\ row \in Row
  /\ session \in [sync : Sync, attached : BOOLEAN, token : BOOLEAN]
  /\ cache \in {"none", "provisional", "worker", "authoritative"}
  /\ roller \in [paid : BOOLEAN, publishes : Nat]
  /\ terminal \in Terminal
  /\ age \in 0..2
  /\ events \in Nat
  /\ admissions \in Nat
  /\ faults \in 0..MaxFaults
  /\ pc \in [Proc -> Steps]
  /\ mem \in [Proc -> [kind : Kinds, flag : BOOLEAN, tries : 0..Offsets]]

NoMem == [kind |-> "none", flag |-> FALSE, tries |-> 0]

Init ==
  /\ row = NewRow
  /\ session = [sync |-> "none", attached |-> FALSE, token |-> FALSE]
  /\ cache = "none"
  /\ roller = [paid |-> FALSE, publishes |-> 0]
  /\ terminal = "draft" /\ age = 0
  /\ events = 0 /\ admissions = 0 /\ faults = 0
  /\ pc = [p \in Proc |-> "idle"]
  /\ mem = [p \in Proc |-> NoMem]

At(p, step) == pc[p] = step
Goto(p, step) == pc' = [pc EXCEPT ![p] = step]
Cached == cache # "none"
Attached == session.sync = "confirmed" /\ session.attached

-----------------------------------------------------------------------------
(* The kiosk, its terminal and ROLLER.                                       *)

(* The draft answer, with the payment token, reaches the kiosk or is lost. *)
DraftArrives ==
  /\ terminal = "draft"
  /\ terminal' \in {"ready", "lost"}
  /\ UNCHANGED <<row, session, cache, roller, age, events, admissions, faults, pc, mem>>

TerminalDecides ==
  /\ terminal = "ready"
  /\ terminal' \in {"charged", "declined"}
  /\ UNCHANGED <<row, session, cache, roller, age, events, admissions, faults, pc, mem>>

(* ROLLER turns the terminal's payment notification into a paid booking. *)
RollerBooks ==
  /\ terminal = "charged" /\ ~roller.paid
  /\ roller' = [roller EXCEPT !.paid = TRUE]
  /\ UNCHANGED <<row, session, cache, terminal, age, events, admissions, faults, pc, mem>>

(* Under TimelyBooking the first five minutes outlast the terminal's time-out *)
(* and ROLLER's notification.                                                 *)
Tick ==
  /\ age < 2
  /\ TimelyBooking => \/ terminal \in {"lost", "declined"}
                      \/ terminal = "charged" /\ roller.paid
  /\ age' = age + 1
  /\ UNCHANGED <<row, session, cache, roller, terminal, events, admissions, faults, pc, mem>>

LeaseExpires ==
  /\ row.lease = "fresh"
  /\ row' = [row EXCEPT !.lease = "expired"]
  /\ UNCHANGED <<session, cache, env, events, admissions, faults, pc, mem>>

(* What the kiosk can truthfully report of the terminal. *)
Reportable(o) == CASE o = "approved" -> terminal = "charged"
                   [] o = "unknown"  -> terminal \in {"ready", "charged", "declined"}
                   [] OTHER          -> terminal = "declined"

-----------------------------------------------------------------------------
(* handleDraftFinalize.                                                      *)

(* Any outcome is recorded in one statement; only an approval goes on, and   *)
(* not when the booking was confirmed before it.                             *)
FinalizeResult(p, o, txnReported) ==
  /\ p \in Callers /\ At(p, "idle") /\ Reportable(o)
  /\ row' = RecordOutcome(row, o, txnReported)
  /\ Goto(p, IF o # "approved" \/ Booked(row') THEN "done" ELSE "handoffRead")
  /\ mem' = [mem EXCEPT ![p].kind = "result"]
  /\ UNCHANGED <<session, cache, env, events, admissions, faults>>

FinalizeStatus(p) ==
  /\ p \in Callers /\ At(p, "idle") /\ terminal \notin {"draft", "lost"}
  /\ Goto(p, IF row.attempt = "approved" THEN "handoffRead" ELSE "done")
  /\ mem' = [mem EXCEPT ![p].kind = "status"]
  /\ UNCHANGED <<row, session, cache, env, events, admissions, faults>>

(* Where ensureProvisionalKioskHandoff returns to. *)
AfterHandoff(p) == IF p \in Staff THEN "snapshot"
                   ELSE IF mem[p].kind = "result" THEN "dispatch" ELSE "done"

(* It reads the row, then writes in three statements and never looks again. *)
HandoffRead(p) ==
  /\ At(p, "handoffRead")
  /\ Goto(p, IF row.attempt = "approved" THEN "handoffBooking" ELSE AfterHandoff(p))
  /\ UNCHANGED <<row, session, cache, env, events, admissions, faults, mem>>

HandoffBooking(p) ==
  /\ At(p, "handoffBooking")
  /\ cache' = IF cache = "none" THEN "provisional" ELSE cache
  /\ Goto(p, "handoffToken")
  /\ UNCHANGED <<row, session, env, events, admissions, faults, mem>>

HandoffToken(p) ==
  /\ At(p, "handoffToken")
  /\ session' = [session EXCEPT !.token = TRUE]
  /\ Goto(p, "handoffSession")
  /\ UNCHANGED <<row, cache, env, events, admissions, faults, mem>>

(* The session upsert: on conflict the new summary is merged over the old. *)
HandoffSession(p) ==
  /\ At(p, "handoffSession")
  /\ session' = [session EXCEPT !.sync = "pending"]
  /\ Goto(p, AfterHandoff(p))
  /\ UNCHANGED <<row, cache, env, events, admissions, faults, mem>>

(* A failed statement of the handoff is swallowed by finalize; it ends a    *)
(* staff request.                                                           *)
HandoffFails(p) ==
  /\ pc[p] \in {"handoffBooking", "handoffToken", "handoffSession"}
  /\ faults < MaxFaults /\ faults' = faults + 1
  /\ Goto(p, IF p \in Staff THEN "done" ELSE AfterHandoff(p))
  /\ UNCHANGED <<row, session, cache, env, events, admissions, mem>>

(* The worker is invoked asynchronously.  A closed write gate or a refused  *)
(* dispatch hands the attempt to staff instead.                             *)
Dispatch(p) ==
  /\ At(p, "dispatch")
  /\ \/ events' = events + 1 /\ Goto(p, "done")
     \/ UNCHANGED events /\ Goto(p, "needsStaff")
  /\ UNCHANGED <<row, session, cache, env, admissions, faults, mem>>

(* markKioskReconciliationNeedsStaff, from any process: row and provisional *)
(* session in one statement.  A webhook event is retried, a lookup is not.  *)
MarkNeedsStaff(p) ==
  /\ At(p, "needsStaff")
  /\ row' = NeedsStaff(row)
  /\ session' = IF row'.conf # "confirmed" /\ session.sync \notin {"none", "confirmed"}
                THEN [session EXCEPT !.sync = "needs_staff"] ELSE session
  /\ \/ Goto(p, "done")
     \/ p \in Webhooks /\ Goto(p, "idle")
  /\ UNCHANGED <<cache, env, events, admissions, faults, mem>>

-----------------------------------------------------------------------------
(* handleKioskPaymentReconciliation, the background worker.                  *)

(* A worker that finds the booking confirmed ends, or repairs the handoff.   *)
ResumeBooked(p) == Goto(p, IF Attached THEN "done" ELSE "repair")

(* Asynchronous invocations are delivered at least once. *)
WorkerStart(w) ==
  /\ w \in Workers /\ At(w, "idle") /\ events > 0
  /\ events' \in {events, events - 1}
  /\ CASE ~Paid(row)             -> Goto(w, "done")
       [] Paid(row) /\ Booked(row) -> ResumeBooked(w)
       [] OTHER                  -> \/ Goto(w, "claim")
                                    \/ Goto(w, "needsStaff")   \* a write gate is closed
  /\ UNCHANGED <<row, session, cache, env, admissions, faults, mem>>

(* The lease is taken and the terminal payment is read with it; a provider  *)
(* set-up failure after that hands over to staff.                           *)
WorkerClaim(w) ==
  /\ At(w, "claim")
  /\ IF LeaseFree(row)
     THEN /\ row' = TakeLease(row)
          /\ mem' = [mem EXCEPT ![w].flag = row.txn]
          /\ Goto(w, "reread") \/ Goto(w, "needsStaff")
     ELSE Goto(w, "done") /\ UNCHANGED <<row, mem>>
  /\ UNCHANGED <<session, cache, env, events, admissions, faults>>

(* Each step of the loop first reads the row again. *)
WorkerReread(w) ==
  /\ At(w, "reread")
  /\ IF Booked(row) THEN ResumeBooked(w) /\ UNCHANGED mem
     ELSE IF row.attempt # "approved" THEN Goto(w, "done") /\ UNCHANGED mem
     ELSE /\ Goto(w, IF mem[w].flag THEN "publishClaim" ELSE "readback")
          /\ mem' = [mem EXCEPT ![w].flag = FALSE]
  /\ UNCHANGED <<row, session, cache, env, events, admissions, faults>>

WorkerPublishClaim(w) ==
  /\ At(w, "publishClaim")
  /\ IF PublishFree(row) THEN row' = TakePublish(row) /\ Goto(w, "publish")
                         ELSE UNCHANGED row /\ Goto(w, "readback")
  /\ UNCHANGED <<session, cache, env, events, admissions, faults, mem>>

(* The publish call carries the payment.  Accepted, or lost on its way back,*)
(* it leaves a paid booking; rejected or lost on its way there, it does not.*)
WorkerPublish(w) ==
  /\ At(w, "publish")
  /\ roller' \in [paid : {TRUE, roller.paid}, publishes : {roller.publishes + 1}]
  /\ Goto(w, "publishResult")
  /\ UNCHANGED <<row, session, cache, terminal, age, events, admissions, faults, mem>>

WorkerPublishResult(w) ==
  /\ At(w, "publishResult")
  /\ row' = RecordPublishResult(row)
  /\ Goto(w, "readback")
  /\ UNCHANGED <<session, cache, env, events, admissions, faults, mem>>

(* Mutant: a booking that still owes the amount counts as paid. *)
ReadbackUnpaid(w) ==
  /\ At(w, "readback")
  /\ row' = RecordReadback(row)
  /\ Goto(w, "snapshot")
  /\ UNCHANGED <<session, cache, env, events, admissions, faults, mem>>

(* Mutant: after the last offset the worker just ends. *)
ReadbackGivesUp(w) ==
  /\ At(w, "readback")
  /\ row' = RecordReadback(row)
  /\ \/ roller.paid /\ Goto(w, "snapshot") /\ UNCHANGED mem
     \/ /\ mem[w].tries + 1 < Offsets
        /\ mem' = [mem EXCEPT ![w].tries = @ + 1]
        /\ Goto(w, "reread")
     \/ mem[w].tries + 1 >= Offsets /\ Goto(w, "done") /\ UNCHANGED mem
  /\ UNCHANGED <<session, cache, env, events, admissions, faults>>

(* One authoritative read; after the last offset the worker gives up. *)
WorkerReadback(w) ==
  /\ At(w, "readback")
  /\ row' = RecordReadback(row)
  /\ \/ roller.paid /\ Goto(w, "snapshot") /\ UNCHANGED mem
     \/ /\ mem[w].tries + 1 < Offsets
        /\ mem' = [mem EXCEPT ![w].tries = @ + 1]
        /\ Goto(w, "reread")
     \/ mem[w].tries + 1 >= Offsets /\ Goto(w, "needsStaff") /\ UNCHANGED mem
  /\ UNCHANGED <<session, cache, env, events, admissions, faults>>

-----------------------------------------------------------------------------
(* Storing and attaching the booking: workers, signals and staff requests.   *)

(* persistKioskReconciliationBookingSnapshot keeps a row a live read wrote.  *)
Snapshot(p) ==
  /\ At(p, "snapshot")
  /\ cache' = IF cache = "authoritative" THEN cache ELSE "worker"
  /\ Goto(p, "confirm")
  /\ UNCHANGED <<row, session, env, events, admissions, faults, mem>>

(* repairKioskHandoffFromAuthoritativeStorage: one stored booking of a live  *)
(* ROLLER read.  A booking that no longer matches the sale is refused.       *)
Repair(p) ==
  /\ At(p, "repair")
  /\ \/ Paid(row) /\ cache = "authoritative" /\ Goto(p, "confirm")
     \/ Goto(p, "needsStaff")
  /\ UNCHANGED <<row, session, cache, env, events, admissions, faults, mem>>

(* confirmKioskReconciliation: row, session and token in one statement, and  *)
(* only with exactly one session and token.  Only a session that was not     *)
(* confirmed for this booking before goes on to the automatic check-in.      *)
ConfirmHandoff(p) ==
  /\ At(p, "confirm")
  /\ IF Paid(row) /\ session.sync # "none" /\ session.token
     THEN /\ row' = Confirm(row)
          /\ session' = [session EXCEPT !.sync = "confirmed", !.attached = TRUE]
          /\ Goto(p, IF Attached THEN "done" ELSE "admit")
     ELSE UNCHANGED <<row, session>> /\ Goto(p, "needsStaff")
  /\ UNCHANGED <<cache, env, events, admissions, faults, mem>>

RequestAutoCheckin(p) ==
  /\ At(p, "admit")
  /\ admissions' = admissions + 1
  /\ Goto(p, "done")
  /\ UNCHANGED <<row, session, cache, env, events, faults, mem>>

-----------------------------------------------------------------------------
(* The webhook worker and the lookup, for a booking ROLLER shows as paid.    *)

(* The live booking is stored first. *)
SignalStore(s) ==
  /\ s \in Signals /\ At(s, "idle") /\ roller.paid
  /\ cache' = "authoritative"
  /\ Goto(s, "reconcile")
  /\ UNCHANGED <<row, session, env, events, admissions, faults, mem>>

SignalReconcile(s) ==
  /\ At(s, "reconcile")
  /\ row' = PublishFromPaidBooking(row)
  /\ Goto(s, "select")
  /\ UNCHANGED <<session, cache, env, events, admissions, faults, mem>>

(* requestKioskAuthoritativeConfirmation: only the webhook skips an attempt *)
(* whose attachment the booking lambda has already stored.                  *)
SignalSelect(s) ==
  /\ At(s, "select")
  /\ LET candidate == Paid(row) /\ row.status \in {"payment_pending", "published"}
         already   == /\ s \in Webhooks
                      /\ row.conf = "confirmed" /\ row.last = "confirmed"
     IN Goto(s, IF candidate /\ ~already THEN "repair" ELSE "done")
  /\ UNCHANGED <<row, session, cache, env, events, admissions, faults, mem>>

-----------------------------------------------------------------------------
(* handleKioskStaffResolution.                                               *)

(* The row is read before ROLLER; the decision rests on both. *)
StaffRead(u, decision) ==
  /\ u \in Staff /\ At(u, "idle") /\ terminal \notin {"draft", "lost"}
  /\ LET eligible == IF decision = "no_payment"
                     THEN Unresolved(row) /\ Releasable(row, Cached) /\ age >= 1
                     ELSE \/ Unresolved(row)
                          \/ row.attempt = "approved" /\ row.conf = "needs_staff"
     IN Goto(u, IF eligible THEN "evidence" ELSE "done")
  /\ mem' = [mem EXCEPT ![u].kind = decision, ![u].flag = Unresolved(row)]
  /\ UNCHANGED <<row, session, cache, env, events, admissions, faults>>

(* Mutant: the staff member's word is enough. *)
TrustStaff(u) ==
  /\ u \in Staff /\ At(u, "evidence")
  /\ \/ Goto(u, "done")
     \/ mem[u].kind = "no_payment" /\ Goto(u, "release")
     \/ mem[u].kind = "paid" /\ Goto(u, IF mem[u].flag THEN "approve" ELSE "handoffRead")
  /\ UNCHANGED <<row, session, cache, env, events, admissions, faults, mem>>

(* An unavailable ROLLER, or one that contradicts the decision, refuses it. *)
StaffEvidence(u) ==
  /\ u \in Staff /\ At(u, "evidence")
  /\ \/ Goto(u, "done")
     \/ mem[u].kind = "no_payment" /\ ~roller.paid /\ Goto(u, "release")
     \/ mem[u].kind = "paid" /\ roller.paid
        /\ Goto(u, IF mem[u].flag THEN "approve" ELSE "handoffRead")
  /\ UNCHANGED <<row, session, cache, env, events, admissions, faults, mem>>

StaffRelease(u) ==
  /\ u \in Staff /\ At(u, "release")
  /\ row' = ReleaseByStaff(row, Cached, age >= 1)
  /\ Goto(u, "done")
  /\ UNCHANGED <<session, cache, env, events, admissions, faults, mem>>

StaffApprove(u) ==
  /\ u \in Staff /\ At(u, "approve")
  /\ row' = ApproveFromEvidence(row)
  /\ Goto(u, "handoffRead")
  /\ UNCHANGED <<session, cache, env, events, admissions, faults, mem>>

-----------------------------------------------------------------------------
(* releaseAbandonedKioskAttempts, run by a later draft request.              *)

(* The kiosk may report that the payment of a lost draft never started. *)
RivalRead(r, reported) ==
  /\ r \in Rivals /\ At(r, "idle")
  /\ reported => terminal = "lost"
  /\ LET checkable == /\ row.attempt = "created" /\ Releasable(row, Cached)
                      /\ reported \/ age = 2
     IN Goto(r, IF checkable THEN "evidence" ELSE "done")
  /\ mem' = [mem EXCEPT ![r].flag = reported]
  /\ UNCHANGED <<row, session, cache, env, events, admissions, faults>>

(* Mutant: a draft that has waited long enough is taken for unpaid. *)
RivalTrustsAge(r) ==
  /\ r \in Rivals /\ At(r, "evidence")
  /\ Goto(r, "done") \/ Goto(r, "release")
  /\ UNCHANGED <<row, session, cache, env, events, admissions, faults, mem>>

RivalEvidence(r) ==
  /\ r \in Rivals /\ At(r, "evidence")
  /\ Goto(r, "done") \/ (~roller.paid /\ Goto(r, "release"))
  /\ UNCHANGED <<row, session, cache, env, events, admissions, faults, mem>>

RivalRelease(r) ==
  /\ r \in Rivals /\ At(r, "release")
  /\ row' = ReleaseAbandoned(row, Cached, mem[r].flag \/ age = 2)
  /\ Goto(r, "done")
  /\ UNCHANGED <<session, cache, env, events, admissions, faults, mem>>

-----------------------------------------------------------------------------
(* A lambda dies, or a statement it does not guard fails, between two steps. *)
(* The queue delivers a webhook event again; nothing else is resumed.        *)
Crash(p) ==
  /\ pc[p] \notin {"idle", "done"}
  /\ faults < MaxFaults /\ faults' = faults + 1
  /\ Goto(p, IF p \in Webhooks THEN "idle" ELSE "done")
  /\ UNCHANGED <<row, session, cache, env, events, admissions, mem>>

CallerStep(p) == \/ \E o \in Outcome, t \in BOOLEAN : FinalizeResult(p, o, t)
                 \/ FinalizeStatus(p)
HandoffStep(p) == \/ HandoffRead(p) \/ HandoffBooking(p)
                  \/ HandoffToken(p) \/ HandoffSession(p)
WorkerStep(p) == \/ WorkerClaim(p) \/ WorkerReread(p) \/ WorkerPublishClaim(p)
                 \/ WorkerPublish(p) \/ WorkerPublishResult(p) \/ WorkerReadback(p)
AttachStep(p) == \/ Snapshot(p) \/ Repair(p) \/ ConfirmHandoff(p)
                 \/ RequestAutoCheckin(p) \/ MarkNeedsStaff(p)
SignalStep(p) == SignalReconcile(p) \/ SignalSelect(p)
StaffStep(p)  == StaffEvidence(p) \/ StaffRelease(p) \/ StaffApprove(p)
RivalStep(p)  == RivalEvidence(p) \/ RivalRelease(p)

(* The steps that carry a running invocation on. *)
Continue(p) == \/ HandoffStep(p) \/ Dispatch(p) \/ WorkerStep(p) \/ AttachStep(p)
               \/ SignalStep(p) \/ StaffStep(p) \/ RivalStep(p)

Arrive(p) == \/ CallerStep(p) \/ WorkerStart(p)
             \/ SignalStore(p)
             \/ \E d \in {"no_payment", "paid"} : StaffRead(p, d)
             \/ \E rep \in BOOLEAN : RivalRead(p, rep)

Outside == DraftArrives \/ TerminalDecides \/ RollerBooks \/ Tick \/ LeaseExpires

Next == \/ Outside
        \/ \E p \in Proc : Arrive(p) \/ Continue(p) \/ HandoffFails(p) \/ Crash(p)

Spec == Init /\ [][Next]_vars

(* Lambda runs an invocation it has started to its end, and delivers an      *)
(* accepted asynchronous invocation.                                         *)
CloudFairness == \A p \in Proc : WF_vars(Continue(p)) /\ WF_vars(WorkerStart(p))

(* The terminal's notification reaches ROLLER, and ROLLER's webhook reaches  *)
(* the queue, which delivers the event again until it was processed.         *)
RollerFairness == WF_vars(RollerBooks) /\ \A s \in Webhooks : WF_vars(SignalStore(s))

CloudSpec == Spec /\ CloudFairness

-----------------------------------------------------------------------------
(* Properties.                                                               *)

(* However many workers run for an approved attempt, and whichever of them   *)
(* crash, ROLLER receives at most one publish that carries the payment.      *)
PublishedOnce == roller.publishes <= 1

(* A session staff may redeem carries a booking ROLLER holds as paid, and    *)
(* its draft row says the same: pending and needs_staff sessions never slip  *)
(* through to redeem.                                                        *)
ReadyIsPaid == session.sync = "confirmed" =>
                 roller.paid /\ session.attached /\ Published(row) /\ row.ref /\ Paid(row)

(* No attempt is recorded as failed or cancelled when the card was charged:  *)
(* the releases without payment read the row's age before they read ROLLER.  *)
NoChargeReleased == TimelyBooking /\ row.attempt \in {"failed", "cancelled"} =>
                      terminal # "charged"

(* An automatic check-in is only ever requested for a paid booking that is   *)
(* attached to the session.                                                  *)
AdmittedIsBooked == admissions > 0 => roller.paid /\ session.attached /\ row.attempt = "reconciled"

(* No statement of any handler takes back an approval, a booking, the claim  *)
(* of the publish or the stored booking reference.                           *)
Kept == /\ Paid(row) => Paid(row')
        /\ Published(row) => Published(row')
        /\ row.pub => row'.pub
        /\ row.ref => row'.ref
NothingTakenBack == [][Kept]_row

(* The lifecycle of the attempt implements the promise made for it. *)
Promise == INSTANCE PaymentPromise WITH
  outcome  <- IF Published(row) THEN "booked"
              ELSE IF Paid(row) THEN "paid"
              ELSE IF row.attempt \in {"failed", "cancelled"} THEN "released" ELSE "open",
  recorded <- roller.publishes,
  ready    <- session.sync = "confirmed"
ImplementsPromise == Promise!Spec

(* An approved payment does not stay pending: it is booked or handed to      *)
(* staff, if no invocation fails.  ROLLER need not answer for that.          *)
ApprovalResolved == row.attempt = "approved" ~>
                      Booked(row) \/ row.conf = "needs_staff" \/ faults > 0

(* If ROLLER does its part, a card that was charged ends as a published      *)
(* booking, even when the kiosk never reports the approval or an invocation  *)
(* dies.                                                                     *)
ChargeBooked == RollerFairness => (terminal = "charged" ~> Published(row))

Public == PublicStatus(row, session.sync, session.attached)

(* DECISIONS.md D0182: the state the kiosk reads is monotonic; a confirmed   *)
(* purchase stays confirmed.                                                 *)
StateIsMonotonic == [][Public = "confirmed" => Public' = "confirmed"]_vars
=============================================================================
