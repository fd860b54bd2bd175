------------------------------ MODULE AddOnSync ------------------------------
(***************************************************************************)
(* Kiosk add-ons bought on an existing booking, and the check-in session   *)
(* of that booking.  The session is released to the automatic check-in     *)
(* when its bookingSyncStatus is 'confirmed'; every add-on's confirmation  *)
(* writes that status for the whole group, from the rows of all add-ons    *)
(* (linkedAddOnEffectiveSyncCte in infra/lambda/booking/index.js), and so  *)
(* does each staff read of the board (infra/lambda/session/index.js).      *)
(*                                                                         *)
(* A statement that writes the group's status reads the other add-ons in   *)
(* the snapshot it starts with and writes when it commits (READ COMMITTED),*)
(* so it is two steps here and other statements may commit in between.     *)
(* The processes are single invocations:                                   *)
(*   Finals   POST /v1/bookings/draft/finalize with a terminal outcome,    *)
(*            and the reconciliation worker an approval starts             *)
(*   Signals  webhook deliveries and lookups of a settled add-on booking,  *)
(*            with the paid-booking signal each of them sends              *)
(*   Staff    "paid" requests of the staff resolution panel                *)
(*   Guests   ready-for-staff requests of the session                      *)
(*   Boards   staff apps that read the board again and again               *)
(***************************************************************************)
EXTENDS KioskDraft, Naturals

CONSTANTS AddOns, Finals, Signals, Staff, Guests, Boards,
          Outcomes,   \* what the kiosk may report of a charged card
          MaxFaults,  \* bound on crashes and refused dispatches
          None

Proc == Finals \cup Signals \cup Staff \cup Guests \cup Boards

ASSUME ProcAssumption ==
  /\ Finals \cap (Signals \cup Staff \cup Guests \cup Boards) = {}
  /\ Signals \cap (Staff \cup Guests \cup Boards) = {}
  /\ Staff \cap (Guests \cup Boards) = {}
  /\ Guests \cap Boards = {}
ASSUME NoneAssumption == None \notin AddOns
ASSUME OutcomeAssumption == Outcomes \subseteq {"approved", "unknown"}
ASSUME BoundAssumption == MaxFaults \in Nat

VARIABLES
  rows,     \* the add-ons' prepayment_booking_drafts rows
  stored,   \* per add-on: its ROLLER booking is stored, paid and with items
  roller,   \* per add-on: ROLLER holds its paid booking
  session,  \* status and bookingSyncStatus of the original booking's session
  stale,    \* history: the status was written from an outdated snapshot
  unasked,  \* history: the session became confirmed and nobody asks for it
  asked,    \* automatic check-ins invoked and not yet run
  faults, pc, mem

vars == <<rows, stored, roller, session, stale, unasked, asked, faults, pc, mem>>
group == <<session, stale, unasked>>

Sync == {"pending", "needs_staff", "confirmed"}
Steps == {"idle", "done", "recording", "dispatch", "mark", "marking", "start", "claim",
          "look", "readback", "approve", "snapshot", "confirm", "confirming", "publish",
          "release", "releasing", "reading", "ask"}
Memory == [a : AddOns \cup {None}, o : Outcome \cup {"none"},
           seen : Sync \cup {"none"}]

TypeOK ==
  /\ rows \in [AddOns -> Row]
  /\ stored \in [AddOns -> BOOLEAN]
  /\ roller \in [AddOns -> BOOLEAN]
  /\ session \in [status : {"guest", "ready", "redeemed"}, sync : Sync]
  /\ stale \in BOOLEAN /\ unasked \in BOOLEAN
  /\ asked \in Nat /\ faults \in 0..MaxFaults
  /\ pc \in [Proc -> Steps]
  /\ mem \in [Proc -> Memory]

NoMem == [a |-> None, o |-> "none", seen |-> "none"]

Init ==
  /\ rows = [a \in AddOns |-> NewRow]
  /\ stored = [a \in AddOns |-> FALSE]
  /\ roller = [a \in AddOns |-> FALSE]
  /\ session = [status |-> "guest", sync |-> "confirmed"]
  /\ stale = FALSE /\ unasked = FALSE /\ asked = 0 /\ faults = 0
  /\ pc = [p \in Proc |-> "idle"]
  /\ mem = [p \in Proc |-> NoMem]

At(p, step) == pc[p] = step
My(p) == mem[p].a

(* The next step of p; what p remembers is dropped with its last use. *)
Goto(p, step) ==
  /\ pc' = [pc EXCEPT ![p] = step]
  /\ mem' = [mem EXCEPT ![p] = IF step \in {"idle", "done", "ask"} THEN NoMem
                               ELSE [@ EXCEPT !.o = "none", !.seen = "none"]]

(* p starts with add-on a, or starts a statement whose snapshot shows sync. *)
Start(p, step, a) ==
  /\ pc' = [pc EXCEPT ![p] = step]
  /\ mem' = [mem EXCEPT ![p].a = a]
Begin(p, step, sync) ==
  /\ pc' = [pc EXCEPT ![p] = step]
  /\ mem' = [mem EXCEPT ![p].seen = sync]
Active == session.status # "redeemed"

-----------------------------------------------------------------------------
(* The group's status.                                                       *)

(* pending before needs_staff before confirmed, as in both CASE expressions. *)
Worst(confs) == IF "pending" \in confs THEN "pending"
                ELSE IF "needs_staff" \in confs THEN "needs_staff" ELSE "confirmed"

PaidAddOns == {a \in AddOns : Paid(rows[a])}

(* Mutant: the siblings are not looked at. *)
SiblingSyncNone(a) == "confirmed"

(* The EXISTS tests of linkedAddOnEffectiveSyncCte, and the whole of it for  *)
(* a target row as the statement leaves it.                                  *)
SiblingSync(a) == Worst({rows[b].conf : b \in PaidAddOns \ {a}})
GroupSync(row, siblings) == Worst({row.conf, siblings})

(* releaseConfirmedKioskAddOn only starts from a confirmed, paid row. *)
ReleaseSync(a) == IF Paid(rows[a]) /\ rows[a].conf = "confirmed" THEN SiblingSync(a) ELSE "none"

(* refreshLinkedAddOnEffectiveSyncState: an add-on whose booking is stored   *)
(* counts as confirmed whatever its row says, any other never does.          *)
BoardSync ==
  LET waiting == {a \in PaidAddOns : ~stored[a]} IN
  IF PaidAddOns = {} THEN "none"
  ELSE IF \E a \in waiting : rows[a].conf = "pending" THEN "pending"
  ELSE IF waiting # {} THEN "needs_staff" ELSE "confirmed"

(* A statement writes sync to an active session; `now` is what it would have *)
(* written from the rows at its commit, `asks` whether a request follows.    *)
WriteSync(sync, now, asks) ==
  IF Active
  THEN /\ session' = [session EXCEPT !.sync = sync]
       /\ stale' = (sync # now)
       /\ unasked' = (sync = "confirmed" /\ ~asks /\ (unasked \/ session.sync # "confirmed"))
  ELSE UNCHANGED group

(* A release or a board read writes only another status than the session's. *)
Differs(sync) == sync # "none" /\ Active /\ sync # session.sync
WriteChanged(p, now, rest) ==
  IF Differs(mem[p].seen)
  THEN /\ WriteSync(mem[p].seen, now, TRUE)
       /\ Goto(p, IF mem[p].seen = "confirmed" THEN "ask" ELSE rest)
  ELSE UNCHANGED group /\ Goto(p, rest)

-----------------------------------------------------------------------------
(* ROLLER turns the charged card of an add-on into its paid booking.  An     *)
(* add-on whose card was declined is never paid and takes no part in what    *)
(* any statement here computes, so only charged ones are modelled.           *)
RollerBooks(a) ==
  /\ ~roller[a]
  /\ roller' = [roller EXCEPT ![a] = TRUE]
  /\ UNCHANGED <<rows, stored, group, asked, faults, pc, mem>>

-----------------------------------------------------------------------------
(* handleDraftFinalize for an add-on.  A kiosk repeats a report it got no    *)
(* answer for, so any two invocations may carry the same one.                *)
Report(f, a, o) ==
  /\ f \in Finals /\ At(f, "idle") /\ o \in Outcomes
  /\ mem' = [mem EXCEPT ![f] = [NoMem EXCEPT !.a = a, !.o = o, !.seen = SiblingSync(a)]]
  /\ pc' = [pc EXCEPT ![f] = "recording"]
  /\ UNCHANGED <<rows, stored, roller, group, asked, faults>>

(* recordKioskTerminalOutcome; the publish with the terminal's payment is    *)
(* KioskPayment's, so no transaction is stored here.                         *)
RecordOutcomeAndSync(f) ==
  /\ At(f, "recording")
  /\ LET a   == My(f)
         row == RecordOutcome(rows[a], mem[f].o, FALSE)
     IN /\ rows' = [rows EXCEPT ![a] = row]
        /\ IF Paid(row)
           THEN WriteSync(GroupSync(row, mem[f].seen), GroupSync(row, SiblingSync(a)), FALSE)
           ELSE UNCHANGED group
        /\ Goto(f, IF mem[f].o # "approved" \/ Booked(row) THEN "done" ELSE "dispatch")
  /\ UNCHANGED <<stored, roller, asked, faults>>

(* The worker is invoked asynchronously; a refused invocation or a closed    *)
(* write gate hands the add-on to staff.                                     *)
Dispatch(f) ==
  /\ At(f, "dispatch")
  /\ \/ Goto(f, "start") /\ UNCHANGED faults
     \/ Goto(f, "mark") /\ faults < MaxFaults /\ faults' = faults + 1
  /\ UNCHANGED <<rows, stored, roller, group, asked>>

(* markKioskReconciliationNeedsStaff, in its two steps. *)
MarkBegin(p) ==
  /\ At(p, "mark")
  /\ Begin(p, "marking", SiblingSync(My(p)))
  /\ UNCHANGED <<rows, stored, roller, group, asked, faults>>

MarkNeedsStaffAndSync(p) ==
  /\ At(p, "marking")
  /\ LET a == My(p)  row == NeedsStaff(rows[a]) IN
     /\ rows' = [rows EXCEPT ![a] = row]
     /\ IF Paid(row)
        THEN WriteSync(GroupSync(row, mem[p].seen), GroupSync(row, SiblingSync(a)), FALSE)
        ELSE UNCHANGED group
  /\ Goto(p, "done")
  /\ UNCHANGED <<stored, roller, asked, faults>>

-----------------------------------------------------------------------------
(* handleKioskPaymentReconciliation for an add-on.                           *)

WorkerStart(w) ==
  /\ At(w, "start")
  /\ LET row == rows[My(w)] IN
     Goto(w, IF ~Paid(row) THEN "done" ELSE IF Booked(row) THEN "release" ELSE "claim")
  /\ UNCHANGED <<rows, stored, roller, group, asked, faults>>

(* The claim tests the row again; a row confirmed since the start ends the   *)
(* worker without a release.  Any lease may have run out by then.            *)
WorkerClaim(w) ==
  /\ At(w, "claim")
  /\ LET a == My(w) IN
     \/ LeaseFree([rows[a] EXCEPT !.lease = "expired"])
        /\ rows' = [rows EXCEPT ![a] = TakeLease(@)] /\ Goto(w, "look")
     \/ ~LeaseFree(rows[a]) /\ UNCHANGED rows /\ Goto(w, "done")
  /\ UNCHANGED <<stored, roller, group, asked, faults>>

WorkerLook(w) ==
  /\ At(w, "look")
  /\ LET row == rows[My(w)] IN
     Goto(w, IF Booked(row) THEN "release" ELSE IF row.attempt # "approved" THEN "done" ELSE "readback")
  /\ UNCHANGED <<rows, stored, roller, group, asked, faults>>

(* The row is read before each read-back and the booking is found or missed. *)
(* Of the misses only the last matters here: it hands over to staff,         *)
(* whatever was confirmed since the row was looked at.                       *)
WorkerReadback(w) ==
  /\ At(w, "readback")
  /\ rows' = [rows EXCEPT ![My(w)] = RecordReadback(@)]
  /\ \/ roller[My(w)] /\ Goto(w, "snapshot")
     \/ Goto(w, "mark")
  /\ UNCHANGED <<stored, roller, group, asked, faults>>

-----------------------------------------------------------------------------
(* Confirming an add-on: workers and staff requests.                         *)

(* persistKioskReconciliationBookingSnapshot. *)
Snapshot(p) ==
  /\ At(p, "snapshot")
  /\ stored' = [stored EXCEPT ![My(p)] = TRUE]
  /\ Goto(p, "confirm")
  /\ UNCHANGED <<rows, roller, group, asked, faults>>

ConfirmBegin(p) ==
  /\ At(p, "confirm")
  /\ Begin(p, "confirming", SiblingSync(My(p)))
  /\ UNCHANGED <<rows, stored, roller, group, asked, faults>>

(* confirmKioskAddProductReconciliation asks for every session it wrote, to  *)
(* whichever status.                                                         *)
ConfirmAndSync(p) ==
  /\ At(p, "confirming")
  /\ LET a == My(p)  row == Confirm(rows[a]) IN
     /\ rows' = [rows EXCEPT ![a] = row]
     /\ WriteSync(GroupSync(row, mem[p].seen), GroupSync(row, SiblingSync(a)), TRUE)
  /\ Goto(p, IF Active THEN "ask" ELSE "done")
  /\ UNCHANGED <<stored, roller, asked, faults>>

(* requestAutoCheckin: an asynchronous invocation. *)
Ask(p) ==
  /\ At(p, "ask")
  /\ asked' = asked + 1
  /\ Goto(p, IF p \in Boards THEN "idle" ELSE "done")
  /\ UNCHANGED <<rows, stored, roller, group, faults>>

(* handleKioskStaffResolution, "paid": ROLLER's booking makes an unresolved  *)
(* attempt approved, and no statement writes the group's status with it.     *)
StaffEvidence(u, a) ==
  /\ u \in Staff /\ At(u, "idle") /\ roller[a]
  /\ \/ Unresolved(rows[a])
     \/ rows[a].attempt = "approved" /\ rows[a].conf = "needs_staff"
  /\ Start(u, IF Unresolved(rows[a]) THEN "approve" ELSE "snapshot", a)
  /\ UNCHANGED <<rows, stored, roller, group, asked, faults>>

StaffApprove(u) ==
  /\ At(u, "approve")
  /\ rows' = [rows EXCEPT ![My(u)] = ApproveFromEvidence(@)]
  /\ Goto(u, "snapshot")
  /\ UNCHANGED <<stored, roller, group, asked, faults>>

-----------------------------------------------------------------------------
(* The webhook or a lookup stores the booking, publishes the row and sends   *)
(* the paid-booking signal.                                                  *)
SignalStore(s, a) ==
  /\ s \in Signals /\ At(s, "idle") /\ roller[a]
  /\ stored' = [stored EXCEPT ![a] = TRUE]
  /\ Start(s, "publish", a)
  /\ UNCHANGED <<rows, roller, group, asked, faults>>

(* Mutant: no signal is sent, as before GH-563. *)
PublishOnly(s) ==
  /\ At(s, "publish")
  /\ rows' = [rows EXCEPT ![My(s)] = PublishFromPaidBooking(@)]
  /\ Goto(s, "done")
  /\ UNCHANGED <<stored, roller, group, asked, faults>>

SignalPublish(s) ==
  /\ At(s, "publish")
  /\ rows' = [rows EXCEPT ![My(s)] = PublishFromPaidBooking(@)]
  /\ Goto(s, "release")
  /\ UNCHANGED <<stored, roller, group, asked, faults>>

(* releaseConfirmedKioskAddOn, for the signal and for a worker. *)
ReleaseBegin(p) ==
  /\ At(p, "release")
  /\ IF Differs(ReleaseSync(My(p))) THEN Begin(p, "releasing", ReleaseSync(My(p)))
                                   ELSE Goto(p, "done")
  /\ UNCHANGED <<rows, stored, roller, group, asked, faults>>

(* Mutant: the released session is not asked for. *)
ReleaseSilently(p) ==
  /\ At(p, "releasing")
  /\ IF Differs(mem[p].seen) THEN WriteSync(mem[p].seen, ReleaseSync(My(p)), TRUE)
                             ELSE UNCHANGED group
  /\ Goto(p, "done")
  /\ UNCHANGED <<rows, stored, roller, asked, faults>>

Release(p) ==
  /\ At(p, "releasing")
  /\ WriteChanged(p, ReleaseSync(My(p)), "done")
  /\ UNCHANGED <<rows, stored, roller, asked, faults>>

-----------------------------------------------------------------------------
(* A staff app's read of the board, again and again. *)
BoardBegin(b) ==
  /\ b \in Boards /\ At(b, "idle") /\ Differs(BoardSync)
  /\ Begin(b, "reading", BoardSync)
  /\ UNCHANGED <<rows, stored, roller, group, asked, faults>>

BoardRefresh(b) ==
  /\ At(b, "reading")
  /\ WriteChanged(b, BoardSync, "idle")
  /\ UNCHANGED <<rows, stored, roller, asked, faults>>

(* The guest is done: ready-for-staff, and the request that follows it. *)
ReadyForStaff(g) ==
  /\ g \in Guests /\ At(g, "idle") /\ session.status = "guest"
  /\ session' = [session EXCEPT !.status = "ready"]
  /\ Goto(g, "ask")
  /\ UNCHANGED <<rows, stored, roller, stale, unasked, asked, faults>>

(* handleAutoCheckin: an invocation admits a ready, confirmed session and    *)
(* drops any other; CheckIn has the admission itself.                        *)
AutoCheckin ==
  /\ asked > 0 /\ asked' = asked - 1
  /\ session' = IF session.status = "ready" /\ session.sync = "confirmed"
                THEN [session EXCEPT !.status = "redeemed"] ELSE session
  /\ UNCHANGED <<rows, stored, roller, stale, unasked, faults, pc, mem>>

(* An invocation dies between two steps; the queue delivers a webhook event  *)
(* again.  The request it owed is lost.                                      *)
Crash(p) ==
  /\ pc[p] \notin {"idle", "done"}
  /\ faults < MaxFaults /\ faults' = faults + 1
  /\ Goto(p, IF p \in Signals \cup Boards THEN "idle" ELSE "done")
  /\ unasked' = (unasked \/ (At(p, "ask") /\ Active /\ session.sync = "confirmed"))
  /\ UNCHANGED <<rows, stored, roller, session, stale, asked>>

Continue(p) ==
  \/ RecordOutcomeAndSync(p) \/ Dispatch(p) \/ MarkBegin(p) \/ MarkNeedsStaffAndSync(p)
  \/ WorkerStart(p) \/ WorkerClaim(p) \/ WorkerLook(p) \/ WorkerReadback(p)
  \/ Snapshot(p) \/ ConfirmBegin(p) \/ ConfirmAndSync(p) \/ Ask(p) \/ StaffApprove(p)
  \/ SignalPublish(p) \/ ReleaseBegin(p) \/ Release(p) \/ BoardRefresh(p)

Arrive(p) ==
  \/ \E a \in AddOns, o \in Outcomes : Report(p, a, o)
  \/ \E a \in AddOns : StaffEvidence(p, a) \/ SignalStore(p, a)
  \/ ReadyForStaff(p)

Next == \/ \E a \in AddOns : RollerBooks(a)
        \/ AutoCheckin
        \/ \E p \in Proc : Arrive(p) \/ BoardBegin(p) \/ Continue(p) \/ Crash(p)

Spec == Init /\ [][Next]_vars

-----------------------------------------------------------------------------
(* Properties.                                                               *)

(* A session is never released while ROLLER has no paid booking for one of   *)
(* its paid add-ons, unless the write that released it came from a snapshot  *)
(* another add-on's statement had overtaken (docs/gh-563-addon-release.md:   *)
(* an add-on that is still pending keeps the group pending).                 *)
HeldUnlessStale == Active /\ session.sync = "confirmed" /\ ~stale =>
                     \A a \in PaidAddOns : roller[a]

(* A ready group that is confirmed is about to be admitted: the request for  *)
(* its check-in is made or owed (DECISIONS.md:23, D0279: its group is checked*)
(* in "at once, with no staff app open"), unless the statement that made it  *)
(* confirmed is one the code makes no request after, or an invocation died   *)
(* before its request.                                                       *)
RequestUnderway ==
  session.status = "ready" /\ session.sync = "confirmed" /\ ~unasked =>
    asked > 0 \/ \E p \in Proc : At(p, "ask")

(* When every invocation has ended and every paid add-on is confirmed, the   *)
(* group is released without a board read: whichever of report, worker,      *)
(* signal and staff came last has written it.  A snapshot overtaken by       *)
(* another add-on's statement, or an invocation that died, is what the board *)
(* refresh is left for.                                                      *)
AtRest == \A p \in Proc : pc[p] \in {"idle", "done"}
ReleasedAtRest ==
  AtRest /\ Active /\ faults = 0 /\ (\A a \in PaidAddOns : rows[a].conf = "confirmed") =>
    session.sync = "confirmed" \/ stale
=============================================================================
