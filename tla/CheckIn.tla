------------------------------ MODULE CheckIn ------------------------------
(***************************************************************************)
(* The check-in of one booking on its visit day: the guest's session       *)
(* (infra/lambda/session), and its redemption at ROLLER by automatic       *)
(* check-ins and by staff (infra/lambda/redeem).                           *)
(*                                                                         *)
(* Every SQL statement and every external call is one step.  A request     *)
(* that asks for the automatic check-in ends; the event it sent goes on    *)
(* under its name as an invocation of the redeem lambda.  Sessions are     *)
(* named after the start request that inserted them; Purchase is the one   *)
(* a purchase may have left before.  The tickets of a group go to ROLLER   *)
(* in Batches of ten, in order.  The write gates are open, the emergency   *)
(* stop is off and the clock is inside the check-in window of the visit.   *)
(***************************************************************************)
EXTENDS Naturals, FiniteSets

CONSTANTS Starts,     \* session starts and link openings of the guest
          Readies,    \* ready-for-staff requests
          Confirms,   \* confirmations of the purchase's booking
          Staff,      \* staff redeem requests
          Purchase,   \* the session of a purchase
          Batches,    \* batches of the group's tickets, numbered
          Tries,      \* invocations of one event: the first and Lambda's retries
          Attested,   \* BOOLEAN: safety was approved before the payment
          ShowsState, \* BOOLEAN: ROLLER's booking always tells which tickets are redeemed
          MaxFaults,  \* bound on ROLLER calls that fail or stay unanswered
          MaxCrashes, \* bound on invocations that die and on lost dispatches
          None

MaxAttempts == 3

Requests == Starts \cup Readies \cup Confirms
Procs    == Requests \cup Staff
Sessions == Starts \cup {Purchase}

ASSUME CheckInAssumption ==
  /\ Batches \in SUBSET Nat /\ IsFiniteSet(Batches) /\ Batches # {}
  /\ Tries \in Nat \ {0} /\ MaxFaults \in Nat /\ MaxCrashes \in Nat
  /\ ShowsState \in BOOLEAN /\ Attested \in BOOLEAN
  /\ Requests \cap Staff = {} /\ Starts \cap (Readies \cup Confirms) = {}
  /\ Readies \cap Confirms = {}
  /\ None \notin Sessions /\ None \notin Procs /\ Purchase \notin Starts

VARIABLES
  sess,      \* checkin_sessions: the row of each session
  lapsed,    \* sessions whose expires_at has passed
  used,      \* roller_booking_tickets: the selected tickets are marked redeemed
  key,       \* idempotency_records: the row of staff-redeem:<session>
  roller,    \* batches redeemed at ROLLER
  late,      \* batches of dead invocations on their way to ROLLER
  faults, crashes,
  pc,        \* the next step of each process
  mem        \* what it remembers

vars == <<sess, lapsed, used, key, roller, late, faults, crashes, pc, mem>>

Statuses == {"none", "guest", "ready", "redeemed", "expired"}
Active   == {"guest", "ready"}
Session  == [status : Statuses, number : BOOLEAN, sync : {"pending", "confirmed"},
             auto : {"none", "retrying", "needs_staff"}, attempts : 0..MaxAttempts]
Key      == [status : {"none", "in_progress", "failed", "succeeded"},
             holder : Procs \cup {None}, stale : BOOLEAN]
Memory   == [s : Sessions \cup {None}, seen : SUBSET Batches, left : SUBSET Batches,
             again : BOOLEAN, tries : 0..Tries]
Calling  == {"post", "after409", "unkey"}
Steps    == {"idle", "expire", "find", "create", "attest", "ready", "dispatch", "lapse",
             "precheck", "receipt", "context", "refresh", "reread", "reserve", "claim",
             "takeover", "finalize", "fail", "delay", "done"} \cup Calling

NoSession == [status |-> "none", number |-> FALSE, sync |-> "confirmed",
              auto |-> "none", attempts |-> 0]
NoKey     == [status |-> "none", holder |-> None, stale |-> FALSE]

TypeOK ==
  /\ sess \in [Sessions -> Session] /\ lapsed \in SUBSET Sessions
  /\ used \in BOOLEAN
  /\ key \in [Sessions -> Key]
  /\ roller \in SUBSET Batches /\ late \in SUBSET Batches
  /\ faults \in 0..MaxFaults /\ crashes \in 0..MaxCrashes
  /\ pc \in [Procs -> Steps] /\ mem \in [Procs -> Memory]

(* A purchase may have left its session, guest_in_progress and not yet      *)
(* confirmed by ROLLER.                                                     *)
Init ==
  /\ sess \in {[s \in Sessions |-> NoSession],
               [[s \in Sessions |-> NoSession] EXCEPT
                   ![Purchase] = [NoSession EXCEPT !.status = "guest", !.sync = "pending"]]}
  /\ lapsed = {} /\ used = FALSE
  /\ key = [s \in Sessions |-> NoKey]
  /\ roller = {} /\ late = {} /\ faults = 0 /\ crashes = 0
  /\ pc = [p \in Procs |-> "idle"]
  /\ mem = [p \in Procs |-> [s |-> None, seen |-> {}, left |-> {}, again |-> FALSE, tries |-> 0]]

At(p, step) == pc[p] = step
Goto(p, step) == pc' = [pc EXCEPT ![p] = step]
Stay == UNCHANGED <<sess, lapsed, used, key, roller, late>>
NoFault == UNCHANGED <<faults, crashes>>
Fault == faults < MaxFaults /\ faults' = faults + 1 /\ UNCHANGED crashes
Loss  == crashes < MaxCrashes /\ crashes' = crashes + 1 /\ UNCHANGED faults

(* What a step of p no longer needs is forgotten.                           *)
Forget(p) == [mem EXCEPT ![p] = [@ EXCEPT !.seen = {}, !.left = {}, !.again = FALSE]]

(* Mutant: only the time is tested. *)
OpenByTime(s) == sess[s].status # "none" /\ s \notin lapsed

Open(s)      == sess[s].status \in Active /\ s \notin lapsed
OpenSessions == {s \in Sessions : Open(s)}

(* What a read of the booking shows; ROLLER documents no ticket state (#571). *)
Shown == IF ShowsState THEN {roller} ELSE {roller, {}}

(* getRollerTicketRedeemStates, allRedeemed: every ticket, not only one.      *)
(* Mutant: one redeemed ticket counts for the group. *)
AllInSome(seen) == seen # {}

AllIn(seen) == seen = Batches

-----------------------------------------------------------------------------
(* handleStartSession.                                                       *)

(* getBookingContext: a purchase that ROLLER has not confirmed is not fresh, *)
(* used tickets answer the completed session or already_redeemed.            *)
ReadBooking(p) ==
  /\ p \in Starts /\ At(p, "idle")
  /\ Goto(p, IF used \/ \E s \in Sessions : sess[s].sync = "pending" THEN "done" ELSE "expire")
  /\ Stay /\ NoFault /\ UNCHANGED mem

(* expireOldSessions.                                                        *)
ExpireOld(p) ==
  /\ At(p, "expire")
  /\ sess' = [s \in Sessions |-> IF sess[s].status \in Active /\ s \in lapsed
                                 THEN [sess[s] EXCEPT !.status = "expired"] ELSE sess[s]]
  /\ Goto(p, "find")
  /\ NoFault /\ UNCHANGED <<lapsed, used, key, roller, late, mem>>

(* findActiveSession: an open session is resumed; only a guest's own is      *)
(* looked at further (readyAttestedPurchaseSession).                         *)
FindActive(p) ==
  /\ At(p, "find")
  /\ \/ OpenSessions = {} /\ Goto(p, "create") /\ UNCHANGED mem
     \/ \E s \in OpenSessions :
          /\ mem' = [mem EXCEPT ![p].s = s]
          /\ Goto(p, IF sess[s].status = "guest" THEN "attest" ELSE "done")
  /\ Stay /\ NoFault

(* createSession: the unique index refuses a second active session of the    *)
(* visit, and the request fails.                                             *)
ActiveExists == \E s \in Sessions : sess[s].status \in Active
CreateSession(p) ==
  /\ At(p, "create")
  /\ \/ ActiveExists /\ Goto(p, "done") /\ UNCHANGED <<sess, mem>>
     \/ /\ ~ActiveExists
        /\ sess' = [sess EXCEPT ![p] = [NoSession EXCEPT !.status = "guest"]]
        /\ mem' = [mem EXCEPT ![p].s = p]
        /\ Goto(p, "attest")
  /\ NoFault /\ UNCHANGED <<lapsed, used, key, roller, late>>

FindAttestation(p) ==
  /\ At(p, "attest")
  /\ Goto(p, IF Attested THEN "ready" ELSE "done")
  /\ Stay /\ NoFault /\ UNCHANGED mem

(* ready_staff_session: only an open session becomes ready, and it keeps its *)
(* number; when the day's numbers are used up it gets none.                  *)
MakeReady(p) ==
  /\ At(p, "ready")
  /\ LET s == mem[p].s IN
     \/ /\ Open(s)
        /\ \E n \in BOOLEAN :
             /\ sess[s].number => n
             /\ sess' = [sess EXCEPT ![s].status = "ready", ![s].number = n]
        /\ Goto(p, "dispatch")
     \/ ~Open(s) /\ Goto(p, "done") /\ UNCHANGED sess
  /\ NoFault /\ UNCHANGED <<lapsed, used, key, roller, late, mem>>

(* requestAutoCheckin.  The event is accepted or lost.                       *)
Dispatch(p) ==
  /\ At(p, "dispatch")
  /\ \/ /\ mem' = [mem EXCEPT ![p].tries = 1]
        /\ Goto(p, "precheck") /\ NoFault
     \/ Goto(p, "done") /\ Loss /\ UNCHANGED mem
  /\ Stay

-----------------------------------------------------------------------------
(* handleReadyForStaff, and the confirmation of a purchase's booking         *)
(* (confirmPhoneProvisionalHandoff, confirmKioskReconciliation).             *)

ReadyRequest(p, s) ==
  /\ p \in Readies /\ At(p, "idle") /\ sess[s].status # "none"
  /\ mem' = [mem EXCEPT ![p].s = s]
  /\ Goto(p, IF s \in lapsed THEN "lapse"
             ELSE IF sess[s].status \in Active THEN "ready" ELSE "done")
  /\ Stay /\ NoFault

(* markSessionExpired.                                                       *)
MarkExpired(p) ==
  /\ At(p, "lapse")
  /\ sess' = IF sess[mem[p].s].status \in Active
             THEN [sess EXCEPT ![mem[p].s].status = "expired"] ELSE sess
  /\ Goto(p, "done")
  /\ NoFault /\ UNCHANGED <<lapsed, used, key, roller, late, mem>>

ConfirmBooking(p, s) ==
  /\ p \in Confirms /\ At(p, "idle") /\ sess[s].sync = "pending"
  /\ sess' = [sess EXCEPT ![s].sync = "confirmed"]
  /\ mem' = [mem EXCEPT ![p].s = s]
  /\ Goto(p, "dispatch")
  /\ NoFault /\ UNCHANGED <<lapsed, used, key, roller, late>>

-----------------------------------------------------------------------------
(* The redeem lambda: handleAutoCheckin for an event, handleStaffSession-    *)
(* Redeem for staff, and the redeem handler both call.                       *)

(* A check-in that does not complete: an event records it, staff are told.   *)
Fails(p, again) ==
  /\ Goto(p, IF p \in Staff THEN "done" ELSE "fail")
  /\ mem' = [mem EXCEPT ![p] = [@ EXCEPT !.seen = {}, !.left = {}, !.again = again]]

Admissible(s) == sess[s].status = "ready" /\ sess[s].sync = "confirmed"

Precheck(p) ==
  /\ At(p, "precheck")
  /\ Goto(p, IF Admissible(mem[p].s) THEN "receipt" ELSE "done")
  /\ Stay /\ NoFault /\ UNCHANGED mem

StaffRequest(p, s) ==
  /\ p \in Staff /\ At(p, "idle") /\ sess[s].status # "none"
  /\ mem' = [mem EXCEPT ![p].s = s]
  /\ Goto(p, IF Admissible(s) THEN "receipt" ELSE "done")
  /\ Stay /\ NoFault

(* findSucceededRedeemReceipt: an earlier receipt only has to be finished.   *)
FindReceipt(p) ==
  /\ At(p, "receipt")
  /\ Goto(p, IF key[mem[p].s].status = "succeeded" THEN "finalize" ELSE "context")
  /\ Stay /\ NoFault /\ UNCHANGED mem

(* getRedeemContext and evaluateRedeemContext, before and after the refresh. *)
(* Mutant: locally redeemed tickets do not block a redemption. *)
BlockedNever(p) == FALSE

Blocked(p) == used

ReadContext(p) ==
  /\ pc[p] \in {"context", "reread"}
  /\ IF Blocked(p) THEN Fails(p, FALSE)
     ELSE Goto(p, IF At(p, "context") THEN "refresh" ELSE "reserve") /\ UNCHANGED mem
  /\ Stay /\ NoFault

(* refreshRedeemContextFromRoller: ROLLER does not answer, or the booking is *)
(* gone or changed; else the ticket states it shows are kept.                *)
Refresh(p) ==
  /\ At(p, "refresh")
  /\ \/ /\ \E seen \in Shown : mem' = [mem EXCEPT ![p].seen = seen]
        /\ Goto(p, "reread") /\ NoFault
     \/ \E again \in BOOLEAN : Fault /\ Fails(p, again)
  /\ Stay

(* With the key in hand: the whole group is in already, or what is left goes *)
(* to ROLLER; only a continued attempt leaves out what ROLLER shows.         *)
LeftToSend(p, continued) == IF continued THEN Batches \ mem[p].seen ELSE Batches

Proceed(p, continued) ==
  /\ mem' = [mem EXCEPT ![p] = [@ EXCEPT !.seen = {},
                !.left = IF AllIn(mem[p].seen) THEN {} ELSE LeftToSend(p, continued)]]
  /\ Goto(p, IF AllIn(mem[p].seen) THEN "finalize" ELSE "post")

Take(p) == key' = [key EXCEPT ![mem[p].s] = [status |-> "in_progress", holder |-> p, stale |-> FALSE]]

(* reserveIdempotencyKey.                                                    *)
Reserve(p) ==
  /\ At(p, "reserve")
  /\ IF key[mem[p].s].status = "none" THEN Take(p) /\ Proceed(p, FALSE)
     ELSE Goto(p, "claim") /\ UNCHANGED <<key, mem>>
  /\ NoFault /\ UNCHANGED <<sess, lapsed, used, roller, late>>

(* claimExistingIdempotencyKey, its read: a receipt is replayed, a fresh     *)
(* attempt answers redeem_in_progress, which ends an event without a retry.  *)
ReadKey(p) ==
  /\ At(p, "claim")
  /\ LET k == key[mem[p].s] IN
     /\ Goto(p, CASE k.status = "succeeded" -> "finalize"
                  [] k.status = "in_progress" /\ ~k.stale -> "done"
                  [] OTHER -> "takeover")
     /\ mem' = IF k.status = "succeeded" \/ (k.status = "in_progress" /\ ~k.stale)
               THEN Forget(p) ELSE mem
  /\ Stay /\ NoFault

(* Its guarded update: failed, or in progress for longer than 30 s.          *)
(* Mutant: an attempt that stopped half-way is never resumed. *)
TakeableFailedOnly(k) == k.status = "failed"

(* Mutant: the update does not test how old the attempt in progress is. *)
TakeableAnyAge(k) == k.status \in {"failed", "in_progress"}

Takeable(k) == k.status = "failed" \/ (k.status = "in_progress" /\ k.stale)

TakeOver(p) ==
  /\ At(p, "takeover")
  /\ IF Takeable(key[mem[p].s]) THEN Take(p) /\ Proceed(p, TRUE)
     ELSE Goto(p, "done") /\ mem' = Forget(p) /\ UNCHANGED key
  /\ NoFault /\ UNCHANGED <<sess, lapsed, used, roller, late>>

(* redeemRollerTicketsInBatches: the next call.  ROLLER lets a batch in or   *)
(* refuses it as a whole; a refusal may have other reasons, an error or a    *)
(* missing answer may hide that the batch is in, or will be.                 *)
NextBatch(p, b) == b \in mem[p].left /\ \A c \in mem[p].left : b <= c

Post(p, b) ==
  /\ At(p, "post") /\ NextBatch(p, b)
  /\ \/ /\ b \notin roller /\ roller' = roller \cup {b}
        /\ mem' = [mem EXCEPT ![p].left = @ \ {b}]
        /\ Goto(p, IF mem[p].left = {b} THEN "finalize" ELSE "post")
        /\ NoFault /\ UNCHANGED late
     \/ /\ IF b \in roller THEN NoFault ELSE Fault
        /\ mem' = [mem EXCEPT ![p].left = {}]
        /\ Goto(p, "after409") /\ UNCHANGED <<roller, late>>
     \/ /\ Fault
        /\ roller' \in {roller, roller \cup {b}}
        /\ mem' = [mem EXCEPT ![p] = [@ EXCEPT !.left = {}, !.again = TRUE]]
        /\ Goto(p, "unkey") /\ UNCHANGED late
     \/ /\ Fault
        /\ \/ roller' \in {roller, roller \cup {b}} /\ UNCHANGED late
           \/ late' = late \cup {b} /\ UNCHANGED roller
        /\ Fails(p, TRUE)
  /\ UNCHANGED <<sess, lapsed, used, key>>

(* The booking is read again after a 409.                                    *)
Recheck(p) ==
  /\ At(p, "after409")
  /\ \/ /\ \E seen \in Shown : Goto(p, IF AllIn(seen) THEN "finalize" ELSE "unkey")
        /\ mem' = [mem EXCEPT ![p].again = FALSE] /\ NoFault
     \/ /\ Goto(p, "unkey")
        /\ mem' = [mem EXCEPT ![p].again = FALSE] /\ Fault
     \/ Fails(p, TRUE) /\ Fault
  /\ Stay

(* completeIdempotencyKey 'failed': whatever the row says.                   *)
FailKey(p) ==
  /\ At(p, "unkey")
  /\ key' = [key EXCEPT ![mem[p].s].status = "failed", ![mem[p].s].stale = FALSE]
  /\ Fails(p, mem[p].again)
  /\ NoFault /\ UNCHANGED <<sess, lapsed, used, roller, late>>

(* finalizeRedeemLocally: tickets, key and session in one statement.         *)
(* Mutant: the statement leaves the key in progress. *)
ReceiptKeyKept(k) == k

ReceiptKey(k) == IF k.status = "none" THEN k ELSE [k EXCEPT !.status = "succeeded"]

Finalize(p) ==
  /\ At(p, "finalize")
  /\ used' = TRUE
  /\ key' = [key EXCEPT ![mem[p].s] = ReceiptKey(@)]
  /\ sess' = [sess EXCEPT ![mem[p].s].status = "redeemed"]
  /\ Goto(p, "done")
  /\ NoFault /\ UNCHANGED <<lapsed, roller, late, mem>>

(* recordAutoCheckinFailure: counted on a session that is still ready; what  *)
(* may be tried again is thrown, so that Lambda invokes the event again.     *)
(* Mutant: the third failure is thrown once more. *)
TriesAgainOnceMore(p) == LET s == mem[p].s IN
  mem[p].again /\ sess[s].status = "ready" /\ sess[s].attempts + 1 <= MaxAttempts

TriesAgain(p) == LET s == mem[p].s IN
  mem[p].again /\ sess[s].status = "ready" /\ sess[s].attempts + 1 < MaxAttempts

(* Mutant: every throw is tried again. *)
AfterThrowAlways(p) == "delay"

AfterThrow(p) == IF mem[p].tries < Tries THEN "delay" ELSE "done"

RecordFailure(p) ==
  /\ At(p, "fail")
  /\ LET s == mem[p].s IN
     sess' = IF sess[s].status # "ready" THEN sess
             ELSE [sess EXCEPT
                     ![s].attempts = IF @ < MaxAttempts THEN @ + 1 ELSE @,
                     ![s].auto = IF TriesAgain(p) THEN "retrying" ELSE "needs_staff"]
  /\ Goto(p, IF TriesAgain(p) THEN AfterThrow(p) ELSE "done")
  /\ mem' = Forget(p)
  /\ NoFault /\ UNCHANGED <<lapsed, used, key, roller, late>>

(* Lambda waits a minute or more before it invokes the event again, longer   *)
(* than a key stays fresh.                                                   *)
Retry(p) ==
  /\ At(p, "delay")
  /\ LET k == key[mem[p].s] IN ~(k.status = "in_progress" /\ k.holder = p /\ ~k.stale)
  /\ mem' = [mem EXCEPT ![p].tries = @ + 1]
  /\ Goto(p, "precheck")
  /\ Stay /\ NoFault

-----------------------------------------------------------------------------
(* The world around.                                                         *)

(* An invocation dies (or a statement of it fails).  Lambda runs an event    *)
(* again; a call on its way may still reach ROLLER, now or later.            *)
Crash(p) ==
  /\ pc[p] \notin {"idle", "delay", "done"} /\ Loss
  /\ Goto(p, IF mem[p].tries > 0 THEN AfterThrow(p) ELSE "done")
  /\ \/ UNCHANGED <<roller, late>>
     \/ /\ At(p, "post")
        /\ \E b \in Batches : NextBatch(p, b) /\
             \/ roller' = roller \cup {b} /\ UNCHANGED late
             \/ late' = late \cup {b} /\ UNCHANGED roller
  /\ mem' = Forget(p)
  /\ UNCHANGED <<sess, lapsed, used, key>>

(* 30 s later.  An invocation lives 25 s, so the holder is gone by then.     *)
Running(p) == pc[p] \in Calling \cup {"finalize"}

KeyAges(s) ==
  /\ key[s].status = "in_progress" /\ ~key[s].stale /\ ~Running(key[s].holder)
  /\ key' = [key EXCEPT ![s].stale = TRUE]
  /\ NoFault /\ UNCHANGED <<sess, lapsed, used, roller, late, pc, mem>>

(* Four hours pass without the guest coming to the end; a ready session      *)
(* lives as long as the visit day.                                           *)
SessionLapses(s) ==
  /\ sess[s].status = "guest" /\ s \notin lapsed
  /\ lapsed' = lapsed \cup {s}
  /\ NoFault /\ UNCHANGED <<sess, used, key, roller, late, pc, mem>>

LateCallLands(b) ==
  /\ b \in late
  /\ roller' = roller \cup {b} /\ late' = late \ {b}
  /\ NoFault /\ UNCHANGED <<sess, lapsed, used, key, pc, mem>>

(* Kassan lets some of the group in without this system.                     *)
EnteredAtKassan(b) ==
  /\ b \notin roller /\ roller' = roller \cup {b}
  /\ NoFault /\ UNCHANGED <<sess, lapsed, used, key, late, pc, mem>>

Arrive(p) == \/ ReadBooking(p)
             \/ \E s \in Sessions : \/ ReadyRequest(p, s) \/ ConfirmBooking(p, s)
                                    \/ StaffRequest(p, s)

Work(p) == \/ ExpireOld(p) \/ FindActive(p) \/ CreateSession(p) \/ FindAttestation(p)
           \/ MakeReady(p) \/ Dispatch(p) \/ MarkExpired(p)
           \/ Precheck(p) \/ FindReceipt(p) \/ ReadContext(p) \/ Refresh(p)
           \/ Reserve(p) \/ ReadKey(p) \/ TakeOver(p)
           \/ \E b \in Batches : Post(p, b)
           \/ Recheck(p) \/ FailKey(p) \/ Finalize(p) \/ RecordFailure(p) \/ Retry(p)

Next == \/ \E p \in Procs : Arrive(p) \/ Work(p) \/ Crash(p)
        \/ \E s \in Sessions : KeyAges(s) \/ SessionLapses(s)
        \/ \E b \in Batches : LateCallLands(b) \/ EnteredAtKassan(b)

Spec == Init /\ [][Next]_vars

(* An invocation that is running or due goes on, and time passes.            *)
FairSpec == /\ Spec
            /\ \A p \in Procs : WF_vars(Work(p))
            /\ \A s \in Sessions : WF_vars(KeyAges(s))

-----------------------------------------------------------------------------
(* Staff and the automatic check-in share one path and key, "so the two can  *)
(* never redeem twice" (redeem/index.js:484): at most one invocation is      *)
(* redeeming the visit at ROLLER, over all its sessions, and none once the   *)
(* tickets have their local receipt.                                         *)
OneRedeemer ==
  \A p \in Procs : pc[p] \in Calling =>
    ~used /\ \A q \in Procs : pc[q] \in Calling => p = q

(* No session, key or ticket says redeemed before ROLLER let the whole group *)
(* in: a part of it, or an attempt that went wrong, is no check-in.          *)
ReceiptMeansEntered ==
  (\/ used
   \/ \E s \in Sessions : sess[s].status = "redeemed" \/ key[s].status = "succeeded")
  => roller = Batches

(* "Tickets, the idempotency key and the check-in session are completed in   *)
(* one statement, so they can never be left half-done" (redeem:2728), and    *)
(* stay so whatever older attempts write.                                    *)
ReceiptIsWhole ==
  /\ used <=> \E s \in Sessions : sess[s].status = "redeemed"
  /\ \A s \in Sessions : sess[s].status = "redeemed" => key[s].status = "succeeded"

(* Reopening, expiry, a failed or a repeated attempt never takes an          *)
(* admission or its receipt back.                                            *)
AdmissionIsFinal ==
  [][\A s \in Sessions :
       /\ sess[s].status = "redeemed" => sess'[s].status = "redeemed"
       /\ key[s].status = "succeeded" => key'[s].status = "succeeded"]_vars

(* The check-in implements what a visit is promised.                         *)
Receipts == {s \in Sessions : sess[s].status = "redeemed"}
Working  == {p \in Procs : pc[p] \in Calling}

Promise == INSTANCE VisitPromise WITH
             Workers <- Procs, entered <- roller, receipts <- Receipts, working <- Working
ImplementsVisit == Promise!Spec

(* "Whichever comes last admits": a ready session of a confirmed booking is  *)
(* admitted or handed to staff, also when ROLLER fails on the way, as long   *)
(* as no invocation dies and staff do not redeem at the same time.           *)
Handed == \A s \in Sessions :
  (sess[s].status = "ready" /\ sess[s].sync = "confirmed")
    ~> (sess[s].status = "redeemed" \/ sess[s].auto = "needs_staff")

(* "A rejection or the last failure records needs_staff"                     *)
(* (JUMPYARD_CLOUD_CONTRACT.md): a session on retrying has an event that     *)
(* will try again.                                                           *)
RetryingIsRetried == \A s \in Sessions :
  sess[s].status = "ready" /\ sess[s].auto = "retrying" =>
    \E p \in Requests : mem[p].s = s /\ mem[p].tries > 0 /\ pc[p] # "done"

(* "One number all visit day" (DECISIONS.md:63, D0229): the visit has one    *)
(* number.                                                                   *)
OneNumber == \A s, t \in Sessions : sess[s].number /\ sess[t].number => s = t
=============================================================================
