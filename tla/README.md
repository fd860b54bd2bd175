# JumpYard check-in: TLA+ models and proofs

TLA+ models of the server side of the JumpYard check-in system (`infra/lambda`), TLC runs that check
them on small instances, and TLAPS proofs for every value of the constants. They cover what is
hardest to test and most expensive to get wrong, from the money to the goods: **the card payment on
a kiosk**, the claims that protect it and the add-ons bought on an existing booking, **the
check-in** of the guest's session and its redemption at ROLLER, **the handout** of bands and goods
by staff, **ROLLER's webhooks**, which keep the local copy of a booking up to date, and **the PINs
of staff**, with the rotation of the secret they are derived from. References without a file are to
`src/infra/lambda/booking/index.js` in the parts on payments and claims; `Dxxxx` are entries of
`DECISIONS.md`.

## 1. The system

Guests buy and check in on a phone page or a kiosk; staff hand out wristbands on tablets. All state
the parts share is in one Aurora database (`jumpyard.*`) that lambdas reach through the RDS Data
API. **Every `executeStatement` is a transaction of its own**; the handlers modelled here open none
over two statements, except the PIN sign-in. ROLLER is the external booking system, the card
terminals are external too. So the unit of atomicity is one SQL statement, and any handler may run
between two statements of another.

| Part | State it keeps | Operations | Interacts with | Hard behaviour |
|---|---|---|---|---|
| Kiosk terminal payments (booking lambda) | `prepayment_booking_drafts` row of the attempt, provisional `roller_bookings`, `checkin_sessions`, `checkin_tokens` | finalize (result, status), background worker, publish, authoritative confirmation, staff resolution | kiosk (reports), ROLLER (publish, read-back), webhook and lookup lambdas (confirm the same row), session lambda (automatic check-in) | results late, repeated, out of order; duplicate workers; crashes between statements; read, call ROLLER, then write |
| Kiosk claims and pairing (booking lambda) | `idempotency_records` of operation `kiosk_terminal_binding`, `kiosk_installations` | claim, partial release, release on failure, release of abandoned attempts, pairing, replacement | draft and add-on draft requests, attempts' outcomes | two requests on one key; half a claim; failure before or after the row is stored; check-then-act in pairing |
| Check-in sessions (session lambda) | `checkin_sessions` | start, attested readiness, ready for staff, expiry, request of the automatic check-in | redeem lambda (asynchronous event), confirmations of purchases | two starts at once; expiry while a request runs; the last of two conditions starts the check-in |
| Redeem (redeem lambda) | ticket states, `idempotency_records` of `staff-redeem:<session>`, the session's status and `autoCheckin` | automatic and staff redemption, take-over of a stopped attempt, retries | ROLLER (read, redeem in batches of ten), session | lost answers, late calls, half a group, retries beside staff, a key that goes stale |
| Staff handout (redeem lambda, database function) | `staff_handout_claims`, `staff_handout_operations` | select, release, prepare, complete, resume | redemption of the session, refresh of linked bookings | two phones, two counters, leases that end, a product that moves, refunds |
| Webhooks (webhook lambda) | `roller_webhook_events`, an SQS FIFO queue, the copies of bookings | intake, queue processing, recovery | ROLLER, lookups (the same rows), kiosk payments | late, repeated and reordered events; dropped messages; crashes |
| Lookup | cached bookings | search, refresh, reconcile | ROLLER, booking lambda | writes what it read, however old |
| Add-on links and session sync (booking and session lambdas) | `booking_links`, `bookingSyncStatus` of the original booking's session | confirm an add-on, hand it to staff, release the group, board refresh | worker, webhook and lookup (paid-booking signal), staff, automatic check-in | two add-ons of a session confirmed at once; whoever is last must release and ask |
| Staff PINs (session lambda, rotation script) | `staff_identities`, `staff_auth_sessions`, `staff_pin_pepper_state`; the stages `AWSCURRENT` and `AWSPENDING` of the pepper in Secrets Manager | sign-in, create, reset, enable, disable; stage, require re-enrollment, promote | every staff route (authorization), data lifecycle | verify, then write; a pepper read before a promotion; a promotion cut short between two stores |
| Pre-arrival email, data lifecycle, data sync | claims, runs, cursors of their own | scheduled jobs | bookings, reporting tables | repeated and overlapping runs |
| Phone, admin and kiosk apps, Android shell, infrastructure | client state | user interface, deployment | the routes above | left out, see section 7 |

What makes the modelled parts correct:

* *Payment*: the payment is recorded at ROLLER at most once; a session becomes ready only for a
  paid, attached booking; an approval, booking or reference is never taken back; a charged card is
  never recorded as "no payment"; an approval does not stay pending for ever, and a charged card
  ends as a booking.
* *Claims*: a kiosk and a terminal have at most one unresolved payment between them; a request
  goes to ROLLER only while it holds both its keys; no key stays held by a request that is over.
* *Add-ons*: a group is held until ROLLER has every add-on it paid for, and released and admitted when
  it has, whoever learns of it last.
* *Check-in*: one invocation at a time redeems the visit, automatic or staff, over all sessions of
  the visit; nothing says "redeemed" before ROLLER let the whole group in; tickets, key and session
  get their receipt together and keep it; a ready, confirmed session is admitted or handed to staff.
* *Handout*: no more of a line is handed out than was bought, whatever the counters, leases and
  moved products; bands only after the redemption; a prepared operation is completed as it was
  prepared, by whoever resumes it; nobody holds two selections.
* *Staff PINs*: who is signed in has the PIN they signed in with; no two people share a PIN, not even
  across a rotation; a usable PIN belongs to the current pepper; an interrupted promotion finds the
  next version still staged and can be run again, unless a staging that a whole rotation overtook has
  taken the stage (section 4).
* *Webhooks*: an accepted event ends, whatever the queue loses; none is "processed" before its
  change was written; a finished one stays finished.

## 2. The modules

| Module | What it is |
|---|---|
| `KioskDraft` | One `prepayment_booking_drafts` row, and each SQL statement that writes its outcome columns as an operator from row to row (guards of the WHERE clause included). No variables: the three protocols below share it. |
| `KioskPayment` | The protocol of one attempt. One process per handler invocation, one action per statement or external call. |
| `PaymentPromise` | The abstract specification: what one payment promises, whatever runs behind it. |
| `KioskClaims` | Claims, draft requests and pairing, for several requests on several kiosks. |
| `AddOnSync` | The add-ons of one session and the status their confirmations write to it. |
| `CheckIn` | Sessions of one visit and their redemption at ROLLER. |
| `VisitPromise` | The abstract specification: what the check-in of one visit promises. |
| `StaffHandout` | The handout of one visit at both counters. |
| `WebhookQueue` | The events of one booking through intake, queue and recovery. |
| `StaffPins` | Staff, their sessions, and the rotation of the pepper. |
| `MCKioskPayment`, `MCKioskClaims`, `MCAddOnSync`, `MCCheckIn`, `MCStaffHandout`, `MCStaffPins` | Symmetry and function constants for TLC. |
| `KioskDraftProofs`, `KioskPaymentProofs`, `KioskClaimsProofs`, `AddOnSyncProofs`, `CheckInProofs`, `StaffHandoutProofs`, `WebhookQueueProofs`, `StaffPinsProofs` | Lemmas, theorems and their proofs. |

`KioskPayment`, `KioskClaims` and `AddOnSync` EXTEND `KioskDraft`; `KioskPayment` instantiates
`PaymentPromise`, and `CheckIn` `VisitPromise`, each with a refinement mapping. The modules meet
where the code does. `KioskPayment`'s confirmation with an automatic check-in is `CheckIn`'s
`ConfirmBooking`, `AddOnSync`'s requests its `Dispatch`; the redemption inside `StaffHandout`'s
`Admit` is `CheckIn`'s staff redemption; the webhook that confirms a payment in `KioskPayment` is
one processing of `WebhookQueue`. Each module takes the others' part in as an action of its
environment that may happen at any moment, so its safety does not depend on what the others do.

### KioskDraft

The row is a record of the columns the code branches on: `payment_attempt_status` (`attempt`),
`status`, `booking_confirmation_status` (`conf`), whether the terminal's transaction and merchant
are stored (`txn`, both or neither counts), whether `publish_attempted_at` (`pub`) and
`roller_booking_reference` (`ref`) are set, the worker's lease (`reconciliation_claimed_at`: none,
younger than three minutes, older) and, of `reconciliation_last_result`, only whether it is
`confirmed`, which the webhook tests. Amounts, names, references and timestamps are left out.

### KioskPayment

| Processes | Code | Steps |
|---|---|---|
| Callers | `handleDraftFinalize` (965) | record the outcome; provisional handoff: read, booking, token, session; dispatch |
| Workers | `handleKioskPaymentReconciliation` (1532) | start, lease, per offset: re-read, publish claim, publish, result, read-back; snapshot, confirm |
| Webhooks, Lookups | `webhook/index.js` 1966-2110, `lookup/index.js` 1930-2058 | store the live booking, reconcile the row, select, repair, confirm |
| Staff | `handleKioskStaffResolution` (2532) | read the row, read ROLLER, release or approve and attach |
| Rivals | `releaseAbandonedKioskAttempts` (5795) | read, ROLLER read, guarded release |

Variables: `row`; `session` (sync status, whether ROLLER's booking is attached, whether the guest
token exists); `cache` (who wrote the local booking); `roller` (paid booking, publish calls
received); `terminal` (what really happened: draft on its way, ready, lost, charged, declined);
`age` of the draft (below 5 minutes, below 10, older: the two limits the code tests); `events`
(accepted worker invocations); `admissions` (automatic check-ins requested); `faults`; `pc`, `mem`.

The environment is as hostile as the code has to assume. The kiosk reports only what the terminal
did, but late, repeatedly, or not at all, and `unknown` at any time (`Reportable`). The publish
call may be accepted, rejected, or lost on its way there or back. Worker invocations are delivered
at least once. A lambda may die between any two steps (`Crash`), and a statement of the handoff may
fail (`HandoffFails`, which finalize swallows).

### KioskClaims

A key is an installation or a terminal, and `claim[key]` is the attempt in `result_ref`. The
kiosk's name stands for its terminal: no two offered names share one. A request and its attempt
share an identity. What happens to a drafted attempt later are the statements of `KioskDraft` in
any order (`AttemptMoves`), which over-approximates `KioskPayment`; so the claims are safe whatever
the payment protocol does. `SelectTerminal` to `Unclaim` are the steps of `handleDraft` and
`handleAddProductDraft`; `PairRead` to `PairActivate` those of `handleKioskPairing` (6068).

### AddOnSync

| Processes | Code | Steps |
|---|---|---|
| Finals | `handleDraftFinalize` and the worker it starts, `handleKioskPaymentReconciliation` | report, dispatch, or hand-over to staff; start, claim, look, read-back; snapshot, confirm, request |
| Signals | webhook and lookup, and the paid-booking signal they send (286) | store the booking, publish the row, release (`releaseConfirmedKioskAddOn`) |
| Staff | `handleKioskStaffResolution`, `paid` | evidence, approve, snapshot, confirm, request |
| Guests, Boards | `handleReadyForStaff`, `refreshLinkedAddOnEffectiveSyncState` in `session/index.js` | ready and request; read and write the board's view |

Variables: `rows` (a `KioskDraft` row per add-on), `stored` (its booking is in `roller_bookings`, paid
and with items), `roller`, `session` (status and `bookingSyncStatus`), `asked` (automatic check-ins
invoked), `faults`, `pc`, `mem`, and two history variables: `stale`, the status was written from a
snapshot that another statement had overtaken, and `unasked`, the session became confirmed by a
statement after which the code makes no request, or whose request died.

Here a SQL statement that writes the session is **two** steps. PostgreSQL takes the snapshot for the
tests on the other add-ons (`linkedAddOnEffectiveSyncCte`) when the statement starts, and re-reads
only the rows it updates when it gets their locks. So the `Begin` step remembers what the siblings
show and the second one writes row and session; others may commit in between. A read-back that
misses before the last one changes nothing that matters here, so a worker has one read-back, which
finds the booking or gives up. A lease may have run out at any claim.

### CheckIn

| Steps | Code |
|---|---|
| `ReadBooking` to `FindAttestation` | `handleStartSession` (`session/index.js`): booking context, `expireOldSessions`, `findActiveSession`, `createSession`, `readyAttestedPurchaseSession` |
| `ReadyRequest`, `MarkExpired`, `MakeReady`, `Dispatch` | `handleReadyForStaff`, `markSessionExpired`, the database function `ready_staff_session`, `requestAutoCheckin` |
| `ConfirmBooking` | the confirmation of a purchase's booking, which asks for the automatic check-in too |
| `Precheck`, `RecordFailure`, `Retry` | `handleAutoCheckin`, `recordAutoCheckinFailure`, and Lambda's retry of an event that threw |
| `StaffRequest` | `handleStaffSessionRedeem` |
| `FindReceipt` to `Finalize` | the redeem handler (`redeem/index.js`): receipt, context, refresh, context again, key (`reserveIdempotencyKey`, `claimExistingIdempotencyKey`), batches, the read after a 409, `finalizeRedeemLocally` |

Variables: `sess` (status, whether it has a number, `bookingSyncStatus`, `autoCheckin` status and
attempts), `lapsed` (`expires_at` passed), `used` (the visit's ticket rows), `key` (status, holder
and whether it is older than 30 s), `roller` (batches let in), `late` (calls of dead invocations
still on their way), `pc`, `mem`. A session is named after the start request that inserted it. A
request that asks for the automatic check-in ends with `Dispatch`; the event goes on under its name
with up to `Tries` invocations. ROLLER does not document that it shows ticket states; with
`ShowsState = FALSE` a read may show them or not, at any time. A batch may be refused because it is
in already or for any other reason, answered with an error although it is in, or arrive after its
invocation is dead. Kassan may let guests in without this system (`EnteredAtKassan`). A stored key
goes stale only when its holder no longer runs: an invocation lives 25 s at most, a key is stale
after 30.

### StaffHandout

`change_staff_handout` (migrations 0021 and 0022) is one transaction under advisory locks of actor
and visit, so `select`, `release`, `prepare` (as `Prepare` and `Resume`) and `complete` are one
step each, with every test of the function as a guard. Around it are the steps of
`handleStaffHandout` (`redeem/index.js`): `Refresh` of the linked and, unless the redemption will
do it, the original booking; `Admit` (`handleStaffSessionRedeem` with the claim of the operation);
`Reread` of the manifest; `Complete`. A claim's lease is live or lapsed (`LeaseEnds`), an operation
is named by session, area and revision. Items have quantities, so a partial refund is possible
(`Refund` at ROLLER, `CopyCatchesUp` locally), and a catalogue change may move a product to the
other counter (`CatalogueMoves`). `AdmittedElsewhere` is the automatic check-in.

Requests: `Ask` takes those in whose revision is the claim's; the function answers any other with a
conflict or a stored receipt and changes nothing. A confirmation is for the session the claim
names, as the staff app sends it (`StaffExperience.tsx` 223 and 248); the function itself would take
another session of the visit after a lapsed lease, which no client asks for. What is collected of a
line, a SUM over the completed operations in SQL, is counted here in units (`Units`): a unit is a
completed operation with a number up to its quantity of the line.

### WebhookQueue

`version` is what ROLLER holds, and event `e` announces change `e`. `Deliver`, `Enqueue` and
`EnqueueFails` are the intake (`persistWebhookEvent`, `enqueueWebhookEvent`). `Receive` takes the
head of the FIFO queue, `StartRecovery` and `NextOne` are `handleWebhookRecovery`; both go through
`Load`, `Mark`, `Read`, `WriteBooking` or `Tombstone`, `Finish` or `RecordFailure`
(`processWebhookEventById`). One processor invocation runs at a time (its reserved concurrency is
one in `jumpyard-cloud-stack.ts`). A message received too often goes to the dead-letter queue; a
message sent again within the deduplication interval may be dropped. `LookupRead` and `LookupWrite`
are any other lambda that reads the booking at ROLLER and stores it. `copy` is the version in the
local row, `newest` a history variable: the newest version ever written to it.

### StaffPins

| Processes | Code | Steps |
|---|---|---|
| Logins | `handlePinStaffAuthLogin` in `session/index.js` | `FindAndVerify` (`authenticateStaffPin`); `LoginLock`, `LoginRevoke`, `LoginInsert`: the three statements of the transaction in `createLocalPinStaffSession`; `Abandon` |
| Admins | `handleAdminStaffCollection`, `handleAdminStaffItem` | `CreateStart`, `ResetStart`, `SwitchStart`: authorized, pepper read; `EnrollWrite`, `SwitchWrite`: the write, with its triggers |
| Operators | `scripts/rotate-staff-pin-pepper.ts` | stage: `StageRead`, `StagePut`; require re-enrollment: `RequireRead`, `RequireClear`; promote: `PromoteRead`, `PromoteFence`, `Move`, `Cleanup`; `OpFails` |

Variables: `people` (status, PIN, the version it was derived under, and `cred`, a number for the
salted verifier, new with every write), `sessions` (with the `cred` they were opened with), `adminIn`,
`fence`, `current`, `pending`, counters for both kinds of numbers, what each process remembers, and
the history variable `late`: the last staging put its version after the current one it had read was
replaced. Only `StagePut` writes it, and only a property reads it. A
secret version is a number and an id, because two stagings may produce two secrets of one number. A
session that a sign-in has revoked but not committed stays in `sessions` and in the sign-in's `seen`
until `LoginInsert`. The row lock of a sign-in is `RowFree`; the table locks of the script, taken with
`NOWAIT`, are guards: where the script would give up, the step is not taken, which `OpFails` covers.
`SessionEnds` is a logout, or the deletion of the row a day after it ran out; `Anonymize` is the
lifecycle's for former staff. The pepper a sign-in uses may be a cached, older one.

## 3. The runs

| Run | Instance | Shows |
|---|---|---|
| `confirm` | two finalize calls, two workers, one lookup, one later draft request | `ReadyIsPaid`, `AdmittedIsBooked`, `PublishedOnce`, `NoChargeReleased` (automatic release), `NothingTakenBack`, and that the protocol implements `PaymentPromise` |
| `settled` | one finalize call, worker, webhook and staff request, one fault, `CloudSpec` | `ChargeBooked`: a charged card ends as a published booking; `ApprovalResolved`: an approval ends booked or with staff, even when ROLLER stays silent; `NoChargeReleased` against staff and a crash |
| `claims` | two requests, two kiosks, two names, one pairing request, one fault | `OneLivePayment`, `LiveHoldsItsKeys`, `NoOrphanClaim` |
| `group` | two add-ons, one report with its worker, one signal, staff request, guest and board, one fault | `HeldUnlessStale`, `RequestUnderway`, `ReleasedAtRest` |
| `admission` | two starts with their automatic check-ins and a staff redemption, a group of two batches, one failed call and one crash, ticket states not always shown | `OneRedeemer`, `ReceiptMeansEntered`, `ReceiptIsWhole`, `AdmissionIsFinal`, and that the check-in implements `VisitPromise` |
| `handed` | a purchase's confirmation and a ready request, three failed calls, three invocations per event, `FairSpec` | `Handed`: "whichever comes last admits", or staff are told; `RetryingIsRetried` |
| `handout` | two phones, two colleagues, one session, a band and a linked, refundable coffee | `OneSelectionPerActor`, `PendingReservesItem`, `AdmissionReceipt`, `NeverOverCollected`, `ClaimMatchesOperation`, `IntentKept` |
| `webhook` | two events, the second a cancellation, one repeated delivery, one crash, one lookup, `FairSpec` | `ProcessedWasCopied`, `FinishedStays`, `EventsSettle` |
| `pins` | two people, one PIN, two sign-ins, an administrator, two runs of the script at once, three versions | `LoginNeverCollides`, `SessionsBacked`, `PinsDistinct`, `PinsCurrent`, `SecretFenced` |
| `monotonic` | two finalize calls, one worker, one webhook | **violated**: `StateIsMonotonic` |
| `number` | two starts, no failures | **violated**: `OneNumber` |
| `refunded` | one phone, one session, two refundable coffees | **violated**: `RefundedNotHandedOut` |

Each property of a passing run has a mutant of the code it is about (an operator marked `Mutant:`
above the definition it changes: a dropped guard, a missing reset, a swapped column). With it TLC
finds the property violated under the same configuration.

**Bounds.** Two processes of the kind whose races matter and one of each other kind: the
interactions are pairwise (two workers for the publish; two callers for a handoff that ends after
another one's worker; two requests for a key), and the theorems of section 5 hold for any number.
`Offsets` is the number of read-backs of a worker (seven in the code); one is enough because each
repeats the same re-read, publish (first time only) and read-back. `MaxFaults` bounds crashes and
failed statements. `age` has the three values the code can tell apart. `publishes`, `events` and
`admissions` are bounded by the number of invocations. `CHECK_DEADLOCK FALSE`, because a run has
finitely many invocations and ends when they are done.

In `AddOnSync`, two add-ons are one and its sibling, and a single process of each kind already makes all
pairs of statements overlap: report and worker, signal, staff and board all write the one status. The
three properties also hold with two reports and workers and no staff request (1.6 million states).

In `CheckIn`, two batches are a group that can be half in; two starts and one staff request make
every pair of redeemers (two events, event and staff); `MaxFaults` bounds failed or unanswered calls
to ROLLER and `MaxCrashes` dead invocations and lost events. `admission` gives an event one
invocation: another one is to the key what the second event is already. `handed` gives it the
three Lambda makes, and as many failures. In `StaffHandout`, `MaxUnits` bounds the quantities and
`MaxRevision` the changes of one claim: two reach a completed operation at each counter, four a
second one of the same line. In `WebhookQueue`, two changes have every order of delivery and a lost
one behind a later one; `MaxAttempts` and `MaxReceives` are two, the least at which a retry
differs from giving up; `attempts` needs no bound of its own, since an event is not processed for
ever: finished and exhausted ones are skipped.

In `StaffPins`, `MaxVersion` bounds the peppers and `MaxWrites` the PINs issued. Two people with one
PIN clash whenever they can, and a reset to the same PIN still makes a new verifier; two sign-ins can
be the same person's. Three versions let a run of the script work with what it read before a whole
rotation, and two PINs issued are one before and one after it.

`TypeOK` is a property of one run of each module but three: for `KioskClaims`, `AddOnSync` and
`StaffPins` it is proved for every instance (section 5) and not repeated in a run.

**Fairness.** `CloudFairness`: Lambda runs a started invocation on and delivers an accepted
asynchronous invocation; nothing forces an invocation to start otherwise, neither a report of the
kiosk nor a request of staff. `ChargeBooked` supposes `RollerFairness` on top: ROLLER turns a terminal's
notification into a paid booking and its webhook is delivered; the queue delivers an event again
until it was processed (a crashed webhook goes back to `idle`). `ApprovalResolved` needs only the
first. `AddOnSync` and `StaffPins` state no fairness (nothing makes an
administrator or an operator act): `ReleasedAtRest` says what must be so once all have ended.
`CheckIn`'s `FairSpec`: a started or accepted invocation runs on (`Work` of each process, its retry
included), and a key ages; no request has to arrive. `WebhookQueue`'s `Fairness`: the processor runs
on, the queue delivers its head, an intake request ends, and the recovery, scheduled every five
minutes, gets its turn again and again although the queue competes for the one invocation (strong
fairness; all other is weak).

**`TimelyBooking`.** `NoChargeReleased` cannot hold without an assumption on time: the code decides
"no payment" from a draft older than 5 minutes (staff) or 10 (automatic) that ROLLER does not know.
D0239 and D0286 state why: the terminal times out after about 135 seconds and ROLLER books a late
payment within about 75. `Tick` builds this in as the weakest form: the first five minutes do not
pass while the terminal is undecided or a charge is not booked yet. With `TimelyBooking = FALSE`
the property says nothing, and every other property holds all the same (proved).

## 4. Where code and documentation disagree

* **A confirmed handoff can go back to pending** (`monotonic`). `ensureProvisionalKioskHandoff`
  reads the attempt, then writes in three statements; the last merges `bookingSyncStatus: 'pending'`
  over the session on conflict (1326). If a worker or webhook confirmed in between, the kiosk is
  told `pending` again, against D0182 "State is monotonic". The row stays confirmed, so worker,
  webhook and the hand-over to staff skip it.
* **A visit can get two numbers** (`number`). `handleStartSession` decides from the booking it read
  first that no ticket is used. If the automatic check-in completes the visit's session before
  `findActiveSession`, the start creates a second session, and `ready_staff_session` numbers it;
  D0229 says "one number all visit day". The second session is never redeemed
  (`OneReceiptAlways`), and the two numbers never wait for staff together (`NumbersOfOneVisit`).
* **A refunded unit can still be handed out** (`refunded`). After its refresh a confirmation tests
  that each prepared line is still there with the prepared quantity (`redeem/index.js` 710, 732),
  without what was collected before. Of two coffees, one collected and one refunded, the second is
  handed out, although the refresh is there "so refunded add-ons cannot be handed out" (691).

Met while reading, and not the subject of a run:

* The automatic check-in can be requested twice: D0285 says once, but the test for an earlier
  confirmation reads the same session summary that `monotonic` sees overwritten. `OneRedeemer`
  shows that the second request does no harm.
* Pairing can move a kiosk that has a claim: the comment at 6013 says it must not, but the claims
  are tested in one statement and the pairing changes in later ones. `OneLivePayment` holds all the
  same, because claims are by key. Replacing a kiosk is two statements, where `migrations/0025` says
  one; a failure in between leaves the name without a kiosk.
* A group can be released while one of its add-ons is still `pending`
  (`docs/gh-563-addon-release.md:24` says such a sibling keeps it pending). A confirmation of one add-on
  takes its snapshot, the report of the other commits `pending`, and the confirmation then writes
  `confirmed` over it. `HeldUnlessStale` therefore excepts a status written from an overtaken
  snapshot. The same overlap can leave `pending` behind when all are confirmed, until a board read.
* A ready group can become `confirmed` without a request, although D0279 lets it be checked in "at
  once, with no staff app open": when the webhook has confirmed the add-on, a repeated report (1464)
  or the hand-over to staff by a worker whose last read-back missed (1715) writes `confirmed` and
  asks for nothing; the signal's release and the board then find no change and do not ask either.
  `RequestUnderway` excepts these writes by `unasked`.
* A worker that finds its add-on confirmed between its start and its claim ends without a release,
  unlike at the two looks around it; the paid-booking signal still releases the group.
* A session can stay on `retrying` when the last invocation of its event dies or times out instead
  of failing: only a failure that was caught is counted. `JUMPYARD_CLOUD_CONTRACT.md` says that the
  last failure records `needs_staff`. `handed` therefore assumes that no invocation dies.
* A lookup that read a booking before a change and writes after the webhook leaves the older copy
  in place until the next refresh; `BOOKING_INDEX_INGESTION_CONTRACT.md:105` expects order not to
  matter. `ProcessedWasCopied` therefore speaks of what was written, not of what is there.
* A promotion that dies between moving `AWSCURRENT` and taking `AWSPENDING` away leaves both on one
  version, and `promote` run again cleans that up, but only while nobody has a PIN or an admin
  session (`rotate-staff-pin-pepper.ts` 652). Once someone enrols, `promote` refuses, and `stage` finds
  an "unrelated AWSPENDING", so the next rotation needs the stage removed by hand.
* Who is not issued a PIN after a rotation keeps the old version, and the next re-enrollment is
  refused for everybody as "inconsistent" (728) until that person is reset or anonymized.
* An administrator's write that was authorized before the rotation revoked the session still
  completes after it; only the fence decides whether its PIN is admissible.
* An interrupted promotion cannot always be run again, although D0164 (`DECISIONS.md:353`) says that
  "an interrupted secret move remains safely retryable". One run of the script reads version 1 and
  is delayed before its `PutSecretValue` (459). Another rotates to version 2, stages version 3 and
  commits the fence at 3. The first one's version 2, a new secret, now takes `AWSPENDING`. The second
  dies before it moves `AWSCURRENT`. From then on `stage` (440-445), `require-reenrollment` (483) and
  `promote` (616-621) refuse the stage they find, and the fence refuses every new PIN, until somebody
  removes the stage by hand. Without its exception for `late`, `SecretFenced` is violated by a
  trace of 13 states under the constants of `pins`; with it, the run shows that such a staging is the only cause.
  Two stagings that overlap within one rotation both put the next version, which can be promoted; but
  one that comes after `promote` has read the stages leaves its twin on `AWSPENDING` when the
  promotion is done, and the next rotation needs that stage removed by hand.
* A webhook without an event id is named by a hash of path and body (`webhook/index.js` 576), so two
  changes with the same body count as one event. The model gives each change an event.

## 5. What is proved

`KioskDraftProofs` has the lemmas about statements: `StatementsKeepRow` (each yields a row of the
type), `StatementLifecycle` (each keeps what was stored, keeps the status columns in agreement and
moves the lifecycle on), and what it takes to fail an attempt (`StatementsFailing`), to make it wait
for its booking (`StatementsAwait`), to pay it (`StatementsPaying`) and to publish it
(`StatementsPublishing`, `StatementsBoth`). The protocol proofs reduce every action to the statement
it runs, so each of the two has one lemma per group of actions.

For any sets of invocations and any bounds, `KioskPaymentProofs` proves:

| Theorem | Inductive invariant, and why it is needed |
|---|---|
| `TypeCorrect` | `TypeOK` is inductive. |
| `Kept_Always` | Each step is one statement (`Ordinary`), so the lemma on statements applies. |
| `PublishedOnce_Always` | `PublishClaimed`: publishes so far, plus the processes that hold the claim and have not called yet, are at most one, and none without the stored claim. `PublishedOnce` alone says nothing of a worker about to call. |
| `PromiseImplemented` | `Agree(row)`: the three status columns agree, so a failed attempt has a failed, cancelled or published draft and only it has a failed one or a failed confirmation, and what is confirmed or reconciled is published. Otherwise a webhook could publish a released attempt in the abstract `released`, from which `PaymentPromise` allows no booking. |
| `ReadyIsPaid_Always`, `AdmittedIsBooked_Always` | `Evidenced`: a process past a read-back or a stored live booking has ROLLER's paid booking behind it. `Attachment`: a confirmed session is attached and belongs to a reconciled, published row, and a process about to admit has attached. |
| `NoChargeReleased_Always` | `Timely`: with an old draft the terminal has decided and a charge is booked; a process about to release read such an age and no booking. |
| `ApprovalCarried` | As long as nothing failed, an approved attempt is booked, with staff, or carried on by an invocation or an accepted event. `Carried` adds who holds the lease: a worker that finds it taken ends, and is right to only if a process past its own claim (`Resolving`) still works on the attempt. |
| `OnlyChargedIsPaid` | `CardBehind`: what is paid or published goes back to a charged card, because the kiosk's approval and ROLLER's notification both do. `Located` keeps a webhook on its own path. |
| `WebhookPublishes` | `Stored`: under `TimelyBooking` a webhook past its row update has the draft published. The update skips a failed draft, so it needs `Timely` and `CardBehind`: no draft of a charged card has failed. |
| `ShownFailedIsUnpaid` | `NeverBoth`: no attempt is published and failed at once. With `Agree` a purchase shown as failed then has no booking, and by `NoChargeReleased` no charge. |

`KioskClaimsProofs` proves `ClaimsTypeCorrect`, `LiveHoldsItsKeys_Always` and
`OneLivePayment_Always` from `IInv` (types, the order of a request's steps, and that live attempts
and requests on their way to ROLLER hold their keys), and `NoOrphanClaim_Always` from `Answered`,
which adds that a request holds nothing before its claim and after its partial release.

`AddOnSyncProofs` proves, for any number of add-ons and invocations, `TypeCorrect`, `GroupHeld`
(`HeldUnlessStale`) and `AdmissionRequested` (`RequestUnderway`) from `IInv`: `TypeOK`, `MemOK` (who
stores or confirms an add-on has seen ROLLER's booking), `RowsFine` (a row says confirmed, and a
booking is stored, only if ROLLER holds it; a paid row never says failed) and the two properties.
`RowsFine` is what a status computed from rows rests on: if no paid sibling is pending or with
staff, all are confirmed, and so booked (`SiblingsBacked`). The actions fall into four kinds by what
they change (`QuietKeeps`, `RowKeeps`, `RowAndSyncKeeps`, `ChangeKeeps`). `ReleasedWhenDone`
(`ReleasedAtRest`) needs `RInv`, which adds `StoredFirst` (a row that says booked has its booking
stored, and so has every process about to confirm or publish it) and `ReleaseOwed`: with every paid
add-on confirmed and the group not released, some process is at its release or holds a snapshot that
shows the group confirmed. `ReleasedAtRest` is `ReleaseOwed` with nobody on the way.

`CheckInProofs` proves, for any requests, sessions, batches, retries and failures, `CheckInTypes`,
`OneRedeemerAlways`, `ReceiptMeansEnteredAlways`, `ReceiptIsWholeAlways`, `AdmissionIsFinalAlways`
and `VisitImplemented`. The inductive invariant `IInv` is `TypeOK`, `RowsAgree` (at most one session
is active, sessions, keys and tickets say "redeemed" together, and then the whole group is in) and,
for each process, `OnItsWay` (what it has found on its way is still so: who calls ROLLER holds the
fresh key of a ready session, and what it does not send again is in). `OneRedeemer` alone is not
inductive: that a second invocation cannot take the key over follows from its age, and that no other
session's key helps from the single active session. Every action reduces to one of a few lemmas
about how a step changes the rows (`TakeKeeps` and its neighbours). `VisitImplemented` maps a taken
key to `Begin`, a batch to `Enter`, every end of an attempt to `Stop` and the receipt to `Complete`,
and uses `OneRedeemer` before and after the step. `OneReceiptAlways` adds that at most one session of
the visit is ever redeemed, whoever reopens it: the receipt is written for a session that has it
already, or by the holder of a key while no session has one (`FinalizeOnce`).

`AttendedAlways` and `RetryingIsRetriedAlways` speak of the automatic check-in as long as no
invocation has died, no event was lost and no staff redemption has started (`Undisturbed`), since the
code is exposed to all three (section 4). They suppose `MaxAttempts <= Tries`: Lambda invokes an event
three times, and the code gives up after three failures. `RetryingIsRetriedAlone` is the case of the
run `handed`, without staff and crashes. An event ends in three ways that leave its session ready, and
the invariant (`EventInv`, part of `Tended`) has a part for each. It is thrown for the last time:
`Counted`, every further invocation follows a failure that was counted, so the attempts run out
first. It finds a fresh key: `KeyHeld`, the key's holder goes on, or its failure was the last one.
The session was not confirmed yet when it came: the confirmation sends an event of its own (`Asking`).
`RetryingIsRetried` alone says nothing of a session no event has failed for.

`StaffHandoutProofs` proves `HandoutTypes`, `OneSelectionAlways`, `ClaimMatchesAlways`,
`PendingReservesAlways`, `AdmissionReceiptAlways` and `IntentKeptAlways` from `IInv`: `TypeOK`,
`ClaimInv` (one live selection per actor; claims and pending operations point at each other; no line
in two of them), `Asked` (the operation a phone waits for is the one its request names) and
`AdmissionReceipt`. `Asked` is what makes the last one inductive: a completion is of the operation,
and so of the session, the phone has had admitted. `NeverOverCollectedAlways` needs `CollectInv`:
`InStock` (neither ROLLER nor the local copy has more of a line than was bought) and `Room` (a
pending operation fits beside what is collected of its lines). `Room` is kept because no line is in
two pending operations (`PendingReservesItem`): what is collected of a line grows only by the one
that holds it. `UnitsFinite`, `UnitsOfOne` and `UnitsGrow` say how units count.

`WebhookQueueProofs` proves `WebhookTypes`, `ProcessedWasCopiedAlways` and `FinishedStaysAlways` from
`IInv`: `TypeOK`, `Known` (what is stored, queued or in hand is the event of a change that
happened), `Held` (a message stays in the queue while it is worked on), `InHand` (the event in hand
is not finished: there is one processor), `Fresh` (what is about to be written is as new as the
event) and `ProcessedWasCopied`.

`StaffPinsProofs` proves `TypeCorrect`, `SignInsNeverCollide` (`LoginNeverCollides`),
`SessionsRestOnPins` (`SessionsBacked`), `PinsAreDistinct`, `PinsAreCurrent` and `PromotionCanResume`
(`SecretFenced`) from `IInv`, for any people, PINs, invocations and bounds. Its parts: `LoginInv`, that
a sign-in that has locked the row finds the material unchanged (`LockKeepsMaterial`) and that one at
most holds it (`OneHolder`), which carries the two session properties from the lock to the commit;
`AdminInv`, that an administrator holds a PIN of a pepper that was current, and `PinInv`, the two
properties of PINs; `SecretInv`, what a run of the script may still assume of the stages it read
(`ReadOrPassed`: they are as read, or the rotation has passed them) and that, while the fence is ahead
or a promotion may still advance it, the next version is staged, or an older one by an overtaken
staging, where no cleanup takes it away (`Staged`). Without `ReadOrPassed` a late `Move` could take the
secret back. Distinct PINs follow because an index compares them under one version, and there is only one.

Assumptions: invocations of different kinds are different (`ProcAssumption`, `CheckInAssumption`),
installations are not names, the "none" values are outside the sets (`KeyAssumption`,
`HandoutAssumption`, `PinAssumption`), batches are a finite, nonempty set of numbers, bands are not
linked goods, quantities and bounds are naturals (`WebhookAssumption` and the others).

Three properties are refuted by the code (section 4), and a theorem says what holds beside each:

| Refuted | Proved |
|---|---|
| `StateIsMonotonic` | `ShownFailedIsUnpaid`: a purchase may be shown as pending again, but as failed only if it failed, has no booking and, under `TimelyBooking`, no charge |
| `OneNumber` | `NumbersOfOneVisit`: of two numbered sessions one is redeemed and the other ready, so two numbers of a visit never wait side by side. From `Numbered` (a numbered session is ready or redeemed), `OneReceipt` and the single active session |
| `RefundedNotHandedOut` | `FirstHandoutIsThere`: of a line of which nothing was collected before, a completion hands out no more than the manifest read after the admission has. From `SeenAgain`, what a phone about to complete has read |

Only model-checked: liveness, since fairness and ENABLED are out of the prover's reach. The safety
half of three of the four properties is proved: of `ApprovalResolved` and `Handed` that what must
still happen is in somebody's hands (`ApprovalCarried`, `AttendedAlways`), of `ChargeBooked` what a
webhook delivery leaves behind (`WebhookPublishes`). That whoever has it in hand comes to its end, and
that after a failed call or a crash the queue's or Lambda's retry takes over, is TLC's on the runs
`settled` and `handed`; of `EventsSettle`, on `webhook`, there is no such half beyond `FinishedStays`.

## 6. Abstractions a reader should know

* A SQL statement is one atomic step on the committed state, except in `AddOnSync`. PostgreSQL at
  READ COMMITTED is weaker for statements with several sub-selects: two overlapping confirmations of
  a new booking may both see the session as not yet confirmed, a second way to the doubled automatic
  check-in.
* ROLLER's booking either matches the sale or `Repair` refuses it; what makes a candidate match
  (externalId, venue, date, amount, tickets) is one nondeterministic choice.
* The add-on flow uses the same row statements; its session is in `AddOnSync`, which has no publish
  with the terminal's payment (that is `KioskPayment`'s) and no declined add-on: it is never paid,
  and no statement looks at it.
* In `AddOnSync` the automatic check-in is one step that admits a ready, confirmed session;
  `CheckIn` has what it takes. Requests that never reach Lambda are invocations that die.
* `KioskPayment` keeps of the webhook queue only the retry of an event that ends in an error;
  `WebhookQueue` has the rest.
* In `CheckIn` the write gates are open, the emergency stop is off and the clock is inside the
  visit's check-in window; all of them only refuse. The automatic check-in's look at a handout claim
  (`staff_claimed`) is left out, so the model admits more often than the code, and `Handed` is about
  groups nobody is handing out to. An attempt whose key was reserved for another request hash is a
  different guest input and does not happen.
* In `StaffHandout` the automatic check-in (`AdmittedElsewhere`) may admit beside any claim. The code
  stops at a live entrance claim (504), but reads the session once and admits later.
* `StaffHandout` has one visit. The function locks only the actor and the visit it reads first;
  claims of one visit are always under the same lock. Quantities of a line change at ROLLER by
  refunds only.
* `WebhookQueue` keeps one version for a booking's row. Its items and tickets are written in
  statements right after it, and a crash between them leaves them to the retry. The venue and item
  rules that put a booking out of scope are one nondeterministic choice.
* In `StaffPins` the attempt limiter only refuses and is left out, and so are lengths of sessions: one
  that ran out is as good as none, and may stay in `sessions` for ever or end at any time. The test
  of a sign-in's time against `tokens_valid_after` compares two clocks and may refuse (`Abandon`). A
  sign-in that holds a person's row can deadlock with the re-enrollment's update of all rows;
  PostgreSQL aborts one of them, and the model lets the other go on. `writes` numbers salted
  verifiers, which makes two of them different always, where the code has it almost surely.
* Draft rows, claims, check-in sessions and events are never deleted (retention is not modelled), and a
  client never reuses an idempotency key after its two hours.

## 7. Not modelled

| Part | Why |
|---|---|
| Creation of add-on links and items | Written with the draft, before any payment; `AddOnSync` starts from them. |
| Phone payments, consent, attestation | One-shot captures beside a draft; what they lead to is an input of `CheckIn` (`ConfirmBooking`, `Attested`). |
| Client idempotency keys | They replay an answer or refuse another request under the same key; the key of the redemption, which decides, is in `CheckIn`. |
| PIN attempt limits, Cognito tokens and second factors, the passcode mode | They refuse sign-ins; `StaffPins` starts from those that are let through. The PIN proofs of kiosk pairing and payment resolution are single checks that open no session. |
| Guest links and access tokens, search and freshness of lookups, staff board | Reads and views; what they write is in the modules above. |
| Pre-arrival email, data sync, data lifecycle except for staff | Scheduled jobs with rows of their own; none touches a row of a running protocol. |
| Availability, quotes, product catalogue, email templates | Computation without state. |
| Web apps, Android shell, infrastructure, all scripts but the PIN rotation | User interface and deployment; the requests they send are the environment's actions. |
