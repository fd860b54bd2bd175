---------------------------- MODULE WebhookQueue ----------------------------
(***************************************************************************)
(* ROLLER's booking webhooks (infra/lambda/webhook/index.js) and the local *)
(* copy of the booking they keep up to date, for one booking.              *)
(*                                                                         *)
(* ROLLER changes the booking, version by version, and sends one event for   *)
(* each change: late, repeated or in any order.  Intake stores the event   *)
(* and puts it on a FIFO queue of one group; the processor, one invocation *)
(* at a time, takes the head of the queue or, every five minutes, what the *)
(* queue left unfinished.  Other readers of ROLLER (a lookup, a redeem)    *)
(* write the same local rows meanwhile.  The copy is the version the       *)
(* booking's row was read at; its items and tickets, written right after   *)
(* it in statements of their own, are left out.                            *)
(***************************************************************************)
EXTENDS Naturals, Sequences, FiniteSets

CONSTANTS Lookups,      \* refreshes of the booking by other lambdas
          Changes,      \* changes of the booking at ROLLER
          Cancels,      \* the last one cancels it, and ROLLER answers 404
          MaxAttempts,  \* ROLLER_WEBHOOK_MAX_RECOVERY_ATTEMPTS
          MaxReceives,  \* deliveries of a message before the dead-letter queue
          MaxRepeats,   \* bound on ROLLER's repeated deliveries
          MaxFaults     \* bound on crashes and failed status updates

ASSUME WebhookAssumption ==
  /\ Changes \in Nat \ {0} /\ Cancels \in BOOLEAN
  /\ {MaxAttempts, MaxReceives} \subseteq Nat \ {0}
  /\ {MaxRepeats, MaxFaults} \subseteq Nat

Events   == 1..Changes
Versions == 0..Changes

VARIABLES
  version,   \* the booking at ROLLER
  status, attempts,  \* roller_webhook_events: status, enrichment_attempts
  intake,    \* of each event: the request under way
  repeats,   \* repeated deliveries so far
  told,      \* events ROLLER has been answered 200 for
  queue,     \* the messages, with the times each was received
  sent,      \* events once put on the queue, for its deduplication
  proc,      \* the processor
  copy,      \* the local row of the booking
  newest,    \* history: the newest version ever written to the booking's row
  look,      \* the other refreshes
  faults

vars == <<version, status, attempts, repeats, intake, told, queue, sent, proc, copy,
          newest, look, faults>>
rows == <<status, attempts>>
outside == <<version, repeats, intake, told, sent>>

Finished == {"processed", "ignored_scope"}
Statuses == {"none", "received", "pending_enrichment", "failed"} \cup Finished
Steps == {"idle", "next", "load", "mark", "read", "write", "tombstone",
          "ignore", "finish", "fail"}

TypeOK ==
  /\ version \in Versions
  /\ status \in [Events -> Statuses] /\ attempts \in [Events -> Nat]
  /\ repeats \in 0..MaxRepeats /\ intake \in [Events -> {"idle", "enqueue"}]
  /\ told \subseteq Events /\ sent \subseteq Events
  /\ queue \in Seq([e : Events, n : 0..MaxReceives])
  /\ proc \in [pc : Steps, from : {"queue", "recovery"}, e : Events, todo : SUBSET Events,
               read : Versions]
  /\ copy \in Versions /\ newest \in Versions
  /\ look \in [Lookups -> [pc : {"idle", "write"}, read : Versions]]
  /\ faults \in 0..MaxFaults

Idle == [pc |-> "idle", from |-> "queue", e |-> 1, todo |-> {}, read |-> 0]

Init ==
  /\ version = 0
  /\ status = [e \in Events |-> "none"] /\ attempts = [e \in Events |-> 0]
  /\ repeats = 0 /\ intake = [e \in Events |-> "idle"]
  /\ told = {} /\ queue = << >> /\ sent = {}
  /\ proc = Idle
  /\ copy = 0 /\ newest = 0
  /\ look = [l \in Lookups |-> [pc |-> "idle", read |-> 0]]
  /\ faults = 0

Gone == Cancels /\ version = Changes

(* The booking changes at ROLLER.                                            *)
Change ==
  /\ version < Changes /\ version' = version + 1
  /\ UNCHANGED <<rows, repeats, intake, told, queue, sent, proc, copy, newest, look, faults>>

-----------------------------------------------------------------------------
(* Intake.                                                                   *)

(* isWebhookEventAutomaticallyRetryable, of a delivery that is not the first *)
Retryable(e) ==
  status[e] \in {"received", "failed", "pending_enrichment"} /\ attempts[e] < MaxAttempts

(* persistWebhookEvent: the first delivery inserts the event; a repeated one *)
(* of a finished or exhausted event is answered at once.                     *)
Deliver(e) ==
  /\ e <= version /\ intake[e] = "idle"
  /\ IF status[e] = "none" THEN UNCHANGED repeats
     ELSE repeats < MaxRepeats /\ repeats' = repeats + 1
  /\ status' = [status EXCEPT ![e] = IF @ = "none" THEN "received" ELSE @]
  /\ IF status[e] = "none" \/ Retryable(e)
     THEN intake' = [intake EXCEPT ![e] = "enqueue"] /\ UNCHANGED told
     ELSE told' = told \cup {e} /\ UNCHANGED intake
  /\ UNCHANGED <<version, attempts, queue, sent, proc, copy, newest, look, faults>>

(* enqueueWebhookEvent: SQS drops a message it took within five minutes.     *)
Enqueue(e) ==
  /\ intake[e] = "enqueue"
  /\ intake' = [intake EXCEPT ![e] = "idle"]
  /\ told' = told \cup {e} /\ sent' = sent \cup {e}
  /\ \/ queue' = Append(queue, [e |-> e, n |-> 0])
     \/ e \in sent /\ UNCHANGED queue
  /\ UNCHANGED <<version, rows, repeats, proc, copy, newest, look, faults>>

(* The queue refuses, or intake dies: ROLLER gets no 200.                    *)
EnqueueFails(e) ==
  /\ intake[e] = "enqueue"
  /\ intake' = [intake EXCEPT ![e] = "idle"]
  /\ UNCHANGED <<version, rows, repeats, told, queue, sent, proc, copy, newest, look, faults>>

-----------------------------------------------------------------------------
(* The processor.                                                            *)

Goto(step) == proc' = [proc EXCEPT !.pc = step]
Same == UNCHANGED outside /\ UNCHANGED <<look, faults>>

(* handleWebhookQueue, one message at a time.  A message that has been       *)
(* received too often goes to the dead-letter queue.                         *)
(* Mutant: one delivery too many. *)
SpentLate(message) == message.n > MaxReceives

Spent(message) == message.n = MaxReceives

Receive ==
  /\ proc.pc = "idle" /\ queue # << >>
  /\ IF Spent(Head(queue))
     THEN queue' = Tail(queue) /\ UNCHANGED proc
     ELSE /\ queue' = [queue EXCEPT ![1].n = @ + 1]
          /\ proc' = [Idle EXCEPT !.pc = "load", !.e = Head(queue).e]
  /\ UNCHANGED <<rows, copy, newest>> /\ Same

(* handleWebhookRecovery: the events that are not finished, in one list.     *)
(* Mutant: events under way are left to the queue. *)
RecoverableNotPending(e) == status[e] \in {"received", "failed"} /\ attempts[e] < MaxAttempts

Recoverable(e) ==
  status[e] \in {"received", "pending_enrichment", "failed"} /\ attempts[e] < MaxAttempts

StartRecovery ==
  /\ proc.pc = "idle" /\ \E e \in Events : Recoverable(e)
  /\ proc' = [Idle EXCEPT !.pc = "next", !.from = "recovery",
                          !.todo = {e \in Events : Recoverable(e)}]
  /\ UNCHANGED <<rows, queue, copy, newest>> /\ Same

NextOne ==
  /\ proc.pc = "next"
  /\ IF proc.todo = {} THEN proc' = Idle
     ELSE \E e \in proc.todo :
            proc' = [proc EXCEPT !.pc = "load", !.e = e, !.todo = @ \ {e}]
  /\ UNCHANGED <<rows, queue, copy, newest>> /\ Same

OnList == [proc EXCEPT !.pc = "next", !.e = 1, !.read = 0]

(* The event is through: its message is deleted, recovery goes on.           *)
Through ==
  IF proc.from = "queue" THEN proc' = Idle /\ queue' = Tail(queue)
  ELSE proc' = OnList /\ UNCHANGED queue

(* processWebhookEventById.                                                  *)
(* Mutant: a finished event is processed like any other. *)
SkipNever(e) == FALSE

Skip(e) == status[e] \in Finished

Load ==
  /\ proc.pc = "load"
  /\ IF Skip(proc.e) THEN Through ELSE Goto("mark") /\ UNCHANGED queue
  /\ UNCHANGED <<rows, copy, newest>> /\ Same

(* markWebhookEventPending, without a look at the status.                    *)
Mark ==
  /\ proc.pc = "mark"
  /\ status' = [status EXCEPT ![proc.e] = "pending_enrichment"]
  /\ Goto("read")
  /\ UNCHANGED <<attempts, queue, copy, newest>> /\ Same

(* GET /bookings/{id}, and what it answers: 404, or the booking, which the   *)
(* venue and the items on it put in scope or not.                            *)
(* Mutant: the booking of an earlier event of this invocation is used. *)
AnswerCached == proc.read

Answer == version

AfterAnswer ==
  IF Gone THEN {IF proc.e = Changes THEN "tombstone" ELSE "finish"}
  ELSE {"write", "ignore"}

Read ==
  /\ proc.pc = "read"
  /\ \E step \in AfterAnswer :
       proc' = [proc EXCEPT !.pc = step, !.read = IF step = "write" THEN Answer ELSE 0]
  /\ UNCHANGED <<rows, queue, copy, newest>> /\ Same

Latest(v) == IF v > newest THEN v ELSE newest

(* upsertWebhookBooking and deleteMissingWebhookChildren: the local rows are *)
(* overwritten with what was read.                                           *)
WriteBooking ==
  /\ proc.pc = "write"
  /\ copy' = proc.read /\ newest' = Latest(proc.read)
  /\ proc' = [proc EXCEPT !.pc = "finish", !.read = 0]
  /\ UNCHANGED <<rows, queue>> /\ Same

(* markCancelledBookingNotFound, for a Cancelled event only.                 *)
Tombstone ==
  /\ proc.pc = "tombstone"
  /\ copy' = Changes /\ newest' = Changes
  /\ Goto("finish")
  /\ UNCHANGED <<rows, queue>> /\ Same

(* updateWebhookEventStatus, which counts the attempt.                       *)
Store(new) ==
  /\ status' = [status EXCEPT ![proc.e] = new]
  /\ attempts' = [attempts EXCEPT ![proc.e] = @ + 1]

Finish ==
  /\ proc.pc \in {"finish", "ignore"}
  /\ Store(IF proc.pc = "finish" THEN "processed" ELSE "ignored_scope")
  /\ Through
  /\ UNCHANGED <<copy, newest>> /\ Same

(* ROLLER or a statement fails.                                              *)
Throw ==
  /\ proc.pc \in {"read", "write", "tombstone", "ignore", "finish"}
  /\ proc' = [proc EXCEPT !.pc = "fail", !.read = 0]
  /\ UNCHANGED <<rows, queue, copy, newest>> /\ Same

(* The failure is stored and the message stays in the queue.                 *)
RecordFailure ==
  /\ proc.pc = "fail"
  /\ Store("failed")
  /\ proc' = IF proc.from = "queue" THEN Idle ELSE OnList
  /\ UNCHANGED <<queue, copy, newest>> /\ Same

(* The invocation dies, or the failure cannot be stored either.              *)
Crash ==
  /\ proc.pc # "idle" /\ faults < MaxFaults
  /\ faults' = faults + 1
  /\ proc' = Idle
  /\ UNCHANGED <<rows, queue, copy, newest, look>> /\ UNCHANGED outside

-----------------------------------------------------------------------------
(* A lookup or a redeem refreshes the booking: a read, and the same upserts. *)

LookupRead(l) ==
  /\ look[l].pc = "idle" /\ ~Gone /\ copy # version
  /\ look' = [look EXCEPT ![l] = [pc |-> "write", read |-> version]]
  /\ UNCHANGED <<rows, queue, copy, newest, proc, faults>> /\ UNCHANGED outside

LookupWrite(l) ==
  /\ look[l].pc = "write"
  /\ copy' = look[l].read /\ newest' = Latest(look[l].read)
  /\ look' = [look EXCEPT ![l] = [pc |-> "idle", read |-> 0]]
  /\ UNCHANGED <<rows, queue, proc, faults>> /\ UNCHANGED outside

Work == \/ NextOne \/ Load \/ Mark \/ Read \/ WriteBooking \/ Tombstone
        \/ Finish \/ Throw \/ RecordFailure

Next ==
  \/ Change \/ Receive \/ StartRecovery \/ Work \/ Crash
  \/ \E e \in Events : Deliver(e) \/ Enqueue(e) \/ EnqueueFails(e)
  \/ \E l \in Lookups : LookupRead(l) \/ LookupWrite(l)

Spec == Init /\ [][Next]_vars

(* Intake and an invocation that has started run on; SQS delivers what is    *)
(* queued; the recovery's schedule comes back however busy the processor is. *)
Fairness ==
  /\ WF_vars(Work) /\ WF_vars(Receive) /\ SF_vars(StartRecovery)
  /\ \A e \in Events : WF_vars(Enqueue(e) \/ EnqueueFails(e))

FairSpec == Spec /\ Fairness

-----------------------------------------------------------------------------
(* Properties.                                                               *)

(* "Webhook processing is idempotent and treats arrival order as untrusted"  *)
(* (JUMPYARD_CLOUD_CONTRACT.md): whatever the order of deliveries, retries   *)
(* and recoveries, an event is processed only when its change, or a later    *)
(* one, has been written to the local booking; unless ROLLER no longer has   *)
(* the booking, which is the Cancelled event's to write.                     *)
ProcessedWasCopied == \A e \in Events : status[e] = "processed" => newest >= e \/ Gone

(* The same sentence: a repeated delivery or a second message does not open  *)
(* a finished event again.                                                   *)
FinishedStays == [][\A e \in Events : status[e] \in Finished => status'[e] = status[e]]_vars

(* "Reconciles durably received webhook events that were not completed by    *)
(* the queue worker" (jumpyard-cloud-stack.ts): an event ROLLER was answered *)
(* 200 for is finished or has used its attempts up, though the queue drops   *)
(* it and invocations die half way.                                          *)
EventsSettle ==
  \A e \in Events :
    e \in told ~> (status[e] \in Finished \/ attempts[e] >= MaxAttempts)
=============================================================================
