------------------------- MODULE WebhookQueueProofs -------------------------
(***************************************************************************)
(* Theorems about WebhookQueue, for any number of changes, attempts,       *)
(* deliveries and refreshes by other lambdas.                              *)
(***************************************************************************)
EXTENDS WebhookQueue, TLAPS

Working == {"load", "mark", "read", "write", "tombstone", "ignore", "finish", "fail"}

(* Wherever an event is mentioned it is stored, and it is stored after its   *)
(* change was made.                                                          *)
Known ==
  /\ \A e \in Events : status[e] # "none" => e <= version
  /\ \A e \in Events : intake[e] = "enqueue" => status[e] # "none"
  /\ \A i \in 1..Len(queue) : status[queue[i].e] # "none"
  /\ \A e \in proc.todo : status[e] # "none"
  /\ proc.pc \in Working => status[proc.e] # "none"

(* A message stays in the queue while it is worked on. *)
Held == proc.from = "queue" /\ proc.pc # "idle" => queue # << >>

(* The event in hand is not finished once it was found to be unfinished.     *)
InHand == proc.pc \in Working \ {"load"} => status[proc.e] \notin Finished

(* What is about to be written, or to be called processed, is new enough.    *)
Fresh ==
  /\ proc.pc = "write" => proc.read >= proc.e
  /\ proc.pc = "finish" => newest >= proc.e \/ Gone

IInv == TypeOK /\ Known /\ Held /\ InHand /\ Fresh /\ ProcessedWasCopied

(* What the assumption on the constants says of each.                        *)
LEMMA Constants ==
  /\ Changes \in Nat /\ Changes >= 1 /\ MaxReceives \in Nat /\ MaxReceives >= 1
  /\ MaxRepeats \in Nat /\ MaxFaults \in Nat
  /\ 1 \in Events /\ 0 \in Versions
<1>1. /\ Changes \in Nat \ {0} /\ MaxReceives \in Nat \ {0}
      /\ MaxRepeats \in Nat /\ MaxFaults \in Nat
  BY WebhookAssumption
<1> QED BY <1>1 DEF Events, Versions

(* The elements and the head of a sequence. *)
LEMMA ElementTyped ==
  ASSUME NEW S, NEW q \in Seq(S)
  PROVE  /\ \A i \in 1..Len(q) : q[i] \in S
         /\ q # << >> => Len(q) \in Nat /\ Len(q) >= 1 /\ Head(q) = q[1]
OBVIOUS

(* A message is about an event. *)
LEMMA QueueTyped ==
  ASSUME NEW q \in Seq([e : Events, n : 0..MaxReceives])
  PROVE  /\ \A i \in 1..Len(q) : q[i] \in [e : Events, n : 0..MaxReceives] /\ q[i].e \in Events
         /\ q # << >> => Len(q) \in Nat /\ Len(q) >= 1 /\ Head(q) = q[1]
<1>1. \A i \in 1..Len(q) : q[i] \in [e : Events, n : 0..MaxReceives]
  BY ElementTyped
<1>2. q # << >> => Len(q) \in Nat /\ Len(q) >= 1 /\ Head(q) = q[1]
  BY ElementTyped
<1> QED BY <1>1, <1>2

(* The initial state satisfies the inductive invariant.                      *)
LEMMA InitInv == Init => IInv
<1> SUFFICES ASSUME Init PROVE IInv
  OBVIOUS
<1>1. TypeOK
  BY Constants DEF Init, TypeOK, Idle, Steps, Versions, Events, Statuses, Finished
<1>2. Known /\ Held /\ InHand /\ Fresh /\ ProcessedWasCopied
  BY DEF Init, Idle, Known, Held, InHand, Fresh, ProcessedWasCopied, Working
<1> QED BY <1>1, <1>2 DEF IInv

(* The booking changes: what was gone stays gone. *)
LEMMA ChangeKeeps == ASSUME IInv, Change PROVE IInv'
<1> USE DEF IInv, Change, rows
<1>1. /\ version \in Nat /\ version' \in Versions /\ version' > version
      /\ Gone => Gone'
  BY WebhookAssumption DEF TypeOK, Versions, Gone
<1>2. TypeOK'
  BY <1>1 DEF TypeOK
<1>3. Known'
  BY <1>1 DEF Known, Events
<1>4. Held' /\ InHand' /\ Fresh' /\ ProcessedWasCopied'
  BY <1>1 DEF Held, InHand, Fresh, ProcessedWasCopied
<1> QED BY <1>2, <1>3, <1>4

(* A delivery stores an event only after its change, and never one again.    *)
LEMMA DeliverKeeps == ASSUME IInv, NEW e \in Events, Deliver(e) PROVE IInv'
<1> USE DEF IInv, Deliver
<1>1. /\ status' \in [Events -> Statuses] /\ status'[e] # "none"
      /\ \A f \in Events : /\ status[f] # "none" => status'[f] = status[f]
                           /\ f # e => status'[f] = status[f]
                           /\ status[f] = "none" /\ f = e => status'[f] = "received"
  BY DEF TypeOK, Statuses
<1>2. TypeOK'
  <2>1. repeats' \in 0..MaxRepeats
    BY Constants DEF TypeOK
  <2>2. intake' \in [Events -> {"idle", "enqueue"}] /\ told' \subseteq Events
    BY DEF TypeOK
  <2> QED BY <1>1, <2>1, <2>2 DEF TypeOK
<1>3. Known'
  <2>1. \A f \in Events : intake'[f] = "enqueue" => intake[f] = "enqueue" \/ f = e
    BY DEF TypeOK
  <2>2. \A i \in 1..Len(queue) : queue[i].e \in Events
    BY QueueTyped DEF TypeOK
  <2>3. proc.todo \subseteq Events /\ proc.e \in Events
    BY DEF TypeOK
  <2> QED BY <1>1, <2>1, <2>2, <2>3 DEF Known
<1>4. Held' /\ InHand' /\ Fresh'
  BY <1>1 DEF TypeOK, Held, InHand, Fresh, Gone, Known, Working
<1>5. ProcessedWasCopied'
  BY <1>1 DEF ProcessedWasCopied, Gone
<1> QED BY <1>2, <1>3, <1>4, <1>5

(* Only a stored event is put on the queue. *)
LEMMA EnqueueKeeps == ASSUME IInv, NEW e \in Events, Enqueue(e) PROVE IInv'
<1> USE DEF IInv, Enqueue, rows
<1> DEFINE message == [e |-> e, n |-> 0]
<1>1. status[e] # "none" /\ queue \in Seq([e : Events, n : 0..MaxReceives])
  BY DEF Known, TypeOK
<1>2. message \in [e : Events, n : 0..MaxReceives]
  BY WebhookAssumption
<1>3. /\ queue' \in Seq([e : Events, n : 0..MaxReceives])
      /\ queue # << >> => queue' # << >>
      /\ \A i \in 1..Len(queue') : status[queue'[i].e] # "none"
  <2>1. CASE UNCHANGED queue
    BY <1>1, <2>1 DEF Known
  <2>2. CASE queue' = Append(queue, message)
    <3> HIDE DEF message
    <3>1. /\ queue' \in Seq([e : Events, n : 0..MaxReceives])
          /\ Len(queue') = Len(queue) + 1 /\ queue'[Len(queue) + 1] = message
          /\ \A i \in 1..Len(queue) : queue'[i] = queue[i]
      BY <1>1, <1>2, <2>2
    <3>2. ASSUME NEW i \in 1..Len(queue') PROVE status[queue'[i].e] # "none"
      <4>1. CASE i \in 1..Len(queue)
        BY <3>1, <4>1 DEF Known
      <4>2. CASE i = Len(queue) + 1
        BY <1>1, <3>1, <4>2 DEF message
      <4> QED BY <1>1, <3>1, <4>1, <4>2
    <3>3. queue' # << >>
      BY <1>1, <3>1
    <3> QED BY <3>1, <3>2, <3>3
  <2> QED BY <2>1, <2>2
<1>4. TypeOK'
  BY <1>3 DEF TypeOK
<1>5. Known'
  BY <1>3 DEF Known, TypeOK
<1>6. Held' /\ InHand' /\ Fresh' /\ ProcessedWasCopied'
  BY <1>3 DEF Held, InHand, Fresh, ProcessedWasCopied, Gone
<1> QED BY <1>4, <1>5, <1>6

(* A refused enqueue leaves the stored event to ROLLER's retry and recovery. *)
LEMMA EnqueueFailsKeeps == ASSUME IInv, NEW e \in Events, EnqueueFails(e) PROVE IInv'
<1> USE DEF IInv, EnqueueFails, rows
<1>1. TypeOK'
  BY DEF TypeOK
<1>2. Known'
  BY DEF Known, TypeOK
<1>3. Held' /\ InHand' /\ Fresh' /\ ProcessedWasCopied'
  BY DEF Held, InHand, Fresh, ProcessedWasCopied, Gone
<1> QED BY <1>1, <1>2, <1>3

-----------------------------------------------------------------------------
(* The processor.                                                            *)

Processor == [pc : Steps, from : {"queue", "recovery"}, e : Events, todo : SUBSET Events,
              read : Versions]

(* An idle processor is one.                                                 *)
LEMMA IdleTyped == Idle \in Processor /\ Idle.pc = "idle" /\ Idle.todo = {}
BY Constants DEF Idle, Processor, Steps, Events, Versions

(* The queue without its head. *)
LEMMA TailKeeps ==
  ASSUME TypeOK, Known, queue # << >>
  PROVE  /\ Tail(queue) \in Seq([e : Events, n : 0..MaxReceives])
         /\ \A i \in 1..Len(Tail(queue)) : status[Tail(queue)[i].e] # "none"
<1>1. queue \in Seq([e : Events, n : 0..MaxReceives])
  BY DEF TypeOK
<1>2. /\ Tail(queue) \in Seq([e : Events, n : 0..MaxReceives])
      /\ Len(Tail(queue)) = Len(queue) - 1
      /\ \A i \in 1..Len(Tail(queue)) : Tail(queue)[i] = queue[i + 1] /\ i + 1 \in 1..Len(queue)
  BY <1>1
<1> QED BY <1>2 DEF Known

(* Taking the head of the queue, or giving it to the dead-letter queue.      *)
LEMMA ReceiveKeeps == ASSUME IInv, Receive PROVE IInv'
<1> USE DEF IInv, Receive, Same, outside, rows
<1>1. CASE Spent(Head(queue))
  <2>1. queue' = Tail(queue) /\ proc' = proc /\ proc.pc = "idle" /\ queue # << >>
    BY <1>1
  <2>2. TypeOK'
    BY <2>1, TailKeeps DEF TypeOK
  <2>3. Known'
    BY <2>1, TailKeeps DEF Known, TypeOK
  <2>4. Held' /\ InHand' /\ Fresh' /\ ProcessedWasCopied'
    BY <2>1 DEF Held, InHand, Fresh, ProcessedWasCopied, Gone
  <2> QED BY <2>2, <2>3, <2>4
<1>2. CASE ~Spent(Head(queue))
  <2> DEFINE head == queue[1]
             taken == [head EXCEPT !.n = @ + 1]
  <2>1. /\ queue \in Seq([e : Events, n : 0..MaxReceives]) /\ queue # << >>
        /\ Len(queue) \in Nat /\ Len(queue) >= 1 /\ Head(queue) = head
        /\ head \in [e : Events, n : 0..MaxReceives]
    <3>1. queue \in Seq([e : Events, n : 0..MaxReceives]) /\ queue # << >>
      BY DEF TypeOK
    <3>2. Len(queue) \in Nat /\ Len(queue) >= 1 /\ Head(queue) = head
      BY <3>1, QueueTyped
    <3>3. 1 \in 1..Len(queue)
      BY <3>2
    <3>4. queue[1] \in [e : Events, n : 0..MaxReceives]
      BY <3>1, <3>3, ElementTyped
    <3> QED BY <3>1, <3>2, <3>4
  <2>2. taken \in [e : Events, n : 0..MaxReceives] /\ taken.e = head.e
    <3>1. head.n \in 0..MaxReceives /\ head.n # MaxReceives
      BY <1>2, <2>1 DEF Spent
    <3>2. head.n + 1 \in 0..MaxReceives
      BY <3>1, Constants
    <3> QED BY <2>1, <3>2
  <2> HIDE DEF taken
  <2>3. queue' = [queue EXCEPT ![1] = taken]
    BY <1>2, <2>1 DEF taken
  <2>4. /\ queue' \in Seq([e : Events, n : 0..MaxReceives]) /\ Len(queue') = Len(queue)
        /\ \A i \in 1..Len(queue) : queue'[i].e = queue[i].e
    BY <2>1, <2>2, <2>3
  <2>5. queue' # << >>
    BY <2>1, <2>4
  <2>6. status[head.e] # "none"
    BY <2>1 DEF Known
  <2>7. /\ proc' \in Processor /\ proc'.pc = "load" /\ proc'.e = head.e /\ proc'.todo = {}
    BY <1>2, <2>1, IdleTyped DEF Processor, Steps
  <2>8. TypeOK'
    BY <2>4, <2>7 DEF TypeOK, Processor
  <2>9. Known'
    BY <2>4, <2>6, <2>7 DEF Known, TypeOK
  <2>10. Held' /\ InHand' /\ Fresh' /\ ProcessedWasCopied'
    BY <2>5, <2>7 DEF Held, InHand, Fresh, ProcessedWasCopied, Gone, Working
  <2> QED BY <2>8, <2>9, <2>10
<1> QED BY <1>1, <1>2

(* A step that changes the processor only. *)
LEMMA MoveKeeps ==
  ASSUME IInv, proc' \in Processor, UNCHANGED <<rows, queue, copy, newest>>, UNCHANGED outside,
         UNCHANGED look, faults' \in 0..MaxFaults,
         \A e \in proc'.todo : status[e] # "none",
         proc'.pc \in Working => status[proc'.e] # "none",
         proc'.from = "queue" /\ proc'.pc # "idle" => queue # << >>,
         proc'.pc \in Working \ {"load"} => status[proc'.e] \notin Finished,
         proc'.pc = "write" => proc'.read >= proc'.e,
         proc'.pc = "finish" => newest >= proc'.e \/ Gone
  PROVE  IInv'
<1> USE DEF IInv, rows, outside
<1>1. TypeOK'
  BY DEF TypeOK, Processor
<1>2. Known'
  BY DEF Known
<1>3. Held' /\ InHand' /\ Fresh' /\ ProcessedWasCopied'
  BY DEF Held, InHand, Fresh, ProcessedWasCopied, Gone
<1> QED BY <1>1, <1>2, <1>3

(* The recovery's list holds stored events.                                  *)
LEMMA StartRecoveryKeeps == ASSUME IInv, StartRecovery PROVE IInv'
<1>1. /\ proc' \in Processor /\ proc'.pc = "next" /\ proc'.from = "recovery"
      /\ proc'.todo = {e \in Events : Recoverable(e)}
  BY IdleTyped DEF StartRecovery, Processor, Steps
<1>2. \A e \in proc'.todo : status[e] # "none"
  BY <1>1 DEF Recoverable
<1> QED BY <1>1, <1>2, MoveKeeps DEF StartRecovery, Same, Working, IInv, TypeOK

(* Taking the next event of the list. *)
LEMMA NextOneKeeps == ASSUME IInv, NextOne PROVE IInv'
<1>1. CASE proc.todo = {}
  BY <1>1, IdleTyped, MoveKeeps DEF NextOne, Same, Working, IInv, TypeOK
<1>2. CASE proc.todo # {}
  <2>1. PICK e \in proc.todo : proc' = [proc EXCEPT !.pc = "load", !.e = e, !.todo = @ \ {e}]
    BY <1>2 DEF NextOne
  <2>2. proc \in Processor /\ e \in Events /\ status[e] # "none" /\ proc.pc = "next"
    BY <2>1 DEF IInv, TypeOK, Processor, Known, NextOne
  <2>3. /\ proc' \in Processor /\ proc'.pc = "load" /\ proc'.e = e
        /\ proc'.todo = proc.todo \ {e} /\ proc'.from = proc.from
    BY <2>1, <2>2 DEF Processor, Steps
  <2>4. \A f \in proc'.todo : status[f] # "none"
    BY <2>3 DEF IInv, Known
  <2>5. proc.from = "queue" => queue # << >>
    BY <2>2 DEF IInv, Held
  <2> QED BY <2>2, <2>3, <2>4, <2>5, MoveKeeps DEF NextOne, Same, Working, IInv, TypeOK
<1> QED BY <1>1, <1>2

(* Letting an event go, with whatever was stored about it.                   *)
LEMMA ThroughKeeps ==
  ASSUME IInv, proc.pc \in Working, Through,
         status' \in [Events -> Statuses], attempts' \in [Events -> Nat],
         \A e \in Events : status[e] # "none" => status'[e] # "none",
         \A e \in Events : status'[e] # "none" => status[e] # "none",
         \A e \in Events : status'[e] = "processed" => newest >= e \/ Gone,
         UNCHANGED <<copy, newest, look, faults>>, UNCHANGED outside
  PROVE  IInv'
<1> USE DEF IInv, outside
<1>1. CASE proc.from = "queue"
  <2>1. queue # << >> /\ queue' = Tail(queue) /\ proc' = Idle
    BY <1>1 DEF Held, Working, Through
  <2>2. /\ Tail(queue) \in Seq([e : Events, n : 0..MaxReceives])
        /\ \A i \in 1..Len(Tail(queue)) : status[Tail(queue)[i].e] # "none"
    BY <2>1, TailKeeps
  <2>3. \A i \in 1..Len(Tail(queue)) : Tail(queue)[i].e \in Events
    BY <2>2, QueueTyped
  <2>4. TypeOK'
    BY <2>1, <2>2, IdleTyped DEF TypeOK, Processor
  <2>5. Known'
    BY <2>1, <2>2, <2>3, IdleTyped DEF Known, TypeOK, Working
  <2>6. Held' /\ InHand' /\ Fresh' /\ ProcessedWasCopied'
    BY <2>1, IdleTyped DEF Held, InHand, Fresh, ProcessedWasCopied, Gone, Working
  <2> QED BY <2>4, <2>5, <2>6
<1>2. CASE proc.from # "queue"
  <2>1. /\ proc \in Processor /\ proc' = OnList /\ queue' = queue
    BY <1>2 DEF TypeOK, Processor, Through
  <2>2. /\ proc' \in Processor /\ proc'.pc = "next" /\ proc'.todo = proc.todo
        /\ proc'.from = proc.from
    BY <2>1, Constants DEF OnList, Processor, Steps, Events, Versions
  <2>3. \A i \in 1..Len(queue) : queue[i].e \in Events
    BY QueueTyped DEF TypeOK
  <2>4. TypeOK'
    BY <2>1, <2>2 DEF TypeOK, Processor
  <2>5. Known'
    BY <2>1, <2>2, <2>3 DEF Known, TypeOK, Working, Processor
  <2>6. Held' /\ InHand' /\ Fresh' /\ ProcessedWasCopied'
    BY <1>2, <2>1, <2>2 DEF Held, InHand, Fresh, ProcessedWasCopied, Gone, Working
  <2> QED BY <2>4, <2>5, <2>6
<1> QED BY <1>1, <1>2

(* A finished event is let go, another one is worked on.                     *)
LEMMA LoadKeeps == ASSUME IInv, Load PROVE IInv'
<1>1. CASE Skip(proc.e)
  <2>1. Through /\ proc.pc \in Working
    BY <1>1 DEF Load, Working
  <2> QED BY <2>1, ThroughKeeps DEF Load, Same, IInv, TypeOK, rows, ProcessedWasCopied
<1>2. CASE ~Skip(proc.e)
  <2>1. /\ proc' \in Processor /\ proc'.pc = "mark" /\ proc'.e = proc.e
        /\ proc'.todo = proc.todo /\ proc'.from = proc.from /\ queue' = queue
    BY <1>2 DEF Load, Goto, IInv, TypeOK, Processor, Steps
  <2> QED BY <1>2, <2>1, MoveKeeps
          DEF Load, Same, Skip, IInv, Known, Held, TypeOK, Working
<1> QED BY <1>1, <1>2

(* Marking the event it found unfinished. *)
LEMMA MarkKeeps == ASSUME IInv, Mark PROVE IInv'
<1> USE DEF IInv, Mark, Same, outside, Goto
<1>1. proc \in Processor /\ proc.e \in Events /\ proc.pc = "mark"
  BY DEF TypeOK, Processor
<1>2. /\ proc' \in Processor /\ proc'.pc = "read" /\ proc'.e = proc.e
      /\ proc'.todo = proc.todo /\ proc'.from = proc.from
  BY <1>1 DEF Processor, Steps
<1>3. /\ status' \in [Events -> Statuses] /\ status'[proc.e] = "pending_enrichment"
      /\ \A e \in Events : e # proc.e => status'[e] = status[e]
  BY <1>1 DEF TypeOK, Statuses
<1>4. TypeOK'
  BY <1>2, <1>3 DEF TypeOK, Processor
<1>5. Known'
  <2>1. \A e \in Events : status'[e] # "none" <=> status[e] # "none"
    BY <1>1, <1>3 DEF Known, Working
  <2>2. \A i \in 1..Len(queue) : queue[i].e \in Events
    BY QueueTyped DEF TypeOK
  <2>3. proc.todo \subseteq Events
    BY DEF TypeOK
  <2> QED BY <1>1, <1>2, <1>3, <2>1, <2>2, <2>3 DEF Known
<1>6. Held' /\ InHand' /\ Fresh'
  BY <1>1, <1>2, <1>3 DEF Held, InHand, Fresh, Finished
<1>7. ProcessedWasCopied'
  BY <1>3 DEF ProcessedWasCopied, Gone
<1> QED BY <1>4, <1>5, <1>6, <1>7

(* What ROLLER answers is at least as new as the stored event.               *)
LEMMA ReadKeeps == ASSUME IInv, Read PROVE IInv'
<1>1. PICK step \in AfterAnswer :
        proc' = [proc EXCEPT !.pc = step, !.read = IF step = "write" THEN Answer ELSE 0]
  BY DEF Read
<1>2. /\ proc \in Processor /\ proc.e \in Events /\ proc.pc = "read" /\ version \in Versions
      /\ status[proc.e] # "none" /\ proc.e <= version
  BY DEF IInv, TypeOK, Processor, Read, Known, Working
<1>3. step \in {"tombstone", "finish", "write", "ignore"} /\ (step = "finish" => Gone)
  BY <1>1 DEF AfterAnswer
<1>4. /\ proc' \in Processor /\ proc'.pc = step /\ proc'.e = proc.e
      /\ proc'.todo = proc.todo /\ proc'.from = proc.from
      /\ step = "write" => proc'.read = version
  BY <1>1, <1>2, <1>3, Constants DEF Processor, Steps, Answer, Versions
<1>5. step = "write" => proc'.read >= proc'.e
  BY <1>2, <1>4 DEF Events, Versions
<1> QED BY <1>2, <1>3, <1>4, <1>5, MoveKeeps
        DEF Read, Same, IInv, Known, Held, InHand, TypeOK, Working

(* The newest version written only grows.                                    *)
LEMMA LatestGrows ==
  ASSUME TypeOK, NEW v \in Versions
  PROVE  Latest(v) \in Versions /\ Latest(v) >= newest /\ Latest(v) >= v
BY DEF TypeOK, Latest, Versions

(* A write of the local row, by whoever read a version before.               *)
LEMMA WriteKeeps ==
  ASSUME IInv, proc' \in Processor, UNCHANGED <<rows, queue, faults>>, UNCHANGED outside,
         look' \in [Lookups -> [pc : {"idle", "write"}, read : Versions]],
         copy' \in Versions, newest' \in Versions, newest' >= newest,
         proc'.e = proc.e, proc'.todo = proc.todo, proc'.from = proc.from,
         proc' = proc \/ (/\ proc.pc \in Working \ {"load"} /\ proc'.pc = "finish"
                          /\ newest' >= proc.e)
  PROVE  IInv'
<1> USE DEF IInv, rows, outside
<1>1. TypeOK'
  BY DEF TypeOK, Processor
<1>2. Known'
  BY DEF Known, Working
<1>3. Held' /\ InHand'
  BY DEF Held, InHand, Working
<1>4. newest \in Nat /\ newest' \in Nat /\ proc.e \in Nat
  BY DEF TypeOK, Versions, Events
<1>5. Fresh'
  BY <1>4 DEF Fresh, Gone
<1>6. ProcessedWasCopied'
  BY <1>4 DEF ProcessedWasCopied, Gone, Events
<1> QED BY <1>1, <1>2, <1>3, <1>5, <1>6

(* Writing what was read for the event. *)
LEMMA WriteBookingKeeps == ASSUME IInv, WriteBooking PROVE IInv'
<1>1. proc \in Processor /\ proc.pc = "write" /\ proc.read \in Versions /\ proc.e \in Events
  BY DEF IInv, TypeOK, Processor, WriteBooking
<1>2. newest' = Latest(proc.read) /\ copy' = proc.read /\ proc.read >= proc.e
  BY <1>1 DEF WriteBooking, IInv, Fresh
<1>3. newest' \in Versions /\ newest' >= newest /\ newest' >= proc.e
  BY <1>1, <1>2, LatestGrows, Constants DEF IInv, Versions, Events, TypeOK
<1>4. /\ proc' \in Processor /\ proc'.pc = "finish" /\ proc'.e = proc.e
      /\ proc'.todo = proc.todo /\ proc'.from = proc.from
  BY <1>1, Constants DEF WriteBooking, Processor, Steps, Versions
<1> QED BY <1>1, <1>2, <1>3, <1>4, WriteKeeps
        DEF WriteBooking, Same, IInv, TypeOK, Working

(* Writing the cancellation. *)
LEMMA TombstoneKeeps == ASSUME IInv, Tombstone PROVE IInv'
<1>1. /\ proc \in Processor /\ proc.pc = "tombstone" /\ proc.e \in Events
      /\ newest \in Versions /\ newest' = Changes /\ copy' = Changes
  BY DEF IInv, TypeOK, Processor, Tombstone
<1>2. newest' \in Versions /\ newest' >= newest /\ newest' >= proc.e /\ copy' \in Versions
  BY <1>1, Constants DEF Versions, Events
<1>3. /\ proc' \in Processor /\ proc'.pc = "finish" /\ proc'.e = proc.e
      /\ proc'.todo = proc.todo /\ proc'.from = proc.from
  BY <1>1 DEF Tombstone, Goto, Processor, Steps
<1> QED BY <1>1, <1>2, <1>3, WriteKeeps DEF Tombstone, Same, IInv, TypeOK, Working

(* What a status update stores. *)
LEMMA StoreTyped ==
  ASSUME IInv, proc.pc \in Working, NEW new \in Statuses \ {"none"}, Store(new)
  PROVE  /\ status' \in [Events -> Statuses] /\ attempts' \in [Events -> Nat]
         /\ status'[proc.e] = new
         /\ \A e \in Events : e # proc.e => status'[e] = status[e]
         /\ \A e \in Events : status[e] # "none" <=> status'[e] # "none"
BY DEF IInv, TypeOK, Store, Known

(* An event becomes processed only when its change was copied.               *)
LEMMA FinishKeeps == ASSUME IInv, Finish PROVE IInv'
<1> DEFINE new == IF proc.pc = "finish" THEN "processed" ELSE "ignored_scope"
<1>1. proc.pc \in {"finish", "ignore"} /\ proc.pc \in Working /\ new \in Statuses \ {"none"}
      /\ Store(new)
  BY DEF Finish, Working, Statuses, Finished
<1>2. /\ status' \in [Events -> Statuses] /\ attempts' \in [Events -> Nat]
      /\ status'[proc.e] = new
      /\ \A e \in Events : e # proc.e => status'[e] = status[e]
      /\ \A e \in Events : status[e] # "none" <=> status'[e] # "none"
  BY <1>1, StoreTyped
<1>3. \A e \in Events : status'[e] = "processed" => newest >= e \/ Gone
  BY <1>1, <1>2 DEF IInv, Fresh, ProcessedWasCopied
<1> QED BY <1>1, <1>2, <1>3, ThroughKeeps DEF Finish, Same

(* A failure of a read or a write. *)
LEMMA ThrowKeeps == ASSUME IInv, Throw PROVE IInv'
<1>1. proc \in Processor /\ proc.pc \in Working \ {"load"}
  BY DEF IInv, TypeOK, Processor, Throw, Working
<1>2. /\ proc' \in Processor /\ proc'.pc = "fail" /\ proc'.e = proc.e
      /\ proc'.todo = proc.todo /\ proc'.from = proc.from
  BY <1>1, Constants DEF Throw, Processor, Steps, Versions
<1> QED BY <1>1, <1>2, MoveKeeps DEF Throw, Same, IInv, Known, Held, InHand, TypeOK, Working

(* Storing a failure. *)
LEMMA RecordFailureKeeps == ASSUME IInv, RecordFailure PROVE IInv'
<1> USE DEF IInv, RecordFailure, Same, outside
<1>1. /\ proc \in Processor /\ proc.pc = "fail" /\ proc.pc \in Working /\ proc.todo \subseteq Events
  BY DEF TypeOK, Processor, Working
<1>2. /\ status' \in [Events -> Statuses] /\ attempts' \in [Events -> Nat]
      /\ status'[proc.e] = "failed"
      /\ \A e \in Events : e # proc.e => status'[e] = status[e]
      /\ \A e \in Events : status[e] # "none" <=> status'[e] # "none"
  BY <1>1, StoreTyped DEF Statuses
<1>3. /\ proc' \in Processor /\ proc'.pc \in {"idle", "next"} /\ proc'.todo \subseteq proc.todo
      /\ proc'.pc = "idle" \/ proc'.from = proc.from
      /\ proc'.from = "queue" => proc'.pc = "idle"
  <2>1. CASE proc.from = "queue"
    BY <2>1, IdleTyped
  <2>2. CASE proc.from # "queue"
    BY <1>1, <2>2, Constants DEF OnList, Processor, Steps, Events, Versions
  <2> QED BY <2>1, <2>2
<1>4. TypeOK'
  BY <1>2, <1>3 DEF TypeOK, Processor
<1>5. Known'
  <2>1. \A i \in 1..Len(queue) : queue[i].e \in Events
    BY QueueTyped DEF TypeOK
  <2> QED BY <1>1, <1>2, <1>3, <2>1 DEF Known, Working
<1>6. Held' /\ InHand' /\ Fresh'
  BY <1>3 DEF Held, InHand, Fresh, Working
<1>7. ProcessedWasCopied'
  BY <1>2 DEF ProcessedWasCopied, Gone
<1> QED BY <1>4, <1>5, <1>6, <1>7

(* An invocation that dies leaves its event as it is. *)
LEMMA CrashKeeps == ASSUME IInv, Crash PROVE IInv'
<1>1. faults' \in 0..MaxFaults
  BY Constants DEF Crash, IInv, TypeOK
<1> QED BY <1>1, IdleTyped, MoveKeeps DEF Crash, Working

(* Another lambda reads ROLLER, and writes the row some time later.          *)
LEMMA LookupKeeps == ASSUME IInv, NEW l \in Lookups, LookupRead(l) \/ LookupWrite(l) PROVE IInv'
<1>1. proc \in Processor /\ proc' = proc /\ newest \in Versions /\ copy \in Versions
      /\ version \in Versions /\ look[l].read \in Versions
  BY DEF IInv, TypeOK, Processor, LookupRead, LookupWrite
<1>2. CASE LookupRead(l)
  <2>1. look' \in [Lookups -> [pc : {"idle", "write"}, read : Versions]]
    BY <1>1, <1>2 DEF LookupRead, IInv, TypeOK
  <2>2. newest' = newest /\ newest >= newest
    BY <1>1, <1>2 DEF LookupRead, Versions
  <2> QED BY <1>1, <1>2, <2>1, <2>2, WriteKeeps DEF LookupRead
<1>3. CASE LookupWrite(l)
  <2>1. look' \in [Lookups -> [pc : {"idle", "write"}, read : Versions]]
    BY <1>3, Constants DEF LookupWrite, IInv, TypeOK, Versions
  <2>2. newest' \in Versions /\ newest' >= newest /\ copy' \in Versions
    BY <1>1, <1>3, LatestGrows DEF LookupWrite, IInv
  <2> QED BY <1>1, <1>3, <2>1, <2>2, WriteKeeps DEF LookupWrite
<1> QED BY <1>2, <1>3

(* Every step preserves the inductive invariant.                             *)
LEMMA StepInv == IInv /\ [Next]_vars => IInv'
<1> SUFFICES ASSUME IInv, [Next]_vars PROVE IInv'
  OBVIOUS
<1>1. CASE Work
  BY <1>1, NextOneKeeps, LoadKeeps, MarkKeeps, ReadKeeps, WriteBookingKeeps, TombstoneKeeps,
     FinishKeeps, ThrowKeeps, RecordFailureKeeps DEF Work
<1>2. CASE Change \/ Receive \/ StartRecovery \/ Crash
  BY <1>2, ChangeKeeps, ReceiveKeeps, StartRecoveryKeeps, CrashKeeps
<1>3. ASSUME NEW e \in Events, Deliver(e) \/ Enqueue(e) \/ EnqueueFails(e) PROVE IInv'
  BY <1>3, DeliverKeeps, EnqueueKeeps, EnqueueFailsKeeps
<1>4. ASSUME NEW l \in Lookups, LookupRead(l) \/ LookupWrite(l) PROVE IInv'
  BY <1>4, LookupKeeps
<1>5. CASE UNCHANGED vars
  BY <1>5 DEF vars, IInv, TypeOK, Known, Held, InHand, Fresh, ProcessedWasCopied, Gone
<1> QED BY <1>1, <1>2, <1>3, <1>4, <1>5 DEF Next

(* The inductive invariant holds throughout.                                 *)
LEMMA InvAlways == Spec => []IInv
BY InitInv, StepInv, PTL DEF Spec

(* Events, queue, processor and copy keep their types, whatever the number   *)
(* of changes, receives and faults.                                          *)
THEOREM WebhookTypes == Spec => []TypeOK
BY InvAlways, PTL DEF IInv

(* An event counts as processed only when its change, or a later one, has    *)
(* been written to the local booking, or ROLLER no longer has the booking.   *)
THEOREM ProcessedWasCopiedAlways == Spec => []ProcessedWasCopied
BY InvAlways, PTL DEF IInv

(* No delivery, message or recovery opens a finished event again.            *)
THEOREM FinishedStaysAlways == Spec => FinishedStays
<1>1. IInv /\ [Next]_vars
      => [\A e \in Events : status[e] \in Finished => status'[e] = status[e]]_vars
  <2> SUFFICES ASSUME IInv, Next, NEW e \in Events, status[e] \in Finished
               PROVE  status'[e] = status[e]
    OBVIOUS
  <2>1. status \in [Events -> Statuses]
    BY DEF IInv, TypeOK
  <2>2. ASSUME NEW f \in Events, Deliver(f) PROVE status'[e] = status[e]
    BY <2>1, <2>2 DEF Deliver, Finished
  <2>3. CASE Mark
    BY <2>1, <2>3 DEF Mark, IInv, InHand, Working
  <2>4. CASE Finish \/ RecordFailure
    BY <2>1, <2>4 DEF Finish, RecordFailure, Store, IInv, InHand, Working
  <2>5. CASE status' = status
    BY <2>5
  <2>6. \/ status' = status \/ Mark \/ Finish \/ RecordFailure
        \/ \E f \in Events : Deliver(f)
    BY DEF Next, Work, Change, Receive, StartRecovery, NextOne, Load, Read, WriteBooking,
           Tombstone, Throw, Crash, Enqueue, EnqueueFails, LookupRead, LookupWrite, rows
  <2> QED BY <2>2, <2>3, <2>4, <2>5, <2>6
<1> QED BY <1>1, InvAlways, PTL DEF Spec, FinishedStays
=============================================================================
