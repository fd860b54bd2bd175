--------------------------- MODULE AddOnSyncProofs ---------------------------
(***************************************************************************)
(* Theorems about AddOnSync, for any set of add-ons and any number of      *)
(* reports, signals, staff requests, guests and boards.                    *)
(***************************************************************************)
EXTENDS AddOnSync, KioskDraftProofs

(* What a process holds at its step: its add-on, what its snapshot showed,   *)
(* and that ROLLER was seen to hold the booking it is about to store.        *)
Holding == {"recording", "dispatch", "mark", "marking", "start", "claim", "look", "readback",
            "approve", "snapshot", "confirm", "confirming", "publish", "release", "releasing"}
Seeing  == {"recording", "marking", "confirming", "releasing", "reading"}
Backed  == {"approve", "snapshot", "confirm", "confirming", "publish"}

MemOf(p) ==
  /\ pc[p] \in Holding => mem[p].a \in AddOns
  /\ pc[p] \in Seeing => mem[p].seen \in Sync
  /\ pc[p] = "recording" => mem[p].o \in Outcome
  /\ pc[p] \in Backed => roller[mem[p].a]
MemOK == \A p \in Proc : MemOf(p)

(* A row says confirmed only of a booking ROLLER holds, and a paid row is    *)
(* never failed.                                                             *)
Fine(r, booked) ==
  /\ r.conf = "confirmed" \/ Published(r) \/ r.attempt = "reconciled" => booked
  /\ Paid(r) => r.conf # "failed"
RowsFine == \A a \in AddOns : Fine(rows[a], roller[a]) /\ (stored[a] => roller[a])

IInv == TypeOK /\ MemOK /\ RowsFine /\ HeldUnlessStale /\ RequestUnderway

-----------------------------------------------------------------------------
(* Rows.                                                                     *)

(* The statements that know nothing of ROLLER leave a fine row fine, and an  *)
(* approval in place; those of a booking ROLLER holds do so in any case.     *)
LEMMA StatementsFine ==
  ASSUME NEW r \in Row, NEW b \in BOOLEAN, Fine(r, b)
  PROVE  /\ \A o \in Outcome : LET s == RecordOutcome(r, o, FALSE) IN Fine(s, b) /\ (Paid(r) => Paid(s))
         /\ Fine(TakeLease(r), b) /\ (Paid(TakeLease(r)) <=> Paid(r))
         /\ Fine(RecordReadback(r), b) /\ (Paid(RecordReadback(r)) <=> Paid(r))
         /\ Fine(NeedsStaff(r), b) /\ (Paid(NeedsStaff(r)) <=> Paid(r))
         /\ Fine(Confirm(r), TRUE) /\ Paid(Confirm(r))
         /\ Fine(PublishFromPaidBooking(r), TRUE) /\ (Paid(PublishFromPaidBooking(r)) <=> Paid(r))
         /\ Fine(ApproveFromEvidence(r), TRUE)
<1> USE DEF Fine, Paid, Published
<1>1. ASSUME NEW o \in Outcome
      PROVE  LET s == RecordOutcome(r, o, FALSE) IN Fine(s, b) /\ (Paid(r) => Paid(s))
  <2> DEFINE s == RecordOutcome(r, o, FALSE)
  <2>1. s.attempt = IF r.attempt = "reconciled" \/ (r.attempt = "approved" /\ o # "approved")
                    THEN r.attempt ELSE o
    BY DEF RecordOutcome, Row
  <2>2. s.status = IF Published(r) \/ (r.attempt = "approved" /\ o # "approved")
                   THEN r.status ELSE OutcomeStatus(o)
    BY DEF RecordOutcome, Row
  <2>3. s.conf = IF Published(r) \/ r.attempt = "reconciled" THEN "confirmed"
                 ELSE IF r.attempt = "approved" THEN r.conf ELSE OutcomeConf(o)
    BY DEF RecordOutcome, Row
  <2> QED BY <2>1, <2>2, <2>3 DEF OutcomeStatus, OutcomeConf, Outcome, Row, AttemptStatus, DraftStatus
<1>2. Fine(TakeLease(r), b) /\ (Paid(TakeLease(r)) <=> Paid(r))
  BY DEF TakeLease, Row
<1>3. Fine(RecordReadback(r), b) /\ (Paid(RecordReadback(r)) <=> Paid(r))
  BY DEF RecordReadback, Row
<1>4. Fine(NeedsStaff(r), b) /\ (Paid(NeedsStaff(r)) <=> Paid(r))
  BY DEF NeedsStaff, Row
<1>5. Fine(Confirm(r), TRUE) /\ Paid(Confirm(r))
  BY DEF Confirm, Row
<1>6. Fine(PublishFromPaidBooking(r), TRUE) /\ (Paid(PublishFromPaidBooking(r)) <=> Paid(r))
  BY DEF PublishFromPaidBooking, Row
<1>7. Fine(ApproveFromEvidence(r), TRUE)
  BY DEF ApproveFromEvidence, Unresolved, Row
<1> QED BY <1>1, <1>2, <1>3, <1>4, <1>5, <1>6, <1>7

(* One row is replaced by a fine one. *)
LEMMA RowReplaced ==
  ASSUME TypeOK, RowsFine, NEW a \in AddOns, NEW s \in Row, Fine(s, roller[a]),
         rows' = [rows EXCEPT ![a] = s], UNCHANGED <<stored, roller>>
  PROVE  /\ rows' \in [AddOns -> Row] /\ rows'[a] = s /\ RowsFine'
         /\ \A b \in AddOns \ {a} : rows'[b] = rows[b]
BY DEF TypeOK, RowsFine, Fine, Paid, Published

-----------------------------------------------------------------------------
(* Processes.                                                                *)

(* A process at none of the steps that hold anything needs no memory. *)
LEMMA MemKept ==
  ASSUME MemOK, NEW p \in Proc, \A q \in Proc \ {p} : pc'[q] = pc[q] /\ mem'[q] = mem[q],
         \A a \in AddOns : roller[a] => roller'[a], MemOf(p)'
  PROVE  MemOK'
BY DEF MemOK, MemOf, Holding, Backed

(* A process takes its next step: what the other processes hold is theirs.   *)
Moves(p, step) ==
  /\ pc' \in [Proc -> Steps] /\ mem' \in [Proc -> Memory] /\ pc'[p] = step
  /\ \A q \in Proc \ {p} : pc'[q] = pc[q] /\ mem'[q] = mem[q]

LEMMA MemTyped == ASSUME TypeOK, NEW p \in Proc PROVE mem[p] \in Memory /\ NoMem \in Memory
BY DEF TypeOK, Memory, NoMem

(* mem' is mem but for one process, as each of the ways to move leaves it. *)
LEMMA Moved ==
  ASSUME TypeOK, NEW p \in Proc, NEW step \in Steps, NEW m \in Memory,
         pc' = [pc EXCEPT ![p] = step], mem' = [mem EXCEPT ![p] = m]
  PROVE  Moves(p, step) /\ mem'[p] = m
BY DEF TypeOK, Moves

LEMMA GotoMoves ==
  ASSUME TypeOK, NEW p \in Proc, NEW step \in Steps, Goto(p, step)
  PROVE  Moves(p, step) /\ (step \notin {"idle", "done", "ask"} => mem'[p].a = mem[p].a)
<1> DEFINE m == IF step \in {"idle", "done", "ask"} THEN NoMem
                ELSE [mem[p] EXCEPT !.o = "none", !.seen = "none"]
<1>1. m \in Memory /\ (step \notin {"idle", "done", "ask"} => m.a = mem[p].a)
  BY MemTyped DEF Memory
<1>2. mem' = [mem EXCEPT ![p] = m] /\ pc' = [pc EXCEPT ![p] = step]
  BY DEF Goto
<1> HIDE DEF m
<1> QED BY <1>1, <1>2, Moved

LEMMA StartMoves ==
  ASSUME TypeOK, NEW p \in Proc, NEW step \in Steps, NEW a \in AddOns, Start(p, step, a)
  PROVE  Moves(p, step) /\ mem'[p].a = a
<1> DEFINE m == [mem[p] EXCEPT !.a = a]
<1>1. m \in Memory /\ m.a = a
  BY MemTyped DEF Memory
<1>2. mem' = [mem EXCEPT ![p] = m] /\ pc' = [pc EXCEPT ![p] = step]
  BY DEF Start
<1> HIDE DEF m
<1> QED BY <1>1, <1>2, Moved

LEMMA BeginMoves ==
  ASSUME TypeOK, NEW p \in Proc, NEW step \in Steps, NEW s \in Sync, Begin(p, step, s)
  PROVE  Moves(p, step) /\ mem'[p].a = mem[p].a /\ mem'[p].seen = s
<1> DEFINE m == [mem[p] EXCEPT !.seen = s]
<1>1. m \in Memory /\ m.a = mem[p].a /\ m.seen = s
  BY MemTyped DEF Memory
<1>2. mem' = [mem EXCEPT ![p] = m] /\ pc' = [pc EXCEPT ![p] = step]
  BY DEF Begin
<1> HIDE DEF m
<1> QED BY <1>1, <1>2, Moved

(* A request that is owed stays owed while the process that owes it waits. *)
LEMMA OwedKept ==
  ASSUME TypeOK, NEW p \in Proc, NEW step \in Steps, Moves(p, step), pc[p] # "ask",
         asked > 0 \/ \E q \in Proc : At(q, "ask"), asked' = asked
  PROVE  asked' > 0 \/ \E q \in Proc : At(q, "ask")'
BY DEF Moves, At

-----------------------------------------------------------------------------
(* The group's status.                                                       *)

LEMMA StatusTyped ==
  /\ \A confs : Worst(confs) \in Sync
  /\ \A a \in AddOns : SiblingSync(a) \in Sync /\ ReleaseSync(a) \in Sync \cup {"none"}
  /\ BoardSync \in Sync \cup {"none"}
BY DEF Worst, SiblingSync, ReleaseSync, BoardSync, Sync

(* The siblings are confirmed only if ROLLER holds each of their bookings. *)
LEMMA SiblingsBacked ==
  ASSUME RowsFine, rows \in [AddOns -> Row], NEW a \in AddOns, SiblingSync(a) = "confirmed",
         NEW b \in PaidAddOns \ {a}
  PROVE  roller[b]
<1>1. rows[b].conf \in {rows[c].conf : c \in PaidAddOns \ {a}}
  OBVIOUS
<1>2. rows[b].conf \notin {"pending", "needs_staff"}
  BY <1>1 DEF SiblingSync, Worst
<1>3. b \in AddOns /\ Paid(rows[b])
  BY DEF PaidAddOns
<1>4. rows[b] \in Row /\ rows[b].conf \in Confirmation
  BY <1>3 DEF Row
<1> QED BY <1>2, <1>3, <1>4 DEF RowsFine, Fine, Confirmation

(* So a group that one statement's up-to-date view shows confirmed is.       *)
LEMMA GroupBacked ==
  ASSUME TypeOK, RowsFine, NEW a \in AddOns, NEW s \in Row, Paid(s), Fine(s, roller[a]),
         GroupSync(s, SiblingSync(a)) = "confirmed"
  PROVE  roller[a] /\ \A b \in PaidAddOns \ {a} : roller[b]
<1>1. s.conf \notin {"pending", "needs_staff"} /\ SiblingSync(a) \notin {"pending", "needs_staff"}
  BY DEF GroupSync, Worst
<1>2. s.conf \in Confirmation
  BY DEF Row
<1>3. SiblingSync(a) = "confirmed"
  BY <1>1, StatusTyped DEF Sync
<1> QED BY <1>1, <1>2, <1>3, SiblingsBacked DEF Fine, Confirmation, TypeOK

LEMMA ReleaseBacked ==
  ASSUME TypeOK, RowsFine, NEW a \in AddOns, ReleaseSync(a) = "confirmed"
  PROVE  \A b \in PaidAddOns : roller[b]
<1>1. rows[a].conf = "confirmed" /\ SiblingSync(a) = "confirmed"
  BY DEF ReleaseSync
<1>2. roller[a]
  BY <1>1 DEF RowsFine, Fine
<1> QED BY <1>1, <1>2, SiblingsBacked DEF TypeOK

LEMMA BoardBacked ==
  ASSUME RowsFine, BoardSync = "confirmed"
  PROVE  \A b \in PaidAddOns : roller[b]
BY DEF BoardSync, RowsFine, PaidAddOns

(* A statement that writes the status keeps both promises about it, if what  *)
(* it would have written is backed and a request follows where one must.     *)
LEMMA WriteKeeps ==
  ASSUME IInv, NEW p \in Proc, NEW step \in Steps, Moves(p, step), pc[p] # "ask",
         NEW sync \in Sync, NEW now, NEW asks \in BOOLEAN, WriteSync(sync, now, asks),
         Active /\ sync = "confirmed" /\ asks => step = "ask",
         Active /\ now = "confirmed" => \A a \in AddOns : Paid(rows'[a]) => roller'[a],
         asked' = asked
  PROVE  /\ session' \in [status : {"guest", "ready", "redeemed"}, sync : Sync]
         /\ stale' \in BOOLEAN /\ unasked' \in BOOLEAN
         /\ HeldUnlessStale' /\ RequestUnderway'
<1> USE DEF IInv, TypeOK
<1>1. CASE ~Active
  <2>1. UNCHANGED group /\ session.status = "redeemed"
    BY <1>1 DEF WriteSync, Active
  <2> QED BY <2>1 DEF group, HeldUnlessStale, RequestUnderway, Active
<1>2. CASE Active
  <2>1. /\ session' = [session EXCEPT !.sync = sync] /\ stale' = (sync # now)
        /\ unasked' = (sync = "confirmed" /\ ~asks /\ (unasked \/ session.sync # "confirmed"))
    BY <1>2 DEF WriteSync
  <2>2. session'.sync = sync /\ session'.status = session.status
    BY <2>1
  <2>3. session' \in [status : {"guest", "ready", "redeemed"}, sync : Sync]
    BY <2>1
  <2>4. stale' \in BOOLEAN /\ unasked' \in BOOLEAN
    BY <2>1
  <2>5. HeldUnlessStale'
    BY <1>2, <2>1, <2>2 DEF HeldUnlessStale, PaidAddOns
  <2>6. RequestUnderway'
    <3> SUFFICES ASSUME session'.status = "ready", sync = "confirmed", ~unasked'
                 PROVE  asked' > 0 \/ \E q \in Proc : At(q, "ask")'
      BY <2>2 DEF RequestUnderway
    <3>1. CASE asks
      BY <1>2, <3>1 DEF Moves, At
    <3>2. CASE ~asks
      <4>1. session.sync = "confirmed" /\ ~unasked /\ session.status = "ready"
        BY <2>1, <2>2, <3>2
      <4> QED BY <4>1, OwedKept DEF RequestUnderway
    <3> QED BY <3>1, <3>2
  <2> QED BY <2>3, <2>4, <2>5, <2>6
<1> QED BY <1>1, <1>2

-----------------------------------------------------------------------------
(* Steps by what they change.                                                *)

(* A step of a process that owes no request and changes only what it holds. *)
LEMMA QuietKeeps ==
  ASSUME IInv, NEW p \in Proc, NEW step \in Steps, Moves(p, step), MemOf(p)', pc[p] # "ask",
         faults' \in 0..MaxFaults, UNCHANGED <<rows, stored, roller, group, asked>>
  PROVE  IInv'
<1> USE DEF IInv
<1>1. TypeOK'
  BY DEF TypeOK, Moves, group
<1>2. MemOK'
  BY MemKept DEF Moves
<1>3. RowsFine'
  BY DEF RowsFine
<1>4. HeldUnlessStale'
  BY DEF HeldUnlessStale, Active, PaidAddOns, group
<1>5. RequestUnderway'
  BY OwedKept DEF RequestUnderway, group
<1> QED BY <1>1, <1>2, <1>3, <1>4, <1>5

(* A step that replaces the row of one add-on by a fine one, which is paid   *)
(* only if the row was or ROLLER holds the booking.                          *)
LEMMA RowKeeps ==
  ASSUME IInv, NEW p \in Proc, NEW step \in Steps, Moves(p, step), MemOf(p)', pc[p] # "ask",
         NEW a \in AddOns, NEW s \in Row, rows' = [rows EXCEPT ![a] = s], Fine(s, roller[a]),
         Paid(s) => Paid(rows[a]) \/ roller[a], UNCHANGED <<stored, roller, group, asked, faults>>
  PROVE  IInv'
<1> USE DEF IInv
<1>0. /\ rows' \in [AddOns -> Row] /\ rows'[a] = s /\ RowsFine'
      /\ \A b \in AddOns \ {a} : rows'[b] = rows[b]
  BY RowReplaced
<1>1. TypeOK'
  BY <1>0 DEF TypeOK, Moves, group
<1>2. MemOK'
  BY MemKept DEF Moves
<1>3. HeldUnlessStale'
  <2>1. \A b \in AddOns : Paid(rows'[b]) => Paid(rows[b]) \/ roller[b]
    BY <1>0
  <2> QED BY <2>1 DEF HeldUnlessStale, Active, PaidAddOns, group
<1>4. RequestUnderway'
  BY OwedKept DEF RequestUnderway, group
<1> QED BY <1>0, <1>1, <1>2, <1>3, <1>4

(* A statement that replaces the row of one add-on by a fine, paid one and   *)
(* writes the group's status with it.                                        *)
LEMMA RowAndSyncKeeps ==
  ASSUME IInv, NEW p \in Proc, NEW step \in Steps, Moves(p, step), MemOf(p)', pc[p] # "ask",
         NEW a \in AddOns, NEW s \in Row, rows' = [rows EXCEPT ![a] = s], Fine(s, roller[a]),
         Paid(s), NEW seen, NEW asks \in BOOLEAN,
         WriteSync(GroupSync(s, seen), GroupSync(s, SiblingSync(a)), asks),
         Active /\ asks => step = "ask", UNCHANGED <<stored, roller, asked, faults>>
  PROVE  IInv'
<1> USE DEF IInv
<1>0. /\ rows' \in [AddOns -> Row] /\ rows'[a] = s /\ RowsFine'
      /\ \A b \in AddOns \ {a} : rows'[b] = rows[b]
  BY RowReplaced
<1>1. MemOK'
  BY MemKept DEF Moves
<1>2. GroupSync(s, seen) \in Sync
  BY StatusTyped DEF GroupSync
<1>3. GroupSync(s, SiblingSync(a)) = "confirmed" => \A b \in AddOns : Paid(rows'[b]) => roller'[b]
  BY <1>0, GroupBacked DEF PaidAddOns
<1>4. /\ session' \in [status : {"guest", "ready", "redeemed"}, sync : Sync]
      /\ stale' \in BOOLEAN /\ unasked' \in BOOLEAN /\ HeldUnlessStale' /\ RequestUnderway'
  BY <1>2, <1>3, WriteKeeps
<1>5. TypeOK'
  BY <1>0, <1>4 DEF TypeOK, Moves
<1> QED BY <1>0, <1>1, <1>4, <1>5

(* A release or a board read that writes what it saw, if that differs.       *)
LEMMA ChangeKeeps ==
  ASSUME IInv, NEW p \in Proc, pc[p] \in {"releasing", "reading"}, NEW now,
         NEW rest \in {"done", "idle"}, WriteChanged(p, now, rest),
         now = "confirmed" => \A a \in PaidAddOns : roller[a],
         UNCHANGED <<rows, stored, roller, asked, faults>>
  PROVE  IInv'
<1> USE DEF IInv
<1>0. mem[p].seen \in Sync
  BY DEF MemOK, MemOf, Seeing
<1>1. CASE Differs(mem[p].seen)
  <2> DEFINE step == IF mem[p].seen = "confirmed" THEN "ask" ELSE rest
  <2>1. step \in Steps /\ WriteSync(mem[p].seen, now, TRUE) /\ Goto(p, step)
    BY <1>1 DEF WriteChanged, Steps
  <2>2. mem[p].seen = "confirmed" => step = "ask"
    OBVIOUS
  <2>3. step \in {"ask", "done", "idle"}
    OBVIOUS
  <2> HIDE DEF step
  <2>4. Moves(p, step)
    BY <2>1, GotoMoves
  <2>5. MemOK'
    BY <2>3, <2>4, MemKept DEF Moves, MemOf, Holding, Seeing, Backed
  <2>6. /\ session' \in [status : {"guest", "ready", "redeemed"}, sync : Sync]
        /\ stale' \in BOOLEAN /\ unasked' \in BOOLEAN /\ HeldUnlessStale' /\ RequestUnderway'
    BY <1>0, <2>1, <2>2, <2>4, WriteKeeps DEF PaidAddOns
  <2>7. TypeOK' /\ RowsFine'
    BY <2>4, <2>6 DEF TypeOK, Moves, RowsFine
  <2> QED BY <2>5, <2>6, <2>7
<1>2. CASE ~Differs(mem[p].seen)
  <2>1. UNCHANGED group /\ Goto(p, rest) /\ rest \in Steps
    BY <1>2 DEF WriteChanged, Steps
  <2>2. Moves(p, rest)
    BY <2>1, GotoMoves
  <2>3. MemOf(p)'
    BY <2>2 DEF Moves, MemOf, Holding, Seeing, Backed
  <2> QED BY <2>1, <2>2, <2>3, QuietKeeps DEF TypeOK
<1> QED BY <1>1, <1>2

-----------------------------------------------------------------------------
(* The actions.                                                              *)

LEMMA InitInv == Init => IInv
<1> SUFFICES ASSUME Init PROVE IInv
  OBVIOUS
<1> USE DEF Init
<1>0. NewRow \in Row /\ NewRow.conf = "pending" /\ ~Published(NewRow) /\ NewRow.attempt = "created"
  BY DEF NewRow, Row, Published, AttemptStatus, DraftStatus, Confirmation, Lease
<1>1. TypeOK
  <2>1. NoMem \in Memory
    BY DEF NoMem, Memory
  <2>2. session \in [status : {"guest", "ready", "redeemed"}, sync : Sync]
    BY DEF Sync
  <2>3. mem \in [Proc -> Memory] /\ pc \in [Proc -> Steps]
    BY <2>1 DEF Steps
  <2>4. rows \in [AddOns -> Row]
    BY <1>0
  <2>5. stored \in [AddOns -> BOOLEAN] /\ roller \in [AddOns -> BOOLEAN]
    OBVIOUS
  <2>6. stale \in BOOLEAN /\ unasked \in BOOLEAN /\ asked = 0 /\ faults = 0
    OBVIOUS
  <2> HIDE DEF Init
  <2>7. asked \in Nat /\ faults \in 0..MaxFaults
    BY <2>6, BoundAssumption
  <2> QED BY <2>2, <2>3, <2>4, <2>5, <2>6, <2>7 DEF TypeOK
<1>2. MemOK
  BY DEF MemOK, MemOf, Holding, Seeing, Backed
<1>3. RowsFine
  BY <1>0 DEF RowsFine, Fine, Paid
<1>4. HeldUnlessStale /\ RequestUnderway
  BY <1>0 DEF HeldUnlessStale, RequestUnderway, PaidAddOns, Paid
<1> QED BY <1>1, <1>2, <1>3, <1>4 DEF IInv

LEMMA RollerBooksKeeps == ASSUME IInv, NEW a \in AddOns, RollerBooks(a) PROVE IInv'
<1> USE DEF IInv, RollerBooks
<1>1. TypeOK' /\ \A b \in AddOns : roller[b] => roller'[b]
  BY DEF TypeOK, group
<1>2. MemOK'
  BY <1>1 DEF MemOK, MemOf, Holding, Backed
<1>3. RowsFine'
  BY <1>1 DEF RowsFine, Fine
<1>4. HeldUnlessStale' /\ RequestUnderway'
  BY <1>1 DEF HeldUnlessStale, RequestUnderway, PaidAddOns, Active, group, At
<1> QED BY <1>1, <1>2, <1>3, <1>4

LEMMA ReportKeeps ==
  ASSUME IInv, NEW f \in Proc, NEW a \in AddOns, NEW o \in Outcomes, Report(f, a, o) PROVE IInv'
<1> DEFINE m == [NoMem EXCEPT !.a = a, !.o = o, !.seen = SiblingSync(a)]
<1>1. o \in Outcome /\ SiblingSync(a) \in Sync
  BY OutcomeAssumption, StatusTyped DEF Outcome
<1>2. m \in Memory /\ m.a = a /\ m.o = o /\ m.seen = SiblingSync(a)
  BY <1>1 DEF Memory, NoMem
<1>3. mem' = [mem EXCEPT ![f] = m] /\ pc' = [pc EXCEPT ![f] = "recording"] /\ "recording" \in Steps
  BY DEF Report, Steps
<1> HIDE DEF m
<1>4. Moves(f, "recording") /\ mem'[f] = m
  BY <1>2, <1>3, Moved DEF IInv
<1>5. MemOf(f)'
  BY <1>1, <1>2, <1>4 DEF MemOf, Moves, Holding, Seeing, Backed
<1> QED BY <1>4, <1>5, <1>3, QuietKeeps DEF Report, At, IInv, TypeOK

(* A step of a process that only goes on, with its add-on. *)
LEMMA GoingOnKeeps ==
  ASSUME IInv, NEW p \in Proc, pc[p] \in Holding, pc[p] # "ask", NEW step \in Steps \ Seeing,
         step \in Backed => roller[mem[p].a], Goto(p, step),
         faults' \in 0..MaxFaults, UNCHANGED <<rows, stored, roller, group, asked>>
  PROVE  IInv'
<1>1. Moves(p, step) /\ (step \notin {"idle", "done", "ask"} => mem'[p].a = mem[p].a)
  BY GotoMoves DEF IInv
<1>2. MemOf(p)'
  BY <1>1 DEF IInv, MemOK, MemOf, Moves, Holding, Seeing, Backed
<1> QED BY <1>1, <1>2, QuietKeeps

LEMMA BeginningKeeps ==
  ASSUME IInv, NEW p \in Proc, pc[p] # "ask", NEW step \in Steps, NEW s \in Sync, Begin(p, step, s),
         step # "recording", step \in Holding => pc[p] \in Holding,
         step \in Backed => pc[p] \in Backed, UNCHANGED <<rows, stored, roller, group, asked, faults>>
  PROVE  IInv'
<1>1. Moves(p, step) /\ mem'[p].a = mem[p].a /\ mem'[p].seen = s
  BY BeginMoves DEF IInv
<1>2. MemOf(p)'
  BY <1>1 DEF IInv, MemOK, MemOf, Moves
<1> QED BY <1>1, <1>2, QuietKeeps DEF IInv, TypeOK

LEMMA RecordKeeps == ASSUME IInv, NEW f \in Proc, RecordOutcomeAndSync(f) PROVE IInv'
<1> DEFINE a == My(f)
           row == RecordOutcome(rows[a], mem[f].o, FALSE)
           step == IF mem[f].o # "approved" \/ Booked(row) THEN "done" ELSE "dispatch"
<1>1. a \in AddOns /\ mem[f].o \in Outcome /\ pc[f] = "recording" /\ rows[a] \in Row
  BY DEF RecordOutcomeAndSync, At, My, IInv, MemOK, MemOf, Holding, TypeOK
<1>2. row \in Row /\ Fine(row, roller[a])
  BY <1>1, StatementsKeepRow, StatementsFine DEF IInv, TypeOK, RowsFine
<1>3. rows' = [rows EXCEPT ![a] = row] /\ UNCHANGED <<stored, roller, asked, faults>>
  BY DEF RecordOutcomeAndSync
<1>4. /\ Paid(row) => WriteSync(GroupSync(row, mem[f].seen), GroupSync(row, SiblingSync(a)), FALSE)
      /\ ~Paid(row) => UNCHANGED group
  BY DEF RecordOutcomeAndSync
<1>5. Goto(f, step)
  BY DEF RecordOutcomeAndSync
<1>6. step \in {"done", "dispatch"} /\ step \in Steps
  BY DEF Steps
<1> HIDE DEF a, row, step
<1>7. Moves(f, step) /\ (step \notin {"idle", "done", "ask"} => mem'[f].a = mem[f].a)
  BY <1>5, <1>6, GotoMoves DEF IInv
<1>8. MemOf(f)'
  BY <1>1, <1>6, <1>7 DEF IInv, MemOK, MemOf, Moves, Holding, Seeing, Backed
<1>9. CASE Paid(row)
  BY <1>1, <1>2, <1>3, <1>4, <1>6, <1>7, <1>8, <1>9, RowAndSyncKeeps
<1>10. CASE ~Paid(row)
  BY <1>1, <1>2, <1>3, <1>4, <1>6, <1>7, <1>8, <1>10, RowKeeps
<1> QED BY <1>9, <1>10

LEMMA DispatchKeeps == ASSUME IInv, NEW f \in Proc, Dispatch(f) PROVE IInv'
<1>1. faults' \in 0..MaxFaults
  BY BoundAssumption DEF Dispatch, IInv, TypeOK
<1>2. PICK step \in {"start", "mark"} : Goto(f, step)
  BY DEF Dispatch
<1> QED BY <1>1, <1>2, GoingOnKeeps DEF Dispatch, At, Holding, Steps, Seeing, Backed

LEMMA MarkBeginKeeps == ASSUME IInv, NEW p \in Proc, MarkBegin(p) PROVE IInv'
<1>1. pc[p] = "mark" /\ My(p) \in AddOns
  BY DEF MarkBegin, At, My, IInv, MemOK, MemOf, Holding
<1>2. Begin(p, "marking", SiblingSync(My(p))) /\ SiblingSync(My(p)) \in Sync
  BY <1>1, StatusTyped DEF MarkBegin
<1> QED BY <1>1, <1>2, BeginningKeeps DEF MarkBegin, Holding, Steps, Backed

LEMMA MarkKeeps == ASSUME IInv, NEW p \in Proc, MarkNeedsStaffAndSync(p) PROVE IInv'
<1> DEFINE a == My(p)
           row == NeedsStaff(rows[a])
<1>1. a \in AddOns /\ pc[p] = "marking" /\ rows[a] \in Row
  BY DEF MarkNeedsStaffAndSync, At, My, IInv, MemOK, MemOf, Holding, TypeOK
<1>2. row \in Row /\ Fine(row, roller[a]) /\ (Paid(row) <=> Paid(rows[a]))
  BY <1>1, StatementsKeepRow, StatementsFine DEF IInv, TypeOK, RowsFine
<1>3. rows' = [rows EXCEPT ![a] = row] /\ UNCHANGED <<stored, roller, asked, faults>>
  BY DEF MarkNeedsStaffAndSync
<1>4. /\ Paid(row) => WriteSync(GroupSync(row, mem[p].seen), GroupSync(row, SiblingSync(a)), FALSE)
      /\ ~Paid(row) => UNCHANGED group
  BY DEF MarkNeedsStaffAndSync
<1>5. Goto(p, "done") /\ "done" \in Steps
  BY DEF MarkNeedsStaffAndSync, Steps
<1> HIDE DEF a, row
<1>7. Moves(p, "done")
  BY <1>5, GotoMoves DEF IInv
<1>8. MemOf(p)'
  BY <1>7 DEF MemOf, Moves, Holding, Seeing, Backed
<1>9. CASE Paid(row)
  BY <1>1, <1>2, <1>3, <1>4, <1>5, <1>7, <1>8, <1>9, RowAndSyncKeeps
<1>10. CASE ~Paid(row)
  BY <1>1, <1>2, <1>3, <1>4, <1>5, <1>7, <1>8, <1>10, RowKeeps
<1> QED BY <1>9, <1>10

LEMMA WorkerStartKeeps == ASSUME IInv, NEW w \in Proc, WorkerStart(w) PROVE IInv'
<1>1. PICK step \in {"done", "release", "claim"} : Goto(w, step)
  BY DEF WorkerStart
<1> QED BY <1>1, GoingOnKeeps DEF WorkerStart, At, Holding, Steps, Seeing, Backed, IInv, TypeOK

LEMMA WorkerLookKeeps == ASSUME IInv, NEW w \in Proc, WorkerLook(w) PROVE IInv'
<1>1. PICK step \in {"done", "release", "readback"} : Goto(w, step)
  BY DEF WorkerLook
<1> QED BY <1>1, GoingOnKeeps DEF WorkerLook, At, Holding, Steps, Seeing, Backed, IInv, TypeOK

LEMMA WorkerClaimKeeps == ASSUME IInv, NEW w \in Proc, WorkerClaim(w) PROVE IInv'
<1>1. My(w) \in AddOns /\ pc[w] = "claim" /\ rows[My(w)] \in Row
  BY DEF WorkerClaim, At, My, IInv, MemOK, MemOf, Holding, TypeOK
<1>2. CASE rows' = [rows EXCEPT ![My(w)] = TakeLease(@)] /\ Goto(w, "look")
  <2>1. Moves(w, "look") /\ mem'[w].a = mem[w].a /\ "look" \in Steps
    BY <1>2, GotoMoves DEF IInv, Steps
  <2>2. MemOf(w)'
    BY <1>1, <2>1 DEF MemOf, Moves, Holding, Seeing, Backed, My
  <2>3. TakeLease(rows[My(w)]) \in Row
    BY <1>1, StatementsKeepRow
  <2>4. /\ Fine(TakeLease(rows[My(w)]), roller[My(w)])
        /\ Paid(TakeLease(rows[My(w)])) => Paid(rows[My(w)])
    BY <1>1, StatementsFine DEF IInv, TypeOK, RowsFine
  <2> QED BY <1>1, <1>2, <2>1, <2>2, <2>3, <2>4, RowKeeps DEF WorkerClaim
<1>3. CASE UNCHANGED rows /\ Goto(w, "done")
  BY <1>1, <1>3, GoingOnKeeps DEF WorkerClaim, Holding, Steps, Seeing, Backed, IInv, TypeOK
<1> QED BY <1>2, <1>3 DEF WorkerClaim

LEMMA WorkerReadbackKeeps == ASSUME IInv, NEW w \in Proc, WorkerReadback(w) PROVE IInv'
<1> DEFINE a == My(w)
           row == RecordReadback(rows[a])
<1>1. a \in AddOns /\ pc[w] = "readback" /\ rows[a] \in Row
  BY DEF WorkerReadback, At, My, IInv, MemOK, MemOf, Holding, TypeOK
<1>2. PICK step \in {"snapshot", "mark"} : Goto(w, step) /\ (step = "snapshot" => roller[a])
  BY DEF WorkerReadback
<1>3. row \in Row /\ Fine(row, roller[a]) /\ (Paid(row) <=> Paid(rows[a]))
  BY <1>1, StatementsKeepRow, StatementsFine DEF IInv, TypeOK, RowsFine
<1>4. rows' = [rows EXCEPT ![a] = row] /\ UNCHANGED <<stored, roller, group, asked, faults>>
  BY DEF WorkerReadback
<1> HIDE DEF row
<1>5. Moves(w, step) /\ mem'[w].a = mem[w].a /\ step \in Steps
  BY <1>2, GotoMoves DEF IInv, Steps
<1>6. MemOf(w)'
  BY <1>1, <1>2, <1>4, <1>5 DEF MemOf, Moves, Holding, Seeing, Backed, My
<1> QED BY <1>1, <1>3, <1>4, <1>5, <1>6, RowKeeps

LEMMA SnapshotKeeps == ASSUME IInv, NEW p \in Proc, Snapshot(p) PROVE IInv'
<1>1. My(p) \in AddOns /\ pc[p] = "snapshot" /\ roller[My(p)]
  BY DEF Snapshot, At, My, IInv, MemOK, MemOf, Holding, Backed
<1>2. Moves(p, "confirm") /\ mem'[p].a = mem[p].a
  BY GotoMoves DEF Snapshot, IInv, Steps
<1>3. stored' = [stored EXCEPT ![My(p)] = TRUE] /\ UNCHANGED <<rows, roller, group, asked, faults>>
  BY DEF Snapshot
<1>4. TypeOK'
  BY <1>2, <1>3 DEF IInv, TypeOK, Moves, group
<1>5. MemOf(p)'
  BY <1>1, <1>2, <1>3 DEF MemOf, Moves, Holding, Seeing, Backed, My
<1>6. MemOK'
  BY <1>2, <1>3, <1>5, MemKept DEF IInv, Moves
<1>7. RowsFine'
  BY <1>1, <1>3 DEF IInv, TypeOK, RowsFine
<1>8. HeldUnlessStale'
  BY <1>3 DEF IInv, HeldUnlessStale, Active, PaidAddOns, group
<1>9. RequestUnderway'
  BY <1>1, <1>2, <1>3, OwedKept DEF IInv, RequestUnderway, group, Steps
<1> QED BY <1>4, <1>6, <1>7, <1>8, <1>9 DEF IInv

LEMMA ConfirmBeginKeeps == ASSUME IInv, NEW p \in Proc, ConfirmBegin(p) PROVE IInv'
<1>1. pc[p] = "confirm" /\ My(p) \in AddOns
  BY DEF ConfirmBegin, At, My, IInv, MemOK, MemOf, Holding
<1>2. Begin(p, "confirming", SiblingSync(My(p))) /\ SiblingSync(My(p)) \in Sync
  BY <1>1, StatusTyped DEF ConfirmBegin
<1> QED BY <1>1, <1>2, BeginningKeeps DEF ConfirmBegin, Holding, Steps, Backed

LEMMA ConfirmKeeps == ASSUME IInv, NEW p \in Proc, ConfirmAndSync(p) PROVE IInv'
<1> DEFINE a == My(p)
           row == Confirm(rows[a])
           step == IF Active THEN "ask" ELSE "done"
<1>1. a \in AddOns /\ pc[p] = "confirming" /\ rows[a] \in Row /\ roller[a] = TRUE
  BY DEF ConfirmAndSync, At, My, IInv, MemOK, MemOf, Holding, Backed, TypeOK
<1>2. row \in Row /\ Fine(row, TRUE) /\ Paid(row)
  BY <1>1, StatementsKeepRow, StatementsFine DEF IInv, TypeOK, RowsFine
<1>3. /\ rows' = [rows EXCEPT ![a] = row] /\ UNCHANGED <<stored, roller, asked, faults>>
      /\ WriteSync(GroupSync(row, mem[p].seen), GroupSync(row, SiblingSync(a)), TRUE)
      /\ Goto(p, step)
  BY DEF ConfirmAndSync
<1>4. step \in {"done", "ask"} /\ step \in Steps /\ (Active => step = "ask")
  BY DEF Steps
<1> HIDE DEF a, row, step
<1>5. Moves(p, step)
  BY <1>3, <1>4, GotoMoves DEF IInv
<1>6. MemOf(p)'
  BY <1>4, <1>5 DEF MemOf, Moves, Holding, Seeing, Backed
<1> QED BY <1>1, <1>2, <1>3, <1>4, <1>5, <1>6, RowAndSyncKeeps

LEMMA AskKeeps == ASSUME IInv, NEW p \in Proc, Ask(p) PROVE IInv'
<1>1. PICK step \in {"idle", "done"} : Goto(p, step)
  BY DEF Ask
<1>2. Moves(p, step)
  BY <1>1, GotoMoves DEF IInv, Steps
<1>3. asked' = asked + 1 /\ UNCHANGED <<rows, stored, roller, group, faults>>
  BY DEF Ask
<1>4. TypeOK'
  BY <1>2, <1>3 DEF IInv, TypeOK, Moves, group
<1>5. MemOK'
  <2>1. MemOf(p)'
    BY <1>2 DEF MemOf, Moves, Holding, Seeing, Backed
  <2> QED BY <1>2, <1>3, <2>1, MemKept DEF IInv, Moves
<1>6. RowsFine' /\ HeldUnlessStale'
  BY <1>3 DEF IInv, RowsFine, HeldUnlessStale, Active, PaidAddOns, group
<1>7. RequestUnderway'
  BY <1>3 DEF IInv, TypeOK, RequestUnderway
<1> QED BY <1>4, <1>5, <1>6, <1>7 DEF IInv

LEMMA StaffEvidenceKeeps ==
  ASSUME IInv, NEW u \in Proc, NEW a \in AddOns, StaffEvidence(u, a) PROVE IInv'
<1>1. PICK step \in {"approve", "snapshot"} : Start(u, step, a)
  BY DEF StaffEvidence
<1>2. Moves(u, step) /\ mem'[u].a = a /\ step \in Steps
  BY <1>1, StartMoves DEF IInv, Steps
<1>3. MemOf(u)'
  BY <1>2 DEF StaffEvidence, MemOf, Moves, Holding, Seeing, Backed
<1> QED BY <1>2, <1>3, QuietKeeps DEF StaffEvidence, At, IInv, TypeOK

LEMMA StaffApproveKeeps == ASSUME IInv, NEW u \in Proc, StaffApprove(u) PROVE IInv'
<1> DEFINE a == My(u)
           row == ApproveFromEvidence(rows[a])
<1>1. a \in AddOns /\ pc[u] = "approve" /\ rows[a] \in Row /\ roller[a] = TRUE
  BY DEF StaffApprove, At, My, IInv, MemOK, MemOf, Holding, Backed, TypeOK
<1>2. row \in Row /\ Fine(row, TRUE)
  BY <1>1, StatementsKeepRow, StatementsFine DEF IInv, TypeOK, RowsFine
<1>3. /\ rows' = [rows EXCEPT ![a] = row] /\ UNCHANGED <<stored, roller, group, asked, faults>>
      /\ Goto(u, "snapshot") /\ "snapshot" \in Steps
  BY DEF StaffApprove, Steps
<1> HIDE DEF row
<1>4. Moves(u, "snapshot") /\ mem'[u].a = mem[u].a
  BY <1>3, GotoMoves DEF IInv
<1>5. MemOf(u)'
  BY <1>1, <1>3, <1>4 DEF MemOf, Moves, Holding, Seeing, Backed, My
<1> QED BY <1>1, <1>2, <1>3, <1>4, <1>5, RowKeeps

LEMMA SignalStoreKeeps ==
  ASSUME IInv, NEW s \in Proc, NEW a \in AddOns, SignalStore(s, a) PROVE IInv'
<1>1. pc[s] = "idle" /\ roller[a] /\ Start(s, "publish", a) /\ "publish" \in Steps
  BY DEF SignalStore, At, Steps
<1>2. Moves(s, "publish") /\ mem'[s].a = a
  BY <1>1, StartMoves DEF IInv
<1>3. stored' = [stored EXCEPT ![a] = TRUE] /\ UNCHANGED <<rows, roller, group, asked, faults>>
  BY DEF SignalStore
<1>4. TypeOK'
  BY <1>2, <1>3 DEF IInv, TypeOK, Moves, group
<1>5. MemOK'
  <2>1. MemOf(s)'
    BY <1>1, <1>2, <1>3 DEF MemOf, Moves, Holding, Seeing, Backed
  <2> QED BY <1>2, <1>3, <2>1, MemKept DEF IInv, Moves
<1>6. RowsFine'
  BY <1>1, <1>3 DEF IInv, TypeOK, RowsFine
<1>7. HeldUnlessStale'
  BY <1>3 DEF IInv, HeldUnlessStale, Active, PaidAddOns, group
<1>8. RequestUnderway'
  BY <1>1, <1>2, <1>3, OwedKept DEF IInv, RequestUnderway, group
<1> QED BY <1>4, <1>5, <1>6, <1>7, <1>8 DEF IInv

LEMMA SignalPublishKeeps == ASSUME IInv, NEW s \in Proc, SignalPublish(s) PROVE IInv'
<1> DEFINE a == My(s)
           row == PublishFromPaidBooking(rows[a])
<1>1. a \in AddOns /\ pc[s] = "publish" /\ rows[a] \in Row /\ roller[a] = TRUE
  BY DEF SignalPublish, At, My, IInv, MemOK, MemOf, Holding, Backed, TypeOK
<1>2. row \in Row /\ Fine(row, TRUE)
  BY <1>1, StatementsKeepRow, StatementsFine DEF IInv, TypeOK, RowsFine
<1>3. /\ rows' = [rows EXCEPT ![a] = row] /\ UNCHANGED <<stored, roller, group, asked, faults>>
      /\ Goto(s, "release") /\ "release" \in Steps
  BY DEF SignalPublish, Steps
<1> HIDE DEF row
<1>4. Moves(s, "release") /\ mem'[s].a = mem[s].a
  BY <1>3, GotoMoves DEF IInv
<1>5. MemOf(s)'
  BY <1>1, <1>3, <1>4 DEF MemOf, Moves, Holding, Seeing, Backed, My
<1> QED BY <1>1, <1>2, <1>3, <1>4, <1>5, RowKeeps

LEMMA ReleaseBeginKeeps == ASSUME IInv, NEW p \in Proc, ReleaseBegin(p) PROVE IInv'
<1>1. pc[p] = "release" /\ My(p) \in AddOns
  BY DEF ReleaseBegin, At, My, IInv, MemOK, MemOf, Holding
<1>2. CASE Begin(p, "releasing", ReleaseSync(My(p))) /\ Differs(ReleaseSync(My(p)))
  <2>1. ReleaseSync(My(p)) \in Sync
    BY <1>1, <1>2, StatusTyped DEF Differs
  <2> QED BY <1>1, <1>2, <2>1, BeginningKeeps DEF ReleaseBegin, Holding, Steps, Backed
<1>3. CASE Goto(p, "done")
  BY <1>1, <1>3, GoingOnKeeps DEF ReleaseBegin, Holding, Steps, Seeing, Backed, IInv, TypeOK
<1> QED BY <1>2, <1>3 DEF ReleaseBegin

LEMMA ReleaseKeeps == ASSUME IInv, NEW p \in Proc, Release(p) PROVE IInv'
<1>1. pc[p] = "releasing" /\ My(p) \in AddOns
  BY DEF Release, At, My, IInv, MemOK, MemOf, Holding
<1>2. ReleaseSync(My(p)) = "confirmed" => \A a \in PaidAddOns : roller[a]
  BY <1>1, ReleaseBacked DEF IInv
<1> QED BY <1>1, <1>2, ChangeKeeps DEF Release

LEMMA BoardBeginKeeps == ASSUME IInv, NEW b \in Proc, BoardBegin(b) PROVE IInv'
<1>1. pc[b] = "idle" /\ BoardSync \in Sync /\ Begin(b, "reading", BoardSync)
  BY StatusTyped DEF BoardBegin, At, Differs
<1> QED BY <1>1, BeginningKeeps DEF BoardBegin, Holding, Steps, Backed

LEMMA BoardRefreshKeeps == ASSUME IInv, NEW b \in Proc, BoardRefresh(b) PROVE IInv'
<1>1. BoardSync = "confirmed" => \A a \in PaidAddOns : roller[a]
  BY BoardBacked DEF IInv
<1> QED BY <1>1, ChangeKeeps DEF BoardRefresh, At

LEMMA ReadyKeeps == ASSUME IInv, NEW g \in Proc, ReadyForStaff(g) PROVE IInv'
<1>1. /\ pc[g] = "idle" /\ session.status = "guest" /\ session' = [session EXCEPT !.status = "ready"]
      /\ Goto(g, "ask") /\ UNCHANGED <<rows, stored, roller, stale, unasked, asked, faults>>
  BY DEF ReadyForStaff, At
<1>2. Moves(g, "ask")
  BY <1>1, GotoMoves DEF IInv, Steps
<1>3. /\ session' \in [status : {"guest", "ready", "redeemed"}, sync : Sync]
      /\ session'.sync = session.sync
  BY <1>1 DEF IInv, TypeOK
<1>4. TypeOK'
  BY <1>1, <1>2, <1>3 DEF IInv, TypeOK, Moves
<1>5. MemOK'
  <2>1. MemOf(g)'
    BY <1>2 DEF MemOf, Moves, Holding, Seeing, Backed
  <2> QED BY <1>1, <1>2, <2>1, MemKept DEF IInv, Moves
<1>6. RowsFine'
  BY <1>1 DEF IInv, RowsFine
<1>7. HeldUnlessStale'
  BY <1>1, <1>3 DEF IInv, HeldUnlessStale, Active, PaidAddOns
<1>8. RequestUnderway'
  BY <1>2 DEF RequestUnderway, Moves, At
<1> QED BY <1>4, <1>5, <1>6, <1>7, <1>8 DEF IInv

LEMMA AutoCheckinKeeps == ASSUME IInv, AutoCheckin PROVE IInv'
<1>1. /\ asked > 0 /\ asked' = asked - 1
      /\ UNCHANGED <<rows, stored, roller, stale, unasked, faults, pc, mem>>
      /\ session' = IF session.status = "ready" /\ session.sync = "confirmed"
                    THEN [session EXCEPT !.status = "redeemed"] ELSE session
  BY DEF AutoCheckin
<1>2. MemOK' /\ RowsFine'
  BY <1>1 DEF IInv, MemOK, MemOf, RowsFine
<1>3. CASE session.status = "ready" /\ session.sync = "confirmed"
  <2>1. session' = [session EXCEPT !.status = "redeemed"]
    BY <1>1, <1>3
  <2>2. TypeOK'
    BY <1>1, <2>1 DEF IInv, TypeOK
  <2>3. session'.status = "redeemed"
    BY <2>1 DEF IInv, TypeOK
  <2> QED BY <1>2, <2>2, <2>3 DEF IInv, HeldUnlessStale, RequestUnderway, Active
<1>4. CASE ~(session.status = "ready" /\ session.sync = "confirmed")
  <2>1. session' = session
    BY <1>1, <1>4
  <2> QED BY <1>1, <1>2, <1>4, <2>1
          DEF IInv, TypeOK, HeldUnlessStale, RequestUnderway, Active, PaidAddOns
<1> QED BY <1>3, <1>4

LEMMA CrashKeeps == ASSUME IInv, NEW p \in Proc, Crash(p) PROVE IInv'
<1>1. PICK step \in {"idle", "done"} : Goto(p, step)
  BY DEF Crash
<1>2. Moves(p, step)
  BY <1>1, GotoMoves DEF IInv, Steps
<1>3. /\ faults' = faults + 1 /\ faults < MaxFaults
      /\ unasked' = (unasked \/ (At(p, "ask") /\ Active /\ session.sync = "confirmed"))
      /\ UNCHANGED <<rows, stored, roller, session, stale, asked>>
  BY DEF Crash
<1>4. TypeOK'
  <2>1. faults' \in 0..MaxFaults
    BY <1>3, BoundAssumption DEF IInv, TypeOK
  <2>2. unasked' \in BOOLEAN
    BY <1>3 DEF IInv, TypeOK
  <2> QED BY <1>2, <1>3, <2>1, <2>2 DEF IInv, TypeOK, Moves
<1>5. MemOK'
  <2>1. MemOf(p)'
    BY <1>2 DEF MemOf, Moves, Holding, Seeing, Backed
  <2> QED BY <1>2, <1>3, <2>1, MemKept DEF IInv, Moves
<1>6. RowsFine' /\ HeldUnlessStale'
  BY <1>3 DEF IInv, RowsFine, HeldUnlessStale, Active, PaidAddOns
<1>7. RequestUnderway'
  <2> SUFFICES ASSUME session'.status = "ready", session'.sync = "confirmed", ~unasked'
               PROVE  asked' > 0 \/ \E q \in Proc : At(q, "ask")'
    BY DEF RequestUnderway
  <2>1. pc[p] # "ask" /\ ~unasked
    BY <1>3 DEF At, Active
  <2> QED BY <1>2, <1>3, <2>1, OwedKept DEF IInv, RequestUnderway, Steps
<1> QED BY <1>4, <1>5, <1>6, <1>7 DEF IInv

-----------------------------------------------------------------------------
(* The invariant is inductive. *)
LEMMA NextKeeps == ASSUME IInv, [Next]_vars PROVE IInv'
<1>1. ASSUME NEW p \in Proc, Arrive(p) PROVE IInv'
  BY <1>1, ReportKeeps, StaffEvidenceKeeps, SignalStoreKeeps, ReadyKeeps DEF Arrive
<1>2. ASSUME NEW p \in Proc, Continue(p) PROVE IInv'
  BY <1>2, RecordKeeps, DispatchKeeps, MarkBeginKeeps, MarkKeeps, WorkerStartKeeps,
     WorkerClaimKeeps, WorkerLookKeeps, WorkerReadbackKeeps, SnapshotKeeps, ConfirmBeginKeeps,
     ConfirmKeeps, AskKeeps, StaffApproveKeeps, SignalPublishKeeps, ReleaseBeginKeeps,
     ReleaseKeeps, BoardRefreshKeeps DEF Continue
<1>3. CASE UNCHANGED vars
  BY <1>3 DEF vars, group, IInv, TypeOK, MemOK, MemOf, RowsFine, HeldUnlessStale,
              RequestUnderway, Active, PaidAddOns, At
<1> QED BY <1>1, <1>2, <1>3, RollerBooksKeeps, AutoCheckinKeeps, BoardBeginKeeps, CrashKeeps DEF Next

LEMMA Inductive == Spec => []IInv
BY InitInv, NextKeeps, PTL DEF Spec

(* Every variable keeps its type. *)
THEOREM TypeCorrect == Spec => []TypeOK
BY Inductive, PTL DEF IInv

(* A session is never released while ROLLER has no booking for a paid add-on *)
(* of it, unless the write came from an overtaken snapshot: what             *)
(* linkedAddOnEffectiveSyncCte, releaseConfirmedKioskAddOn and               *)
(* refreshLinkedAddOnEffectiveSyncState promise for groups of any size.      *)
THEOREM GroupHeld == Spec => []HeldUnlessStale
BY Inductive, PTL DEF IInv

(* Every write that makes a ready group confirmed is followed by a check-in  *)
(* request, but for the statements that make none.                           *)
THEOREM AdmissionRequested == Spec => []RequestUnderway
BY Inductive, PTL DEF IInv

-----------------------------------------------------------------------------
(* ReleasedAtRest.  When every paid add-on is confirmed and the group is not *)
(* released, somebody is on the way to release it.                           *)

(* Whatever counts as booked has been stored before. *)
Done(r)   == r.conf = "confirmed" \/ Published(r) \/ r.attempt = "reconciled"
Storing   == {"confirm", "confirming", "publish"}
StoredFirst ==
  /\ \A a \in AddOns : Done(rows[a]) => stored[a]
  /\ \A p \in Proc : pc[p] \in Storing => stored[mem[p].a]

Confirmed(r) == Paid(r) /\ r.conf = "confirmed"
AllConfirmed == \A a \in PaidAddOns : rows[a].conf = "confirmed"
Releasing(p) == \/ pc[p] = "release" /\ Confirmed(rows[mem[p].a])
                \/ pc[p] = "releasing" /\ mem[p].seen = "confirmed"
ReleaseOwed == Active /\ faults = 0 /\ ~stale /\ AllConfirmed =>
                 session.sync = "confirmed" \/ \E p \in Proc : Releasing(p)

RInv == IInv /\ StoredFirst /\ ReleaseOwed

(* The statement leaves s of r, and confirms and books nothing.              *)
Quiet(r, s) ==
  (Done(s) => Done(r)) /\ (Confirmed(r) <=> Confirmed(s)) /\ (Paid(r) => Paid(s))

(* No statement makes a row done but those that know ROLLER's booking, and a *)
(* confirmed row stays so.                                                   *)
LEMMA StatementsConfirming ==
  ASSUME NEW r \in Row
  PROVE  /\ \A o \in Outcome : LET s == RecordOutcome(r, o, FALSE) IN
              (Done(s) => Done(r)) /\ (Confirmed(r) => Confirmed(s))
         /\ Quiet(r, TakeLease(r)) /\ Quiet(r, RecordReadback(r))
         /\ Quiet(r, NeedsStaff(r)) /\ Quiet(r, ApproveFromEvidence(r))
         /\ Confirmed(Confirm(r))
         /\ LET s == PublishFromPaidBooking(r) IN
              (Confirmed(r) => Confirmed(s)) /\ (s # r /\ Paid(s) => Confirmed(s))
<1> USE DEF Done, Confirmed, Paid, Published
<1>1. ASSUME NEW o \in Outcome
      PROVE  LET s == RecordOutcome(r, o, FALSE) IN
               (Done(s) => Done(r)) /\ (Confirmed(r) => Confirmed(s))
  <2> DEFINE s == RecordOutcome(r, o, FALSE)
  <2>1. s.attempt = IF r.attempt = "reconciled" \/ (r.attempt = "approved" /\ o # "approved")
                    THEN r.attempt ELSE o
    BY DEF RecordOutcome, Row
  <2>2. s.status = IF Published(r) \/ (r.attempt = "approved" /\ o # "approved")
                   THEN r.status ELSE OutcomeStatus(o)
    BY DEF RecordOutcome, Row
  <2>3. s.conf = IF Published(r) \/ r.attempt = "reconciled" THEN "confirmed"
                 ELSE IF r.attempt = "approved" THEN r.conf ELSE OutcomeConf(o)
    BY DEF RecordOutcome, Row
  <2> QED BY <2>1, <2>2, <2>3 DEF OutcomeStatus, OutcomeConf, Outcome, Row, AttemptStatus, DraftStatus
<1>2. Quiet(r, TakeLease(r))
  BY DEF Quiet, TakeLease, Row
<1>3. Quiet(r, RecordReadback(r))
  BY DEF Quiet, RecordReadback, Row
<1>4. Quiet(r, NeedsStaff(r))
  BY DEF Quiet, NeedsStaff, Row
<1>5. Quiet(r, ApproveFromEvidence(r))
  BY DEF Quiet, ApproveFromEvidence, Unresolved, Row
<1>6. Confirmed(Confirm(r))
  BY DEF Confirm, Row
<1>7. LET s == PublishFromPaidBooking(r) IN
        (Confirmed(r) => Confirmed(s)) /\ (s # r /\ Paid(s) => Confirmed(s))
  BY DEF PublishFromPaidBooking, Row
<1> QED BY <1>1, <1>2, <1>3, <1>4, <1>5, <1>6, <1>7

(* Storing comes first, and stays. *)
LEMMA StoredFirstKept ==
  ASSUME TypeOK, MemOK, StoredFirst, NEW p \in Proc, NEW step \in Steps, Moves(p, step),
         step \in Storing => stored'[mem'[p].a],
         \A a \in AddOns : (stored[a] => stored'[a]) /\ (Done(rows'[a]) => Done(rows[a]) \/ stored'[a])
  PROVE  StoredFirst'
<1>1. \A a \in AddOns : Done(rows'[a]) => stored'[a]
  BY DEF StoredFirst
<1>2. ASSUME NEW q \in Proc, pc'[q] \in Storing PROVE stored'[mem'[q].a]
  <2>1. CASE q = p
    BY <1>2, <2>1 DEF Moves
  <2>2. CASE q # p
    BY <1>2, <2>2 DEF Moves, StoredFirst, MemOK, MemOf, Storing, Holding
  <2> QED BY <2>1, <2>2
<1> QED BY <1>1, <1>2 DEF StoredFirst

(* A step of a process that is not releasing, which writes no status and     *)
(* confirms no add-on, leaves whoever is on the way to release on his way.   *)
LEMMA OwedStays ==
  ASSUME TypeOK, MemOK, ReleaseOwed, NEW p \in Proc, NEW step \in Steps, Moves(p, step),
         pc[p] \notin {"release", "releasing"}, faults' = 0 => faults = 0, stale' = stale,
         session'.sync = session.sync, Active' => Active,
         \A a \in AddOns : /\ Paid(rows[a]) => Paid(rows'[a])
                           /\ Confirmed(rows'[a]) <=> Confirmed(rows[a])
  PROVE  ReleaseOwed'
<1> SUFFICES ASSUME Active', faults = 0, ~stale, AllConfirmed', session.sync # "confirmed"
             PROVE  \E q \in Proc : Releasing(q)'
  BY DEF ReleaseOwed
<1>1. AllConfirmed
  BY DEF AllConfirmed, PaidAddOns, Confirmed
<1>2. PICK q \in Proc : Releasing(q)
  BY <1>1 DEF ReleaseOwed
<1>3. q # p /\ pc'[q] = pc[q] /\ mem'[q] = mem[q]
  BY <1>2 DEF Releasing, Moves
<1>4. pc[q] = "release" => mem[q].a \in AddOns
  BY DEF MemOK, MemOf, Holding
<1> QED BY <1>2, <1>3, <1>4 DEF Releasing

(* A write of the status settles it, if an up-to-date one says confirmed     *)
(* when all are.                                                             *)
LEMMA OwedWritten ==
  ASSUME TypeOK, NEW sync \in Sync, NEW now, NEW asks, WriteSync(sync, now, asks),
         Active /\ AllConfirmed' => now = "confirmed" \/ now # sync
  PROVE  ReleaseOwed'
<1>1. CASE ~Active
  BY <1>1 DEF WriteSync, group, ReleaseOwed, Active
<1>2. CASE Active
  <2>1. session' = [session EXCEPT !.sync = sync] /\ stale' = (sync # now)
    BY <1>2 DEF WriteSync
  <2>2. session'.sync = sync
    BY <2>1 DEF TypeOK
  <2> QED BY <1>2, <2>1, <2>2 DEF ReleaseOwed
<1> QED BY <1>1, <1>2

LEMMA SiblingsConfirmed ==
  ASSUME NEW a, \A b \in PaidAddOns \ {a} : rows[b].conf = "confirmed"
  PROVE  SiblingSync(a) = "confirmed"
BY DEF SiblingSync, Worst

LEMMA GroupConfirmed ==
  ASSUME TypeOK, NEW a \in AddOns, NEW s \in Row, Paid(s), rows' = [rows EXCEPT ![a] = s], AllConfirmed'
  PROVE  GroupSync(s, SiblingSync(a)) = "confirmed"
<1>1. rows'[a] = s /\ \A b \in AddOns \ {a} : rows'[b] = rows[b]
  BY DEF TypeOK
<1>2. s.conf = "confirmed"
  BY <1>1 DEF AllConfirmed, PaidAddOns
<1>3. SiblingSync(a) = "confirmed"
  BY <1>1, SiblingsConfirmed DEF AllConfirmed, PaidAddOns
<1> QED BY <1>2, <1>3 DEF GroupSync, Worst

(* A step that only moves a process. *)
LEMMA QuietReleases ==
  ASSUME RInv, NEW p \in Proc, NEW step \in Steps, Moves(p, step),
         step \in Storing => pc[p] \in Storing /\ mem'[p].a = mem[p].a,
         pc[p] \notin {"release", "releasing"}, faults' = 0 => faults = 0,
         session'.sync = session.sync, Active' => Active, UNCHANGED <<rows, stored, stale>>
  PROVE  StoredFirst' /\ ReleaseOwed'
<1>1. StoredFirst'
  BY StoredFirstKept DEF RInv, IInv, StoredFirst
<1>2. ReleaseOwed'
  BY OwedStays DEF RInv, IInv
<1> QED BY <1>1, <1>2

(* A step that replaces one row by a statement which confirms nothing. *)
LEMMA RowReleases ==
  ASSUME RInv, NEW p \in Proc, NEW step \in Steps, Moves(p, step), step \notin Storing,
         pc[p] \notin {"release", "releasing"}, NEW a \in AddOns, NEW s \in Row,
         rows' = [rows EXCEPT ![a] = s], Done(s) => Done(rows[a]),
         Confirmed(rows[a]) <=> Confirmed(s), Paid(rows[a]) => Paid(s),
         UNCHANGED <<stored, group, faults>>
  PROVE  StoredFirst' /\ ReleaseOwed'
<1>1. rows'[a] = s /\ \A b \in AddOns \ {a} : rows'[b] = rows[b]
  BY DEF RInv, IInv, TypeOK
<1>2. StoredFirst'
  BY <1>1, StoredFirstKept DEF RInv, IInv
<1>3. ReleaseOwed'
  BY <1>1, OwedStays DEF RInv, IInv, group, Active
<1> QED BY <1>2, <1>3

(* A step that replaces one row by a paid one and writes the status with it. *)
LEMMA RowAndSyncReleases ==
  ASSUME RInv, NEW p \in Proc, NEW step \in Steps, Moves(p, step), step \notin Storing,
         NEW a \in AddOns, NEW s \in Row, rows' = [rows EXCEPT ![a] = s],
         Done(s) => Done(rows[a]) \/ stored[a], Paid(s), NEW seen, NEW asks,
         WriteSync(GroupSync(s, seen), GroupSync(s, SiblingSync(a)), asks), UNCHANGED stored
  PROVE  StoredFirst' /\ ReleaseOwed'
<1>1. rows'[a] = s /\ \A b \in AddOns \ {a} : rows'[b] = rows[b]
  BY DEF RInv, IInv, TypeOK
<1>2. StoredFirst'
  BY <1>1, StoredFirstKept DEF RInv, IInv
<1>3. GroupSync(s, seen) \in Sync
  BY StatusTyped DEF GroupSync
<1>4. ReleaseOwed'
  BY <1>3, GroupConfirmed, OwedWritten DEF RInv, IInv
<1> QED BY <1>2, <1>4

(* A release or a board read: one that saw the group confirmed releases it.  *)
LEMMA ChangeReleases ==
  ASSUME RInv, NEW p \in Proc, pc[p] \in {"releasing", "reading"}, NEW now,
         NEW rest \in {"done", "idle"}, WriteChanged(p, now, rest),
         AllConfirmed => now \in {"confirmed", "none"}, UNCHANGED <<rows, stored, faults>>
  PROVE  StoredFirst' /\ ReleaseOwed'
<1>0. mem[p].seen \in Sync
  BY DEF RInv, IInv, MemOK, MemOf, Seeing
<1>1. PICK step \in {"ask", "done", "idle"} : Goto(p, step)
  BY DEF WriteChanged
<1>2. Moves(p, step) /\ step \in Steps
  BY <1>1, GotoMoves DEF RInv, IInv, Steps
<1>3. StoredFirst'
  BY <1>2, StoredFirstKept DEF RInv, IInv, Storing
<1>4. CASE Differs(mem[p].seen)
  <2>1. WriteSync(mem[p].seen, now, TRUE)
    BY <1>4 DEF WriteChanged
  <2>2. AllConfirmed' => AllConfirmed
    BY DEF AllConfirmed, PaidAddOns
  <2> QED BY <1>0, <1>3, <2>1, <2>2, OwedWritten DEF RInv, IInv, Sync
<1>5. CASE ~Differs(mem[p].seen)
  <2>1. UNCHANGED group
    BY <1>5 DEF WriteChanged
  <2> SUFFICES ASSUME Active, faults = 0, ~stale, AllConfirmed, session.sync # "confirmed"
               PROVE  \E q \in Proc : Releasing(q)'
    BY <1>3, <2>1 DEF ReleaseOwed, Active, AllConfirmed, PaidAddOns, group
  <2>2. PICK q \in Proc : Releasing(q)
    BY DEF RInv, ReleaseOwed
  <2>3. q # p
    BY <1>0, <1>5, <2>2 DEF Releasing, Differs, Sync
  <2> QED BY <1>2, <2>2, <2>3 DEF Releasing, Moves
<1> QED BY <1>4, <1>5

(* The actions, one by one. *)
LEMMA InitReleases == Init => StoredFirst /\ ReleaseOwed
<1> SUFFICES ASSUME Init PROVE StoredFirst /\ ReleaseOwed
  OBVIOUS
<1>1. ~Done(NewRow)
  BY DEF Done, NewRow, Published
<1> QED BY <1>1 DEF Init, StoredFirst, ReleaseOwed, Storing

LEMMA OthersRelease ==
  ASSUME RInv, (\E a \in AddOns : RollerBooks(a)) \/ AutoCheckin \/ UNCHANGED vars
  PROVE  StoredFirst' /\ ReleaseOwed'
<1>1. UNCHANGED <<rows, stored, stale, faults, pc, mem>>
  BY DEF RollerBooks, AutoCheckin, vars, group
<1>2. session' = session \/ session' = [session EXCEPT !.status = "redeemed"]
  BY DEF RollerBooks, AutoCheckin, vars, group
<1>3. Active' => Active /\ session' = session
  BY <1>2 DEF RInv, IInv, TypeOK, Active
<1> QED BY <1>1, <1>3 DEF RInv, StoredFirst, ReleaseOwed, AllConfirmed, PaidAddOns, Releasing

LEMMA ArriveReleases ==
  ASSUME RInv, NEW p \in Proc, Arrive(p) PROVE StoredFirst' /\ ReleaseOwed'
<1> USE DEF RInv, IInv
<1>1. ASSUME NEW a \in AddOns, NEW o \in Outcomes, Report(p, a, o) PROVE StoredFirst' /\ ReleaseOwed'
  <2> DEFINE m == [NoMem EXCEPT !.a = a, !.o = o, !.seen = SiblingSync(a)]
  <2>1. m \in Memory
    BY OutcomeAssumption, StatusTyped DEF Outcome, Memory, NoMem
  <2>2. mem' = [mem EXCEPT ![p] = m] /\ pc' = [pc EXCEPT ![p] = "recording"] /\ "recording" \in Steps
    BY <1>1 DEF Report, Steps
  <2> HIDE DEF m
  <2>3. Moves(p, "recording")
    BY <2>1, <2>2, Moved
  <2> QED BY <1>1, <2>2, <2>3, QuietReleases DEF Report, At, Storing, group, Active
<1>2. ASSUME NEW a \in AddOns, StaffEvidence(p, a) PROVE StoredFirst' /\ ReleaseOwed'
  <2>1. PICK step \in {"approve", "snapshot"} : Start(p, step, a)
    BY <1>2 DEF StaffEvidence
  <2>2. Moves(p, step) /\ step \in Steps
    BY <2>1, StartMoves DEF Steps
  <2> QED BY <1>2, <2>2, QuietReleases DEF StaffEvidence, At, Storing, group, Active
<1>3. ASSUME NEW a \in AddOns, SignalStore(p, a) PROVE StoredFirst' /\ ReleaseOwed'
  <2>1. Moves(p, "publish") /\ mem'[p].a = a /\ "publish" \in Steps
    BY <1>3, StartMoves DEF SignalStore, Steps
  <2>2. /\ stored' = [stored EXCEPT ![a] = TRUE] /\ UNCHANGED <<rows, group, faults>>
        /\ pc[p] = "idle"
    BY <1>3 DEF SignalStore, At
  <2>3. stored'[a] /\ \A b \in AddOns : stored[b] => stored'[b]
    BY <2>2 DEF TypeOK
  <2>4. StoredFirst'
    BY <2>1, <2>2, <2>3, StoredFirstKept
  <2>5. ReleaseOwed'
    BY <2>1, <2>2, OwedStays DEF group, Active
  <2> QED BY <2>4, <2>5
<1>4. CASE ReadyForStaff(p)
  <2>1. Moves(p, "ask") /\ "ask" \in Steps
    BY <1>4, GotoMoves DEF ReadyForStaff, Steps
  <2>2. session' = [session EXCEPT !.status = "ready"] /\ session.status = "guest"
    BY <1>4 DEF ReadyForStaff
  <2>3. session'.sync = session.sync /\ Active
    BY <2>2 DEF TypeOK, Active
  <2> QED BY <1>4, <2>1, <2>3, QuietReleases DEF ReadyForStaff, At, Storing
<1> QED BY <1>1, <1>2, <1>3, <1>4 DEF Arrive

(* The steps of a process that change nothing but where it is. *)
LEMMA GoingOnReleases ==
  ASSUME RInv, NEW p \in Proc,
         Dispatch(p) \/ WorkerStart(p) \/ WorkerLook(p) \/ Ask(p)
  PROVE  StoredFirst' /\ ReleaseOwed'
<1>1. PICK step \in {"start", "mark", "done", "release", "claim", "readback", "idle"} : Goto(p, step)
  BY DEF Dispatch, WorkerStart, WorkerLook, Ask
<1>2. Moves(p, step) /\ step \in Steps
  BY <1>1, GotoMoves DEF RInv, IInv, Steps
<1>3. /\ UNCHANGED <<rows, stored, group>> /\ pc[p] \notin {"release", "releasing"}
      /\ faults' = 0 => faults = 0
  BY BoundAssumption DEF Dispatch, WorkerStart, WorkerLook, Ask, At, RInv, IInv, TypeOK
<1> QED BY <1>2, <1>3, QuietReleases DEF Storing, group, Active

LEMMA BeginningReleases ==
  ASSUME RInv, NEW p \in Proc, MarkBegin(p) \/ ConfirmBegin(p) \/ BoardBegin(p)
  PROVE  StoredFirst' /\ ReleaseOwed'
<1>1. /\ UNCHANGED <<rows, stored, group, faults>> /\ pc[p] \in {"mark", "confirm", "idle"}
      /\ pc[p] # "idle" => My(p) \in AddOns
  BY DEF MarkBegin, ConfirmBegin, BoardBegin, At, RInv, IInv, MemOK, MemOf, Holding, My
<1>2. PICK step \in {"marking", "confirming", "reading"}, s \in Sync :
        Begin(p, step, s) /\ (step = "confirming" => pc[p] = "confirm")
  BY <1>1, StatusTyped DEF MarkBegin, ConfirmBegin, BoardBegin, At, Differs
<1>3. Moves(p, step) /\ step \in Steps /\ mem'[p].a = mem[p].a
  BY <1>2, BeginMoves DEF RInv, IInv, Steps
<1> QED BY <1>1, <1>2, <1>3, QuietReleases DEF Storing, group, Active

LEMMA RowOnlyReleases ==
  ASSUME RInv, NEW p \in Proc, WorkerClaim(p) \/ WorkerReadback(p) \/ StaffApprove(p)
  PROVE  StoredFirst' /\ ReleaseOwed'
<1> DEFINE a == My(p)
<1>1. a \in AddOns /\ rows[a] \in Row /\ pc[p] \in {"claim", "readback", "approve"}
  BY DEF WorkerClaim, WorkerReadback, StaffApprove, At, My, RInv, IInv, MemOK, MemOf, Holding, TypeOK
<1>2. UNCHANGED <<stored, group, faults>>
  BY DEF WorkerClaim, WorkerReadback, StaffApprove
<1>3. PICK step \in {"look", "done", "snapshot", "mark"} : Goto(p, step)
  BY DEF WorkerClaim, WorkerReadback, StaffApprove
<1>4. Moves(p, step) /\ step \in Steps /\ step \notin Storing
  BY <1>3, GotoMoves DEF RInv, IInv, Steps, Storing
<1>5. \/ UNCHANGED rows
      \/ \E s \in {TakeLease(rows[a]), RecordReadback(rows[a]), ApproveFromEvidence(rows[a])} :
           rows' = [rows EXCEPT ![a] = s]
  BY DEF WorkerClaim, WorkerReadback, StaffApprove
<1>6. CASE UNCHANGED rows
  BY <1>1, <1>2, <1>4, <1>6, QuietReleases DEF group, Active
<1>7. ASSUME NEW s \in {TakeLease(rows[a]), RecordReadback(rows[a]), ApproveFromEvidence(rows[a])},
             rows' = [rows EXCEPT ![a] = s]
      PROVE  StoredFirst' /\ ReleaseOwed'
  <2>1. s \in Row
    BY <1>1, StatementsKeepRow
  <2>2. (Done(s) => Done(rows[a])) /\ (Confirmed(rows[a]) <=> Confirmed(s)) /\ (Paid(rows[a]) => Paid(s))
    <3> DEFINE r == rows[a]
    <3>1. r \in Row /\ s \in {TakeLease(r), RecordReadback(r), ApproveFromEvidence(r)}
      BY <1>1, <1>7
    <3> HIDE DEF r
    <3>2. Quiet(r, s)
      BY <3>1, StatementsConfirming
    <3> QED BY <3>2 DEF r, Quiet
  <2> HIDE DEF a
  <2> QED BY <1>1, <1>2, <1>4, <1>7, <2>1, <2>2, RowReleases
<1> QED BY <1>5, <1>6, <1>7

LEMMA SnapshotReleases == ASSUME RInv, NEW p \in Proc, Snapshot(p) PROVE StoredFirst' /\ ReleaseOwed'
<1> USE DEF RInv, IInv
<1>1. My(p) \in AddOns /\ pc[p] = "snapshot"
  BY DEF Snapshot, At, My, MemOK, MemOf, Holding
<1>2. Moves(p, "confirm") /\ mem'[p].a = mem[p].a /\ "confirm" \in Steps
  BY GotoMoves DEF Snapshot, Steps
<1>3. stored' = [stored EXCEPT ![My(p)] = TRUE] /\ UNCHANGED <<rows, group, faults>>
  BY DEF Snapshot
<1>4. stored'[My(p)] /\ \A b \in AddOns : stored[b] => stored'[b]
  BY <1>1, <1>3 DEF TypeOK
<1>5. StoredFirst'
  BY <1>2, <1>3, <1>4, StoredFirstKept DEF My
<1>6. ReleaseOwed'
  BY <1>1, <1>2, <1>3, OwedStays DEF group, Active
<1> QED BY <1>5, <1>6

LEMMA RecordReleases ==
  ASSUME RInv, NEW f \in Proc, RecordOutcomeAndSync(f) PROVE StoredFirst' /\ ReleaseOwed'
<1> DEFINE a == My(f)
           row == RecordOutcome(rows[a], mem[f].o, FALSE)
<1>1. a \in AddOns /\ mem[f].o \in Outcome /\ pc[f] = "recording" /\ rows[a] \in Row
  BY DEF RecordOutcomeAndSync, At, My, RInv, IInv, MemOK, MemOf, Holding, TypeOK
<1>2. row \in Row /\ (Done(row) => Done(rows[a])) /\ (Confirmed(rows[a]) => Confirmed(row))
  BY <1>1, StatementsKeepRow, StatementsConfirming
<1>3. Paid(rows[a]) => Paid(row)
  <2>1. rows[a] \in Row /\ roller[a] \in BOOLEAN /\ Fine(rows[a], roller[a])
    BY <1>1 DEF RInv, IInv, TypeOK, RowsFine
  <2>2. \A o \in Outcome : LET s == RecordOutcome(rows[a], o, FALSE) IN Paid(rows[a]) => Paid(s)
    BY <2>1, StatementsFine
  <2> QED BY <1>1, <2>2
<1>4. rows' = [rows EXCEPT ![a] = row] /\ UNCHANGED <<stored, faults>>
  BY DEF RecordOutcomeAndSync
<1>5. /\ Paid(row) => WriteSync(GroupSync(row, mem[f].seen), GroupSync(row, SiblingSync(a)), FALSE)
      /\ ~Paid(row) => UNCHANGED group
  BY DEF RecordOutcomeAndSync
<1>6. PICK step \in {"done", "dispatch"} : Goto(f, step)
  BY DEF RecordOutcomeAndSync
<1> HIDE DEF a, row
<1>7. Moves(f, step) /\ step \in Steps /\ step \notin Storing
  BY <1>6, GotoMoves DEF RInv, IInv, Steps, Storing
<1>8. CASE Paid(row)
  BY <1>1, <1>2, <1>4, <1>5, <1>7, <1>8, RowAndSyncReleases
<1>9. CASE ~Paid(row)
  BY <1>1, <1>2, <1>3, <1>4, <1>5, <1>7, <1>9, RowReleases DEF Confirmed
<1> QED BY <1>8, <1>9

LEMMA MarkReleases ==
  ASSUME RInv, NEW p \in Proc, MarkNeedsStaffAndSync(p) PROVE StoredFirst' /\ ReleaseOwed'
<1> DEFINE a == My(p)
           row == NeedsStaff(rows[a])
<1>1. a \in AddOns /\ pc[p] = "marking" /\ rows[a] \in Row
  BY DEF MarkNeedsStaffAndSync, At, My, RInv, IInv, MemOK, MemOf, Holding, TypeOK
<1>2. /\ row \in Row /\ (Done(row) => Done(rows[a])) /\ (Confirmed(rows[a]) <=> Confirmed(row))
      /\ Paid(rows[a]) => Paid(row)
  BY <1>1, StatementsKeepRow, StatementsConfirming DEF Quiet
<1>3. rows' = [rows EXCEPT ![a] = row] /\ UNCHANGED <<stored, faults>>
  BY DEF MarkNeedsStaffAndSync
<1>4. /\ Paid(row) => WriteSync(GroupSync(row, mem[p].seen), GroupSync(row, SiblingSync(a)), FALSE)
      /\ ~Paid(row) => UNCHANGED group
  BY DEF MarkNeedsStaffAndSync
<1> HIDE DEF a, row
<1>5. Moves(p, "done") /\ "done" \in Steps /\ "done" \notin Storing
  BY GotoMoves DEF MarkNeedsStaffAndSync, RInv, IInv, Steps, Storing
<1>6. CASE Paid(row)
  BY <1>1, <1>2, <1>3, <1>4, <1>5, <1>6, RowAndSyncReleases
<1>7. CASE ~Paid(row)
  BY <1>1, <1>2, <1>3, <1>4, <1>5, <1>7, RowReleases
<1> QED BY <1>6, <1>7

LEMMA ConfirmReleases ==
  ASSUME RInv, NEW p \in Proc, ConfirmAndSync(p) PROVE StoredFirst' /\ ReleaseOwed'
<1> DEFINE a == My(p)
           row == Confirm(rows[a])
<1>1. a \in AddOns /\ pc[p] = "confirming" /\ rows[a] \in Row /\ stored[a]
  BY DEF ConfirmAndSync, At, My, RInv, IInv, MemOK, MemOf, Holding, TypeOK, StoredFirst, Storing
<1>2. row \in Row /\ Paid(row)
  BY <1>1, StatementsKeepRow, StatementsConfirming DEF Confirmed
<1>3. /\ rows' = [rows EXCEPT ![a] = row] /\ UNCHANGED stored
      /\ WriteSync(GroupSync(row, mem[p].seen), GroupSync(row, SiblingSync(a)), TRUE)
  BY DEF ConfirmAndSync
<1>4. PICK step \in {"ask", "done"} : Goto(p, step)
  BY DEF ConfirmAndSync
<1> HIDE DEF a, row
<1>5. Moves(p, step) /\ step \in Steps /\ step \notin Storing
  BY <1>4, GotoMoves DEF RInv, IInv, Steps, Storing
<1> QED BY <1>1, <1>2, <1>3, <1>5, RowAndSyncReleases

(* The signal that confirms the last add-on goes on to release the group.    *)
LEMMA SignalReleases ==
  ASSUME RInv, NEW p \in Proc, SignalPublish(p) PROVE StoredFirst' /\ ReleaseOwed'
<1> DEFINE a == My(p)
           row == PublishFromPaidBooking(rows[a])
<1>1. a \in AddOns /\ pc[p] = "publish" /\ rows[a] \in Row /\ stored[a]
  BY DEF SignalPublish, At, My, RInv, IInv, MemOK, MemOf, Holding, TypeOK, StoredFirst, Storing
<1>2. /\ row \in Row /\ (Confirmed(rows[a]) => Confirmed(row))
      /\ row # rows[a] /\ Paid(row) => Confirmed(row)
  BY <1>1, StatementsKeepRow, StatementsConfirming
<1>3. Paid(row) <=> Paid(rows[a])
  BY <1>1, StatementsFine DEF RInv, IInv, TypeOK, RowsFine
<1>4. rows' = [rows EXCEPT ![a] = row] /\ UNCHANGED <<stored, group, faults>>
  BY DEF SignalPublish
<1>5. Moves(p, "release") /\ mem'[p].a = a /\ "release" \in Steps /\ "release" \notin Storing
  BY GotoMoves DEF SignalPublish, RInv, IInv, Steps, Storing, My
<1> HIDE DEF a, row
<1>6. rows'[a] = row /\ \A b \in AddOns \ {a} : rows'[b] = rows[b]
  BY <1>1, <1>4 DEF RInv, IInv, TypeOK
<1>7. StoredFirst'
  BY <1>1, <1>4, <1>5, <1>6, StoredFirstKept DEF RInv, IInv
<1>8. ReleaseOwed'
  <2>1. CASE row # rows[a] /\ Paid(row)
    <3>1. Releasing(p)'
      BY <1>2, <1>5, <1>6, <2>1 DEF Releasing, Moves
    <3> QED BY <3>1 DEF ReleaseOwed
  <2>2. CASE row = rows[a] \/ ~Paid(row)
    <3>1. Confirmed(rows[a]) <=> Confirmed(row)
      BY <1>2, <1>3, <2>2 DEF Confirmed
    <3> QED BY <1>1, <1>3, <1>4, <1>5, <1>6, <3>1, OwedStays DEF RInv, IInv, group, Active
  <2> QED BY <2>1, <2>2
<1> QED BY <1>7, <1>8

(* A release of a confirmed group begins with a snapshot that shows it so.   *)
LEMMA AddOnReleaseConfirmed ==
  ASSUME AllConfirmed, NEW a \in AddOns
  PROVE  ReleaseSync(a) = IF Confirmed(rows[a]) THEN "confirmed" ELSE "none"
BY SiblingsConfirmed DEF ReleaseSync, AllConfirmed, Confirmed

LEMMA ReleaseBeginReleases ==
  ASSUME RInv, NEW p \in Proc, ReleaseBegin(p) PROVE StoredFirst' /\ ReleaseOwed'
<1> USE DEF RInv, IInv
<1>1. pc[p] = "release" /\ My(p) \in AddOns /\ UNCHANGED <<rows, stored, group, faults>>
  BY DEF ReleaseBegin, At, My, MemOK, MemOf, Holding
<1>2. PICK step \in {"releasing", "done"} :
        /\ Moves(p, step)
        /\ Differs(ReleaseSync(My(p))) => step = "releasing" /\ mem'[p].seen = ReleaseSync(My(p))
  <2>1. CASE Differs(ReleaseSync(My(p)))
    <3>1. ReleaseSync(My(p)) \in Sync
      BY <1>1, <2>1, StatusTyped DEF Differs
    <3>2. Moves(p, "releasing") /\ mem'[p].seen = ReleaseSync(My(p))
      BY <2>1, <3>1, BeginMoves DEF ReleaseBegin, Steps
    <3> QED BY <3>2
  <2>2. CASE ~Differs(ReleaseSync(My(p)))
    <3>1. Moves(p, "done")
      BY <2>2, GotoMoves DEF ReleaseBegin, Steps
    <3> QED BY <2>2, <3>1
  <2> QED BY <2>1, <2>2
<1>3. StoredFirst'
  BY <1>1, <1>2, StoredFirstKept DEF Storing, Steps
<1>4. ReleaseOwed'
  <2> SUFFICES ASSUME Active, faults = 0, ~stale, AllConfirmed, session.sync # "confirmed"
               PROVE  \E q \in Proc : Releasing(q)'
    BY <1>1 DEF ReleaseOwed, Active, AllConfirmed, PaidAddOns, group
  <2>1. PICK q \in Proc : Releasing(q)
    BY DEF ReleaseOwed
  <2>2. CASE q # p
    BY <1>1, <1>2, <2>1, <2>2 DEF Releasing, Moves
  <2>3. CASE q = p
    <3>1. Confirmed(rows[My(p)])
      BY <1>1, <2>1, <2>3 DEF Releasing, My
    <3>2. ReleaseSync(My(p)) = "confirmed" /\ Differs(ReleaseSync(My(p)))
      BY <1>1, <3>1, AddOnReleaseConfirmed DEF Differs
    <3> QED BY <1>2, <3>2 DEF Releasing, Moves
  <2> QED BY <2>2, <2>3
<1> QED BY <1>3, <1>4

LEMMA ReleaseReleases == ASSUME RInv, NEW p \in Proc, Release(p) PROVE StoredFirst' /\ ReleaseOwed'
<1>1. pc[p] = "releasing" /\ My(p) \in AddOns
  BY DEF Release, At, My, RInv, IInv, MemOK, MemOf, Holding
<1>2. AllConfirmed => ReleaseSync(My(p)) \in {"confirmed", "none"}
  BY <1>1, AddOnReleaseConfirmed
<1> QED BY <1>1, <1>2, ChangeReleases DEF Release

LEMMA BoardReleases == ASSUME RInv, NEW b \in Proc, BoardRefresh(b) PROVE StoredFirst' /\ ReleaseOwed'
<1>1. AllConfirmed => BoardSync \in {"confirmed", "none"}
  BY DEF BoardSync, AllConfirmed, PaidAddOns, RInv, StoredFirst, Done
<1> QED BY <1>1, ChangeReleases DEF BoardRefresh, At

LEMMA CrashReleases == ASSUME RInv, NEW p \in Proc, Crash(p) PROVE StoredFirst' /\ ReleaseOwed'
<1>1. PICK step \in {"idle", "done"} : Goto(p, step)
  BY DEF Crash
<1>2. Moves(p, step) /\ step \in Steps /\ step \notin Storing
  BY <1>1, GotoMoves DEF RInv, IInv, Steps, Storing
<1>3. faults' # 0 /\ UNCHANGED <<rows, stored>>
  BY BoundAssumption DEF Crash, RInv, IInv, TypeOK
<1>4. StoredFirst'
  BY <1>2, <1>3, StoredFirstKept DEF RInv, IInv
<1> QED BY <1>3, <1>4 DEF ReleaseOwed

LEMMA ReleasesInductive == Spec => []RInv
<1>1. Init => RInv
  BY InitInv, InitReleases DEF RInv
<1>2. RInv /\ [Next]_vars => RInv'
  <2> SUFFICES ASSUME RInv, [Next]_vars PROVE RInv'
    OBVIOUS
  <2>1. IInv'
    BY NextKeeps DEF RInv
  <2>2. ASSUME NEW p \in Proc, Continue(p) PROVE StoredFirst' /\ ReleaseOwed'
    BY <2>2, GoingOnReleases, BeginningReleases, RowOnlyReleases, SnapshotReleases,
       RecordReleases, MarkReleases, ConfirmReleases, SignalReleases, ReleaseBeginReleases,
       ReleaseReleases, BoardReleases DEF Continue
  <2>3. StoredFirst' /\ ReleaseOwed'
    BY <2>2, OthersRelease, ArriveReleases, BeginningReleases, CrashReleases DEF Next
  <2> QED BY <2>1, <2>3 DEF RInv
<1> QED BY <1>1, <1>2, PTL DEF Spec

(* When all invocations have ended and every paid add-on is confirmed, the   *)
(* group is released, whoever of report, worker, signal and staff was last,  *)
(* but for an overtaken snapshot or a death.                                 *)
THEOREM ReleasedWhenDone == Spec => []ReleasedAtRest
<1>1. RInv => ReleasedAtRest
  BY DEF RInv, ReleaseOwed, ReleasedAtRest, AtRest, Releasing, AllConfirmed, PaidAddOns
<1> QED BY <1>1, ReleasesInductive, PTL
=============================================================================
