------------------------- MODULE KioskPaymentProofs -------------------------
(***************************************************************************)
(* Theorems about KioskPayment, for any sets of invocations and any bound  *)
(* on read-backs and faults.                                               *)
(***************************************************************************)
EXTENDS KioskPayment, KioskDraftProofs

-----------------------------------------------------------------------------
(* Type correctness.                                                         *)

(* The initial state is well typed.                                          *)
LEMMA InitTyped == Init => TypeOK
<1> SUFFICES ASSUME Init PROVE TypeOK
  OBVIOUS
<1> USE BoundAssumption
<1>1. row \in Row
  BY DEF Init, NewRow, Row, AttemptStatus, DraftStatus, Confirmation, Lease
<1>2. QED
  BY <1>1 DEF Init, TypeOK, Sync, Terminal, Steps, Kinds, NoMem

(* Moving a process on keeps pc well typed. *)
LEMMA GotoTyped ==
  ASSUME TypeOK, NEW p \in Proc, NEW s \in Steps, Goto(p, s)
  PROVE  pc' \in [Proc -> Steps]
BY DEF TypeOK, Goto

(* No step of the provider, the clock or another system leaves the types.    *)
LEMMA OutsideTyped == TypeOK /\ Outside => TypeOK'
<1> SUFFICES ASSUME TypeOK, Outside PROVE TypeOK'
  OBVIOUS
<1>1. CASE DraftArrives
  BY <1>1 DEF DraftArrives, TypeOK, Terminal
<1>2. CASE TerminalDecides
  BY <1>2 DEF TerminalDecides, TypeOK, Terminal
<1>3. CASE RollerBooks
  BY <1>3 DEF RollerBooks, TypeOK
<1>4. CASE Tick
  BY <1>4 DEF Tick, TypeOK
<1>5. CASE LeaseExpires
  BY <1>5 DEF LeaseExpires, TypeOK, env, Row, Lease
<1> QED BY <1>1, <1>2, <1>3, <1>4, <1>5 DEF Outside

(* No step of a terminal result call leaves the types.                       *)
LEMMA CallersTyped ==
  ASSUME TypeOK, NEW p \in Proc, CallerStep(p) PROVE TypeOK'
<1>1. ASSUME NEW o \in Outcome, NEW t \in BOOLEAN, FinalizeResult(p, o, t) PROVE TypeOK'
  <2>1. row' \in Row
    BY <1>1, StatementsKeepRow DEF FinalizeResult, TypeOK
  <2>2. pc' \in [Proc -> Steps]
    BY <1>1, GotoTyped DEF FinalizeResult, Steps
  <2>3. mem' \in [Proc -> [kind : Kinds, flag : BOOLEAN, tries : 0..Offsets]]
    BY <1>1 DEF FinalizeResult, TypeOK, Kinds
  <2> QED BY <1>1, <2>1, <2>2, <2>3 DEF FinalizeResult, TypeOK, env
<1>2. CASE FinalizeStatus(p)
  <2>1. pc' \in [Proc -> Steps]
    BY <1>2, GotoTyped DEF FinalizeStatus, Steps
  <2>2. mem' \in [Proc -> [kind : Kinds, flag : BOOLEAN, tries : 0..Offsets]]
    BY <1>2 DEF FinalizeStatus, TypeOK, Kinds
  <2> QED BY <1>2, <2>1, <2>2 DEF FinalizeStatus, TypeOK, env
<1> QED BY <1>1, <1>2 DEF CallerStep

(* No step of the handoff leaves the types.                                  *)
LEMMA HandoffTyped ==
  ASSUME TypeOK, NEW p \in Proc,
         HandoffStep(p) \/ HandoffFails(p) \/ Dispatch(p)
  PROVE  TypeOK'
<1>0. AfterHandoff(p) \in Steps
  BY DEF AfterHandoff, Steps
<1>1. CASE HandoffRead(p)
  <2>1. pc' \in [Proc -> Steps]
    BY <1>0, <1>1, GotoTyped DEF HandoffRead, Steps
  <2> QED BY <1>1, <2>1 DEF HandoffRead, TypeOK, env
<1>2. CASE HandoffBooking(p)
  <2>1. pc' \in [Proc -> Steps]
    BY <1>2, GotoTyped DEF HandoffBooking, Steps
  <2> QED BY <1>2, <2>1 DEF HandoffBooking, TypeOK, env
<1>3. CASE HandoffToken(p)
  <2>1. pc' \in [Proc -> Steps]
    BY <1>3, GotoTyped DEF HandoffToken, Steps
  <2> QED BY <1>3, <2>1 DEF HandoffToken, TypeOK, env
<1>4. CASE HandoffSession(p)
  <2>1. pc' \in [Proc -> Steps]
    BY <1>0, <1>4, GotoTyped DEF HandoffSession
  <2> QED BY <1>4, <2>1 DEF HandoffSession, TypeOK, env, Sync
<1>5. CASE HandoffFails(p)
  <2>1. pc' \in [Proc -> Steps]
    BY <1>0, <1>5, GotoTyped DEF HandoffFails, Steps
  <2>2. faults' \in 0..MaxFaults
    BY <1>5, BoundAssumption DEF HandoffFails, TypeOK
  <2> QED BY <1>5, <2>1, <2>2 DEF HandoffFails, TypeOK, env
<1>6. CASE Dispatch(p)
  <2>1. pc' \in [Proc -> Steps]
    BY <1>6, GotoTyped DEF Dispatch, Steps
  <2> QED BY <1>6, <2>1 DEF Dispatch, TypeOK, env
<1> QED BY <1>1, <1>2, <1>3, <1>4, <1>5, <1>6 DEF HandoffStep

(* No step of a publication worker leaves the types.                         *)
LEMMA WorkersTyped ==
  ASSUME TypeOK, NEW w \in Proc, WorkerStart(w) \/ WorkerStep(w) PROVE TypeOK'
<1>1. CASE WorkerStart(w)
  <2>1. pc' \in [Proc -> Steps]
    BY <1>1, GotoTyped DEF WorkerStart, Steps, ResumeBooked
  <2>2. events' \in Nat
    BY <1>1 DEF WorkerStart, TypeOK
  <2> QED BY <1>1, <2>1, <2>2 DEF WorkerStart, TypeOK, env
<1>2. CASE WorkerClaim(w)
  <2>1. pc' \in [Proc -> Steps]
    BY <1>2, GotoTyped DEF WorkerClaim, Steps
  <2>2. row' \in Row
    BY <1>2, StatementsKeepRow DEF WorkerClaim, TypeOK
  <2>3. mem' \in [Proc -> [kind : Kinds, flag : BOOLEAN, tries : 0..Offsets]]
    BY <1>2, BoundAssumption DEF WorkerClaim, TypeOK, Row
  <2> QED BY <1>2, <2>1, <2>2, <2>3 DEF WorkerClaim, TypeOK, env
<1>3. CASE WorkerReread(w)
  <2>1. pc' \in [Proc -> Steps]
    BY <1>3, GotoTyped DEF WorkerReread, Steps, ResumeBooked
  <2>2. mem' \in [Proc -> [kind : Kinds, flag : BOOLEAN, tries : 0..Offsets]]
    <3>1. mem' = mem \/ mem' = [mem EXCEPT ![w].flag = FALSE]
      BY <1>3 DEF WorkerReread
    <3>2. CASE mem' = mem
      BY <3>2 DEF TypeOK
    <3>3. CASE mem' = [mem EXCEPT ![w].flag = FALSE]
      BY <3>3 DEF TypeOK
    <3> QED BY <3>1, <3>2, <3>3
  <2> QED BY <1>3, <2>1, <2>2 DEF WorkerReread, TypeOK, env
<1>4. CASE WorkerPublishClaim(w)
  <2>1. pc' \in [Proc -> Steps]
    BY <1>4, GotoTyped DEF WorkerPublishClaim, Steps
  <2>2. row' \in Row
    BY <1>4, StatementsKeepRow DEF WorkerPublishClaim, TypeOK
  <2> QED BY <1>4, <2>1, <2>2 DEF WorkerPublishClaim, TypeOK, env
<1>5. CASE WorkerPublish(w)
  <2>1. pc' \in [Proc -> Steps]
    BY <1>5, GotoTyped DEF WorkerPublish, Steps
  <2>2. roller' \in [paid : BOOLEAN, publishes : Nat]
    <3>1. roller.paid \in BOOLEAN /\ roller.publishes + 1 \in Nat
      BY DEF TypeOK
    <3>2. {TRUE, roller.paid} \subseteq BOOLEAN /\ {roller.publishes + 1} \subseteq Nat
      BY <3>1
    <3>3. roller' \in [paid : {TRUE, roller.paid}, publishes : {roller.publishes + 1}]
      BY <1>5 DEF WorkerPublish
    <3> HIDE DEF TypeOK
    <3> QED BY <3>2, <3>3
  <2> QED BY <1>5, <2>1, <2>2 DEF WorkerPublish, TypeOK, env
<1>6. CASE WorkerPublishResult(w)
  <2>1. pc' \in [Proc -> Steps]
    BY <1>6, GotoTyped DEF WorkerPublishResult, Steps
  <2>2. row' \in Row
    BY <1>6, StatementsKeepRow DEF WorkerPublishResult, TypeOK
  <2> QED BY <1>6, <2>1, <2>2 DEF WorkerPublishResult, TypeOK, env
<1>7. CASE WorkerReadback(w)
  <2>1. pc' \in [Proc -> Steps]
    BY <1>7, GotoTyped DEF WorkerReadback, Steps
  <2>2. row' \in Row
    BY <1>7, StatementsKeepRow DEF WorkerReadback, TypeOK
  <2>3. mem' \in [Proc -> [kind : Kinds, flag : BOOLEAN, tries : 0..Offsets]]
    BY <1>7, BoundAssumption DEF WorkerReadback, TypeOK
  <2> QED BY <1>7, <2>1, <2>2, <2>3 DEF WorkerReadback, TypeOK, env
<1> QED BY <1>1, <1>2, <1>3, <1>4, <1>5, <1>6, <1>7 DEF WorkerStep

(* No step that attaches the booking leaves the types.                       *)
LEMMA AttachTyped ==
  ASSUME TypeOK, NEW p \in Proc, AttachStep(p) PROVE TypeOK'
<1>1. CASE Snapshot(p)
  <2>1. pc' \in [Proc -> Steps]
    BY <1>1, GotoTyped DEF Snapshot, Steps
  <2> QED BY <1>1, <2>1 DEF Snapshot, TypeOK, env
<1>2. CASE Repair(p)
  <2>1. pc' \in [Proc -> Steps]
    BY <1>2, GotoTyped DEF Repair, Steps
  <2> QED BY <1>2, <2>1 DEF Repair, TypeOK, env
<1>3. CASE ConfirmHandoff(p)
  <2>1. pc' \in [Proc -> Steps]
    BY <1>3, GotoTyped DEF ConfirmHandoff, Steps
  <2>2. row' \in Row
    BY <1>3, StatementsKeepRow DEF ConfirmHandoff, TypeOK
  <2> QED BY <1>3, <2>1, <2>2 DEF ConfirmHandoff, TypeOK, env, Sync
<1>4. CASE RequestAutoCheckin(p)
  <2>1. pc' \in [Proc -> Steps]
    BY <1>4, GotoTyped DEF RequestAutoCheckin, Steps
  <2> QED BY <1>4, <2>1 DEF RequestAutoCheckin, TypeOK, env
<1>5. CASE MarkNeedsStaff(p)
  <2>1. pc' \in [Proc -> Steps]
    BY <1>5, GotoTyped DEF MarkNeedsStaff, Steps
  <2>2. row' \in Row
    BY <1>5, StatementsKeepRow DEF MarkNeedsStaff, TypeOK
  <2> QED BY <1>5, <2>1, <2>2 DEF MarkNeedsStaff, TypeOK, env, Sync
<1> QED BY <1>1, <1>2, <1>3, <1>4, <1>5 DEF AttachStep

(* No step of a webhook or a lookup leaves the types.                        *)
LEMMA SignalsTyped ==
  ASSUME TypeOK, NEW s \in Proc, SignalStore(s) \/ SignalStep(s) PROVE TypeOK'
<1>1. CASE SignalStore(s)
  <2>1. pc' \in [Proc -> Steps]
    BY <1>1, GotoTyped DEF SignalStore, Steps
  <2> QED BY <1>1, <2>1 DEF SignalStore, TypeOK, env
<1>2. CASE SignalReconcile(s)
  <2>1. pc' \in [Proc -> Steps]
    BY <1>2, GotoTyped DEF SignalReconcile, Steps
  <2>2. row' \in Row
    BY <1>2, StatementsKeepRow DEF SignalReconcile, TypeOK
  <2> QED BY <1>2, <2>1, <2>2 DEF SignalReconcile, TypeOK, env
<1>3. CASE SignalSelect(s)
  <2>1. pc' \in [Proc -> Steps]
    BY <1>3, GotoTyped DEF SignalSelect, Steps
  <2> QED BY <1>3, <2>1 DEF SignalSelect, TypeOK, env
<1> QED BY <1>1, <1>2, <1>3 DEF SignalStep

(* No step of a staff resolution leaves the types.                           *)
LEMMA StaffTyped ==
  ASSUME TypeOK, NEW u \in Proc,
         StaffStep(u) \/ \E d \in {"no_payment", "paid"} : StaffRead(u, d)
  PROVE  TypeOK'
<1>1. ASSUME NEW d \in {"no_payment", "paid"}, StaffRead(u, d) PROVE TypeOK'
  <2>1. pc' \in [Proc -> Steps]
    BY <1>1, GotoTyped DEF StaffRead, Steps
  <2>2. mem' \in [Proc -> [kind : Kinds, flag : BOOLEAN, tries : 0..Offsets]]
    BY <1>1 DEF StaffRead, TypeOK, Kinds, Unresolved
  <2> QED BY <1>1, <2>1, <2>2 DEF StaffRead, TypeOK, env
<1>2. CASE StaffEvidence(u)
  <2>1. pc' \in [Proc -> Steps]
    BY <1>2, GotoTyped DEF StaffEvidence, Steps
  <2> QED BY <1>2, <2>1 DEF StaffEvidence, TypeOK, env
<1>3. CASE StaffRelease(u)
  <2>1. pc' \in [Proc -> Steps]
    BY <1>3, GotoTyped DEF StaffRelease, Steps
  <2>2. row' \in Row
    <3>1. Cached \in BOOLEAN /\ (age >= 1) \in BOOLEAN /\ row \in Row
      BY DEF Cached, TypeOK
    <3>2. row' = ReleaseByStaff(row, Cached, age >= 1)
      BY <1>3 DEF StaffRelease
    <3> QED BY <3>1, <3>2, StatementsKeepRow
  <2> QED BY <1>3, <2>1, <2>2 DEF StaffRelease, TypeOK, env
<1>4. CASE StaffApprove(u)
  <2>1. pc' \in [Proc -> Steps]
    BY <1>4, GotoTyped DEF StaffApprove, Steps
  <2>2. row' \in Row
    BY <1>4, StatementsKeepRow DEF StaffApprove, TypeOK
  <2> QED BY <1>4, <2>1, <2>2 DEF StaffApprove, TypeOK, env
<1> QED BY <1>1, <1>2, <1>3, <1>4 DEF StaffStep

(* No step of a request that takes the keys over leaves the types.           *)
LEMMA RivalsTyped ==
  ASSUME TypeOK, NEW r \in Proc, RivalStep(r) \/ \E rep \in BOOLEAN : RivalRead(r, rep)
  PROVE  TypeOK'
<1>1. ASSUME NEW rep \in BOOLEAN, RivalRead(r, rep) PROVE TypeOK'
  <2>1. pc' \in [Proc -> Steps]
    BY <1>1, GotoTyped DEF RivalRead, Steps
  <2>2. mem' \in [Proc -> [kind : Kinds, flag : BOOLEAN, tries : 0..Offsets]]
    BY <1>1 DEF RivalRead, TypeOK
  <2> QED BY <1>1, <2>1, <2>2 DEF RivalRead, TypeOK, env
<1>2. CASE RivalEvidence(r)
  <2>1. pc' \in [Proc -> Steps]
    BY <1>2, GotoTyped DEF RivalEvidence, Steps
  <2> QED BY <1>2, <2>1 DEF RivalEvidence, TypeOK, env
<1>3. CASE RivalRelease(r)
  <2>1. pc' \in [Proc -> Steps]
    BY <1>3, GotoTyped DEF RivalRelease, Steps
  <2>2. row' \in Row
    BY <1>3, StatementsKeepRow DEF RivalRelease, TypeOK, Cached
  <2> QED BY <1>3, <2>1, <2>2 DEF RivalRelease, TypeOK, env
<1> QED BY <1>1, <1>2, <1>3 DEF RivalStep

(* No crash leaves the types.                                                *)
LEMMA CrashTyped ==
  ASSUME TypeOK, NEW p \in Proc, Crash(p) PROVE TypeOK'
<1>1. pc' \in [Proc -> Steps]
  BY GotoTyped DEF Crash, Steps
<1>2. faults' \in 0..MaxFaults
  BY BoundAssumption DEF Crash, TypeOK
<1> QED BY <1>1, <1>2 DEF Crash, TypeOK, env

(* TypeOK is inductive by itself.                                            *)
LEMMA NextTyped == TypeOK /\ [Next]_vars => TypeOK'
<1> SUFFICES ASSUME TypeOK, [Next]_vars PROVE TypeOK'
  OBVIOUS
<1>1. CASE UNCHANGED vars
  BY <1>1 DEF vars, TypeOK
<1>2. CASE Outside
  BY <1>2, OutsideTyped
<1>3. ASSUME NEW p \in Proc, Arrive(p) \/ Continue(p) \/ HandoffFails(p) \/ Crash(p)
      PROVE  TypeOK'
  <2>1. CASE Arrive(p)
    BY <2>1, CallersTyped, WorkersTyped, SignalsTyped, StaffTyped, RivalsTyped DEF Arrive
  <2>2. CASE Continue(p)
    BY <2>2, HandoffTyped, WorkersTyped, AttachTyped, SignalsTyped, StaffTyped, RivalsTyped
       DEF Continue
  <2> QED BY <1>3, <2>1, <2>2, HandoffTyped, CrashTyped
<1> QED BY <1>1, <1>2, <1>3 DEF Next

(* Every reachable state is well typed: every SQL statement leaves its       *)
(* columns within the values the code and its CHECK constraints know.        *)
THEOREM TypeCorrect == Spec => []TypeOK
<1>1. Init => TypeOK
  BY InitTyped
<1>2. TypeOK /\ [Next]_vars => TypeOK'
  BY NextTyped
<1> QED BY <1>1, <1>2, PTL DEF Spec

-----------------------------------------------------------------------------
(* What a step does: four kinds of steps touch the publish, confirm the      *)
(* handoff or start the check-in, every other step runs at most one other    *)
(* statement.                                                                *)

Ready == session.sync = "confirmed"

Ordinary ==
  /\ roller'.publishes = roller.publishes
  /\ roller.paid => roller'.paid
  /\ admissions' = admissions
  /\ \A w \in Proc : /\ pc'[w] = "publish" => pc[w] = "publish"
                     /\ pc'[w] = "admit" => pc[w] = "admit"
  /\ session'.attached = session.attached
  /\ Ready' = Ready \/ (row' = row /\ ~Ready')
  /\ Statement(row, row')

(* No step of the provider, the clock or another system here publishes,      *)
(* admits or attaches: each is Ordinary.                                     *)
LEMMA OutsideOrdinary == TypeOK /\ Outside => Ordinary
BY DEF Outside, DraftArrives, TerminalDecides, RollerBooks, Tick, LeaseExpires, TypeOK, Ordinary,
       Ready, Statement, env

(* No step of a terminal result call here publishes, admits or attaches:     *)
(* each is Ordinary.                                                         *)
LEMMA CallersOrdinary ==
  ASSUME TypeOK, NEW p \in Proc, CallerStep(p)
  PROVE  Ordinary
<1> USE DEF Ordinary, Goto, TypeOK, env, Ready, Statement
<1>1. ASSUME NEW o \in Outcome, NEW t \in BOOLEAN, FinalizeResult(p, o, t) PROVE Ordinary
  BY <1>1 DEF FinalizeResult
<1>2. CASE FinalizeStatus(p)
  BY <1>2 DEF FinalizeStatus
<1> QED BY <1>1, <1>2 DEF CallerStep

(* No step of the handoff here publishes, admits or attaches: each is        *)
(* Ordinary.                                                                 *)
LEMMA HandoffOrdinary ==
  ASSUME TypeOK, NEW p \in Proc, HandoffStep(p) \/ HandoffFails(p) \/ Dispatch(p)
  PROVE  Ordinary
<1> USE DEF Ordinary, Goto, TypeOK, env, Ready, Statement, AfterHandoff
<1>1. CASE HandoffRead(p)
  BY <1>1 DEF HandoffRead
<1>2. CASE HandoffBooking(p)
  BY <1>2 DEF HandoffBooking
<1>3. CASE HandoffToken(p)
  BY <1>3 DEF HandoffToken
<1>4. CASE HandoffSession(p)
  BY <1>4 DEF HandoffSession
<1>5. CASE HandoffFails(p)
  BY <1>5 DEF HandoffFails
<1>6. CASE Dispatch(p)
  BY <1>6 DEF Dispatch
<1> QED BY <1>1, <1>2, <1>3, <1>4, <1>5, <1>6 DEF HandoffStep

(* No step of a publication worker here publishes, admits or attaches: each  *)
(* is Ordinary.                                                              *)
LEMMA WorkersOrdinary ==
  ASSUME TypeOK, NEW w \in Proc, WorkerStart(w) \/ WorkerClaim(w) \/ WorkerReread(w)
              \/ WorkerPublishResult(w) \/ WorkerReadback(w)
  PROVE  Ordinary
<1> USE DEF Ordinary, Goto, TypeOK, env, Ready, Statement, ResumeBooked
<1>1. CASE WorkerStart(w)
  BY <1>1 DEF WorkerStart
<1>2. CASE WorkerClaim(w)
  BY <1>2 DEF WorkerClaim
<1>3. CASE WorkerReread(w)
  BY <1>3 DEF WorkerReread
<1>4. CASE WorkerPublishResult(w)
  BY <1>4 DEF WorkerPublishResult
<1>5. CASE WorkerReadback(w)
  BY <1>5 DEF WorkerReadback
<1> QED BY <1>1, <1>2, <1>3, <1>4, <1>5

(* No step that attaches the booking here publishes, admits or attaches:     *)
(* each is Ordinary.                                                         *)
LEMMA AttachOrdinary ==
  ASSUME TypeOK, NEW p \in Proc, Snapshot(p) \/ Repair(p) \/ MarkNeedsStaff(p)
  PROVE  Ordinary
<1> USE DEF Ordinary, Goto, TypeOK, env, Ready, Statement
<1>1. CASE Snapshot(p)
  BY <1>1 DEF Snapshot
<1>2. CASE Repair(p)
  BY <1>2 DEF Repair
<1>3. CASE MarkNeedsStaff(p)
  BY <1>3 DEF MarkNeedsStaff
<1> QED BY <1>1, <1>2, <1>3

(* No step of a webhook or a lookup here publishes, admits or attaches: each *)
(* is Ordinary.                                                              *)
LEMMA SignalsOrdinary ==
  ASSUME TypeOK, NEW s \in Proc, SignalStore(s) \/ SignalStep(s)
  PROVE  Ordinary
<1> USE DEF Ordinary, Goto, TypeOK, env, Ready, Statement
<1>1. CASE SignalStore(s)
  BY <1>1 DEF SignalStore
<1>2. CASE SignalReconcile(s)
  BY <1>2 DEF SignalReconcile
<1>3. CASE SignalSelect(s)
  BY <1>3 DEF SignalSelect
<1> QED BY <1>1, <1>2, <1>3 DEF SignalStep

(* No step of a staff resolution here publishes, admits or attaches: each is *)
(* Ordinary.                                                                 *)
LEMMA StaffOrdinary ==
  ASSUME TypeOK, NEW u \in Proc, StaffStep(u) \/ \E d \in {"no_payment", "paid"} : StaffRead(u, d)
  PROVE  Ordinary
<1> USE DEF Ordinary, Goto, TypeOK, env, Ready, Statement
<1>1. ASSUME NEW d \in {"no_payment", "paid"}, StaffRead(u, d) PROVE Ordinary
  BY <1>1 DEF StaffRead
<1>2. CASE StaffEvidence(u)
  BY <1>2 DEF StaffEvidence
<1>3. CASE StaffRelease(u)
  <2>1. Cached \in BOOLEAN /\ (age >= 1) \in BOOLEAN
    BY DEF Cached
  <2>2. row' = ReleaseByStaff(row, Cached, age >= 1)
    BY <1>3 DEF StaffRelease
  <2>3. Statement(row, row')
    BY <2>1, <2>2
  <2> HIDE DEF Statement
  <2> QED BY <1>3, <2>3 DEF StaffRelease
<1>4. CASE StaffApprove(u)
  BY <1>4 DEF StaffApprove
<1> QED BY <1>1, <1>2, <1>3, <1>4 DEF StaffStep

(* No step of a request that takes the keys over here publishes, admits or   *)
(* attaches: each is Ordinary.                                               *)
LEMMA RivalsOrdinary ==
  ASSUME TypeOK, NEW r \in Proc, RivalStep(r) \/ \E rep \in BOOLEAN : RivalRead(r, rep)
  PROVE  Ordinary
<1> USE DEF Ordinary, Goto, TypeOK, env, Ready, Statement
<1>1. ASSUME NEW rep \in BOOLEAN, RivalRead(r, rep) PROVE Ordinary
  BY <1>1 DEF RivalRead
<1>2. CASE RivalEvidence(r)
  BY <1>2 DEF RivalEvidence
<1>3. CASE RivalRelease(r)
  BY <1>3 DEF RivalRelease, Cached
<1> QED BY <1>1, <1>2, <1>3 DEF RivalStep

(* No crash here publishes, admits or attaches: each is Ordinary.            *)
LEMMA CrashOrdinary ==
  ASSUME TypeOK, NEW p \in Proc, Crash(p) PROVE Ordinary
BY DEF Crash, Ordinary, Goto, TypeOK, Ready, Statement, env

(* Every step is Ordinary or one of the four that the next proofs look into. *)
LEMMA StepCases ==
  ASSUME TypeOK, [Next]_vars
  PROVE  \/ Ordinary
         \/ \E p \in Proc : \/ WorkerPublishClaim(p) \/ WorkerPublish(p)
                           \/ ConfirmHandoff(p) \/ RequestAutoCheckin(p)
<1>1. CASE UNCHANGED vars
  BY <1>1 DEF vars, Ordinary, Ready, Statement
<1>2. CASE Outside
  BY <1>2, OutsideOrdinary
<1>3. ASSUME NEW p \in Proc, Arrive(p) \/ Continue(p) \/ HandoffFails(p) \/ Crash(p),
             ~(\/ WorkerPublishClaim(p) \/ WorkerPublish(p)
               \/ ConfirmHandoff(p) \/ RequestAutoCheckin(p))
      PROVE  Ordinary
  <2>1. CASE Arrive(p)
    BY <2>1, CallersOrdinary, WorkersOrdinary, SignalsOrdinary, StaffOrdinary, RivalsOrdinary
       DEF Arrive
  <2>2. CASE Continue(p)
    BY <1>3, <2>2, HandoffOrdinary, WorkersOrdinary, AttachOrdinary, SignalsOrdinary,
       StaffOrdinary, RivalsOrdinary DEF Continue, WorkerStep, AttachStep
  <2> QED BY <1>3, <2>1, <2>2, HandoffOrdinary, CrashOrdinary
<1> QED BY <1>1, <1>2, <1>3 DEF Next

-----------------------------------------------------------------------------
(* Theorems.                                                                 *)

(* Every step keeps what Kept names.                                         *)
LEMMA KeptStep == TypeOK /\ [Next]_vars => Kept
<1> SUFFICES ASSUME TypeOK, [Next]_vars PROVE Kept
  BY DEF Kept
<1>0. row \in Row
  BY DEF TypeOK
<1>1. CASE Ordinary
  BY <1>0, <1>1, StatementLifecycle DEF Ordinary, KeptIn, Kept
<1>2. ASSUME NEW p \in Proc, WorkerPublishClaim(p) PROVE Kept
  BY <1>0, <1>2 DEF WorkerPublishClaim, TakePublish, Kept, Paid, Published, Row
<1>3. ASSUME NEW p \in Proc, WorkerPublish(p) PROVE Kept
  BY <1>3 DEF WorkerPublish, Kept, Paid, Published
<1>4. ASSUME NEW p \in Proc, ConfirmHandoff(p) PROVE Kept
  BY <1>0, <1>4 DEF ConfirmHandoff, Confirm, Kept, Paid, Published, Row
<1>5. ASSUME NEW p \in Proc, RequestAutoCheckin(p) PROVE Kept
  BY <1>5 DEF RequestAutoCheckin, Kept, Paid, Published
<1> QED BY <1>1, <1>2, <1>3, <1>4, <1>5, StepCases

(* No step of any handler, in any interleaving, takes back an approval, a    *)
(* booking, the publish claim or the booking reference.                      *)
THEOREM Kept_Always == Spec => NothingTakenBack
<1>1. TypeOK /\ [Next]_vars => [Kept]_row
  BY KeptStep
<1> QED BY <1>1, TypeCorrect, PTL DEF Spec, NothingTakenBack

(* The inductive invariant behind PublishedOnce: whoever is about to publish *)
(* took the claim, is alone, and comes first.                                *)
PublishClaimed ==
  /\ roller.publishes <= 1
  /\ roller.publishes > 0 => row.pub /\ Paid(row)
  /\ \A w \in Proc : pc[w] = "publish" =>
       /\ row.pub /\ Paid(row) /\ roller.publishes = 0
       /\ \A v \in Proc : pc[v] = "publish" => v = w

(* PublishClaimed is inductive: only a worker that took the claim gets to    *)
(* publish.                                                                  *)
LEMMA PublishClaimedStep == TypeOK /\ PublishClaimed /\ [Next]_vars => PublishClaimed'
<1> SUFFICES ASSUME TypeOK, PublishClaimed, [Next]_vars PROVE PublishClaimed'
  OBVIOUS
<1>0. row \in Row /\ roller.publishes \in Nat
  BY DEF TypeOK
<1>1. CASE Ordinary
  <2>1. KeptIn(row, row')
    BY <1>0, <1>1, StatementLifecycle DEF Ordinary
  <2> QED BY <1>1, <2>1 DEF Ordinary, PublishClaimed, KeptIn
<1>2. ASSUME NEW p \in Proc, WorkerPublishClaim(p) PROVE PublishClaimed'
  <2>1. CASE PublishFree(row)
    <3>1. ~row.pub /\ roller.publishes = 0 /\ \A w \in Proc : pc[w] # "publish"
      BY <1>0, <2>1 DEF PublishFree, PublishClaimed
    <3>2. row'.pub /\ Paid(row') /\ roller' = roller
      BY <1>0, <1>2, <2>1 DEF WorkerPublishClaim, TakePublish, PublishFree, Paid, Row, env
    <3>3. \A w \in Proc : pc'[w] = "publish" => w = p
      BY <1>2, <2>1, <3>1 DEF WorkerPublishClaim, Goto, TypeOK
    <3> QED BY <3>1, <3>2, <3>3 DEF PublishClaimed
  <2>2. CASE ~PublishFree(row)
    BY <1>2, <2>2 DEF WorkerPublishClaim, PublishClaimed, Goto, TypeOK, env
  <2> QED BY <2>1, <2>2
<1>3. ASSUME NEW p \in Proc, WorkerPublish(p) PROVE PublishClaimed'
  <2>1. row' = row /\ row.pub /\ Paid(row) /\ roller'.publishes = 1
    BY <1>0, <1>3 DEF WorkerPublish, PublishClaimed, At
  <2>2. \A w \in Proc : pc'[w] # "publish"
    BY <1>3 DEF WorkerPublish, PublishClaimed, At, Goto, TypeOK
  <2> QED BY <2>1, <2>2 DEF PublishClaimed
<1>4. ASSUME NEW p \in Proc, ConfirmHandoff(p) PROVE PublishClaimed'
  <2>1. (row.pub => row'.pub) /\ (Paid(row) => Paid(row')) /\ roller' = roller
    BY <1>0, <1>4 DEF ConfirmHandoff, Confirm, Paid, Row, env
  <2>2. \A w \in Proc : pc'[w] = "publish" => pc[w] = "publish"
    BY <1>4 DEF ConfirmHandoff, Goto, TypeOK
  <2> QED BY <2>1, <2>2 DEF PublishClaimed
<1>5. ASSUME NEW p \in Proc, RequestAutoCheckin(p) PROVE PublishClaimed'
  BY <1>5 DEF RequestAutoCheckin, PublishClaimed, Goto, TypeOK, env
<1> QED BY <1>1, <1>2, <1>3, <1>4, <1>5, StepCases

(* PublishClaimed holds in every reachable state.                            *)
LEMMA PublishClaimedAlways == Spec => []PublishClaimed
<1>1. Init => PublishClaimed
  BY DEF Init, PublishClaimed
<1> QED BY <1>1, PublishClaimedStep, TypeCorrect, PTL DEF Spec

(* However many workers run and whichever of them die, at most one publish   *)
(* call with the payment is made for the attempt.                            *)
THEOREM PublishedOnce_Always == Spec => []PublishedOnce
<1>1. PublishClaimed => PublishedOnce
  BY DEF PublishClaimed, PublishedOnce
<1> QED BY <1>1, PublishClaimedAlways, PTL

-----------------------------------------------------------------------------
(* The refinement.                                                           *)

(* The flags of the stored row agree in every reachable state.               *)
LEMMA AgreeAlways == Spec => []Agree(row)
<1>1. Init => Agree(row)
  BY DEF Init, NewRow, Agree
<1>2. TypeOK /\ Agree(row) /\ [Next]_vars => Agree(row)'
  <2> SUFFICES ASSUME TypeOK, Agree(row), [Next]_vars PROVE Agree(row')
    OBVIOUS
  <2>0. row \in Row
    BY DEF TypeOK
  <2>1. CASE Ordinary
    BY <2>0, <2>1, StatementLifecycle DEF Ordinary
  <2>2. ASSUME NEW p \in Proc, WorkerPublishClaim(p) PROVE Agree(row')
    BY <2>0, <2>2 DEF WorkerPublishClaim, TakePublish, Agree, Published, Row
  <2>3. ASSUME NEW p \in Proc, WorkerPublish(p) PROVE Agree(row')
    BY <2>3 DEF WorkerPublish
  <2>4. ASSUME NEW p \in Proc, ConfirmHandoff(p) PROVE Agree(row')
    BY <2>0, <2>4 DEF ConfirmHandoff, Confirm, Agree, Published, Row
  <2>5. ASSUME NEW p \in Proc, RequestAutoCheckin(p) PROVE Agree(row')
    BY <2>5 DEF RequestAutoCheckin
  <2> QED BY <2>1, <2>2, <2>3, <2>4, <2>5, StepCases
<1> QED BY <1>1, <1>2, TypeCorrect, PTL DEF Spec

(* Every step of the protocol is a step of the promise or invisible to it.   *)
LEMMA StepKeepsPromise ==
  ASSUME TypeOK, PublishClaimed, Agree(row), [Next]_vars
  PROVE  [Promise!Next]_(Promise!vars)
<1> USE DEF Promise!Next, Promise!vars
<1>0. row \in Row
  BY DEF TypeOK
<1>a. Lifecycle(row) = IF Published(row) THEN "booked"
                       ELSE IF Paid(row) THEN "paid"
                       ELSE IF row.attempt \in {"failed", "cancelled"} THEN "released" ELSE "open"
  BY DEF Lifecycle
<1>1. CASE Ordinary
  <2>1. MovesOn(Lifecycle(row), Lifecycle(row'))
    BY <1>0, <1>1, StatementLifecycle DEF Ordinary
  <2>2. CASE Ready' = Ready
    BY <1>1, <2>1, <2>2 DEF Ordinary, MovesOn, Lifecycle, Ready, Promise!Settle, Promise!Book
  <2>3. CASE row' = row /\ Ready /\ ~Ready'
    BY <1>1, <2>3 DEF Ordinary, Ready, Promise!Hold
  <2> QED BY <1>1, <2>2, <2>3 DEF Ordinary, Ready
<1>2. ASSUME NEW p \in Proc, WorkerPublishClaim(p) PROVE [Promise!Next]_(Promise!vars)
  <2>1. Lifecycle(row') = Lifecycle(row)
    BY <1>0, <1>2 DEF WorkerPublishClaim, TakePublish, Lifecycle, Published, Paid, Row
  <2> QED BY <1>2, <2>1 DEF WorkerPublishClaim, Lifecycle, env
<1>3. ASSUME NEW p \in Proc, WorkerPublish(p) PROVE [Promise!Next]_(Promise!vars)
  <2>1. Paid(row) /\ roller.publishes = 0 /\ roller'.publishes = 1
    BY <1>3 DEF WorkerPublish, PublishClaimed, At
  <2> QED BY <1>3, <2>1 DEF WorkerPublish, Promise!Record
<1>4. ASSUME NEW p \in Proc, ConfirmHandoff(p) PROVE [Promise!Next]_(Promise!vars)
  <2>1. CASE row' = row /\ session' = session
    BY <1>4, <2>1 DEF ConfirmHandoff, env
  <2>2. CASE Paid(row) /\ row' = Confirm(row) /\ session'.sync = "confirmed"
    <3>1. Published(row') /\ roller' = roller
      BY <1>0, <1>4, <2>2 DEF ConfirmHandoff, Confirm, Published, Row, env
    <3> QED BY <2>2, <3>1 DEF Promise!MakeReady
  <2> QED BY <1>4, <2>1, <2>2 DEF ConfirmHandoff, TypeOK
<1>5. ASSUME NEW p \in Proc, RequestAutoCheckin(p) PROVE [Promise!Next]_(Promise!vars)
  BY <1>5 DEF RequestAutoCheckin, env
<1> QED BY <1>1, <1>2, <1>3, <1>4, <1>5, StepCases

(* The whole protocol implements the promise made for one payment: what was  *)
(* approved is kept and ends booked, the payment is recorded at most once    *)
(* and only when approved, and staff see the handoff ready only when booked. *)
THEOREM PromiseImplemented == Spec => ImplementsPromise
<1>1. Init => Promise!Init
  BY DEF Init, NewRow, Promise!Init, Published, Paid
<1>2. TypeOK /\ PublishClaimed /\ Agree(row) /\ [Next]_vars => [Promise!Next]_(Promise!vars)
  BY StepKeepsPromise
<1> QED BY <1>1, <1>2, TypeCorrect, PublishClaimedAlways, AgreeAlways, PTL
       DEF Spec, ImplementsPromise, Promise!Spec

-----------------------------------------------------------------------------
(* Nothing reaches the session that ROLLER did not show as paid.             *)

(* Whoever is about to store or attach a booking has seen it paid: a live    *)
(* read cached it, the worker or the staff request read it.                  *)
Evidenced ==
  /\ cache = "authoritative" => roller.paid
  /\ \A p \in Proc :
       \/ pc[p] \in {"snapshot", "confirm", "reconcile", "select"}
       \/ p \in Staff /\ pc[p] \in {"approve", "handoffRead", "handoffBooking",
                                  "handoffToken", "handoffSession"}
       => roller.paid

(* No step of a terminal result call breaks the evidence it goes by.         *)
LEMMA CallersEvidenced ==
  ASSUME TypeOK, Evidenced, NEW p \in Proc,
         CallerStep(p)
  PROVE  Evidenced'
<1> USE ProcAssumption DEF Evidenced, Goto, At, TypeOK, env
<1>1. ASSUME NEW o \in Outcome, NEW t \in BOOLEAN, FinalizeResult(p, o, t) PROVE Evidenced'
  BY <1>1 DEF FinalizeResult
<1>2. CASE FinalizeStatus(p)
  BY <1>2 DEF FinalizeStatus
<1> QED BY <1>1, <1>2 DEF CallerStep

(* No step of the handoff breaks the evidence it goes by.                    *)
LEMMA HandoffEvidenced ==
  ASSUME TypeOK, Evidenced, NEW p \in Proc,
         HandoffStep(p) \/ HandoffFails(p) \/ Dispatch(p)
  PROVE  Evidenced'
<1> USE ProcAssumption DEF Evidenced, Goto, At, TypeOK, env, AfterHandoff
<1>1. CASE HandoffRead(p)
  BY <1>1 DEF HandoffRead
<1>2. CASE HandoffBooking(p)
  BY <1>2 DEF HandoffBooking
<1>3. CASE HandoffToken(p)
  BY <1>3 DEF HandoffToken
<1>4. CASE HandoffSession(p)
  BY <1>4 DEF HandoffSession
<1>5. CASE HandoffFails(p)
  BY <1>5 DEF HandoffFails
<1>6. CASE Dispatch(p)
  BY <1>6 DEF Dispatch
<1> QED BY <1>1, <1>2, <1>3, <1>4, <1>5, <1>6 DEF HandoffStep

(* No step of a publication worker breaks the evidence it goes by.           *)
LEMMA WorkersEvidenced ==
  ASSUME TypeOK, Evidenced, NEW w \in Proc,
         WorkerStart(w) \/ WorkerStep(w)
  PROVE  Evidenced'
<1> USE ProcAssumption DEF Evidenced, Goto, At, TypeOK, env, ResumeBooked
<1>1. CASE WorkerStart(w)
  BY <1>1 DEF WorkerStart
<1>2. CASE WorkerClaim(w)
  BY <1>2 DEF WorkerClaim
<1>3. CASE WorkerReread(w)
  BY <1>3 DEF WorkerReread
<1>4. CASE WorkerPublishClaim(w)
  BY <1>4 DEF WorkerPublishClaim
<1>5. CASE WorkerPublish(w)
  BY <1>5 DEF WorkerPublish
<1>6. CASE WorkerPublishResult(w)
  BY <1>6 DEF WorkerPublishResult
<1>7. CASE WorkerReadback(w)
  BY <1>7 DEF WorkerReadback
<1> QED BY <1>1, <1>2, <1>3, <1>4, <1>5, <1>6, <1>7 DEF WorkerStep

(* No step that attaches the booking breaks the evidence it goes by.         *)
LEMMA AttachEvidenced ==
  ASSUME TypeOK, Evidenced, NEW p \in Proc,
         AttachStep(p)
  PROVE  Evidenced'
<1> USE ProcAssumption DEF Evidenced, Goto, At, TypeOK, env
<1>1. CASE Snapshot(p)
  BY <1>1 DEF Snapshot
<1>2. CASE Repair(p)
  BY <1>2 DEF Repair
<1>3. CASE ConfirmHandoff(p)
  BY <1>3 DEF ConfirmHandoff
<1>4. CASE RequestAutoCheckin(p)
  BY <1>4 DEF RequestAutoCheckin
<1>5. CASE MarkNeedsStaff(p)
  BY <1>5 DEF MarkNeedsStaff
<1> QED BY <1>1, <1>2, <1>3, <1>4, <1>5 DEF AttachStep

(* No step of a webhook or a lookup breaks the evidence it goes by.          *)
LEMMA SignalsEvidenced ==
  ASSUME TypeOK, Evidenced, NEW s \in Proc,
         SignalStore(s) \/ SignalStep(s)
  PROVE  Evidenced'
<1> USE ProcAssumption DEF Evidenced, Goto, At, TypeOK, env
<1>1. CASE SignalStore(s)
  BY <1>1 DEF SignalStore
<1>2. CASE SignalReconcile(s)
  BY <1>2 DEF SignalReconcile
<1>3. CASE SignalSelect(s)
  BY <1>3 DEF SignalSelect
<1> QED BY <1>1, <1>2, <1>3 DEF SignalStep

(* No step of a staff resolution breaks the evidence it goes by.             *)
LEMMA StaffEvidenced ==
  ASSUME TypeOK, Evidenced, NEW u \in Proc,
         StaffStep(u) \/ \E d \in {"no_payment", "paid"} : StaffRead(u, d)
  PROVE  Evidenced'
<1> USE ProcAssumption DEF Evidenced, Goto, At, TypeOK, env
<1>1. ASSUME NEW d \in {"no_payment", "paid"}, StaffRead(u, d) PROVE Evidenced'
  BY <1>1 DEF StaffRead
<1>2. CASE StaffEvidence(u)
  BY <1>2 DEF StaffEvidence
<1>3. CASE StaffRelease(u)
  BY <1>3 DEF StaffRelease
<1>4. CASE StaffApprove(u)
  BY <1>4 DEF StaffApprove
<1> QED BY <1>1, <1>2, <1>3, <1>4 DEF StaffStep

(* No step of a request that takes the keys over breaks the evidence it goes *)
(* by.                                                                       *)
LEMMA RivalsEvidenced ==
  ASSUME TypeOK, Evidenced, NEW r \in Proc,
         RivalStep(r) \/ \E rep \in BOOLEAN : RivalRead(r, rep)
  PROVE  Evidenced'
<1> USE ProcAssumption DEF Evidenced, Goto, At, TypeOK, env
<1>1. ASSUME NEW rep \in BOOLEAN, RivalRead(r, rep) PROVE Evidenced'
  BY <1>1 DEF RivalRead
<1>2. CASE RivalEvidence(r)
  BY <1>2 DEF RivalEvidence
<1>3. CASE RivalRelease(r)
  BY <1>3 DEF RivalRelease
<1> QED BY <1>1, <1>2, <1>3 DEF RivalStep

(* Evidenced holds in every reachable state.                                 *)
LEMMA EvidencedAlways == Spec => []Evidenced
<1>1. Init => Evidenced
  BY DEF Init, Evidenced
<1>2. TypeOK /\ Evidenced /\ [Next]_vars => Evidenced'
  <2> SUFFICES ASSUME TypeOK, Evidenced, [Next]_vars PROVE Evidenced'
    OBVIOUS
  <2>1. CASE UNCHANGED vars
    BY <2>1 DEF vars, Evidenced
  <2>2. CASE Outside
    BY <2>2 DEF Outside, DraftArrives, TerminalDecides, RollerBooks, Tick, LeaseExpires,
                Evidenced, TypeOK, env
  <2>3. ASSUME NEW p \in Proc, Arrive(p) PROVE Evidenced'
    BY <2>3, CallersEvidenced, WorkersEvidenced, SignalsEvidenced, StaffEvidenced, RivalsEvidenced
       DEF Arrive
  <2>4. ASSUME NEW p \in Proc, Continue(p) PROVE Evidenced'
    BY <2>4, HandoffEvidenced, WorkersEvidenced, AttachEvidenced, SignalsEvidenced, StaffEvidenced,
       RivalsEvidenced DEF Continue
  <2>5. ASSUME NEW p \in Proc, Crash(p) PROVE Evidenced'
    BY <2>5 DEF Crash, Evidenced, Goto, TypeOK, env
  <2> QED BY <2>1, <2>2, <2>3, <2>4, <2>5, HandoffEvidenced DEF Next
<1> QED BY <1>1, <1>2, TypeCorrect, PTL DEF Spec

(* With the evidence, what a confirmed session and a requested check-in rest *)
(* on.                                                                       *)
Attachment ==
  /\ ReadyIsPaid
  /\ admissions > 0 \/ (\E p \in Proc : pc[p] = "admit") =>
       roller.paid /\ session.attached /\ row.attempt = "reconciled"

(* Attachment is inductive relative to Evidenced.                            *)
LEMMA AttachmentStep == TypeOK /\ Evidenced /\ Attachment /\ [Next]_vars => Attachment'
<1> SUFFICES ASSUME TypeOK, Evidenced, Attachment, [Next]_vars PROVE Attachment'
  OBVIOUS
<1> USE DEF Attachment, ReadyIsPaid
<1>0. row \in Row /\ admissions \in Nat
  BY DEF TypeOK
<1>1. CASE Ordinary
  <2>1. KeptIn(row, row')
    BY <1>0, <1>1, StatementLifecycle DEF Ordinary
  <2> QED BY <1>1, <2>1 DEF Ordinary, KeptIn, Ready
<1>2. ASSUME NEW p \in Proc, WorkerPublishClaim(p) PROVE Attachment'
  <2>1. /\ Published(row') = Published(row) /\ Paid(row') = Paid(row)
        /\ row'.ref = row.ref /\ row'.attempt = row.attempt
    BY <1>0, <1>2 DEF WorkerPublishClaim, TakePublish, Published, Paid, Row
  <2>2. \A w \in Proc : pc'[w] = "admit" => pc[w] = "admit"
    BY <1>2 DEF WorkerPublishClaim, Goto, TypeOK
  <2> QED BY <1>2, <2>1, <2>2 DEF WorkerPublishClaim, env
<1>3. ASSUME NEW p \in Proc, WorkerPublish(p) PROVE Attachment'
  <2>1. \A w \in Proc : pc'[w] = "admit" => pc[w] = "admit"
    BY <1>3 DEF WorkerPublish, Goto, TypeOK
  <2> QED BY <1>3, <2>1 DEF WorkerPublish, Published, Paid
<1>4. ASSUME NEW p \in Proc, ConfirmHandoff(p) PROVE Attachment'
  <2>1. CASE row' = Confirm(row) /\ session' = [session EXCEPT !.sync = "confirmed", !.attached = TRUE]
    <3>1. Published(row') /\ Paid(row') /\ row'.ref /\ row'.attempt = "reconciled"
      BY <1>0, <2>1 DEF Confirm, Published, Paid, Row
    <3>2. session'.attached
      BY <2>1 DEF TypeOK
    <3>3. roller.paid /\ roller' = roller
      BY <1>4 DEF ConfirmHandoff, Evidenced, At, env
    <3> QED BY <3>1, <3>2, <3>3
  <2>2. CASE UNCHANGED <<row, session>> /\ Goto(p, "needsStaff")
    <3>1. \A w \in Proc : pc'[w] = "admit" => pc[w] = "admit"
      BY <2>2 DEF Goto, TypeOK
    <3> QED BY <1>4, <2>2, <3>1 DEF ConfirmHandoff, env
  <2> QED BY <1>4, <2>1, <2>2 DEF ConfirmHandoff
<1>5. ASSUME NEW p \in Proc, RequestAutoCheckin(p) PROVE Attachment'
  <2>1. \A w \in Proc : pc'[w] = "admit" => pc[w] = "admit"
    BY <1>5 DEF RequestAutoCheckin, Goto, TypeOK
  <2> QED BY <1>0, <1>5, <2>1 DEF RequestAutoCheckin, At, env
<1> QED BY <1>1, <1>2, <1>3, <1>4, <1>5, StepCases

(* Attachment holds in every reachable state.                                *)
LEMMA AttachmentAlways == Spec => []Attachment
<1>1. Init => Attachment
  BY DEF Init, Attachment, ReadyIsPaid
<1> QED BY <1>1, AttachmentStep, TypeCorrect, EvidencedAlways, PTL DEF Spec

(* A confirmed session always carries a booking that ROLLER holds as paid    *)
(* and that the draft row records.                                           *)
THEOREM ReadyIsPaid_Always == Spec => []ReadyIsPaid
<1>1. Attachment => ReadyIsPaid
  BY DEF Attachment
<1> QED BY <1>1, AttachmentAlways, PTL

(* An automatic check-in is requested only for an attached, paid booking.    *)
THEOREM AdmittedIsBooked_Always == Spec => []AdmittedIsBooked
<1>1. Attachment => AdmittedIsBooked
  BY DEF Attachment, AdmittedIsBooked
<1> QED BY <1>1, AttachmentAlways, PTL

-----------------------------------------------------------------------------
(* No charge is released.                                                    *)

(* Whoever releases the attempt knows that the terminal took no money and    *)
(* never will: with the waits kept, an old attempt was decided, and ROLLER   *)
(* would show a charge.                                                      *)
NoMoney == terminal \in {"lost", "declined"}

Timely ==
  /\ age >= 1 => NoMoney \/ (terminal = "charged" /\ roller.paid)
  /\ \A p \in Proc :
       /\ pc[p] = "release" => NoMoney
       /\ p \in Staff /\ pc[p] = "evidence" /\ mem[p].kind = "no_payment" => age >= 1
       /\ p \in Rivals /\ pc[p] = "evidence" => age = 2 \/ terminal = "lost"
  /\ Failed(row) => NoMoney

(* No step of a terminal result call breaks Timely.                          *)
LEMMA CallersTimely ==
  ASSUME TypeOK, TimelyBooking, Timely, NEW p \in Proc,
         CallerStep(p)
  PROVE  Timely'
<1> USE ProcAssumption, StatementsFailing DEF Timely, NoMoney, Goto, At, TypeOK, env
<1>1. ASSUME NEW o \in Outcome, NEW t \in BOOLEAN, FinalizeResult(p, o, t) PROVE Timely'
  BY <1>1 DEF FinalizeResult, Reportable, Outcome
<1>2. CASE FinalizeStatus(p)
  BY <1>2 DEF FinalizeStatus
<1> QED BY <1>1, <1>2 DEF CallerStep

(* No step of the handoff breaks Timely.                                     *)
LEMMA HandoffTimely ==
  ASSUME TypeOK, TimelyBooking, Timely, NEW p \in Proc,
         HandoffStep(p) \/ HandoffFails(p) \/ Dispatch(p)
  PROVE  Timely'
<1> USE ProcAssumption, StatementsFailing DEF Timely, NoMoney, Goto, At, TypeOK, env, AfterHandoff
<1>1. CASE HandoffRead(p)
  BY <1>1 DEF HandoffRead
<1>2. CASE HandoffBooking(p)
  BY <1>2 DEF HandoffBooking
<1>3. CASE HandoffToken(p)
  BY <1>3 DEF HandoffToken
<1>4. CASE HandoffSession(p)
  BY <1>4 DEF HandoffSession
<1>5. CASE HandoffFails(p)
  BY <1>5 DEF HandoffFails
<1>6. CASE Dispatch(p)
  BY <1>6 DEF Dispatch
<1> QED BY <1>1, <1>2, <1>3, <1>4, <1>5, <1>6 DEF HandoffStep

(* No step of a publication worker breaks Timely.                            *)
LEMMA WorkersTimely ==
  ASSUME TypeOK, TimelyBooking, Timely, NEW w \in Proc,
         WorkerStart(w) \/ WorkerStep(w)
  PROVE  Timely'
<1> USE ProcAssumption, StatementsFailing DEF Timely, NoMoney, Goto, At, TypeOK, env, ResumeBooked
<1>1. CASE WorkerStart(w)
  BY <1>1 DEF WorkerStart
<1>2. CASE WorkerClaim(w)
  BY <1>2 DEF WorkerClaim
<1>3. CASE WorkerReread(w)
  BY <1>3 DEF WorkerReread
<1>4. CASE WorkerPublishClaim(w)
  BY <1>4 DEF WorkerPublishClaim
<1>5. CASE WorkerPublish(w)
  BY <1>5 DEF WorkerPublish
<1>6. CASE WorkerPublishResult(w)
  BY <1>6 DEF WorkerPublishResult
<1>7. CASE WorkerReadback(w)
  BY <1>7 DEF WorkerReadback
<1> QED BY <1>1, <1>2, <1>3, <1>4, <1>5, <1>6, <1>7 DEF WorkerStep

(* No step that attaches the booking breaks Timely.                          *)
LEMMA AttachTimely ==
  ASSUME TypeOK, TimelyBooking, Timely, NEW p \in Proc,
         AttachStep(p)
  PROVE  Timely'
<1> USE ProcAssumption, StatementsFailing DEF Timely, NoMoney, Goto, At, TypeOK, env
<1>1. CASE Snapshot(p)
  BY <1>1 DEF Snapshot
<1>2. CASE Repair(p)
  BY <1>2 DEF Repair
<1>3. CASE ConfirmHandoff(p)
  BY <1>3 DEF ConfirmHandoff
<1>4. CASE RequestAutoCheckin(p)
  BY <1>4 DEF RequestAutoCheckin
<1>5. CASE MarkNeedsStaff(p)
  BY <1>5 DEF MarkNeedsStaff
<1> QED BY <1>1, <1>2, <1>3, <1>4, <1>5 DEF AttachStep

(* No step of a webhook or a lookup breaks Timely.                           *)
LEMMA SignalsTimely ==
  ASSUME TypeOK, TimelyBooking, Timely, NEW s \in Proc,
         SignalStore(s) \/ SignalStep(s)
  PROVE  Timely'
<1> USE ProcAssumption, StatementsFailing DEF Timely, NoMoney, Goto, At, TypeOK, env
<1>1. CASE SignalStore(s)
  BY <1>1 DEF SignalStore
<1>2. CASE SignalReconcile(s)
  BY <1>2 DEF SignalReconcile
<1>3. CASE SignalSelect(s)
  BY <1>3 DEF SignalSelect
<1> QED BY <1>1, <1>2, <1>3 DEF SignalStep

(* No step of a staff resolution breaks Timely.                              *)
LEMMA StaffTimely ==
  ASSUME TypeOK, TimelyBooking, Timely, NEW u \in Proc,
         StaffStep(u) \/ \E d \in {"no_payment", "paid"} : StaffRead(u, d)
  PROVE  Timely'
<1> USE ProcAssumption, StatementsFailing DEF Timely, NoMoney, Goto, At, TypeOK, env
<1>1. ASSUME NEW d \in {"no_payment", "paid"}, StaffRead(u, d) PROVE Timely'
  BY <1>1 DEF StaffRead
<1>2. CASE StaffEvidence(u)
  BY <1>2 DEF StaffEvidence
<1>3. CASE StaffRelease(u)
  BY <1>3 DEF StaffRelease
<1>4. CASE StaffApprove(u)
  BY <1>4 DEF StaffApprove
<1> QED BY <1>1, <1>2, <1>3, <1>4 DEF StaffStep

(* No step of a request that takes the keys over breaks Timely.              *)
LEMMA RivalsTimely ==
  ASSUME TypeOK, TimelyBooking, Timely, NEW r \in Proc,
         RivalStep(r) \/ \E rep \in BOOLEAN : RivalRead(r, rep)
  PROVE  Timely'
<1> USE ProcAssumption, StatementsFailing DEF Timely, NoMoney, Goto, At, TypeOK, env
<1>1. ASSUME NEW rep \in BOOLEAN, RivalRead(r, rep) PROVE Timely'
  BY <1>1 DEF RivalRead
<1>2. CASE RivalEvidence(r)
  BY <1>2 DEF RivalEvidence
<1>3. CASE RivalRelease(r)
  BY <1>3 DEF RivalRelease
<1> QED BY <1>1, <1>2, <1>3 DEF RivalStep

(* No step of the provider, the clock or another system breaks Timely.       *)
LEMMA OutsideTimely == TypeOK /\ TimelyBooking /\ Timely /\ Outside => Timely'
<1> SUFFICES ASSUME TypeOK, TimelyBooking, Timely, Outside PROVE Timely'
  OBVIOUS
<1> USE DEF Timely, NoMoney, TypeOK, env
<1>1. CASE DraftArrives
  BY <1>1 DEF DraftArrives
<1>2. CASE TerminalDecides
  BY <1>2 DEF TerminalDecides
<1>3. CASE RollerBooks
  BY <1>3 DEF RollerBooks
<1>4. CASE Tick
  BY <1>4 DEF Tick
<1>5. CASE LeaseExpires
  BY <1>5 DEF LeaseExpires, Failed, Row
<1> QED BY <1>1, <1>2, <1>3, <1>4, <1>5 DEF Outside

(* Timely holds in every reachable state while the waits are kept.           *)
LEMMA TimelyAlways == Spec => [](TimelyBooking => Timely)
<1>1. Init => Timely
  BY DEF Init, NewRow, Timely, Failed
<1>2. TypeOK /\ (TimelyBooking => Timely) /\ [Next]_vars => (TimelyBooking => Timely)'
  <2> SUFFICES ASSUME TypeOK, TimelyBooking, Timely, [Next]_vars PROVE Timely'
    OBVIOUS
  <2>1. CASE UNCHANGED vars
    BY <2>1 DEF vars, Timely, NoMoney, Failed
  <2>2. CASE Outside
    BY <2>2, OutsideTimely
  <2>3. ASSUME NEW p \in Proc, Arrive(p) PROVE Timely'
    BY <2>3, CallersTimely, WorkersTimely, SignalsTimely, StaffTimely, RivalsTimely DEF Arrive
  <2>4. ASSUME NEW p \in Proc, Continue(p) PROVE Timely'
    BY <2>4, HandoffTimely, WorkersTimely, AttachTimely, SignalsTimely, StaffTimely, RivalsTimely
       DEF Continue
  <2>5. ASSUME NEW p \in Proc, Crash(p) PROVE Timely'
    BY <2>5 DEF Crash, Timely, NoMoney, Failed, Goto, TypeOK, env
  <2> QED BY <2>1, <2>2, <2>3, <2>4, <2>5, HandoffTimely DEF Next
<1> QED BY <1>1, <1>2, TypeCorrect, PTL DEF Spec

(* While terminal and ROLLER keep the waits of D0239 and D0286, no attempt   *)
(* whose card was charged is recorded as failed or cancelled.                *)
THEOREM NoChargeReleased_Always == Spec => []NoChargeReleased
<1>1. (TimelyBooking => Timely) => NoChargeReleased
  BY DEF Timely, NoMoney, Failed, NoChargeReleased
<1> QED BY <1>1, TimelyAlways, PTL
-----------------------------------------------------------------------------
(* An approved payment is not left behind.                                   *)

(* Who is about to hand the attempt to the worker, to staff, or to its       *)
(* booking: the worker from its claim on, whoever attaches the booking, and  *)
(* the request that recorded the approval.                                   *)
Resolving == {"reread", "publishClaim", "publish", "publishResult", "readback", "snapshot",
              "confirm", "needsStaff"}
Handing   == {"handoffRead", "handoffBooking", "handoffToken", "handoffSession"}
Carries(p) == \/ pc[p] \in Resolving \cup {"dispatch", "claim"}
              \/ pc[p] \in Handing /\ (p \in Staff \/ mem[p].kind = "result")

(* A worker that finds the lease taken ends, and leaves the attempt to the   *)
(* one that took it.                                                         *)
Carried ==
  /\ row.lease = "fresh" => Paid(row)
  /\ Awaiting(row) /\ faults = 0 =>
       /\ events > 0 \/ \E p \in Proc : Carries(p)
       /\ row.lease = "fresh" => \E w \in Proc : pc[w] \in Resolving

(* What a step of p must do for the attempt to stay in somebody's hands.     *)
Passes(p) ==
  /\ \A q \in Proc \ {p} : pc'[q] = pc[q] /\ mem'[q] = mem[q]
  /\ faults' = 0 => faults = 0
  /\ Awaiting(row') => Awaiting(row) \/ (~Paid(row) /\ Carries(p)')
  /\ row'.lease = "fresh" => row.lease = "fresh" \/ (Paid(row) /\ pc'[p] \in Resolving)
  /\ Awaiting(row) /\ Awaiting(row') /\ faults' = 0 =>
       /\ events > 0 => events' > 0 \/ Carries(p)'
       /\ pc[p] \in Resolving => pc'[p] \in Resolving
       /\ Carries(p) => \/ Carries(p)' \/ events' > 0
                        \/ row.lease = "fresh" /\ pc[p] \notin Resolving

(* Such a step leaves an approved payment in somebody's hands. *)
LEMMA PassedOn ==
  ASSUME TypeOK, [Next]_vars, Carried, NEW p \in Proc, Passes(p) PROVE Carried'
<1>1. Paid(row) => Paid(row')
  BY KeptStep DEF Kept
<1>2. row'.lease = "fresh" => Paid(row')
  BY <1>1 DEF Passes, Carried
<1>3. ASSUME Awaiting(row'), faults' = 0, ~Awaiting(row)
      PROVE  Carries(p)' /\ row'.lease # "fresh"
  BY <1>3 DEF Passes, Carried
<1>4. ASSUME Awaiting(row'), faults' = 0, Awaiting(row)
      PROVE  /\ events' > 0 \/ \E q \in Proc : Carries(q)'
             /\ row'.lease = "fresh" => \E w \in Proc : pc'[w] \in Resolving
  <2>1. faults = 0
    BY <1>4 DEF Passes
  <2>2. ASSUME NEW w \in Proc, pc[w] \in Resolving PROVE pc'[w] \in Resolving
    BY <1>4, <2>2 DEF Passes
  <2>3. row'.lease = "fresh" => \E w \in Proc : pc'[w] \in Resolving
    <3>1. CASE row.lease = "fresh"
      BY <1>4, <2>1, <2>2, <3>1 DEF Carried
    <3>2. CASE row.lease # "fresh"
      BY <3>2 DEF Passes
    <3> QED BY <3>1, <3>2
  <2>4. ASSUME NEW q \in Proc, Carries(q) PROVE events' > 0 \/ \E r \in Proc : Carries(r)'
    <3>1. CASE q # p
      BY <2>4, <3>1 DEF Passes, Carries
    <3>2. CASE q = p
      <4>1. CASE row.lease = "fresh" /\ pc[p] \notin Resolving
        <5>1. PICK w \in Proc : pc[w] \in Resolving
          BY <1>4, <2>1, <4>1 DEF Carried
        <5> QED BY <2>2, <5>1 DEF Carries
      <4>2. CASE ~(row.lease = "fresh" /\ pc[p] \notin Resolving)
        BY <1>4, <2>4, <3>2, <4>2 DEF Passes
      <4> QED BY <4>1, <4>2
    <3> QED BY <3>1, <3>2
  <2>5. events' > 0 \/ \E q \in Proc : Carries(q)'
    <3>1. CASE events > 0
      BY <1>4, <3>1 DEF Passes
    <3>2. CASE \E q \in Proc : Carries(q)
      BY <2>4, <3>2
    <3> QED BY <1>4, <2>1, <3>1, <3>2 DEF Carried
  <2> QED BY <2>3, <2>5
<1> QED BY <1>2, <1>3, <1>4 DEF Carried

(* The terminal result: whoever records an approval carries it on.           *)
LEMMA CallersPass == ASSUME TypeOK, NEW p \in Proc, CallerStep(p) PROVE Passes(p)
<1> USE DEF Passes, Goto, At, TypeOK, env
<1>1. ASSUME NEW o \in Outcome, NEW t \in BOOLEAN, FinalizeResult(p, o, t) PROVE Passes(p)
  <2>1. row'.lease = row.lease /\ (Awaiting(row') => Awaiting(row) \/ (~Paid(row) /\ o = "approved"))
    BY <1>1, StatementsAwait DEF FinalizeResult
  <2>2. pc[p] = "idle" /\ ~Carries(p)
    BY <1>1 DEF FinalizeResult, Carries, Resolving, Handing
  <2>3. Awaiting(row') /\ o = "approved" => Carries(p)'
    BY <1>1 DEF FinalizeResult, Carries, Awaiting, Handing
  <2>4. \A q \in Proc \ {p} : pc'[q] = pc[q] /\ mem'[q] = mem[q]
    BY <1>1 DEF FinalizeResult
  <2> QED BY <1>1, <2>1, <2>2, <2>3, <2>4 DEF FinalizeResult, Carries
<1>2. CASE FinalizeStatus(p)
  BY <1>2 DEF FinalizeStatus, Carries, Resolving, Handing
<1> QED BY <1>1, <1>2 DEF CallerStep

(* The handoff does not drop the attempt, even where a statement of it fails *)
(* and is swallowed.                                                         *)
LEMMA HandoffPass ==
  ASSUME TypeOK, NEW p \in Proc, HandoffStep(p) \/ HandoffFails(p) \/ Dispatch(p) PROVE Passes(p)
<1> USE DEF Passes, Goto, At, TypeOK, env, AfterHandoff, Carries, Resolving, Handing
<1>1. CASE HandoffRead(p)
  BY <1>1 DEF HandoffRead
<1>2. CASE HandoffBooking(p)
  BY <1>2 DEF HandoffBooking
<1>3. CASE HandoffToken(p)
  BY <1>3 DEF HandoffToken
<1>4. CASE HandoffSession(p)
  BY <1>4 DEF HandoffSession
<1>5. CASE HandoffFails(p)
  BY <1>5 DEF HandoffFails
<1>6. CASE Dispatch(p)
  BY <1>6 DEF Dispatch
<1> QED BY <1>1, <1>2, <1>3, <1>4, <1>5, <1>6 DEF HandoffStep

(* The worker ends only before another's lease, or before a booking.         *)
LEMMA WorkersPass ==
  ASSUME TypeOK, Agree(row), NEW w \in Proc, WorkerStart(w) \/ WorkerStep(w) PROVE Passes(w)
<1> USE DEF Passes, Goto, At, TypeOK, env, Carries, Resolving, Handing
<1>1. CASE WorkerStart(w)
  <2>1. Awaiting(row) => Paid(row) /\ ~Booked(row)
    BY DEF Awaiting, Paid
  <2>2. ~Carries(w)
    BY <1>1 DEF WorkerStart
  <2>3. Awaiting(row) => Carries(w)'
    BY <1>1, <2>1 DEF WorkerStart
  <2>4. row' = row /\ faults' = faults /\ \A q \in Proc \ {w} : pc'[q] = pc[q] /\ mem'[q] = mem[q]
    BY <1>1 DEF WorkerStart, ResumeBooked
  <2> HIDE DEF Carries
  <2> QED BY <1>1, <2>2, <2>3, <2>4 DEF WorkerStart
<1>2. CASE WorkerClaim(w)
  <2>1. CASE LeaseFree(row)
    <3>1. row' = TakeLease(row) /\ pc'[w] \in {"reread", "needsStaff"} /\ Paid(row)
      BY <1>2, <2>1 DEF WorkerClaim, LeaseFree, Paid
    <3>2. Awaiting(row') => Awaiting(row)
      BY <3>1, StatementsAwait
    <3> QED BY <1>2, <3>1, <3>2 DEF WorkerClaim
  <2>2. CASE ~LeaseFree(row)
    <3>1. Awaiting(row) => row.lease = "fresh"
      BY <2>2 DEF LeaseFree, Awaiting, Booked, Row, Confirmation, Agree
    <3> QED BY <1>2, <2>2, <3>1 DEF WorkerClaim
  <2> QED BY <2>1, <2>2
<1>3. CASE WorkerReread(w)
  <2>1. Awaiting(row) => row.attempt = "approved" /\ ~Booked(row)
    BY DEF Awaiting
  <2>2. row' = row /\ faults' = faults /\ events' = events
        /\ \A q \in Proc \ {w} : pc'[q] = pc[q] /\ mem'[q] = mem[q]
    BY <1>3 DEF WorkerReread, ResumeBooked
  <2>3. Awaiting(row) => pc'[w] \in Resolving
    BY <1>3, <2>1 DEF WorkerReread
  <2> QED BY <2>2, <2>3
<1>4. ASSUME NEW s \in {TakePublish(row), RecordPublishResult(row), RecordReadback(row)}, row' = s
      PROVE  row'.lease = row.lease /\ (Awaiting(row') => Awaiting(row))
  BY <1>4, StatementsAwait
<1>5. CASE WorkerPublishClaim(w)
  BY <1>4, <1>5 DEF WorkerPublishClaim
<1>6. CASE WorkerPublish(w)
  BY <1>6 DEF WorkerPublish
<1>7. CASE WorkerPublishResult(w)
  BY <1>4, <1>7 DEF WorkerPublishResult
<1>8. CASE WorkerReadback(w)
  BY <1>4, <1>8 DEF WorkerReadback
<1> QED BY <1>1, <1>2, <1>3, <1>5, <1>6, <1>7, <1>8 DEF WorkerStep

(* The booking is attached, or staff get the attempt. *)
LEMMA AttachPass == ASSUME TypeOK, NEW p \in Proc, AttachStep(p) PROVE Passes(p)
<1> USE DEF Passes, Goto, At, TypeOK, env, Carries, Resolving, Handing
<1>1. CASE Snapshot(p)
  BY <1>1 DEF Snapshot
<1>2. CASE Repair(p)
  BY <1>2 DEF Repair
<1>3. ASSUME NEW s \in {NeedsStaff(row), Confirm(row)}, row' = s
      PROVE  row'.lease = row.lease /\ ~Awaiting(row')
  BY <1>3, StatementsAwait
<1>4. CASE ConfirmHandoff(p)
  BY <1>3, <1>4 DEF ConfirmHandoff
<1>5. CASE RequestAutoCheckin(p)
  BY <1>5 DEF RequestAutoCheckin
<1>6. CASE MarkNeedsStaff(p)
  BY <1>3, <1>6 DEF MarkNeedsStaff
<1> QED BY <1>1, <1>2, <1>4, <1>5, <1>6 DEF AttachStep

(* A webhook or a lookup only publishes a draft that waits. *)
LEMMA SignalsPass == ASSUME TypeOK, NEW s \in Proc, SignalStore(s) \/ SignalStep(s) PROVE Passes(s)
<1> USE DEF Passes, Goto, At, TypeOK, env, Carries, Resolving, Handing
<1>1. CASE SignalStore(s)
  BY <1>1 DEF SignalStore
<1>2. CASE SignalReconcile(s)
  <2>1. row'.lease = row.lease /\ (Awaiting(row') => Awaiting(row))
    BY <1>2, StatementsAwait DEF SignalReconcile
  <2> QED BY <1>2, <2>1 DEF SignalReconcile
<1>3. CASE SignalSelect(s)
  BY <1>3 DEF SignalSelect
<1> QED BY <1>1, <1>2, <1>3 DEF SignalStep

(* A staff member's approval goes on with the handoff. *)
LEMMA StaffPass ==
  ASSUME TypeOK, NEW u \in Proc, StaffStep(u) \/ \E d \in {"no_payment", "paid"} : StaffRead(u, d)
  PROVE  Passes(u)
<1> USE DEF Passes, Goto, At, TypeOK, env, Carries, Resolving, Handing
<1>1. ASSUME NEW d \in {"no_payment", "paid"}, StaffRead(u, d) PROVE Passes(u)
  BY <1>1 DEF StaffRead
<1>2. CASE StaffEvidence(u)
  BY <1>2 DEF StaffEvidence
<1>3. CASE StaffRelease(u)
  <2>1. \E c, a \in BOOLEAN : row' = ReleaseByStaff(row, c, a)
    <3>1. Cached \in BOOLEAN /\ (age >= 1) \in BOOLEAN
      BY DEF Cached
    <3>2. row' = ReleaseByStaff(row, Cached, age >= 1)
      BY <1>3 DEF StaffRelease
    <3> QED BY <3>1, <3>2, Zenon
  <2>2. row'.lease = row.lease /\ (Awaiting(row') => Awaiting(row))
    BY <2>1, StatementsAwait
  <2> QED BY <1>3, <2>2 DEF StaffRelease
<1>4. CASE StaffApprove(u)
  <2>1. row'.lease = row.lease /\ (Awaiting(row') => Awaiting(row) \/ ~Paid(row))
    BY <1>4, StatementsAwait DEF StaffApprove
  <2> QED BY <1>4, <2>1 DEF StaffApprove
<1> QED BY <1>1, <1>2, <1>3, <1>4 DEF StaffStep

(* A request that takes the keys over releases nothing approved. *)
LEMMA RivalsPass ==
  ASSUME TypeOK, NEW r \in Proc, RivalStep(r) \/ \E rep \in BOOLEAN : RivalRead(r, rep)
  PROVE  Passes(r)
<1> USE DEF Passes, Goto, At, TypeOK, env, Carries, Resolving, Handing
<1>1. ASSUME NEW rep \in BOOLEAN, RivalRead(r, rep) PROVE Passes(r)
  BY <1>1 DEF RivalRead
<1>2. CASE RivalEvidence(r)
  BY <1>2 DEF RivalEvidence
<1>3. CASE RivalRelease(r)
  <2>1. row' = ReleaseAbandoned(row, Cached, mem[r].flag \/ age = 2)
        /\ (mem[r].flag \/ age = 2) \in BOOLEAN
    BY <1>3 DEF RivalRelease
  <2>2. row'.lease = row.lease /\ (Awaiting(row') => Awaiting(row))
    BY <2>1, StatementsAwait DEF Cached
  <2> QED BY <1>3, <2>2 DEF RivalRelease
<1> QED BY <1>1, <1>2, <1>3 DEF RivalStep

(* An approved payment that is neither booked nor with staff is on its way   *)
(* in an invocation, or in one that was accepted, as long as none failed: no *)
(* late outcome, second worker, expired lease or staff decision drops it     *)
(* (recordKioskTerminalOutcome, claimKioskReconciliation).                   *)
THEOREM ApprovalCarried ==
  Spec => [](row.attempt = "approved" =>
               \/ Booked(row) \/ row.conf = "needs_staff" \/ faults > 0
               \/ events > 0 \/ \E p \in Proc : Carries(p))
<1>1. Init => Carried
  BY DEF Init, NewRow, Carried, Awaiting
<1>2. TypeOK /\ Agree(row) /\ Carried /\ [Next]_vars => Carried'
  <2> SUFFICES ASSUME TypeOK, Agree(row), Carried, [Next]_vars PROVE Carried'
    OBVIOUS
  <2>1. CASE UNCHANGED vars
    BY <2>1 DEF vars, Carried, Carries
  <2>2. CASE Outside
    <3>1. UNCHANGED <<pc, mem, events, faults>>
      BY <2>2 DEF Outside, DraftArrives, TerminalDecides, RollerBooks, Tick, LeaseExpires
    <3>2. row' = row \/ row' = [row EXCEPT !.lease = "expired"]
      BY <2>2 DEF Outside, DraftArrives, TerminalDecides, RollerBooks, Tick, LeaseExpires
    <3>3. /\ row'.lease = "fresh" => row' = row
          /\ Awaiting(row') => Awaiting(row)
      BY <3>2 DEF Awaiting, Booked, Published, TypeOK, Row
    <3> QED BY <3>1, <3>3 DEF Carried, Carries
  <2>3. ASSUME NEW p \in Proc, Arrive(p) PROVE Passes(p)
    BY <2>3, CallersPass, WorkersPass, SignalsPass, StaffPass, RivalsPass DEF Arrive
  <2>4. ASSUME NEW p \in Proc, Continue(p) PROVE Passes(p)
    BY <2>4, HandoffPass, WorkersPass, AttachPass, SignalsPass, StaffPass, RivalsPass
       DEF Continue
  <2>5. ASSUME NEW p \in Proc, Crash(p) \/ HandoffFails(p) PROVE Carried'
    <3>1. CASE HandoffFails(p)
      BY <3>1, HandoffPass, PassedOn
    <3>2. CASE Crash(p)
      BY <3>2, BoundAssumption DEF Crash, Carried, TypeOK
    <3> QED BY <2>5, <3>1, <3>2
  <2> QED BY <2>1, <2>2, <2>3, <2>4, <2>5, PassedOn DEF Next
<1>3. Carried /\ TypeOK => (row.attempt = "approved" =>
               \/ Booked(row) \/ row.conf = "needs_staff" \/ faults > 0
               \/ events > 0 \/ \E p \in Proc : Carries(p))
  BY BoundAssumption DEF Carried, Awaiting, TypeOK
<1> QED BY <1>1, <1>2, <1>3, TypeCorrect, AgreeAlways, PTL DEF Spec

-----------------------------------------------------------------------------
(* A charged card behind every payment, a booking behind every webhook.      *)

(* Where a webhook event is once its delivery has looked at the draft.       *)
Processed == {"select", "repair", "confirm", "needsStaff", "admit", "done"}

Located == \A s \in Webhooks : pc[s] \in {"idle", "reconcile"} \cup Processed

(* Nothing is paid or published that no card was charged for: the terminal's *)
(* approval and ROLLER's notification both come of the charge, and only a    *)
(* paid attempt is published.                                                *)
CardBehind == roller.paid \/ Paid(row) \/ Published(row) => terminal = "charged"

Stored == \A s \in Webhooks : pc[s] \in Processed => Published(row)

(* What a step of p does to the webhooks and to the payment.                 *)
Accounted(p) ==
  /\ \A q \in Proc \ {p} : pc'[q] = pc[q]
  /\ p \in Webhooks => pc'[p] \in {"idle", "reconcile"} \cup Processed
  /\ p \in Webhooks /\ pc'[p] \in Processed =>
       pc[p] \in Processed \/ (pc[p] = "reconcile" /\ row' = PublishFromPaidBooking(row))
  /\ terminal' = terminal
  /\ roller'.paid => roller.paid \/ Paid(row)
  /\ Paid(row') => Paid(row) \/ roller.paid \/ terminal = "charged"
  /\ Published(row') => Published(row) \/ Paid(row) \/ roller.paid
  /\ Failed(row') => Failed(row) \/ ~Published(row) \/ terminal = "declined"

(* A caller reports an approval only of a charged card.                      *)
LEMMA CallersAccounted ==
  ASSUME TypeOK, Located, NEW p \in Proc, CallerStep(p) PROVE Accounted(p)
<1> USE ProcAssumption DEF Accounted, Located, Signals, Goto, At, TypeOK, env
<1>1. ASSUME NEW o \in Outcome, NEW t \in BOOLEAN, FinalizeResult(p, o, t) PROVE Accounted(p)
  <2>1. Paid(row') => Paid(row) \/ o = "approved"
    BY <1>1, StatementsPaying DEF FinalizeResult
  <2>2. Published(row') => Published(row)
    BY <1>1, StatementsPublishing DEF FinalizeResult
  <2>3. Failed(row') => Failed(row) \/ o \in {"failed", "cancelled"}
    BY <1>1, StatementsFailing DEF FinalizeResult
  <2>4. p \notin Webhooks
    BY <1>1 DEF FinalizeResult
  <2> QED BY <1>1, <2>1, <2>2, <2>3, <2>4 DEF FinalizeResult, Reportable
<1>2. CASE FinalizeStatus(p)
  BY <1>2 DEF FinalizeStatus
<1> QED BY <1>1, <1>2 DEF CallerStep

(* The handoff is no webhook's, and no payment.                              *)
LEMMA HandoffAccounted ==
  ASSUME TypeOK, Located, NEW p \in Proc, HandoffStep(p) \/ HandoffFails(p) \/ Dispatch(p)
  PROVE  Accounted(p)
<1>1. p \notin Webhooks
  BY DEF HandoffStep, HandoffRead, HandoffBooking, HandoffToken, HandoffSession, HandoffFails,
         Dispatch, At, Located, Processed
<1> USE <1>1 DEF Accounted, Goto, At, TypeOK, env
<1>2. CASE HandoffStep(p)
  BY <1>2 DEF HandoffStep, HandoffRead, HandoffBooking, HandoffToken, HandoffSession
<1>3. CASE HandoffFails(p) \/ Dispatch(p)
  BY <1>3 DEF HandoffFails, Dispatch
<1> QED BY <1>2, <1>3

(* A worker publishes a paid attempt only.                                   *)
LEMMA WorkersAccounted ==
  ASSUME TypeOK, PublishClaimed, Located, NEW w \in Proc, WorkerStart(w) \/ WorkerStep(w)
  PROVE  Accounted(w)
<1>1. w \notin Webhooks
  BY ProcAssumption
     DEF WorkerStart, WorkerStep, WorkerClaim, WorkerReread, WorkerPublishClaim, WorkerPublish,
         WorkerPublishResult, WorkerReadback, At, Located, Processed, Signals
<1>0. row \in Row /\ row' \in {row, TakeLease(row), TakePublish(row), RecordPublishResult(row),
                               RecordReadback(row)}
  BY DEF WorkerStart, WorkerStep, WorkerClaim, WorkerReread, WorkerPublishClaim, WorkerPublish,
         WorkerPublishResult, WorkerReadback, TypeOK
<1>2. Paid(row') => Paid(row)
  BY <1>0, StatementsPaying
<1>3. roller'.paid => roller.paid \/ Paid(row)
  <2>1. CASE WorkerPublish(w)
    BY <2>1 DEF WorkerPublish, PublishClaimed, At
  <2> QED BY <2>1 DEF WorkerStart, WorkerStep, WorkerClaim, WorkerReread, WorkerPublishClaim,
                      WorkerPublishResult, WorkerReadback, env
<1>4. terminal' = terminal /\ \A q \in Proc \ {w} : pc'[q] = pc[q]
  BY DEF WorkerStart, WorkerStep, WorkerClaim, WorkerReread, WorkerPublishClaim, WorkerPublish,
         WorkerPublishResult, WorkerReadback, ResumeBooked, Goto, TypeOK, env
<1>5. (Published(row') => Published(row)) /\ (Failed(row') => Failed(row))
  <2>1. Published(row') => Published(row)
    BY <1>0, StatementsPublishing
  <2>2. Failed(row') => Failed(row)
    BY <1>0, StatementsFailing
  <2> QED BY <2>1, <2>2
<1> QED BY <1>1, <1>2, <1>3, <1>4, <1>5 DEF Accounted

(* Only a paid attempt is confirmed, by a webhook's request or another's.    *)
LEMMA AttachAccounted ==
  ASSUME TypeOK, Located, NEW p \in Proc, AttachStep(p) PROVE Accounted(p)
<1> USE DEF Accounted, Located, Processed, Goto, At, TypeOK, env
<1>1. CASE Snapshot(p)
  BY <1>1 DEF Snapshot
<1>2. CASE Repair(p)
  BY <1>2 DEF Repair
<1>3. CASE ConfirmHandoff(p)
  BY <1>3, StatementsFailing DEF ConfirmHandoff
<1>4. CASE RequestAutoCheckin(p)
  BY <1>4 DEF RequestAutoCheckin
<1>5. CASE MarkNeedsStaff(p)
  BY <1>5, StatementsPaying, StatementsPublishing, StatementsFailing DEF MarkNeedsStaff
<1> QED BY <1>1, <1>2, <1>3, <1>4, <1>5 DEF AttachStep

(* A webhook goes on from its look at the draft only.                        *)
LEMMA SignalsAccounted ==
  ASSUME TypeOK, Evidenced, Located, NEW s \in Proc, SignalStore(s) \/ SignalStep(s) PROVE Accounted(s)
<1> USE DEF Accounted, Located, Processed, Goto, At, TypeOK, env
<1>1. CASE SignalStore(s)
  BY <1>1 DEF SignalStore
<1>2. CASE SignalReconcile(s)
  BY <1>2, StatementsPaying, StatementsFailing DEF SignalReconcile, Evidenced
<1>3. CASE SignalSelect(s)
  BY <1>3 DEF SignalSelect
<1> QED BY <1>1, <1>2, <1>3 DEF SignalStep

(* A staff member approves only what ROLLER holds as paid.                   *)
LEMMA StaffAccounted ==
  ASSUME TypeOK, Evidenced, Located, NEW u \in Proc,
         StaffStep(u) \/ \E d \in {"no_payment", "paid"} : StaffRead(u, d)
  PROVE  Accounted(u)
<1>1. u \notin Webhooks /\ u \in Staff
  BY ProcAssumption DEF StaffStep, StaffRead, StaffEvidence, StaffRelease, StaffApprove, Signals
<1> USE <1>1 DEF Accounted, Goto, At, TypeOK, env
<1>2. ASSUME NEW d \in {"no_payment", "paid"}, StaffRead(u, d) PROVE Accounted(u)
  BY <1>2 DEF StaffRead
<1>3. CASE StaffEvidence(u)
  BY <1>3 DEF StaffEvidence
<1>4. CASE StaffRelease(u)
  <2>1. Cached \in BOOLEAN /\ (age >= 1) \in BOOLEAN
    BY DEF Cached
  <2>2. row' = ReleaseByStaff(row, Cached, age >= 1) /\ row \in Row
    BY <1>4 DEF StaffRelease
  <2>3. /\ Paid(row') => Paid(row)
        /\ Published(row') => Published(row)
        /\ Failed(row') => Failed(row) \/ ~Published(row)
    BY <2>1, <2>2, StatementsPaying, StatementsPublishing
  <2> QED BY <1>4, <2>3 DEF StaffRelease
<1>5. CASE StaffApprove(u)
  BY <1>5, StatementsPublishing, StatementsFailing DEF StaffApprove, Evidenced
<1> QED BY <1>2, <1>3, <1>4, <1>5 DEF StaffStep

(* A request that takes the keys over releases, and pays nothing.            *)
LEMMA RivalsAccounted ==
  ASSUME TypeOK, Located, NEW r \in Proc, RivalStep(r) \/ \E rep \in BOOLEAN : RivalRead(r, rep)
  PROVE  Accounted(r)
<1>1. r \notin Webhooks
  BY ProcAssumption DEF RivalStep, RivalRead, RivalEvidence, RivalRelease, Signals
<1> USE <1>1 DEF Accounted, Goto, At, TypeOK, env
<1>2. ASSUME NEW rep \in BOOLEAN, RivalRead(r, rep) PROVE Accounted(r)
  BY <1>2 DEF RivalRead
<1>3. CASE RivalEvidence(r)
  BY <1>3 DEF RivalEvidence
<1>4. CASE RivalRelease(r)
  <2>1. Cached \in BOOLEAN /\ (mem[r].flag \/ age = 2) \in BOOLEAN
    BY DEF Cached
  <2>2. row' = ReleaseAbandoned(row, Cached, mem[r].flag \/ age = 2) /\ row \in Row
    BY <1>4 DEF RivalRelease
  <2>3. /\ Paid(row') => Paid(row)
        /\ Published(row') => Published(row)
        /\ Failed(row') => Failed(row) \/ ~Published(row)
    BY <2>1, <2>2, StatementsPaying, StatementsPublishing
  <2> QED BY <1>4, <2>3 DEF RivalRelease
<1> QED BY <1>2, <1>3, <1>4 DEF RivalStep

(* A crashed webhook delivery comes again, from its start. *)
LEMMA CrashAccounted == ASSUME TypeOK, Located, NEW p \in Proc, Crash(p) PROVE Accounted(p)
BY DEF Crash, Accounted, Located, Processed, Goto, TypeOK, env

(* Every step is one of the kiosk, the terminal, ROLLER or the clock, or an  *)
(* accounted one.                                                            *)
LEMMA EveryStepAccounted ==
  ASSUME TypeOK, PublishClaimed, Evidenced, Located, [Next]_vars
  PROVE  UNCHANGED vars \/ Outside \/ \E p \in Proc : Accounted(p)
<1>1. ASSUME NEW p \in Proc, Arrive(p) PROVE Accounted(p)
  BY <1>1, CallersAccounted, WorkersAccounted, SignalsAccounted, StaffAccounted, RivalsAccounted
     DEF Arrive
<1>2. ASSUME NEW p \in Proc, Continue(p) PROVE Accounted(p)
  BY <1>2, HandoffAccounted, WorkersAccounted, AttachAccounted, SignalsAccounted, StaffAccounted,
     RivalsAccounted DEF Continue
<1> QED BY <1>1, <1>2, HandoffAccounted, CrashAccounted DEF Next

(* Located and CardBehind hold in every reachable state. *)
LEMMA LocatedAlways == Spec => [](Located /\ CardBehind)
<1>1. Init => Located /\ CardBehind
  BY DEF Init, NewRow, Located, CardBehind, Paid, Published, Proc, Signals
<1>2. TypeOK /\ PublishClaimed /\ Evidenced /\ Located /\ CardBehind /\ [Next]_vars
      => Located' /\ CardBehind'
  <2> SUFFICES ASSUME TypeOK, PublishClaimed, Evidenced, Located, CardBehind, [Next]_vars
               PROVE  Located' /\ CardBehind'
    OBVIOUS
  <2>1. CASE UNCHANGED vars
    BY <2>1 DEF vars, Located, CardBehind, Paid, Published
  <2>2. CASE Outside
    <3>1. pc' = pc /\ row'.attempt = row.attempt /\ row'.status = row.status
      BY <2>2 DEF Outside, DraftArrives, TerminalDecides, RollerBooks, Tick, LeaseExpires, TypeOK, Row
    <3>2. /\ terminal = "charged" => terminal' = "charged"
          /\ roller'.paid => roller.paid \/ terminal' = "charged"
      BY <2>2 DEF Outside, DraftArrives, TerminalDecides, RollerBooks, Tick, LeaseExpires, env
    <3> QED BY <3>1, <3>2 DEF Located, CardBehind, Paid, Published
  <2>3. ASSUME NEW p \in Proc, Accounted(p) PROVE Located' /\ CardBehind'
    <3>1. Located'
      BY <2>3 DEF Accounted, Located, Proc, Signals
    <3>2. CardBehind'
      BY <2>3 DEF Accounted, CardBehind
    <3> QED BY <3>1, <3>2
  <2> QED BY <2>1, <2>2, <2>3, EveryStepAccounted
<1> QED BY <1>1, <1>2, TypeCorrect, PublishClaimedAlways, EvidencedAlways, PTL DEF Spec

(* No interleaving of results, workers, webhooks, lookups and staff marks an *)
(* attempt as paid or its draft as published, or has ROLLER hold the booking *)
(* as paid, unless the card was charged: recordKioskTerminalOutcome, the     *)
(* publish and confirmKioskAttemptFromRollerEvidence make no money up.       *)
THEOREM OnlyChargedIsPaid ==
  Spec => [](roller.paid \/ Paid(row) \/ Published(row) => terminal = "charged")
<1>1. CardBehind => (roller.paid \/ Paid(row) \/ Published(row) => terminal = "charged")
  BY DEF CardBehind
<1> QED BY <1>1, LocatedAlways, PTL

(* While terminal and ROLLER keep their waits, a webhook delivery that came  *)
(* to its end leaves the draft published, whatever ran between its steps     *)
(* (reconcilePrepaymentDraftFromPaidBooking writes to no draft that failed,  *)
(* and no draft of a charged card does).                                     *)
THEOREM WebhookPublishes ==
  Spec => [](TimelyBooking => \A s \in Webhooks : pc[s] = "done" => Published(row))
<1>1. Init => Stored
  BY DEF Init, Stored, Processed, Proc, Signals
<1>2. /\ TypeOK /\ PublishClaimed /\ Evidenced /\ Located /\ CardBehind /\ Agree(row)
      /\ (TimelyBooking => Timely) /\ (TimelyBooking => Stored) /\ [Next]_vars
      => (TimelyBooking => Stored)'
  <2> SUFFICES ASSUME TypeOK, PublishClaimed, Evidenced, Located, CardBehind, Agree(row),
                      TimelyBooking, Timely, Stored, [Next]_vars
               PROVE  Stored'
    OBVIOUS
  <2>1. Published(row) => Published(row')
    BY KeptStep DEF Kept
  <2>2. CASE UNCHANGED vars \/ Outside
    <3>1. pc' = pc
      BY <2>2 DEF vars, Outside, DraftArrives, TerminalDecides, RollerBooks, Tick, LeaseExpires
    <3> QED BY <2>1, <3>1 DEF Stored
  <2>3. ASSUME NEW p \in Proc, Accounted(p), NEW s \in Webhooks, pc'[s] \in Processed
        PROVE  Published(row')
    <3>1. CASE pc[s] \in Processed
      BY <2>1, <3>1 DEF Stored
    <3>2. CASE pc[s] = "reconcile" /\ row' = PublishFromPaidBooking(row)
      <4>1. row.status \notin {"failed", "cancelled"}
        BY <3>2 DEF Evidenced, CardBehind, Timely, NoMoney, Agree, Failed, Proc, Signals
      <4>2. row \in Row
        BY DEF TypeOK
      <4> QED BY <3>2, <4>1, <4>2 DEF PublishFromPaidBooking, Published, Row, DraftStatus
    <3> QED BY <2>3, <3>1, <3>2 DEF Accounted, Proc, Signals
  <2> QED BY <2>2, <2>3, EveryStepAccounted DEF Stored
<1>3. Stored => \A s \in Webhooks : pc[s] = "done" => Published(row)
  BY DEF Stored, Processed
<1> QED BY <1>1, <1>2, <1>3, TypeCorrect, PublishClaimedAlways, EvidencedAlways, LocatedAlways,
           AgreeAlways, TimelyAlways, PTL DEF Spec

(* No attempt is published and failed at once.                               *)
LEMMA NeverBoth == Spec => []~(Published(row) /\ Failed(row))
<1>1. Init => ~(Published(row) /\ Failed(row))
  BY DEF Init, NewRow, Published
<1>2. /\ TypeOK /\ PublishClaimed /\ Evidenced /\ Located /\ CardBehind /\ Agree(row)
      /\ ~(Published(row) /\ Failed(row)) /\ [Next]_vars
      => ~(Published(row) /\ Failed(row))'
  <2> SUFFICES ASSUME TypeOK, PublishClaimed, Evidenced, Located, CardBehind, Agree(row),
                      ~(Published(row) /\ Failed(row)), [Next]_vars,
                      Published(row'), Failed(row')
               PROVE  FALSE
    OBVIOUS
  <2>0. row \in Row
    BY DEF TypeOK
  <2>1. Published(row)
    <3>1. CASE Ordinary
      BY <2>0, <3>1, StatementsBoth DEF Ordinary
    <3>2. ASSUME NEW p \in Proc, WorkerPublishClaim(p) PROVE Published(row)
      BY <2>0, <3>2, StatementsPublishing DEF WorkerPublishClaim
    <3>3. ASSUME NEW p \in Proc, WorkerPublish(p) \/ RequestAutoCheckin(p) PROVE Published(row)
      BY <3>3 DEF WorkerPublish, RequestAutoCheckin
    <3>4. ASSUME NEW p \in Proc, ConfirmHandoff(p) PROVE Published(row)
      BY <2>0, <3>4 DEF ConfirmHandoff, Confirm, Failed, Row
    <3> QED BY <3>1, <3>2, <3>3, <3>4, StepCases
  <2>2. ~Failed(row) /\ terminal = "charged"
    BY <2>1 DEF CardBehind
  <2>3. CASE UNCHANGED vars \/ Outside
    <3>1. row'.attempt = row.attempt
      BY <2>0, <2>3 DEF vars, Outside, DraftArrives, TerminalDecides, RollerBooks, Tick,
                        LeaseExpires, Row
    <3> QED BY <2>2, <3>1 DEF Failed
  <2>4. ASSUME NEW p \in Proc, Accounted(p) PROVE FALSE
    BY <2>1, <2>2, <2>4 DEF Accounted
  <2> QED BY <2>3, <2>4, EveryStepAccounted
<1> QED BY <1>1, <1>2, TypeCorrect, PublishClaimedAlways, EvidencedAlways, LocatedAlways,
           AgreeAlways, PTL DEF Spec

(* What the kiosk shows may fall back from "confirmed" (StateIsMonotonic is  *)
(* refuted), but never to "failed": publicKioskPaymentStatus answers that of *)
(* a failed attempt without a booking only, and, while terminal and ROLLER   *)
(* keep their waits, only where no card was charged.                         *)
THEOREM ShownFailedIsUnpaid ==
  Spec => [](Public = "failed" =>
               Failed(row) /\ ~Booked(row) /\ (TimelyBooking => terminal # "charged"))
<1>1. Agree(row) /\ ~(Published(row) /\ Failed(row)) /\ NoChargeReleased =>
        (Public = "failed" =>
           Failed(row) /\ ~Booked(row) /\ (TimelyBooking => terminal # "charged"))
  BY DEF Public, PublicStatus, Agree, Failed, Booked, NoChargeReleased
<1> QED BY <1>1, AgreeAlways, NeverBoth, NoChargeReleased_Always, PTL
=============================================================================
