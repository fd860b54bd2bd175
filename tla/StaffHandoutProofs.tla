------------------------- MODULE StaffHandoutProofs -------------------------
(***************************************************************************)
(* Theorems about StaffHandout, for any sets of phones, actors, sessions   *)
(* and items and any quantities.                                           *)
(***************************************************************************)
EXTENDS StaffHandout, FunctionTheorems, FiniteSetTheorems, TLAPS

(* A revision of a claim names one operation: revisions only grow, and a     *)
(* completed operation is of an earlier one.                                 *)
Recorded ==
  \A o \in ops : /\ o.id[3] <= claim[o.id[2]].rev
                 /\ o.status = "completed" => o.id[3] < claim[o.id[2]].rev

OneId == \A o1, o2 \in ops : o1.id = o2.id => o1 = o2

(* A phone that waits for a confirmation knows the operation it is about.    *)
Asked ==
  \A r \in Phones : pc[r] # "idle" =>
    /\ mem[r].actor \in Actors /\ mem[r].s \in Sessions /\ mem[r].a \in Areas
    /\ mem[r].op = Id(mem[r])
    /\ \E o \in ops : o.id = mem[r].op

ClaimInv == /\ OneSelectionPerActor /\ ClaimMatchesOperation /\ PendingReservesItem
            /\ Recorded /\ OneId

IInv == TypeOK /\ ClaimInv /\ Asked /\ AdmissionReceipt

(* What the assumption says of the bounds and of None. *)
LEMMA Constants ==
  /\ MaxRevision \in Nat /\ 0 \in 0..MaxRevision /\ NoLines \in Lines
  /\ None \notin Actors /\ None \notin Sessions /\ None \notin OpId
  /\ NoRequest \in Request /\ Admission \subseteq Items
<1>1. MaxRevision \in Nat /\ MaxUnits \in Nat /\ Admission \subseteq Items
  BY HandoutAssumption
<1>2. NoLines \in Lines
  BY <1>1 DEF NoLines, Lines
<1>3. None \notin Actors /\ None \notin Sessions /\ None \notin OpId
  BY HandoutAssumption
<1>4. NoRequest \in Request
  BY <1>1, <1>2 DEF NoRequest, Request
<1> QED BY <1>1, <1>2, <1>3, <1>4

(* The parts of an operation's identity. *)
LEMMA IdParts ==
  ASSUME NEW id \in OpId
  PROVE  /\ id = <<id[1], id[2], id[3]>>
         /\ id[1] \in Sessions /\ id[2] \in Areas /\ id[3] \in 0..MaxRevision /\ id[3] \in Nat
BY DEF OpId

(* The initial state satisfies the inductive invariant.                      *)
LEMMA InitInv == Init => IInv
<1> SUFFICES ASSUME Init PROVE IInv
  OBVIOUS
<1>1. /\ ops = {} /\ Pending = {}
      /\ \A a \in Areas : /\ claim[a] \in Claim
                          /\ claim[a].actor = None /\ claim[a].pending = None
  BY Constants DEF Init, Pending, Claim
<1>2. TypeOK
  <2>1. Quantity \in Lines
    BY HandoutAssumption DEF Lines
  <2>2. HomeArea \in [Items -> Areas]
    BY DEF HomeArea, Areas
  <2>3. claim \in [Areas -> Claim]
    BY <1>1 DEF Init
  <2> QED BY <1>1, <2>1, <2>2, <2>3, Constants DEF Init, TypeOK
<1>3. ClaimInv /\ AdmissionReceipt
  BY <1>1 DEF ClaimInv, OneSelectionPerActor, ClaimMatchesOperation, PendingReservesItem,
              Recorded, OneId, Live, AdmissionReceipt, Completed
<1>4. Asked
  BY DEF Init, Asked
<1> QED BY <1>2, <1>3, <1>4 DEF IInv

-----------------------------------------------------------------------------
(* Steps that record nothing.                                                *)

(* A new row of one counter, with its pending operation, keeps the claims in *)
(* order when its actor holds no other selection.                            *)
LEMMA ClaimChanges ==
  ASSUME TypeOK, ClaimInv, UNCHANGED ops, NEW a \in Areas, NEW c \in Claim,
         claim' = [claim EXCEPT ![a] = c],
         c.rev >= claim[a].rev, c.pending = claim[a].pending,
         c.pending # None => c.session = claim[a].session /\ c.rev = claim[a].rev,
         Live(c) => \A b \in Areas \ {a} : ~(Live(claim[b]) /\ claim[b].actor = c.actor)
  PROVE  ClaimInv' /\ claim' \in [Areas -> Claim]
<1> USE DEF ClaimInv
<1>1. /\ claim' \in [Areas -> Claim] /\ claim'[a] = c
      /\ \A b \in Areas \ {a} : claim'[b] = claim[b]
  BY DEF TypeOK
<1>2. OneSelectionPerActor'
  BY <1>1 DEF OneSelectionPerActor, Live
<1>3. Pending' = Pending
  BY DEF Pending
<1>4. \A o \in ops : o.id \in OpId /\ o.id[2] \in Areas /\ o.id[3] \in Nat
  BY IdParts DEF TypeOK, Operation
<1>5. ClaimMatchesOperation'
  BY <1>1, <1>3, <1>4 DEF ClaimMatchesOperation, Pending
<1>6. Recorded'
  <2>1. claim[a].rev \in Nat /\ c.rev \in Nat
    BY Constants DEF TypeOK, Claim
  <2> QED BY <1>1, <1>4, <2>1 DEF Recorded
<1>7. PendingReservesItem' /\ OneId'
  BY <1>3 DEF PendingReservesItem, OneId
<1> QED BY <1>1, <1>2, <1>5, <1>6, <1>7

(* Steps that touch neither the claims nor the operations.                   *)
LEMMA WorldKeeps ==
  ASSUME IInv, UNCHANGED <<claim, ops>>,
         sess' \in [Sessions -> {"none", "ready", "redeemed"}],
         \A s \in Sessions : sess[s] = "redeemed" => sess'[s] = "redeemed",
         roller' \in Lines, copy' \in Lines, area' \in [Items -> Areas],
         pc' \in [Phones -> {"idle", "refresh", "admit", "reread", "complete"}],
         mem' \in [Phones -> Request],
         \A r \in Phones : pc'[r] # "idle" =>
           /\ pc[r] # "idle" /\ mem'[r].actor = mem[r].actor /\ mem'[r].s = mem[r].s
           /\ mem'[r].a = mem[r].a /\ mem'[r].rev = mem[r].rev /\ mem'[r].op = mem[r].op
  PROVE  IInv'
<1> USE DEF IInv
<1>1. TypeOK'
  BY DEF TypeOK
<1>2. ClaimInv'
  BY DEF ClaimInv, OneSelectionPerActor, ClaimMatchesOperation, PendingReservesItem,
         Recorded, OneId, Pending, Live
<1>3. Asked'
  BY DEF Asked, Id
<1>4. AdmissionReceipt'
  <2>1. \A o \in ops : o.id[1] \in Sessions
    BY IdParts DEF TypeOK, Operation
  <2> QED BY <2>1 DEF AdmissionReceipt, Completed
<1> QED BY <1>1, <1>2, <1>3, <1>4

(* A phone goes on to its next step, or is answered. *)
LEMMA GotoTyped ==
  ASSUME TypeOK, NEW r \in Phones, NEW step \in {"idle", "refresh", "admit", "reread", "complete"},
         Goto(r, step)
  PROVE  /\ pc' \in [Phones -> {"idle", "refresh", "admit", "reread", "complete"}]
         /\ pc'[r] = step /\ \A q \in Phones \ {r} : pc'[q] = pc[q]
BY DEF TypeOK, Goto

LEMMA DoneTyped ==
  ASSUME TypeOK, NEW r \in Phones, Done(r)
  PROVE  /\ pc' \in [Phones -> {"idle", "refresh", "admit", "reread", "complete"}]
         /\ mem' \in [Phones -> Request] /\ pc'[r] = "idle"
         /\ \A q \in Phones \ {r} : pc'[q] = pc[q] /\ mem'[q] = mem[q]
<1>1. Goto(r, "idle") /\ mem' = [mem EXCEPT ![r] = NoRequest]
  BY DEF Done
<1> QED BY <1>1, GotoTyped, Constants DEF TypeOK

(* A phone that was answered leaves claims and operations alone. *)
LEMMA DoneKeeps ==
  ASSUME IInv, NEW r \in Phones, Done(r), UNCHANGED <<claim, ops, sess, roller, area>>,
         copy' \in Lines
  PROVE  IInv'
<1>1. /\ pc' \in [Phones -> {"idle", "refresh", "admit", "reread", "complete"}]
      /\ mem' \in [Phones -> Request] /\ pc'[r] = "idle"
      /\ \A q \in Phones \ {r} : pc'[q] = pc[q] /\ mem'[q] = mem[q]
  BY DoneTyped DEF IInv
<1> QED BY <1>1, WorldKeeps DEF IInv, TypeOK

(* Refreshed lines are lines. *)
LEMMA RefreshedTyped == ASSUME TypeOK, NEW S PROVE Refreshed(S) \in Lines
BY DEF TypeOK, Refreshed, Lines

LEMMA RefreshKeeps == ASSUME IInv, NEW r \in Phones, Refresh(r) PROVE IInv'
<1>1. copy' \in Lines
  BY RefreshedTyped DEF Refresh, IInv
<1>2. CASE Goto(r, "admit") /\ UNCHANGED mem
  BY <1>1, <1>2, GotoTyped, WorldKeeps DEF Refresh, IInv, TypeOK
<1>3. CASE Done(r)
  BY <1>1, <1>3, DoneKeeps DEF Refresh
<1> QED BY <1>2, <1>3 DEF Refresh

LEMMA FailsKeeps == ASSUME IInv, NEW r \in Phones, Fails(r) PROVE IInv'
BY DoneKeeps DEF Fails, world, IInv, TypeOK

LEMMA RereadKeeps == ASSUME IInv, NEW r \in Phones, Reread(r) PROVE IInv'
<1>1. CASE Goto(r, "complete") /\ mem' = [mem EXCEPT ![r].man = copy]
  <2>1. mem[r] \in Request /\ copy \in Lines /\ pc[r] = "reread"
    BY DEF IInv, TypeOK, Reread
  <2>2. [mem[r] EXCEPT !.man = copy] \in Request
    BY <2>1 DEF Request
  <2>3. /\ mem' \in [Phones -> Request] /\ mem'[r] = [mem[r] EXCEPT !.man = copy]
        /\ \A q \in Phones \ {r} : mem'[q] = mem[q]
    BY <1>1, <2>2 DEF IInv, TypeOK
  <2>4. /\ mem'[r].actor = mem[r].actor /\ mem'[r].s = mem[r].s /\ mem'[r].a = mem[r].a
        /\ mem'[r].rev = mem[r].rev /\ mem'[r].op = mem[r].op
    BY <2>1, <2>3 DEF Request
  <2> QED BY <1>1, <2>1, <2>3, <2>4, GotoTyped, WorldKeeps DEF Reread, world, IInv, TypeOK
<1>2. CASE Done(r)
  BY <1>2, DoneKeeps DEF Reread, world, IInv, TypeOK
<1> QED BY <1>1, <1>2 DEF Reread

LEMMA AdmitKeeps == ASSUME IInv, NEW r \in Phones, Admit(r) PROVE IInv'
<1>1. CASE Goto(r, "reread") /\ UNCHANGED <<sess, copy, mem>>
  BY <1>1, GotoTyped, WorldKeeps DEF Admit, IInv, TypeOK
<1>2. CASE /\ sess' = [sess EXCEPT ![mem[r].s] = "redeemed"]
           /\ copy' = Refreshed(Items \ Linked)
           /\ Goto(r, "reread") /\ UNCHANGED mem
  <2>1. /\ sess' \in [Sessions -> {"none", "ready", "redeemed"}] /\ copy' \in Lines
        /\ \A s \in Sessions : sess[s] = "redeemed" => sess'[s] = "redeemed"
    BY <1>2, RefreshedTyped DEF IInv, TypeOK
  <2> QED BY <1>2, <2>1, GotoTyped, WorldKeeps DEF Admit, IInv, TypeOK
<1>3. CASE Done(r) /\ UNCHANGED <<sess, copy>>
  BY <1>3, DoneKeeps DEF Admit, IInv, TypeOK
<1> QED BY <1>1, <1>2, <1>3 DEF Admit

(* Sessions, refunds, the copy and the catalogue. *)
LEMMA AroundKeeps ==
  ASSUME IInv,
         \/ \E s \in Sessions : MakeReady(s) \/ AdmittedElsewhere(s)
         \/ \E i \in Items : Refund(i) \/ CatalogueMoves(i)
         \/ CopyCatchesUp
  PROVE  IInv'
<1> USE DEF IInv
<1>1. ASSUME NEW s \in Sessions, MakeReady(s) \/ AdmittedElsewhere(s) PROVE IInv'
  BY <1>1, WorldKeeps DEF MakeReady, AdmittedElsewhere, TypeOK
<1>2. ASSUME NEW i \in Items, Refund(i) PROVE IInv'
  <2>1. roller[i] \in 0..MaxUnits /\ roller[i] > 0 /\ MaxUnits \in Nat
    BY <1>2, HandoutAssumption DEF Refund, TypeOK, Lines
  <2>2. roller' \in Lines
    BY <1>2, <2>1 DEF Refund, TypeOK, Lines
  <2> QED BY <1>2, <2>2, WorldKeeps DEF Refund, TypeOK
<1>3. ASSUME NEW i \in Items, CatalogueMoves(i) PROVE IInv'
  BY <1>3, WorldKeeps DEF CatalogueMoves, TypeOK, Areas
<1>4. CASE CopyCatchesUp
  BY <1>4, WorldKeeps DEF CopyCatchesUp, TypeOK
<1> QED BY <1>1, <1>2, <1>3, <1>4

-----------------------------------------------------------------------------
(* Steps that change a claim.                                                *)

(* A request as the phones send it. *)
LEMMA AskTyped ==
  ASSUME TypeOK, NEW actor \in Actors, NEW s \in Sessions, NEW a \in Areas, NEW m,
         m = Ask(actor, s, a)
  PROVE  /\ m \in Request /\ m.actor = actor /\ m.s = s /\ m.a = a /\ m.rev = claim[a].rev
         /\ m.rev \in 0..MaxRevision
<1>1. Manifest(a) \in Lines
  BY HandoutAssumption DEF Manifest, Lines, TypeOK
<1>2. claim[a].rev \in 0..MaxRevision
  BY DEF TypeOK, Claim
<1> QED BY <1>1, <1>2 DEF Ask, Request

(* A step on claims alone. *)
LEMMA ClaimKeeps ==
  ASSUME IInv, UNCHANGED ops, UNCHANGED world, ClaimInv', claim' \in [Areas -> Claim],
         pc' \in [Phones -> {"idle", "refresh", "admit", "reread", "complete"}],
         mem' \in [Phones -> Request], Asked'
  PROVE  IInv'
<1> USE DEF IInv, world
<1>1. TypeOK'
  BY DEF TypeOK
<1>2. AdmissionReceipt'
  BY DEF AdmissionReceipt, Completed
<1> QED BY <1>1, <1>2

(* A selection claims the group; nothing was pending. *)
LEMMA SelectKeeps ==
  ASSUME IInv, NEW actor \in Actors, NEW s \in Sessions, NEW a \in Areas, NEW sel \in Lines,
         NEW m, m = Ask(actor, s, a), Select(m, sel)
  PROVE  IInv'
<1> DEFINE c == [actor |-> m.actor, live |-> TRUE, session |-> m.s, rev |-> claim[a].rev + 1,
                 sel |-> sel, pending |-> None]
<1>1. /\ m.actor = actor /\ m.s = s /\ m.a = a /\ m.rev = claim[a].rev
      /\ claim[a].rev \in 0..MaxRevision /\ claim[a].rev < MaxRevision
  BY AskTyped DEF IInv, Select
<1>2. c \in Claim /\ claim[a].rev + 1 >= claim[a].rev
  BY <1>1, Constants DEF Claim
<1>3. claim' = [claim EXCEPT ![a] = c] /\ claim[a].pending = None /\ ~Busy(m)
  BY <1>1 DEF Select
<1>4. \A b \in Areas \ {a} : ~(Live(claim[b]) /\ claim[b].actor = c.actor)
  BY <1>1, <1>3 DEF Busy
<1>5. c.rev = claim[a].rev + 1 /\ c.pending = None
  OBVIOUS
<1> HIDE DEF c
<1>6. TypeOK /\ ClaimInv /\ UNCHANGED ops
  BY DEF IInv, Select
<1>7. c.rev >= claim[a].rev /\ c.pending = claim[a].pending
  BY <1>2, <1>3, <1>5
<1>8. ClaimInv' /\ claim' \in [Areas -> Claim]
  BY <1>2, <1>3, <1>4, <1>5, <1>6, <1>7, ClaimChanges
<1>9. Asked'
  BY DEF IInv, Asked, Select, Id
<1> QED BY <1>8, <1>9, ClaimKeeps DEF Select, IInv, TypeOK

(* The owner gives an unconfirmed selection up. *)
LEMMA ClearedTyped ==
  ASSUME NEW c \in Claim, c.rev < MaxRevision
  PROVE  /\ Cleared(c) \in Claim /\ ~Live(Cleared(c))
         /\ Cleared(c).rev = c.rev + 1 /\ Cleared(c).pending = None
<1>1. c.rev \in 0..MaxRevision /\ c.rev + 1 \in 0..MaxRevision
  BY Constants DEF Claim
<1> QED BY <1>1, Constants DEF Claim, Cleared, Live

LEMMA ReleaseKeeps ==
  ASSUME IInv, NEW actor \in Actors, NEW s \in Sessions, NEW a \in Areas,
         NEW m, m = Ask(actor, s, a), Release(m)
  PROVE  IInv'
<1>1. m.a = a /\ m.rev = claim[a].rev /\ claim[a].rev \in 0..MaxRevision /\ claim[a] \in Claim
  BY AskTyped DEF IInv, TypeOK
<1>2. /\ claim' = [claim EXCEPT ![a] = Cleared(claim[a])]
      /\ claim[a].pending = None /\ claim[a].rev < MaxRevision
  BY <1>1 DEF Release
<1>3. /\ Cleared(claim[a]) \in Claim /\ ~Live(Cleared(claim[a]))
      /\ Cleared(claim[a]).rev >= claim[a].rev /\ Cleared(claim[a]).pending = None
  BY <1>1, <1>2, ClearedTyped
<1>4. ClaimInv' /\ claim' \in [Areas -> Claim]
  BY <1>2, <1>3, ClaimChanges DEF IInv, Release
<1>5. Asked'
  BY DEF IInv, Asked, Release, Id
<1> QED BY <1>4, <1>5, ClaimKeeps DEF Release, IInv, TypeOK

(* A lease runs out. *)
LEMMA LeaseEndsKeeps == ASSUME IInv, NEW a \in Areas, LeaseEnds(a) PROVE IInv'
<1> DEFINE c == [claim[a] EXCEPT !.live = FALSE]
<1>1. claim[a] \in Claim /\ claim[a].rev \in Nat
  BY Constants DEF IInv, TypeOK, Claim
<1>2. /\ c \in Claim /\ ~c.live /\ c.rev = claim[a].rev
      /\ c.pending = claim[a].pending /\ c.session = claim[a].session
  BY <1>1 DEF Claim
<1>3. claim' = [claim EXCEPT ![a] = c]
  BY DEF LeaseEnds
<1> HIDE DEF c
<1>4. c.rev >= claim[a].rev /\ ~Live(c)
  BY <1>1, <1>2 DEF Live
<1>5. ClaimInv' /\ claim' \in [Areas -> Claim]
  BY <1>2, <1>3, <1>4, ClaimChanges DEF IInv, LeaseEnds
<1>6. Asked'
  BY DEF IInv, Asked, LeaseEnds, Id
<1> QED BY <1>5, <1>6, ClaimKeeps DEF LeaseEnds, IInv, TypeOK

(* A renewed lease, of an actor who holds no other selection. *)
LEMMA LeaseRenewed ==
  ASSUME IInv, UNCHANGED ops, NEW a \in Areas, NEW actor \in Actors, NEW m,
         m.actor = actor, m.a = a, ~Busy(m),
         claim' = [claim EXCEPT ![a].actor = actor, ![a].live = TRUE]
  PROVE  ClaimInv' /\ claim' \in [Areas -> Claim]
<1> DEFINE c == [claim[a] EXCEPT !.actor = actor, !.live = TRUE]
<1>1. claim[a] \in Claim /\ claim[a].rev \in Nat
  BY Constants DEF IInv, TypeOK, Claim
<1>2. /\ c \in Claim /\ c.actor = actor /\ c.rev = claim[a].rev
      /\ c.pending = claim[a].pending /\ c.session = claim[a].session
  BY <1>1 DEF Claim
<1>3. claim' = [claim EXCEPT ![a] = c]
  BY DEF IInv, TypeOK
<1> HIDE DEF c
<1>4. \A b \in Areas \ {a} : ~(Live(claim[b]) /\ claim[b].actor = c.actor)
  BY <1>2 DEF Busy
<1>5. c.rev >= claim[a].rev
  BY <1>1, <1>2
<1> QED BY <1>2, <1>3, <1>4, <1>5, ClaimChanges DEF IInv

(* The phone remembers the operation it has started or resumed. *)
LEMMA StartedTyped ==
  ASSUME TypeOK, NEW r \in Phones, NEW m \in Request, NEW id \in OpId, Started(r, m, id)
  PROVE  /\ pc' \in [Phones -> {"idle", "refresh", "admit", "reread", "complete"}]
         /\ mem' \in [Phones -> Request]
         /\ \A q \in Phones \ {r} : pc'[q] = pc[q] /\ mem'[q] = mem[q]
         /\ mem'[r].op = id /\ mem'[r].actor = m.actor /\ mem'[r].s = m.s
         /\ mem'[r].a = m.a /\ mem'[r].rev = m.rev
<1>1. [m EXCEPT !.op = id, !.man = NoLines] \in Request
  BY Constants DEF Request
<1>2. mem' = [mem EXCEPT ![r] = [m EXCEPT !.op = id, !.man = NoLines]] /\ Goto(r, "refresh")
  BY DEF Started
<1>3. /\ mem' \in [Phones -> Request] /\ mem'[r] = [m EXCEPT !.op = id, !.man = NoLines]
      /\ \A q \in Phones \ {r} : mem'[q] = mem[q]
  BY <1>1, <1>2 DEF TypeOK
<1>4. /\ mem'[r].op = id /\ mem'[r].actor = m.actor /\ mem'[r].s = m.s
      /\ mem'[r].a = m.a /\ mem'[r].rev = m.rev
  BY <1>3 DEF Request
<1> QED BY <1>2, <1>3, <1>4, GotoTyped

(* A pending operation is resumed as the same operation. *)
LEMMA ResumeKeeps ==
  ASSUME IInv, NEW actor \in Actors, NEW s \in Sessions, NEW a \in Areas, NEW r \in Phones,
         NEW m, m = Ask(actor, s, a), Resume(r, m)
  PROVE  IInv'
<1>1. /\ m \in Request /\ m.actor = actor /\ m.s = s /\ m.a = a /\ m.rev = claim[a].rev
      /\ claim[a].pending # None /\ s = claim[a].session /\ ~Busy(m) /\ UNCHANGED ops
  BY AskTyped DEF IInv, Resume, Resumed
<1>2. claim[a].pending = Id(m) /\ Id(m) \in OpId /\ \E o \in ops : o.id = Id(m)
  BY <1>1 DEF IInv, TypeOK, Claim, ClaimInv, ClaimMatchesOperation, Pending, Id
<1>3. ClaimInv' /\ claim' \in [Areas -> Claim]
  BY <1>1, LeaseRenewed DEF Resume
<1>4. Started(r, m, Id(m))
  BY <1>1, <1>2 DEF Resume
<1>5. /\ pc' \in [Phones -> {"idle", "refresh", "admit", "reread", "complete"}]
      /\ mem' \in [Phones -> Request]
      /\ \A q \in Phones \ {r} : pc'[q] = pc[q] /\ mem'[q] = mem[q]
      /\ mem'[r].op = Id(m) /\ mem'[r].actor = m.actor /\ mem'[r].s = m.s
      /\ mem'[r].a = m.a /\ mem'[r].rev = m.rev
  BY <1>1, <1>2, <1>4, StartedTyped DEF IInv
<1>6. Asked'
  BY <1>1, <1>2, <1>5 DEF IInv, Asked, Id
<1> QED BY <1>1, <1>3, <1>5, <1>6, ClaimKeeps DEF Resume, Started

-----------------------------------------------------------------------------
(* Steps that record an operation, or its completion.                        *)

(* A new operation is of lines no pending one has, and of a new revision.    *)
LEMMA PrepareKeeps ==
  ASSUME IInv, NEW actor \in Actors, NEW s \in Sessions, NEW a \in Areas, NEW r \in Phones,
         NEW m, m = Ask(actor, s, a), Prepare(r, m)
  PROVE  IInv'
<1> USE DEF IInv
<1> DEFINE new == [id |-> Id(m), items |-> claim[a].sel, actor |-> m.actor, status |-> "pending"]
           c == [claim[a] EXCEPT !.pending = Id(m), !.live = TRUE]
<1>1. /\ m \in Request /\ m.actor = actor /\ m.s = s /\ m.a = a /\ m.rev = claim[a].rev
      /\ claim[a] \in Claim /\ claim[a].rev \in 0..MaxRevision /\ claim[a].rev \in Nat
  BY AskTyped, Constants DEF TypeOK, Claim
<1>2. /\ claim[a].pending = None /\ claim[a].actor = actor /\ ~Busy(m)
      /\ s = claim[a].session /\ LinesOK(m, claim[a].sel)
      /\ ops' = ops \cup {new} /\ Started(r, m, Id(m))
  BY <1>1 DEF Prepare
<1>3. Id(m) = <<s, a, claim[a].rev>> /\ Id(m) \in OpId
  BY <1>1 DEF Id, OpId
<1>4. /\ c \in Claim /\ c.pending = Id(m) /\ c.rev = claim[a].rev /\ c.session = s
      /\ c.actor = actor
  BY <1>1, <1>2, <1>3 DEF Claim
<1>5. claim' = [claim EXCEPT ![a] = c]
  BY <1>1 DEF Prepare, TypeOK
<1>6. new \in Operation /\ new.id = Id(m) /\ new.items = claim[a].sel /\ new.status = "pending"
  BY <1>1, <1>3 DEF Operation, Claim
<1> HIDE DEF new, c
<1>7. /\ claim' \in [Areas -> Claim] /\ claim'[a] = c
      /\ \A b \in Areas \ {a} : claim'[b] = claim[b]
  BY <1>4, <1>5 DEF TypeOK
<1>8. Pending' = Pending \cup {new} /\ Completed' = Completed
  BY <1>2, <1>6 DEF Pending, Completed
<1>9. \A o \in ops : o.id \in OpId /\ o.id[2] \in Areas /\ o.id[3] \in Nat /\ o.id[1] \in Sessions
  BY IdParts DEF TypeOK, Operation
<1>10. \A o \in Pending : o.id[2] # a
  BY <1>2, <1>9, Constants DEF ClaimInv, ClaimMatchesOperation, Pending
<1>11. OneSelectionPerActor'
  BY <1>1, <1>2, <1>4, <1>7 DEF ClaimInv, OneSelectionPerActor, Live, Busy
<1>12. ClaimMatchesOperation'
  <2>1. \A b \in Areas : claim'[b].pending # None =>
           /\ claim'[b].pending = <<claim'[b].session, b, claim'[b].rev>>
           /\ \E o \in Pending' : o.id = claim'[b].pending
    BY <1>3, <1>4, <1>6, <1>7, <1>8 DEF ClaimInv, ClaimMatchesOperation
  <2>2. new.id[2] = a
    BY <1>3, <1>6
  <2>3. \A o \in Pending' : claim'[o.id[2]].pending = o.id
    BY <1>4, <1>6, <1>7, <1>8, <1>9, <1>10, <2>2 DEF ClaimInv, ClaimMatchesOperation, Pending
  <2> QED BY <2>1, <2>3 DEF ClaimMatchesOperation
<1>13. PendingReservesItem'
  <2>1. \A o \in Pending : \A i \in Items : claim[a].sel[i] > 0 => ~(o.items[i] > 0)
    BY <1>2 DEF LinesOK, LineOK, Reserved
  <2>2. ASSUME NEW o1 \in Pending', NEW o2 \in Pending',
               NEW i \in Items, o1.items[i] > 0, o2.items[i] > 0
        PROVE  o1 = o2
    BY <1>6, <1>8, <2>1, <2>2 DEF ClaimInv, PendingReservesItem
  <2> QED BY <2>2 DEF PendingReservesItem
<1>14. \A o \in ops : o.id # new.id
  <2> SUFFICES ASSUME NEW o \in ops, o.id = new.id PROVE FALSE
    OBVIOUS
  <2>1. o.id[2] = a /\ o.id[3] = claim[a].rev
    BY <1>3, <1>6
  <2>2. o.status = "completed"
    BY <1>10, <2>1 DEF Pending, TypeOK, Operation
  <2> QED BY <1>1, <2>1, <2>2 DEF ClaimInv, Recorded
<1>15. Recorded'
  <2>1. new.id[2] = a /\ new.id[3] = claim[a].rev
    BY <1>3, <1>6
  <2>2. \A b \in Areas : claim'[b].rev = claim[b].rev
    BY <1>4, <1>7
  <2> QED BY <1>1, <1>2, <1>6, <1>9, <2>1, <2>2 DEF ClaimInv, Recorded
<1>16. OneId'
  BY <1>2, <1>14 DEF ClaimInv, OneId
<1>17. /\ pc' \in [Phones -> {"idle", "refresh", "admit", "reread", "complete"}]
       /\ mem' \in [Phones -> Request]
       /\ \A q \in Phones \ {r} : pc'[q] = pc[q] /\ mem'[q] = mem[q]
       /\ mem'[r].op = Id(m) /\ mem'[r].actor = m.actor /\ mem'[r].s = m.s
       /\ mem'[r].a = m.a /\ mem'[r].rev = m.rev
  BY <1>1, <1>2, <1>3, StartedTyped
<1>18. Asked'
  <2>1. \E o \in ops' : o.id = Id(m)
    BY <1>2, <1>6
  <2> QED BY <1>1, <1>2, <1>17, <2>1 DEF Asked, Id
<1>19. TypeOK'
  BY <1>2, <1>6, <1>7, <1>17 DEF TypeOK, Prepare, Started, world
<1>20. AdmissionReceipt'
  BY <1>2, <1>8 DEF AdmissionReceipt, Started, world
<1> QED BY <1>11, <1>12, <1>13, <1>15, <1>16, <1>18, <1>19, <1>20 DEF ClaimInv

(* Completing the operation of a claim and clearing the claim go together.   *)
LEMMA ReceiptKeeps ==
  ASSUME IInv, NEW r \in Phones, NEW m, m = mem[r], pc[r] = "complete",
         ~Refused(m), claim[m.a].pending # None, Admitted(m), claim[m.a].rev < MaxRevision,
         ops' = {IF o.id = claim[m.a].pending THEN [o EXCEPT !.status = "completed"] ELSE o :
                  o \in ops},
         claim' = [claim EXCEPT ![m.a] = Receipted(@)],
         Done(r), UNCHANGED world
  PROVE  IInv'
<1> USE DEF IInv
<1> DEFINE a == m.a
           id == claim[a].pending
           done(o) == IF o.id = id THEN [o EXCEPT !.status = "completed"] ELSE o
<1>1. /\ m \in Request /\ m.actor \in Actors /\ m.s \in Sessions /\ a \in Areas /\ m.op = Id(m)
      /\ claim[a] \in Claim /\ claim[a].rev \in Nat
  BY Constants DEF TypeOK, Asked, Claim
<1>2. /\ id = <<claim[a].session, a, claim[a].rev>> /\ id \in OpId
      /\ \E o \in Pending : o.id = id
  BY <1>1 DEF ClaimInv, ClaimMatchesOperation, TypeOK, Claim
<1>3. id = m.op /\ id[1] = m.s /\ id[2] = a /\ id[3] = claim[a].rev
  <2>1. claim[a].rev = m.rev
    BY DEF Refused
  <2>2. claim[a].session \in Sessions
    BY <1>2, IdParts
  <2>3. claim[a].session = m.s
    BY <1>1, <2>2, Constants DEF Refused, ResumeRequired
  <2> QED BY <1>1, <1>2, <2>1, <2>3 DEF Id
<1>4. \A o \in ops : /\ o \in Operation /\ o.id \in OpId
                     /\ o.id[2] \in Areas /\ o.id[3] \in Nat /\ o.id[1] \in Sessions
  BY IdParts DEF TypeOK, Operation
<1>5. \A o \in ops : /\ done(o) \in Operation /\ done(o).id = o.id /\ done(o).items = o.items
                     /\ o.id = id => done(o).status = "completed"
                     /\ o.id # id => done(o) = o
  BY <1>4 DEF Operation
<1>6. ops' = {done(o) : o \in ops}
  OBVIOUS
<1> HIDE DEF done
<1>7. /\ claim' \in [Areas -> Claim] /\ claim'[a] = Cleared(claim[a])
      /\ \A b \in Areas \ {a} : claim'[b] = claim[b]
      /\ claim'[a].rev = claim[a].rev + 1 /\ claim'[a].pending = None /\ ~Live(claim'[a])
  BY <1>1, ClearedTyped DEF TypeOK, Receipted
<1>8. Pending' = {o \in Pending : o.id # id}
  <2>1. \A o \in ops : o.status = "pending" /\ o.id # id => o \in ops'
    BY <1>5, <1>6
  <2>2. \A o \in ops' : o.status = "pending" => o \in ops /\ o.id # id
    BY <1>5, <1>6
  <2> QED BY <2>1, <2>2 DEF Pending
<1>9. OneSelectionPerActor'
  BY <1>7 DEF ClaimInv, OneSelectionPerActor, Live
<1>10. ClaimMatchesOperation'
  <2>1. \A b \in Areas : claim'[b].pending # None =>
           /\ claim'[b].pending = <<claim'[b].session, b, claim'[b].rev>>
           /\ \E o \in Pending' : o.id = claim'[b].pending
    <3> SUFFICES ASSUME NEW b \in Areas, claim'[b].pending # None
                 PROVE  /\ claim'[b].pending = <<claim'[b].session, b, claim'[b].rev>>
                        /\ \E o \in Pending' : o.id = claim'[b].pending
      OBVIOUS
    <3>1. b # a /\ claim'[b] = claim[b]
      BY <1>7
    <3>2. claim[b].pending = <<claim[b].session, b, claim[b].rev>>
      BY <3>1 DEF ClaimInv, ClaimMatchesOperation
    <3>3. claim[b].pending # id
      BY <1>2, <3>1, <3>2
    <3> QED BY <1>8, <3>1, <3>2, <3>3 DEF ClaimInv, ClaimMatchesOperation
  <2>2. \A o \in Pending : o.id # id => o.id[2] # a
    BY DEF ClaimInv, ClaimMatchesOperation
  <2>3. \A o \in Pending' : claim'[o.id[2]].pending = o.id
    BY <1>4, <1>7, <1>8, <2>2 DEF ClaimInv, ClaimMatchesOperation, Pending
  <2> QED BY <2>1, <2>3 DEF ClaimMatchesOperation
<1>11. PendingReservesItem'
  BY <1>8 DEF ClaimInv, PendingReservesItem
<1>12. Recorded'
  <2> SUFFICES ASSUME NEW o \in ops
               PROVE  /\ done(o).id[3] <= claim'[done(o).id[2]].rev
                      /\ done(o).status = "completed"
                           => done(o).id[3] < claim'[done(o).id[2]].rev
    BY <1>6 DEF Recorded
  <2>1. o.id[3] <= claim[o.id[2]].rev
    BY DEF ClaimInv, Recorded
  <2>2. CASE o.id[2] = a
    BY <1>1, <1>4, <1>5, <1>7, <2>1, <2>2
  <2>3. CASE o.id[2] # a
    BY <1>3, <1>4, <1>5, <1>7, <2>3 DEF ClaimInv, Recorded
  <2> QED BY <2>2, <2>3
<1>13. OneId'
  BY <1>5, <1>6 DEF ClaimInv, OneId
<1>14. /\ pc' \in [Phones -> {"idle", "refresh", "admit", "reread", "complete"}]
       /\ mem' \in [Phones -> Request] /\ pc'[r] = "idle"
       /\ \A q \in Phones \ {r} : pc'[q] = pc[q] /\ mem'[q] = mem[q]
  BY DoneTyped
<1>15. Asked'
  <2>1. \A o \in ops : \E n \in ops' : n.id = o.id
    BY <1>5, <1>6
  <2> SUFFICES ASSUME NEW q \in Phones, pc'[q] # "idle"
               PROVE  /\ mem'[q].actor \in Actors /\ mem'[q].s \in Sessions
                      /\ mem'[q].a \in Areas /\ mem'[q].op = Id(mem'[q])
                      /\ \E o \in ops' : o.id = mem'[q].op
    BY DEF Asked, Id
  <2>2. pc[q] # "idle" /\ mem'[q] = mem[q]
    BY <1>14
  <2> QED BY <2>1, <2>2 DEF Asked
<1>16. TypeOK'
  <2>1. ops' \subseteq Operation
    BY <1>5, <1>6
  <2> QED BY <1>7, <1>14, <2>1 DEF TypeOK, world
<1>17. AdmissionReceipt'
  <2> SUFFICES ASSUME NEW o \in ops, done(o).status = "completed",
                      NEW i \in Admission, done(o).items[i] > 0
               PROVE  sess[done(o).id[1]] = "redeemed"
    BY <1>6 DEF AdmissionReceipt, Completed, world
  <2>1. CASE o.id = id
    <3>1. \E p \in ops : p.id = m.op
      BY <1>3, <2>1
    <3>2. TheOp(m) \in ops /\ TheOp(m).id = m.op
      BY <3>1 DEF TheOp
    <3>3. TheOp(m) = o
      BY <1>3, <2>1, <3>2 DEF ClaimInv, OneId
    <3> QED BY <1>3, <1>5, <2>1, <3>3 DEF Admitted, NeedsAdmission
  <2>2. CASE o.id # id
    BY <1>5, <2>2 DEF AdmissionReceipt, Completed
  <2> QED BY <2>1, <2>2
<1> QED BY <1>9, <1>10, <1>11, <1>12, <1>13, <1>15, <1>16, <1>17 DEF ClaimInv

(* A completion is replayed, refused, put off until the admission, or done.  *)
LEMMA CompleteKeeps == ASSUME IInv, NEW r \in Phones, Complete(r) PROVE IInv'
<1> DEFINE m == mem[r]
<1>1. CASE UNCHANGED <<claim, ops>>
  BY <1>1, DoneKeeps DEF Complete, world, IInv, TypeOK
<1>2. CASE /\ claim' = [claim EXCEPT ![m.a].actor = m.actor, ![m.a].live = TRUE]
           /\ UNCHANGED ops /\ ~Busy(m)
  <2>1. m.actor \in Actors /\ m.a \in Areas
    BY DEF IInv, Asked, Complete
  <2>2. ClaimInv' /\ claim' \in [Areas -> Claim]
    BY <1>2, <2>1, LeaseRenewed
  <2>3. /\ pc' \in [Phones -> {"idle", "refresh", "admit", "reread", "complete"}]
        /\ mem' \in [Phones -> Request] /\ pc'[r] = "idle"
        /\ \A q \in Phones \ {r} : pc'[q] = pc[q] /\ mem'[q] = mem[q]
    BY DoneTyped DEF IInv, Complete
  <2>4. Asked'
    BY <1>2, <2>3 DEF IInv, Asked, Id
  <2> QED BY <1>2, <2>2, <2>3, <2>4, ClaimKeeps DEF Complete
<1>3. CASE /\ ~Refused(m) /\ claim[m.a].pending # None /\ Admitted(m)
           /\ claim[m.a].rev < MaxRevision
           /\ ops' = {IF o.id = claim[m.a].pending THEN [o EXCEPT !.status = "completed"]
                      ELSE o : o \in ops}
           /\ claim' = [claim EXCEPT ![m.a] = Receipted(@)]
  BY <1>3, ReceiptKeeps DEF Complete
<1> QED BY <1>1, <1>2, <1>3 DEF Complete

-----------------------------------------------------------------------------

(* Every step preserves the inductive invariant.                             *)
LEMMA StepInv == IInv /\ [Next]_vars => IInv'
<1> SUFFICES ASSUME IInv, [Next]_vars PROVE IInv'
  OBVIOUS
<1>1. ASSUME NEW actor \in Actors, NEW s \in Sessions, NEW a \in Areas, NEW m,
             m = Ask(actor, s, a),
             \/ \E sel \in Lines : Select(m, sel)
             \/ Release(m)
             \/ \E r \in Phones : Prepare(r, m) \/ Resume(r, m)
      PROVE  IInv'
  BY <1>1, SelectKeeps, ReleaseKeeps, PrepareKeeps, ResumeKeeps
<1>2. ASSUME NEW r \in Phones, Serve(r) PROVE IInv'
  BY <1>2, RefreshKeeps, FailsKeeps, RereadKeeps, AdmitKeeps, CompleteKeeps DEF Serve
<1>3. ASSUME NEW a \in Areas, LeaseEnds(a) PROVE IInv'
  BY <1>3, LeaseEndsKeeps
<1>4. CASE \/ \E s \in Sessions : MakeReady(s) \/ AdmittedElsewhere(s)
           \/ \E i \in Items : Refund(i) \/ CatalogueMoves(i)
           \/ CopyCatchesUp
  BY <1>4, AroundKeeps
<1>5. CASE UNCHANGED vars
  BY <1>5, WorldKeeps DEF vars, IInv, TypeOK
<1> QED BY <1>1, <1>2, <1>3, <1>4, <1>5 DEF Next

(* The inductive invariant holds throughout.                                 *)
LEMMA InvAlways == Spec => []IInv
BY InitInv, StepInv, PTL DEF Spec

(* Claims, operations, sessions and requests keep their types.               *)
THEOREM HandoutTypes == Spec => []TypeOK
BY InvAlways, PTL DEF IInv

(* One actor never holds a live selection at both counters.                  *)
THEOREM OneSelectionAlways == Spec => []OneSelectionPerActor
BY InvAlways, PTL DEF IInv, ClaimInv

(* The claims point at exactly the pending operations, of their own counter, *)
(* session and revision.                                                     *)
THEOREM ClaimMatchesAlways == Spec => []ClaimMatchesOperation
BY InvAlways, PTL DEF IInv, ClaimInv

(* No purchased line is in two pending operations.                           *)
THEOREM PendingReservesAlways == Spec => []PendingReservesItem
BY InvAlways, PTL DEF IInv, ClaimInv

(* Bands are receipted only when their session was redeemed.                 *)
THEOREM AdmissionReceiptAlways == Spec => []AdmissionReceipt
BY InvAlways, PTL DEF IInv

(* What a step does with an operation that is recorded.                      *)
LEMMA IntentStep ==
  ASSUME IInv, [Next]_vars, NEW o \in ops
  PROVE  o \in ops' \/ (o.status = "pending" /\ [o EXCEPT !.status = "completed"] \in ops')
<1>1. ASSUME ops' = ops \/ ops \subseteq ops' \/
             \E id : ops' = {IF p.id = id THEN [p EXCEPT !.status = "completed"] ELSE p : p \in ops}
      PROVE  o \in ops' \/ (o.status = "pending" /\ [o EXCEPT !.status = "completed"] \in ops')
  <2>1. CASE ops \subseteq ops'
    BY <1>1, <2>1
  <2>2. CASE \E id : ops' = {IF p.id = id THEN [p EXCEPT !.status = "completed"] ELSE p : p \in ops}
    <3>1. PICK id : ops' = {IF p.id = id THEN [p EXCEPT !.status = "completed"] ELSE p : p \in ops}
      BY <2>2
    <3>2. o \in ops' \/ [o EXCEPT !.status = "completed"] \in ops'
      BY <1>1, <3>1
    <3>3. o \in Operation
      BY <1>1 DEF IInv, TypeOK
    <3>4. o.status # "pending" => [o EXCEPT !.status = "completed"] = o
      BY <3>3 DEF Operation
    <3> QED BY <3>2, <3>4
  <2> QED BY <1>1, <2>1, <2>2
<1>2. ASSUME Next
      PROVE  \/ ops' = ops \/ ops \subseteq ops'
             \/ \E id : ops' = {IF p.id = id THEN [p EXCEPT !.status = "completed"] ELSE p :
                                  p \in ops}
  <2>1. ASSUME NEW actor \in Actors, NEW s \in Sessions, NEW a \in Areas, NEW m,
               m = Ask(actor, s, a),
               \/ \E sel \in Lines : Select(m, sel)
               \/ Release(m)
               \/ \E r \in Phones : Prepare(r, m) \/ Resume(r, m)
        PROVE  ops' = ops \/ ops \subseteq ops'
    BY <2>1 DEF Select, Release, Prepare, Resume, Resumed
  <2>2. ASSUME NEW r \in Phones, Complete(r)
        PROVE  \/ ops' = ops
               \/ \E id : ops' = {IF p.id = id THEN [p EXCEPT !.status = "completed"] ELSE p :
                                    p \in ops}
    BY <2>2 DEF Complete
  <2>3. ASSUME NEW r \in Phones, Refresh(r) \/ Fails(r) \/ Reread(r) \/ Admit(r)
        PROVE  ops' = ops
    BY <2>3 DEF Refresh, Fails, Reread, Admit
  <2>4. CASE \/ \E a \in Areas : LeaseEnds(a)
             \/ \E s \in Sessions : MakeReady(s) \/ AdmittedElsewhere(s)
             \/ \E i \in Items : Refund(i) \/ CatalogueMoves(i)
             \/ CopyCatchesUp
    BY <2>4 DEF LeaseEnds, MakeReady, AdmittedElsewhere, Refund, CatalogueMoves, CopyCatchesUp
  <2> QED BY <1>2, <2>1, <2>2, <2>3, <2>4 DEF Next, Serve
<1>3. CASE UNCHANGED vars
  BY <1>3 DEF vars
<1> QED BY <1>1, <1>2, <1>3

(* A recorded operation is never changed or removed, but for its completion. *)
THEOREM IntentKeptAlways == Spec => IntentKept
<1>1. IInv /\ [Next]_vars
      => [\A o \in ops : o \in ops' \/ (o.status = "pending" /\ [o EXCEPT !.status = "completed"] \in ops')]_vars
  BY IntentStep
<1> QED BY <1>1, InvAlways, PTL DEF Spec, IntentKept

-----------------------------------------------------------------------------
(* What is collected of a line, counted in units.                            *)

(* Neither ROLLER nor the local copy has more of a line than was bought.     *)
InStock == \A i \in Items : roller[i] <= Quantity[i] /\ copy[i] <= Quantity[i]

(* What a pending operation holds fits beside what is collected already.     *)
Room ==
  \A o \in Pending, i \in Items : o.items[i] > 0 => Collected(i) + o.items[i] <= Quantity[i]

CollectInv == IsFiniteSet(ops) /\ InStock /\ NeverOverCollected /\ Room

(* The units of finitely many operations can be counted.                     *)
LEMMA UnitsFinite ==
  ASSUME NEW S, IsFiniteSet(S), NEW i \in Items
  PROVE  IsFiniteSet(Units(S, i)) /\ Cardinality(Units(S, i)) \in Nat
<1>1. IsFiniteSet(1..MaxUnits)
  BY FS_Interval, HandoutAssumption
<1>2. IsFiniteSet(S \X (1..MaxUnits))
  BY <1>1, FS_Product
<1>3. Units(S, i) \in SUBSET (S \X (1..MaxUnits))
  BY DEF Units
<1>4. IsFiniteSet(Units(S, i))
  BY <1>2, <1>3, FS_Subset
<1> QED BY <1>4, FS_CardinalityType

(* One operation has as many units of a line as its quantity says.           *)
LEMMA UnitsOfOne ==
  ASSUME NEW o \in Operation, NEW i \in Items
  PROVE  /\ IsFiniteSet(Units({o}, i)) /\ Cardinality(Units({o}, i)) = o.items[i]
         /\ o.items[i] \in Nat
<1>1. o.items[i] \in 0..MaxUnits /\ MaxUnits \in Nat
  BY HandoutAssumption DEF Operation, Lines
<1> DEFINE n == o.items[i]
           f == [k \in 1..n |-> <<o, k>>]
<1>2. Units({o}, i) = {<<o, k>> : k \in 1..n}
  BY <1>1 DEF Units
<1>3. f \in Bijection(1..n, Units({o}, i))
  <2>1. f \in [1..n -> Units({o}, i)]
    BY <1>2
  <2>2. \A u \in Units({o}, i) : \E k \in 1..n : f[k] = u
    BY <1>2
  <2>3. \A j, k \in 1..n : f[j] = f[k] => j = k
    OBVIOUS
  <2> QED BY <2>1, <2>2, <2>3, Fun_IsBij
<1>4. ExistsBijection(1..n, Units({o}, i))
  BY <1>3 DEF ExistsBijection
<1>5. IsFiniteSet(1..n) /\ Cardinality(1..n) = n
  <2>1. n \in Nat /\ n \in Int /\ 1 \in Int
    BY <1>1
  <2> HIDE DEF n
  <2>2. IsFiniteSet(1..n) /\ Cardinality(1..n) = IF 1 > n THEN 0 ELSE n - 1 + 1
    BY <2>1, FS_Interval
  <2> QED BY <2>1, <2>2
<1> QED BY <1>1, <1>4, <1>5, FS_Bijection

(* More operations have no fewer units, and one more adds its own at most.   *)
LEMMA UnitsGrow ==
  ASSUME NEW S, IsFiniteSet(S), NEW o \in Operation, NEW i \in Items
  PROVE  Cardinality(Units(S \cup {o}, i)) <= Cardinality(Units(S, i)) + o.items[i]
<1>1. Units(S \cup {o}, i) = Units(S, i) \cup Units({o}, i)
  BY DEF Units
<1> DEFINE U == Units(S, i)
           V == Units({o}, i)
<1>2. IsFiniteSet(U) /\ Cardinality(U) \in Nat
  BY UnitsFinite
<1>3. IsFiniteSet(V) /\ Cardinality(V) = o.items[i] /\ o.items[i] \in Nat
  BY UnitsOfOne
<1> HIDE DEF U, V
<1>4. Cardinality(U \cap V) \in Nat
  BY <1>2, FS_Intersection, FS_CardinalityType
<1>5. Cardinality(U \cup V) = Cardinality(U) + Cardinality(V) - Cardinality(U \cap V)
  BY <1>2, <1>3, FS_Union
<1>6. Cardinality(U \cup V) <= Cardinality(U) + o.items[i]
  BY <1>2, <1>3, <1>4, <1>5
<1> QED BY <1>1, <1>6 DEF U, V

(* Steps that record nothing, and bring no line above what was bought.       *)
LEMMA StockKeeps ==
  ASSUME CollectInv, UNCHANGED ops, InStock'
  PROVE  CollectInv'
<1>1. Pending' = Pending /\ \A i \in Items : Collected(i)' = Collected(i)
  BY DEF Pending, Collected, Completed, Units
<1> QED BY <1>1 DEF CollectInv, NeverOverCollected, Room

(* A refresh takes what ROLLER has.                                          *)
LEMMA RefreshedInStock ==
  ASSUME InStock, NEW S, copy' = Refreshed(S) \/ UNCHANGED copy, UNCHANGED roller
  PROVE  InStock'
BY DEF InStock, Refreshed

(* A new operation holds no more than is left of a line.                     *)
LEMMA PrepareCollects ==
  ASSUME IInv, CollectInv, NEW actor \in Actors, NEW s \in Sessions, NEW a \in Areas,
         NEW r \in Phones, NEW m, m = Ask(actor, s, a), Prepare(r, m)
  PROVE  CollectInv'
<1> DEFINE new == [id |-> Id(m), items |-> claim[a].sel, actor |-> m.actor, status |-> "pending"]
<1>1. /\ m.a = a /\ LinesOK(m, claim[a].sel) /\ ops' = ops \cup {new}
      /\ UNCHANGED <<roller, copy>> /\ claim[a].sel \in Lines
  BY AskTyped DEF IInv, TypeOK, Claim, Prepare, Started, world
<1>2. new.items = claim[a].sel /\ new.status = "pending"
  OBVIOUS
<1> HIDE DEF new
<1>3. Pending' = Pending \cup {new} /\ Completed' = Completed
  BY <1>1, <1>2 DEF Pending, Completed
<1>4. \A i \in Items : Collected(i)' = Collected(i) /\ Collected(i) \in Nat
  <2>1. IsFiniteSet(Completed)
    BY FS_Subset DEF CollectInv, Completed
  <2> QED BY <1>3, <2>1, UnitsFinite DEF Collected, Units
<1>5. IsFiniteSet(ops')
  BY <1>1, FS_AddElement DEF CollectInv
<1>6. \A i \in Items : m.man[i] \in Nat /\ m.man[i] <= Quantity[i]
  <2>1. \A i \in Items : copy[i] \in Nat /\ copy[i] <= Quantity[i] /\ Quantity[i] \in Nat
    BY HandoutAssumption DEF IInv, TypeOK, Lines, CollectInv, InStock
  <2>2. m.man = Manifest(a)
    BY DEF Ask
  <2> QED BY <2>1, <2>2 DEF Manifest
<1>7. ASSUME NEW i \in Items, new.items[i] > 0
      PROVE  Collected(i) + new.items[i] <= Quantity[i]
  <2>1. claim[a].sel[i] <= Remaining(m, i) /\ claim[a].sel[i] > 0
    BY <1>1, <1>2, <1>7 DEF LinesOK, LineOK
  <2>2. MaxUnits \in Nat /\ Quantity[i] \in 1..MaxUnits /\ claim[a].sel[i] \in 0..MaxUnits
    BY <1>1, HandoutAssumption DEF Lines
  <2> QED BY <1>2, <1>4, <1>6, <2>1, <2>2 DEF Remaining
<1>8. Room'
  BY <1>3, <1>4, <1>7 DEF CollectInv, Room
<1>9. NeverOverCollected' /\ InStock'
  BY <1>1, <1>4 DEF CollectInv, NeverOverCollected, InStock
<1> QED BY <1>5, <1>8, <1>9 DEF CollectInv

(* A receipt completes the pending operation the phone asks about, and adds  *)
(* its units to what is collected.                                           *)
LEMMA ReceiptOf ==
  ASSUME IInv, IsFiniteSet(ops), NEW r \in Phones, Complete(r), ops' # ops
  PROVE  /\ IsFiniteSet(ops')
         /\ \E o \in Pending :
              /\ o = TheOp(mem[r]) /\ Pending' = Pending \ {o}
              /\ \A i \in Items : /\ Collected(i) \in Nat /\ Collected(i)' \in Nat
                                 /\ o.items[i] \in Nat
                                 /\ Collected(i)' <= Collected(i) + o.items[i]
<1> DEFINE m == mem[r]
           id == claim[m.a].pending
<1>1. /\ ops' = {IF o.id = id THEN [o EXCEPT !.status = "completed"] ELSE o : o \in ops}
      /\ id # None /\ ~Refused(m)
      /\ m.a \in Areas /\ m.s \in Sessions /\ m.op = Id(m)
  BY DEF Complete, IInv, Asked
<1>2. PICK o \in Pending : o.id = id
  BY <1>1 DEF IInv, ClaimInv, ClaimMatchesOperation
<1>3. o \in ops /\ o \in Operation /\ o.status = "pending" /\ o.id \in OpId
  BY DEF Pending, IInv, TypeOK, Operation
<1>4. id = m.op
  <2>1. id = <<claim[m.a].session, m.a, claim[m.a].rev>> /\ claim[m.a].rev = m.rev
    BY <1>1 DEF IInv, ClaimInv, ClaimMatchesOperation, Refused
  <2>2. claim[m.a].session \in Sessions
    BY <1>2, <1>3, <2>1, IdParts
  <2>3. claim[m.a].session = m.s
    BY <1>1, <2>2, Constants DEF Refused, ResumeRequired
  <2> QED BY <1>1, <2>1, <2>3 DEF Id
<1> HIDE DEF id
<1>5. \A p \in ops : p.id = id => p = o
  BY <1>2, <1>3 DEF IInv, ClaimInv, OneId
<1>6. o = TheOp(m)
  BY <1>2, <1>3, <1>4, <1>5 DEF TheOp
<1> DEFINE done == [o EXCEPT !.status = "completed"]
<1>7. done \in Operation /\ done.items = o.items /\ done.status = "completed"
  BY <1>3 DEF Operation
<1>8. ops' = (ops \ {o}) \cup {done}
  BY <1>1, <1>2, <1>3, <1>5
<1> HIDE DEF done
<1>9. Completed' = Completed \cup {done} /\ Pending' = Pending \ {o}
  BY <1>3, <1>7, <1>8 DEF Completed, Pending
<1>10. IsFiniteSet(Completed) /\ IsFiniteSet(ops')
  BY <1>8, FS_Subset, FS_RemoveElement, FS_AddElement DEF Completed
<1>11. ASSUME NEW i \in Items
       PROVE  /\ Collected(i) \in Nat /\ Collected(i)' \in Nat /\ o.items[i] \in Nat
              /\ Collected(i)' <= Collected(i) + o.items[i]
  <2>1. IsFiniteSet(Completed \cup {done})
    BY <1>10, FS_AddElement
  <2>2. /\ Cardinality(Units(Completed, i)) \in Nat
        /\ Cardinality(Units(Completed \cup {done}, i)) \in Nat
    BY <1>10, <2>1, UnitsFinite
  <2>3. Collected(i)' = Cardinality(Units(Completed \cup {done}, i))
    BY <1>9 DEF Collected, Units
  <2>4. o.items[i] \in Nat
    BY <1>3, UnitsOfOne
  <2>5. Cardinality(Units(Completed \cup {done}, i))
          <= Cardinality(Units(Completed, i)) + done.items[i]
    BY <1>7, <1>10, UnitsGrow
  <2> QED BY <1>7, <2>2, <2>3, <2>4, <2>5 DEF Collected
<1> QED BY <1>6, <1>9, <1>10, <1>11

(* A completed operation takes the room it held, and no other one's.         *)
LEMMA ReceiptCollects ==
  ASSUME IInv, CollectInv, NEW r \in Phones, Complete(r), ops' # ops
  PROVE  CollectInv'
<1>1. IsFiniteSet(ops') /\ UNCHANGED <<roller, copy>>
  BY ReceiptOf DEF CollectInv, Complete, world
<1>2. PICK o \in Pending :
        /\ Pending' = Pending \ {o}
        /\ \A i \in Items : /\ Collected(i) \in Nat /\ Collected(i)' \in Nat
                           /\ o.items[i] \in Nat
                           /\ Collected(i)' <= Collected(i) + o.items[i]
  BY ReceiptOf DEF CollectInv
<1>3. NeverOverCollected'
  <2> SUFFICES ASSUME NEW i \in Items PROVE Collected(i)' <= Quantity[i]
    BY DEF NeverOverCollected
  <2>1. Quantity[i] \in Nat /\ Collected(i) <= Quantity[i]
    BY HandoutAssumption DEF CollectInv, NeverOverCollected
  <2>2. o.items[i] > 0 => Collected(i) + o.items[i] <= Quantity[i]
    BY DEF CollectInv, Room
  <2> QED BY <1>2, <2>1, <2>2
<1>4. Room'
  <2> SUFFICES ASSUME NEW p \in Pending, p # o, NEW i \in Items, p.items[i] > 0
               PROVE  Collected(i)' + p.items[i] <= Quantity[i]
    BY <1>2 DEF Room
  <2>1. ~(o.items[i] > 0)
    BY DEF IInv, ClaimInv, PendingReservesItem
  <2>2. Collected(i) + p.items[i] <= Quantity[i]
    BY DEF CollectInv, Room
  <2>3. Quantity[i] \in Nat
    BY HandoutAssumption
  <2>4. p.items[i] \in Nat
    BY UnitsOfOne DEF IInv, TypeOK, Pending
  <2> QED BY <1>2, <2>1, <2>2, <2>3, <2>4
<1> QED BY <1>1, <1>3, <1>4 DEF CollectInv, InStock

(* Nothing is collected at first, and every step keeps the count.            *)
LEMMA CollectInit == Init => CollectInv
<1> SUFFICES ASSUME Init PROVE CollectInv
  OBVIOUS
<1>1. ops = {} /\ Pending = {} /\ Completed = {}
  BY DEF Init, Pending, Completed
<1>2. InStock
  BY HandoutAssumption DEF Init, InStock
<1>3. \A i \in Items : Units(Completed, i) = {}
  BY <1>1 DEF Units
<1>4. NeverOverCollected
  <2>1. \A i \in Items : Quantity[i] \in 1..MaxUnits /\ MaxUnits \in Nat
    BY HandoutAssumption
  <2>2. \A i \in Items : Collected(i) = 0
    BY <1>3, FS_EmptySet DEF Collected
  <2> QED BY <2>1, <2>2 DEF NeverOverCollected
<1> QED BY <1>1, <1>2, <1>4, FS_EmptySet DEF CollectInv, Room

LEMMA CollectStep == IInv /\ CollectInv /\ [Next]_vars => CollectInv'
<1> SUFFICES ASSUME IInv, CollectInv, [Next]_vars PROVE CollectInv'
  OBVIOUS
<1>0. InStock
  BY DEF CollectInv
<1>1. ASSUME NEW actor \in Actors, NEW s \in Sessions, NEW a \in Areas, NEW m,
             m = Ask(actor, s, a),
             \/ \E sel \in Lines : Select(m, sel)
             \/ Release(m)
             \/ \E r \in Phones : Prepare(r, m) \/ Resume(r, m)
      PROVE  CollectInv'
  <2>1. CASE \E r \in Phones : Prepare(r, m)
    BY <1>1, <2>1, PrepareCollects
  <2>2. CASE ~\E r \in Phones : Prepare(r, m)
    BY <1>0, <1>1, <2>2, StockKeeps
       DEF Select, Release, Resume, Resumed, Started, world, InStock
  <2> QED BY <2>1, <2>2
<1>2. ASSUME NEW r \in Phones, Complete(r) PROVE CollectInv'
  <2>1. CASE ops' # ops
    BY <1>2, <2>1, ReceiptCollects
  <2>2. CASE UNCHANGED ops
    BY <1>0, <1>2, <2>2, StockKeeps DEF Complete, world, InStock
  <2> QED BY <2>1, <2>2
<1>3. ASSUME NEW r \in Phones, Refresh(r) \/ Fails(r) \/ Reread(r) \/ Admit(r)
      PROVE  CollectInv'
  <2>1. /\ UNCHANGED <<ops, roller>>
        /\ UNCHANGED copy \/ \E S : copy' = Refreshed(S)
    BY <1>3 DEF Refresh, Fails, Reread, Admit, world
  <2> QED BY <1>0, <2>1, StockKeeps, RefreshedInStock
<1>4. ASSUME NEW i \in Items, Refund(i) PROVE CollectInv'
  <2>1. /\ roller[i] \in 0..MaxUnits /\ Quantity[i] \in 1..MaxUnits /\ MaxUnits \in Nat
        /\ roller[i] <= Quantity[i]
        /\ roller' = [roller EXCEPT ![i] = roller[i] - 1] /\ UNCHANGED <<ops, copy>>
    BY <1>0, <1>4, HandoutAssumption DEF Refund, IInv, TypeOK, Lines, InStock
  <2>2. \A j \in Items : roller'[j] <= Quantity[j]
    BY <1>0, <2>1 DEF InStock, IInv, TypeOK, Lines
  <2> QED BY <1>0, <2>1, <2>2, StockKeeps DEF InStock
<1>5. CASE \/ \E a \in Areas : LeaseEnds(a)
           \/ \E s \in Sessions : MakeReady(s) \/ AdmittedElsewhere(s)
           \/ \E i \in Items : CatalogueMoves(i)
           \/ CopyCatchesUp \/ UNCHANGED vars
  BY <1>0, <1>5, StockKeeps
     DEF LeaseEnds, MakeReady, AdmittedElsewhere, CatalogueMoves, CopyCatchesUp, vars, world, InStock
<1> QED BY <1>1, <1>2, <1>3, <1>4, <1>5 DEF Next, Serve

(* However the counters, lapsed leases and moved products interleave, no     *)
(* more units of a line are receipted than were bought.                      *)
THEOREM NeverOverCollectedAlways == Spec => []NeverOverCollected
<1>1. IInv /\ CollectInv /\ [Next]_vars => (IInv /\ CollectInv)'
  BY StepInv, CollectStep
<1> QED BY InitInv, CollectInit, <1>1, PTL DEF Spec, CollectInv
-----------------------------------------------------------------------------
(* What a confirmation hands out is still there.                             *)

(* A phone that is about to complete has seen every prepared line, with its  *)
(* quantity, in the manifest it has read again.                              *)
SeenAgain ==
  \A r \in Phones : pc[r] = "complete" =>
    \A o \in ops : o.id = mem[r].op => \A i \in Items : o.items[i] <= mem[r].man[i]

(* The operation a waiting phone asks about keeps its lines.                 *)
LEMMA SameLines ==
  ASSUME IInv, IInv', [Next]_vars, NEW id, \E p \in ops : p.id = id,
         NEW n \in ops', n.id = id
  PROVE  \E p \in ops : p.id = id /\ p.items = n.items
<1>1. PICK p \in ops : p.id = id
  OBVIOUS
<1>2. p \in Operation
  BY DEF IInv, TypeOK
<1>3. \E q \in ops' : q.id = id /\ q.items = p.items
  BY <1>1, <1>2, IntentStep DEF Operation
<1> QED BY <1>1, <1>3 DEF IInv, ClaimInv, OneId

(* A phone comes to the completion by the second reading only.               *)
LEMMA ComesToComplete ==
  ASSUME IInv, [Next]_vars, NEW r \in Phones, pc'[r] = "complete"
  PROVE  \/ pc[r] = "complete" /\ mem'[r] = mem[r]
         \/ Reread(r) /\ StillThere(mem[r], copy) /\ UNCHANGED ops
            /\ mem'[r].man = copy /\ mem'[r].op = mem[r].op
<1> USE DEF IInv
<1>1. ASSUME NEW actor \in Actors, NEW s \in Sessions, NEW a \in Areas, NEW m,
             m = Ask(actor, s, a),
             \/ \E sel \in Lines : Select(m, sel)
             \/ Release(m)
      PROVE  pc[r] = "complete" /\ mem'[r] = mem[r]
  BY <1>1 DEF Select, Release
<1>2. ASSUME NEW actor \in Actors, NEW s \in Sessions, NEW a \in Areas, NEW m,
             m = Ask(actor, s, a), NEW q \in Phones, Prepare(q, m) \/ Resume(q, m)
      PROVE  pc[r] = "complete" /\ mem'[r] = mem[r]
  BY <1>2 DEF Prepare, Resume, Started, Goto, TypeOK
<1>3. ASSUME NEW q \in Phones, Refresh(q) \/ Fails(q) \/ Admit(q) \/ Complete(q)
      PROVE  pc[r] = "complete" /\ mem'[r] = mem[r]
  BY <1>3 DEF Refresh, Fails, Admit, Complete, Done, Goto, TypeOK
<1>4. ASSUME NEW q \in Phones, Reread(q), q # r
      PROVE  pc[r] = "complete" /\ mem'[r] = mem[r]
  BY <1>4 DEF Reread, Done, Goto, TypeOK
<1>5. CASE Reread(r)
  <2>1. ~Done(r)
    BY DEF Done, Goto, TypeOK
  <2>2. mem' = [mem EXCEPT ![r] = [mem[r] EXCEPT !.man = copy]] /\ StillThere(mem[r], copy)
    BY <1>5, <2>1 DEF Reread
  <2>3. mem'[r] = [mem[r] EXCEPT !.man = copy] /\ mem[r] \in Request
    BY <2>2 DEF TypeOK
  <2>4. mem'[r].man = copy /\ mem'[r].op = mem[r].op
    BY <2>3 DEF Request
  <2> QED BY <1>5, <2>2, <2>4 DEF Reread
<1>6. CASE \/ \E a \in Areas : LeaseEnds(a)
           \/ \E s \in Sessions : MakeReady(s) \/ AdmittedElsewhere(s)
           \/ \E i \in Items : Refund(i) \/ CatalogueMoves(i)
           \/ CopyCatchesUp \/ UNCHANGED vars
  BY <1>6 DEF LeaseEnds, MakeReady, AdmittedElsewhere, Refund, CatalogueMoves, CopyCatchesUp, vars
<1> QED BY <1>1, <1>2, <1>3, <1>4, <1>5, <1>6 DEF Next, Serve

LEMMA SeenStep == IInv /\ SeenAgain /\ [Next]_vars => SeenAgain'
<1> SUFFICES ASSUME IInv, SeenAgain, [Next]_vars,
                    NEW r \in Phones, pc'[r] = "complete",
                    NEW n \in ops', n.id = mem'[r].op, NEW i \in Items
             PROVE  n.items[i] <= mem'[r].man[i]
  BY DEF SeenAgain
<1>1. IInv'
  BY StepInv
<1>2. CASE pc[r] = "complete" /\ mem'[r] = mem[r]
  <2>1. \E p \in ops : p.id = mem[r].op
    BY <1>2 DEF IInv, Asked
  <2>2. PICK p \in ops : p.id = mem[r].op /\ p.items = n.items
    BY <1>1, <1>2, <2>1, SameLines
  <2> QED BY <1>2, <2>2 DEF SeenAgain
<1>3. CASE /\ Reread(r) /\ StillThere(mem[r], copy) /\ UNCHANGED ops
           /\ mem'[r].man = copy /\ mem'[r].op = mem[r].op
  <2>1. TheOp(mem[r]) = n
    BY <1>3 DEF TheOp, IInv, ClaimInv, OneId
  <2> QED BY <1>3, <2>1 DEF StillThere
<1> QED BY <1>2, <1>3, ComesToComplete

(* A receipt names no more units of a line than the manifest, read again     *)
(* after the admission, still has: goods refunded before that are not handed *)
(* out with the first receipt of a line.  (What earlier receipts handed out  *)
(* of it is not looked at again: the run refunded.)                          *)
THEOREM FirstHandoutIsThere ==
  Spec => [][\A r \in Phones : (Complete(r) /\ ops' # ops) =>
               \A i \in Items : /\ TheOp(mem[r]).items[i] <= mem[r].man[i]
                                /\ Collected(i) = 0 => Collected(i)' <= mem[r].man[i]]_vars
<1>1. ASSUME IInv, CollectInv, SeenAgain, NEW r \in Phones, Complete(r), ops' # ops,
             NEW i \in Items
      PROVE  /\ TheOp(mem[r]).items[i] <= mem[r].man[i]
             /\ Collected(i) = 0 => Collected(i)' <= mem[r].man[i]
  <2>1. PICK o \in Pending : /\ o = TheOp(mem[r]) /\ o.items[i] \in Nat
                             /\ Collected(i)' \in Nat
                             /\ Collected(i)' <= Collected(i) + o.items[i]
    BY <1>1, ReceiptOf DEF CollectInv
  <2>2. o.id = mem[r].op
    <3>1. \E p \in ops : p.id = mem[r].op
      BY <1>1 DEF IInv, Asked, Complete
    <3> QED BY <2>1, <3>1 DEF TheOp
  <2>3. o.items[i] <= mem[r].man[i] /\ mem[r].man \in Lines
    BY <1>1, <2>2 DEF SeenAgain, Complete, Pending, IInv, TypeOK, Request
  <2>4. mem[r].man[i] \in Nat
    BY <2>3, HandoutAssumption DEF Lines
  <2> QED BY <2>1, <2>3, <2>4
<1>2. Init => SeenAgain
  BY DEF Init, SeenAgain
<1>3. IInv /\ CollectInv /\ SeenAgain /\ [Next]_vars => (IInv /\ CollectInv /\ SeenAgain)'
  BY StepInv, CollectStep, SeenStep
<1>4. IInv /\ CollectInv /\ SeenAgain /\ [Next]_vars
      => [\A r \in Phones : (Complete(r) /\ ops' # ops) =>
               \A i \in Items : /\ TheOp(mem[r]).items[i] <= mem[r].man[i]
                                /\ Collected(i) = 0 => Collected(i)' <= mem[r].man[i]]_vars
  BY <1>1
<1> QED BY InitInv, CollectInit, <1>2, <1>3, <1>4, PTL DEF Spec
=============================================================================
