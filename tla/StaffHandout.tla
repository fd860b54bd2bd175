---------------------------- MODULE StaffHandout ----------------------------
(***************************************************************************)
(* Staff hand out what a group has bought, at the entrance and in the café *)
(* (infra/lambda/redeem/index.js handleStaffHandout, and the database      *)
(* function change_staff_handout, migrations 0021 and 0022), for one visit *)
(* of one park.                                                            *)
(*                                                                         *)
(* change_staff_handout is one transaction under locks of the actor and    *)
(* the visit, so each of its actions is one step; the session, the         *)
(* manifest and ROLLER's bookings are read in steps of their own.  A phone *)
(* runs one request after another, for any actor who holds it.  A line of  *)
(* the manifest is an item with a quantity; a quantity of zero is no line. *)
(***************************************************************************)
EXTENDS Naturals, FiniteSetsExt

CONSTANTS Phones, Actors,
          Sessions,     \* check-in sessions of the visit
          Items,        \* purchased lines
          Admission,    \* the items that are bands
          Linked,       \* items bought later, on a linked booking
          Refundable,   \* items ROLLER may refund
          Quantity,     \* purchased units of each item
          MaxUnits,     \* bound on them
          Limit,        \* bands of a session's own tickets
          MaxRevision,  \* bound on the changes of one claim
          None

Areas == {"entrance", "cafe"}
Lines == [Items -> 0..MaxUnits]
NoLines == [i \in Items |-> 0]
OpId == Sessions \X Areas \X (0..MaxRevision)

ASSUME HandoutAssumption ==
  /\ Admission \subseteq Items /\ Linked \subseteq Items \ Admission
  /\ Refundable \subseteq Items
  /\ MaxUnits \in Nat /\ Quantity \in [Items -> 1..MaxUnits] /\ Limit \in [Sessions -> Nat]
  /\ MaxRevision \in Nat
  /\ None \notin Actors \cup Sessions \cup OpId

VARIABLES
  claim,     \* staff_handout_claims: the row of each area
  ops,       \* staff_handout_operations
  sess,      \* each session: none yet, ready for staff, or redeemed
  roller,    \* what ROLLER sells to the group now
  copy,      \* the local bookings: what the manifest is read from
  area,      \* the counter the catalogue puts an item at
  pc, mem    \* the confirmation each phone waits for

vars == <<claim, ops, sess, roller, copy, area, pc, mem>>
world == <<sess, roller, copy, area>>

Claim     == [actor : Actors \cup {None}, live : BOOLEAN, session : Sessions \cup {None},
              rev : 0..MaxRevision, sel : Lines, pending : OpId \cup {None}]
Operation == [id : OpId, items : Lines, actor : Actors, status : {"pending", "completed"}]
Request   == [actor : Actors \cup {None}, s : Sessions \cup {None}, a : Areas \cup {None},
              rev : 0..MaxRevision, man : Lines, admitted : BOOLEAN, op : OpId \cup {None}]

TypeOK ==
  /\ claim \in [Areas -> Claim] /\ ops \subseteq Operation
  /\ sess \in [Sessions -> {"none", "ready", "redeemed"}]
  /\ roller \in Lines /\ copy \in Lines /\ area \in [Items -> Areas]
  /\ pc \in [Phones -> {"idle", "refresh", "admit", "reread", "complete"}]
  /\ mem \in [Phones -> Request]

HomeArea == [i \in Items |-> IF i \in Admission THEN "entrance" ELSE "cafe"]
NoRequest == [actor |-> None, s |-> None, a |-> None, rev |-> 0, man |-> NoLines,
              admitted |-> FALSE, op |-> None]

Init ==
  /\ claim = [a \in Areas |-> [actor |-> None, live |-> FALSE, session |-> None, rev |-> 0,
                               sel |-> NoLines, pending |-> None]]
  /\ ops = {} /\ sess = [s \in Sessions |-> "none"]
  /\ roller = Quantity /\ copy = Quantity /\ area = HomeArea
  /\ pc = [r \in Phones |-> "idle"] /\ mem = [r \in Phones |-> NoRequest]

Goto(r, step) == pc' = [pc EXCEPT ![r] = step]
(* The request is answered.                                                 *)
Done(r) == Goto(r, "idle") /\ mem' = [mem EXCEPT ![r] = NoRequest]

-----------------------------------------------------------------------------
(* The tests of change_staff_handout, for the request m.                     *)

Id(m)        == <<m.s, m.a, m.rev>>
Pending      == {o \in ops : o.status = "pending"}
Completed    == {o \in ops : o.status = "completed"}
Live(c)      == c.actor # None /\ c.live
(* The sum of the quantities operations hand out of a line: their units.     *)
Units(S, i)  == {u \in S \X (1..MaxUnits) : u[2] <= u[1].items[i]}
Collected(i) == Cardinality(Units(Completed, i))
CollectedBy(s, i) == Cardinality(Units({o \in Completed : o.id[1] = s}, i))

GuestClaimed(m, c)   == Live(c) /\ c.actor # m.actor
ResumeRequired(m, c) == /\ c.session \notin {None, m.s}
                        /\ c.pending # None \/ (Live(c) /\ c.actor = m.actor)
(* Mutant: a colleague's other selection is not looked at. *)
BusyNever(m) == FALSE

Busy(m) == \E b \in Areas \ {m.a} : Live(claim[b]) /\ claim[b].actor = m.actor

Refused(m) == LET c == claim[m.a] IN
  GuestClaimed(m, c) \/ ResumeRequired(m, c) \/ m.rev # c.rev

(* A line must be in the counter's manifest, in no pending operation,  *)
(* and not collected yet; bands go to the whole group of the session.        *)
(* Mutant: only the pending operation of the counter itself reserves it. *)
ReservedHere(m, i) == \E o \in Pending : o.items[i] > 0 /\ o.id[2] = m.a

Reserved(m, i) == \E o \in Pending : o.items[i] > 0

(* Mutant: what is collected already is not subtracted. *)
RemainingAll(m, i) == m.man[i]

Remaining(m, i) == IF Collected(i) < m.man[i] THEN m.man[i] - Collected(i) ELSE 0

LineOK(m, i, n) ==
  /\ m.man[i] > 0
  /\ ~Reserved(m, i)
  /\ n <= Remaining(m, i)
  /\ i \in Admission => n = Min({Remaining(m, i), Limit[m.s] - CollectedBy(m.s, i)})

LinesOK(m, sel) == \A i \in Items : sel[i] > 0 => LineOK(m, i, sel[i])

WholeGroup(m, sel) ==
  (\E i \in Admission : sel[i] > 0) => \A i \in Admission : m.man[i] > 0 => sel[i] > 0

(* The flag needs_admission of the operation.                               *)
(* Mutant: computed from the request, which names no line in a confirmation. *)
NeedsAdmissionNever(o) == FALSE

NeedsAdmission(o) == \E i \in Admission : o.items[i] > 0
Ready(m) == sess[m.s] \in {"ready", "redeemed"}
TheOp(m) == CHOOSE o \in ops : o.id = m.op

-----------------------------------------------------------------------------
(* What the lambda reads of the local bookings, for the counter a.           *)
Manifest(a) == [i \in Items |-> IF area[i] = a THEN copy[i] ELSE 0]

(* The requests.  The lambda reads the session and the manifest just before  *)
(* the transaction, here with it: the transaction reads the claims and the   *)
(* operations, which others change, again.  A revision that is not the       *)
(* claim's is refused, or answered from the receipt, and changes nothing:    *)
(* only requests whose phone shows the claim as it is are taken in.          *)
Ask(actor, s, a) ==
  [actor |-> actor, s |-> s, a |-> a, rev |-> claim[a].rev, man |-> Manifest(a),
   admitted |-> sess[s] = "redeemed", op |-> None]

(* change_staff_handout 'select': the first selection claims the group.      *)
Select(m, sel) ==
  /\ ~Refused(m) /\ ~Busy(m) /\ claim[m.a].pending = None /\ Ready(m) /\ LinesOK(m, sel)
  /\ m.rev < MaxRevision
  /\ claim' = [claim EXCEPT ![m.a] =
       [actor |-> m.actor, live |-> TRUE, session |-> m.s, rev |-> @.rev + 1,
        sel |-> sel, pending |-> None]]
  /\ UNCHANGED <<ops, pc, mem>> /\ UNCHANGED world

(* The claim is free again.                                                  *)
(* Mutant: the selection is nulled, which the column does not allow. *)
ClearedToNull(c) == [c EXCEPT !.actor = None, !.live = FALSE, !.sel = None,
                              !.pending = None, !.rev = @ + 1]

Cleared(c) == [c EXCEPT !.actor = None, !.live = FALSE, !.sel = NoLines,
                        !.pending = None, !.rev = @ + 1]

(* 'release': by the owner, and never of a pending confirmation.             *)
Release(m) ==
  /\ ~Refused(m) /\ claim[m.a].pending = None /\ claim[m.a].actor = m.actor
  /\ m.rev < MaxRevision
  /\ claim' = [claim EXCEPT ![m.a] = Cleared(@)]
  /\ UNCHANGED <<ops, pc, mem>> /\ UNCHANGED world

(* 'prepare', of a confirmation: the staff app confirms what it has just     *)
(* selected, or continues the one it sees, on the session the claim names.   *)
(* A pending operation is resumed under a new lease; else the owner's stored *)
(* selection becomes one, before anything is asked of ROLLER.                *)
(* Mutant: a resumed operation becomes the caller's. *)
ResumedByCaller(m) ==
  {IF o.id = claim[m.a].pending THEN [o EXCEPT !.actor = m.actor] ELSE o : o \in ops}

Resumed(m) == ops

Started(r, m, id) ==
  /\ Goto(r, "refresh")
  /\ mem' = [mem EXCEPT ![r] = [m EXCEPT !.op = id, !.man = NoLines]]
  /\ UNCHANGED world

Resume(r, m) ==
  /\ pc[r] = "idle" /\ m.s = claim[m.a].session
  /\ ~Refused(m) /\ ~Busy(m) /\ claim[m.a].pending # None
  /\ claim' = [claim EXCEPT ![m.a].actor = m.actor, ![m.a].live = TRUE]
  /\ ops' = Resumed(m)
  /\ Started(r, m, claim[m.a].pending)

Prepare(r, m) ==
  LET sel == claim[m.a].sel IN
  /\ pc[r] = "idle" /\ m.s = claim[m.a].session
  /\ ~Refused(m) /\ ~Busy(m) /\ claim[m.a].pending = None
  /\ Ready(m) /\ claim[m.a].actor = m.actor
  /\ LinesOK(m, sel) /\ sel # NoLines /\ WholeGroup(m, sel)
  /\ ops' = ops \cup {[id |-> Id(m), items |-> sel, actor |-> m.actor, status |-> "pending"]}
  /\ claim' = [claim EXCEPT ![m.a].pending = Id(m), ![m.a].live = TRUE]
  /\ Started(r, m, Id(m))

(* The linked bookings of the operation are refreshed from ROLLER, and the   *)
(* original one too unless its redemption will do that.                      *)
AdmissionPending(m) == NeedsAdmission(TheOp(m)) /\ ~m.admitted
ToRefresh(m) == {i \in Items : \/ i \in Linked /\ TheOp(m).items[i] > 0
                               \/ i \notin Linked /\ ~AdmissionPending(m)}
Refreshed(S) == [i \in Items |-> IF i \in S THEN roller[i] ELSE copy[i]]

(* Every prepared line must still be in the manifest, with its quantity.     *)
StillThere(m, manifest) == \A i \in Items : TheOp(m).items[i] <= manifest[i]

Refresh(r) ==
  /\ pc[r] = "refresh"
  /\ copy' = Refreshed(ToRefresh(mem[r]))
  /\ IF ToRefresh(mem[r]) = {} \/ StillThere(mem[r], copy')
     THEN Goto(r, "admit") /\ UNCHANGED mem
     ELSE Done(r)
  /\ UNCHANGED <<claim, ops, sess, roller, area>>

(* ROLLER does not answer, the booking is no longer paid, or the lambda dies; *)
(* the phone may ask again.                                                  *)
Fails(r) ==
  /\ pc[r] # "idle" /\ Done(r)
  /\ UNCHANGED <<claim, ops>> /\ UNCHANGED world

(* The manifest is read once more, after the admission.                      *)
Reread(r) ==
  /\ pc[r] = "reread"
  /\ IF StillThere(mem[r], copy)
     THEN Goto(r, "complete") /\ mem' = [mem EXCEPT ![r].man = copy]
     ELSE Done(r)
  /\ UNCHANGED <<claim, ops>> /\ UNCHANGED world

(* handleStaffSessionRedeem, for an operation with bands: it needs the claim *)
(* of this actor and operation, and a session that is not redeemed; the      *)
(* redemption refreshes the original booking (CheckIn has its steps).        *)
Admit(r) ==
  /\ pc[r] = "admit"
  /\ LET m == mem[r]  c == claim["entrance"] IN
     IF ~AdmissionPending(m) THEN Goto(r, "reread") /\ UNCHANGED <<sess, copy, mem>>
     ELSE IF c.actor = m.actor /\ c.pending = m.op /\ sess[m.s] = "ready"
     THEN /\ sess' = [sess EXCEPT ![m.s] = "redeemed"]
          /\ copy' = Refreshed(Items \ Linked)
          /\ Goto(r, "reread") /\ UNCHANGED mem
     ELSE Done(r) /\ UNCHANGED <<sess, copy>>
  /\ UNCHANGED <<claim, ops, roller, area>>

(* 'complete': receipt and release of the claim in one transaction; without  *)
(* the admission it only renews the lease.                                   *)
Admitted(m) == NeedsAdmission(TheOp(m)) => sess[m.s] = "redeemed"

(* A completed operation is answered again, and not completed again.         *)
Replayed(m) == \E o \in Completed : o.id = Id(m)

(* Mutant: the claim keeps its pending operation. *)
ReleasedButPending(c) == [c EXCEPT !.actor = None, !.live = FALSE, !.rev = @ + 1]

Receipted(c) == Cleared(c)

Complete(r) ==
  /\ pc[r] = "complete"
  /\ LET m == mem[r]  c == claim[m.a] IN
     IF Replayed(m) \/ Refused(m) \/ Busy(m) \/ c.pending = None THEN UNCHANGED <<claim, ops>>
     ELSE IF ~Admitted(m)
     THEN /\ claim' = [claim EXCEPT ![m.a].actor = m.actor, ![m.a].live = TRUE]
          /\ UNCHANGED ops
     ELSE /\ c.rev < MaxRevision
          /\ ops' = {IF o.id = c.pending THEN [o EXCEPT !.status = "completed"] ELSE o : o \in ops}
          /\ claim' = [claim EXCEPT ![m.a] = Receipted(@)]
  /\ Done(r)
  /\ UNCHANGED world

-----------------------------------------------------------------------------
(* The world around.                                                         *)

(* Three minutes without a selection or a confirmation.                      *)
LeaseEnds(a) ==
  /\ Live(claim[a]) /\ claim' = [claim EXCEPT ![a].live = FALSE]
  /\ UNCHANGED <<ops, pc, mem>> /\ UNCHANGED world

(* A session of the visit is at most once active (the unique index of 0003): *)
(* the next one starts when the earlier ones are redeemed.                   *)
MakeReady(s) ==
  /\ sess[s] = "none" /\ \A t \in Sessions : sess[t] # "ready"
  /\ sess' = [sess EXCEPT ![s] = "ready"]
  /\ UNCHANGED <<claim, ops, roller, copy, area, pc, mem>>

(* Automatic check-in, at any time.  handleAutoCheckin stops at a live       *)
(* entrance claim (line 504), but reads the session once and admits later,   *)
(* when there may be one; the model admits beside an earlier claim as well.  *)
AdmittedElsewhere(s) ==
  /\ sess[s] = "ready" /\ sess' = [sess EXCEPT ![s] = "redeemed"]
  /\ UNCHANGED <<claim, ops, roller, copy, area, pc, mem>>

(* A refund at ROLLER; the webhook or a lookup brings it to the local copy.  *)
Refund(i) ==
  /\ i \in Refundable /\ roller[i] > 0 /\ roller' = [roller EXCEPT ![i] = @ - 1]
  /\ UNCHANGED <<claim, ops, sess, copy, area, pc, mem>>

CopyCatchesUp ==
  /\ copy # roller /\ copy' = roller
  /\ UNCHANGED <<claim, ops, sess, roller, area, pc, mem>>

(* A corrected catalogue moves an item to the other counter.                 *)
CatalogueMoves(i) ==
  /\ i \notin Admission /\ area[i] = "cafe"
  /\ area' = [area EXCEPT ![i] = "entrance"]
  /\ UNCHANGED <<claim, ops, sess, roller, copy, pc, mem>>

Serve(r) ==
  Refresh(r) \/ Fails(r) \/ Reread(r) \/ Admit(r) \/ Complete(r)

Next ==
  \/ \E actor \in Actors, s \in Sessions, a \in Areas : LET m == Ask(actor, s, a) IN
       sess[s] # "none" /\ (\/ \E sel \in Lines : Select(m, sel)
                            \/ Release(m)
                            \/ \E r \in Phones : Prepare(r, m) \/ Resume(r, m))
  \/ \E r \in Phones : Serve(r)
  \/ \E a \in Areas : LeaseEnds(a)
  \/ \E s \in Sessions : MakeReady(s) \/ AdmittedElsewhere(s)
  \/ \E i \in Items : Refund(i) \/ CatalogueMoves(i)
  \/ CopyCatchesUp

Spec == Init /\ [][Next]_vars

-----------------------------------------------------------------------------
(* Properties.                                                               *)

(* "One operator holds one active selection; entrance and café have separate *)
(* owners" (docs/gh-345-staff-handout.md).                                   *)
OneSelectionPerActor ==
  \A a, b \in Areas : Live(claim[a]) /\ Live(claim[b]) /\ claim[a].actor = claim[b].actor => a = b

(* "A pending operation reserves its item identity even if a later catalog   *)
(* correction moves the product between entrance and café": no line is in    *)
(* two pending operations.                                                   *)
PendingReservesItem ==
  \A o1, o2 \in Pending : (\E i \in Items : o1.items[i] > 0 /\ o2.items[i] > 0) => o1 = o2

(* "An operation containing admission items still requires confirmed         *)
(* redemption before its receipt completes", of its own session.             *)
AdmissionReceipt ==
  \A o \in Completed : (\E i \in Admission : o.items[i] > 0) => sess[o.id[1]] = "redeemed"

(* However the two counters, a lapsed lease and a moved product interleave,  *)
(* no more of a line is handed out than was bought.                          *)
NeverOverCollected == \A i \in Items : Collected(i) <= Quantity[i]

(* "Collection finalization and claim release are atomic": the claims point  *)
(* at the pending operations, one each, of the counter and the session.      *)
ClaimMatchesOperation ==
  /\ \A a \in Areas : claim[a].pending # None =>
       /\ claim[a].pending = <<claim[a].session, a, claim[a].rev>>
       /\ \E o \in Pending : o.id = claim[a].pending
  /\ \A o \in Pending : claim[o.id[2]].pending = o.id

(* "A timed-out confirmation is resumed as the SAME operation, with its      *)
(* original actor" (0022): what is recorded stays, but for its completion.   *)
IntentKept ==
  [][\A o \in ops : o \in ops' \/ (o.status = "pending" /\ [o EXCEPT !.status = "completed"] \in ops')]_vars

(* "Refresh selected linked goods as well BEFORE admission so refunded       *)
(* add-ons cannot be handed out" (redeem/index.js): what a confirmation      *)
(* hands out is still there in the manifest it has read again.               *)
RefundedNotHandedOut ==
  [][\A r \in Phones : (pc[r] = "complete" /\ ops' # ops) =>
       \A i \in Items : TheOp(mem[r]).items[i] > 0 => Collected(i)' <= mem[r].man[i]]_vars
=============================================================================
