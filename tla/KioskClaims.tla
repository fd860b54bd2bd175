---------------------------- MODULE KioskClaims ----------------------------
(***************************************************************************)
(* The persistent claims that keep a kiosk and its card terminal to one    *)
(* unresolved payment (D0220), the draft requests that take and release    *)
(* them, and the pairing of kiosks with names (infra/lambda/booking).      *)
(*                                                                         *)
(* A claim is an idempotency_records row of operation                      *)
(* 'kiosk_terminal_binding': claim[key] is the attempt in its result_ref,  *)
(* or Free without a row and for a released one.  The keys are the         *)
(* installations and the terminals; a kiosk name binds one terminal and no *)
(* two offered names share one, so the name stands for its terminal.  A    *)
(* draft request and its payment attempt share an identity.  Every SQL     *)
(* statement is one step; what happens to a drafted attempt afterwards are *)
(* the statements of KioskDraft, in any order.                             *)
(***************************************************************************)
EXTENDS KioskDraft, Naturals

CONSTANTS Installs, Names,  \* kiosk installations; kiosk names with their terminals
          Drafts,           \* draft and add-product requests of kiosks
          Pairings,         \* pairing requests of staff
          MaxFaults,        \* bound on lambdas that die and on failed statements
          Free, NoRow, NoName, NoInstall

ASSUME KeyAssumption ==
  /\ Installs \cap Names = {} /\ Drafts \cap Pairings = {}
  /\ Free \notin Drafts /\ NoName \notin Names /\ NoInstall \notin Installs
  /\ NoRow \notin Row
  /\ MaxFaults \in Nat

Keys == Installs \cup Names

VARIABLES
  pairing,   \* kiosk_installations: the active name of each installation
  claim,     \* the attempt that holds each key
  rows,      \* the prepayment_booking_drafts row of each attempt
  reopened,  \* history: attempts with a new outcome after a definitive one
  faults,
  pc,        \* the next step of each draft and pairing request
  req,       \* a draft request: its terminal selection and what it read
  ask        \* a pairing request: what it asks for and what it read

vars == <<pairing, claim, rows, reopened, faults, pc, req, ask>>

DraftSteps   == {"idle", "claim", "partial", "holders", "evidence", "release",
                 "draft", "persist", "unclaim", "done"}
PairingSteps == {"idle", "check", "revoke", "activate", "done"}

Request == [install : Installs \cup {NoInstall}, name : Names \cup {NoName},
            again : BOOLEAN, released : BOOLEAN,
            holders : SUBSET Drafts, holder : Drafts \cup {Free}]
Asked   == [install : Installs \cup {NoInstall}, name : Names \cup {NoName},
            holder : Installs \cup {NoInstall}]

TypeOK ==
  /\ pairing \in [Installs -> Names \cup {NoName}]
  /\ claim \in [Keys -> Drafts \cup {Free}]
  /\ rows \in [Drafts -> Row \cup {NoRow}]
  /\ reopened \in SUBSET Drafts
  /\ faults \in 0..MaxFaults
  /\ pc \in [Drafts \cup Pairings -> DraftSteps \cup PairingSteps]
  /\ req \in [Drafts -> Request]
  /\ ask \in [Pairings -> Asked]

(* The setup on site: some kiosks are paired, no two with the same name. *)
Init ==
  /\ pairing \in {f \in [Installs -> Names \cup {NoName}] :
                    \A i, j \in Installs : f[i] = f[j] /\ f[i] # NoName => i = j}
  /\ claim = [k \in Keys |-> Free]
  /\ rows = [d \in Drafts |-> NoRow]
  /\ reopened = {} /\ faults = 0
  /\ pc = [p \in Drafts \cup Pairings |-> "idle"]
  /\ req = [d \in Drafts |-> [install |-> NoInstall, name |-> NoName, again |-> FALSE,
                              released |-> FALSE, holders |-> {}, holder |-> Free]]
  /\ ask = [p \in Pairings |-> [install |-> NoInstall, name |-> NoName, holder |-> NoInstall]]

At(p, step) == pc[p] = step
Goto(p, step) == pc' = [pc EXCEPT ![p] = step]

Drafted(d) == rows[d] # NoRow
KeysOf(d)  == {req[d].install, req[d].name}

(* The EXISTS test of a take-over, and its negation in kioskPaymentKeysBusy. *)
Resolved(d) == Drafted(d) /\ Settled(rows[d])
(* Mutant: any drafted attempt gives way to the next request. *)
TakeableAny(k) == claim[k] = Free \/ Drafted(claim[k])

Takeable(k) == claim[k] = Free \/ Resolved(claim[k])
Freed(d) == [k \in Keys |-> IF claim[k] = d THEN Free ELSE claim[k]]

-----------------------------------------------------------------------------
(* handleDraft and handleAddProductDraft, as far as claims are concerned.    *)

(* readKioskPairing and resolveKioskPaymentTerminal; the ROLLER quote after  *)
(* them may fail.                                                            *)
SelectTerminal(d, i) ==
  /\ At(d, "idle")
  /\ \/ pairing[i] # NoName
        /\ req' = [req EXCEPT ![d].install = i, ![d].name = pairing[i]]
        /\ Goto(d, "claim")
     \/ Goto(d, "done") /\ UNCHANGED req
  /\ UNCHANGED <<pairing, claim, rows, reopened, faults, ask>>

(* claimKioskDraftBinding: one statement takes every key of the request that *)
(* can be taken.                                                             *)
Claim(d) ==
  /\ At(d, "claim")
  /\ claim' = [k \in Keys |-> IF k \in KeysOf(d) /\ Takeable(k) THEN d ELSE claim[k]]
  /\ Goto(d, IF \A k \in KeysOf(d) : Takeable(k) THEN "draft" ELSE "partial")
  /\ UNCHANGED <<pairing, rows, reopened, faults, req, ask>>

(* Its second statement releases a partial claim.  The first refusal looks   *)
(* for abandoned attempts, the second answers kiosk_payment_busy.            *)
ReleasePartial(d) ==
  /\ At(d, "partial")
  /\ claim' = Freed(d)
  /\ Goto(d, IF req[d].again THEN "done" ELSE "holders")
  /\ UNCHANGED <<pairing, rows, reopened, faults, req, ask>>

(* readKioskClaimHolders, with the attempts kioskAbandonedAttemptCheckable   *)
(* admits: never reported, without a booking, and old or reported as never   *)
(* started by their own kiosk.                                               *)
ReadHolders(d) ==
  /\ At(d, "holders")
  /\ \E old \in SUBSET Drafts :
       req' = [req EXCEPT ![d].holders =
                 {h \in old : /\ \E k \in KeysOf(d) : claim[k] = h
                              /\ Drafted(h) /\ rows[h].attempt = "created"
                              /\ Releasable(rows[h], FALSE)}]
  /\ Goto(d, "evidence")
  /\ UNCHANGED <<pairing, claim, rows, reopened, faults, ask>>

(* One ROLLER read for each of them; anything but a clear 404 keeps it.  The *)
(* claims are tried once more when an attempt was released.                  *)
HolderEvidence(d) ==
  /\ At(d, "evidence")
  /\ \/ \E h \in req[d].holders :
          /\ req' = [req EXCEPT ![d].holders = @ \ {h}, ![d].holder = h]
          /\ Goto(d, "release") \/ UNCHANGED pc
     \/ /\ req[d].holders = {}
        /\ req' = [req EXCEPT ![d].again = TRUE]
        /\ Goto(d, IF req[d].released THEN "claim" ELSE "done")
  /\ UNCHANGED <<pairing, claim, rows, reopened, faults, ask>>

(* releaseAbandonedKioskAttempt tests the row again in its statement. *)
ReleaseHolder(d) ==
  /\ At(d, "release")
  /\ LET h == req[d].holder
         freed == ReleaseAbandoned(rows[h], FALSE, TRUE) IN
       /\ rows' = [rows EXCEPT ![h] = freed]
       /\ req' = [req EXCEPT ![d].released = @ \/ freed # rows[h], ![d].holder = Free]
  /\ Goto(d, "evidence")
  /\ UNCHANGED <<pairing, claim, reopened, faults, ask>>

(* Mutant: a failed draft keeps its claims, as before D0278. *)
CreateDraftOnly(d) ==
  /\ At(d, "draft")
  /\ Goto(d, "persist") \/ Goto(d, "done")
  /\ UNCHANGED <<pairing, claim, rows, reopened, faults, req, ask>>

(* createRollerDraft and the checks after it, by answer or by exception. *)
CreateDraft(d) ==
  /\ At(d, "draft")
  /\ Goto(d, "persist") \/ Goto(d, "unclaim")
  /\ UNCHANGED <<pairing, claim, rows, reopened, faults, req, ask>>

(* persistPrepaymentDraft.  A gift card may have paid the whole draft.  The  *)
(* statement, or one after it, may also throw with or without the row.       *)
PersistDraft(d) ==
  /\ At(d, "persist")
  /\ \/ /\ rows' \in {[rows EXCEPT ![d] = NewRow],
                      [rows EXCEPT ![d] = [NewRow EXCEPT !.status = "published"]]}
        /\ Goto(d, "done") \/ Goto(d, "unclaim")
     \/ UNCHANGED rows /\ Goto(d, "unclaim")
  /\ UNCHANGED <<pairing, claim, reopened, faults, req, ask>>

(* Mutant: the release without its NOT EXISTS guard. *)
UnclaimDrafted(d) ==
  /\ At(d, "unclaim")
  /\ claim' = Freed(d)
  /\ Goto(d, "done")
  /\ UNCHANGED <<pairing, rows, reopened, faults, req, ask>>

(* releaseKioskDraftBinding *)
Unclaim(d) ==
  /\ At(d, "unclaim")
  /\ claim' = IF Drafted(d) THEN claim ELSE Freed(d)
  /\ Goto(d, "done")
  /\ UNCHANGED <<pairing, rows, reopened, faults, req, ask>>

(* The attempt's own handlers, see KioskPayment: any statement that changes  *)
(* what Settled tests.                                                       *)
AttemptMoves(d) ==
  /\ Drafted(d)
  /\ LET row == rows[d] IN
       rows' \in {[rows EXCEPT ![d] = r] :
                    r \in {RecordOutcome(row, o, TRUE) : o \in Outcome}
                          \cup {ReleaseByStaff(row, FALSE, TRUE), ApproveFromEvidence(row),
                                PublishFromPaidBooking(row)}
                          \cup (IF Paid(row) THEN {Confirm(row)} ELSE {})}
  /\ reopened' = IF Settled(rows[d]) /\ ~Settled(rows'[d]) THEN reopened \cup {d} ELSE reopened
  /\ UNCHANGED <<pairing, claim, faults, pc, req, ask>>

-----------------------------------------------------------------------------
(* handleKioskPairing.                                                       *)

(* The active holder of the name is read; without `replace` it is respected. *)
PairRead(p, i, n, replace) ==
  LET others == {j \in Installs \ {i} : pairing[j] = n} IN
  /\ At(p, "idle")
  /\ ask' = [ask EXCEPT ![p] = [install |-> i, name |-> n,
               holder |-> IF others = {} THEN NoInstall ELSE CHOOSE j \in others : TRUE]]
  /\ Goto(p, IF others # {} /\ ~replace THEN "done" ELSE "check")
  /\ UNCHANGED <<pairing, claim, rows, reopened, faults, req>>

Busy(k) == ~Takeable(k)
Affected(p) == {ask[p].install, ask[p].name, ask[p].holder} \ {NoInstall}

(* kioskPaymentKeysBusy *)
PairCheck(p) ==
  /\ At(p, "check")
  /\ Goto(p, IF \E k \in Affected(p) : Busy(k) THEN "done"
             ELSE IF ask[p].holder = NoInstall THEN "activate" ELSE "revoke")
  /\ UNCHANGED <<pairing, claim, rows, reopened, faults, req, ask>>

PairRevoke(p) ==
  /\ At(p, "revoke")
  /\ pairing' = [pairing EXCEPT ![ask[p].holder] = IF @ = ask[p].name THEN NoName ELSE @]
  /\ Goto(p, "activate")
  /\ UNCHANGED <<claim, rows, reopened, faults, req, ask>>

(* The upsert; the one-active-name index refuses a second holder. *)
PairActivate(p) ==
  /\ At(p, "activate")
  /\ pairing' = IF \E j \in Installs \ {ask[p].install} : pairing[j] = ask[p].name
                THEN pairing ELSE [pairing EXCEPT ![ask[p].install] = ask[p].name]
  /\ Goto(p, "done")
  /\ UNCHANGED <<claim, rows, reopened, faults, req, ask>>

-----------------------------------------------------------------------------
(* A lambda dies, or a statement whose failure the code does not handle, or  *)
(* only logs, fails before it takes effect.                                  *)
Crash(p) ==
  /\ pc[p] \notin {"idle", "done"}
  /\ faults < MaxFaults /\ faults' = faults + 1
  /\ Goto(p, "done")
  /\ UNCHANGED <<pairing, claim, rows, reopened, req, ask>>

DraftStep(d) ==
  \/ \E i \in Installs : SelectTerminal(d, i)
  \/ Claim(d) \/ ReleasePartial(d)
  \/ ReadHolders(d) \/ HolderEvidence(d) \/ ReleaseHolder(d)
  \/ CreateDraft(d) \/ PersistDraft(d) \/ Unclaim(d)
  \/ AttemptMoves(d)

PairingStep(p) ==
  \/ \E i \in Installs, n \in Names, replace \in BOOLEAN : PairRead(p, i, n, replace)
  \/ PairCheck(p) \/ PairRevoke(p) \/ PairActivate(p)

Next == \/ \E d \in Drafts : DraftStep(d)
        \/ \E p \in Pairings : PairingStep(p)
        \/ \E p \in Drafts \cup Pairings : Crash(p)

Spec == Init /\ [][Next]_vars

-----------------------------------------------------------------------------
(* Properties.                                                               *)

(* An attempt whose payment is unresolved, and always was since its draft.   *)
Live(d) == Drafted(d) /\ ~Settled(rows[d]) /\ d \notin reopened

(* Two unresolved payments never share a kiosk or a terminal, whatever       *)
(* requests run at once, fail half way or release each other's attempts, and *)
(* whatever pairings change meanwhile.  Only an attempt that got a late      *)
(* result after a definitive one may be unresolved beside another.           *)
OneLivePayment ==
  \A d, e \in Drafts : Live(d) /\ Live(e) /\ d # e => KeysOf(d) \cap KeysOf(e) = {}

(* A request creates its ROLLER draft, whose token starts the payment, only  *)
(* while it holds both its keys, and a live attempt keeps both.              *)
LiveHoldsItsKeys ==
  \A d \in Drafts : Live(d) \/ pc[d] \in {"draft", "persist"} =>
    \A k \in KeysOf(d) : claim[k] = d

(* A key is held by a running request or by a drafted attempt, which staff,  *)
(* ROLLER or a later request can resolve; only a lambda that dies or a       *)
(* failed release leaves a claim nothing in the code frees (D0278).          *)
NoOrphanClaim ==
  \A k \in Keys : claim[k] # Free =>
    Drafted(claim[k]) \/ pc[claim[k]] # "done" \/ faults > 0
=============================================================================
