-------------------------- MODULE KioskClaimsProofs --------------------------
(***************************************************************************)
(* Theorems about KioskClaims, for any sets of kiosks, names and requests. *)
(***************************************************************************)
EXTENDS KioskClaims, KioskDraftProofs

(* Before its draft is stored a request is on its way, with both its keys    *)
(* selected; the attempts it considers abandoned are drafted.                *)
InOrder ==
  \A d \in Drafts :
    /\ pc[d] \notin {"done", "unclaim"} => ~Drafted(d)
    /\ pc[d] \notin {"idle", "done"} \/ Drafted(d) => KeysOf(d) \subseteq Keys
    /\ \A h \in req[d].holders : Drafted(h)
    /\ pc[d] = "release" => req[d].holder \in Drafts /\ Drafted(req[d].holder)

IInv == TypeOK /\ InOrder /\ LiveHoldsItsKeys

(* What a move of one process does to pc.                                    *)
LEMMA GotoTyped ==
  ASSUME TypeOK, NEW p \in Drafts \cup Pairings, NEW s \in DraftSteps \cup PairingSteps, Goto(p, s)
  PROVE  /\ pc' \in [Drafts \cup Pairings -> DraftSteps \cup PairingSteps]
         /\ pc'[p] = s
         /\ \A q \in (Drafts \cup Pairings) \ {p} : pc'[q] = pc[q]
BY DEF TypeOK, Goto

(* The initial state satisfies the inductive invariant.                      *)
LEMMA InitInv == Init => IInv
<1> SUFFICES ASSUME Init PROVE IInv
  OBVIOUS
<1>1. TypeOK
  BY KeyAssumption DEF Init, TypeOK, Request, Asked, DraftSteps, PairingSteps
<1>2. InOrder
  BY DEF Init, InOrder, Drafted
<1>3. LiveHoldsItsKeys
  BY DEF Init, LiveHoldsItsKeys, Live, Drafted
<1> QED BY <1>1, <1>2, <1>3 DEF IInv

-----------------------------------------------------------------------------
(* The steps of a draft request.                                             *)

(* Choosing the kiosk and its terminal, before anything is claimed.          *)
LEMMA SelectKeeps ==
  ASSUME IInv, NEW d \in Drafts, NEW i \in Installs, SelectTerminal(d, i) PROVE IInv'
<1> USE DEF IInv
<1>1. pc' \in [Drafts \cup Pairings -> DraftSteps \cup PairingSteps]
  BY GotoTyped DEF SelectTerminal, DraftSteps
<1>2. pairing[i] \in Names \cup {NoName}
  BY DEF TypeOK
<1>3. CASE /\ pairing[i] # NoName
           /\ req' = [req EXCEPT ![d].install = i, ![d].name = pairing[i]]
           /\ Goto(d, "claim")
  <2>1. TypeOK'
    <3>1. req' \in [Drafts -> Request]
      <4>1. req[d] \in Request
        BY DEF TypeOK
      <4>2. [req[d] EXCEPT !.install = i, !.name = pairing[i]] \in Request
        BY <1>2, <4>1 DEF Request
      <4>3. req' = [req EXCEPT ![d] = [req[d] EXCEPT !.install = i, !.name = pairing[i]]]
        BY <1>3, <4>1 DEF TypeOK
      <4> QED BY <4>2, <4>3 DEF TypeOK
    <3> QED BY <1>1, <3>1 DEF TypeOK, SelectTerminal
  <2>2. /\ pc'[d] = "claim" /\ req'[d].install = i /\ req'[d].name = pairing[i]
        /\ req'[d].holders = req[d].holders
        /\ \A e \in Drafts \ {d} : pc'[e] = pc[e] /\ req'[e] = req[e]
    BY <1>3 DEF TypeOK, Goto, Request
  <2>3. InOrder'
    <3>1. KeysOf(d)' \subseteq Keys
      BY <1>2, <1>3, <2>2 DEF KeysOf, Keys
    <3>2. pc[d] = "idle" /\ rows' = rows
      BY DEF SelectTerminal, At
    <3>3. ASSUME NEW e \in Drafts, e # d PROVE KeysOf(e)' = KeysOf(e)
      BY <2>2, <3>3 DEF KeysOf
    <3> QED BY <2>2, <3>1, <3>2, <3>3 DEF InOrder, Drafted
  <2>4. LiveHoldsItsKeys'
    BY <2>2 DEF InOrder, LiveHoldsItsKeys, SelectTerminal, At, Live, Drafted, KeysOf
  <2> QED BY <2>1, <2>3, <2>4
<1>4. CASE Goto(d, "done") /\ UNCHANGED req
  <2>1. TypeOK'
    BY <1>1, <1>4 DEF TypeOK, SelectTerminal
  <2>2. InOrder' /\ LiveHoldsItsKeys'
    BY <1>4 DEF TypeOK, Goto, InOrder, LiveHoldsItsKeys, SelectTerminal, At, Live, Drafted, KeysOf
  <2> QED BY <2>1, <2>2
<1> QED BY <1>3, <1>4 DEF SelectTerminal

(* The claim takes only keys no live attempt holds; unless it took both, the *)
(* request does not go on to ROLLER.                                         *)
LEMMA ClaimKeeps ==
  ASSUME IInv, NEW d \in Drafts, Claim(d) PROVE IInv'
<1> USE DEF IInv
<1>1. TypeOK'
  <2>1. pc' \in [Drafts \cup Pairings -> DraftSteps \cup PairingSteps]
    BY GotoTyped DEF Claim, DraftSteps
  <2>2. claim' \in [Keys -> Drafts \cup {Free}]
    BY DEF Claim, TypeOK
  <2> QED BY <2>1, <2>2 DEF Claim, TypeOK
<1>2. /\ pc[d] = "claim" /\ pc'[d] \in {"draft", "partial"}
      /\ \A e \in Drafts \ {d} : pc'[e] = pc[e]
  BY DEF Claim, At, Goto, TypeOK
<1>3. InOrder'
  BY <1>2 DEF InOrder, Claim, Drafted, KeysOf
<1>4. LiveHoldsItsKeys'
  <2> SUFFICES ASSUME NEW e \in Drafts, (Live(e) \/ pc[e] \in {"draft", "persist"})',
                      NEW k \in KeysOf(e)'
               PROVE  claim'[k] = e
    BY DEF LiveHoldsItsKeys
  <2>1. k \in KeysOf(e) /\ k \in Keys
    BY <1>2 DEF InOrder, Claim, KeysOf, Live, Drafted
  <2>2. CASE e = d
    BY <1>2, <2>1, <2>2 DEF Claim, Goto, TypeOK, InOrder, Live, Drafted
  <2>3. CASE e # d
    <3>1. claim[k] = e
      BY <1>2, <2>1, <2>3 DEF LiveHoldsItsKeys, Claim, Live, Drafted
    <3>2. ~Takeable(k)
      BY <1>2, <2>3, <3>1, KeyAssumption DEF Takeable, Resolved, Live, InOrder, Drafted, Claim
    <3> QED BY <2>1, <3>1, <3>2 DEF Claim
  <2> QED BY <2>2, <2>3
<1> QED BY <1>1, <1>3, <1>4

(* Releasing what an undrafted request holds touches no live attempt. *)
LEMMA FreedKeeps ==
  ASSUME IInv, NEW d \in Drafts, ~Drafted(d), claim' = Freed(d), UNCHANGED <<rows, reopened, req>>,
         pc'[d] \notin {"draft", "persist"}, \A e \in Drafts \ {d} : pc'[e] = pc[e]
  PROVE  LiveHoldsItsKeys' /\ claim' \in [Keys -> Drafts \cup {Free}]
<1> USE DEF IInv
<1>1. claim' \in [Keys -> Drafts \cup {Free}]
  BY DEF Freed, TypeOK
<1>2. LiveHoldsItsKeys'
  <2> SUFFICES ASSUME NEW e \in Drafts, (Live(e) \/ pc[e] \in {"draft", "persist"})',
                      NEW k \in KeysOf(e)'
               PROVE  claim'[k] = e
    BY DEF LiveHoldsItsKeys
  <2>1. e # d
    BY DEF Live, Drafted
  <2>2. k \in KeysOf(e) /\ k \in Keys /\ claim[k] = e
    BY <2>1 DEF InOrder, KeysOf, Live, Drafted, LiveHoldsItsKeys
  <2> QED BY <2>1, <2>2 DEF Freed
<1> QED BY <1>1, <1>2

(* Giving a partial claim back frees only keys of this request.              *)
LEMMA ReleasePartialKeeps ==
  ASSUME IInv, NEW d \in Drafts, ReleasePartial(d) PROVE IInv'
<1> USE DEF IInv
<1>1. pc' \in [Drafts \cup Pairings -> DraftSteps \cup PairingSteps]
  BY GotoTyped DEF ReleasePartial, DraftSteps
<1>2. /\ pc[d] = "partial" /\ pc'[d] \in {"done", "holders"}
      /\ \A e \in Drafts \ {d} : pc'[e] = pc[e]
  BY DEF ReleasePartial, At, Goto, TypeOK
<1>3. LiveHoldsItsKeys' /\ claim' \in [Keys -> Drafts \cup {Free}]
  <2>1. ~Drafted(d)
    BY <1>2 DEF InOrder
  <2> QED BY <1>2, <2>1, FreedKeeps DEF ReleasePartial
<1>4. TypeOK'
  BY <1>1, <1>3 DEF ReleasePartial, TypeOK
<1>5. InOrder'
  BY <1>2 DEF InOrder, ReleasePartial, Drafted, KeysOf
<1> QED BY <1>3, <1>4, <1>5

(* A step that only moves one draft request, and changes what it remembers   *)
(* of other attempts.                                                        *)
LEMMA MoveKeeps ==
  ASSUME IInv, NEW d \in Drafts, NEW step \in DraftSteps \ {"idle"}, Goto(d, step),
         UNCHANGED <<pairing, claim, rows, reopened, ask>>, faults' \in 0..MaxFaults,
         req' \in [Drafts -> Request], \A e \in Drafts \ {d} : req'[e] = req[e],
         req'[d].install = req[d].install, req'[d].name = req[d].name,
         pc[d] \notin {"idle", "done"} \/ step = "done",
         step \in {"draft", "persist"} => pc[d] \in {"draft", "persist"},
         step \in {"done", "unclaim"} \/ pc[d] \notin {"done", "unclaim"},
         \A h \in req'[d].holders : Drafted(h),
         step = "release" => req'[d].holder \in Drafts /\ Drafted(req'[d].holder)
  PROVE  IInv'
<1> USE DEF IInv
<1>1. /\ pc' \in [Drafts \cup Pairings -> DraftSteps \cup PairingSteps]
      /\ pc'[d] = step
      /\ \A e \in Drafts \ {d} : pc'[e] = pc[e]
  BY GotoTyped
<1>2. TypeOK'
  BY <1>1 DEF TypeOK
<1>3. ASSUME NEW e \in Drafts PROVE KeysOf(e)' = KeysOf(e) /\ Drafted(e)' = Drafted(e)
  BY DEF KeysOf, Drafted
<1>4. InOrder'
  <2> SUFFICES ASSUME NEW e \in Drafts
               PROVE  /\ pc'[e] \notin {"done", "unclaim"} => ~Drafted(e)
                      /\ pc'[e] \notin {"idle", "done"} \/ Drafted(e) => KeysOf(e) \subseteq Keys
                      /\ \A h \in req'[e].holders : Drafted(h)
                      /\ pc'[e] = "release" => req'[e].holder \in Drafts /\ Drafted(req'[e].holder)
    BY <1>3 DEF InOrder, Drafted
  <2>1. CASE e = d
    BY <1>1, <2>1 DEF InOrder
  <2>2. CASE e # d
    BY <1>1, <2>2 DEF InOrder
  <2> QED BY <2>1, <2>2
<1>5. LiveHoldsItsKeys'
  <2>1. ASSUME NEW e \in Drafts PROVE Live(e)' = Live(e)
    BY DEF Live, Drafted
  <2> QED BY <1>1, <1>3, <2>1 DEF LiveHoldsItsKeys
<1> QED BY <1>2, <1>4, <1>5

(* Listing the holders remembers only requests with a draft.                 *)
LEMMA ReadHoldersKeeps ==
  ASSUME IInv, NEW d \in Drafts, ReadHolders(d) PROVE IInv'
<1>1. PICK old \in SUBSET Drafts :
        req' = [req EXCEPT ![d].holders =
                 {h \in old : /\ \E k \in KeysOf(d) : claim[k] = h
                              /\ Drafted(h) /\ rows[h].attempt = "created"
                              /\ Releasable(rows[h], FALSE)}]
  BY DEF ReadHolders
<1> DEFINE found == {h \in old : /\ \E k \in KeysOf(d) : claim[k] = h
                                 /\ Drafted(h) /\ rows[h].attempt = "created"
                                 /\ Releasable(rows[h], FALSE)}
<1>2. found \in SUBSET Drafts /\ \A h \in found : Drafted(h)
  OBVIOUS
<1> HIDE DEF found
<1>3. req' = [req EXCEPT ![d].holders = found]
  BY <1>1 DEF found
<1>4. /\ req' \in [Drafts -> Request] /\ \A e \in Drafts \ {d} : req'[e] = req[e]
      /\ req'[d].install = req[d].install /\ req'[d].name = req[d].name
      /\ req'[d].holders = found
  BY <1>2, <1>3 DEF IInv, TypeOK, Request
<1>5. Goto(d, "evidence") /\ pc[d] = "holders" /\ faults' \in 0..MaxFaults
      /\ UNCHANGED <<pairing, claim, rows, reopened, ask>>
  BY DEF ReadHolders, At, IInv, TypeOK
<1> QED BY <1>2, <1>4, <1>5, MoveKeeps DEF DraftSteps

(* Judging a holder abandoned changes no claim and no row.                   *)
LEMMA HolderEvidenceKeeps ==
  ASSUME IInv, NEW d \in Drafts, HolderEvidence(d) PROVE IInv'
<1>0. pc[d] = "evidence" /\ faults' \in 0..MaxFaults
      /\ UNCHANGED <<pairing, claim, rows, reopened, ask>>
      /\ req[d] \in Request /\ pc \in [Drafts \cup Pairings -> DraftSteps \cup PairingSteps]
      /\ \A h \in req[d].holders : Drafted(h)
  BY DEF HolderEvidence, At, IInv, TypeOK, InOrder
<1>1. ASSUME NEW h \in req[d].holders,
             req' = [req EXCEPT ![d].holders = @ \ {h}, ![d].holder = h],
             Goto(d, "release") \/ UNCHANGED pc
      PROVE  IInv'
  <2>1. h \in Drafts /\ req[d].holders \ {h} \in SUBSET Drafts
    BY <1>0, <1>1 DEF Request
  <2>2. [req[d] EXCEPT !.holders = req[d].holders \ {h}, !.holder = h] \in Request
    BY <1>0, <2>1 DEF Request
  <2>3. req' = [req EXCEPT ![d] = [req[d] EXCEPT !.holders = req[d].holders \ {h}, !.holder = h]]
    BY <1>0, <1>1 DEF IInv, TypeOK
  <2>4. /\ req' \in [Drafts -> Request] /\ \A e \in Drafts \ {d} : req'[e] = req[e]
        /\ req'[d].install = req[d].install /\ req'[d].name = req[d].name
        /\ req'[d].holders = req[d].holders \ {h} /\ req'[d].holder = h
    BY <1>0, <2>2, <2>3 DEF IInv, TypeOK, Request
  <2>5. Goto(d, "release") \/ Goto(d, "evidence")
    BY <1>0, <1>1 DEF Goto
  <2>6. \A g \in req'[d].holders : Drafted(g)
    BY <1>0, <2>4
  <2>7. req'[d].holder \in Drafts /\ Drafted(req'[d].holder)
    BY <1>0, <2>1, <2>4
  <2>8. CASE Goto(d, "release")
    BY <1>0, <2>4, <2>6, <2>7, <2>8, MoveKeeps DEF DraftSteps
  <2>9. CASE Goto(d, "evidence")
    BY <1>0, <2>4, <2>6, <2>9, MoveKeeps DEF DraftSteps
  <2> QED BY <2>5, <2>8, <2>9
<1>2. CASE /\ req' = [req EXCEPT ![d].again = TRUE]
           /\ Goto(d, IF req[d].released THEN "claim" ELSE "done")
  <2>1. /\ req' \in [Drafts -> Request] /\ \A e \in Drafts \ {d} : req'[e] = req[e]
        /\ req'[d].install = req[d].install /\ req'[d].name = req[d].name
        /\ req'[d].holders = req[d].holders
    <3>1. [req[d] EXCEPT !.again = TRUE] \in Request
      BY <1>0 DEF Request
    <3>2. req' = [req EXCEPT ![d] = [req[d] EXCEPT !.again = TRUE]]
      BY <1>2 DEF IInv, TypeOK
    <3> QED BY <1>0, <3>1, <3>2 DEF IInv, TypeOK, Request
  <2>2. Goto(d, "claim") \/ Goto(d, "done")
    BY <1>2
  <2>3. \A g \in req'[d].holders : Drafted(g)
    BY <1>0, <2>1
  <2>4. CASE Goto(d, "claim")
    BY <1>0, <2>1, <2>3, <2>4, MoveKeeps DEF DraftSteps
  <2>5. CASE Goto(d, "done")
    BY <1>0, <2>1, <2>3, <2>5, MoveKeeps DEF DraftSteps
  <2> QED BY <2>2, <2>4, <2>5
<1> QED BY <1>1, <1>2 DEF HolderEvidence

(* A statement on a drafted row leaves every other row alone. *)
LEMMA RowsKeep ==
  ASSUME IInv, NEW h \in Drafts, Drafted(h), NEW r \in Row, rows' = [rows EXCEPT ![h] = r]
  PROVE  /\ rows' \in [Drafts -> Row \cup {NoRow}]
         /\ rows'[h] = r /\ \A e \in Drafts \ {h} : rows'[e] = rows[e]
         /\ \A e \in Drafts : Drafted(e)' = Drafted(e)
BY KeyAssumption DEF IInv, TypeOK, Drafted

(* The guarded release ends the attempt; its claims stay, now free to take.  *)
LEMMA ReleaseHolderKeeps ==
  ASSUME IInv, NEW d \in Drafts, ReleaseHolder(d) PROVE IInv'
<1> USE DEF IInv
<1> DEFINE h == req[d].holder
           r == ReleaseAbandoned(rows[h], FALSE, TRUE)
<1>1. h \in Drafts /\ Drafted(h) /\ rows[h] \in Row
  BY DEF ReleaseHolder, At, InOrder, TypeOK, Drafted
<1>2. r \in Row /\ rows' = [rows EXCEPT ![h] = r]
  BY <1>1, StatementsKeepRow DEF ReleaseHolder
<1>3. Settled(r) \/ r = rows[h]
  BY <1>1 DEF ReleaseAbandoned, Settled, Row
<1>4. /\ req' \in [Drafts -> Request] /\ \A e \in Drafts \ {d} : req'[e] = req[e]
      /\ req'[d].install = req[d].install /\ req'[d].name = req[d].name
      /\ req'[d].holders = req[d].holders
  <2>1. PICK b \in BOOLEAN : req' = [req EXCEPT ![d].released = b, ![d].holder = Free]
    <3>1. (req[d].released \/ r # rows[h]) \in BOOLEAN
      BY DEF TypeOK, Request
    <3> QED BY <3>1 DEF ReleaseHolder
  <2>2. req[d] \in Request
    BY DEF TypeOK
  <2>3. [req[d] EXCEPT !.released = b, !.holder = Free] \in Request
    BY <2>2 DEF Request
  <2>4. req' = [req EXCEPT ![d] = [req[d] EXCEPT !.released = b, !.holder = Free]]
    BY <2>1, <2>2 DEF TypeOK
  <2> QED BY <2>2, <2>3, <2>4 DEF TypeOK, Request
<1> HIDE DEF h, r
<1>5. /\ pc' \in [Drafts \cup Pairings -> DraftSteps \cup PairingSteps]
      /\ pc[d] = "release" /\ pc'[d] = "evidence"
      /\ \A e \in Drafts \ {d} : pc'[e] = pc[e]
  BY GotoTyped DEF ReleaseHolder, At, DraftSteps
<1>6. /\ rows' \in [Drafts -> Row \cup {NoRow}]
      /\ rows'[h] = r /\ \A e \in Drafts \ {h} : rows'[e] = rows[e]
      /\ \A e \in Drafts : Drafted(e)' = Drafted(e)
  BY <1>1, <1>2, RowsKeep
<1>7. TypeOK'
  BY <1>4, <1>5, <1>6 DEF TypeOK, ReleaseHolder
<1>8. \A e \in Drafts : KeysOf(e)' = KeysOf(e)
  BY <1>4 DEF KeysOf
<1>9. InOrder'
  <2>0. \A e \in Drafts : rows'[e] # NoRow <=> Drafted(e)
    BY <1>6 DEF Drafted
  <2>1. ASSUME NEW e \in Drafts
        PROVE  /\ pc'[e] \notin {"done", "unclaim"} => ~Drafted(e)
               /\ pc'[e] \notin {"idle", "done"} \/ Drafted(e) => KeysOf(e) \subseteq Keys
               /\ \A g \in req'[e].holders : g \in Drafts /\ Drafted(g)
               /\ pc'[e] = "release" => req'[e].holder \in Drafts /\ Drafted(req'[e].holder)
    <3>1. /\ pc[e] \notin {"done", "unclaim"} => ~Drafted(e)
          /\ pc[e] \notin {"idle", "done"} \/ Drafted(e) => KeysOf(e) \subseteq Keys
          /\ \A g \in req[e].holders : g \in Drafts /\ Drafted(g)
          /\ pc[e] = "release" => req[e].holder \in Drafts /\ Drafted(req[e].holder)
      BY DEF InOrder, TypeOK, Request
    <3>2. CASE e = d
      BY <1>4, <1>5, <3>1, <3>2
    <3>3. CASE e # d
      BY <1>4, <1>5, <3>1, <3>3
    <3> QED BY <3>2, <3>3
  <2> QED BY <1>8, <2>0, <2>1 DEF InOrder, Drafted
<1>10. LiveHoldsItsKeys'
  <2>1. ASSUME NEW e \in Drafts, Live(e)' PROVE Live(e)
    BY <1>3, <1>6, <2>1 DEF Live, ReleaseHolder
  <2> QED BY <1>5, <1>8, <2>1 DEF LiveHoldsItsKeys, ReleaseHolder
<1> QED BY <1>7, <1>9, <1>10

(* The ROLLER draft is made with both keys held.                             *)
LEMMA CreateDraftKeeps ==
  ASSUME IInv, NEW d \in Drafts, CreateDraft(d) PROVE IInv'
<1>1. /\ pc[d] = "draft" /\ faults' \in 0..MaxFaults /\ req' \in [Drafts -> Request]
      /\ UNCHANGED <<pairing, claim, rows, reopened, req, ask>>
      /\ \A h \in req'[d].holders : Drafted(h)
  BY DEF CreateDraft, At, IInv, TypeOK, InOrder
<1>2. CASE Goto(d, "persist")
  BY <1>1, <1>2, MoveKeeps DEF DraftSteps
<1>3. CASE Goto(d, "unclaim")
  BY <1>1, <1>3, MoveKeeps DEF DraftSteps
<1> QED BY <1>2, <1>3 DEF CreateDraft

(* The row becomes live with both keys held.                                 *)
LEMMA PersistDraftKeeps ==
  ASSUME IInv, NEW d \in Drafts, PersistDraft(d) PROVE IInv'
<1>1. /\ pc[d] = "persist" /\ ~Drafted(d) /\ KeysOf(d) \subseteq Keys
      /\ \A h \in req[d].holders : Drafted(h)
      /\ \A k \in KeysOf(d) : claim[k] = d
      /\ faults' \in 0..MaxFaults /\ req' \in [Drafts -> Request]
  BY DEF PersistDraft, At, IInv, TypeOK, InOrder, LiveHoldsItsKeys
<1>2. ASSUME NEW r \in Row, rows' = [rows EXCEPT ![d] = r],
             Goto(d, "done") \/ Goto(d, "unclaim")
      PROVE  IInv'
  <2> USE DEF IInv
  <2>1. /\ pc' \in [Drafts \cup Pairings -> DraftSteps \cup PairingSteps]
        /\ pc'[d] \in {"done", "unclaim"}
        /\ \A e \in Drafts \ {d} : pc'[e] = pc[e]
    BY <1>2, GotoTyped DEF DraftSteps
  <2>2. rows' \in [Drafts -> Row \cup {NoRow}] /\ \A e \in Drafts \ {d} : rows'[e] = rows[e]
    BY <1>2 DEF TypeOK
  <2>3. TypeOK'
    BY <2>1, <2>2 DEF TypeOK, PersistDraft
  <2>4. \A e \in Drafts : (Drafted(e) => Drafted(e)') /\ KeysOf(e)' = KeysOf(e)
    BY <1>1, <2>2 DEF Drafted, KeysOf, PersistDraft
  <2>5. \A e \in Drafts \ {d} : Drafted(e)' = Drafted(e) /\ Live(e)' = Live(e)
    BY <2>2 DEF Drafted, Live, PersistDraft
  <2>6. InOrder'
    <3>1. \A e \in Drafts : \A g \in req[e].holders : g \in Drafts /\ rows'[g] # NoRow
      BY <2>4 DEF InOrder, Drafted, TypeOK, Request
    <3>2. \A e \in Drafts : pc'[e] = "release" =>
             req[e].holder \in Drafts /\ rows'[req[e].holder] # NoRow
      BY <2>1, <2>4 DEF InOrder, Drafted
    <3> QED BY <1>1, <2>1, <2>4, <2>5, <3>1, <3>2 DEF InOrder, PersistDraft, Drafted
  <2>7. LiveHoldsItsKeys'
    BY <1>1, <2>1, <2>4, <2>5 DEF LiveHoldsItsKeys, PersistDraft
  <2> QED BY <2>3, <2>6, <2>7
<1>3. CASE UNCHANGED rows /\ Goto(d, "unclaim")
  BY <1>1, <1>3, MoveKeeps DEF PersistDraft, DraftSteps
<1>4. NewRow \in Row /\ [NewRow EXCEPT !.status = "published"] \in Row
  BY DEF NewRow, Row, AttemptStatus, DraftStatus, Confirmation, Lease
<1> QED BY <1>2, <1>3, <1>4 DEF PersistDraft

(* A request that failed gives its keys back only when it has no row.        *)
LEMMA UnclaimKeeps ==
  ASSUME IInv, NEW d \in Drafts, Unclaim(d) PROVE IInv'
<1>1. pc[d] = "unclaim" /\ Goto(d, "done") /\ faults' \in 0..MaxFaults
      /\ req' \in [Drafts -> Request] /\ \A h \in req[d].holders : Drafted(h)
  BY DEF Unclaim, At, IInv, TypeOK, InOrder
<1>2. CASE Drafted(d)
  BY <1>1, <1>2, MoveKeeps DEF Unclaim, DraftSteps
<1>3. CASE ~Drafted(d)
  <2> USE DEF IInv
  <2>1. /\ pc' \in [Drafts \cup Pairings -> DraftSteps \cup PairingSteps]
        /\ pc'[d] = "done" /\ \A e \in Drafts \ {d} : pc'[e] = pc[e]
    BY <1>1, GotoTyped DEF DraftSteps
  <2>2. LiveHoldsItsKeys' /\ claim' \in [Keys -> Drafts \cup {Free}]
    BY <1>3, <2>1, FreedKeeps DEF Unclaim
  <2>3. TypeOK'
    BY <2>1, <2>2 DEF Unclaim, TypeOK
  <2>4. InOrder'
    BY <1>1, <2>1 DEF InOrder, Unclaim, Drafted, KeysOf
  <2> QED BY <2>2, <2>3, <2>4
<1> QED BY <1>2, <1>3

(* The handlers change the row and no claim; a reopening is remembered.      *)
LEMMA AttemptMovesKeeps ==
  ASSUME IInv, NEW d \in Drafts, AttemptMoves(d) PROVE IInv'
<1> USE DEF IInv
<1>1. rows[d] \in Row /\ Drafted(d)
  BY DEF AttemptMoves, TypeOK, Drafted
<1>2. PICK r \in Row : rows' = [rows EXCEPT ![d] = r]
  <2> DEFINE moved == {RecordOutcome(rows[d], o, TRUE) : o \in Outcome}
                        \cup {ReleaseByStaff(rows[d], FALSE, TRUE), ApproveFromEvidence(rows[d]),
                              PublishFromPaidBooking(rows[d])}
                        \cup (IF Paid(rows[d]) THEN {Confirm(rows[d])} ELSE {})
  <2>1. \A r \in moved : r \in Row
    BY <1>1, StatementsKeepRow
  <2>2. \E r \in moved : rows' = [rows EXCEPT ![d] = r]
    BY DEF AttemptMoves
  <2> QED BY <2>1, <2>2
<1>3. /\ rows' \in [Drafts -> Row \cup {NoRow}]
      /\ rows'[d] = r /\ \A e \in Drafts \ {d} : rows'[e] = rows[e]
      /\ \A e \in Drafts : Drafted(e)' = Drafted(e)
  BY <1>1, <1>2, RowsKeep
<1>4. TypeOK'
  BY <1>3 DEF TypeOK, AttemptMoves
<1>5. InOrder'
  <2>1. \A e \in Drafts : \A g \in req[e].holders : g \in Drafts /\ rows'[g] # NoRow
    BY <1>3 DEF InOrder, Drafted, TypeOK, Request
  <2>2. \A e \in Drafts : pc[e] = "release" =>
           req[e].holder \in Drafts /\ rows'[req[e].holder] # NoRow
    BY <1>3 DEF InOrder, Drafted
  <2> QED BY <1>3, <2>1, <2>2 DEF InOrder, AttemptMoves, Drafted, KeysOf
<1>6. ASSUME NEW e \in Drafts, Live(e)' PROVE Live(e)
  <2>1. CASE e = d
    BY <1>1, <1>6, <2>1 DEF Live, AttemptMoves, Drafted
  <2>2. CASE e # d
    BY <1>3, <1>6, <2>2 DEF Live, AttemptMoves, Drafted
  <2> QED BY <2>1, <2>2
<1>7. LiveHoldsItsKeys'
  BY <1>6 DEF LiveHoldsItsKeys, AttemptMoves, KeysOf
<1> QED BY <1>4, <1>5, <1>7
-----------------------------------------------------------------------------
(* The steps of a pairing request, and a crash.                              *)

(* What a pairing request does leaves the draft requests and rows alone. *)
LEMMA PairingMoveKeeps ==
  ASSUME IInv, NEW p \in Pairings, NEW step \in PairingSteps, Goto(p, step),
         UNCHANGED <<claim, rows, reopened, req>>, faults' \in 0..MaxFaults,
         pairing' \in [Installs -> Names \cup {NoName}], ask' \in [Pairings -> Asked]
  PROVE  IInv'
<1> USE DEF IInv
<1>1. /\ pc' \in [Drafts \cup Pairings -> DraftSteps \cup PairingSteps]
      /\ \A d \in Drafts : pc'[d] = pc[d]
  BY GotoTyped, KeyAssumption
<1>2. TypeOK'
  BY <1>1 DEF TypeOK
<1>3. \A d \in Drafts : KeysOf(d)' = KeysOf(d) /\ Drafted(d)' = Drafted(d) /\ Live(d)' = Live(d)
  BY DEF KeysOf, Drafted, Live
<1>4. InOrder'
  <2>1. \A d \in Drafts : \A g \in req[d].holders : rows[g] # NoRow
    BY DEF InOrder, Drafted
  <2>2. \A d \in Drafts : pc[d] = "release" =>
           req[d].holder \in Drafts /\ rows[req[d].holder] # NoRow
    BY DEF InOrder, Drafted
  <2> QED BY <1>1, <1>3, <2>1, <2>2 DEF InOrder, Drafted
<1>5. LiveHoldsItsKeys'
  BY <1>1, <1>3 DEF LiveHoldsItsKeys
<1> QED BY <1>2, <1>4, <1>5

(* A pairing starts from what it reads and touches no claim.                 *)
LEMMA PairReadKeeps ==
  ASSUME IInv, NEW p \in Pairings, NEW i \in Installs, NEW n \in Names, NEW replace \in BOOLEAN,
         PairRead(p, i, n, replace)
  PROVE  IInv'
<1> DEFINE others == {j \in Installs \ {i} : pairing[j] = n}
           read   == IF others = {} THEN NoInstall ELSE CHOOSE j \in others : TRUE
           asked  == [install |-> i, name |-> n, holder |-> read]
<1>1. read \in Installs \cup {NoInstall}
  OBVIOUS
<1> HIDE DEF read
<1>2. asked \in Asked
  BY <1>1 DEF Asked
<1>3. ask' = [ask EXCEPT ![p] = asked]
  BY DEF PairRead, read
<1>4. ask' \in [Pairings -> Asked]
  BY <1>2, <1>3 DEF IInv, TypeOK
<1>5. /\ UNCHANGED <<claim, rows, reopened, req>> /\ faults' \in 0..MaxFaults
      /\ pairing' \in [Installs -> Names \cup {NoName}]
      /\ Goto(p, "done") \/ Goto(p, "check")
  BY DEF PairRead, IInv, TypeOK
<1>6. "done" \in PairingSteps /\ "check" \in PairingSteps
  BY DEF PairingSteps
<1>7. CASE Goto(p, "done")
  BY <1>4, <1>5, <1>6, <1>7, PairingMoveKeeps
<1>8. CASE Goto(p, "check")
  BY <1>4, <1>5, <1>6, <1>8, PairingMoveKeeps
<1> QED BY <1>5, <1>7, <1>8

(* Revoking and activating a pairing change no claim, row or draft request.  *)
LEMMA PairStepKeeps ==
  ASSUME IInv, NEW p \in Pairings, PairCheck(p) \/ PairRevoke(p) \/ PairActivate(p) PROVE IInv'
<1> USE DEF PairingSteps
<1>1. /\ UNCHANGED <<claim, rows, reopened, req>> /\ faults' \in 0..MaxFaults
      /\ ask' \in [Pairings -> Asked]
  BY DEF PairCheck, PairRevoke, PairActivate, IInv, TypeOK
<1>2. pairing \in [Installs -> Names \cup {NoName}] /\ ask[p] \in Asked
  BY DEF IInv, TypeOK
<1>3. pairing' \in [Installs -> Names \cup {NoName}]
  <2>1. CASE PairCheck(p)
    BY <1>2, <2>1 DEF PairCheck
  <2>2. CASE PairRevoke(p)
    BY <1>2, <2>2 DEF PairRevoke
  <2>3. CASE PairActivate(p)
    BY <1>2, <2>3 DEF PairActivate, Asked
  <2> QED BY <2>1, <2>2, <2>3
<1>4. \/ Goto(p, "done") \/ Goto(p, "revoke") \/ Goto(p, "activate")
  BY DEF PairCheck, PairRevoke, PairActivate
<1>5. CASE Goto(p, "done")
  BY <1>1, <1>3, <1>5, PairingMoveKeeps
<1>6. CASE Goto(p, "revoke")
  BY <1>1, <1>3, <1>6, PairingMoveKeeps
<1>7. CASE Goto(p, "activate")
  BY <1>1, <1>3, <1>7, PairingMoveKeeps
<1> QED BY <1>4, <1>5, <1>6, <1>7

(* A crash frees nothing and drafts nothing.                                 *)
LEMMA CrashKeeps ==
  ASSUME IInv, NEW p \in Drafts \cup Pairings, Crash(p) PROVE IInv'
<1>1. /\ Goto(p, "done") /\ pc[p] \notin {"idle", "done"}
      /\ UNCHANGED <<pairing, claim, rows, reopened, req, ask>>
      /\ "done" \in DraftSteps \ {"idle"} /\ "done" \in PairingSteps
  BY DEF Crash, DraftSteps, PairingSteps
<1>2. /\ faults' \in 0..MaxFaults /\ req' \in [Drafts -> Request]
      /\ pairing' \in [Installs -> Names \cup {NoName}] /\ ask' \in [Pairings -> Asked]
  BY KeyAssumption DEF Crash, IInv, TypeOK
<1>3. CASE p \in Drafts
  <2>1. \A h \in req'[p].holders : Drafted(h)
    BY <1>1, <1>3 DEF IInv, InOrder
  <2> QED BY <1>1, <1>2, <1>3, <2>1, MoveKeeps
<1>4. CASE p \in Pairings
  BY <1>1, <1>2, <1>4, PairingMoveKeeps
<1> QED BY <1>3, <1>4
LEMMA NextKeeps == IInv /\ [Next]_vars => IInv'
<1> SUFFICES ASSUME IInv, [Next]_vars PROVE IInv'
  OBVIOUS
<1>1. ASSUME NEW d \in Drafts, DraftStep(d) PROVE IInv'
  BY <1>1, SelectKeeps, ClaimKeeps, ReleasePartialKeeps, ReadHoldersKeeps, HolderEvidenceKeeps,
     ReleaseHolderKeeps, CreateDraftKeeps, PersistDraftKeeps, UnclaimKeeps, AttemptMovesKeeps
     DEF DraftStep
<1>2. ASSUME NEW p \in Pairings, PairingStep(p) PROVE IInv'
  BY <1>2, PairReadKeeps, PairStepKeeps DEF PairingStep
<1>3. ASSUME NEW p \in Drafts \cup Pairings, Crash(p) PROVE IInv'
  BY <1>3, CrashKeeps
<1>4. CASE UNCHANGED vars
  BY <1>4 DEF vars, IInv, TypeOK, InOrder, LiveHoldsItsKeys, Live, Drafted, KeysOf
<1> QED BY <1>1, <1>2, <1>3, <1>4 DEF Next

(* IInv holds in every reachable state.                                      *)
LEMMA Inductive == Spec => []IInv
<1> QED BY InitInv, NextKeeps, PTL DEF Spec

(* Pairings, claims, rows and requests keep their types: in particular every *)
(* row that claims, drafts and releases produce is one the kiosk payment     *)
(* handlers can meet.                                                        *)
THEOREM ClaimsTypeCorrect == Spec => []TypeOK
<1>1. IInv => TypeOK
  BY DEF IInv
<1> QED BY <1>1, Inductive, PTL

(* The claim statement, the guarded release and the take-over test of D0220  *)
(* and D0278 together: a request that goes on to ROLLER, and every live      *)
(* attempt, holds both its installation and its terminal.                    *)
THEOREM LiveHoldsItsKeys_Always == Spec => []LiveHoldsItsKeys
<1>1. IInv => LiveHoldsItsKeys
  BY DEF IInv
<1> QED BY <1>1, Inductive, PTL

(* A key has one holder, so two live attempts never share a kiosk or a       *)
(* terminal, for any number of requests, kiosks, pairings and crashes.       *)
THEOREM OneLivePayment_Always == Spec => []OneLivePayment
<1>1. IInv => OneLivePayment
  BY DEF IInv, OneLivePayment, LiveHoldsItsKeys
<1> QED BY <1>1, Inductive, PTL

-----------------------------------------------------------------------------
(* Claims nobody answers for.                                                *)

(* A request holds nothing before it claims, and after its partial claim was *)
(* released.                                                                 *)
HoldsNothingYet ==
  \A d \in Drafts : pc[d] \in {"idle", "claim", "holders", "evidence", "release"} =>
    \A k \in Keys : claim[k] # d

Answered == NoOrphanClaim /\ HoldsNothingYet

(* A step that moves one request, takes no claim and leaves what was drafted *)
(* drafted keeps claims answered, if a request that ends holds none.         *)
LEMMA MoveAnswered ==
  ASSUME IInv, Answered, NEW d \in Drafts, \A q \in Drafts \ {d} : pc'[q] = pc[q],
         \A k \in Keys : claim'[k] \in {claim[k], Free},
         \A e \in Drafts : Drafted(e) => Drafted(e)',
         faults \in Nat, faults' \in Nat, faults' >= faults,
         pc'[d] = "done" => \/ pc[d] = "done" \/ Drafted(d)' \/ faults' > 0
                           \/ \A k \in Keys : claim'[k] # d,
         pc'[d] \in {"idle", "claim", "holders", "evidence", "release"} =>
           \A k \in Keys : claim'[k] # d
  PROVE  Answered'
<1>1. HoldsNothingYet'
  BY KeyAssumption DEF HoldsNothingYet, Answered
<1>2. ASSUME NEW k \in Keys, claim'[k] # Free
      PROVE  claim[k] = claim'[k] /\ claim[k] \in Drafts
             /\ (Drafted(claim[k]) \/ pc[claim[k]] # "done" \/ faults > 0)
  BY <1>2 DEF Answered, NoOrphanClaim, IInv, TypeOK
<1>3. ASSUME NEW e \in Drafts, NEW k \in Keys, claim'[k] = e
      PROVE  Drafted(e)' \/ pc'[e] # "done" \/ faults' > 0
  <2>1. claim[k] = e /\ (Drafted(e) \/ pc[e] # "done" \/ faults > 0)
    BY <1>2, <1>3, KeyAssumption
  <2>2. faults > 0 => faults' > 0
    OBVIOUS
  <2>3. CASE e = d
    BY <1>3, <2>1, <2>2, <2>3
  <2>4. CASE e # d
    BY <2>1, <2>2, <2>4
  <2> QED BY <2>3, <2>4
<1>4. NoOrphanClaim'
  BY <1>2, <1>3 DEF NoOrphanClaim, Drafted
<1> QED BY <1>1, <1>4 DEF Answered

(* Answered is inductive relative to IInv.                                   *)
LEMMA NextAnswered ==
  ASSUME IInv, Answered, [Next]_vars PROVE Answered'
<1> DEFINE Early == {"idle", "claim", "holders", "evidence", "release"}
<1>0. /\ faults \in Nat
      /\ pc \in [Drafts \cup Pairings -> DraftSteps \cup PairingSteps]
      /\ \A e \in Drafts : pc[e] \in Early => \A k \in Keys : claim[k] # e
  BY KeyAssumption DEF IInv, TypeOK, Answered, HoldsNothingYet
<1>1. ASSUME NEW d \in Drafts, \/ \E i \in Installs : SelectTerminal(d, i)
                               \/ HolderEvidence(d) \/ ReadHolders(d)
      PROVE  Answered'
  <2>1. /\ pc[d] \in Early /\ UNCHANGED <<claim, rows, faults>>
        /\ \A q \in Drafts \ {d} : pc'[q] = pc[q]
    BY <1>0, <1>1 DEF SelectTerminal, HolderEvidence, ReadHolders, At, Goto
  <2>2. \A k \in Keys : claim'[k] # d /\ claim'[k] = claim[k]
    BY <1>0, <2>1
  <2>3. \A e \in Drafts : Drafted(e) => Drafted(e)'
    BY <2>1 DEF Drafted
  <2> QED BY <1>0, <2>1, <2>2, <2>3, MoveAnswered
<1>2. ASSUME NEW d \in Drafts, Claim(d) PROVE Answered'
  <2>1. /\ pc[d] = "claim" /\ pc'[d] \in {"draft", "partial"} /\ UNCHANGED <<rows, faults>>
        /\ \A q \in Drafts \ {d} : pc'[q] = pc[q]
    BY <1>0, <1>2 DEF Claim, At, Goto
  <2>2. \A k \in Keys : claim'[k] \in {claim[k], d}
    BY <1>2 DEF Claim
  <2>3. HoldsNothingYet'
    BY <1>0, <2>1, <2>2 DEF HoldsNothingYet
  <2>4. NoOrphanClaim'
    <3> SUFFICES ASSUME NEW k \in Keys, claim'[k] # Free
                 PROVE  rows'[claim'[k]] # NoRow \/ pc'[claim'[k]] # "done" \/ faults' > 0
      BY DEF NoOrphanClaim, Drafted
    <3>1. CASE claim'[k] = d
      BY <2>1, <3>1
    <3>2. CASE claim'[k] # d
      <4>1. /\ claim[k] = claim'[k] /\ claim[k] \in Drafts \ {d}
            /\ (rows[claim[k]] # NoRow \/ pc[claim[k]] # "done" \/ faults > 0)
        BY <2>2, <3>2 DEF Answered, NoOrphanClaim, Drafted, IInv, TypeOK
      <4> QED BY <2>1, <4>1
    <3> QED BY <3>1, <3>2
  <2> QED BY <2>3, <2>4 DEF Answered
<1>3. ASSUME NEW d \in Drafts, ReleasePartial(d) PROVE Answered'
  <2>1. /\ UNCHANGED <<rows, faults>> /\ \A q \in Drafts \ {d} : pc'[q] = pc[q]
    BY <1>0, <1>3 DEF ReleasePartial, Goto
  <2>2. \A k \in Keys : claim'[k] # d /\ claim'[k] \in {claim[k], Free}
    BY <1>3, KeyAssumption DEF ReleasePartial, Freed
  <2>3. \A e \in Drafts : Drafted(e) => Drafted(e)'
    BY <2>1 DEF Drafted
  <2> QED BY <1>0, <2>1, <2>2, <2>3, MoveAnswered
<1>4. ASSUME NEW d \in Drafts, ReleaseHolder(d) PROVE Answered'
  <2>1. /\ pc[d] \in Early /\ UNCHANGED <<claim, faults>>
        /\ \A q \in Drafts \ {d} : pc'[q] = pc[q]
    BY <1>0, <1>4 DEF ReleaseHolder, At, Goto
  <2>2. \A k \in Keys : claim'[k] # d /\ claim'[k] = claim[k]
    BY <1>0, <2>1
  <2>3. \A e \in Drafts : Drafted(e) => Drafted(e)'
    <3>1. req[d].holder \in Drafts /\ rows[req[d].holder] \in Row
      BY <1>4 DEF IInv, InOrder, TypeOK, ReleaseHolder, At, Drafted
    <3>2. ReleaseAbandoned(rows[req[d].holder], FALSE, TRUE) # NoRow
      BY <3>1, StatementsKeepRow, KeyAssumption
    <3> QED BY <1>4, <3>1, <3>2 DEF ReleaseHolder, Drafted, IInv, TypeOK
  <2> QED BY <1>0, <2>1, <2>2, <2>3, MoveAnswered
<1>5. ASSUME NEW d \in Drafts, CreateDraft(d) PROVE Answered'
  <2>1. /\ pc'[d] \in {"persist", "unclaim"} /\ UNCHANGED <<claim, rows, faults>>
        /\ \A q \in Drafts \ {d} : pc'[q] = pc[q]
    BY <1>0, <1>5 DEF CreateDraft, Goto
  <2>2. \A e \in Drafts : Drafted(e) => Drafted(e)'
    BY <2>1 DEF Drafted
  <2> QED BY <1>0, <2>1, <2>2, MoveAnswered
<1>6. ASSUME NEW d \in Drafts, PersistDraft(d) PROVE Answered'
  <2>1. NewRow # NoRow /\ [NewRow EXCEPT !.status = "published"] # NoRow
    <3>1. NewRow \in Row /\ [NewRow EXCEPT !.status = "published"] \in Row
      BY DEF NewRow, Row, AttemptStatus, DraftStatus, Confirmation, Lease
    <3> QED BY <3>1, KeyAssumption
  <2>2. /\ UNCHANGED <<claim, faults>> /\ \A q \in Drafts \ {d} : pc'[q] = pc[q]
        /\ pc'[d] \in {"done", "unclaim"} /\ (pc'[d] = "done" => Drafted(d)')
        /\ \A e \in Drafts : Drafted(e) => Drafted(e)'
    BY <1>0, <1>6, <2>1 DEF PersistDraft, Goto, Drafted, IInv, TypeOK
  <2> QED BY <1>0, <2>2, MoveAnswered
<1>7. ASSUME NEW d \in Drafts, Unclaim(d) PROVE Answered'
  <2>1. /\ pc'[d] = "done" /\ UNCHANGED <<rows, faults>>
        /\ \A q \in Drafts \ {d} : pc'[q] = pc[q]
    BY <1>0, <1>7 DEF Unclaim, Goto
  <2>2. \A k \in Keys : claim'[k] \in {claim[k], Free} /\ (Drafted(d) \/ claim'[k] # d)
    BY <1>7, KeyAssumption DEF Unclaim, Freed
  <2>3. \A e \in Drafts : Drafted(e) => Drafted(e)'
    BY <2>1 DEF Drafted
  <2> QED BY <1>0, <2>1, <2>2, <2>3, MoveAnswered
<1>8. ASSUME NEW d \in Drafts, AttemptMoves(d) PROVE Answered'
  <2>1. UNCHANGED <<claim, pc, faults>>
    BY <1>8 DEF AttemptMoves
  <2>2. \A e \in Drafts : Drafted(e) => Drafted(e)'
    <3>1. rows[d] \in Row
      BY <1>8 DEF AttemptMoves, IInv, TypeOK, Drafted
    <3>2. PICK r \in Row : rows' = [rows EXCEPT ![d] = r]
      BY <1>8, <3>1, StatementsKeepRow DEF AttemptMoves
    <3> QED BY <3>2, KeyAssumption DEF Drafted, IInv, TypeOK
  <2> QED BY <1>0, <2>1, <2>2, MoveAnswered DEF Answered, HoldsNothingYet
<1>9. ASSUME NEW p \in Pairings, PairingStep(p) \/ Crash(p) PROVE Answered'
  <2>1. /\ UNCHANGED <<claim, rows>> /\ faults' \in {faults, faults + 1}
        /\ \A d \in Drafts : pc'[d] = pc[d]
    BY <1>0, <1>9, KeyAssumption
       DEF PairingStep, PairRead, PairCheck, PairRevoke, PairActivate, Crash, Goto
  <2>2. \A k \in Keys : claim[k] # Free => claim[k] \in Drafts
    BY DEF IInv, TypeOK
  <2>3. faults > 0 => faults' > 0
    BY <1>0, <2>1
  <2>4. HoldsNothingYet'
    BY <1>0, <2>1 DEF HoldsNothingYet
  <2>5. NoOrphanClaim'
    BY <2>1, <2>2, <2>3 DEF Answered, NoOrphanClaim, Drafted
  <2> QED BY <2>4, <2>5 DEF Answered
<1>10. ASSUME NEW d \in Drafts, Crash(d) PROVE Answered'
  <2>1. /\ pc'[d] = "done" /\ UNCHANGED <<claim, rows>> 
        /\ faults' > 0 /\ faults' >= faults /\ faults' \in Nat
        /\ \A q \in Drafts \ {d} : pc'[q] = pc[q]
    BY <1>0, <1>10 DEF Crash, Goto
  <2>2. \A e \in Drafts : Drafted(e) => Drafted(e)'
    BY <2>1 DEF Drafted
  <2> QED BY <1>0, <2>1, <2>2, MoveAnswered
<1>11. CASE UNCHANGED vars
  BY <1>11 DEF vars, Answered, NoOrphanClaim, HoldsNothingYet, Drafted
<1> QED BY <1>1, <1>2, <1>3, <1>4, <1>5, <1>6, <1>7, <1>8, <1>9, <1>10, <1>11
        DEF Next, DraftStep

(* D0278: without a lambda that dies or a failed statement no key stays held *)
(* by a request that ended before its draft was stored.                      *)
THEOREM NoOrphanClaim_Always == Spec => []NoOrphanClaim
<1>1. Init => Answered
  BY KeyAssumption DEF Init, Answered, NoOrphanClaim, HoldsNothingYet
<1>2. IInv /\ Answered /\ [Next]_vars => Answered'
  BY NextAnswered
<1>3. Answered => NoOrphanClaim
  BY DEF Answered
<1> QED BY <1>1, <1>2, <1>3, Inductive, PTL DEF Spec
=============================================================================
